----------------------------- MODULE MCStrides -----------------------------
(***************************************************************************)
(* One job of Mesa's with 2^15 rows of 2^15 numbers: M * N * 2 is -2^31 as *)
(* an int.  (The rk3588 generator refuses such a call.)                    *)
(***************************************************************************)
EXTENDS CommandFetch

MCU32 == 2147483647

InputPage == {12, 31}
WeightsPage == {13, 30}
OutputPage == {14, 29}
=============================================================================
