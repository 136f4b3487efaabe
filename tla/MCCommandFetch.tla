--------------------------- MODULE MCCommandFetch ---------------------------
(***************************************************************************)
(* Two jobs, in the code's own widths: the least and the greatest sizes    *)
(* the test program lets through, and 2^14 channels, the most an fp16      *)
(* kernel can have.  TLC's integers end at 2^31 - 1, which stands for 2^32 *)
(* here: no size of these calls reaches it.  The addresses are pages.      *)
(***************************************************************************)
EXTENDS CommandFetch

MCMs == {1, 44, 384}
MCKs == {32, 4096, 16384}
MCNs == {16, 4096}
MCU32 == 2147483647

InputPage == {12, 31}
WeightsPage == {13, 30}
OutputPage == {14, 29}

\* The hypotheses of JobArrives and of CommandsReach.
ASSUME RunSizesFit == SizesFit /\ StridesFit
=============================================================================
