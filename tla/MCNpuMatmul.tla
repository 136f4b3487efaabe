---------------------------- MODULE MCNpuMatmul ----------------------------
(***************************************************************************)
(* Two instances.  Narrow: 6-bit shorts, 12-bit ints and banks of half a   *)
(* short, as in the code, so that every pair of dimensions a uint16_t can  *)
(* hold is tried, with all that wraps.  Wide: the code's own 16 bits and   *)
(* banks, for the dimensions the test program lets through; TLC's integers *)
(* end at 2^31 - 1, which stands for 2^32 here: no size of those           *)
(* dimensions reaches it.                                                  *)
(***************************************************************************)
EXTENDS NpuMatmul

NarrowShorts == 0..63
NarrowNs == {1, 16, 63}

(* "multiple of 4, or 1, max 384", "multiple of 32, max 4096" and "of 16". *)
WideMs == {1} \cup {4 * i : i \in {1, 2, 22, 43, 44, 45, 96}}
WideKs == {32 * i : i \in 1..128}
WideNs == {16 * i : i \in {1, 2, 255, 256}}
WideU32 == 2147483647
=============================================================================
