------------------------- MODULE MCRocketInterface -------------------------
(***************************************************************************)
(* Instances of RocketInterface for TLC.  2^32 is scaled to 4: size 3 fits *)
(* the ioctl's field and size 5 is cut to 1.  There is an object more than *)
(* BOs, to be taken while a job still holds one that was dropped; handles  *)
(* and addresses are as many as BOs, so that stale ones are soon reused.   *)
(***************************************************************************)
EXTENDS RocketInterface, TLC

MCSizes == {3, 5}
MCSmall == {3}
MCU32 == 4

(* Everything but the struct fields' values is interchangeable.            *)
Symmetry == Permutations(Bos) \cup Permutations(Handles) \cup Permutations(Objs)
              \cup Permutations(Dmas) \cup Permutations(Addrs) \cup Permutations(Jobs)
=============================================================================
