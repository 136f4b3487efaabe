--------------------------- MODULE MCMatmulClient ---------------------------
(***************************************************************************)
(* The whole program is one instance: four BOs and one job.  A fifth       *)
(* handle, object or address could never be taken.                         *)
(***************************************************************************)
EXTENDS MatmulClient

CONSTANTS regcmd, input, weights, output

MCBos == {regcmd, input, weights, output}
MCSizes == {3}
MCU32 == 4
=============================================================================
