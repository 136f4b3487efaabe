-------------------------- MODULE MCMinimalClient --------------------------
(***************************************************************************)
(* A small program is one instance: one BO and one job.                    *)
(***************************************************************************)
EXTENDS MinimalClient

CONSTANT regcmd

MCBos == {regcmd}
MCSizes == {3}
MCU32 == 4
=============================================================================
