---------------------------- MODULE MinimalClient ----------------------------
(***************************************************************************)
(* The three small programs under src/tests (minimal_mesa_test.c,          *)
(* minimal_npu_test.c, test_cna_enable.c) on the library: they differ in   *)
(* the commands they write (RegcmdMinimal) and in the timeout of the wait. *)
(* pc is the place in main().  "cleanup" and "closing" are the calls at    *)
(* its end and on its error paths; a failing call that changes nothing     *)
(* leads there, as the NULL the programs check rocket_bo_map for would.    *)
(***************************************************************************)
EXTENDS RocketInterface

CONSTANT Regcmd       \* the only BO, of the commands

VARIABLES program, pc

allVars == <<vars, program, pc>>

(* 5000, meant as 5 seconds, or -1.                                        *)
Wait == [minimal_mesa_test |-> "waiting", test_cna_enable |-> "waiting",
         minimal_npu_test |-> "blocked"]

ClientInit ==
  /\ Init
  /\ program \in DOMAIN Wait
  /\ pc = "open"

Goto(from, to) == pc = from /\ pc' = to /\ UNCHANGED program

OpenDevice ==
  \/ (\E n \in Nodes : Open(n)) /\ Goto("open", "create")
  \/ OpenFails /\ Goto("open", "done")

CreateBuffer ==
  \/ Create(Regcmd) /\ Goto("create", "create")
  \/ CreateMmapFails(Regcmd) /\ Goto("create", "create")
  \/ (\E a \in Addrs : CreateMmap(Regcmd, a)) /\ Goto("create", "fini")

CreateFails ==
  /\ CreateUndo(Regcmd) \/ (stage[Regcmd] = "zero" /\ UNCHANGED vars)
  /\ Goto("create", "closing")

Fini == Goto("fini", "submit") /\ UNCHANGED vars

(* The job lists no BO, neither as input nor as output.                    *)
SubmitJobOfNone ==
  /\ \E j \in Jobs : Submit(j, Regcmd, {}, {})
  /\ Goto("submit", "prep")

Prep ==
  \/ PrepEnter(Regcmd, Wait[program]) /\ Goto("prep", "prep")
  \/ PrepReturn(Regcmd) /\ Goto("prep", "completed")
  \/ PrepTimeout(Regcmd) /\ Goto("prep", "cleanup")

CallFails ==
  /\ stage[Regcmd] = "live" /\ UNCHANGED vars
  /\ \E place \in {"fini", "submit", "prep"} : Goto(place, "cleanup")

Cleanup ==
  \/ /\ DestroyUnmap(Regcmd)
     /\ Goto("completed", "cleanup") \/ Goto("cleanup", "cleanup")
  \/ DestroyClose(Regcmd) /\ Goto("cleanup", "closing")
  \/ Close /\ Goto("closing", "done")

ClientNext ==
  \/ OpenDevice \/ CreateBuffer \/ CreateFails \/ Fini \/ SubmitJobOfNone \/ Prep
  \/ CallFails \/ Cleanup
  \/ (\E j \in Jobs : NpuDone(j)) /\ UNCHANGED <<program, pc>>

MinimalSpec == ClientInit /\ [][ClientNext]_allVars

-----------------------------------------------------------------------------
(* "NPU job completed successfully!": the program says so of a job that is *)
(* done.                                                                   *)
CompletedMeansDone == pc = "completed" => \A j \in Jobs : ~Unfinished(j)
=============================================================================
