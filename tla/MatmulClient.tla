---------------------------- MODULE MatmulClient ----------------------------
(***************************************************************************)
(* src/tests/matmul_fp16_rocket.c: the program that multiplies two         *)
(* matrices on the NPU, composed with the library (RocketInterface), the   *)
(* driver and the NPU, and the CPU caches between the program and the      *)
(* memory the NPU works on.                                                *)
(*                                                                         *)
(* pc is the place in main().  A buffer's contents are what the properties *)
(* tell apart: "data" is what the program laid out in it, "zero" what      *)
(* memset put there, "partial" and below what the NPU wrote.  All lines of *)
(* a buffer are cached, cleaned and invalidated together.                  *)
(*                                                                         *)
(* Which handle, object and addresses the system picks makes no difference *)
(* here (RocketInterface explores the choice): the first free one is taken;*)
(* if none is, the call fails.                                             *)
(***************************************************************************)
EXTENDS RocketInterface, Sequences

CONSTANTS Regcmd, Input, Weights, Output      \* the four BOs of main()

CreationOrder == <<Regcmd, Input, Weights, Output>>

ASSUME ProgramBos  == Bos = {Regcmd, Input, Weights, Output}
ASSUME DistinctBos == \A i, j \in 1..4 : CreationOrder[i] = CreationOrder[j] => i = j

VARIABLES pc,         \* where main() is
          made,       \* how many BOs it has created and not destroyed
          synced,     \* how many it has passed to rocket_bo_fini
          unsynced,   \* those of which rocket_bo_fini failed: main() goes on
                      \* and forgets it, only the properties look here
          cache,      \* contents of a buffer as the CPU sees them
          mem,        \* contents of a buffer as the NPU sees them
          dirty,      \* the CPU's copy is newer than memory
          npu,        \* progress of the job on the NPU, then its result
          verdict     \* what main() has printed about the result

cpuVars == <<cache, mem, dirty>>
progVars == <<pc, made, synced, unsynced, verdict>>
allVars == <<vars, pc, made, synced, unsynced, cache, mem, dirty, npu, verdict>>

(* What the NPU can leave in the output buffer: the product or not, and    *)
(* agreeing or not with the expected result wherever main() compares them. *)
(* The two differ: the comparison leaves out the last column (n < N), and  *)
(* the feature_data that the library is linked with (npu_matmul_mesa.c)    *)
(* is a stub that names element 0 for every place.  "fromStale": computed  *)
(* from operands or commands that had not reached memory, or whose address *)
(* was not valid any more.                                                 *)
Results == {"product", "productDisagrees", "wrongAgrees", "wrong"}
Contents == {"garbage", "data", "zero", "partial", "fromStale"} \cup Results

ClientInit ==
  /\ Init
  /\ pc = "open"
  /\ made = 0
  /\ synced = 0
  /\ unsynced = {}
  /\ cache = [b \in Bos |-> "garbage"]
  /\ mem = [b \in Bos |-> "garbage"]
  /\ dirty = [b \in Bos |-> FALSE]
  /\ npu = "idle"
  /\ verdict = "none"

-----------------------------------------------------------------------------
(* Opening the device and creating the buffers.                            *)

OpenDevice ==
  /\ pc = "open"
  /\ \/ (\E n \in Nodes : Open(n)) /\ pc' = "create"
     \/ OpenFails /\ pc' = "done"
  /\ UNCHANGED <<made, synced, unsynced, cpuVars, npu, verdict>>

Next1 == CreationOrder[made + 1]      \* the BO that is created next

CreateBuffer ==
  /\ pc = "create"
  /\ (\E x \in Handles : gem[x] = NoObj) /\ (\E x \in Objs : ~Allocated(x))
  /\ \E x \in Dmas : \A y \in Handles : iova[y] # x
  /\ LET h == CHOOSE x \in Handles : gem[x] = NoObj
         o == CHOOSE x \in Objs : ~Allocated(x)
         d == CHOOSE x \in Dmas : \A y \in Handles : iova[y] # x
     IN  \E s \in Sizes : CreateIoctl(Next1, s, h, o, d)
  /\ UNCHANGED <<progVars, cpuVars, npu>>

MapBuffer ==
  /\ pc = "create"
  /\ \E x \in Addrs : vma[x] = NoObj
  /\ CreateMmap(Next1, CHOOSE x \in Addrs : vma[x] = NoObj)
  /\ made' = made + 1
  /\ pc' = IF made' = Len(CreationOrder) THEN "layout" ELSE "create"
  /\ UNCHANGED <<synced, unsynced, cpuVars, npu, verdict>>

MapFails ==
  /\ pc = "create"
  /\ CreateMmapFails(Next1)
  /\ UNCHANGED <<progVars, cpuVars, npu>>

(* A failed rocket_bo_create jumps to the label that destroys the buffers  *)
(* created so far.                                                         *)
CreateFailsExtra ==    \* mutant: destroys the buffer that failed too
  /\ pc = "create"
  /\ \/ stage[Next1] = "zero" /\ UNCHANGED vars
     \/ CreateUndo(Next1)
  /\ pc' = "cleanup"
  /\ made' = made + 1
  /\ UNCHANGED <<synced, unsynced, cpuVars, npu, verdict>>

CreateFails ==
  /\ pc = "create"
  /\ \/ stage[Next1] = "zero" /\ UNCHANGED vars
     \/ CreateUndo(Next1)
  /\ pc' = "cleanup"
  /\ UNCHANGED <<made, synced, unsynced, cpuVars, npu, verdict>>

-----------------------------------------------------------------------------
(* Generating and laying out, syncing, submitting and waiting.             *)

(* memcpy of the commands, the layout loops and the memset of the output.  *)
LayOutUnsynced ==      \* mutant: submits without rocket_bo_fini
  /\ pc = "layout"
  /\ cache' = [b \in Bos |-> IF b = Output THEN "zero" ELSE "data"]
  /\ dirty' = [b \in Bos |-> TRUE]
  /\ pc' = "submit"
  /\ UNCHANGED <<vars, made, synced, unsynced, mem, npu, verdict>>

LayOut ==
  /\ pc = "layout"
  /\ cache' = [b \in Bos |-> IF b = Output THEN "zero" ELSE "data"]
  /\ dirty' = [b \in Bos |-> TRUE]
  /\ pc' = "fini"
  /\ UNCHANGED <<vars, made, synced, unsynced, mem, npu, verdict>>

(* gen_matmul_fp16 returns an error (npu_matmul.c has such returns, the    *)
(* generator of npu_matmul_mesa.c has none).                               *)
GenerateFails ==
  /\ pc = "layout"
  /\ pc' = "cleanup"
  /\ UNCHANGED <<vars, made, synced, unsynced, cpuVars, npu, verdict>>

(* rocket_bo_fini writes the CPU's copy back, or its ioctl fails and does  *)
(* nothing: it returns -errno, which main() does not look at.              *)
rocket_bo_fini(b) ==
  /\ stage[b] = "live"
  /\ \/ /\ mem' = [mem EXCEPT ![b] = cache[b]]
        /\ dirty' = [dirty EXCEPT ![b] = FALSE]
        /\ UNCHANGED unsynced
     \/ unsynced' = unsynced \cup {b} /\ UNCHANGED <<mem, dirty>>
  /\ UNCHANGED <<vars, cache>>

FiniInputs ==          \* mutant: the output is not passed to rocket_bo_fini
  /\ pc = "fini"
  /\ rocket_bo_fini(CreationOrder[synced + 1])
  /\ synced' = synced + 1
  /\ pc' = IF synced' = 3 THEN "submit" ELSE "fini"
  /\ UNCHANGED <<made, npu, verdict>>

Fini ==
  /\ pc = "fini"
  /\ rocket_bo_fini(CreationOrder[synced + 1])
  /\ synced' = synced + 1
  /\ pc' = IF synced' = Len(CreationOrder) THEN "submit" ELSE "fini"
  /\ UNCHANGED <<made, npu, verdict>>

SubmitNoOutput ==      \* mutant: the output is listed as an input
  /\ pc = "submit"
  /\ \E j \in Jobs : Submit(j, Regcmd, {Input, Weights, Regcmd, Output}, {})
  /\ npu' = "queued"
  /\ pc' = "prep"
  /\ UNCHANGED <<made, synced, unsynced, cpuVars, verdict>>

SubmitUnlisted ==      \* mutant: the command BO is not listed
  /\ pc = "submit"
  /\ \E j \in Jobs : Submit(j, Regcmd, {Input, Weights}, {Output})
  /\ npu' = "queued"
  /\ pc' = "prep"
  /\ UNCHANGED <<made, synced, unsynced, cpuVars, verdict>>

SubmitJobs ==
  /\ pc = "submit"
  /\ \E j \in Jobs : Submit(j, Regcmd, {Input, Weights, Regcmd}, {Output})
  /\ npu' = "queued"
  /\ pc' = "prep"
  /\ UNCHANGED <<made, synced, unsynced, cpuVars, verdict>>

SubmitFailsReturns ==  \* mutant: returns instead of cleaning up
  /\ pc = "submit"
  /\ pc' = "done"
  /\ UNCHANGED <<vars, made, synced, unsynced, cpuVars, npu, verdict>>

SubmitFails ==
  /\ pc = "submit"
  /\ pc' = "cleanup"
  /\ UNCHANGED <<vars, made, synced, unsynced, cpuVars, npu, verdict>>

StartWaitForEver ==    \* mutant: -1 for the timeout
  /\ pc = "prep" /\ PrepEnter(Output, "blocked")
  /\ UNCHANGED <<progVars, cpuVars, npu>>

StartWait ==
  /\ pc = "prep" /\ PrepEnter(Output, "waiting")
  /\ UNCHANGED <<progVars, cpuVars, npu>>

(* The wait is over: the CPU's copy of the output is dropped.              *)
EndWait ==
  /\ pc = "prep" /\ PrepReturn(Output)
  /\ cache' = [cache EXCEPT ![Output] = mem[Output]]
  /\ dirty' = [dirty EXCEPT ![Output] = FALSE]
  /\ pc' = "verify"
  /\ UNCHANGED <<made, synced, unsynced, mem, npu, verdict>>

WaitTimesOut ==
  /\ pc = "prep" /\ PrepTimeout(Output)
  /\ pc' = "cleanup"
  /\ UNCHANGED <<made, synced, unsynced, cpuVars, npu, verdict>>

Verify ==
  /\ pc = "verify"
  /\ verdict' = IF cache[Output] \in {"product", "wrongAgrees"} THEN "verified" ELSE "mismatch"
  /\ pc' = "cleanup"
  /\ UNCHANGED <<vars, made, synced, unsynced, cpuVars, npu>>

-----------------------------------------------------------------------------
(* The labels err_free_output .. err_close, also passed on success.        *)

DestroyNext ==
  /\ pc = "cleanup" /\ made > 0
  /\ DestroyUnmap(CreationOrder[made])
  /\ UNCHANGED <<progVars, cpuVars, npu>>

DestroyEndsSkips ==    \* mutant: passes over the next label
  /\ pc = "cleanup" /\ made > 0
  /\ DestroyClose(CreationOrder[made])
  /\ made' = made - 2
  /\ UNCHANGED <<pc, synced, unsynced, cpuVars, npu, verdict>>

DestroyEnds ==
  /\ pc = "cleanup" /\ made > 0
  /\ DestroyClose(CreationOrder[made])
  /\ made' = made - 1
  /\ UNCHANGED <<pc, synced, unsynced, cpuVars, npu, verdict>>

CloseDevice ==
  /\ pc = "cleanup" /\ made = 0
  /\ Close
  /\ pc' = "done"
  /\ UNCHANGED <<made, synced, unsynced, cpuVars, npu, verdict>>

-----------------------------------------------------------------------------
(* The NPU and the caches.                                                 *)

(* A started job scribbles over its output until it is finished with it.   *)
NpuStarts ==
  /\ npu = "queued" /\ \E j \in Jobs : Unfinished(j)
  /\ npu' = "running"
  /\ mem' = [mem EXCEPT ![Output] = "partial"]
  /\ UNCHANGED <<vars, progVars, cache, dirty>>

(* It finds commands and operands if they are in memory and their handles, *)
(* hence their DMA addresses, still exist.                                 *)
NpuWrites ==
  /\ npu = "running" /\ \E j \in Jobs : Unfinished(j)
  /\ npu' \in IF \A b \in {Regcmd, Input, Weights} : Holds(b) /\ mem[b] = "data"
             THEN Results ELSE {"fromStale"}
  /\ mem' = [mem EXCEPT ![Output] = npu']
  /\ UNCHANGED <<vars, progVars, cache, dirty>>

(* The job ends: it is complete, or the driver gives up on it.             *)
NpuEnds ==
  /\ \E j \in Jobs : NpuDone(j)
  /\ UNCHANGED <<progVars, cpuVars, npu>>

(* The cache may write a dirty line back, or load a clean one, at any time.*)
Evict(b) ==
  /\ dirty[b]
  /\ mem' = [mem EXCEPT ![b] = cache[b]]
  /\ dirty' = [dirty EXCEPT ![b] = FALSE]
  /\ UNCHANGED <<vars, progVars, cache, npu>>

Prefetch(b) ==
  /\ ~dirty[b] /\ cache[b] # mem[b]
  /\ cache' = [cache EXCEPT ![b] = mem[b]]
  /\ UNCHANGED <<vars, progVars, mem, dirty, npu>>

Main ==
  \/ OpenDevice
  \/ CreateBuffer \/ MapBuffer \/ MapFails \/ CreateFails
  \/ LayOut \/ GenerateFails
  \/ Fini
  \/ SubmitJobs \/ SubmitFails
  \/ StartWait \/ EndWait \/ WaitTimesOut
  \/ Verify
  \/ DestroyNext \/ DestroyEnds \/ CloseDevice

Npu == NpuStarts \/ NpuWrites \/ NpuEnds

ClientNext == Main \/ Npu \/ \E b \in Bos : Evict(b) \/ Prefetch(b)

ClientSpec == ClientInit /\ [][ClientNext]_allVars
(* main() keeps running, whatever the NPU does.                            *)
ClientLiveSpec == ClientSpec /\ WF_allVars(Main)

-----------------------------------------------------------------------------
ClientTypeOK ==
  /\ TypeOK
  /\ pc \in {"open", "create", "layout", "fini", "submit", "prep", "verify", "cleanup", "done"}
  /\ made \in 0..4 /\ synced \in 0..4
  /\ unsynced \in SUBSET Bos
  /\ cache \in [Bos -> Contents] /\ mem \in [Bos -> Contents]
  /\ dirty \in [Bos -> BOOLEAN]
  /\ npu \in {"idle", "queued", "running", "fromStale"} \cup Results
  /\ verdict \in {"none", "verified", "mismatch"}

(* The NPU works on what the program laid out: commands, input and weights *)
(* have all reached memory when it reads them (the rocket_bo_fini calls    *)
(* before rocket_submit), unless one of these calls has failed or main()   *)
(* has given up on the job and destroyed one of the three.                 *)
NpuReadsWhatWasLaidOut ==
  npu = "fromStale" => \E b \in {Regcmd, Input, Weights} : b \in unsynced \/ ~Holds(b)

(* What main() compares with the expected result is what the NPU left in   *)
(* the output buffer, neither a line the CPU had cached before nor one     *)
(* that a late eviction of the cleared buffer put over the result, unless  *)
(* rocket_bo_fini of the output has failed.                                *)
NpuLeft == IF npu = "queued" THEN "zero" ELSE IF npu = "running" THEN "partial" ELSE npu
SeenIsWritten == verdict # "none" /\ Output \notin unsynced => cache[Output] = NpuLeft

(* main() reads the output only when no job can still be writing it.       *)
NoReadUnderWrite == pc = "verify" => \A j \in Jobs : ~Unfinished(j)

(* Every way out of main() has closed every handle, removed every mapping  *)
(* and closed the device: the labels undo exactly what was done, also when *)
(* the job is still running after a timeout.                               *)
CleanExit ==
  pc = "done" =>
    /\ ctx = "closed"
    /\ \A h \in Handles : gem[h] = NoObj
    /\ \A a \in Addrs : vma[a] = NoObj

(* Wherever main() stands, the call it makes next is one that the library  *)
(* allows in that state, on every error path too: it creates into a struct *)
(* that holds no BO, syncs, lists and waits for live BOs, destroys a live  *)
(* one and closes the device when none is left.                            *)
CallsAllowed ==
  /\ pc = "create" => ctx # "closed" /\ stage[Next1] \in {"zero", "mapping", "undoing"}
  /\ pc = "fini" => stage[CreationOrder[synced + 1]] = "live"
  /\ pc = "submit" => \A b \in Bos : stage[b] = "live"
  /\ pc = "prep" => stage[Output] \in {"live", "waiting"}
  /\ pc = "cleanup" =>
       /\ ctx # "closed"
       /\ made > 0 => stage[CreationOrder[made]] \in {"live", "closing"}
       /\ made = 0 => \A b \in Bos : stage[b] \in {"zero", "failed"}

(* Every step of the program is one of the library's as RocketInterface    *)
(* specifies it, the command BO of the job among its inputs: all that is   *)
(* checked and proved of Spec holds for this program.                      *)
KeepsCallerContract == Spec

(* main() ends even if the NPU never finishes the job (the wait is timed). *)
Terminates == <>(pc = "done")

(* The address an unfinished job fetches its commands from is valid: some  *)
(* handle it is "valid for the lifetime of" (rocket_accel.h) is still open.*)
CommandAddressValid ==
  \A j \in Jobs : Unfinished(j) => \E h \in Handles : iova[h] = jcmd[j]

(* "SUCCESS: ... matmul verified!" is printed only for the right product.  *)
VerdictTrue == verdict = "verified" => cache[Output] \in {"product", "productDisagrees"}
=============================================================================
