------------------------- MODULE MatmulClientProofs -------------------------
(***************************************************************************)
(* What the matmul test program does right for every set of handles,       *)
(* objects, addresses, jobs and sizes: it keeps the library's contract, so *)
(* that the theorems of RocketInterfaceProofs hold for it, the NPU and the *)
(* CPU see each other's data, and every way out leaves nothing behind.     *)
(***************************************************************************)
EXTENDS MatmulClient, RocketInterfaceProofs

Idx == 1..4
Bo(i) == CreationOrder[i]
Laid(b) == IF b = Output THEN "zero" ELSE "data"

(* How far main() has got with its two loops over the buffers.             *)
Counts ==
  /\ made \in 0..4 /\ synced \in 0..4
  /\ pc = "open" => made = 0
  /\ pc = "create" => made < 4
  /\ pc \in {"open", "create", "layout"} => synced = 0
  /\ pc = "fini" => synced < 4

(* The stages of the four buffers at each place of main(): those created   *)
(* are a prefix of the order of creation, and the labels shorten it.       *)
StagesOK ==
  /\ ctx = "closed" <=> pc \in {"open", "done"}
  /\ pc = "open" => \A i \in Idx : stage[Bo(i)] = "zero"
  /\ pc = "create" => \A i \in Idx :
       /\ i <= made => stage[Bo(i)] = "live"
       /\ i = made + 1 => stage[Bo(i)] \in {"zero", "mapping", "undoing"}
       /\ i > made + 1 => stage[Bo(i)] = "zero"
  /\ pc \in {"layout", "fini", "submit", "prep", "verify"} =>
       /\ made = 4
       /\ \A i \in Idx : stage[Bo(i)] = "live"
                         \/ (pc = "prep" /\ Bo(i) = Output /\ stage[Bo(i)] = "waiting")
  /\ pc = "cleanup" => \A i \in Idx :
       /\ i < made => stage[Bo(i)] = "live"
       /\ i = made => stage[Bo(i)] \in {"live", "closing"}
       /\ i > made => stage[Bo(i)] \in {"zero", "failed"}
  /\ pc = "done" => \A i \in Idx : stage[Bo(i)] \in {"zero", "failed"}

(* The one job: while main() waits for it, it lists the output as written; *)
(* when main() reads the output, and ever after if it did, it is over.     *)
NoJob == \A j \in Jobs : ~Unfinished(j)

JobAt ==
  /\ npu = "idle" => NoJob
  /\ pc \in {"open", "create", "layout", "fini", "submit"} => npu = "idle"
  /\ pc \in {"prep", "verify"} => npu # "idle"
  /\ pc = "prep" => \A j \in Jobs : Unfinished(j) => offset[Output] \in jouts[j]
  /\ pc = "verify" => NoJob
  /\ pc \notin {"cleanup", "done"} => verdict = "none"
  /\ verdict # "none" => NoJob /\ npu # "idle"

(* Cache and memory: what has been passed to rocket_bo_fini is clean and   *)
(* agrees with memory, unless the call failed; from the submit on nothing  *)
(* else is dirty that an eviction could put over the result.               *)
Synced == Bos \ unsynced

CachesOK ==
  /\ pc = "fini" => \A i \in Idx :
       /\ cache[Bo(i)] = Laid(Bo(i))
       /\ ~dirty[Bo(i)] => mem[Bo(i)] = Laid(Bo(i))
       /\ i <= synced /\ Bo(i) \in Synced => ~dirty[Bo(i)]
  /\ pc = "submit" => \A b \in Synced : ~dirty[b] /\ mem[b] = Laid(b)
  /\ npu # "idle" => \A b \in Synced :
       ~dirty[b] /\ mem[b] = IF b = Output THEN NpuLeft ELSE "data"
  /\ NpuReadsWhatWasLaidOut
  /\ (pc = "verify" \/ verdict # "none") /\ Output \in Synced => cache[Output] = mem[Output]

ClientInv ==
  /\ ClientTypeOK
  /\ Counts
  /\ StagesOK
  /\ JobAt
  /\ CachesOK

-----------------------------------------------------------------------------
(* The four buffers are the entries of CreationOrder, each once.           *)
LEMMA Order ==
  /\ Len(CreationOrder) = 4
  /\ \A i \in Idx : Bo(i) \in Bos
  /\ \A i, j \in Idx : Bo(i) = Bo(j) => i = j
  /\ \A b \in Bos : \E i \in Idx : b = Bo(i)
  /\ Bo(1) = Regcmd /\ Bo(2) = Input /\ Bo(3) = Weights /\ Bo(4) = Output
  /\ {Regcmd, Input, Weights} \subseteq Bos \ {Output}
  /\ Output \in Bos
<1>1. /\ Len(CreationOrder) = 4
      /\ Bo(1) = Regcmd /\ Bo(2) = Input /\ Bo(3) = Weights /\ Bo(4) = Output
  BY DEF CreationOrder, Bo
<1>2. \A i \in Idx : i = 1 \/ i = 2 \/ i = 3 \/ i = 4
  BY DEF Idx
<1>3. \A i, j \in Idx : Bo(i) = Bo(j) => i = j
  BY DistinctBos DEF Idx, Bo
<1>4. 1 \in Idx /\ 2 \in Idx /\ 3 \in Idx /\ 4 \in Idx
  BY DEF Idx
<1>5. {Regcmd, Input, Weights} \subseteq Bos \ {Output}
  BY <1>1, <1>3, <1>4, ProgramBos
<1> QED
  BY <1>1, <1>2, <1>3, <1>4, <1>5, ProgramBos

-----------------------------------------------------------------------------
(* The program uses the library as its specification says.                 *)

LEMMA InitCounts == ClientInit => Counts
BY DEF ClientInit, Counts

LEMMA NextCounts == Counts /\ [ClientNext]_allVars => Counts'
<1> SUFFICES ASSUME Counts, [ClientNext]_allVars PROVE Counts'
  OBVIOUS
<1> USE DEF Counts, cpuVars, progVars
<1>1. CASE OpenDevice \/ CreateBuffer \/ MapFails \/ CreateFails
  BY <1>1 DEF OpenDevice, CreateBuffer, MapFails, CreateFails
<1>2. CASE MapBuffer
  BY <1>2, Order DEF MapBuffer
<1>3. CASE LayOut \/ GenerateFails \/ SubmitJobs \/ SubmitFails
  BY <1>3 DEF LayOut, GenerateFails, SubmitJobs, SubmitFails
<1>4. CASE Fini
  BY <1>4, Order DEF Fini
<1>5. CASE StartWait \/ EndWait \/ WaitTimesOut \/ Verify
  BY <1>5 DEF StartWait, EndWait, WaitTimesOut, Verify
<1>6. CASE DestroyNext \/ DestroyEnds \/ CloseDevice
  BY <1>6 DEF DestroyNext, DestroyEnds, CloseDevice
<1>7. CASE Npu \/ \E b \in Bos : Evict(b) \/ Prefetch(b)
  BY <1>7 DEF Npu, NpuStarts, NpuWrites, NpuEnds, Evict, Prefetch
<1>8. CASE UNCHANGED allVars
  BY <1>8 DEF allVars
<1> QED
  BY <1>1, <1>2, <1>3, <1>4, <1>5, <1>6, <1>7, <1>8 DEF ClientNext, Main

(* Every step of the program is a call the library expects, or none.       *)
LEMMA StepIsCall == Counts /\ [ClientNext]_allVars => [Next]_vars
<1> SUFFICES ASSUME Counts, [ClientNext]_allVars PROVE Next \/ UNCHANGED vars
  OBVIOUS
<1>1. CASE OpenDevice
  BY <1>1 DEF OpenDevice, Next
<1>2. CASE CreateBuffer \/ MapBuffer \/ MapFails \/ CreateFails
  <2> DEFINE b == Next1
  <2>1. pc = "create" /\ b \in Bos
    BY <1>2, Order DEF CreateBuffer, MapBuffer, MapFails, CreateFails, Counts, Next1, Bo, Idx
  <2>2. CASE CreateBuffer
    <3> DEFINE h == CHOOSE x \in Handles : gem[x] = NoObj
               o == CHOOSE x \in Objs : ~Allocated(x)
               d == CHOOSE x \in Dmas : \A y \in Handles : iova[y] # x
    <3>1. h \in Handles /\ o \in Objs /\ d \in Dmas
      BY <2>2 DEF CreateBuffer
    <3>2. \E s \in Sizes : CreateIoctl(b, s, h, o, d)
      BY <2>2 DEF CreateBuffer
    <3>3. BoStep(b)
      BY <3>1, <3>2 DEF BoStep, Create
    <3> QED
      BY <2>1, <3>3 DEF Next
  <2>3. CASE MapBuffer
    <3> DEFINE a == CHOOSE x \in Addrs : vma[x] = NoObj
    <3>1. a \in Addrs /\ CreateMmap(b, a)
      BY <2>3 DEF MapBuffer
    <3>2. BoStep(b)
      BY <3>1 DEF BoStep
    <3> QED
      BY <2>1, <3>2 DEF Next
  <2>4. CASE MapFails
    BY <2>1, <2>4 DEF MapFails, BoStep, Next
  <2>5. CASE CreateFails
    BY <2>1, <2>5 DEF CreateFails, BoStep, Next
  <2> QED
    BY <1>2, <2>2, <2>3, <2>4, <2>5
<1>3. CASE LayOut \/ GenerateFails \/ Fini \/ SubmitFails \/ Verify
  BY <1>3 DEF LayOut, GenerateFails, Fini, rocket_bo_fini, SubmitFails, Verify
<1>4. CASE SubmitJobs
  <2>1. PICK j \in Jobs : Submit(j, Regcmd, {Input, Weights, Regcmd}, {Output})
    BY <1>4 DEF SubmitJobs
  <2>2. SubmitAny(j)
    BY <2>1, ProgramBos DEF SubmitAny
  <2> QED
    BY <2>2 DEF Next
<1>5. CASE StartWait \/ EndWait \/ WaitTimesOut
  <2>1. BoStep(Output)
    BY <1>5 DEF StartWait, EndWait, WaitTimesOut, BoStep
  <2> QED
    BY <2>1, Order DEF Next
<1>6. CASE DestroyNext \/ DestroyEnds
  <2> DEFINE b == CreationOrder[made]
  <2>1. b \in Bos
    BY <1>6, Order DEF DestroyNext, DestroyEnds, Counts, Bo, Idx
  <2>2. BoStep(b)
    BY <1>6 DEF DestroyNext, DestroyEnds, BoStep
  <2> QED
    BY <2>1, <2>2 DEF Next
<1>7. CASE CloseDevice
  BY <1>7 DEF CloseDevice, Next
<1>8. CASE Npu
  BY <1>8 DEF Npu, NpuStarts, NpuWrites, NpuEnds, Next
<1>9. CASE \E b \in Bos : Evict(b) \/ Prefetch(b)
  BY <1>9 DEF Evict, Prefetch
<1>10. CASE UNCHANGED allVars
  BY <1>10 DEF allVars
<1> QED
  BY <1>1, <1>2, <1>3, <1>4, <1>5, <1>6, <1>7, <1>8, <1>9, <1>10 DEF ClientNext, Main

(* main() keeps the contract of the library's caller, on every path and    *)
(* whatever fails: so each theorem about Spec is one about the program.    *)
THEOREM ProgramKeepsContract == ClientSpec => KeepsCallerContract
<1>1. ClientInit => Init /\ Counts
  BY InitCounts DEF ClientInit
<1>2. Counts /\ [ClientNext]_allVars => Counts'
  BY NextCounts
<1>3. Counts /\ [ClientNext]_allVars => [Next]_vars
  BY StepIsCall
<1> QED
  BY <1>1, <1>2, <1>3, PTL DEF ClientSpec, KeepsCallerContract, Spec

-----------------------------------------------------------------------------
(* The inductive invariant.  IInv is the one of the library.               *)

LEMMA InitClientInv == ClientInit => ClientInv
<1> SUFFICES ASSUME ClientInit PROVE ClientInv
  OBVIOUS
<1>1. ClientTypeOK
  BY InitTypeOK DEF ClientInit, ClientTypeOK, Contents
<1>2. StagesOK
  BY Order DEF ClientInit, Init, StagesOK
<1>3. JobAt
  BY DEF ClientInit, Init, DriverInit, JobAt, NoJob, Unfinished
<1>4. CachesOK
  BY DEF ClientInit, CachesOK, NpuReadsWhatWasLaidOut
<1> QED
  BY <1>1, <1>2, <1>3, <1>4, InitCounts DEF ClientInv

LEMMA NextClientType ==
  ClientInv /\ [ClientNext]_allVars => ClientTypeOK'
<1> SUFFICES ASSUME ClientInv, [ClientNext]_allVars PROVE ClientTypeOK'
  OBVIOUS
<1>0. TypeOK' /\ Counts'
  BY StepIsCall, NextTypeOK, NextCounts DEF ClientInv, ClientTypeOK
<1> USE <1>0 DEF ClientInv, ClientTypeOK, Counts, cpuVars, progVars
<1>1. CASE OpenDevice \/ CreateBuffer \/ MapFails \/ CreateFails
  BY <1>1 DEF OpenDevice, CreateBuffer, MapFails, CreateFails
<1>2. CASE MapBuffer
  BY <1>2 DEF MapBuffer
<1>3. CASE LayOut \/ GenerateFails \/ SubmitJobs \/ SubmitFails
  BY <1>3 DEF LayOut, GenerateFails, SubmitJobs, SubmitFails, Contents
<1>4. CASE Fini
  <2>1. CreationOrder[synced + 1] \in Bos
    BY <1>4, Order DEF Fini, Bo, Idx
  <2> QED
    BY <1>4, <2>1, Order DEF Fini, rocket_bo_fini
<1>5. CASE StartWait \/ EndWait \/ WaitTimesOut \/ Verify
  BY <1>5, Order DEF StartWait, EndWait, WaitTimesOut, Verify
<1>6. CASE DestroyNext \/ DestroyEnds \/ CloseDevice
  BY <1>6 DEF DestroyNext, DestroyEnds, CloseDevice
<1>7. CASE NpuStarts \/ NpuWrites \/ NpuEnds
  BY <1>7, Order DEF NpuStarts, NpuWrites, NpuEnds, Contents
<1>8. ASSUME NEW b \in Bos, Evict(b) \/ Prefetch(b) PROVE ClientTypeOK'
  BY <1>8 DEF Evict, Prefetch
<1>9. CASE UNCHANGED allVars
  BY <1>9 DEF allVars
<1> QED
  BY <1>1, <1>2, <1>3, <1>4, <1>5, <1>6, <1>7, <1>8, <1>9 DEF ClientNext, Main, Npu

LEMMA NextStages ==
  ClientInv /\ [ClientNext]_allVars => StagesOK'
<1> SUFFICES ASSUME ClientInv, [ClientNext]_allVars PROVE StagesOK'
  OBVIOUS
<1>0. ClientTypeOK /\ TypeOK /\ Counts /\ StagesOK
  BY DEF ClientInv, ClientTypeOK
<1> USE <1>0 DEF TypeOK, cpuVars, progVars, Idx
<1>1. CASE OpenDevice
  BY <1>1 DEF OpenDevice, Open, OpenFails, Counts, StagesOK, Nodes, boVars, vars
<1>2. CASE CreateBuffer
  <2> DEFINE b == Next1
             h == CHOOSE x \in Handles : gem[x] = NoObj
             o == CHOOSE x \in Objs : ~Allocated(x)
             d == CHOOSE x \in Dmas : \A y \in Handles : iova[y] # x
  <2>1. PICK s \in Sizes : CreateIoctl(b, s, h, o, d)
    BY <1>2 DEF CreateBuffer
  <2>2. b = Bo(made + 1) /\ pc = "create" /\ UNCHANGED <<pc, made>>
    BY <1>2 DEF CreateBuffer, Bo, Next1
  <2> HIDE DEF b, h, o, d
  <2>3. stage' = [stage EXCEPT ![b] = "mapping"] /\ UNCHANGED ctx
    BY <2>1 DEF CreateIoctl, ctxVars
  <2> QED
    BY <2>2, <2>3, Order DEF Counts, StagesOK
<1>3. CASE MapBuffer
  <2>1. /\ stage' = [stage EXCEPT ![Bo(made + 1)] = "live"] /\ UNCHANGED ctx
        /\ pc = "create" /\ made' = made + 1
        /\ pc' = IF made' = 4 THEN "layout" ELSE "create"
    BY <1>3, Order DEF MapBuffer, CreateMmap, Next1, Bo, ctxVars
  <2> QED
    BY <2>1, Order DEF Counts, StagesOK
<1>4. CASE MapFails
  <2>1. /\ stage' = [stage EXCEPT ![Bo(made + 1)] = "undoing"] /\ UNCHANGED ctx
        /\ pc = "create" /\ UNCHANGED <<pc, made>>
    BY <1>4 DEF MapFails, CreateMmapFails, Next1, Bo, ctxVars
  <2> QED
    BY <2>1, Order DEF Counts, StagesOK
<1>5. CASE CreateFails
  <2> DEFINE b == Bo(made + 1)
  <2>1. /\ pc = "create" /\ pc' = "cleanup" /\ UNCHANGED <<made, ctx>>
        /\ \/ stage[b] = "zero" /\ UNCHANGED stage
           \/ stage' = [stage EXCEPT ![b] = "failed"]
    BY <1>5 DEF CreateFails, CreateUndo, Next1, Bo, ctxVars, vars
  <2> QED
    BY <2>1, Order DEF Counts, StagesOK
<1>6. CASE LayOut \/ GenerateFails \/ Fini \/ SubmitFails \/ Verify
  BY <1>6, Order DEF LayOut, GenerateFails, Fini, rocket_bo_fini, SubmitFails, Verify, vars,
     Counts, StagesOK
<1>7. CASE SubmitJobs
  BY <1>7 DEF SubmitJobs, Submit, ctxVars, boVars, StagesOK
<1>8. CASE StartWait \/ EndWait \/ WaitTimesOut
  BY <1>8, Order DEF StartWait, EndWait, WaitTimesOut, PrepEnter, PrepReturn, PrepTimeout,
     ctxVars, StagesOK
<1>9. CASE DestroyNext
  <2>1. /\ stage' = [stage EXCEPT ![Bo(made)] = "closing"] /\ UNCHANGED ctx
        /\ pc = "cleanup" /\ made > 0 /\ UNCHANGED <<pc, made>>
    BY <1>9 DEF DestroyNext, DestroyUnmap, Bo, ctxVars
  <2> QED
    BY <2>1, Order DEF Counts, StagesOK
<1>10. CASE DestroyEnds
  <2>1. /\ stage' = [stage EXCEPT ![Bo(made)] = "zero"] /\ UNCHANGED ctx
        /\ pc = "cleanup" /\ made > 0 /\ made' = made - 1 /\ UNCHANGED pc
    BY <1>10 DEF DestroyEnds, DestroyClose, Bo, ctxVars
  <2> QED
    BY <2>1, Order DEF Counts, StagesOK
<1>11. CASE CloseDevice
  BY <1>11, Order DEF CloseDevice, Close, boVars, StagesOK
<1>12. CASE Npu
  BY <1>12 DEF Npu, NpuStarts, NpuWrites, NpuEnds, NpuDone, ctxVars, boVars, vars, StagesOK
<1>13. CASE \E b \in Bos : Evict(b) \/ Prefetch(b)
  BY <1>13 DEF Evict, Prefetch, vars, StagesOK
<1>14. CASE UNCHANGED allVars
  BY <1>14 DEF allVars, vars, StagesOK
<1> QED
  BY <1>1, <1>2, <1>3, <1>4, <1>5, <1>6, <1>7, <1>8, <1>9, <1>10, <1>11, <1>12, <1>13, <1>14
  DEF ClientNext, Main

(* The driver finds the object of the output behind its handle, in the     *)
(* submit and in the wait.                                                 *)
LEMMA OutputObject ==
  IInv /\ Usable(Output) => gem[handle[Output]] = offset[Output]
BY Order DEF IInv, BosOwnStorage, Holds

LEMMA NextJobAt ==
  IInv /\ ClientInv /\ [ClientNext]_allVars => JobAt'
<1> SUFFICES ASSUME IInv, ClientInv, [ClientNext]_allVars PROVE JobAt'
  OBVIOUS
<1>0. ClientTypeOK /\ TypeOK /\ JobAt
  BY DEF ClientInv, ClientTypeOK
<1> USE <1>0 DEF TypeOK, cpuVars, progVars, NoJob, Unfinished
<1>1. CASE OpenDevice \/ CreateBuffer \/ MapBuffer \/ MapFails \/ CreateFails
  <2>1. UNCHANGED <<jcmd, jouts, npu, verdict>>
    BY <1>1 DEF OpenDevice, CreateBuffer, MapBuffer, MapFails, CreateFails, Open, OpenFails,
       CreateIoctl, CreateBo, CreateMmap, Mmap, CreateMmapFails, CreateUndo, GemClose,
       vars, drvVars, jobVars
  <2>2. pc \in {"open", "create"} /\ pc' \in {"create", "done", "layout", "cleanup"}
    BY <1>1 DEF OpenDevice, CreateBuffer, MapBuffer, MapFails, CreateFails
  <2> QED
    BY <2>1, <2>2 DEF JobAt
<1>2. CASE LayOut \/ GenerateFails \/ Fini \/ SubmitFails
  BY <1>2 DEF LayOut, GenerateFails, Fini, rocket_bo_fini, SubmitFails, vars, JobAt
<1>3. CASE SubmitJobs
  <2>1. PICK j \in Jobs : Submit(j, Regcmd, {Input, Weights, Regcmd}, {Output})
    BY <1>3 DEF SubmitJobs
  <2>2. gem[handle[Output]] = offset[Output]
    BY <2>1, OutputObject DEF Submit, Usable
  <2>3. offset[Output] \in jouts'[j]
    BY <2>1, <2>2 DEF Submit, SubmitJob
  <2>4. \A k \in Jobs \ {j} : jcmd'[k] = NoDma
    BY <1>3, <2>1 DEF Submit, SubmitJob, SubmitJobs, JobAt
  <2>5. UNCHANGED <<offset, verdict>> /\ pc = "submit" /\ pc' = "prep" /\ npu' = "queued"
    BY <1>3, <2>1 DEF Submit, SubmitJobs, boVars
  <2> QED
    BY <2>3, <2>4, <2>5 DEF JobAt
<1>4. CASE StartWait \/ WaitTimesOut
  BY <1>4 DEF StartWait, WaitTimesOut, PrepEnter, PrepTimeout, drvVars, JobAt
<1>5. CASE EndWait
  <2>1. UNCHANGED <<jcmd, jouts, npu, verdict>> /\ pc = "prep" /\ pc' = "verify"
    BY <1>5 DEF EndWait, PrepReturn, drvVars
  <2>2. Quiet(offset[Output])
    BY <1>5, OutputObject DEF EndWait, PrepReturn, Usable
  <2> QED
    BY <2>1, <2>2 DEF JobAt, Quiet
<1>6. CASE Verify
  BY <1>6 DEF Verify, vars, JobAt
<1>7. CASE DestroyNext \/ DestroyEnds \/ CloseDevice
  <2>1. UNCHANGED <<jcmd, jouts, npu, verdict>>
    BY <1>7 DEF DestroyNext, DestroyEnds, CloseDevice, DestroyUnmap, DestroyClose, Close,
       GemClose, CloseFile, jobVars
  <2>2. pc = "cleanup" /\ pc' \in {"cleanup", "done"}
    BY <1>7 DEF DestroyNext, DestroyEnds, CloseDevice
  <2> QED
    BY <2>1, <2>2 DEF JobAt
<1>8. CASE NpuStarts \/ NpuWrites
  BY <1>8 DEF NpuStarts, NpuWrites, Results, vars, JobAt
<1>9. CASE NpuEnds
  BY <1>9 DEF NpuEnds, NpuDone, JobDone, boVars, JobAt
<1>10. CASE \E b \in Bos : Evict(b) \/ Prefetch(b)
  BY <1>10 DEF Evict, Prefetch, vars, JobAt
<1>11. CASE UNCHANGED allVars
  BY <1>11 DEF allVars, vars, JobAt
<1> QED
  BY <1>1, <1>2, <1>3, <1>4, <1>5, <1>6, <1>7, <1>8, <1>9, <1>10, <1>11
  DEF ClientNext, Main, Npu

(* Once there is a job, a BO that has lost its handle gets no other.       *)
LEMMA NotHeldAgain ==
  ASSUME ClientInv, [ClientNext]_allVars, npu # "idle", NEW b \in Bos, Holds(b)'
  PROVE  Holds(b)
<1>0. TypeOK /\ Counts /\ StagesOK /\ JobAt
  BY DEF ClientInv, ClientTypeOK
<1>1. pc \in {"prep", "verify", "cleanup", "done"}
  BY <1>0 DEF JobAt, ClientInv, ClientTypeOK
<1>2. CASE UNCHANGED <<stage, handle>>
  BY <1>2 DEF Holds, Usable
<1>3. CASE StartWait \/ EndWait \/ WaitTimesOut
  BY <1>0, <1>3 DEF TypeOK, StartWait, EndWait, WaitTimesOut, PrepEnter, PrepReturn,
     PrepTimeout, Holds, Usable
<1>4. CASE DestroyNext
  <2>1. /\ stage' = [stage EXCEPT ![Bo(made)] = "closing"] /\ UNCHANGED handle
        /\ pc = "cleanup" /\ made \in Idx /\ stage[Bo(made)] \in {"zero", "live"}
    BY <1>0, <1>4 DEF DestroyNext, DestroyUnmap, Bo, Counts, Idx
  <2>2. stage[Bo(made)] = "live"
    BY <1>0, <2>1 DEF StagesOK
  <2> QED
    BY <1>0, <2>1, <2>2 DEF TypeOK, Holds, Usable
<1>5. CASE DestroyEnds
  BY <1>0, <1>5 DEF TypeOK, DestroyEnds, DestroyClose, Holds, Usable
<1>6. CASE Verify \/ CloseDevice \/ Npu \/ (\E c \in Bos : Evict(c) \/ Prefetch(c))
           \/ UNCHANGED allVars
  BY <1>2, <1>6 DEF Verify, CloseDevice, Close, Npu, NpuStarts, NpuWrites, NpuEnds, NpuDone,
     Evict, Prefetch, allVars, vars, boVars
<1> QED
  BY <1>1, <1>3, <1>4, <1>5, <1>6 DEF ClientNext, Main, OpenDevice, CreateBuffer, MapBuffer,
     MapFails, CreateFails, LayOut, GenerateFails, Fini, SubmitJobs, SubmitFails

LEMMA NextCaches ==
  ClientInv /\ [ClientNext]_allVars => CachesOK'
<1> SUFFICES ASSUME ClientInv, [ClientNext]_allVars PROVE CachesOK'
  OBVIOUS
<1>0. ClientTypeOK /\ Counts /\ JobAt /\ CachesOK
  BY DEF ClientInv
<1> USE <1>0 DEF ClientTypeOK, cpuVars, progVars, Idx, Synced
<1>a. npu' = npu /\ unsynced \subseteq unsynced' => NpuReadsWhatWasLaidOut'
  BY NotHeldAgain, Order DEF CachesOK, NpuReadsWhatWasLaidOut
<1>1. CASE OpenDevice \/ CreateBuffer \/ MapBuffer \/ MapFails \/ CreateFails \/ GenerateFails
           \/ DestroyNext \/ DestroyEnds \/ CloseDevice \/ StartWait \/ WaitTimesOut
           \/ SubmitFails \/ NpuEnds
  <2>1. UNCHANGED <<cache, mem, dirty, npu, synced, unsynced, verdict>>
    BY <1>1 DEF OpenDevice, CreateBuffer, MapBuffer, MapFails, CreateFails, GenerateFails,
       DestroyNext, DestroyEnds, CloseDevice, StartWait, WaitTimesOut, SubmitFails, NpuEnds
  <2>2. UNCHANGED pc \/ pc' \in {"create", "layout", "cleanup", "done"}
    BY <1>1 DEF OpenDevice, CreateBuffer, MapBuffer, MapFails, CreateFails, GenerateFails,
       DestroyNext, DestroyEnds, CloseDevice, StartWait, WaitTimesOut, SubmitFails, NpuEnds
  <2> QED
    BY <1>a, <2>1, <2>2 DEF CachesOK, NpuLeft
<1>2. CASE LayOut
  <2>1. NpuReadsWhatWasLaidOut'
    BY <1>2, <1>a DEF LayOut
  <2> QED
    BY <1>2, <2>1, Order DEF LayOut, Counts, CachesOK, JobAt, Laid
<1>3. CASE Fini
  <2> DEFINE b == Bo(synced + 1)
  <2>1. /\ \/ /\ mem' = [mem EXCEPT ![b] = cache[b]]
              /\ dirty' = [dirty EXCEPT ![b] = FALSE]
              /\ UNCHANGED unsynced
           \/ unsynced' = unsynced \cup {b} /\ UNCHANGED <<mem, dirty>>
        /\ UNCHANGED <<cache, npu, verdict>>
        /\ pc = "fini" /\ synced' = synced + 1
        /\ pc' = IF synced' = 4 THEN "submit" ELSE "fini"
    BY <1>3, Order DEF Fini, rocket_bo_fini, Bo
  <2>2. npu = "idle" /\ verdict = "none"
    BY <2>1 DEF JobAt
  <2>3. \A i \in Idx :
          /\ cache'[Bo(i)] = Laid(Bo(i))
          /\ ~dirty'[Bo(i)] => mem'[Bo(i)] = Laid(Bo(i))
          /\ i <= synced' /\ Bo(i) \in Synced' => ~dirty'[Bo(i)]
    BY <2>1, Order DEF CachesOK, Counts
  <2>4. NpuReadsWhatWasLaidOut'
    BY <1>a, <2>1
  <2> QED
    BY <2>1, <2>2, <2>3, <2>4, Order DEF CachesOK, Laid
<1>4. CASE SubmitJobs
  <2>1. NpuReadsWhatWasLaidOut'
    BY <1>4 DEF SubmitJobs, NpuReadsWhatWasLaidOut
  <2> QED
    BY <1>4, <2>1, Order DEF SubmitJobs, CachesOK, JobAt, Laid, NpuLeft
<1>5. CASE EndWait
  <2>1. NpuReadsWhatWasLaidOut'
    BY <1>5, <1>a DEF EndWait
  <2> QED
    BY <1>5, <2>1, Order DEF EndWait, CachesOK, JobAt, NpuLeft
<1>6. CASE Verify
  <2>1. NpuReadsWhatWasLaidOut'
    BY <1>6, <1>a DEF Verify
  <2> QED
    BY <1>6, <2>1 DEF Verify, CachesOK, NpuLeft
<1>7. CASE NpuStarts
  <2>1. NpuReadsWhatWasLaidOut'
    BY <1>7 DEF NpuStarts, NpuReadsWhatWasLaidOut
  <2> QED
    BY <1>7, <2>1, Order DEF NpuStarts, CachesOK, JobAt, NoJob, NpuLeft
<1>8. CASE NpuWrites
  <2>1. npu' \in Results \cup {"fromStale"}
    BY <1>8 DEF NpuWrites
  <2>2. NpuReadsWhatWasLaidOut'
    <3> SUFFICES ASSUME npu' = "fromStale"
                 PROVE  \E b \in {Regcmd, Input, Weights} : b \in unsynced' \/ ~Holds(b)'
      BY DEF NpuReadsWhatWasLaidOut
    <3>1. PICK b \in {Regcmd, Input, Weights} : ~(Holds(b) /\ mem[b] = "data")
      BY <1>8 DEF NpuWrites, Results
    <3>2. b \in unsynced \/ ~Holds(b)
      BY <1>8, <3>1, Order DEF NpuWrites, CachesOK
    <3>3. UNCHANGED <<unsynced, stage, handle>>
      BY <1>8 DEF NpuWrites, vars
    <3> QED
      BY <3>2, <3>3 DEF Holds, Usable
  <2> QED
    BY <1>8, <2>1, <2>2, Order DEF NpuWrites, CachesOK, JobAt, NoJob, NpuLeft, Results
<1>9. ASSUME NEW b \in Bos, Evict(b) PROVE CachesOK'
  <2>1. NpuReadsWhatWasLaidOut'
    BY <1>9, <1>a DEF Evict
  <2> QED
    BY <1>9, <2>1, Order DEF Evict, CachesOK, JobAt, NpuLeft, Laid
<1>10. ASSUME NEW b \in Bos, Prefetch(b) PROVE CachesOK'
  <2>1. NpuReadsWhatWasLaidOut'
    BY <1>10, <1>a DEF Prefetch
  <2> QED
    BY <1>10, <2>1, Order DEF Prefetch, CachesOK, JobAt, NpuLeft, Laid
<1>11. CASE UNCHANGED allVars
  <2>1. NpuReadsWhatWasLaidOut'
    BY <1>11, <1>a DEF allVars
  <2> QED
    BY <1>11, <2>1 DEF allVars, CachesOK, NpuLeft
<1> QED
  BY <1>1, <1>2, <1>3, <1>4, <1>5, <1>6, <1>7, <1>8, <1>9, <1>10, <1>11
  DEF ClientNext, Main, Npu

LEMMA ClientInvariance == ClientSpec => []IInv /\ []ClientInv
<1>1. ClientSpec => []IInv
  BY ProgramKeepsContract, Invariance, PTL DEF KeepsCallerContract
<1>2. ClientInit => ClientInv
  BY InitClientInv
<1>3. IInv /\ ClientInv /\ [ClientNext]_allVars => ClientInv'
  <2>1. ClientInv /\ [ClientNext]_allVars => Counts'
    BY NextCounts DEF ClientInv
  <2> QED
    BY <2>1, NextClientType, NextStages, NextJobAt, NextCaches DEF ClientInv
<1> QED
  BY <1>1, <1>2, <1>3, PTL DEF ClientSpec

-----------------------------------------------------------------------------
(* Theorems.                                                               *)

(* Every variable of the program keeps its type, and the counters of its   *)
(* two loops stay within the four buffers.                                 *)
THEOREM ClientTypes == ClientSpec => []ClientTypeOK
<1>1. ClientInv => ClientTypeOK
  BY DEF ClientInv
<1> QED
  BY ClientInvariance, <1>1, PTL

(* The NPU works on commands and operands that have reached memory,        *)
(* whenever the caches write lines back, unless a rocket_bo_fini whose     *)
(* result main() drops has failed, or main() has given up on the job.      *)
THEOREM NpuReadsLaidOut == ClientSpec => []NpuReadsWhatWasLaidOut
<1>1. ClientInv => NpuReadsWhatWasLaidOut
  BY DEF ClientInv, CachesOK
<1> QED
  BY ClientInvariance, <1>1, PTL

(* main() compares what the NPU left in memory, not a stale line of the    *)
(* cache, and no late eviction can have overwritten it, if rocket_bo_fini  *)
(* of the output did not fail.                                             *)
THEOREM ComparesWhatNpuLeft == ClientSpec => []SeenIsWritten
<1>1. ClientInv => SeenIsWritten
  BY Order DEF ClientInv, CachesOK, JobAt, Synced, SeenIsWritten
<1> QED
  BY ClientInvariance, <1>1, PTL

(* No job is left that can write the output while main() reads it.         *)
THEOREM NoReadUnderJob == ClientSpec => []NoReadUnderWrite
<1>1. ClientInv => NoReadUnderWrite
  BY DEF ClientInv, JobAt, NoJob, NoReadUnderWrite
<1> QED
  BY ClientInvariance, <1>1, PTL

(* On every path main() only makes calls that the library allows.          *)
THEOREM CallsAreAllowed == ClientSpec => []CallsAllowed
<1>1. ClientInv => CallsAllowed
  <2> SUFFICES ASSUME ClientInv PROVE CallsAllowed
    OBVIOUS
  <2>1. Counts /\ StagesOK /\ 4 \in Idx
    BY DEF ClientInv, Idx
  <2>2. pc = "create" => ctx # "closed" /\ stage[Next1] \in {"zero", "mapping", "undoing"}
    BY <2>1 DEF Counts, StagesOK, Next1, Bo, Idx
  <2>3. pc = "fini" => stage[CreationOrder[synced + 1]] = "live"
    BY <2>1 DEF Counts, StagesOK, Bo, Idx
  <2>4. /\ pc = "submit" => \A b \in Bos : stage[b] = "live"
        /\ pc = "prep" => stage[Output] \in {"live", "waiting"}
    BY <2>1, Order DEF StagesOK
  <2>5. pc = "cleanup" =>
          /\ ctx # "closed"
          /\ made > 0 => stage[CreationOrder[made]] \in {"live", "closing"}
    BY <2>1 DEF Counts, StagesOK, Bo, Idx
  <2>6. pc = "cleanup" /\ made = 0 => \A b \in Bos : stage[b] \in {"zero", "failed"}
    BY <2>1, Order DEF StagesOK, Idx
  <2> QED
    BY <2>2, <2>3, <2>4, <2>5, <2>6 DEF CallsAllowed
<1> QED
  BY ClientInvariance, <1>1, PTL

(* Whatever has failed, main() ends with no handle, no mapping and no      *)
(* device open: the library leaks nothing (NoLeak), and no BO is left.     *)
THEOREM ExitIsClean == ClientSpec => []CleanExit
<1>1. IInv /\ ClientInv => CleanExit
  <2> SUFFICES ASSUME IInv, ClientInv, pc = "done"
               PROVE  /\ ctx = "closed"
                      /\ \A h \in Handles : gem[h] = NoObj
                      /\ \A a \in Addrs : vma[a] = NoObj
    BY DEF CleanExit
  <2>1. ctx = "closed" /\ \A b \in Bos : stage[b] \in {"zero", "failed"}
    BY Order DEF ClientInv, StagesOK
  <2>2. \A b \in Bos : ~Holds(b) /\ ~Usable(b)
    BY <2>1 DEF Holds, Usable
  <2> QED
    BY <2>1, <2>2 DEF IInv, NoLeak
<1> QED
  BY ClientInvariance, <1>1, PTL

(* What is proved of the library holds for the program: its storage is a   *)
(* buffer pool's, disjoint and not leaked, also when main() cleans up      *)
(* under a job that is still running.                                      *)
COROLLARY LibraryPromisesHold ==
  ClientSpec => ImplementsPool /\ [](BosDisjoint /\ NoLeak)
BY ProgramKeepsContract, LibraryImplementsPool, BosAreDisjoint, NothingLeaks, PTL
   DEF KeepsCallerContract
=============================================================================
