----------------------- MODULE RocketInterfaceProofs -----------------------
(***************************************************************************)
(* What RocketInterface guarantees for every number of BOs, handles,       *)
(* objects, addresses, jobs and sizes.                                     *)
(***************************************************************************)
EXTENDS RocketInterface, TLAPS

(* What the fields of a struct hold at each stage.                         *)
FieldsOK ==
  \A b \in Bos :
    /\ stage[b] = "zero" => handle[b] = NoHandle
    /\ stage[b] \in {"zero", "failed", "mapping", "closing"} => map[b] = NoAddr
    /\ stage[b] = "undoing" => map[b] = MapFailed
    /\ Usable(b) => map[b] # MapFailed

(* A handle has one holder, an object and a DMA address one handle, a      *)
(* mapping one BO.                                                         *)
OneHolder ==
  \A b, c \in Bos : Holds(b) /\ Holds(c) /\ handle[b] = handle[c] => b = c
OneHandle ==
  \A g, h \in Handles : gem[g] = gem[h] /\ gem[g] # NoObj => g = h
OneDma ==
  \A g, h \in Handles : iova[g] = iova[h] /\ iova[g] # NoDma => g = h
OneMapping ==
  \A b, c \in Bos : map[b] = map[c] /\ map[b] \in Addrs => b = c

(* A job slot that is not in use keeps nothing.                            *)
JobsOK ==
  \A j \in Jobs : ~Unfinished(j) => Pins(j) = {}

(* No job has the object of a BO that is still being created.              *)
FreshUnpinned ==
  \A b \in Bos : stage[b] = "mapping" => \A j \in Jobs : offset[b] \notin Pins(j)

IInv ==
  /\ TypeOK
  /\ FieldsOK
  /\ BosOwnStorage
  /\ OneHolder
  /\ OneHandle
  /\ OneDma
  /\ OneMapping
  /\ NoLeak
  /\ MappingFits
  /\ JobsOK
  /\ FreshUnpinned

-----------------------------------------------------------------------------
(* Type correctness.                                                       *)

LEMMA InitTypeOK == Init => TypeOK
BY ObjsAssumption, NullAssumption
   DEF Init, DriverInit, TypeOK, Nodes, NodeKinds, Stages

LEMMA NextTypeOK == TypeOK /\ [Next]_vars => TypeOK'
<1> SUFFICES ASSUME TypeOK, [Next]_vars PROVE TypeOK'
  OBVIOUS
<1> USE DEF TypeOK, ctxVars, boVars, drvVars, jobVars
<1>1. ASSUME NEW n \in Nodes, Open(n) PROVE TypeOK'
  BY <1>1 DEF Open
<1>2. CASE OpenFails
  BY <1>2 DEF OpenFails, vars
<1>3. CASE Close
  BY <1>3 DEF Close, CloseFile
<1>4. ASSUME NEW b \in Bos, Create(b) PROVE TypeOK'
  <2> PICK s \in Sizes, h \in Handles, o \in Objs, d \in Dmas : CreateIoctl(b, s, h, o, d)
    BY <1>4 DEF Create
  <2>1. s \in Nat /\ s % U32 \in Nat
    BY SizesAssumption, U32Assumption
  <2> QED
    BY <2>1 DEF CreateIoctl, CreateBo, Stages
<1>5. ASSUME NEW b \in Bos, NEW a \in Addrs, CreateMmap(b, a) PROVE TypeOK'
  BY <1>5 DEF CreateMmap, Mmap, Stages
<1>6. ASSUME NEW b \in Bos, CreateMmapFails(b) PROVE TypeOK'
  BY <1>6 DEF CreateMmapFails, Stages
<1>7. ASSUME NEW b \in Bos, CreateUndo(b) PROVE TypeOK'
  BY <1>7 DEF CreateUndo, GemClose, Stages
<1>8. ASSUME NEW b \in Bos, Unmap(b) PROVE TypeOK'
  BY <1>8 DEF Unmap, Unmapped
<1>9. ASSUME NEW b \in Bos, DestroyUnmap(b) PROVE TypeOK'
  BY <1>9 DEF DestroyUnmap, Unmapped, Stages
<1>10. ASSUME NEW b \in Bos, DestroyClose(b) PROVE TypeOK'
  BY <1>10 DEF DestroyClose, GemClose, Stages
<1>11. ASSUME NEW b \in Bos, NEW wait \in {"waiting", "blocked"}, PrepEnter(b, wait)
       PROVE TypeOK'
  BY <1>11 DEF PrepEnter, Stages
<1>12. ASSUME NEW b \in Bos, PrepReturn(b) \/ PrepTimeout(b) PROVE TypeOK'
  BY <1>12 DEF PrepReturn, PrepTimeout, Stages
<1>13. ASSUME NEW j \in Jobs, SubmitAny(j) PROVE TypeOK'
  <2> PICK cmdBo \in Bos, inBos \in SUBSET Bos, outBos \in SUBSET Bos :
         Submit(j, cmdBo, inBos, outBos)
    BY <1>13 DEF SubmitAny
  <2> DEFINE in == {handle[b] : b \in inBos}
             out == {handle[b] : b \in outBos}
  <2>1. in \cup out \subseteq Handles
    BY DEF Submit, SubmitJob
  <2> QED
    BY DEF Submit, SubmitJob
<1>14. ASSUME NEW j \in Jobs, NpuDone(j) PROVE TypeOK'
  BY <1>14 DEF NpuDone, JobDone
<1>15. CASE UNCHANGED vars
  BY <1>15 DEF vars
<1> QED
  BY <1>1, <1>2, <1>3, <1>4, <1>5, <1>6, <1>7, <1>8, <1>9, <1>10, <1>11,
     <1>12, <1>13, <1>14, <1>15
  DEF Next, BoStep

-----------------------------------------------------------------------------
(* The inductive invariant.                                                *)

LEMMA InitIInv == Init => IInv
BY InitTypeOK, ObjsAssumption, NullAssumption
   DEF Init, DriverInit, IInv, FieldsOK, BosOwnStorage, OneHolder, OneHandle, OneDma,
       OneMapping, NoLeak, MappingFits, JobsOK, FreshUnpinned, Holds, Usable,
       InCall, Unfinished, Pins

LEMMA NextIInv == IInv /\ [Next]_vars => IInv'
<1> SUFFICES ASSUME IInv, [Next]_vars PROVE IInv'
  OBVIOUS
<1>0. /\ TypeOK /\ FieldsOK /\ BosOwnStorage /\ OneHolder /\ OneHandle /\ OneDma /\ OneMapping
      /\ NoLeak /\ MappingFits /\ JobsOK /\ FreshUnpinned /\ TypeOK'
  BY NextTypeOK DEF IInv
<1>1. ASSUME NEW n \in Nodes, Open(n) PROVE IInv'
  BY <1>1, <1>0 DEF Open, boVars, drvVars, IInv, TypeOK, FieldsOK,
     BosOwnStorage, OneHolder, OneHandle, OneDma, OneMapping, NoLeak, MappingFits,
     JobsOK, FreshUnpinned, Holds, Usable, InCall, Unfinished, Pins
<1>2. CASE OpenFails
  BY <1>2, <1>0 DEF OpenFails, vars, IInv, TypeOK, FieldsOK, BosOwnStorage,
     OneHolder, OneHandle, OneDma, OneMapping, NoLeak, MappingFits, JobsOK,
     FreshUnpinned, Holds, Usable, InCall, Unfinished, Pins
<1>3. CASE Close
  <2>1. FieldsOK'
    BY <1>3, <1>0 DEF Close, CloseFile, jobVars, boVars, TypeOK, FieldsOK,
       Usable
  <2>2. BosOwnStorage'
    BY <1>3, <1>0 DEF Close, CloseFile, jobVars, boVars, TypeOK,
       BosOwnStorage, Holds, Usable, InCall
  <2>3. OneHolder'
    BY <1>3, <1>0 DEF Close, CloseFile, jobVars, boVars, TypeOK, OneHolder,
       Holds, Usable
  <2>4. OneHandle'
    BY <1>3, <1>0 DEF Close, CloseFile, jobVars, boVars, TypeOK, OneHandle
  <2>10. OneDma'
    BY <1>3, <1>0 DEF Close, CloseFile, jobVars, boVars, TypeOK, OneDma
  <2>5. OneMapping'
    BY <1>3, <1>0 DEF Close, CloseFile, jobVars, boVars, TypeOK, OneMapping
  <2>6. NoLeak'
    BY <1>3, <1>0 DEF Close, CloseFile, jobVars, boVars, TypeOK, NoLeak,
       Holds, Usable
  <2>7. MappingFits'
    BY <1>3, <1>0 DEF Close, CloseFile, jobVars, boVars, TypeOK, MappingFits,
       Usable
  <2>8. JobsOK'
    BY <1>3, <1>0 DEF Close, CloseFile, jobVars, boVars, TypeOK, JobsOK,
       Unfinished, Pins
  <2>9. FreshUnpinned'
    BY <1>3, <1>0 DEF Close, CloseFile, jobVars, boVars, TypeOK,
       FreshUnpinned, Pins
  <2> QED
    BY <1>0, <2>1, <2>2, <2>3, <2>4, <2>5, <2>6, <2>7, <2>8, <2>9, <2>10 DEF IInv
<1>4. ASSUME NEW b \in Bos, NEW s \in Sizes, NEW h \in Handles, NEW o \in Objs,
              NEW d \in Dmas, CreateIoctl(b, s, h, o, d)
       PROVE IInv'
  <2>1. FieldsOK'
    BY <1>4, <1>0 DEF CreateIoctl, CreateBo, Allocated, ctxVars, jobVars,
       TypeOK, FieldsOK, Usable
  <2>2. BosOwnStorage'
    BY <1>4, <1>0, DmasAssumption DEF CreateIoctl, CreateBo, Allocated,
       ctxVars, jobVars, TypeOK, BosOwnStorage, Holds, Usable, InCall
  <2>3. OneHolder'
    BY <1>4, <1>0, NullAssumption DEF CreateIoctl, CreateBo, Allocated,
       ctxVars, jobVars, TypeOK, OneHolder, Holds, Usable, FieldsOK,
       BosOwnStorage
  <2>4. OneHandle'
    BY <1>4, <1>0 DEF CreateIoctl, CreateBo, Allocated, ctxVars, jobVars,
       TypeOK, OneHandle
  <2>10. OneDma'
    BY <1>4, <1>0 DEF CreateIoctl, CreateBo, Allocated, ctxVars, jobVars,
       TypeOK, OneDma
  <2>5. OneMapping'
    BY <1>4, <1>0, NullAssumption DEF CreateIoctl, CreateBo, Allocated,
       ctxVars, jobVars, TypeOK, OneMapping, FieldsOK, BosOwnStorage, Holds,
       Usable
  <2>6. NoLeak'
    BY <1>4, <1>0 DEF CreateIoctl, CreateBo, Allocated, ctxVars, jobVars,
       TypeOK, NoLeak, Holds, Usable
  <2>7. MappingFits'
    BY <1>4, <1>0, NullAssumption DEF CreateIoctl, CreateBo, Allocated,
       ctxVars, jobVars, TypeOK, MappingFits, Usable, FieldsOK, BosOwnStorage,
       Holds
  <2>8. JobsOK'
    BY <1>4, <1>0 DEF CreateIoctl, CreateBo, Allocated, ctxVars, jobVars,
       TypeOK, JobsOK, Unfinished, Pins
  <2>9. FreshUnpinned'
    BY <1>4, <1>0 DEF CreateIoctl, CreateBo, Allocated, ctxVars, jobVars,
       TypeOK, FreshUnpinned, Pins
  <2> QED
    BY <1>0, <2>1, <2>2, <2>3, <2>4, <2>5, <2>6, <2>7, <2>8, <2>9, <2>10 DEF IInv
<1>5. ASSUME NEW b \in Bos, NEW a \in Addrs, CreateMmap(b, a) PROVE IInv'
  <2>1. FieldsOK'
    BY <1>5, <1>0, NullAssumption DEF CreateMmap, Mmap, ctxVars, jobVars,
       TypeOK, FieldsOK, Usable, BosOwnStorage, Holds
  <2>2. BosOwnStorage'
    BY <1>5, <1>0 DEF CreateMmap, Mmap, ctxVars, jobVars, TypeOK,
       BosOwnStorage, Holds, Usable, InCall
  <2>3. OneHolder'
    BY <1>5, <1>0 DEF CreateMmap, Mmap, ctxVars, jobVars, TypeOK, OneHolder,
       Holds, Usable
  <2>4. OneHandle'
    BY <1>5, <1>0 DEF CreateMmap, Mmap, ctxVars, jobVars, TypeOK, OneHandle
  <2>10. OneDma'
    BY <1>5, <1>0 DEF CreateMmap, Mmap, ctxVars, jobVars, TypeOK, OneDma
  <2>5. OneMapping'
    BY <1>5, <1>0, NullAssumption, ObjsAssumption DEF CreateMmap, Mmap,
       ctxVars, jobVars, TypeOK, OneMapping, FieldsOK, BosOwnStorage, Holds,
       Usable, InCall, OneHolder
  <2>6. NoLeak'
    BY <1>5, <1>0 DEF CreateMmap, Mmap, ctxVars, jobVars, TypeOK, NoLeak,
       Holds, Usable
  <2>7. MappingFits'
    BY <1>5, <1>0 DEF CreateMmap, Mmap, ctxVars, jobVars, TypeOK, MappingFits,
       Usable
  <2>8. JobsOK'
    BY <1>5, <1>0 DEF CreateMmap, Mmap, ctxVars, jobVars, TypeOK, JobsOK,
       Unfinished, Pins
  <2>9. FreshUnpinned'
    BY <1>5, <1>0 DEF CreateMmap, Mmap, ctxVars, jobVars, TypeOK,
       FreshUnpinned, Pins
  <2> QED
    BY <1>0, <2>1, <2>2, <2>3, <2>4, <2>5, <2>6, <2>7, <2>8, <2>9, <2>10 DEF IInv
<1>6. ASSUME NEW b \in Bos, CreateMmapFails(b) PROVE IInv'
  <2>1. FieldsOK'
    BY <1>6, <1>0 DEF CreateMmapFails, ctxVars, drvVars, TypeOK, FieldsOK,
       Usable
  <2>2. BosOwnStorage'
    BY <1>6, <1>0 DEF CreateMmapFails, ctxVars, drvVars, TypeOK,
       BosOwnStorage, Holds, Usable, InCall
  <2>3. OneHolder'
    BY <1>6, <1>0 DEF CreateMmapFails, ctxVars, drvVars, TypeOK, OneHolder,
       Holds, Usable
  <2>4. OneHandle'
    BY <1>6, <1>0 DEF CreateMmapFails, ctxVars, drvVars, TypeOK, OneHandle
  <2>10. OneDma'
    BY <1>6, <1>0 DEF CreateMmapFails, ctxVars, drvVars, TypeOK, OneDma
  <2>5. OneMapping'
    BY <1>6, <1>0, NullAssumption DEF CreateMmapFails, ctxVars, drvVars,
       TypeOK, OneMapping, FieldsOK, BosOwnStorage, Holds, Usable
  <2>6. NoLeak'
    BY <1>6, <1>0 DEF CreateMmapFails, ctxVars, drvVars, TypeOK, NoLeak,
       Holds, Usable
  <2>7. MappingFits'
    BY <1>6, <1>0 DEF CreateMmapFails, ctxVars, drvVars, TypeOK, MappingFits,
       Usable
  <2>8. JobsOK'
    BY <1>6, <1>0 DEF CreateMmapFails, ctxVars, drvVars, TypeOK, JobsOK,
       Unfinished, Pins
  <2>9. FreshUnpinned'
    BY <1>6, <1>0 DEF CreateMmapFails, ctxVars, drvVars, TypeOK,
       FreshUnpinned, Pins
  <2> QED
    BY <1>0, <2>1, <2>2, <2>3, <2>4, <2>5, <2>6, <2>7, <2>8, <2>9, <2>10 DEF IInv
<1>7. ASSUME NEW b \in Bos, CreateUndo(b) PROVE IInv'
  <2>1. FieldsOK'
    BY <1>7, <1>0 DEF CreateUndo, GemClose, ctxVars, jobVars, TypeOK,
       FieldsOK, Usable
  <2>2. BosOwnStorage'
    BY <1>7, <1>0, NullAssumption, ObjsAssumption DEF CreateUndo, GemClose,
       ctxVars, jobVars, TypeOK, BosOwnStorage, Holds, Usable, InCall,
       FieldsOK, OneHolder, OneMapping
  <2>3. OneHolder'
    BY <1>7, <1>0 DEF CreateUndo, GemClose, ctxVars, jobVars, TypeOK,
       OneHolder, Holds, Usable
  <2>4. OneHandle'
    BY <1>7, <1>0 DEF CreateUndo, GemClose, ctxVars, jobVars, TypeOK,
       OneHandle
  <2>10. OneDma'
    BY <1>7, <1>0 DEF CreateUndo, GemClose, ctxVars, jobVars, TypeOK,
       OneDma
  <2>5. OneMapping'
    BY <1>7, <1>0, NullAssumption DEF CreateUndo, GemClose, ctxVars, jobVars,
       TypeOK, OneMapping, FieldsOK, BosOwnStorage, Holds, Usable
  <2>6. NoLeak'
    BY <1>7, <1>0 DEF CreateUndo, GemClose, ctxVars, jobVars, TypeOK, NoLeak,
       Holds, Usable
  <2>7. MappingFits'
    BY <1>7, <1>0 DEF CreateUndo, GemClose, ctxVars, jobVars, TypeOK,
       MappingFits, Usable
  <2>8. JobsOK'
    BY <1>7, <1>0 DEF CreateUndo, GemClose, ctxVars, jobVars, TypeOK, JobsOK,
       Unfinished, Pins
  <2>9. FreshUnpinned'
    BY <1>7, <1>0 DEF CreateUndo, GemClose, ctxVars, jobVars, TypeOK,
       FreshUnpinned, Pins
  <2> QED
    BY <1>0, <2>1, <2>2, <2>3, <2>4, <2>5, <2>6, <2>7, <2>8, <2>9, <2>10 DEF IInv
<1>8. ASSUME NEW b \in Bos, Unmap(b) PROVE IInv'
  <2>1. FieldsOK'
    BY <1>8, <1>0, NullAssumption DEF Unmap, Unmapped, ctxVars, jobVars,
       TypeOK, FieldsOK, Usable, BosOwnStorage, Holds
  <2>2. BosOwnStorage'
    BY <1>8, <1>0, NullAssumption, ObjsAssumption DEF Unmap, Unmapped,
       ctxVars, jobVars, TypeOK, BosOwnStorage, Holds, Usable, InCall,
       FieldsOK, OneHolder, OneMapping
  <2>3. OneHolder'
    BY <1>8, <1>0 DEF Unmap, Unmapped, ctxVars, jobVars, TypeOK, OneHolder,
       Holds, Usable
  <2>4. OneHandle'
    BY <1>8, <1>0 DEF Unmap, Unmapped, ctxVars, jobVars, TypeOK, OneHandle
  <2>10. OneDma'
    BY <1>8, <1>0 DEF Unmap, Unmapped, ctxVars, jobVars, TypeOK, OneDma
  <2>5. OneMapping'
    BY <1>8, <1>0, NullAssumption DEF Unmap, Unmapped, ctxVars, jobVars,
       TypeOK, OneMapping, FieldsOK, BosOwnStorage, Holds, Usable
  <2>6. NoLeak'
    BY <1>8, <1>0 DEF Unmap, Unmapped, ctxVars, jobVars, TypeOK, NoLeak,
       Holds, Usable
  <2>7. MappingFits'
    BY <1>8, <1>0 DEF Unmap, Unmapped, ctxVars, jobVars, TypeOK, MappingFits,
       Usable
  <2>8. JobsOK'
    BY <1>8, <1>0 DEF Unmap, Unmapped, ctxVars, jobVars, TypeOK, JobsOK,
       Unfinished, Pins
  <2>9. FreshUnpinned'
    BY <1>8, <1>0 DEF Unmap, Unmapped, ctxVars, jobVars, TypeOK,
       FreshUnpinned, Pins
  <2> QED
    BY <1>0, <2>1, <2>2, <2>3, <2>4, <2>5, <2>6, <2>7, <2>8, <2>9, <2>10 DEF IInv
<1>9. ASSUME NEW b \in Bos, DestroyUnmap(b) PROVE IInv'
  <2>1. FieldsOK'
    BY <1>9, <1>0 DEF DestroyUnmap, Unmapped, ctxVars, jobVars, TypeOK,
       FieldsOK, Usable
  <2>2. BosOwnStorage'
    BY <1>9, <1>0, NullAssumption, ObjsAssumption DEF DestroyUnmap, Unmapped,
       ctxVars, jobVars, TypeOK, BosOwnStorage, Holds, Usable, InCall,
       FieldsOK, OneHolder, OneMapping
  <2>3. OneHolder'
    BY <1>9, <1>0, NullAssumption DEF DestroyUnmap, Unmapped, ctxVars,
       jobVars, TypeOK, OneHolder, Holds, Usable, FieldsOK, BosOwnStorage
  <2>4. OneHandle'
    BY <1>9, <1>0 DEF DestroyUnmap, Unmapped, ctxVars, jobVars, TypeOK,
       OneHandle
  <2>10. OneDma'
    BY <1>9, <1>0 DEF DestroyUnmap, Unmapped, ctxVars, jobVars, TypeOK,
       OneDma
  <2>5. OneMapping'
    BY <1>9, <1>0, NullAssumption DEF DestroyUnmap, Unmapped, ctxVars,
       jobVars, TypeOK, OneMapping, FieldsOK, BosOwnStorage, Holds, Usable
  <2>6. NoLeak'
    BY <1>9, <1>0, NullAssumption DEF DestroyUnmap, Unmapped, ctxVars,
       jobVars, TypeOK, NoLeak, Holds, Usable, FieldsOK, BosOwnStorage
  <2>7. MappingFits'
    BY <1>9, <1>0 DEF DestroyUnmap, Unmapped, ctxVars, jobVars, TypeOK,
       MappingFits, Usable
  <2>8. JobsOK'
    BY <1>9, <1>0 DEF DestroyUnmap, Unmapped, ctxVars, jobVars, TypeOK,
       JobsOK, Unfinished, Pins
  <2>9. FreshUnpinned'
    BY <1>9, <1>0 DEF DestroyUnmap, Unmapped, ctxVars, jobVars, TypeOK,
       FreshUnpinned, Pins
  <2> QED
    BY <1>0, <2>1, <2>2, <2>3, <2>4, <2>5, <2>6, <2>7, <2>8, <2>9, <2>10 DEF IInv
<1>10. ASSUME NEW b \in Bos, DestroyClose(b) PROVE IInv'
  <2>1. FieldsOK'
    BY <1>10, <1>0 DEF DestroyClose, GemClose, ctxVars, jobVars, TypeOK,
       FieldsOK, Usable
  <2>2. BosOwnStorage'
    BY <1>10, <1>0, NullAssumption, ObjsAssumption DEF DestroyClose, GemClose,
       ctxVars, jobVars, TypeOK, BosOwnStorage, Holds, Usable, InCall,
       FieldsOK, OneHolder, OneMapping
  <2>3. OneHolder'
    BY <1>10, <1>0 DEF DestroyClose, GemClose, ctxVars, jobVars, TypeOK,
       OneHolder, Holds, Usable
  <2>4. OneHandle'
    BY <1>10, <1>0 DEF DestroyClose, GemClose, ctxVars, jobVars, TypeOK,
       OneHandle
  <2>10. OneDma'
    BY <1>10, <1>0 DEF DestroyClose, GemClose, ctxVars, jobVars, TypeOK,
       OneDma
  <2>5. OneMapping'
    BY <1>10, <1>0 DEF DestroyClose, GemClose, ctxVars, jobVars, TypeOK,
       OneMapping
  <2>6. NoLeak'
    BY <1>10, <1>0 DEF DestroyClose, GemClose, ctxVars, jobVars, TypeOK,
       NoLeak, Holds, Usable
  <2>7. MappingFits'
    BY <1>10, <1>0 DEF DestroyClose, GemClose, ctxVars, jobVars, TypeOK,
       MappingFits, Usable
  <2>8. JobsOK'
    BY <1>10, <1>0 DEF DestroyClose, GemClose, ctxVars, jobVars, TypeOK,
       JobsOK, Unfinished, Pins
  <2>9. FreshUnpinned'
    BY <1>10, <1>0 DEF DestroyClose, GemClose, ctxVars, jobVars, TypeOK,
       FreshUnpinned, Pins
  <2> QED
    BY <1>0, <2>1, <2>2, <2>3, <2>4, <2>5, <2>6, <2>7, <2>8, <2>9, <2>10 DEF IInv
<1>11. ASSUME NEW b \in Bos, NEW wait \in {"waiting", "blocked"}, PrepEnter(b, wait)
       PROVE IInv'
  <2>1. FieldsOK'
    BY <1>11, <1>0 DEF PrepEnter, ctxVars, drvVars, TypeOK, FieldsOK, Usable
  <2>2. BosOwnStorage'
    BY <1>11, <1>0 DEF PrepEnter, ctxVars, drvVars, TypeOK, BosOwnStorage,
       Holds, Usable, InCall
  <2>3. OneHolder'
    BY <1>11, <1>0 DEF PrepEnter, ctxVars, drvVars, TypeOK, OneHolder, Holds,
       Usable
  <2>4. OneHandle'
    BY <1>11, <1>0 DEF PrepEnter, ctxVars, drvVars, TypeOK, OneHandle
  <2>10. OneDma'
    BY <1>11, <1>0 DEF PrepEnter, ctxVars, drvVars, TypeOK, OneDma
  <2>5. OneMapping'
    BY <1>11, <1>0 DEF PrepEnter, ctxVars, drvVars, TypeOK, OneMapping
  <2>6. NoLeak'
    BY <1>11, <1>0 DEF PrepEnter, ctxVars, drvVars, TypeOK, NoLeak, Holds,
       Usable
  <2>7. MappingFits'
    BY <1>11, <1>0 DEF PrepEnter, ctxVars, drvVars, TypeOK, MappingFits,
       Usable
  <2>8. JobsOK'
    BY <1>11, <1>0 DEF PrepEnter, ctxVars, drvVars, TypeOK, JobsOK,
       Unfinished, Pins
  <2>9. FreshUnpinned'
    BY <1>11, <1>0 DEF PrepEnter, ctxVars, drvVars, TypeOK, FreshUnpinned,
       Pins
  <2> QED
    BY <1>0, <2>1, <2>2, <2>3, <2>4, <2>5, <2>6, <2>7, <2>8, <2>9, <2>10 DEF IInv
<1>12. ASSUME NEW b \in Bos, PrepReturn(b) \/ PrepTimeout(b) PROVE IInv'
  <2>1. FieldsOK'
    BY <1>12, <1>0 DEF PrepReturn, PrepTimeout, ctxVars, drvVars, TypeOK,
       FieldsOK, Usable
  <2>2. BosOwnStorage'
    BY <1>12, <1>0 DEF PrepReturn, PrepTimeout, ctxVars, drvVars, TypeOK,
       BosOwnStorage, Holds, Usable, InCall
  <2>3. OneHolder'
    BY <1>12, <1>0 DEF PrepReturn, PrepTimeout, ctxVars, drvVars, TypeOK,
       OneHolder, Holds, Usable
  <2>4. OneHandle'
    BY <1>12, <1>0 DEF PrepReturn, PrepTimeout, ctxVars, drvVars, TypeOK,
       OneHandle
  <2>10. OneDma'
    BY <1>12, <1>0 DEF PrepReturn, PrepTimeout, ctxVars, drvVars, TypeOK,
       OneDma
  <2>5. OneMapping'
    BY <1>12, <1>0 DEF PrepReturn, PrepTimeout, ctxVars, drvVars, TypeOK,
       OneMapping
  <2>6. NoLeak'
    BY <1>12, <1>0 DEF PrepReturn, PrepTimeout, ctxVars, drvVars, TypeOK,
       NoLeak, Holds, Usable
  <2>7. MappingFits'
    BY <1>12, <1>0 DEF PrepReturn, PrepTimeout, ctxVars, drvVars, TypeOK,
       MappingFits, Usable
  <2>8. JobsOK'
    BY <1>12, <1>0 DEF PrepReturn, PrepTimeout, ctxVars, drvVars, TypeOK,
       JobsOK, Unfinished, Pins
  <2>9. FreshUnpinned'
    BY <1>12, <1>0 DEF PrepReturn, PrepTimeout, ctxVars, drvVars, TypeOK,
       FreshUnpinned, Pins
  <2> QED
    BY <1>0, <2>1, <2>2, <2>3, <2>4, <2>5, <2>6, <2>7, <2>8, <2>9, <2>10 DEF IInv
<1>13. ASSUME NEW j \in Jobs, NEW cmdBo \in Bos, NEW inBos \in SUBSET Bos,
               NEW outBos \in SUBSET Bos, cmdBo \in inBos,
               Submit(j, cmdBo, inBos, outBos)
       PROVE IInv'
  <2>1. FieldsOK'
    BY <1>13, <1>0 DEF Submit, SubmitJob, ctxVars, boVars, TypeOK, FieldsOK,
       Usable
  <2>2. BosOwnStorage'
    BY <1>13, <1>0 DEF Submit, SubmitJob, ctxVars, boVars, TypeOK,
       BosOwnStorage, Holds, Usable, InCall
  <2>3. OneHolder'
    BY <1>13, <1>0 DEF Submit, SubmitJob, ctxVars, boVars, TypeOK, OneHolder,
       Holds, Usable
  <2>4. OneHandle'
    BY <1>13, <1>0 DEF Submit, SubmitJob, ctxVars, boVars, TypeOK, OneHandle
  <2>10. OneDma'
    BY <1>13, <1>0 DEF Submit, SubmitJob, ctxVars, boVars, TypeOK, OneDma
  <2>5. OneMapping'
    BY <1>13, <1>0 DEF Submit, SubmitJob, ctxVars, boVars, TypeOK, OneMapping
  <2>6. NoLeak'
    BY <1>13, <1>0 DEF Submit, SubmitJob, ctxVars, boVars, TypeOK, NoLeak,
       Holds, Usable
  <2>7. MappingFits'
    BY <1>13, <1>0 DEF Submit, SubmitJob, ctxVars, boVars, TypeOK,
       MappingFits, Usable
  <2>8. JobsOK'
    BY <1>13, <1>0, NullAssumption DEF Submit, SubmitJob, ctxVars, boVars,
       TypeOK, JobsOK, Unfinished, Pins, FieldsOK, BosOwnStorage, Holds,
       Usable
  <2>9. FreshUnpinned'
    BY <1>13, <1>0, NullAssumption, ObjsAssumption DEF Submit, SubmitJob,
       ctxVars, boVars, TypeOK, FieldsOK, BosOwnStorage, OneHolder, OneHandle, OneDma,
       OneMapping, NoLeak, MappingFits, JobsOK, FreshUnpinned, Holds, Usable,
       InCall, Unfinished, Pins
  <2> QED
    BY <1>0, <2>1, <2>2, <2>3, <2>4, <2>5, <2>6, <2>7, <2>8, <2>9, <2>10 DEF IInv
<1>14. ASSUME NEW j \in Jobs, NpuDone(j) PROVE IInv'
  <2>1. FieldsOK'
    BY <1>14, <1>0 DEF NpuDone, JobDone, ctxVars, boVars, TypeOK, FieldsOK,
       Usable
  <2>2. BosOwnStorage'
    BY <1>14, <1>0 DEF NpuDone, JobDone, ctxVars, boVars, TypeOK,
       BosOwnStorage, Holds, Usable, InCall
  <2>3. OneHolder'
    BY <1>14, <1>0 DEF NpuDone, JobDone, ctxVars, boVars, TypeOK, OneHolder,
       Holds, Usable
  <2>4. OneHandle'
    BY <1>14, <1>0 DEF NpuDone, JobDone, ctxVars, boVars, TypeOK, OneHandle
  <2>10. OneDma'
    BY <1>14, <1>0 DEF NpuDone, JobDone, ctxVars, boVars, TypeOK, OneDma
  <2>5. OneMapping'
    BY <1>14, <1>0 DEF NpuDone, JobDone, ctxVars, boVars, TypeOK, OneMapping
  <2>6. NoLeak'
    BY <1>14, <1>0 DEF NpuDone, JobDone, ctxVars, boVars, TypeOK, NoLeak,
       Holds, Usable
  <2>7. MappingFits'
    BY <1>14, <1>0 DEF NpuDone, JobDone, ctxVars, boVars, TypeOK, MappingFits,
       Usable
  <2>8. JobsOK'
    BY <1>14, <1>0 DEF NpuDone, JobDone, ctxVars, boVars, TypeOK, JobsOK,
       Unfinished, Pins
  <2>9. FreshUnpinned'
    BY <1>14, <1>0 DEF NpuDone, JobDone, ctxVars, boVars, TypeOK,
       FreshUnpinned, Pins
  <2> QED
    BY <1>0, <2>1, <2>2, <2>3, <2>4, <2>5, <2>6, <2>7, <2>8, <2>9, <2>10 DEF IInv
<1>15. CASE UNCHANGED vars
  BY <1>15, <1>0 DEF vars, IInv, TypeOK, FieldsOK, BosOwnStorage, OneHolder,
     OneHandle, OneDma, OneMapping, NoLeak, MappingFits, JobsOK, FreshUnpinned, Holds,
     Usable, InCall, Unfinished, Pins
<1> QED
  BY <1>1, <1>2, <1>3, <1>4, <1>5, <1>6, <1>7, <1>8, <1>9, <1>10,
     <1>11, <1>12, <1>13, <1>14, <1>15
  DEF Next, BoStep, Create, SubmitAny

(* The strengthened invariant holds in every reachable state.              *)
LEMMA Invariance == Spec => []IInv
<1>1. Init => IInv
  BY InitIInv
<1>2. IInv /\ [Next]_vars => IInv'
  BY NextIInv
<1> QED
  BY <1>1, <1>2, PTL DEF Spec

-----------------------------------------------------------------------------
(* Theorems.                                                               *)

(* Every field, table and job slot always holds a value of its type; in    *)
(* particular a job's command address is the address of an object.         *)
THEOREM TypeCorrect == Spec => []TypeOK
<1>1. IInv => TypeOK
  BY DEF IInv
<1> QED
  BY Invariance, <1>1, PTL

(* The struct of a BO in use describes the object behind its handle and    *)
(* its mapping, for any number of BOs created, failing and destroyed.      *)
THEOREM BosOwnTheirStorage == Spec => []BosOwnStorage
<1>1. IInv => BosOwnStorage
  BY DEF IInv
<1> QED
  BY Invariance, <1>1, PTL

(* No two BOs ever share a handle, an object or a mapping.                 *)
THEOREM BosAreDisjoint == Spec => []BosDisjoint
<1>1. IInv => BosDisjoint
  <2> SUFFICES ASSUME IInv,
                      NEW b \in Bos, NEW c \in Bos, b # c, Holds(b), Holds(c)
               PROVE  /\ handle[b] # handle[c]
                      /\ offset[b] # offset[c]
                      /\ dma[b] # dma[c]
                      /\ map[b] = map[c] => map[b] \in {NoAddr, MapFailed}
    BY DEF BosDisjoint
  <2>1. handle[b] # handle[c]
    BY DEF IInv, OneHolder
  <2>2. offset[b] # offset[c] /\ dma[b] # dma[c]
    BY <2>1 DEF IInv, OneHandle, OneDma, BosOwnStorage
  <2>3. map[b] = map[c] => map[b] \in {NoAddr, MapFailed}
    BY DEF IInv, OneMapping, TypeOK
  <2> QED
    BY <2>1, <2>2, <2>3
<1> QED
  BY Invariance, <1>1, PTL

(* No handle and no mapping is ever left behind, by a failed creation or   *)
(* by a destruction.                                                       *)
THEOREM NothingLeaks == Spec => []NoLeak
<1>1. IInv => NoLeak
  BY DEF IInv
<1> QED
  BY Invariance, <1>1, PTL

(* A BO is never mapped beyond its object, whatever the 32-bit size field  *)
(* did to its size.                                                        *)
THEOREM MappingsFit == Spec => []MappingFits
<1>1. IInv => MappingFits
  BY DEF IInv
<1> QED
  BY Invariance, <1>1, PTL

-----------------------------------------------------------------------------
(* Refinement of the buffer pool.                                          *)

LEMMA InitPool == Init => Pool!PoolInit
BY DEF Init, DriverInit, Pool!PoolInit, OwnedStorage, HeldStorage, Usable, Pins

(* The driver finds, behind the handles a submit passes, the objects of    *)
(* the BOs they were read from.                                            *)
LEMMA ListedObjects ==
  ASSUME NEW S \in SUBSET Bos, \A b \in S : gem[handle[b]] = offset[b]
  PROVE  {gem[h] : h \in {handle[b] : b \in S}} = {offset[b] : b \in S}
<1>1. ASSUME NEW o \in {gem[h] : h \in {handle[b] : b \in S}}
      PROVE  o \in {offset[b] : b \in S}
  <2>1. PICK b \in S : o = gem[handle[b]]
    OBVIOUS
  <2> QED
    BY <2>1
<1>2. ASSUME NEW b \in S PROVE offset[b] \in {gem[h] : h \in {handle[c] : c \in S}}
  <2>1. handle[b] \in {handle[c] : c \in S} /\ offset[b] = gem[handle[b]]
    OBVIOUS
  <2> QED
    BY <2>1
<1> QED
  BY <1>1, <1>2

LEMMA NextPool == IInv /\ [Next]_vars => [Pool!PoolNext]_(Pool!poolVars)
<1> SUFFICES ASSUME IInv, [Next]_vars
             PROVE  Pool!PoolNext \/ UNCHANGED <<OwnedStorage, HeldStorage>>
  BY DEF Pool!poolVars
<1>0. TypeOK
  BY DEF IInv
<1> USE DEF OwnedStorage, HeldStorage, Usable, Pins
<1>1. ASSUME NEW n \in Nodes, Open(n) PROVE UNCHANGED <<OwnedStorage, HeldStorage>>
  BY <1>1 DEF Open, boVars, drvVars
<1>2. CASE OpenFails
  BY <1>2 DEF OpenFails, vars
<1>3. CASE Close
  BY <1>3 DEF Close, CloseFile, boVars, jobVars
<1>4. ASSUME NEW b \in Bos, NEW s \in Sizes, NEW h \in Handles, NEW o \in Objs,
             NEW d \in Dmas, CreateIoctl(b, s, h, o, d)
      PROVE  UNCHANGED <<OwnedStorage, HeldStorage>>
  BY <1>0, <1>4 DEF CreateIoctl, CreateBo, TypeOK, jobVars
<1>5. ASSUME NEW b \in Bos, NEW a \in Addrs, CreateMmap(b, a)
      PROVE  \E o \in Objs : Pool!Acquire(b, o)
  <2> USE <1>0, <1>5 DEF CreateMmap, Mmap, TypeOK, jobVars
  <2> PICK o \in Objs : o = offset[b]
    BY DEF IInv, BosOwnStorage, Holds
  <2>1. OwnedStorage[b] = NoObj
    OBVIOUS
  <2>2. \A c \in Bos : OwnedStorage[c] # o
    BY DEF IInv, BosOwnStorage, OneHolder, OneHandle, Holds
  <2>3. \A j \in Jobs : o \notin HeldStorage[j]
    BY DEF IInv, FreshUnpinned, JobsOK, Unfinished, BosOwnStorage, Holds
  <2>4. OwnedStorage' = [OwnedStorage EXCEPT ![b] = o]
    OBVIOUS
  <2>5. UNCHANGED HeldStorage
    OBVIOUS
  <2> QED
    BY <2>1, <2>2, <2>3, <2>4, <2>5 DEF Pool!Acquire
<1>6. ASSUME NEW b \in Bos, CreateMmapFails(b) PROVE UNCHANGED <<OwnedStorage, HeldStorage>>
  BY <1>0, <1>6 DEF CreateMmapFails, TypeOK, drvVars
<1>7. ASSUME NEW b \in Bos, CreateUndo(b) PROVE UNCHANGED <<OwnedStorage, HeldStorage>>
  BY <1>0, <1>7 DEF CreateUndo, GemClose, TypeOK, jobVars
<1>8. ASSUME NEW b \in Bos, Unmap(b) PROVE UNCHANGED <<OwnedStorage, HeldStorage>>
  BY <1>8 DEF Unmap, Unmapped, jobVars
<1>9. ASSUME NEW b \in Bos, DestroyUnmap(b)
      PROVE  Pool!Release(b) \/ UNCHANGED <<OwnedStorage, HeldStorage>>
  <2> USE <1>0, <1>9 DEF DestroyUnmap, TypeOK, jobVars
  <2>1. CASE stage[b] = "zero"
    BY <2>1
  <2>2. CASE stage[b] = "live"
    <3>1. OwnedStorage[b] # NoObj
      BY <2>2 DEF IInv, BosOwnStorage, Holds
    <3>2. OwnedStorage' = [OwnedStorage EXCEPT ![b] = NoObj]
      BY <2>2
    <3> QED
      BY <3>1, <3>2 DEF Pool!Release
  <2> QED
    BY <2>1, <2>2
<1>10. ASSUME NEW b \in Bos, DestroyClose(b) PROVE UNCHANGED <<OwnedStorage, HeldStorage>>
  BY <1>0, <1>10 DEF DestroyClose, GemClose, TypeOK, jobVars
<1>11. ASSUME NEW b \in Bos, NEW wait \in {"waiting", "blocked"}, PrepEnter(b, wait)
       PROVE  UNCHANGED <<OwnedStorage, HeldStorage>>
  BY <1>0, <1>11 DEF PrepEnter, TypeOK, drvVars
<1>12. ASSUME NEW b \in Bos, PrepReturn(b) \/ PrepTimeout(b)
       PROVE  UNCHANGED <<OwnedStorage, HeldStorage>>
  BY <1>0, <1>12 DEF PrepReturn, PrepTimeout, TypeOK, drvVars
<1>13. ASSUME NEW j \in Jobs, NEW cmdBo \in Bos, NEW inBos \in SUBSET Bos,
               NEW outBos \in SUBSET Bos, cmdBo \in inBos,
               Submit(j, cmdBo, inBos, outBos)
       PROVE  \E s \in SUBSET Objs : Pool!Start(j, s)
  <2> DEFINE bos == inBos \cup outBos
             s == {offset[b] : b \in inBos} \cup {offset[b] : b \in outBos}
  <2>1. \A b \in bos : gem[handle[b]] = offset[b] /\ offset[b] \in Objs /\ OwnedStorage[b] = offset[b]
    BY <1>0, <1>13 DEF Submit, IInv, BosOwnStorage, Holds, TypeOK
  <2>2. /\ jins' = [jins EXCEPT ![j] = {offset[b] : b \in inBos}]
        /\ jouts' = [jouts EXCEPT ![j] = {offset[b] : b \in outBos}]
    <3>1. {gem[h] : h \in {handle[b] : b \in inBos}} = {offset[b] : b \in inBos}
      BY <2>1, ListedObjects
    <3>2. {gem[h] : h \in {handle[b] : b \in outBos}} = {offset[b] : b \in outBos}
      BY <2>1, ListedObjects
    <3> QED
      BY <1>13, <3>1, <3>2 DEF Submit, SubmitJob
  <2>6. UNCHANGED OwnedStorage
    BY <1>13 DEF Submit, boVars
  <2>3. HeldStorage[j] = {}
    BY <1>0, <1>13 DEF Submit, SubmitJob, Unfinished, IInv, JobsOK
  <2>4. HeldStorage' = [HeldStorage EXCEPT ![j] = s]
    <3>1. Pins(j)' = s
      BY <1>0, <2>1, <2>2 DEF TypeOK
    <3>2. ASSUME NEW k \in Jobs, k # j
          PROVE  Pins(k)' = HeldStorage[k]
      BY <1>0, <2>2, <3>2 DEF TypeOK
    <3> QED
      BY <3>1, <3>2
  <2>5. s \in SUBSET Objs /\ s # {} /\ \A o \in s : \E b \in Bos : OwnedStorage[b] = o
    <3>1. offset[cmdBo] \in s
      BY <1>13
    <3>2. ASSUME NEW o \in s
          PROVE  o \in Objs /\ \E b \in Bos : OwnedStorage[b] = o
      <4>1. PICK b \in bos : o = offset[b]
        OBVIOUS
      <4> QED
        BY <2>1, <4>1
    <3> QED
      BY <3>1, <3>2
  <2> QED
    BY <2>3, <2>4, <2>5, <2>6 DEF Pool!Start
<1>14. ASSUME NEW j \in Jobs, NpuDone(j) PROVE Pool!Finish(j)
  <2>1. HeldStorage' = [HeldStorage EXCEPT ![j] = {}]
    BY <1>0, <1>14 DEF NpuDone, JobDone, TypeOK
  <2>2. UNCHANGED OwnedStorage
    BY <1>14 DEF NpuDone, boVars
  <2> QED
    BY <2>1, <2>2 DEF Pool!Finish
<1>15. CASE UNCHANGED vars
  BY <1>15 DEF vars
<1>16. ASSUME NEW b \in Bos, BoStep(b)
       PROVE  Pool!PoolNext \/ UNCHANGED <<OwnedStorage, HeldStorage>>
  <2>1. ASSUME NEW a \in Addrs, CreateMmap(b, a) PROVE Pool!PoolNext
    BY <1>5, <2>1 DEF Pool!PoolNext
  <2>2. CASE DestroyUnmap(b)
    BY <1>9, <2>2 DEF Pool!PoolNext
  <2> QED
    BY <1>4, <1>6, <1>7, <1>8, <1>10, <1>11, <1>12, <1>16, <2>1, <2>2 DEF BoStep, Create
<1>17. ASSUME NEW j \in Jobs, SubmitAny(j) \/ NpuDone(j) PROVE Pool!PoolNext
  <2>1. CASE SubmitAny(j)
    <3>1. PICK cmdBo \in Bos, inBos \in SUBSET Bos, outBos \in SUBSET Bos :
            cmdBo \in inBos /\ Submit(j, cmdBo, inBos, outBos)
      BY <2>1 DEF SubmitAny
    <3>2. PICK s \in SUBSET Objs : Pool!Start(j, s)
      BY <1>13, <3>1
    <3> QED
      BY <3>2 DEF Pool!PoolNext
  <2>2. CASE NpuDone(j)
    BY <1>14, <2>2 DEF Pool!PoolNext
  <2> QED
    BY <1>17, <2>1, <2>2
<1> QED
  BY <1>1, <1>2, <1>3, <1>15, <1>16, <1>17 DEF Next

(* The library implements the buffer pool: storage is owned from creation  *)
(* to destruction, held by the jobs it was given to, and never handed out  *)
(* while a BO owns it or a job holds it, even when a BO is destroyed while *)
(* its job runs.                                                           *)
THEOREM LibraryImplementsPool == Spec => ImplementsPool
<1>1. Init => Pool!PoolInit
  BY InitPool
<1>2. IInv /\ [Next]_vars => [Pool!PoolNext]_(Pool!poolVars)
  BY NextPool
<1> QED
  BY <1>1, <1>2, Invariance, PTL DEF Spec, ImplementsPool, Pool!PoolSpec
=============================================================================
