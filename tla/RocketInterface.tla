--------------------------- MODULE RocketInterface ---------------------------
(***************************************************************************)
(* src/src/rocket_interface.c: one context and the buffer objects (BOs) a  *)
(* program creates on it.  The library keeps no state of its own and takes *)
(* no lock: a call works on the caller's rocket_ctx and rocket_bo and goes *)
(* to the driver one system call at a time, so calls on different BOs, the *)
(* NPU and the driver interleave between any two system calls.             *)
(*                                                                         *)
(* stage[b] is the point the program has reached with BO b, as its return  *)
(* codes tell it, and the point inside the call that is running on b:      *)
(*   "zero"     a zeroed struct: never created, or destroyed               *)
(*   "mapping"  rocket_bo_create, GEM object allocated, before mmap        *)
(*   "undoing"  rocket_bo_create, mmap failed, before the handle is closed *)
(*   "failed"   rocket_bo_create returned an error after filling the struct*)
(*   "live"     created, and no call is running on it                      *)
(*   "waiting"  in rocket_bo_prep with a timeout                           *)
(*   "blocked"  in rocket_bo_prep without one (timeout_ns = -1)            *)
(*   "closing"  rocket_bo_destroy, unmapped, before the handle is closed   *)
(* A program runs one call at a time on one BO, creates only on a struct   *)
(* that holds no BO, destroys only a BO it created (or a zeroed struct),   *)
(* and closes the context when no BO is left: the tests all do.            *)
(*                                                                         *)
(* A call that fails at its first system call (or at a calloc) changes     *)
(* nothing but its return code and has no step here.  rocket_bo_fini only  *)
(* synchronises caches, which this module does not model.                  *)
(***************************************************************************)
EXTENDS RocketDriver

CONSTANTS Bos,        \* the rocket_bo structs of the program
          Sizes,      \* the sizes it asks for
          NoHandle,   \* handle 0, which names no GEM object
          NoAddr,     \* the NULL pointer
          MapFailed   \* MAP_FAILED, what mmap returns when it fails

ASSUME SizesAssumption == Sizes \subseteq Nat
ASSUME NullAssumption  == NoHandle \notin Handles /\ NoAddr \notin Addrs
                          /\ MapFailed \notin Addrs /\ MapFailed # NoAddr

VARIABLES nodes,      \* what open finds at /dev/accel/accel0 and accel1
          ctx,        \* ctx->fd: the node it is open on, or "closed" (-1)
          stage,      \* see above
          handle, dma, size, map,   \* the fields of each rocket_bo
          offset      \* create.offset: a local variable of rocket_bo_create,
                      \* kept until the BO is gone to name its object

boVars == <<stage, handle, offset, dma, size, map>>
ctxVars == <<nodes, ctx>>
vars == <<nodes, ctx, stage, handle, offset, dma, size, map, gem, iova, osize, vma, jcmd, jins, jouts>>

Nodes == {"accel0", "accel1"}
NodeKinds == {"rocket", "other", "unopenable"}
Stages == {"zero", "mapping", "undoing", "failed", "live", "waiting", "blocked", "closing"}

InCall(b) == stage[b] \in {"mapping", "undoing", "waiting", "blocked", "closing"}
Usable(b) == stage[b] \in {"live", "waiting", "blocked"}

Init ==
  /\ DriverInit
  /\ nodes \in [Nodes -> NodeKinds]
  /\ ctx = "closed"
  /\ stage = [b \in Bos |-> "zero"]
  /\ handle = [b \in Bos |-> NoHandle]
  /\ offset = [b \in Bos |-> NoObj]
  /\ dma = [b \in Bos |-> NoDma]
  /\ size = [b \in Bos |-> 0]
  /\ map = [b \in Bos |-> NoAddr]

-----------------------------------------------------------------------------
(* The context.                                                            *)

(* accel1 is tried only when accel0 cannot be opened.                      *)
Open(n) ==
  /\ ctx = "closed"
  /\ nodes[n] # "unopenable"
  /\ n = "accel1" => nodes["accel0"] = "unopenable"
  /\ ctx' = n
  /\ UNCHANGED <<nodes, boVars, drvVars>>

(* Neither node can be opened: the call returns -errno.                    *)
OpenFails ==
  /\ ctx = "closed"
  /\ \A n \in Nodes : nodes[n] = "unopenable"
  /\ UNCHANGED vars

Close ==
  /\ ctx # "closed"
  /\ \A b \in Bos : stage[b] \in {"zero", "failed"}
  /\ CloseFile
  /\ ctx' = "closed"
  /\ UNCHANGED <<nodes, boVars>>

-----------------------------------------------------------------------------
(* rocket_bo_create: the ioctl, mmap, and the undo when mmap fails.        *)

(* The size reaches the driver through a 32-bit field; bo->size keeps it   *)
(* whole.  A device that is no rocket refuses the ioctl.                   *)
CreateIoctl(b, s, h, o, d) ==
  /\ ctx # "closed" /\ nodes[ctx] = "rocket"
  /\ stage[b] \in {"zero", "failed"}
  /\ CreateBo(h, o, d, s % U32)
  /\ handle' = [handle EXCEPT ![b] = h]
  /\ offset' = [offset EXCEPT ![b] = o]
  /\ dma' = [dma EXCEPT ![b] = d]
  /\ size' = [size EXCEPT ![b] = s]
  /\ map' = [map EXCEPT ![b] = NoAddr]
  /\ stage' = [stage EXCEPT ![b] = "mapping"]
  /\ UNCHANGED ctxVars

(* Mutant: the length cut to 32 bits like the size of the ioctl.           *)
CreateMmapTruncates(b, a) ==
  /\ stage[b] = "mapping"
  /\ Mmap(a, offset[b], size[b] % U32)
  /\ map' = [map EXCEPT ![b] = a]
  /\ stage' = [stage EXCEPT ![b] = "live"]
  /\ UNCHANGED <<ctxVars, handle, offset, dma, size>>

CreateMmap(b, a) ==
  /\ stage[b] = "mapping"
  /\ Mmap(a, offset[b], size[b])
  /\ map' = [map EXCEPT ![b] = a]
  /\ stage' = [stage EXCEPT ![b] = "live"]
  /\ UNCHANGED <<ctxVars, handle, offset, dma, size>>

CreateMmapFails(b) ==
  /\ stage[b] = "mapping"
  /\ map' = [map EXCEPT ![b] = MapFailed]
  /\ stage' = [stage EXCEPT ![b] = "undoing"]
  /\ UNCHANGED <<ctxVars, handle, offset, dma, size, drvVars>>

(* Mutant: the error path returns without closing the handle.              *)
CreateUndoLeaks(b) ==
  /\ stage[b] = "undoing"
  /\ map' = [map EXCEPT ![b] = NoAddr]
  /\ stage' = [stage EXCEPT ![b] = "failed"]
  /\ UNCHANGED <<ctxVars, handle, offset, dma, size, drvVars>>

(* The fields stay as the ioctl filled them: the handle is stale now.      *)
CreateUndo(b) ==
  /\ stage[b] = "undoing"
  /\ GemClose(handle[b])
  /\ map' = [map EXCEPT ![b] = NoAddr]
  /\ offset' = [offset EXCEPT ![b] = NoObj]
  /\ stage' = [stage EXCEPT ![b] = "failed"]
  /\ UNCHANGED <<ctxVars, handle, dma, size>>

-----------------------------------------------------------------------------
(* rocket_bo_unmap and rocket_bo_destroy.  (rocket_bo_map only returns     *)
(* bo->map: the mapping of rocket_bo_create, or NULL once it is unmapped.) *)

(* munmap and the reset of bo->map.                                        *)
Unmapped(b) ==
  /\ vma' = [a \in Addrs |-> IF a = map[b] THEN NoObj ELSE vma[a]]
  /\ map' = [map EXCEPT ![b] = NoAddr]

Unmap(b) ==
  /\ stage[b] = "live" /\ map[b] # NoAddr
  /\ Unmapped(b)
  /\ UNCHANGED <<ctxVars, stage, handle, offset, dma, size, gem, iova, osize, jobVars>>

DestroyUnmap(b) ==
  /\ ctx # "closed"
  /\ stage[b] \in {"zero", "live"}
  /\ Unmapped(b)
  /\ stage' = [stage EXCEPT ![b] = "closing"]
  /\ UNCHANGED <<ctxVars, handle, offset, dma, size, gem, iova, osize, jobVars>>

(* Mutant: the struct keeps its handle.                                    *)
DestroyKeepsHandle(b) ==
  /\ stage[b] = "closing"
  /\ GemClose(handle[b])
  /\ stage' = [stage EXCEPT ![b] = "zero"]
  /\ UNCHANGED <<ctxVars, handle, offset, dma, size, map>>

DestroyClose(b) ==
  /\ stage[b] = "closing"
  /\ GemClose(handle[b])
  /\ handle' = [handle EXCEPT ![b] = NoHandle]
  /\ offset' = [offset EXCEPT ![b] = NoObj]
  /\ dma' = [dma EXCEPT ![b] = NoDma]
  /\ size' = [size EXCEPT ![b] = 0]
  /\ stage' = [stage EXCEPT ![b] = "zero"]
  /\ UNCHANGED <<ctxVars, map>>

-----------------------------------------------------------------------------
(* rocket_submit and rocket_bo_prep.                                       *)

(* The handles of the listed BOs and the DMA address of the command BO are *)
(* read from the structs and passed on.                                    *)
SubmitHandle(j, cmdBo, inBos, outBos) ==       \* mutant: regcmd is the handle
  /\ \A b \in {cmdBo} \cup inBos \cup outBos : stage[b] = "live"
  /\ SubmitJob(j, handle[cmdBo], {handle[b] : b \in inBos}, {handle[b] : b \in outBos})
  /\ UNCHANGED <<ctxVars, boVars>>

Submit(j, cmdBo, inBos, outBos) ==
  /\ \A b \in {cmdBo} \cup inBos \cup outBos : stage[b] = "live"
  /\ SubmitJob(j, dma[cmdBo], {handle[b] : b \in inBos}, {handle[b] : b \in outBos})
  /\ UNCHANGED <<ctxVars, boVars>>

PrepEnter(b, wait) ==
  /\ stage[b] = "live"
  /\ stage' = [stage EXCEPT ![b] = wait]
  /\ UNCHANGED <<ctxVars, handle, offset, dma, size, map, drvVars>>

(* Mutant: a prep without a timeout (-1) is not answered.                  *)
PrepReturnTimed(b) ==
  /\ stage[b] = "waiting"
  /\ Quiet(gem[handle[b]])
  /\ stage' = [stage EXCEPT ![b] = "live"]
  /\ UNCHANGED <<ctxVars, handle, offset, dma, size, map, drvVars>>

PrepReturn(b) ==
  /\ stage[b] \in {"waiting", "blocked"}
  /\ Quiet(gem[handle[b]])
  /\ stage' = [stage EXCEPT ![b] = "live"]
  /\ UNCHANGED <<ctxVars, handle, offset, dma, size, map, drvVars>>

PrepTimeoutIgnored(b) == PrepReturn(b)         \* mutant: timeout_ns is not passed on

PrepTimeout(b) ==
  /\ stage[b] = "waiting"
  /\ stage' = [stage EXCEPT ![b] = "live"]
  /\ UNCHANGED <<ctxVars, handle, offset, dma, size, map, drvVars>>

NpuDone(j) == JobDone(j) /\ UNCHANGED <<ctxVars, boVars>>

-----------------------------------------------------------------------------
(* A program lists its command BO as an input of the job, as               *)
(* tests/matmul_fp16_rocket.c does.                                        *)
Create(b) == \E s \in Sizes, h \in Handles, o \in Objs, d \in Dmas :
               CreateIoctl(b, s, h, o, d)

SubmitAny(j) == \E cmdBo \in Bos, inBos, outBos \in SUBSET Bos :
                   cmdBo \in inBos /\ Submit(j, cmdBo, inBos, outBos)

BoStep(b) ==
  \/ Create(b)
  \/ \E a \in Addrs : CreateMmap(b, a)
  \/ CreateMmapFails(b)
  \/ CreateUndo(b)
  \/ Unmap(b)
  \/ DestroyUnmap(b)
  \/ DestroyClose(b)
  \/ \E wait \in {"waiting", "blocked"} : PrepEnter(b, wait)
  \/ PrepReturn(b)
  \/ PrepTimeout(b)

Next ==
  \/ \E n \in Nodes : Open(n)
  \/ OpenFails
  \/ Close
  \/ \E b \in Bos : BoStep(b)
  \/ \E j \in Jobs : SubmitAny(j) \/ NpuDone(j)

(* A thread inside a call keeps running and a system call returns; a timed *)
(* wait ends with its timeout at the latest.                               *)
HostFairness ==
  \A b \in Bos :
    /\ WF_vars(CreateMmapFails(b) \/ \E a \in Addrs : CreateMmap(b, a))
    /\ WF_vars(CreateUndo(b))
    /\ WF_vars(DestroyClose(b))
    /\ WF_vars(PrepReturn(b) \/ PrepTimeout(b))

(* The NPU finishes every job it is given, or the driver ends it.          *)
NpuFairness == \A j \in Jobs : WF_vars(NpuDone(j))

Spec == Init /\ [][Next]_vars
HostSpec == Spec /\ HostFairness

-----------------------------------------------------------------------------
TypeOK ==
  /\ nodes \in [Nodes -> NodeKinds]
  /\ ctx \in Nodes \cup {"closed"}
  /\ stage \in [Bos -> Stages]
  /\ handle \in [Bos -> Handles \cup {NoHandle}]
  /\ offset \in [Bos -> Objs \cup {NoObj}]
  /\ dma \in [Bos -> Dmas \cup {NoDma}]
  /\ size \in [Bos -> Nat]
  /\ map \in [Bos -> Addrs \cup {NoAddr, MapFailed}]
  /\ gem \in [Handles -> Objs \cup {NoObj}]
  /\ iova \in [Handles -> Dmas \cup {NoDma}]
  /\ osize \in [Objs -> Nat]
  /\ vma \in [Addrs -> Objs \cup {NoObj}]
  /\ jcmd \in [Jobs -> Dmas \cup {NoDma}]
  /\ jins \in [Jobs -> SUBSET Objs]
  /\ jouts \in [Jobs -> SUBSET Objs]

-----------------------------------------------------------------------------
(* Safety.                                                                 *)

(* A BO holds a GEM handle from the ioctl of rocket_bo_create to the one   *)
(* of rocket_bo_destroy, or to the one that undoes a failed creation.      *)
Holds(b) ==
  \/ stage[b] \in {"mapping", "undoing"} \/ Usable(b)
  \/ stage[b] = "closing" /\ handle[b] # NoHandle

(* While the library holds a BO its handle stands for the object the BO    *)
(* was created with and keeps bo->dma_addr valid, and a non-NULL map maps  *)
(* that object: no call on another BO, no second destroy and no stale      *)
(* handle of a failed creation closes a handle, or removes a mapping, in   *)
(* use (rocket_bo_destroy zeroes handle and map for this).                 *)
BosOwnStorage ==
  \A b \in Bos :
    /\ Holds(b) =>
         /\ handle[b] \in Handles
         /\ gem[handle[b]] = offset[b] /\ offset[b] # NoObj
         /\ iova[handle[b]] = dma[b] /\ dma[b] # NoDma
    /\ Usable(b) /\ map[b] # NoAddr => map[b] \in Addrs /\ vma[map[b]] = offset[b]
    /\ InCall(b) \/ Usable(b) \/ map[b] = NoAddr

(* Two BOs never share a handle, an object, a DMA address or a mapping,    *)
(* whatever creations and destructions fail or interleave.                 *)
BosDisjoint ==
  \A b, c \in Bos : b # c /\ Holds(b) /\ Holds(c) =>
    /\ handle[b] # handle[c]
    /\ offset[b] # offset[c]
    /\ dma[b] # dma[c]
    /\ map[b] = map[c] => map[b] \in {NoAddr, MapFailed}

(* Nothing leaks: every open handle and every mapping belongs to a BO that *)
(* the program can still destroy or that a call is about to release; a     *)
(* creation whose mmap failed has left neither.                            *)
NoLeak ==
  /\ \A h \in Handles : gem[h] # NoObj => \E b \in Bos : Holds(b) /\ handle[b] = h
  /\ \A a \in Addrs : vma[a] # NoObj => \E b \in Bos : Usable(b) /\ map[b] = a

(* The bo->size bytes at bo->map are all backed by the object, even when   *)
(* the size does not fit the 32-bit field it is passed to the driver in.   *)
MappingFits ==
  \A b \in Bos : Usable(b) /\ map[b] # NoAddr => size[b] <= osize[offset[b]]

(* The library implements the buffer pool: a BO owns its object while the  *)
(* program may use it, and a job holds what it lists until it is done,     *)
(* though the BOs it was given may be destroyed before.                    *)
OwnedStorage == [b \in Bos |-> IF Usable(b) THEN offset[b] ELSE NoObj]
HeldStorage  == [j \in Jobs |-> Pins(j)]

Pool == INSTANCE BufferPool WITH owned <- OwnedStorage, held <- HeldStorage

ImplementsPool == Pool!PoolSpec

-----------------------------------------------------------------------------
(* Liveness.                                                               *)

(* Whatever the NPU does, even if it hangs for ever, a call other than a   *)
(* prep without a timeout returns.                                         *)
TimedCallsReturn ==
  \A b \in Bos : (InCall(b) /\ stage[b] # "blocked") ~> ~InCall(b)

(* A prep without a timeout returns if the NPU does the jobs it is given.  *)
UntimedPrepReturns ==
  NpuFairness => \A b \in Bos : stage[b] = "blocked" ~> stage[b] = "live"

(* Storage no BO holds any more is freed, after the jobs that still have   *)
(* it, if these end: nothing the library drops stays behind under a handle *)
(* or a mapping.                                                           *)
Orphan(o) == Allocated(o) /\ \A b \in Bos : Holds(b) => offset[b] # o

OrphansFreed == NpuFairness => \A o \in Objs : Orphan(o) ~> ~Allocated(o)
=============================================================================
