---------------------------- MODULE RocketDriver ----------------------------
(***************************************************************************)
(* The rocket DRM/accel driver and the NPU, seen through the requests that *)
(* rocket_interface.c makes of them: the ioctls of rocket_accel.h, mmap    *)
(* and munmap.  The driver is not in the repository: this module says only *)
(* what the library's code and the UAPI header rely on.                    *)
(*                                                                         *)
(* A GEM object stands for its storage and its mmap offset, which names    *)
(* the object and nothing else.  A DMA address is a name of its own: it is *)
(* valid for the lifetime of the handle (rocket_accel.h:36-38) and may     *)
(* then be given to another object.  There is one open file, hence one     *)
(* handle table.                                                           *)
(***************************************************************************)
EXTENDS Naturals

CONSTANTS Handles,    \* the GEM handles the driver hands out
          Objs,       \* GEM objects: storage and mmap offset
          Dmas,       \* DMA addresses: places in the NPU's address space
          Addrs,      \* the addresses mmap can return
          Jobs,       \* slots for jobs accepted and not yet finished
          NoObj,      \* no object
          NoDma,      \* no DMA address
          U32         \* 2^32: the sizes the size field of the ioctl can hold

ASSUME ObjsAssumption == NoObj \notin Objs
ASSUME DmasAssumption == NoDma \notin Dmas
ASSUME U32Assumption  == U32 \in Nat \ {0}

VARIABLES gem,        \* handle table of the open file: handle -> object
          iova,       \* the DMA address that is valid with a handle
          osize,      \* the size an object was allocated with
          vma,        \* mappings of the process: address -> object
          jcmd,       \* job -> address its register commands are fetched from
          jins,       \* job -> objects listed as read by the job
          jouts       \* job -> objects listed as written by the job

drvVars == <<gem, iova, osize, vma, jcmd, jins, jouts>>
jobVars == <<jcmd, jins, jouts>>

(* A job is unfinished from the submit that accepted it until it is done.  *)
Unfinished(j) == jcmd[j] # NoDma

(* What the driver keeps referenced for a job: the objects the submit      *)
(* listed.  The command buffer is only an address to it, which it does not *)
(* keep valid.                                                             *)
Pins(j) == jins[j] \cup jouts[j]

(* An object's storage stays allocated while a handle, a mapping or a job  *)
(* needs it.                                                               *)
Allocated(o) ==
  \/ \E h \in Handles : gem[h] = o
  \/ \E a \in Addrs : vma[a] = o
  \/ \E j \in Jobs : o \in Pins(j)

DriverInit ==
  /\ gem = [h \in Handles |-> NoObj]
  /\ iova = [h \in Handles |-> NoDma]
  /\ osize = [o \in Objs |-> 0]
  /\ vma = [a \in Addrs |-> NoObj]
  /\ jcmd = [j \in Jobs |-> NoDma]
  /\ jins = [j \in Jobs |-> {}]
  /\ jouts = [j \in Jobs |-> {}]

-----------------------------------------------------------------------------
(* The requests.  Each is one system call.                                 *)

(* DRM_IOCTL_ROCKET_CREATE_BO, with the size as its 32-bit field holds it. *)
CreateBo(h, o, d, size) ==
  /\ gem[h] = NoObj
  /\ ~Allocated(o)
  /\ \A g \in Handles : iova[g] # d
  /\ gem' = [gem EXCEPT ![h] = o]
  /\ iova' = [iova EXCEPT ![h] = d]
  /\ osize' = [osize EXCEPT ![o] = size]
  /\ UNCHANGED <<vma, jobVars>>

(* DRM_IOCTL_GEM_CLOSE ends the handle and the validity of its address. A  *)
(* number that is no open handle is refused and changes nothing.           *)
GemClose(h) ==
  /\ gem' = [g \in Handles |-> IF g = h THEN NoObj ELSE gem[g]]
  /\ iova' = [g \in Handles |-> IF g = h THEN NoDma ELSE iova[g]]
  /\ UNCHANGED <<osize, vma, jobVars>>

(* mmap of an object's offset; a length beyond the object is refused.      *)
Mmap(a, o, length) ==
  /\ vma[a] = NoObj
  /\ length <= osize[o]
  /\ vma' = [vma EXCEPT ![a] = o]
  /\ UNCHANGED <<gem, iova, osize, jobVars>>

(* DRM_IOCTL_ROCKET_SUBMIT of one job of one task; the handle lists must   *)
(* name open handles.                                                      *)
SubmitJob(j, cmd, inHandles, outHandles) ==
  /\ ~Unfinished(j)
  /\ \A h \in inHandles \cup outHandles : h \in Handles /\ gem[h] # NoObj
  /\ jcmd' = [jcmd EXCEPT ![j] = cmd]
  /\ jins' = [jins EXCEPT ![j] = {gem[h] : h \in inHandles}]
  /\ jouts' = [jouts EXCEPT ![j] = {gem[h] : h \in outHandles}]
  /\ UNCHANGED <<gem, iova, osize, vma>>

(* DRM_IOCTL_ROCKET_PREP_BO stops waiting for an object once no unfinished *)
(* job lists it as written.                                                *)
Quiet(o) == \A j \in Jobs : o \notin jouts[j]

(* Closing the file drops its handle table; mappings and jobs remain.      *)
CloseFile ==
  /\ gem' = [h \in Handles |-> NoObj]
  /\ iova' = [h \in Handles |-> NoDma]
  /\ UNCHANGED <<osize, vma, jobVars>>

-----------------------------------------------------------------------------
(* The NPU finishes a job, or the driver gives up on it: either way its    *)
(* references go.                                                          *)
JobDone(j) ==
  /\ Unfinished(j)
  /\ jcmd' = [jcmd EXCEPT ![j] = NoDma]
  /\ jins' = [jins EXCEPT ![j] = {}]
  /\ jouts' = [jouts EXCEPT ![j] = {}]
  /\ UNCHANGED <<gem, iova, osize, vma>>
=============================================================================
