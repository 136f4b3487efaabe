----------------------------- MODULE BufferPool -----------------------------
(***************************************************************************)
(* What librocket promises its caller about NPU memory, without handles,   *)
(* DMA addresses, mappings or the order of system calls: a buffer owns     *)
(* storage from its creation to its destruction, a job holds on to the     *)
(* storage of the buffers it was given until it is done, and storage is    *)
(* never handed to a buffer while another buffer or a job has it.          *)
(***************************************************************************)
CONSTANTS Bos, Objs, Jobs, NoObj

VARIABLES owned,      \* buffer -> its storage, or NoObj
          held        \* job -> the storage it runs on

poolVars == <<owned, held>>

PoolInit ==
  /\ owned = [b \in Bos |-> NoObj]
  /\ held = [j \in Jobs |-> {}]

Acquire(b, o) ==
  /\ owned[b] = NoObj
  /\ \A c \in Bos : owned[c] # o
  /\ \A j \in Jobs : o \notin held[j]
  /\ owned' = [owned EXCEPT ![b] = o]
  /\ UNCHANGED held

Release(b) ==
  /\ owned[b] # NoObj
  /\ owned' = [owned EXCEPT ![b] = NoObj]
  /\ UNCHANGED held

Start(j, s) ==
  /\ held[j] = {} /\ s # {}
  /\ \A o \in s : \E b \in Bos : owned[b] = o
  /\ held' = [held EXCEPT ![j] = s]
  /\ UNCHANGED owned

Finish(j) ==
  /\ held' = [held EXCEPT ![j] = {}]
  /\ UNCHANGED owned

PoolNext ==
  \/ \E b \in Bos, o \in Objs : Acquire(b, o)
  \/ \E b \in Bos : Release(b)
  \/ \E j \in Jobs, s \in SUBSET Objs : Start(j, s)
  \/ \E j \in Jobs : Finish(j)

PoolSpec == PoolInit /\ [][PoolNext]_poolVars
=============================================================================
