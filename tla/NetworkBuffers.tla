--------------------------- MODULE NetworkBuffers ---------------------------
(***************************************************************************)
(* The pool of network buffer descriptors of BufferAllocation_2.c: a free  *)
(* list guarded by critical sections, a counting semaphore that says how   *)
(* many descriptors may be taken, and the payload storage a descriptor has *)
(* only while it is in use.                                                *)
(*                                                                         *)
(* pxGetNetworkBufferWithDescriptor and vReleaseNetworkBufferAndDescriptor *)
(* are sequences of steps another task can run between: the semaphore and  *)
(* the list are never changed together.  Every caller in the stack asks    *)
(* for a non-empty buffer, so the branch for a request of 0 bytes is left  *)
(* out.  The free list is a set: its head is any member.                   *)
(***************************************************************************)
EXTENDS Integers, FiniteSets

CONSTANTS
    Tasks,        \* the tasks that get and release buffers
    Blocking,     \* those that pass a block time; the IP task passes 0
    Descriptors,  \* xNetworkBufferDescriptors
    None          \* a NULL descriptor pointer

ASSUME TasksAssumption == IsFiniteSet(Tasks) /\ Blocking \subseteq Tasks
ASSUME DescriptorsAssumption == IsFiniteSet(Descriptors) /\ None \notin Descriptors

\* ipconfigNUM_NETWORK_BUFFER_DESCRIPTORS
N == Cardinality(Descriptors)

VARIABLES
    free,     \* members of xFreeBuffersList
    sem,      \* count of xNetworkBufferSemaphore
    storage,  \* storage[d]: d's pucEthernetBuffer is not NULL
    minFree,  \* uxMinimumFreeNetworkBuffers
    inUse,    \* descriptors a get has returned and no release has begun for
    pc,       \* the next step of the call the task is in
    cur,      \* pxReturn, or pxNetworkBuffer of a release
    count     \* uxCount

vars == <<free, sem, storage, minFree, inUse, pc, cur, count>>

Steps == {"idle", "take", "unlink", "read", "compare", "store", "alloc",
          "drop", "insert", "give"}

\* Steps during which a call owns its descriptor: it is neither free nor in use.
Owning == {"read", "compare", "store", "alloc", "drop", "insert"}

At(step) == {t \in Tasks : pc[t] = step}

Owned == {cur[t] : t \in {u \in Tasks : pc[u] \in Owning}}

Goto(t, step) == pc' = [pc EXCEPT ![t] = step]

\* xNetworkBuffersInitialise, the first call
Init ==
    /\ free = Descriptors
    /\ sem = N
    /\ storage = [d \in Descriptors |-> FALSE]
    /\ minFree = N
    /\ inUse = {}
    /\ pc = [t \in Tasks |-> "idle"]
    /\ cur = [t \in Tasks |-> None]
    /\ count = [t \in Tasks |-> 0]

----------------------------------------------------------------------------
(* Mutants: the bugs the properties are there to catch. *)

\* xSemaphoreTake's result is not looked at.
MutTakeUnchecked(t) ==
    /\ pc[t] = "take"
    /\ sem' = sem - 1
    /\ Goto(t, "unlink")
    /\ UNCHANGED <<free, storage, minFree, inUse, cur, count>>

\* The failed allocation returns NULL without the release.
MutAllocateFailsForgets(t) ==
    /\ pc[t] = "alloc"
    /\ Goto(t, "idle")
    /\ UNCHANGED <<free, sem, storage, minFree, inUse, cur, count>>

\* The test of xListItemAlreadyInFreeList after the critical section is inverted.
MutInsertNeverGives(t) ==
    /\ pc[t] = "insert"
    /\ free' = free \cup {cur[t]}
    /\ Goto(t, IF cur[t] \in free THEN "give" ELSE "idle")
    /\ cur' = [cur EXCEPT ![t] = None]
    /\ UNCHANGED <<sem, storage, minFree, inUse, count>>

\* The permit is given twice.
MutGiveTwice(t) ==
    /\ pc[t] = "give"
    /\ sem' = IF sem < N - 1 THEN sem + 2 ELSE N
    /\ Goto(t, "idle")
    /\ UNCHANGED <<free, storage, minFree, inUse, cur, count>>

----------------------------------------------------------------------------
(* pxGetNetworkBufferWithDescriptor *)

BeginGet(t) ==
    /\ pc[t] = "idle"
    /\ Goto(t, "take")
    /\ UNCHANGED <<free, sem, storage, minFree, inUse, cur, count>>

TakeSemaphore(t) ==
    /\ pc[t] = "take"
    /\ sem > 0
    /\ sem' = sem - 1
    /\ Goto(t, "unlink")
    /\ UNCHANGED <<free, storage, minFree, inUse, cur, count>>

\* The semaphore is empty and the block time is 0, or it has run out: NULL.
TakeFails(t) ==
    /\ pc[t] = "take"
    /\ sem = 0
    /\ Goto(t, "idle")
    /\ UNCHANGED <<free, sem, storage, minFree, inUse, cur, count>>

\* The first critical section: the head of the list, whatever it is.
UnlinkHead(t) ==
    /\ pc[t] = "unlink"
    /\ \E d \in free :
        /\ cur' = [cur EXCEPT ![t] = d]
        /\ free' = free \ {d}
    /\ Goto(t, "read")
    /\ UNCHANGED <<sem, storage, minFree, inUse, count>>

ReadListLength(t) ==
    /\ pc[t] = "read"
    /\ count' = [count EXCEPT ![t] = Cardinality(free)]
    /\ Goto(t, "compare")
    /\ UNCHANGED <<free, sem, storage, minFree, inUse, cur>>

CompareMinimum(t) ==
    /\ pc[t] = "compare"
    /\ Goto(t, IF minFree > count[t] THEN "store" ELSE "alloc")
    /\ UNCHANGED <<free, sem, storage, minFree, inUse, cur, count>>

StoreMinimum(t) ==
    /\ pc[t] = "store"
    /\ minFree' = count[t]
    /\ Goto(t, "alloc")
    /\ UNCHANGED <<free, sem, storage, inUse, cur, count>>

\* pvPortMalloc returns storage: the caller gets the descriptor.
AllocateStorage(t) ==
    /\ pc[t] = "alloc"
    /\ storage' = [storage EXCEPT ![cur[t]] = TRUE]
    /\ inUse' = inUse \cup {cur[t]}
    /\ cur' = [cur EXCEPT ![t] = None]
    /\ Goto(t, "idle")
    /\ UNCHANGED <<free, sem, minFree, count>>

\* pvPortMalloc returns NULL: the descriptor is released, the caller gets NULL.
AllocateFails(t) ==
    /\ pc[t] = "alloc"
    /\ Goto(t, "drop")
    /\ UNCHANGED <<free, sem, storage, minFree, inUse, cur, count>>

----------------------------------------------------------------------------
(* vReleaseNetworkBufferAndDescriptor.  The caller need not be the task    *)
(* that got the buffer: buffers travel through the event queue and the     *)
(* sockets' lists of waiting packets.                                      *)

BeginRelease(t) ==
    /\ pc[t] = "idle"
    /\ \E d \in inUse :
        /\ cur' = [cur EXCEPT ![t] = d]
        /\ inUse' = inUse \ {d}
    /\ Goto(t, "drop")
    /\ UNCHANGED <<free, sem, storage, minFree, count>>

\* vReleaseNetworkBuffer, then pucEthernetBuffer = NULL
DropStorage(t) ==
    /\ pc[t] = "drop"
    /\ storage' = [storage EXCEPT ![cur[t]] = FALSE]
    /\ Goto(t, "insert")
    /\ UNCHANGED <<free, sem, minFree, inUse, cur, count>>

\* The critical section; only a descriptor that was not in the list is given.
InsertInFreeList(t) ==
    /\ pc[t] = "insert"
    /\ free' = free \cup {cur[t]}
    /\ Goto(t, IF cur[t] \in free THEN "idle" ELSE "give")
    /\ cur' = [cur EXCEPT ![t] = None]
    /\ UNCHANGED <<sem, storage, minFree, inUse, count>>

\* xSemaphoreGive fails, unnoticed, when the count is at its maximum.
GiveSemaphore(t) ==
    /\ pc[t] = "give"
    /\ sem' = IF sem < N THEN sem + 1 ELSE sem
    /\ Goto(t, "idle")
    /\ UNCHANGED <<free, storage, minFree, inUse, cur, count>>

----------------------------------------------------------------------------
\* The steps of a call once it has begun, except waiting for the semaphore.
Proceed(t) ==
    \/ UnlinkHead(t)
    \/ ReadListLength(t)
    \/ CompareMinimum(t)
    \/ StoreMinimum(t)
    \/ AllocateStorage(t)
    \/ AllocateFails(t)
    \/ DropStorage(t)
    \/ InsertInFreeList(t)
    \/ GiveSemaphore(t)

Next ==
    \E t \in Tasks :
        \/ BeginGet(t)
        \/ TakeSemaphore(t)
        \/ TakeFails(t)
        \/ BeginRelease(t)
        \/ Proceed(t)

Spec == Init /\ [][Next]_vars

(* The scheduler runs every ready task, a blocked one is woken by a give,  *)
(* and a task that never blocks (the IP task) goes on releasing the        *)
(* buffers it meets, between its own requests (hence the strong fairness). *)
(* Nothing is assumed of timeouts or of new requests.                      *)
Fairness ==
    /\ \A t \in Tasks : WF_vars(Proceed(t))
    /\ \A t \in Tasks : WF_vars(TakeSemaphore(t))
    /\ \A t \in Tasks \ Blocking :
        /\ WF_vars(TakeFails(t))
        /\ SF_vars(BeginRelease(t))

FairSpec == Spec /\ Fairness

----------------------------------------------------------------------------
(* Properties *)

\* Every variable keeps its type; in particular the semaphore stays in 0..N.
TypeOK ==
    /\ free \subseteq Descriptors
    /\ sem \in 0..N
    /\ storage \in [Descriptors -> BOOLEAN]
    /\ minFree \in 0..N
    /\ inUse \subseteq Descriptors
    /\ pc \in [Tasks -> Steps]
    /\ cur \in [Tasks -> Descriptors \cup {None}]
    /\ count \in [Tasks -> 0..N]
    /\ \A t \in Tasks : pc[t] \in Owning => cur[t] \in Descriptors

\* A descriptor is in the free list, with a client, or in the hands of one
\* call: two gets never return the same descriptor and a descriptor being
\* released is not handed out.  (The list is the only thing two calls share.)
ExclusiveOwnership ==
    /\ free \cap inUse = {}
    /\ Owned \cap (free \cup inUse) = {}
    /\ \A t, u \in Tasks :
        pc[t] \in Owning /\ pc[u] \in Owning /\ cur[t] = cur[u] => t = u

\* No path through a call, the failed allocation included, loses a descriptor.
NothingLost == Descriptors = free \cup inUse \cup Owned

\* At every moment of every interleaving each descriptor is in exactly one
\* place: none is handed out twice, and none is lost.
EachInOnePlace == ExclusiveOwnership /\ NothingLost

\* The list holds one descriptor for every permit of the semaphore, for every
\* task that took a permit and has not yet unlinked the head, and for every
\* release that has linked its descriptor and not yet given the permit.
PermitAccounting ==
    Cardinality(free) =
        sem + Cardinality(At("unlink")) + Cardinality(At("give"))

\* "If there is a semaphore available, there is a network buffer available":
\* the head taken in the critical section is a descriptor, never the list end.
HeadExists == \A t \in Tasks : pc[t] = "unlink" => free # {}

\* A descriptor owns storage exactly while a client has it: the code's
\* configASSERT before the allocation holds and no storage is overwritten
\* (leaked) or kept by a free descriptor.
StorageFollowsUse ==
    /\ \A d \in free : ~storage[d]
    /\ \A d \in inUse : storage[d]
    /\ \A t \in Tasks :
        pc[t] \in {"read", "compare", "store", "alloc", "insert"} =>
            ~storage[cur[t]]

\* While one task waits for a buffer and the non-blocking tasks go on
\* releasing what they meet, some get is served or the waiting ends: the
\* permit of a released descriptor is never lost between the list and the
\* semaphore.
WaiterServed ==
    At("take") \cap Blocking # {} ~>
        At("unlink") # {} \/ At("take") \cap Blocking = {}
=============================================================================
