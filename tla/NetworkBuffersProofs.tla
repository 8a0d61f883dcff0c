------------------------ MODULE NetworkBuffersProofs ------------------------
(***************************************************************************)
(* Proofs about the network buffer pool, for every finite set of tasks and *)
(* descriptors.  The inductive invariant is the conjunction of the checked *)
(* invariants: ownership needs the types, the semaphore's bound needs the  *)
(* accounting, the accounting needs ownership.                             *)
(***************************************************************************)
EXTENDS NetworkBuffers, FiniteSetTheorems, TLAPS

IInv == TypeOK /\ ExclusiveOwnership /\ PermitAccounting

\* The number of descriptors is a natural number, and bounds the free list.
LEMMA FreeBounded ==
    ASSUME NEW F, F \subseteq Descriptors
    PROVE  /\ IsFiniteSet(F)
           /\ Cardinality(F) \in Nat
           /\ Cardinality(F) <= N
           /\ N \in Nat
BY DescriptorsAssumption, FS_Subset, FS_CardinalityType DEF N

\* How many tasks are at a step is a natural number.
LEMMA AtCounted ==
    ASSUME NEW step
    PROVE  /\ IsFiniteSet(At(step))
           /\ Cardinality(At(step)) \in Nat
BY TasksAssumption, FS_Subset, FS_CardinalityType DEF At

\* One task moves from one step to another: what becomes of the number of
\* tasks at any step.
LEMMA MoveCounted ==
    ASSUME pc \in [Tasks -> Steps], NEW t \in Tasks, NEW to \in Steps,
           Goto(t, to), NEW step, pc[t] # to
    PROVE  Cardinality(At(step)') =
               IF step = to THEN Cardinality(At(step)) + 1
               ELSE IF step = pc[t] THEN Cardinality(At(step)) - 1
               ELSE Cardinality(At(step))
<1>0. \A u \in Tasks : pc'[u] = IF u = t THEN to ELSE pc[u]
  BY DEF Goto
<1>1. CASE step = to
  <2>1. At(step)' = At(step) \cup {t}
    BY <1>0, <1>1 DEF At
  <2>2. t \notin At(step)
    BY <1>1 DEF At
  <2> QED BY <1>1, <2>1, <2>2, AtCounted, FS_AddElement
<1>2. CASE step # to /\ step = pc[t]
  <2>1. At(step)' = At(step) \ {t}
    BY <1>0, <1>2 DEF At
  <2>2. t \in At(step)
    BY <1>2 DEF At
  <2> QED BY <1>2, <2>1, <2>2, AtCounted, FS_RemoveElement
<1>3. CASE step # to /\ step # pc[t]
  <2>1. At(step)' = At(step)
    BY <1>0, <1>3 DEF At
  <2> QED BY <1>3, <2>1
<1> QED BY <1>1, <1>2, <1>3

\* The initial pool: everything free, one permit each.
LEMMA InitIInv == Init => IInv
<1> SUFFICES ASSUME Init PROVE IInv
  OBVIOUS
<1>1. N \in Nat
  BY FreeBounded
<1>2. TypeOK
  BY <1>1 DEF Init, TypeOK, Steps, Owning
<1>3. ExclusiveOwnership
  BY DEF Init, ExclusiveOwnership, Owned, Owning
<1>4. At("unlink") = {} /\ At("give") = {}
  BY DEF Init, At
<1>5. PermitAccounting
  BY <1>1, <1>4, FS_EmptySet DEF Init, PermitAccounting, N
<1> QED BY <1>2, <1>3, <1>5 DEF IInv

\* A permit in the hands of a task stands for a descriptor in the list.
LEMMA PermitHasDescriptor == IInv => HeadExists
<1> SUFFICES ASSUME IInv, NEW t \in Tasks, pc[t] = "unlink" PROVE free # {}
  BY DEF HeadExists
<1>1. At("unlink") # {}
  BY DEF At
<1>2. Cardinality(At("unlink")) > 0
  BY <1>1, AtCounted, FS_EmptySet
<1>3. Cardinality(free) > 0
  BY <1>2, AtCounted DEF IInv, TypeOK, PermitAccounting
<1> QED BY <1>3, FS_EmptySet

----------------------------------------------------------------------------
\* A task that is about to give finds the semaphore below its maximum.
LEMMA GiveHasRoom ==
    ASSUME IInv, NEW t \in Tasks, pc[t] = "give" PROVE sem < N
<1>1. Cardinality(At("give")) > 0
  BY AtCounted, FS_EmptySet DEF At
<1> QED BY <1>1, AtCounted, FreeBounded DEF IInv, TypeOK, PermitAccounting

\* Every step keeps the types.
LEMMA StepTypeOK == IInv /\ [Next]_vars => TypeOK'
<1> SUFFICES ASSUME IInv, [Next]_vars PROVE TypeOK'
  OBVIOUS
<1> USE DEF Goto, Steps, Owning
<1>0. N \in Nat
  BY FreeBounded
<1>t. TypeOK
  BY DEF IInv
<1>1. ASSUME NEW t \in Tasks, BeginGet(t) PROVE TypeOK'
  BY <1>1, <1>0, <1>t DEF TypeOK, BeginGet
<1>2. ASSUME NEW t \in Tasks, TakeSemaphore(t) PROVE TypeOK'
  BY <1>2, <1>0, <1>t DEF TypeOK, TakeSemaphore
<1>3. ASSUME NEW t \in Tasks, TakeFails(t) PROVE TypeOK'
  BY <1>3, <1>0, <1>t DEF TypeOK, TakeFails
<1>4. ASSUME NEW t \in Tasks, BeginRelease(t) PROVE TypeOK'
  BY <1>4, <1>0, <1>t, DescriptorsAssumption DEF TypeOK, BeginRelease
<1>5. ASSUME NEW t \in Tasks, UnlinkHead(t) PROVE TypeOK'
  BY <1>5, <1>0, <1>t, DescriptorsAssumption DEF TypeOK, UnlinkHead
<1>6. ASSUME NEW t \in Tasks, ReadListLength(t) PROVE TypeOK'
  BY <1>6, <1>0, <1>t, FreeBounded DEF TypeOK, ReadListLength
<1>7. ASSUME NEW t \in Tasks, CompareMinimum(t) PROVE TypeOK'
  BY <1>7, <1>0, <1>t DEF TypeOK, CompareMinimum
<1>8. ASSUME NEW t \in Tasks, StoreMinimum(t) PROVE TypeOK'
  BY <1>8, <1>0, <1>t DEF TypeOK, StoreMinimum
<1>9. ASSUME NEW t \in Tasks, AllocateStorage(t) PROVE TypeOK'
  BY <1>9, <1>0, <1>t DEF TypeOK, AllocateStorage
<1>10. ASSUME NEW t \in Tasks, AllocateFails(t) PROVE TypeOK'
  BY <1>10, <1>0, <1>t DEF TypeOK, AllocateFails
<1>11. ASSUME NEW t \in Tasks, DropStorage(t) PROVE TypeOK'
  BY <1>11, <1>0, <1>t DEF TypeOK, DropStorage
<1>12. ASSUME NEW t \in Tasks, InsertInFreeList(t) PROVE TypeOK'
  BY <1>12, <1>0, <1>t DEF TypeOK, InsertInFreeList
<1>13. ASSUME NEW t \in Tasks, GiveSemaphore(t) PROVE TypeOK'
  BY <1>13, <1>0, <1>t DEF TypeOK, GiveSemaphore
<1>14. CASE UNCHANGED vars
  BY <1>14, <1>0, <1>t DEF TypeOK, vars
<1> QED BY <1>1, <1>2, <1>3, <1>4, <1>5, <1>6, <1>7, <1>8, <1>9, <1>10,
           <1>11, <1>12, <1>13, <1>14 DEF Next, Proceed

\* Every step hands a descriptor from one place to exactly one other.
LEMMA StepOwnership == IInv /\ [Next]_vars => ExclusiveOwnership'
<1> SUFFICES ASSUME IInv, [Next]_vars PROVE ExclusiveOwnership'
  OBVIOUS
<1> USE DEF Goto, Steps, Owning, Owned, ExclusiveOwnership
<1>t. TypeOK /\ ExclusiveOwnership
  BY DEF IInv
<1>1. ASSUME NEW t \in Tasks, BeginGet(t) PROVE ExclusiveOwnership'
  BY <1>1, <1>t DEF TypeOK, BeginGet
<1>2. ASSUME NEW t \in Tasks, TakeSemaphore(t) PROVE ExclusiveOwnership'
  BY <1>2, <1>t DEF TypeOK, TakeSemaphore
<1>3. ASSUME NEW t \in Tasks, TakeFails(t) PROVE ExclusiveOwnership'
  BY <1>3, <1>t DEF TypeOK, TakeFails
<1>4. ASSUME NEW t \in Tasks, BeginRelease(t) PROVE ExclusiveOwnership'
  BY <1>4, <1>t DEF TypeOK, BeginRelease
<1>5. ASSUME NEW t \in Tasks, UnlinkHead(t) PROVE ExclusiveOwnership'
  BY <1>5, <1>t DEF TypeOK, UnlinkHead
<1>6. ASSUME NEW t \in Tasks, ReadListLength(t) PROVE ExclusiveOwnership'
  BY <1>6, <1>t DEF TypeOK, ReadListLength
<1>7. ASSUME NEW t \in Tasks, CompareMinimum(t) PROVE ExclusiveOwnership'
  BY <1>7, <1>t DEF TypeOK, CompareMinimum
<1>8. ASSUME NEW t \in Tasks, StoreMinimum(t) PROVE ExclusiveOwnership'
  BY <1>8, <1>t DEF TypeOK, StoreMinimum
<1>9. ASSUME NEW t \in Tasks, AllocateStorage(t) PROVE ExclusiveOwnership'
  BY <1>9, <1>t DEF TypeOK, AllocateStorage
<1>10. ASSUME NEW t \in Tasks, AllocateFails(t) PROVE ExclusiveOwnership'
  BY <1>10, <1>t DEF TypeOK, AllocateFails
<1>11. ASSUME NEW t \in Tasks, DropStorage(t) PROVE ExclusiveOwnership'
  BY <1>11, <1>t DEF TypeOK, DropStorage
<1>12. ASSUME NEW t \in Tasks, InsertInFreeList(t) PROVE ExclusiveOwnership'
  BY <1>12, <1>t DEF TypeOK, InsertInFreeList
<1>13. ASSUME NEW t \in Tasks, GiveSemaphore(t) PROVE ExclusiveOwnership'
  BY <1>13, <1>t DEF TypeOK, GiveSemaphore
<1>14. CASE UNCHANGED vars
  BY <1>14, <1>t DEF vars
<1> QED BY <1>1, <1>2, <1>3, <1>4, <1>5, <1>6, <1>7, <1>8, <1>9, <1>10,
           <1>11, <1>12, <1>13, <1>14 DEF Next, Proceed

----------------------------------------------------------------------------
\* Every step keeps the balance of permits and descriptors.
LEMMA StepAccounting == IInv /\ [Next]_vars => PermitAccounting'
<1> SUFFICES ASSUME IInv, [Next]_vars PROVE PermitAccounting'
  OBVIOUS
<1>t. TypeOK /\ ExclusiveOwnership /\ PermitAccounting
  BY DEF IInv
<1> DEFINE Unlinking == Cardinality(At("unlink"))
           Giving == Cardinality(At("give"))
<1>0. /\ N \in Nat /\ Unlinking \in Nat /\ Giving \in Nat /\ sem \in Int
      /\ IsFiniteSet(free)
      /\ Cardinality(free) = sem + Unlinking + Giving
  BY <1>t, AtCounted, FreeBounded DEF TypeOK, PermitAccounting
\* The steps that change neither the list, nor the semaphore, nor who holds a permit.
<1>1. ASSUME NEW t \in Tasks, NEW to \in Steps \ {"unlink", "give"},
             pc[t] \notin {"unlink", "give"}, pc[t] # to, Goto(t, to),
             UNCHANGED <<free, sem>>
      PROVE  PermitAccounting'
  <2>1. Unlinking' = Unlinking /\ Giving' = Giving
    BY <1>1, <1>t, MoveCounted DEF TypeOK
  <2> QED BY <1>1, <1>0, <2>1 DEF PermitAccounting
<1>2. ASSUME NEW t \in Tasks, TakeSemaphore(t) PROVE PermitAccounting'
  <2>1. Unlinking' = Unlinking + 1 /\ Giving' = Giving
    BY <1>2, <1>t, MoveCounted DEF TypeOK, TakeSemaphore, Steps
  <2> QED BY <1>2, <1>0, <2>1 DEF PermitAccounting, TakeSemaphore
<1>3. ASSUME NEW t \in Tasks, UnlinkHead(t) PROVE PermitAccounting'
  <2>1. Unlinking' = Unlinking - 1 /\ Giving' = Giving
    BY <1>3, <1>t, MoveCounted DEF TypeOK, UnlinkHead, Steps
  <2>2. Cardinality(free') = Cardinality(free) - 1
    BY <1>3, <1>0, FS_RemoveElement DEF UnlinkHead
  <2> QED BY <1>3, <1>0, <2>1, <2>2 DEF PermitAccounting, UnlinkHead
<1>4. ASSUME NEW t \in Tasks, InsertInFreeList(t) PROVE PermitAccounting'
  <2>1. cur[t] \notin free
    BY <1>4, <1>t DEF ExclusiveOwnership, Owned, Owning, InsertInFreeList
  <2>2. Unlinking' = Unlinking /\ Giving' = Giving + 1
    BY <1>4, <1>t, <2>1, MoveCounted DEF TypeOK, InsertInFreeList, Steps
  <2>3. Cardinality(free') = Cardinality(free) + 1
    BY <1>4, <1>0, <2>1, FS_AddElement DEF InsertInFreeList
  <2> QED BY <1>4, <1>0, <2>2, <2>3 DEF PermitAccounting, InsertInFreeList
<1>5. ASSUME NEW t \in Tasks, GiveSemaphore(t) PROVE PermitAccounting'
  <2>1. Unlinking' = Unlinking /\ Giving' = Giving - 1
    BY <1>5, <1>t, MoveCounted DEF TypeOK, GiveSemaphore, Steps
  <2>2. sem' = sem + 1
    BY <1>5, GiveHasRoom DEF GiveSemaphore
  <2> QED BY <1>5, <1>0, <2>1, <2>2 DEF PermitAccounting, GiveSemaphore
<1>6. ASSUME NEW t \in Tasks,
             \/ BeginGet(t) \/ TakeFails(t) \/ BeginRelease(t)
             \/ ReadListLength(t) \/ CompareMinimum(t) \/ StoreMinimum(t)
             \/ AllocateStorage(t) \/ AllocateFails(t) \/ DropStorage(t)
      PROVE  PermitAccounting'
  BY <1>1, <1>6 DEF BeginGet, TakeFails, BeginRelease, ReadListLength,
       CompareMinimum, StoreMinimum, AllocateStorage, AllocateFails,
       DropStorage, Steps
<1>7. CASE UNCHANGED vars
  BY <1>7, <1>t DEF vars, PermitAccounting, At
<1> QED BY <1>2, <1>3, <1>4, <1>5, <1>6, <1>7 DEF Next, Proceed

\* Every step leaves every descriptor somewhere.
LEMMA StepNothingLost == TypeOK /\ ExclusiveOwnership /\ NothingLost /\ [Next]_vars => NothingLost'
<1> SUFFICES ASSUME TypeOK, ExclusiveOwnership, NothingLost, [Next]_vars PROVE NothingLost'
  OBVIOUS
<1> USE DEF TypeOK, ExclusiveOwnership, NothingLost, Goto, Steps, Owning, Owned
<1>1. ASSUME NEW t \in Tasks, BeginGet(t) PROVE NothingLost'
  BY <1>1 DEF BeginGet
<1>2. ASSUME NEW t \in Tasks, TakeSemaphore(t) PROVE NothingLost'
  BY <1>2 DEF TakeSemaphore
<1>3. ASSUME NEW t \in Tasks, TakeFails(t) PROVE NothingLost'
  BY <1>3 DEF TakeFails
<1>4. ASSUME NEW t \in Tasks, BeginRelease(t) PROVE NothingLost'
  BY <1>4 DEF BeginRelease
<1>5. ASSUME NEW t \in Tasks, UnlinkHead(t) PROVE NothingLost'
  BY <1>5 DEF UnlinkHead
<1>6. ASSUME NEW t \in Tasks, ReadListLength(t) PROVE NothingLost'
  BY <1>6 DEF ReadListLength
<1>7. ASSUME NEW t \in Tasks, CompareMinimum(t) PROVE NothingLost'
  BY <1>7 DEF CompareMinimum
<1>8. ASSUME NEW t \in Tasks, StoreMinimum(t) PROVE NothingLost'
  BY <1>8 DEF StoreMinimum
<1>9. ASSUME NEW t \in Tasks, AllocateStorage(t) PROVE NothingLost'
  BY <1>9 DEF AllocateStorage
<1>10. ASSUME NEW t \in Tasks, AllocateFails(t) PROVE NothingLost'
  BY <1>10 DEF AllocateFails
<1>11. ASSUME NEW t \in Tasks, DropStorage(t) PROVE NothingLost'
  BY <1>11 DEF DropStorage
<1>12. ASSUME NEW t \in Tasks, InsertInFreeList(t) PROVE NothingLost'
  BY <1>12 DEF InsertInFreeList
<1>13. ASSUME NEW t \in Tasks, GiveSemaphore(t) PROVE NothingLost'
  BY <1>13 DEF GiveSemaphore
<1>14. CASE UNCHANGED vars
  BY <1>14 DEF vars
<1> QED BY <1>1, <1>2, <1>3, <1>4, <1>5, <1>6, <1>7, <1>8, <1>9, <1>10,
           <1>11, <1>12, <1>13, <1>14 DEF Next, Proceed

\* Every step keeps storage and use together.
LEMMA StepStorage == TypeOK /\ ExclusiveOwnership /\ StorageFollowsUse /\ [Next]_vars => StorageFollowsUse'
<1> SUFFICES ASSUME TypeOK, ExclusiveOwnership, StorageFollowsUse, [Next]_vars PROVE StorageFollowsUse'
  OBVIOUS
<1> USE DEF TypeOK, ExclusiveOwnership, StorageFollowsUse, Goto, Steps, Owning, Owned
<1>1. ASSUME NEW t \in Tasks, BeginGet(t) PROVE StorageFollowsUse'
  BY <1>1 DEF BeginGet
<1>2. ASSUME NEW t \in Tasks, TakeSemaphore(t) PROVE StorageFollowsUse'
  BY <1>2 DEF TakeSemaphore
<1>3. ASSUME NEW t \in Tasks, TakeFails(t) PROVE StorageFollowsUse'
  BY <1>3 DEF TakeFails
<1>4. ASSUME NEW t \in Tasks, BeginRelease(t) PROVE StorageFollowsUse'
  BY <1>4 DEF BeginRelease
<1>5. ASSUME NEW t \in Tasks, UnlinkHead(t) PROVE StorageFollowsUse'
  BY <1>5 DEF UnlinkHead
<1>6. ASSUME NEW t \in Tasks, ReadListLength(t) PROVE StorageFollowsUse'
  BY <1>6 DEF ReadListLength
<1>7. ASSUME NEW t \in Tasks, CompareMinimum(t) PROVE StorageFollowsUse'
  BY <1>7 DEF CompareMinimum
<1>8. ASSUME NEW t \in Tasks, StoreMinimum(t) PROVE StorageFollowsUse'
  BY <1>8 DEF StoreMinimum
<1>9. ASSUME NEW t \in Tasks, AllocateStorage(t) PROVE StorageFollowsUse'
  BY <1>9 DEF AllocateStorage
<1>10. ASSUME NEW t \in Tasks, AllocateFails(t) PROVE StorageFollowsUse'
  BY <1>10 DEF AllocateFails
<1>11. ASSUME NEW t \in Tasks, DropStorage(t) PROVE StorageFollowsUse'
  BY <1>11 DEF DropStorage
<1>12. ASSUME NEW t \in Tasks, InsertInFreeList(t) PROVE StorageFollowsUse'
  BY <1>12 DEF InsertInFreeList
<1>13. ASSUME NEW t \in Tasks, GiveSemaphore(t) PROVE StorageFollowsUse'
  BY <1>13 DEF GiveSemaphore
<1>14. CASE UNCHANGED vars
  BY <1>14 DEF vars
<1> QED BY <1>1, <1>2, <1>3, <1>4, <1>5, <1>6, <1>7, <1>8, <1>9, <1>10,
           <1>11, <1>12, <1>13, <1>14 DEF Next, Proceed

----------------------------------------------------------------------------
\* The conjunction is an inductive invariant of the pool.
THEOREM Inductive == Spec => []IInv
<1>1. IInv /\ [Next]_vars => IInv'
  BY StepTypeOK, StepOwnership, StepAccounting DEF IInv
<1> QED BY InitIInv, <1>1, PTL DEF Spec

\* Types: in particular the semaphore's count stays between 0 and N.
THEOREM TypeCorrect == Spec => []TypeOK
BY Inductive, PTL DEF IInv

\* No descriptor is ever owned twice, whatever the interleaving.
THEOREM Ownership == Spec => []ExclusiveOwnership
BY Inductive, PTL DEF IInv

\* Semaphore and free list agree up to the calls in flight.
THEOREM Accounting == Spec => []PermitAccounting
BY Inductive, PTL DEF IInv

\* A task that was granted a permit always finds a descriptor in the list.
THEOREM HeadAlwaysExists == Spec => []HeadExists
BY Inductive, PermitHasDescriptor, PTL

\* No path through the two functions loses a descriptor.
THEOREM NoLeak == Spec => []NothingLost
<1>1. Init => NothingLost
  BY DEF Init, NothingLost, Owned, Owning
<1>2. IInv /\ NothingLost /\ [Next]_vars => NothingLost'
  BY StepNothingLost DEF IInv
<1> QED BY Inductive, <1>1, <1>2, PTL DEF Spec

\* Both together: each descriptor is in exactly one place.
THEOREM InOnePlace == Spec => []EachInOnePlace
BY Ownership, NoLeak, PTL DEF EachInOnePlace

\* The code's configASSERT before the allocation holds, and no storage is
\* kept by a free descriptor.
THEOREM StorageCorrect == Spec => []StorageFollowsUse
<1>1. Init => StorageFollowsUse
  BY DEF Init, StorageFollowsUse
<1>2. IInv /\ StorageFollowsUse /\ [Next]_vars => StorageFollowsUse'
  BY StepStorage DEF IInv
<1> QED BY Inductive, <1>1, <1>2, PTL DEF Spec
=============================================================================
