--------------------------- MODULE AzureStore_proofs ---------------------------
(***************************************************************************)
(* Proofs about AzureStore, for any finite set of threads and any sets of  *)
(* queries, resources and credentials.                                     *)
(***************************************************************************)
EXTENDS AzureStore, FiniteSetTheorems, TLAPS

-----------------------------------------------------------------------------
(* The inductive invariant.                                                *)

Reading == {"lock", "cred", "factory", "build", "load", "failed", "refresh",
            "read", "unwind", "release"}

\* Which locals of a call are set at which label.
LocalsFit(t) ==
  /\ query[t] # None => pc[t] \in Reading /\ resOf[t] \in Res
  /\ pc[t] \in {"lock", "failed", "refresh", "read", "release"} => query[t] # None
  /\ pc[t] \in {"cred", "factory", "build", "load", "probeclose", "await", "qclose"}
       => resOf[t] \in Res

LeaseInv == TypeOK /\ (\A t \in Thread : LocalsFit(t)) /\ LeasesExact

-----------------------------------------------------------------------------
(* Counting: how a step of one thread changes the two sets that are counted. *)

\* The sets that are counted are finite.
LEMMA CountedAreFinite ==
  IsFiniteSet(Counted) /\ \A r \in Res : IsFiniteSet(Borrowers(r))
<1>1. Counted \in SUBSET Thread /\ \A r \in Res : Borrowers(r) \in SUBSET Thread
  BY DEF Counted, Borrowers
<1> QED
  BY <1>1, ThreadsFinite, FS_Subset

\* A thread that stays inside, or outside, the operations changes no count.
LEMMA SameSide ==
  ASSUME NEW t \in Thread, NEW l, pc \in [Thread -> Label], Goto(t, l),
         pc[t] \in Counting <=> l \in Counting
  PROVE  Counted' = Counted
BY DEF Counted, Goto

\* A thread that enters an operation is one more, and one that leaves one less.
LEMMA Entering ==
  ASSUME NEW t \in Thread, NEW l \in Counting, pc \in [Thread -> Label], Goto(t, l),
         pc[t] \notin Counting
  PROVE  Cardinality(Counted') = Cardinality(Counted) + 1
<1>1. Counted' = Counted \cup {t} /\ t \notin Counted
  BY DEF Counted, Goto
<1> QED
  BY <1>1, CountedAreFinite, FS_AddElement

\* A thread that leaves the operations is one less in them.
LEMMA Leaving ==
  ASSUME NEW t \in Thread, NEW l, l \notin Counting, pc \in [Thread -> Label], Goto(t, l),
         pc[t] \in Counting
  PROVE  /\ Cardinality(Counted') = Cardinality(Counted) - 1
         /\ Cardinality(Counted) > 0
<1>1. Counted' = Counted \ {t} /\ t \in Counted
  BY DEF Counted, Goto
<1>2. Cardinality(Counted) \in Nat /\ Cardinality(Counted) # 0
  BY <1>1, CountedAreFinite, FS_CardinalityType, FS_EmptySet
<1>3. Cardinality(Counted \ {t}) = Cardinality(Counted) - 1
  BY <1>1, CountedAreFinite, FS_RemoveElement
<1> QED
  BY <1>1, <1>2, <1>3

\* Only the threads that read for a query borrow its resources.
LEMMA SameBorrowers ==
  ASSUME NEW t \in Thread, query' = query, query[t] = None,
         \A u \in Thread \ {t} : resOf'[u] = resOf[u]
  PROVE  \A r \in Res : Borrowers(r)' = Borrowers(r)
BY DEF Borrowers

-----------------------------------------------------------------------------
USE DEF callVars, objectVars, readVars, leaseVars, cleanupVars, credVars, lifeVars, Goto

Step(t) == Call(t) \/ SdkStep(t) \/ StoreStep(t) \/ Interrupt(t)

\* What a new object is, as far as the proofs need it.
LEMMA FreshResIsFree == FreshRes \subseteq {r \in Res : IsFreeRes(r)}
BY DEF FreshRes

\* A new credential is one that nothing refers to.
LEMMA FreshCredIsFree == FreshCred \subseteq {c \in Cred : IsFreeCred(c)}
BY DEF FreshCred

\* The counters are positive where a step takes one off.
LEMMA CountersPositive ==
  ASSUME LeaseInv, NEW t \in Thread
  PROVE  /\ pc[t] \in Counting => activeOperations - 1 \in Nat
         /\ query[t] # None => borrowers[resOf[t]] - 1 \in Nat
<1>1. pc[t] \in Counting => Counted # {}
  BY DEF Counted
<1>2. query[t] # None => resOf[t] \in Res /\ Borrowers(resOf[t]) # {}
  BY DEF Borrowers, LeaseInv, LocalsFit
<1>3. \A S : IsFiniteSet(S) /\ S # {} => Cardinality(S) - 1 \in Nat
  BY FS_CardinalityType, FS_EmptySet
<1> QED
  BY <1>1, <1>2, <1>3, CountedAreFinite DEF LeaseInv, LeasesExact

\* Each step keeps the types, and the locals that belong to a label.
LEMMA TypeStep ==
  ASSUME LeaseInv, NEW t \in Thread, Step(t)
  PROVE  TypeOK' /\ \A u \in Thread : LocalsFit(u)'
<1> USE NoneIsNoValue DEF LeaseInv, TypeOK, LocalsFit, Label, Counting, Reading
<1>1. ASSUME NEW q \in Query, BorrowCached(t, q)
      PROVE  TypeOK' /\ \A u \in Thread : LocalsFit(u)'
  BY <1>1 DEF BorrowCached, Enter, Leased
<1>2. ASSUME NEW q \in Query, BorrowNew(t, q)
      PROVE  TypeOK' /\ \A u \in Thread : LocalsFit(u)'
  BY <1>2, FreshResIsFree DEF BorrowNew, Enter, NewResources
<1>3. ASSUME NEW q \in Query, CallClose(t, q)
      PROVE  TypeOK' /\ \A u \in Thread : LocalsFit(u)'
  BY <1>3 DEF CallClose, Enter, Popped
<1>4. CASE PingBorrow(t)
  BY <1>4, FreshResIsFree DEF PingBorrow, Enter, NewResources
<1>5. CASE CallCloseAll(t)
  BY <1>5 DEF CallCloseAll
<1>6. ASSUME NEW ok \in BOOLEAN, Refresh(t, ok)
      PROVE  TypeOK' /\ \A u \in Thread : LocalsFit(u)'
  BY <1>6 DEF Refresh
<1>7. CASE BuildOk(t)
  BY <1>7 DEF BuildOk
<1>8. CASE BuildFail(t)
  BY <1>8 DEF BuildFail, RaiseFromLoad
<1>9. CASE LoadOk(t)
  BY <1>9 DEF LoadOk
<1>10. CASE LoadFail(t)
  BY <1>10 DEF LoadFail, RaiseFromLoad
<1>11. CASE AcquireFailed(t)
  BY <1>11 DEF AcquireFailed
<1>12. CASE AcquireIo(t)
  <2>1. errors' = errors \/ errors' = [errors EXCEPT ![resOf[t]] = FALSE]
    BY <1>12 DEF AcquireIo, ClearErrors
  <2>2. \E l \in Label : pc' = [pc EXCEPT ![t] = l]
    BY <1>12 DEF AcquireIo
  <2>3. /\ ioLock' = [ioLock EXCEPT ![resOf[t]] = t]
        /\ UNCHANGED <<query, resOf, credOf, attempt, objectVars, failed, leaseVars,
                       cleanupVars, credVars, lifeVars>>
    BY <1>12 DEF AcquireIo
  <2>4. TypeOK'
    <3>1. errors' \in [Res -> BOOLEAN]
      BY <2>1
    <3>2. pc' \in [Thread -> Label]
      BY <2>2
    <3>3. ioLock' \in [Res -> Thread \cup {None}]
      BY <2>3
    <3> QED
      BY <2>3, <3>1, <3>2, <3>3
  <2>5. \A u \in Thread : LocalsFit(u)'
    BY <1>12 DEF AcquireIo
  <2> QED
    BY <2>4, <2>5
<1>13. CASE ReadValues(t)
  BY <1>13 DEF ReadValues, Unlock
<1>14. CASE GetCredential(t)
  BY <1>14 DEF GetCredential, InitLockFree
<1>15. CASE FactoryOk(t)
  BY <1>15, FreshCredIsFree DEF FactoryOk
<1>16. CASE FactoryFail(t)
  BY <1>16 DEF FactoryFail, RaiseFromLoad
<1>17. CASE ForgetFailed(t)
  BY <1>17 DEF ForgetFailed, Unlock, Forgotten
<1>18. CASE Unwind(t)
  BY <1>18 DEF Unwind
<1>19. CASE Release(t)
  BY <1>19, CountersPositive DEF Release, NotifyAll
<1>20. ASSUME NEW ok \in BOOLEAN, ProbeClose(t, ok)
       PROVE  TypeOK' /\ \A u \in Thread : LocalsFit(u)'
  BY <1>20 DEF ProbeClose
<1>21. CASE FinishTakesCredential(t)
  BY <1>21 DEF FinishTakesCredential, TakeCredential
<1>22. CASE FinishReturns(t)
  BY <1>22, CountersPositive DEF FinishReturns, NotifyAll, CleanupStillDue
<1>23. CASE CloseCredential(t)
  BY <1>23 DEF CloseCredential
<1>24. CASE Abandon(t)
  BY <1>24, CountersPositive DEF Abandon, NotifyAll
<1>25. CASE AwaitReaders(t)
  BY <1>25 DEF AwaitReaders, WaitFor
<1>26. CASE AwaitSleeps(t)
  BY <1>26 DEF AwaitSleeps, Sleep
<1>27. CASE CloseQuery(t)
  BY <1>27 DEF CloseQuery
<1>28. CASE Drain(t)
  BY <1>28 DEF Drain, WaitFor
<1>29. CASE DrainSleeps(t)
  BY <1>29 DEF DrainSleeps, Sleep
<1>30. CASE DisposeCredential(t)
  BY <1>30 DEF DisposeCredential
<1>31. CASE DisposeDone(t)
  BY <1>31 DEF DisposeDone, NotifyAll
<1>32. ASSUME NEW r \in Res, DisposeResource(t, r)
       PROVE  TypeOK' /\ \A u \in Thread : LocalsFit(u)'
  BY <1>32 DEF DisposeResource
<1>33. CASE Join(t)
  BY <1>33 DEF Join, WaitFor
<1>34. CASE JoinSleeps(t)
  BY <1>34 DEF JoinSleeps, Sleep
<1>35. CASE RefreshInterrupted(t)
  BY <1>35 DEF RefreshInterrupted, Unlock
<1>36. CASE CloseCredentialInterrupted(t)
  BY <1>36 DEF CloseCredentialInterrupted
<1>37. CASE LockInterrupted(t)
  BY <1>37 DEF LockInterrupted
<1>38. CASE CredInterrupted(t)
  BY <1>38 DEF CredInterrupted, RaiseFromLoad
<1>39. CASE AwaitInterrupted(t)
  BY <1>39 DEF AwaitInterrupted
<1>40. CASE CloseAllInterrupted(t)
  BY <1>40 DEF CloseAllInterrupted
<1> QED
  BY <1>1, <1>2, <1>3, <1>4, <1>5, <1>6, <1>7, <1>8, <1>9, <1>10, <1>11, <1>12,
     <1>13, <1>14, <1>15, <1>16, <1>17, <1>18, <1>19, <1>20, <1>21, <1>22,
     <1>23, <1>24, <1>25, <1>26, <1>27, <1>28, <1>29, <1>30, <1>31, <1>32,
     <1>33, <1>34, <1>35, <1>36, <1>37, <1>38, <1>39, <1>40
  DEF Step, Call, SdkStep, StoreStep, Interrupt

\* A step that stays on its side of the operations, leaves the counters alone
\* and moves no reader keeps the counts exact.
LEMMA CountsKept ==
  ASSUME LeasesExact,
         UNCHANGED <<query, borrowers, activeOperations>>,
         \A u \in Thread : pc'[u] \in Counting <=> pc[u] \in Counting,
         \A u \in Thread : query[u] # None => resOf'[u] = resOf[u]
  PROVE  LeasesExact'
<1>1. Counted' = Counted
  BY DEF Counted
<1>2. \A r \in Res : Borrowers(r)' = Borrowers(r)
  BY DEF Borrowers
<1> QED
  BY <1>1, <1>2 DEF LeasesExact

\* The same for a step that also enters, or leaves, the operations.
LEMMA CountsEntered ==
  ASSUME LeasesExact, NEW t \in Thread, NEW l \in Counting, pc \in [Thread -> Label],
         Goto(t, l), pc[t] \notin Counting,
         query' = query, borrowers' = borrowers, activeOperations' = activeOperations + 1,
         \A u \in Thread : query[u] # None => resOf'[u] = resOf[u]
  PROVE  LeasesExact'
<1>1. \A r \in Res : Borrowers(r)' = Borrowers(r)
  BY DEF Borrowers
<1> QED
  BY <1>1, Entering DEF LeasesExact

\* The same for a step that leaves the operations.
LEMMA CountsLeft ==
  ASSUME LeasesExact, NEW t \in Thread, NEW l, l \notin Counting, pc \in [Thread -> Label],
         Goto(t, l), pc[t] \in Counting,
         query' = query, borrowers' = borrowers, activeOperations' = activeOperations - 1,
         \A u \in Thread : query[u] # None => resOf'[u] = resOf[u]
  PROVE  LeasesExact'
<1>1. \A r \in Res : Borrowers(r)' = Borrowers(r)
  BY DEF Borrowers
<1> QED
  BY <1>1, Leaving DEF LeasesExact

\* A select that borrows is one more reader of its resources, and of no others.
LEMMA Borrowing ==
  ASSUME NEW t \in Thread, NEW r \in Res, NEW q \in Query,
         query \in [Thread -> Query \cup {None}], resOf \in [Thread -> Res \cup {None}],
         query[t] = None,
         query' = [query EXCEPT ![t] = q], resOf' = [resOf EXCEPT ![t] = r]
  PROVE  /\ Cardinality(Borrowers(r)') = Cardinality(Borrowers(r)) + 1
         /\ \A x \in Res \ {r} : Borrowers(x)' = Borrowers(x)
<1>1. Borrowers(r)' = Borrowers(r) \cup {t} /\ t \notin Borrowers(r)
  BY NoneIsNoValue DEF Borrowers
<1>2. \A x \in Res \ {r} : Borrowers(x)' = Borrowers(x)
  BY NoneIsNoValue DEF Borrowers
<1> QED
  BY <1>1, <1>2, CountedAreFinite, FS_AddElement

\* A select that gives its lease back is one reader less of its resources.
LEMMA GivingBack ==
  ASSUME NEW t \in Thread, NEW r \in Res, resOf[t] = r,
         query \in [Thread -> Query \cup {None}], resOf \in [Thread -> Res \cup {None}],
         query[t] # None,
         query' = [query EXCEPT ![t] = None], resOf' = [resOf EXCEPT ![t] = None]
  PROVE  /\ Cardinality(Borrowers(r)') = Cardinality(Borrowers(r)) - 1
         /\ \A x \in Res \ {r} : Borrowers(x)' = Borrowers(x)
<1>1. Borrowers(r)' = Borrowers(r) \ {t} /\ t \in Borrowers(r)
  BY DEF Borrowers
<1>2. \A x \in Res \ {r} : Borrowers(x)' = Borrowers(x)
  BY DEF Borrowers
<1> QED
  BY <1>1, <1>2, CountedAreFinite, FS_RemoveElement

\* Nobody reads through resources that are not in use.
LEMMA FreeIsUnborrowed ==
  ASSUME NEW r \in FreshRes
  PROVE  r \in Res /\ Cardinality(Borrowers(r)) = 0
<1>1. r \in Res /\ IsFreeRes(r)
  BY FreshResIsFree
<1>2. Borrowers(r) = {}
  BY <1>1 DEF IsFreeRes, Borrowers
<1> QED
  BY <1>1, <1>2, FS_EmptySet

\* A step that borrows r enters the operations and counts one reader of r more.
LEMMA CountsBorrowed ==
  ASSUME LeaseInv, NEW t \in Thread, pc[t] = "idle", NEW r \in Res, NEW q \in Query,
         Goto(t, "lock"), activeOperations' = activeOperations + 1,
         query' = [query EXCEPT ![t] = q], resOf' = [resOf EXCEPT ![t] = r],
         borrowers' = [borrowers EXCEPT ![r] = @ + 1]
  PROVE  LeasesExact'
<1>1. query[t] = None
  BY DEF LeaseInv, LocalsFit, Reading
<1>2. activeOperations' = Cardinality(Counted')
  BY Entering DEF LeaseInv, LeasesExact, TypeOK, Counting
<1>3. /\ Cardinality(Borrowers(r)') = Cardinality(Borrowers(r)) + 1
      /\ \A x \in Res \ {r} : Borrowers(x)' = Borrowers(x)
  BY <1>1, Borrowing DEF LeaseInv, TypeOK
<1>4. \A x \in Res : borrowers'[x] = Cardinality(Borrowers(x)')
  BY <1>3 DEF LeaseInv, LeasesExact, TypeOK
<1> QED
  BY <1>2, <1>4 DEF LeasesExact

\* Each step keeps both counters exact.
LEMMA CountsStep ==
  ASSUME LeaseInv, NEW t \in Thread, Step(t)
  PROVE  LeasesExact'
<1> USE NoneIsNoValue DEF LeaseInv, TypeOK, LocalsFit, Label, Counting, Reading
<1>1. ASSUME NEW q \in Query, BorrowCached(t, q)
      PROVE  LeasesExact'
  BY <1>1, CountsBorrowed DEF BorrowCached, Enter, Leased
<1>2. ASSUME NEW q \in Query, BorrowNew(t, q)
      PROVE  LeasesExact'
  <2>1. PICK r \in FreshRes : /\ query' = [query EXCEPT ![t] = q]
                             /\ resOf' = [resOf EXCEPT ![t] = r]
                             /\ borrowers' = [borrowers EXCEPT ![r] = 1]
    BY <1>2 DEF BorrowNew
  <2>2. borrowers[r] + 1 = 1
    BY FreeIsUnborrowed DEF LeasesExact
  <2> QED
    BY <1>2, <2>1, <2>2, FreeIsUnborrowed, CountsBorrowed DEF BorrowNew, Enter
<1>3. ASSUME NEW q \in Query, CallClose(t, q)
      PROVE  LeasesExact'
  BY <1>3, CountsEntered DEF CallClose, Enter, Popped
<1>4. CASE PingBorrow(t)
  <2>1. PICK r \in FreshRes : /\ resOf' = [resOf EXCEPT ![t] = r]
                             /\ borrowers' = [borrowers EXCEPT ![r] = 0]
    BY <1>4 DEF PingBorrow
  <2>2. borrowers' = borrowers
    BY <2>1, FreeIsUnborrowed DEF LeasesExact
  <2> QED
    BY <1>4, <2>1, <2>2, CountsEntered DEF PingBorrow, Enter
<1>5. CASE CallCloseAll(t)
  BY <1>5, CountsKept DEF CallCloseAll
<1>6. ASSUME NEW ok \in BOOLEAN, Refresh(t, ok)
      PROVE  LeasesExact'
  BY <1>6, CountsKept DEF Refresh
<1>7. CASE BuildOk(t)
  BY <1>7, CountsKept DEF BuildOk
<1>8. CASE BuildFail(t)
  BY <1>8, CountsKept DEF BuildFail, RaiseFromLoad
<1>9. CASE LoadOk(t)
  BY <1>9, CountsKept DEF LoadOk
<1>10. CASE LoadFail(t)
  BY <1>10, CountsKept DEF LoadFail, RaiseFromLoad
<1>11. CASE AcquireFailed(t)
  BY <1>11, CountsKept DEF AcquireFailed
<1>12. CASE AcquireIo(t)
  BY <1>12, CountsKept DEF AcquireIo, ClearErrors
<1>13. CASE ReadValues(t)
  BY <1>13, CountsKept DEF ReadValues, Unlock
<1>14. CASE GetCredential(t)
  BY <1>14, CountsKept DEF GetCredential, InitLockFree
<1>15. CASE FactoryOk(t)
  BY <1>15, CountsKept DEF FactoryOk
<1>16. CASE FactoryFail(t)
  BY <1>16, CountsKept DEF FactoryFail, RaiseFromLoad
<1>17. CASE ForgetFailed(t)
  BY <1>17, CountsKept DEF ForgetFailed, Unlock, Forgotten
<1>18. CASE Unwind(t)
  BY <1>18, CountsKept DEF Unwind
<1>19. CASE Release(t)
  <2>1. PICK r \in Res : resOf[t] = r /\ query[t] # None
    BY <1>19 DEF Release
  <2>2. \A x \in Res : borrowers'[x] = Cardinality(Borrowers(x)')
    <3>1. /\ Cardinality(Borrowers(r)') = Cardinality(Borrowers(r)) - 1
          /\ \A x \in Res \ {r} : Borrowers(x)' = Borrowers(x)
      BY <1>19, <2>1, GivingBack DEF Release
    <3>2. borrowers' = [borrowers EXCEPT ![r] = @ - 1]
      BY <1>19, <2>1 DEF Release
    <3> QED
      BY <3>1, <3>2 DEF LeasesExact
  <2>3. Counted' = Counted
    BY <1>19, SameSide DEF Release
  <2> QED
    BY <1>19, <2>2, <2>3 DEF Release, LeasesExact
<1>20. ASSUME NEW ok \in BOOLEAN, ProbeClose(t, ok)
       PROVE  LeasesExact'
  BY <1>20, CountsKept DEF ProbeClose
<1>21. CASE FinishTakesCredential(t)
  BY <1>21, CountsKept DEF FinishTakesCredential, TakeCredential
<1>22. CASE FinishReturns(t)
  BY <1>22, CountsLeft DEF FinishReturns, NotifyAll, CleanupStillDue
<1>23. CASE CloseCredential(t)
  BY <1>23, CountsKept DEF CloseCredential
<1>24. CASE Abandon(t)
  BY <1>24, CountsLeft DEF Abandon, NotifyAll
<1>25. CASE AwaitReaders(t)
  BY <1>25, CountsKept DEF AwaitReaders, WaitFor
<1>26. CASE AwaitSleeps(t)
  BY <1>26, CountsKept DEF AwaitSleeps, Sleep
<1>27. CASE CloseQuery(t)
  BY <1>27, CountsKept DEF CloseQuery
<1>28. CASE Drain(t)
  BY <1>28, CountsKept DEF Drain, WaitFor
<1>29. CASE DrainSleeps(t)
  BY <1>29, CountsKept DEF DrainSleeps, Sleep
<1>30. CASE DisposeCredential(t)
  BY <1>30, CountsKept DEF DisposeCredential
<1>31. CASE DisposeDone(t)
  BY <1>31, CountsKept DEF DisposeDone, NotifyAll
<1>32. ASSUME NEW r \in Res, DisposeResource(t, r)
       PROVE  LeasesExact'
  BY <1>32, CountsKept DEF DisposeResource
<1>33. CASE Join(t)
  BY <1>33, CountsKept DEF Join, WaitFor
<1>34. CASE JoinSleeps(t)
  BY <1>34, CountsKept DEF JoinSleeps, Sleep
<1>35. CASE RefreshInterrupted(t)
  BY <1>35, CountsKept DEF RefreshInterrupted, Unlock
<1>36. CASE CloseCredentialInterrupted(t)
  BY <1>36, CountsKept DEF CloseCredentialInterrupted
<1>37. CASE LockInterrupted(t)
  BY <1>37, CountsKept DEF LockInterrupted
<1>38. CASE CredInterrupted(t)
  BY <1>38, CountsKept DEF CredInterrupted, RaiseFromLoad
<1>39. CASE AwaitInterrupted(t)
  BY <1>39, CountsKept DEF AwaitInterrupted
<1>40. CASE CloseAllInterrupted(t)
  BY <1>40, CountsKept DEF CloseAllInterrupted
<1> HIDE NoneIsNoValue DEF LeaseInv, TypeOK, LocalsFit, Label, Counting, Reading
<1> QED
  BY <1>1, <1>2, <1>3, <1>4, <1>5, <1>6, <1>7, <1>8, <1>9, <1>10, <1>11, <1>12,
     <1>13, <1>14, <1>15, <1>16, <1>17, <1>18, <1>19, <1>20, <1>21, <1>22,
     <1>23, <1>24, <1>25, <1>26, <1>27, <1>28, <1>29, <1>30, <1>31, <1>32,
     <1>33, <1>34, <1>35, <1>36, <1>37, <1>38, <1>39, <1>40
  DEF Step, Call, SdkStep, StoreStep, Interrupt

-----------------------------------------------------------------------------
(* The theorems.                                                           *)

\* The counters begin at zero, with nobody inside.
LEMMA InitLemma == Init => LeaseInv
<1> SUFFICES ASSUME Init
             PROVE  LeaseInv
  OBVIOUS
<1>1. TypeOK
  BY DEF Init, TypeOK, Label
<1>2. \A t \in Thread : LocalsFit(t)
  BY DEF Init, LocalsFit
<1>3. Counted = {} /\ \A r \in Res : Borrowers(r) = {}
  BY DEF Init, Counted, Borrowers, Counting
<1>4. LeasesExact
  BY <1>3, FS_EmptySet DEF Init, LeasesExact
<1> QED
  BY <1>1, <1>2, <1>4 DEF LeaseInv

\* [Next]_vars keeps LeaseInv.
LEMMA NextLemma == LeaseInv /\ [Next]_vars => LeaseInv'
<1> SUFFICES ASSUME LeaseInv, [Next]_vars
             PROVE  LeaseInv'
  OBVIOUS
<1>1. CASE Next
  <2>1. PICK t \in Thread : Step(t)
    BY <1>1 DEF Next, Step
  <2> QED
    BY <2>1, TypeStep, CountsStep DEF LeaseInv
<1>2. CASE UNCHANGED vars
  BY <1>2 DEF vars, LeaseInv, TypeOK, LocalsFit, LeasesExact, Counted, Borrowers
<1> QED
  BY <1>1, <1>2

\* The inductive invariant holds in every reachable state.
THEOREM LeaseInvHolds == Spec => []LeaseInv
BY InitLemma, NextLemma, PTL DEF Spec

\* Every field of the store and every local of a call keeps its type; in
\* particular neither counter ever falls below zero.
THEOREM TypeCorrect == Spec => []TypeOK
<1>1. LeaseInv => TypeOK
  BY DEF LeaseInv
<1> QED
  BY <1>1, LeaseInvHolds, PTL

\* The counters _borrow, close and _finish_operation keep are exact, with any
\* number of threads and queries and whatever fails or is interrupted.
THEOREM LeasesAreExact == Spec => []LeasesExact
<1>1. LeaseInv => LeasesExact
  BY DEF LeaseInv
<1> QED
  BY <1>1, LeaseInvHolds, PTL

-----------------------------------------------------------------------------
(* No thread works with anything that another thread has closed: the       *)
(* inductive invariant.                                                    *)

Loading == {"cred", "factory", "build", "load", "failed"}
Using == {"refresh", "read"}
Working == Loading \cup Using \cup
           {"lock", "unwind", "release", "probeclose", "await", "qclose"}

\* A thread that works on resources no reader shares: those of a ping, or those
\* that a close(query) has taken out of the store.
Owns(t) == query[t] = None /\ resOf[t] # None

InUse(r) == \/ \E q \in Query : providers[q] = r
            \/ \E t \in Thread : resOf[t] = r

\* Only a call that is counted refers to resources.
WorkOnly == \A t \in Thread : resOf[t] # None => pc[t] \in Working

\* No query leads to resources that a thread owns, and no other thread works on
\* them, except readers that close(query) still waits for.
OwnedAlone ==
  \A t \in Thread : Owns(t) =>
    /\ \A q \in Query : providers[q] # resOf[t]
    /\ \A u \in Thread : resOf[u] = resOf[t] /\ u # t => query[u] # None /\ pc[t] = "await"

ProvidersDiffer ==
  \A q, p \in Query : providers[q] = providers[p] /\ providers[q] # None => q = p

\* select loads, refreshes and reads under io_lock.
LockedByOne ==
  \A t \in Thread :
    query[t] # None /\ pc[t] \in Loading \cup Using => ioLock[resOf[t]] = t

LoadsOnce ==
  \A t \in Thread :
    /\ pc[t] \in Loading => provider[resOf[t]] = None
    /\ pc[t] \in Using => provider[resOf[t]] # None
    /\ pc[t] = "load" => transport[resOf[t]]

TransportsOpen == \A r \in Res : provider[r] # None => transport[r]

\* Everything in use was loaded, or is being loaded, with the credential that
\* the store has now, and that one is open.
OneCredential ==
  /\ credential # None => credential \in openCreds
  /\ \A t \in Thread :
      /\ pc[t] = "factory" => initLock = t /\ credential = None
      /\ pc[t] \in {"build", "load"} => credOf[t] = credential /\ credential # None
      /\ pc[t] = "closecred" /\ credential # None => credOf[t] # credential
  /\ \A r \in Res : InUse(r) /\ provider[r] # None => provider[r] = credential

\* Once close_all disposes of what it took over, no call is under way.
Over ==
  /\ \A t \in Thread : pc[t] \in {"drain", "dispose"} => closed
  /\ doomed # {} \/ (\E t \in Thread : pc[t] = "dispose") =>
       closed /\ Counted = {} /\ NoProviders /\ credential = None

UseInv ==
  /\ WorkOnly /\ OwnedAlone /\ ProvidersDiffer
  /\ LockedByOne /\ LoadsOnce /\ TransportsOpen
  /\ OneCredential /\ Over

-----------------------------------------------------------------------------

\* What the exact counters say where the code tests them for 0 or 1.
LEMMA NobodyReads ==
  ASSUME LeaseInv, NEW r \in Res, borrowers[r] = 0
  PROVE  Borrowers(r) = {}
BY CountedAreFinite, FS_EmptySet DEF LeaseInv, LeasesExact

\* When the store counts no operation, no thread is inside one.
LEMMA NobodyCounts ==
  ASSUME LeaseInv, activeOperations = 0
  PROVE  Counted = {}
BY CountedAreFinite, FS_EmptySet DEF LeaseInv, LeasesExact

\* When it counts one operation, a thread inside one is the only one.
LEMMA OnlyOneCounts ==
  ASSUME LeaseInv, NEW t \in Thread, pc[t] \in Counting, activeOperations = 1
  PROVE  \A u \in Thread \ {t} : pc[u] \notin Counting
<1>1. PICK x : Counted = {x}
  BY CountedAreFinite, FS_Singleton DEF LeaseInv, LeasesExact
<1> QED
  BY <1>1 DEF Counted

\* Two threads never load, refresh or read the same resources at a time.
LEMMA OneWorker ==
  ASSUME LeaseInv, UseInv, NEW t \in Thread, NEW u \in Thread, t # u,
         pc[t] \in Loading \cup Using, pc[u] \in Loading \cup Using
  PROVE  resOf[t] # resOf[u]
BY NoneIsNoValue
DEF LeaseInv, LocalsFit, Reading, UseInv, OwnedAlone, Owns, LockedByOne, Loading, Using

\* Each step keeps the parts of UseInv.
LEMMA UseStep ==
  ASSUME LeaseInv, UseInv, NEW t \in Thread, Step(t)
  PROVE  UseInv'
<1> USE NoneIsNoValue DEF LeaseInv, TypeOK, LocalsFit, Reading, Counted, Counting,
        UseInv, WorkOnly, OwnedAlone, ProvidersDiffer, LockedByOne, LoadsOnce,
        TransportsOpen, OneCredential, Over, Owns, InUse, NoProviders, Working,
        Loading, Using
<1>1. ASSUME NEW q \in Query, BorrowCached(t, q)
      PROVE  UseInv'
  BY <1>1 DEF BorrowCached, Enter, Leased
<1>2. ASSUME NEW q \in Query, BorrowNew(t, q)
      PROVE  UseInv'
  BY <1>2, FreshResIsFree DEF BorrowNew, Enter, NewResources, IsFreeRes
<1>3. ASSUME NEW q \in Query, CallClose(t, q)
      PROVE  UseInv'
  BY <1>3 DEF CallClose, Enter, Popped
<1>4. CASE PingBorrow(t)
  BY <1>4, FreshResIsFree DEF PingBorrow, Enter, NewResources, IsFreeRes
<1>5. CASE CallCloseAll(t)
  BY <1>5 DEF CallCloseAll
<1>6. ASSUME NEW ok \in BOOLEAN, Refresh(t, ok)
      PROVE  UseInv'
  BY <1>6 DEF Refresh
<1>7. CASE BuildOk(t)
  BY <1>7 DEF BuildOk
<1>8. CASE BuildFail(t)
  BY <1>8 DEF BuildFail, RaiseFromLoad
<1>9. CASE LoadOk(t)
  BY <1>9, OneWorker DEF LoadOk
<1>10. CASE LoadFail(t)
  BY <1>10 DEF LoadFail, RaiseFromLoad
<1>11. CASE AcquireFailed(t)
  BY <1>11 DEF AcquireFailed
<1>12. CASE AcquireIo(t)
  BY <1>12 DEF AcquireIo, ClearErrors
<1>13. CASE ReadValues(t)
  BY <1>13 DEF ReadValues, Unlock
<1>14. CASE GetCredential(t)
  BY <1>14 DEF GetCredential, InitLockFree
<1>15. CASE FactoryOk(t)
  BY <1>15, FreshCredIsFree DEF FactoryOk, IsFreeCred
<1>16. CASE FactoryFail(t)
  BY <1>16 DEF FactoryFail, RaiseFromLoad
<1>17. CASE ForgetFailed(t)
  BY <1>17 DEF ForgetFailed, Unlock, Forgotten
<1>18. CASE Unwind(t)
  BY <1>18 DEF Unwind
<1>19. CASE Release(t)
  BY <1>19 DEF Release, NotifyAll
<1>20. ASSUME NEW ok \in BOOLEAN, ProbeClose(t, ok)
       PROVE  UseInv'
  BY <1>20 DEF ProbeClose
<1>21. CASE FinishTakesCredential(t)
  BY <1>21, OnlyOneCounts DEF FinishTakesCredential, TakeCredential, LastMustCleanUp
<1>22. CASE FinishReturns(t)
  BY <1>22 DEF FinishReturns, NotifyAll, CleanupStillDue
<1>23. CASE CloseCredential(t)
  BY <1>23 DEF CloseCredential
<1>24. CASE Abandon(t)
  BY <1>24 DEF Abandon, NotifyAll
<1>25. CASE AwaitReaders(t)
  BY <1>25, NobodyReads DEF AwaitReaders, WaitFor, Borrowers
<1>26. CASE AwaitSleeps(t)
  BY <1>26 DEF AwaitSleeps, Sleep
<1>27. CASE CloseQuery(t)
  BY <1>27 DEF CloseQuery
<1>28. CASE Drain(t)
  BY <1>28, NobodyCounts DEF Drain, WaitFor
<1>29. CASE DrainSleeps(t)
  BY <1>29 DEF DrainSleeps, Sleep
<1>30. CASE DisposeCredential(t)
  BY <1>30 DEF DisposeCredential
<1>31. CASE DisposeDone(t)
  BY <1>31 DEF DisposeDone, NotifyAll
<1>32. ASSUME NEW r \in Res, DisposeResource(t, r)
       PROVE  UseInv'
  BY <1>32 DEF DisposeResource
<1>33. CASE Join(t)
  BY <1>33 DEF Join, WaitFor
<1>34. CASE JoinSleeps(t)
  BY <1>34 DEF JoinSleeps, Sleep
<1>35. CASE RefreshInterrupted(t)
  BY <1>35 DEF RefreshInterrupted, Unlock
<1>36. CASE CloseCredentialInterrupted(t)
  BY <1>36 DEF CloseCredentialInterrupted
<1>37. CASE LockInterrupted(t)
  BY <1>37 DEF LockInterrupted
<1>38. CASE CredInterrupted(t)
  BY <1>38 DEF CredInterrupted, RaiseFromLoad
<1>39. CASE AwaitInterrupted(t)
  BY <1>39 DEF AwaitInterrupted
<1>40. CASE CloseAllInterrupted(t)
  BY <1>40 DEF CloseAllInterrupted
<1> HIDE NoneIsNoValue DEF LeaseInv, UseInv
<1> QED
  BY <1>1, <1>2, <1>3, <1>4, <1>5, <1>6, <1>7, <1>8, <1>9, <1>10, <1>11, <1>12,
     <1>13, <1>14, <1>15, <1>16, <1>17, <1>18, <1>19, <1>20, <1>21, <1>22,
     <1>23, <1>24, <1>25, <1>26, <1>27, <1>28, <1>29, <1>30, <1>31, <1>32,
     <1>33, <1>34, <1>35, <1>36, <1>37, <1>38, <1>39, <1>40
  DEF Step, Call, SdkStep, StoreStep, Interrupt

-----------------------------------------------------------------------------
(* The theorems.                                                           *)

\* At the beginning nothing is used.
LEMMA UseInit == Init => UseInv
BY NoneIsNoValue
DEF Init, UseInv, WorkOnly, OwnedAlone, ProvidersDiffer, LockedByOne, LoadsOnce,
    TransportsOpen, OneCredential, Over, Owns, InUse, Loading, Using, Counted,
    Counting, NoProviders

\* [Next]_vars keeps UseInv.
LEMMA UseNext == LeaseInv /\ UseInv /\ [Next]_vars => UseInv'
<1> SUFFICES ASSUME LeaseInv, UseInv, [Next]_vars
             PROVE  UseInv'
  OBVIOUS
<1>1. CASE Next
  BY <1>1, UseStep DEF Next, Step
<1>2. CASE UNCHANGED vars
  BY <1>2
  DEF vars, UseInv, WorkOnly, OwnedAlone, ProvidersDiffer, LockedByOne, LoadsOnce,
      TransportsOpen, OneCredential, Over, Owns, InUse, Counted, NoProviders
<1> QED
  BY <1>1, <1>2

\* The inductive invariant holds in every reachable state.
THEOREM UseInvHolds == Spec => []UseInv
BY UseInit, UseNext, LeaseInvHolds, PTL DEF Spec

\* Whatever a thread loads with, refreshes or reads is open while it does so,
\* although select, ping, close and close_all run in any number of threads, any
\* SDK call may fail, and any wait may be interrupted.
THEOREM NothingIsUsedAfterClose == Spec => []NoUseAfterClose
<1>1. LeaseInv /\ UseInv => NoUseAfterClose
  <2> SUFFICES ASSUME LeaseInv, UseInv, NEW t \in Thread
               PROVE  /\ pc[t] \in {"build", "load"} => credOf[t] \in openCreds
                      /\ pc[t] = "load" => transport[resOf[t]]
                      /\ pc[t] \in {"refresh", "read"} =>
                           provider[resOf[t]] \in openCreds /\ transport[resOf[t]]
    BY DEF NoUseAfterClose
  <2> QED
    BY NoneIsNoValue
    DEF LeaseInv, LocalsFit, UseInv, LoadsOnce, TransportsOpen, OneCredential,
        InUse, Using
<1> QED
  BY <1>1, LeaseInvHolds, UseInvHolds, PTL

==============================================================================
