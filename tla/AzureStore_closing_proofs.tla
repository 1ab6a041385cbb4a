---------------------- MODULE AzureStore_closing_proofs ----------------------
(***************************************************************************)
(* What the store closes and when, for any number of threads, queries,     *)
(* resources and credentials.  Nothing leaks and close_all returns only    *)
(* when all is closed, as long as no wait is interrupted; each read        *)
(* reports its own refresh failure, and no credential stays open after an  *)
(* operation failed.                                                       *)
(***************************************************************************)
EXTENDS AzureStore_lease_proofs

-----------------------------------------------------------------------------
(* Nothing leaks: the inductive invariant.                                 *)

\* Until a load builds its transport there is none, and a failed load leaves none.
Unopened ==
  /\ \A r \in Res : transport[r] =>
       provider[r] # None \/ \E t \in Thread : pc[t] = "load" /\ resOf[t] = r
  /\ \A t \in Thread :
      /\ pc[t] \in {"cred", "factory", "build", "failed"} => ~transport[resOf[t]]
      /\ pc[t] = "unwind" /\ Owns(t) => provider[resOf[t]] = None /\ ~transport[resOf[t]]
      /\ query[t] # None /\ pc[t] \in Loading \cup Using => ~failed[resOf[t]]

\* Something other than a reader refers to r and will close it.
HasOwner(r) == \/ r \in doomed
               \/ \E q \in Query : providers[q] = r
               \/ \E t \in Thread : Owns(t) /\ resOf[t] = r

ResHeld ==
  /\ \A r \in Res : provider[r] # None \/ transport[r] => HasOwner(r)
  /\ \A t \in Thread : query[t] # None /\ ~failed[resOf[t]] => HasOwner(resOf[t])

LeakInv == Unopened /\ ResHeld

-----------------------------------------------------------------------------
USE DEF callVars, objectVars, readVars, leaseVars, cleanupVars, credVars, lifeVars
USE DEF Goto

\* Each step leaves an owner to everything that is open.
LEMMA LeakStep ==
  ASSUME InterruptWait = {}, LeaseInv, UseInv, LeakInv, EndInv,
         NEW t \in Thread, Step(t)
  PROVE  LeakInv'
<1> USE NoneIsNoValue DEF LeaseInv, TypeOK, LocalsFit, Reading, Counted, Counting,
        UseInv, WorkOnly, Working, OwnedAlone, ProvidersDiffer, LoadsOnce, Over,
        Owns, Loading, Using, Borrowers, LeakInv, Unopened, HasOwner, ResHeld
<1>1. ASSUME NEW q \in Query, BorrowCached(t, q)
      PROVE  LeakInv'
  BY <1>1 DEF BorrowCached, Enter, Leased
<1>2. ASSUME NEW q \in Query, BorrowNew(t, q)
      PROVE  LeakInv'
  <2>1. PICK r \in Res :
          /\ IsFreeRes(r)
          /\ failed' = [failed EXCEPT ![r] = FALSE]
          /\ providers' = [providers EXCEPT ![q] = r]
          /\ resOf' = [resOf EXCEPT ![t] = r]
    BY <1>2, FreshResIsFree DEF BorrowNew, NewResources
  <2>2. /\ pc[t] = "idle" /\ pc' = [pc EXCEPT ![t] = "lock"]
        /\ query' = [query EXCEPT ![t] = q]
        /\ providers[q] = None /\ UNCHANGED <<provider, transport, doomed>>
    BY <1>2 DEF BorrowNew, NewResources
  <2>3. Unopened'
    BY <2>1, <2>2 DEF IsFreeRes
  <2>4. ResHeld'
    BY <2>1, <2>2 DEF IsFreeRes
  <2> QED
    BY <2>3, <2>4
<1>3. ASSUME NEW q \in Query, CallClose(t, q)
      PROVE  LeakInv'
  <2>1. pc[t] = "idle" /\ query[t] = None /\ resOf[t] = None
    BY <1>3 DEF CallClose
  <2>2. Owns(t)'
    BY <1>3, <2>1 DEF CallClose
  <2>3. \A u \in Thread \ {t} : (Owns(u) <=> Owns(u)') /\ resOf'[u] = resOf[u]
    BY <1>3 DEF CallClose
  <2>4. \A x \in Res : HasOwner(x) => HasOwner(x)'
    BY <1>3, <2>1, <2>2, <2>3 DEF CallClose, Popped
  <2>5. Unopened'
    BY <1>3, <2>1, <2>3 DEF CallClose
  <2>6. ResHeld'
    BY <1>3, <2>1, <2>3, <2>4 DEF CallClose
  <2> QED
    BY <2>5, <2>6
<1>4. CASE PingBorrow(t)
  BY <1>4, FreshResIsFree DEF PingBorrow, Enter, NewResources, IsFreeRes
<1>5. CASE CallCloseAll(t)
  BY <1>5 DEF CallCloseAll
<1>6. ASSUME NEW ok \in BOOLEAN, Refresh(t, ok)
      PROVE  LeakInv'
  BY <1>6 DEF Refresh
<1>7. CASE BuildOk(t)
  <2>1. Unopened'
    BY <1>7, OneWorker DEF BuildOk
  <2>2. ResHeld'
    BY <1>7, OneWorker DEF BuildOk
  <2> QED
    BY <2>1, <2>2
<1>8. CASE BuildFail(t)
  BY <1>8 DEF BuildFail, RaiseFromLoad
<1>9. CASE LoadOk(t)
  <2>1. \A u \in Thread \ {t} : pc[u] \in Loading \cup Using => resOf[u] # resOf[t]
    BY <1>9, OneWorker DEF LoadOk
  <2>2. provider' = [provider EXCEPT ![resOf[t]] = credOf[t]] /\ credOf[t] # None
    BY <1>9 DEF LoadOk, OneCredential
  <2>3. Unopened'
    BY <1>9, <2>1, <2>2 DEF LoadOk
  <2>4. ResHeld'
    BY <1>9, <2>2 DEF LoadOk
  <2> QED
    BY <2>3, <2>4
<1>10. CASE LoadFail(t)
  BY <1>10, OneWorker DEF LoadFail, RaiseFromLoad
<1>11. CASE AcquireFailed(t)
  BY <1>11 DEF AcquireFailed
<1>12. CASE AcquireIo(t)
  BY <1>12, OneWorker DEF AcquireIo, ClearErrors, LockedByOne
<1>13. CASE ReadValues(t)
  BY <1>13 DEF ReadValues, Unlock
<1>14. CASE GetCredential(t)
  BY <1>14 DEF GetCredential, InitLockFree
<1>15. CASE FactoryOk(t)
  BY <1>15 DEF FactoryOk
<1>16. CASE FactoryFail(t)
  BY <1>16 DEF FactoryFail, RaiseFromLoad
<1>17. CASE ForgetFailed(t)
  BY <1>17, OneWorker DEF ForgetFailed, Unlock, Forgotten
<1>18. CASE Unwind(t)
  BY <1>18, SMTT(20) DEF Unwind
<1>19. CASE Release(t)
  <2>1. Unopened'
    BY <1>19 DEF Release, NotifyAll
  <2>2. ResHeld'
    BY <1>19 DEF Release, NotifyAll
  <2> QED
    BY <2>1, <2>2
<1>20. ASSUME NEW ok \in BOOLEAN, ProbeClose(t, ok)
       PROVE  LeakInv'
  BY <1>20, SMTT(20) DEF ProbeClose
<1>21. CASE FinishTakesCredential(t)
  BY <1>21 DEF FinishTakesCredential, TakeCredential
<1>22. CASE FinishReturns(t)
  BY <1>22 DEF FinishReturns, NotifyAll, CleanupStillDue
<1>23. CASE CloseCredential(t)
  BY <1>23 DEF CloseCredential
<1>24. CASE Abandon(t)
  BY <1>24 DEF Abandon, NotifyAll
<1>25. CASE AwaitReaders(t)
  BY <1>25, NobodyReads DEF AwaitReaders, WaitFor
<1>26. CASE AwaitSleeps(t)
  BY <1>26 DEF AwaitSleeps, Sleep
<1>27. CASE CloseQuery(t)
  BY <1>27 DEF CloseQuery
<1>28. CASE Drain(t)
  BY <1>28, NobodyCounts DEF Drain, WaitFor, EndInv, OneDrains
<1>29. CASE DrainSleeps(t)
  BY <1>29 DEF DrainSleeps, Sleep
<1>30. CASE DisposeCredential(t)
  BY <1>30 DEF DisposeCredential
<1>31. CASE DisposeDone(t)
  BY <1>31 DEF DisposeDone, NotifyAll
<1>32. ASSUME NEW r \in Res, DisposeResource(t, r)
       PROVE  LeakInv'
  BY <1>32 DEF DisposeResource
<1>33. CASE Join(t)
  BY <1>33 DEF Join, WaitFor
<1>34. CASE JoinSleeps(t)
  BY <1>34 DEF JoinSleeps, Sleep
<1>35. CASE RefreshInterrupted(t)
  BY <1>35 DEF RefreshInterrupted, Unlock
<1>36. CASE CloseCredentialInterrupted(t)
  BY <1>36 DEF CloseCredentialInterrupted
<1>37. CASE LockInterrupted(t)
  BY <1>37 DEF LockInterrupted
<1>38. CASE CredInterrupted(t)
  BY <1>38 DEF CredInterrupted, RaiseFromLoad
<1>39. CASE AwaitInterrupted(t)
  BY <1>39 DEF AwaitInterrupted
<1>40. CASE CloseAllInterrupted(t)
  BY <1>40 DEF CloseAllInterrupted
<1> HIDE NoneIsNoValue DEF LeaseInv, UseInv, EndInv, LeakInv
<1> QED
  BY <1>1, <1>2, <1>3, <1>4, <1>5, <1>6, <1>7, <1>8, <1>9, <1>10, <1>11, <1>12,
     <1>13, <1>14, <1>15, <1>16, <1>17, <1>18, <1>19, <1>20, <1>21, <1>22,
     <1>23, <1>24, <1>25, <1>26, <1>27, <1>28, <1>29, <1>30, <1>31, <1>32,
     <1>33, <1>34, <1>35, <1>36, <1>37, <1>38, <1>39, <1>40
  DEF Step, Call, SdkStep, StoreStep, Interrupt

\* At the beginning nothing is open.
LEMMA LeakInit == Init => LeakInv
BY NoneIsNoValue DEF Init, LeakInv, Unopened, ResHeld, Owns, Loading, Using

\* [Next]_vars keeps LeakInv.
LEMMA LeakNext ==
  InterruptWait = {} /\ LeaseInv /\ UseInv /\ EndInv /\ LeakInv /\ [Next]_vars
    => LeakInv'
<1> SUFFICES ASSUME InterruptWait = {}, LeaseInv, UseInv, EndInv, LeakInv, [Next]_vars
             PROVE  LeakInv'
  OBVIOUS
<1>1. CASE Next
  BY <1>1, LeakStep DEF Next, Step
<1>2. CASE UNCHANGED vars
  BY <1>2 DEF vars, LeakInv, Unopened, HasOwner, ResHeld, Owns
<1> QED
  BY <1>1, <1>2

\* The inductive invariant behind NoLeak holds in every reachable state, if no
\* wait is interrupted.
THEOREM LeakInvHolds == InterruptWait = {} => (Spec => []LeakInv)
<1> SUFFICES ASSUME InterruptWait = {}
             PROVE  Spec => []LeakInv
  OBVIOUS
<1>1. LeaseInv /\ UseInv /\ EndInv /\ LeakInv /\ [Next]_vars => LeakInv'
  BY LeakNext
<1> QED
  BY <1>1, LeakInit, LeaseInvHolds, UseInvHolds, EndInvHolds, PTL DEF Spec

-----------------------------------------------------------------------------
(* The theorems.                                                           *)

\* As long as no wait is interrupted, every open credential, provider and
\* transport can still be reached by something that will close it.
THEOREM NothingLeaks == InterruptWait = {} => (Spec => []NoLeak)
<1> SUFFICES ASSUME InterruptWait = {}
             PROVE  Spec => []NoLeak
  OBVIOUS
<1>1. EndInv /\ LeakInv => NoLeak
  BY DEF EndInv, CredHeld, LeakInv, ResHeld, HasOwner, Owns, NoLeak, Held
<1>2. Spec => []LeakInv
  BY LeakInvHolds
<1> QED
  BY <1>1, <1>2, EndInvHolds, PTL

AllClosed == /\ openCreds = {} /\ doomed = {} /\ Counted = {}
             /\ \A r \in Res : provider[r] = None /\ ~transport[r]

\* A disposed store has closed everything it ever opened.
LEMMA DisposedIsClosed ==
  ASSUME LeaseInv, UseInv, EndInv, LeakInv, disposed
  PROVE  AllClosed
BY NoneIsNoValue
DEF AllClosed, LeaseInv, UseInv, WorkOnly, Working, Loading, Using, EndInv, Disposed,
       LeakInv, ResHeld, HasOwner, Owns, NoProviders, Counted, Counting

\* The only ways out of close_all lead through a disposed store.
LEMMA CloseAllEnds ==
  ASSUME InterruptWait = {}, LeaseInv, NEW t \in Thread, Step(t), NEW u \in Thread,
         pc[u] \in {"dispose", "join"}, pc'[u] = "idle"
  PROVE  disposed'
<1> USE DEF LeaseInv, TypeOK
<1>1. ASSUME NEW q \in Query, BorrowCached(t, q)
      PROVE  disposed'
  BY <1>1 DEF BorrowCached, Enter, Leased
<1>2. ASSUME NEW q \in Query, BorrowNew(t, q)
      PROVE  disposed'
  BY <1>2 DEF BorrowNew, Enter, NewResources
<1>3. ASSUME NEW q \in Query, CallClose(t, q)
      PROVE  disposed'
  BY <1>3 DEF CallClose, Enter, Popped
<1>4. CASE PingBorrow(t)
  BY <1>4 DEF PingBorrow, Enter, NewResources
<1>5. CASE CallCloseAll(t)
  BY <1>5 DEF CallCloseAll
<1>6. ASSUME NEW ok \in BOOLEAN, Refresh(t, ok)
      PROVE  disposed'
  BY <1>6 DEF Refresh
<1>7. CASE BuildOk(t)
  BY <1>7 DEF BuildOk
<1>8. CASE BuildFail(t)
  BY <1>8 DEF BuildFail, RaiseFromLoad
<1>9. CASE LoadOk(t)
  BY <1>9 DEF LoadOk
<1>10. CASE LoadFail(t)
  BY <1>10 DEF LoadFail, RaiseFromLoad
<1>11. CASE AcquireFailed(t)
  BY <1>11 DEF AcquireFailed
<1>12. CASE AcquireIo(t)
  BY <1>12 DEF AcquireIo, ClearErrors
<1>13. CASE ReadValues(t)
  BY <1>13 DEF ReadValues, Unlock
<1>14. CASE GetCredential(t)
  BY <1>14 DEF GetCredential, InitLockFree
<1>15. CASE FactoryOk(t)
  BY <1>15 DEF FactoryOk
<1>16. CASE FactoryFail(t)
  BY <1>16 DEF FactoryFail, RaiseFromLoad
<1>17. CASE ForgetFailed(t)
  BY <1>17 DEF ForgetFailed, Unlock, Forgotten
<1>18. CASE Unwind(t)
  BY <1>18 DEF Unwind
<1>19. CASE Release(t)
  BY <1>19 DEF Release, NotifyAll
<1>20. ASSUME NEW ok \in BOOLEAN, ProbeClose(t, ok)
       PROVE  disposed'
  BY <1>20 DEF ProbeClose
<1>21. CASE FinishTakesCredential(t)
  BY <1>21 DEF FinishTakesCredential, TakeCredential
<1>22. CASE FinishReturns(t)
  BY <1>22 DEF FinishReturns, NotifyAll, CleanupStillDue
<1>23. CASE CloseCredential(t)
  BY <1>23 DEF CloseCredential
<1>24. CASE Abandon(t)
  BY <1>24 DEF Abandon, NotifyAll
<1>25. CASE AwaitReaders(t)
  BY <1>25 DEF AwaitReaders, WaitFor
<1>26. CASE AwaitSleeps(t)
  BY <1>26 DEF AwaitSleeps, Sleep
<1>27. CASE CloseQuery(t)
  BY <1>27 DEF CloseQuery
<1>28. CASE Drain(t)
  BY <1>28 DEF Drain, WaitFor
<1>29. CASE DrainSleeps(t)
  BY <1>29 DEF DrainSleeps, Sleep
<1>30. CASE DisposeCredential(t)
  BY <1>30 DEF DisposeCredential
<1>31. CASE DisposeDone(t)
  BY <1>31 DEF DisposeDone, NotifyAll
<1>32. ASSUME NEW r \in Res, DisposeResource(t, r)
       PROVE  disposed'
  BY <1>32 DEF DisposeResource
<1>33. CASE Join(t)
  BY <1>33 DEF Join, WaitFor
<1>34. CASE JoinSleeps(t)
  BY <1>34 DEF JoinSleeps, Sleep
<1>35. CASE RefreshInterrupted(t)
  BY <1>35 DEF RefreshInterrupted, Unlock
<1>36. CASE CloseCredentialInterrupted(t)
  BY <1>36 DEF CloseCredentialInterrupted
<1>37. CASE LockInterrupted(t)
  BY <1>37 DEF LockInterrupted
<1>38. CASE CredInterrupted(t)
  BY <1>38 DEF CredInterrupted, RaiseFromLoad
<1>39. CASE AwaitInterrupted(t)
  BY <1>39 DEF AwaitInterrupted
<1>40. CASE CloseAllInterrupted(t)
  BY <1>40 DEF CloseAllInterrupted
<1> HIDE DEF LeaseInv, TypeOK
<1> QED
  BY <1>1, <1>2, <1>3, <1>4, <1>5, <1>6, <1>7, <1>8, <1>9, <1>10, <1>11, <1>12,
     <1>13, <1>14, <1>15, <1>16, <1>17, <1>18, <1>19, <1>20, <1>21, <1>22,
     <1>23, <1>24, <1>25, <1>26, <1>27, <1>28, <1>29, <1>30, <1>31, <1>32,
     <1>33, <1>34, <1>35, <1>36, <1>37, <1>38, <1>39, <1>40
  DEF Step, Call, SdkStep, StoreStep, Interrupt

\* No close_all, the first or a later one, returns before every provider,
\* transport and credential of the store is closed and every call has ended.
THEOREM CloseAllReturnsLast == InterruptWait = {} => (Spec => CloseAllReleasesAll)
<1> SUFFICES ASSUME InterruptWait = {}
             PROVE  Spec => CloseAllReleasesAll
  OBVIOUS
<1> DEFINE Released ==
      \A t \in Thread :
        pc[t] \in {"dispose", "join"} /\ pc'[t] = "idle" =>
          /\ openCreds' = {} /\ doomed' = {} /\ Counted' = {}
          /\ \A r \in Res : provider'[r] = None /\ ~transport'[r]
<1>1. LeaseInv /\ LeaseInv' /\ UseInv' /\ EndInv' /\ LeakInv' /\ [Next]_vars
        => [Released]_vars
  <2> SUFFICES ASSUME LeaseInv, LeaseInv', UseInv', EndInv', LeakInv', Next,
                      NEW u \in Thread, pc[u] \in {"dispose", "join"}, pc'[u] = "idle"
               PROVE  AllClosed'
    BY DEF AllClosed
  <2>1. disposed'
    BY CloseAllEnds DEF Next, Step
  <2>2. (LeaseInv /\ UseInv /\ EndInv /\ LeakInv /\ disposed => AllClosed)'
    BY DisposedIsClosed, PTL
  <2> QED
    BY <2>1, <2>2
<1>2. Spec => []LeakInv
  BY LeakInvHolds
<1> QED
  BY <1>1, <1>2, LeaseInvHolds, UseInvHolds, EndInvHolds, PTL
  DEF Spec, CloseAllReleasesAll

-----------------------------------------------------------------------------
(* What failures leave behind: the inductive invariants.                   *)

\* Errors and attempts at the labels where the code has just cleared or set them.
AttemptInv ==
  /\ \A t \in Thread :
      /\ attempt[t] => pc[t] = "read"
      /\ pc[t] = "read" => errors[resOf[t]] = attempt[t]
      /\ pc[t] = "refresh" => ~errors[resOf[t]]
  /\ \A r \in Res : InUse(r) /\ errors[r] => provider[r] # None

\* A failed operation has asked for the clean-up, or is about to.
CleanupDue ==
  cleanupWhenIdle \/ \E t \in Thread : pc[t] \in {"failed", "unwind"}

\* After a failure the clean-up is due, or it has begun and a credential newer
\* than that belongs to a load under way, or providers kept it from happening.
FailureInv ==
  /\ Counted = {} => ~cleanupWhenIdle
  /\ \A t \in Thread : pc[t] # "abandon"
  /\ failedBusy /\ ~closed =>
       \/ CleanupDue
       \/ credential = None
       \/ \E t \in Thread : pc[t] \in {"build", "load"}
       \/ Counted = {} /\ ~NoProviders

-----------------------------------------------------------------------------

\* Each step keeps the errors in step with the reads.
LEMMA AttemptStep ==
  ASSUME LeaseInv, UseInv, AttemptInv, NEW t \in Thread, Step(t)
  PROVE  AttemptInv'
<1> USE NoneIsNoValue DEF LeaseInv, TypeOK, LocalsFit, Reading, Counted, Counting,
        UseInv, WorkOnly, Working, OwnedAlone, LoadsOnce, Over, NoProviders, Owns,
        InUse, Loading, Using, AttemptInv
<1>1. ASSUME NEW q \in Query, BorrowCached(t, q)
      PROVE  AttemptInv'
  BY <1>1 DEF BorrowCached, Enter, Leased
<1>2. ASSUME NEW q \in Query, BorrowNew(t, q)
      PROVE  AttemptInv'
  <2>1. PICK r \in Res :
          /\ IsFreeRes(r)
          /\ errors' = [errors EXCEPT ![r] = FALSE]
          /\ providers' = [providers EXCEPT ![q] = r]
          /\ resOf' = [resOf EXCEPT ![t] = r]
    BY <1>2, FreshResIsFree DEF BorrowNew, NewResources
  <2>2. /\ pc[t] = "idle" /\ pc' = [pc EXCEPT ![t] = "lock"]
        /\ UNCHANGED <<provider, attempt>>
    BY <1>2 DEF BorrowNew, NewResources
  <2>3. \A x \in Res \ {r} : InUse(x)' => InUse(x)
    BY <2>1, <2>2
  <2>4. \A u \in Thread \ {t} : resOf[u] # r
    BY <2>1 DEF IsFreeRes
  <2>5. \A u \in Thread :
          /\ attempt'[u] => pc'[u] = "read"
          /\ pc'[u] = "read" => errors'[resOf'[u]] = attempt'[u]
          /\ pc'[u] = "refresh" => ~errors'[resOf'[u]]
    <3> SUFFICES ASSUME NEW u \in Thread
                 PROVE  /\ attempt'[u] => pc'[u] = "read"
                        /\ pc'[u] = "read" => errors'[resOf'[u]] = attempt'[u]
                        /\ pc'[u] = "refresh" => ~errors'[resOf'[u]]
      OBVIOUS
    <3>1. CASE u = t
      BY <2>2, <3>1
    <3>2. CASE u # t
      <4>1. pc'[u] = pc[u] /\ attempt'[u] = attempt[u] /\ resOf'[u] = resOf[u]
        BY <2>1, <2>2, <3>2
      <4>2. pc[u] \in {"read", "refresh"} => resOf[u] \in Res \ {r}
        BY <2>4, <3>2
      <4>3. \A x \in Res \ {r} : errors'[x] = errors[x]
        BY <2>1
      <4> HIDE DEF LeaseInv, UseInv, InUse
      <4> QED
        BY <4>1, <4>2, <4>3
    <3> QED
      BY <3>1, <3>2
  <2> HIDE DEF InUse
  <2>6. \A x \in Res : InUse(x)' /\ errors'[x] => provider'[x] # None
    BY <2>1, <2>2, <2>3
  <2> QED
    BY <2>5, <2>6
<1>3. ASSUME NEW q \in Query, CallClose(t, q)
      PROVE  AttemptInv'
  BY <1>3 DEF CallClose, Enter, Popped
<1>4. CASE PingBorrow(t)
  <2>1. PICK r \in Res :
          /\ IsFreeRes(r)
          /\ errors' = [errors EXCEPT ![r] = FALSE]
          /\ resOf' = [resOf EXCEPT ![t] = r]
    BY <1>4, FreshResIsFree DEF PingBorrow, NewResources
  <2>2. /\ pc[t] = "idle" /\ pc' = [pc EXCEPT ![t] = "cred"]
        /\ UNCHANGED <<provider, attempt, providers>>
    BY <1>4 DEF PingBorrow, NewResources
  <2>3. \A x \in Res \ {r} : InUse(x)' => InUse(x)
    BY <2>1, <2>2
  <2>4. \A u \in Thread \ {t} : resOf[u] # r
    BY <2>1 DEF IsFreeRes
  <2>5. \A u \in Thread :
          /\ attempt'[u] => pc'[u] = "read"
          /\ pc'[u] = "read" => errors'[resOf'[u]] = attempt'[u]
          /\ pc'[u] = "refresh" => ~errors'[resOf'[u]]
    <3> SUFFICES ASSUME NEW u \in Thread
                 PROVE  /\ attempt'[u] => pc'[u] = "read"
                        /\ pc'[u] = "read" => errors'[resOf'[u]] = attempt'[u]
                        /\ pc'[u] = "refresh" => ~errors'[resOf'[u]]
      OBVIOUS
    <3>1. CASE u = t
      BY <2>2, <3>1
    <3>2. CASE u # t
      <4>1. pc'[u] = pc[u] /\ attempt'[u] = attempt[u] /\ resOf'[u] = resOf[u]
        BY <2>1, <2>2, <3>2
      <4>2. pc[u] \in {"read", "refresh"} => resOf[u] \in Res \ {r}
        BY <2>4, <3>2
      <4>3. \A x \in Res \ {r} : errors'[x] = errors[x]
        BY <2>1
      <4> HIDE DEF LeaseInv, UseInv, InUse
      <4> QED
        BY <4>1, <4>2, <4>3
    <3> QED
      BY <3>1, <3>2
  <2> HIDE DEF InUse
  <2>6. \A x \in Res : InUse(x)' /\ errors'[x] => provider'[x] # None
    BY <2>1, <2>2, <2>3
  <2> QED
    BY <2>5, <2>6
<1>5. CASE CallCloseAll(t)
  BY <1>5 DEF CallCloseAll
<1>6. ASSUME NEW ok \in BOOLEAN, Refresh(t, ok)
      PROVE  AttemptInv'
  BY <1>6, OneWorker DEF Refresh
<1>7. CASE BuildOk(t)
  BY <1>7 DEF BuildOk
<1>8. CASE BuildFail(t)
  BY <1>8 DEF BuildFail, RaiseFromLoad
<1>9. CASE LoadOk(t)
  BY <1>9, OneWorker DEF LoadOk
<1>10. CASE LoadFail(t)
  BY <1>10 DEF LoadFail, RaiseFromLoad
<1>11. CASE AcquireFailed(t)
  BY <1>11 DEF AcquireFailed
<1>12. CASE AcquireIo(t)
  <2>1. \A u \in Thread \ {t} : pc[u] \in Using => resOf[u] # resOf[t]
    BY <1>12 DEF AcquireIo, LockedByOne
  <2>2. \/ errors' = errors /\ pc' = [pc EXCEPT ![t] = "cred"]
        \/ /\ errors' = [errors EXCEPT ![resOf[t]] = FALSE]
           /\ pc' = [pc EXCEPT ![t] = "refresh"]
    BY <1>12 DEF AcquireIo, ClearErrors
  <2> QED
    BY <1>12, <2>1, <2>2 DEF AcquireIo
<1>13. CASE ReadValues(t)
  BY <1>13 DEF ReadValues, Unlock
<1>14. CASE GetCredential(t)
  BY <1>14 DEF GetCredential, InitLockFree
<1>15. CASE FactoryOk(t)
  BY <1>15 DEF FactoryOk
<1>16. CASE FactoryFail(t)
  BY <1>16 DEF FactoryFail, RaiseFromLoad
<1>17. CASE ForgetFailed(t)
  BY <1>17 DEF ForgetFailed, Unlock, Forgotten
<1>18. CASE Unwind(t)
  BY <1>18 DEF Unwind
<1>19. CASE Release(t)
  BY <1>19 DEF Release, NotifyAll
<1>20. ASSUME NEW ok \in BOOLEAN, ProbeClose(t, ok)
       PROVE  AttemptInv'
  BY <1>20 DEF ProbeClose
<1>21. CASE FinishTakesCredential(t)
  BY <1>21 DEF FinishTakesCredential, TakeCredential
<1>22. CASE FinishReturns(t)
  BY <1>22 DEF FinishReturns, NotifyAll, CleanupStillDue
<1>23. CASE CloseCredential(t)
  BY <1>23 DEF CloseCredential
<1>24. CASE Abandon(t)
  BY <1>24 DEF Abandon, NotifyAll
<1>25. CASE AwaitReaders(t)
  BY <1>25, NobodyReads DEF AwaitReaders, WaitFor
<1>26. CASE AwaitSleeps(t)
  BY <1>26 DEF AwaitSleeps, Sleep
<1>27. CASE CloseQuery(t)
  BY <1>27 DEF CloseQuery
<1>28. CASE Drain(t)
  BY <1>28 DEF Drain, WaitFor
<1>29. CASE DrainSleeps(t)
  BY <1>29 DEF DrainSleeps, Sleep
<1>30. CASE DisposeCredential(t)
  BY <1>30 DEF DisposeCredential
<1>31. CASE DisposeDone(t)
  BY <1>31 DEF DisposeDone, NotifyAll
<1>32. ASSUME NEW r \in Res, DisposeResource(t, r)
       PROVE  AttemptInv'
  BY <1>32 DEF DisposeResource
<1>33. CASE Join(t)
  BY <1>33 DEF Join, WaitFor
<1>34. CASE JoinSleeps(t)
  BY <1>34 DEF JoinSleeps, Sleep
<1>35. CASE RefreshInterrupted(t)
  BY <1>35 DEF RefreshInterrupted, Unlock
<1>36. CASE CloseCredentialInterrupted(t)
  BY <1>36 DEF CloseCredentialInterrupted
<1>37. CASE LockInterrupted(t)
  BY <1>37 DEF LockInterrupted
<1>38. CASE CredInterrupted(t)
  BY <1>38 DEF CredInterrupted, RaiseFromLoad
<1>39. CASE AwaitInterrupted(t)
  BY <1>39 DEF AwaitInterrupted
<1>40. CASE CloseAllInterrupted(t)
  BY <1>40 DEF CloseAllInterrupted
<1> HIDE NoneIsNoValue DEF LeaseInv, UseInv, AttemptInv
<1> QED
  BY <1>1, <1>2, <1>3, <1>4, <1>5, <1>6, <1>7, <1>8, <1>9, <1>10, <1>11, <1>12,
     <1>13, <1>14, <1>15, <1>16, <1>17, <1>18, <1>19, <1>20, <1>21, <1>22,
     <1>23, <1>24, <1>25, <1>26, <1>27, <1>28, <1>29, <1>30, <1>31, <1>32,
     <1>33, <1>34, <1>35, <1>36, <1>37, <1>38, <1>39, <1>40
  DEF Step, Call, SdkStep, StoreStep, Interrupt

\* An open store that is not idle has an operation under way.
LEMMA SomebodyCounts ==
  ASSUME LeaseInv, Counted = {}
  PROVE  activeOperations = 0
BY FS_EmptySet DEF LeaseInv, LeasesExact

\* The count is one when a single thread is inside an operation.
LEMMA OneCounts ==
  ASSUME LeaseInv, NEW t \in Thread, Counted = {t}
  PROVE  activeOperations = 1
BY FS_Singleton DEF LeaseInv, LeasesExact

\* Each step keeps the clean-up due after a failure, or finds it done.
LEMMA CleanupStep ==
  ASSUME InterruptIo = {}, LeaseInv, UseInv, FailureInv, NEW t \in Thread, Step(t)
  PROVE  FailureInv'
<1> USE NoneIsNoValue DEF LeaseInv, TypeOK, LocalsFit, Reading, Counted, Counting,
        UseInv, Over, NoProviders, CleanupDue, FailureInv
<1>1. ASSUME NEW q \in Query, BorrowCached(t, q)
      PROVE  FailureInv'
  BY <1>1, SomebodyCounts DEF BorrowCached, Enter, Leased
<1>2. ASSUME NEW q \in Query, BorrowNew(t, q)
      PROVE  FailureInv'
  BY <1>2, SomebodyCounts DEF BorrowNew, Enter, NewResources
<1>3. ASSUME NEW q \in Query, CallClose(t, q)
      PROVE  FailureInv'
  BY <1>3, SomebodyCounts DEF CallClose, Enter, Popped
<1>4. CASE PingBorrow(t)
  BY <1>4, SomebodyCounts DEF PingBorrow, Enter, NewResources
<1>5. CASE CallCloseAll(t)
  BY <1>5 DEF CallCloseAll
<1>6. ASSUME NEW ok \in BOOLEAN, Refresh(t, ok)
      PROVE  FailureInv'
  BY <1>6 DEF Refresh
<1>7. CASE BuildOk(t)
  BY <1>7 DEF BuildOk
<1>8. CASE BuildFail(t)
  BY <1>8 DEF BuildFail, RaiseFromLoad
<1>9. CASE LoadOk(t)
  BY <1>9 DEF LoadOk
<1>10. CASE LoadFail(t)
  BY <1>10 DEF LoadFail, RaiseFromLoad
<1>11. CASE AcquireFailed(t)
  BY <1>11 DEF AcquireFailed
<1>12. CASE AcquireIo(t)
  BY <1>12 DEF AcquireIo, ClearErrors
<1>13. CASE ReadValues(t)
  BY <1>13 DEF ReadValues, Unlock
<1>14. CASE GetCredential(t)
  BY <1>14 DEF GetCredential, InitLockFree
<1>15. CASE FactoryOk(t)
  BY <1>15, FreshCredIsFree DEF FactoryOk
<1>16. CASE FactoryFail(t)
  BY <1>16 DEF FactoryFail, RaiseFromLoad
<1>17. CASE ForgetFailed(t)
  BY <1>17 DEF ForgetFailed, Unlock, Forgotten
<1>18. CASE Unwind(t)
  BY <1>18 DEF Unwind
<1>19. CASE Release(t)
  BY <1>19 DEF Release, NotifyAll
<1>20. ASSUME NEW ok \in BOOLEAN, ProbeClose(t, ok)
       PROVE  FailureInv'
  BY <1>20 DEF ProbeClose
<1>21. CASE FinishTakesCredential(t)
  BY <1>21 DEF FinishTakesCredential, TakeCredential, LastMustCleanUp
<1>22. CASE FinishReturns(t)
  <2>1. Counted' = Counted \ {t} /\ t \in Counted
    BY <1>22 DEF FinishReturns
  <2>2. CASE activeOperations = 1
    <3>1. \A u \in Thread \ {t} : pc[u] \notin Counting
      BY <1>22, <2>2, OnlyOneCounts DEF FinishReturns
    <3>2. ~cleanupWhenIdle' /\ (cleanupWhenIdle /\ ~closed => ~NoProviders)
      BY <1>22, <2>2 DEF FinishReturns, CleanupStillDue, LastMustCleanUp
    <3> QED
      BY <1>22, <2>1, <3>1, <3>2 DEF FinishReturns
  <2>3. CASE activeOperations # 1
    <3>1. Counted # {t}
      BY <2>3, OneCounts
    <3>2. Counted' # {}
      BY <2>1, <3>1
    <3>3. cleanupWhenIdle' = cleanupWhenIdle
      BY <1>22, <2>3 DEF FinishReturns, CleanupStillDue
    <3> QED
      BY <1>22, <2>1, <3>2, <3>3 DEF FinishReturns
  <2> QED
    BY <2>2, <2>3
<1>23. CASE CloseCredential(t)
  BY <1>23 DEF CloseCredential
<1>24. CASE Abandon(t)
  BY <1>24 DEF Abandon, NotifyAll
<1>25. CASE AwaitReaders(t)
  BY <1>25 DEF AwaitReaders, WaitFor
<1>26. CASE AwaitSleeps(t)
  BY <1>26 DEF AwaitSleeps, Sleep
<1>27. CASE CloseQuery(t)
  BY <1>27 DEF CloseQuery
<1>28. CASE Drain(t)
  BY <1>28 DEF Drain, WaitFor
<1>29. CASE DrainSleeps(t)
  BY <1>29 DEF DrainSleeps, Sleep
<1>30. CASE DisposeCredential(t)
  BY <1>30 DEF DisposeCredential
<1>31. CASE DisposeDone(t)
  BY <1>31 DEF DisposeDone, NotifyAll
<1>32. ASSUME NEW r \in Res, DisposeResource(t, r)
       PROVE  FailureInv'
  BY <1>32 DEF DisposeResource
<1>33. CASE Join(t)
  BY <1>33 DEF Join, WaitFor
<1>34. CASE JoinSleeps(t)
  BY <1>34 DEF JoinSleeps, Sleep
<1>35. CASE RefreshInterrupted(t)
  BY <1>35 DEF RefreshInterrupted, Unlock
<1>36. CASE CloseCredentialInterrupted(t)
  BY <1>36 DEF CloseCredentialInterrupted
<1>37. CASE LockInterrupted(t)
  BY <1>37 DEF LockInterrupted
<1>38. CASE CredInterrupted(t)
  BY <1>38 DEF CredInterrupted, RaiseFromLoad
<1>39. CASE AwaitInterrupted(t)
  BY <1>39 DEF AwaitInterrupted
<1>40. CASE CloseAllInterrupted(t)
  BY <1>40 DEF CloseAllInterrupted
<1> HIDE NoneIsNoValue DEF LeaseInv, UseInv, FailureInv
<1> QED
  BY <1>1, <1>2, <1>3, <1>4, <1>5, <1>6, <1>7, <1>8, <1>9, <1>10, <1>11, <1>12,
     <1>13, <1>14, <1>15, <1>16, <1>17, <1>18, <1>19, <1>20, <1>21, <1>22,
     <1>23, <1>24, <1>25, <1>26, <1>27, <1>28, <1>29, <1>30, <1>31, <1>32,
     <1>33, <1>34, <1>35, <1>36, <1>37, <1>38, <1>39, <1>40
  DEF Step, Call, SdkStep, StoreStep, Interrupt

-----------------------------------------------------------------------------
(* The theorems.                                                           *)

\* Before any read there are no errors.
LEMMA AttemptInit == Init => AttemptInv
BY NoneIsNoValue DEF Init, AttemptInv

\* [Next]_vars keeps AttemptInv.
LEMMA AttemptNext == LeaseInv /\ UseInv /\ AttemptInv /\ [Next]_vars => AttemptInv'
<1> SUFFICES ASSUME LeaseInv, UseInv, AttemptInv, [Next]_vars
             PROVE  AttemptInv'
  OBVIOUS
<1>1. CASE Next
  BY <1>1, AttemptStep DEF Next, Step
<1>2. CASE UNCHANGED vars
  BY <1>2 DEF vars, AttemptInv, InUse
<1> QED
  BY <1>1, <1>2

\* A read reports the failure of its own refresh, and no other's, although all
\* readers of a query share one list of errors.
THEOREM ReadsReportTheirOwn == Spec => []ReportsOwnAttempt
<1>1. AttemptInv => ReportsOwnAttempt
  BY DEF AttemptInv, ReportsOwnAttempt
<1> QED
  BY <1>1, AttemptInit, AttemptNext, LeaseInvHolds, UseInvHolds, PTL DEF Spec

\* Before any call nothing has failed.
LEMMA CleanupInit == Init => FailureInv
BY DEF Init, FailureInv, Counted

\* [Next]_vars keeps FailureInv.
LEMMA CleanupNext ==
  InterruptIo = {} /\ LeaseInv /\ UseInv /\ FailureInv /\ [Next]_vars => FailureInv'
<1> SUFFICES ASSUME InterruptIo = {}, LeaseInv, UseInv, FailureInv, [Next]_vars
             PROVE  FailureInv'
  OBVIOUS
<1>1. CASE Next
  BY <1>1, CleanupStep DEF Next, Step
<1>2. CASE UNCHANGED vars
  BY <1>2 DEF vars, FailureInv, CleanupDue, Counted, NoProviders
<1> QED
  BY <1>1, <1>2

\* As long as no SDK call is interrupted, a failure leaves no credential open
\* once the store is idle without providers.
THEOREM FailureIsCleanedUp == InterruptIo = {} => (Spec => []FailureLeavesNoCredential)
<1> SUFFICES ASSUME InterruptIo = {}
             PROVE  Spec => []FailureLeavesNoCredential
  OBVIOUS
<1>1. LeaseInv /\ UseInv /\ FailureInv /\ [Next]_vars => FailureInv'
  BY CleanupNext
<1>2. LeaseInv /\ UseInv /\ EndInv /\ FailureInv => FailureLeavesNoCredential
  <2> SUFFICES ASSUME LeaseInv, UseInv, EndInv, FailureInv,
                      activeOperations = 0, ~closed, NoProviders, failedBusy
               PROVE  openCreds = {}
    BY DEF FailureLeavesNoCredential
  <2>1. Counted = {}
    BY NobodyCounts
  <2>2. \A t \in Thread : credOf[t] = None
    BY <2>1 DEF EndInv, CredHeld, OneDrains, Counted, Counting
  <2>3. credential = None
    BY <2>1 DEF FailureInv, CleanupDue, Counted, Counting
  <2> QED
    BY <2>2, <2>3, NoneIsNoValue DEF EndInv, CredHeld, LeaseInv, TypeOK
<1> QED
  BY <1>1, <1>2, CleanupInit, LeaseInvHolds, UseInvHolds, EndInvHolds, PTL DEF Spec

==============================================================================
