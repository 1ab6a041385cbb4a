------------------------ MODULE AzureStore_lease_proofs ------------------------
(***************************************************************************)
(* The store implements StoreLease, for any number of threads, queries,    *)
(* resources and credentials.                                              *)
(***************************************************************************)
EXTENDS AzureStore_proofs

-----------------------------------------------------------------------------
(* The inductive invariant.                                                *)

\* An open credential is the store's, or that of a thread which is loading with
\* it or is about to close it.
CredHeld ==
  /\ \A t \in Thread :
       credOf[t] # None => pc[t] \in {"build", "load", "closecred", "dispose"}
  /\ \A c \in openCreds : c = credential \/ \E t \in Thread : credOf[t] = c

\* One thread at a time is inside the first close_all, and none is after it.
OneDrains ==
  /\ \A t, u \in Thread :
       pc[t] \in {"drain", "dispose"} /\ pc[u] \in {"drain", "dispose"} => t = u
  /\ \A t \in Thread : pc[t] \in {"drain", "dispose"} => closed /\ ~disposed
  /\ doomed # {} => \E t \in Thread : pc[t] = "dispose"

Disposed == closed /\ Counted = {} /\ NoProviders /\ credential = None
            /\ openCreds = {} /\ doomed = {}

EndInv == CredHeld /\ OneDrains /\ (disposed => Disposed)

-----------------------------------------------------------------------------
USE DEF callVars, objectVars, readVars, leaseVars, cleanupVars, credVars, lifeVars
USE DEF Goto

\* Each step keeps what the end of the store's lifetime relies on.
LEMMA EndStep ==
  ASSUME LeaseInv, UseInv, EndInv, NEW t \in Thread, Step(t)
  PROVE  EndInv'
<1> USE NoneIsNoValue DEF LeaseInv, TypeOK, LocalsFit, Reading, Counted, Counting,
        UseInv, OneCredential, Over, NoProviders, EndInv, CredHeld, OneDrains, Disposed
<1>1. ASSUME NEW q \in Query, BorrowCached(t, q)
      PROVE  EndInv'
  BY <1>1 DEF BorrowCached, Enter, Leased
<1>2. ASSUME NEW q \in Query, BorrowNew(t, q)
      PROVE  EndInv'
  BY <1>2, FreshResIsFree DEF BorrowNew, Enter, NewResources, IsFreeRes
<1>3. ASSUME NEW q \in Query, CallClose(t, q)
      PROVE  EndInv'
  BY <1>3 DEF CallClose, Enter, Popped
<1>4. CASE PingBorrow(t)
  BY <1>4, FreshResIsFree DEF PingBorrow, Enter, NewResources, IsFreeRes
<1>5. CASE CallCloseAll(t)
  BY <1>5 DEF CallCloseAll
<1>6. ASSUME NEW ok \in BOOLEAN, Refresh(t, ok)
      PROVE  EndInv'
  BY <1>6 DEF Refresh
<1>7. CASE BuildOk(t)
  BY <1>7 DEF BuildOk
<1>8. CASE BuildFail(t)
  BY <1>8 DEF BuildFail, RaiseFromLoad
<1>9. CASE LoadOk(t)
  BY <1>9 DEF LoadOk
<1>10. CASE LoadFail(t)
  BY <1>10 DEF LoadFail, RaiseFromLoad
<1>11. CASE AcquireFailed(t)
  BY <1>11 DEF AcquireFailed
<1>12. CASE AcquireIo(t)
  BY <1>12 DEF AcquireIo, ClearErrors
<1>13. CASE ReadValues(t)
  BY <1>13 DEF ReadValues, Unlock
<1>14. CASE GetCredential(t)
  BY <1>14 DEF GetCredential, InitLockFree
<1>15. CASE FactoryOk(t)
  BY <1>15, FreshCredIsFree DEF FactoryOk, IsFreeCred
<1>16. CASE FactoryFail(t)
  BY <1>16 DEF FactoryFail, RaiseFromLoad
<1>17. CASE ForgetFailed(t)
  BY <1>17 DEF ForgetFailed, Unlock, Forgotten
<1>18. CASE Unwind(t)
  BY <1>18 DEF Unwind
<1>19. CASE Release(t)
  BY <1>19 DEF Release, NotifyAll
<1>20. ASSUME NEW ok \in BOOLEAN, ProbeClose(t, ok)
       PROVE  EndInv'
  BY <1>20 DEF ProbeClose
<1>21. CASE FinishTakesCredential(t)
  BY <1>21, OnlyOneCounts DEF FinishTakesCredential, TakeCredential, LastMustCleanUp
<1>22. CASE FinishReturns(t)
  BY <1>22 DEF FinishReturns, NotifyAll, CleanupStillDue
<1>23. CASE CloseCredential(t)
  BY <1>23 DEF CloseCredential
<1>24. CASE Abandon(t)
  BY <1>24 DEF Abandon, NotifyAll
<1>25. CASE AwaitReaders(t)
  BY <1>25 DEF AwaitReaders, WaitFor
<1>26. CASE AwaitSleeps(t)
  BY <1>26 DEF AwaitSleeps, Sleep
<1>27. CASE CloseQuery(t)
  BY <1>27 DEF CloseQuery
<1>28. CASE Drain(t)
  BY <1>28, NobodyCounts DEF Drain, WaitFor
<1>29. CASE DrainSleeps(t)
  BY <1>29 DEF DrainSleeps, Sleep
<1>30. CASE DisposeCredential(t)
  BY <1>30 DEF DisposeCredential
<1>31. CASE DisposeDone(t)
  BY <1>31 DEF DisposeDone, NotifyAll
<1>32. ASSUME NEW r \in Res, DisposeResource(t, r)
       PROVE  EndInv'
  BY <1>32 DEF DisposeResource
<1>33. CASE Join(t)
  BY <1>33 DEF Join, WaitFor
<1>34. CASE JoinSleeps(t)
  BY <1>34 DEF JoinSleeps, Sleep
<1>35. CASE RefreshInterrupted(t)
  BY <1>35 DEF RefreshInterrupted, Unlock
<1>36. CASE CloseCredentialInterrupted(t)
  BY <1>36 DEF CloseCredentialInterrupted
<1>37. CASE LockInterrupted(t)
  BY <1>37 DEF LockInterrupted
<1>38. CASE CredInterrupted(t)
  BY <1>38 DEF CredInterrupted, RaiseFromLoad
<1>39. CASE AwaitInterrupted(t)
  BY <1>39 DEF AwaitInterrupted
<1>40. CASE CloseAllInterrupted(t)
  BY <1>40 DEF CloseAllInterrupted
<1> HIDE NoneIsNoValue DEF LeaseInv, UseInv, EndInv
<1> QED
  BY <1>1, <1>2, <1>3, <1>4, <1>5, <1>6, <1>7, <1>8, <1>9, <1>10, <1>11, <1>12,
     <1>13, <1>14, <1>15, <1>16, <1>17, <1>18, <1>19, <1>20, <1>21, <1>22,
     <1>23, <1>24, <1>25, <1>26, <1>27, <1>28, <1>29, <1>30, <1>31, <1>32,
     <1>33, <1>34, <1>35, <1>36, <1>37, <1>38, <1>39, <1>40
  DEF Step, Call, SdkStep, StoreStep, Interrupt

\* At the beginning the store is open.
LEMMA EndInit == Init => EndInv
BY NoneIsNoValue DEF Init, EndInv, CredHeld, OneDrains

\* [Next]_vars keeps EndInv.
LEMMA EndNext == LeaseInv /\ UseInv /\ EndInv /\ [Next]_vars => EndInv'
<1> SUFFICES ASSUME LeaseInv, UseInv, EndInv, [Next]_vars
             PROVE  EndInv'
  OBVIOUS
<1>1. CASE Next
  BY <1>1, EndStep DEF Next, Step
<1>2. CASE UNCHANGED vars
  BY <1>2 DEF vars, EndInv, CredHeld, OneDrains, Disposed, Counted, NoProviders
<1> QED
  BY <1>1, <1>2

\* After close_all took over, nothing is lent any more, and what it has taken is
\* held by one thread only: the part of the refinement that no counter tells.
THEOREM EndInvHolds == Spec => []EndInv
BY EndInit, EndNext, LeaseInvHolds, UseInvHolds, PTL DEF Spec

-----------------------------------------------------------------------------
(* The refinement: what each step of the store is to StoreLease.           *)

Simulated == [Lease!LeaseNext]_(Lease!leaseState)

\* A step that StoreLease does not see.
LEMMA Kept ==
  ASSUME Counted' = Counted, UNCHANGED <<closed, disposed, credential, openCreds>>
  PROVE  Simulated
BY DEF Simulated, Lease!leaseState

\* Entering an operation is StoreLease's Lend.
LEMMA Lends ==
  ASSUME LeaseInv, EndInv, NEW t \in Thread, pc[t] \notin Counting, ~closed,
         NEW l \in Counting, Goto(t, l),
         UNCHANGED <<closed, disposed, credential, openCreds>>
  PROVE  Simulated
<1>1. Counted' = Counted \cup {t} /\ t \notin Counted
  BY DEF Counted, LeaseInv, TypeOK
<1>2. ~disposed
  BY DEF EndInv, Disposed
<1>3. Lease!Lend(t)
  BY <1>1, <1>2 DEF Lease!Lend
<1> QED
  BY <1>3 DEF Simulated, Lease!LeaseNext

\* Leaving an operation is StoreLease's Return.
LEMMA Returns ==
  ASSUME LeaseInv, NEW t \in Thread, pc[t] \in Counting, NEW l, l \notin Counting,
         Goto(t, l), UNCHANGED <<closed, disposed, credential, openCreds>>
  PROVE  Simulated
<1>1. Counted' = Counted \ {t} /\ t \in Counted
  BY DEF Counted, LeaseInv, TypeOK
<1>2. Lease!Return(t)
  BY <1>1 DEF Lease!Return
<1> QED
  BY <1>2 DEF Simulated, Lease!LeaseNext

\* The sole lease holder, or close_all without any, gives the credential up.
LEMMA Retires ==
  ASSUME LeaseInv, UseInv, Counted' = Counted, credential' = None, ~disposed,
         UNCHANGED <<closed, disposed, openCreds>>,
         \/ ~closed /\ \E t \in Thread : Counted = {t}
         \/ closed /\ Counted = {}
  PROVE  Simulated
<1>1. CASE credential = None
  BY <1>1, Kept
<1>2. CASE credential # None
  <2>1. openCreds \ {None} = (openCreds \ {credential}) \cup {credential}
    BY <1>2, NoneIsNoValue DEF LeaseInv, TypeOK, UseInv, OneCredential
  <2>2. Lease!Retire
    BY <1>2, <2>1 DEF Lease!Retire, Counted
  <2> QED
    BY <2>2 DEF Simulated, Lease!LeaseNext
<1> QED
  BY <1>1, <1>2

\* Closing a credential that the store no longer has.
LEMMA Disposes ==
  ASSUME LeaseInv, NEW t \in Thread, credOf[t] # credential \/ credOf[t] = None,
         Counted' = Counted, openCreds' = openCreds \ {credOf[t]},
         UNCHANGED <<closed, disposed, credential>>
  PROVE  Simulated
<1>1. CASE credOf[t] \in openCreds
  <2>1. credOf[t] \in Cred /\ credOf[t] # credential
    BY <1>1, NoneIsNoValue DEF LeaseInv, TypeOK
  <2>2. Lease!Dispose(credOf[t])
    BY <1>1, <2>1 DEF Lease!Dispose
  <2> QED
    BY <2>1, <2>2 DEF Simulated, Lease!LeaseNext
<1>2. CASE credOf[t] \notin openCreds
  BY <1>2, Kept
<1> QED
  BY <1>1, <1>2

\* Each step of a thread is a step of StoreLease, or invisible to it.
LEMMA StepSimulated ==
  ASSUME LeaseInv, UseInv, EndInv, NEW t \in Thread, Step(t)
  PROVE  Simulated
<1> USE NoneIsNoValue DEF LeaseInv, TypeOK, LocalsFit, Reading, Counted, Counting
<1>1. ASSUME NEW q \in Query, BorrowCached(t, q)
      PROVE  Simulated
  BY <1>1, Lends DEF BorrowCached, Enter, Leased
<1>2. ASSUME NEW q \in Query, BorrowNew(t, q)
      PROVE  Simulated
  BY <1>2, Lends DEF BorrowNew, Enter, NewResources
<1>3. ASSUME NEW q \in Query, CallClose(t, q)
      PROVE  Simulated
  BY <1>3, Lends DEF CallClose, Enter, Popped
<1>4. CASE PingBorrow(t)
  BY <1>4, Lends DEF PingBorrow, Enter, NewResources
<1>5. CASE CallCloseAll(t)
  <2>1. Counted' = Counted
    BY <1>5 DEF CallCloseAll
  <2>2. CASE closed
    BY <1>5, <2>1, <2>2, Kept DEF CallCloseAll
  <2>3. CASE ~closed
    <3>1. ~disposed
      BY <2>3 DEF EndInv, Disposed
    <3>2. Lease!Shutdown
      BY <1>5, <2>1, <2>3, <3>1 DEF CallCloseAll, Lease!Shutdown
    <3> QED
      BY <3>2 DEF Simulated, Lease!LeaseNext
  <2> QED
    BY <2>2, <2>3
<1>6. ASSUME NEW ok \in BOOLEAN, Refresh(t, ok)
      PROVE  Simulated
  BY <1>6, Kept DEF Refresh
<1>7. CASE BuildOk(t)
  BY <1>7, Kept DEF BuildOk
<1>8. CASE BuildFail(t)
  BY <1>8, Kept DEF BuildFail, RaiseFromLoad
<1>9. CASE LoadOk(t)
  BY <1>9, Kept DEF LoadOk
<1>10. CASE LoadFail(t)
  BY <1>10, Kept DEF LoadFail, RaiseFromLoad
<1>11. CASE AcquireFailed(t)
  BY <1>11, Kept DEF AcquireFailed
<1>12. CASE AcquireIo(t)
  BY <1>12, Kept DEF AcquireIo, ClearErrors
<1>13. CASE ReadValues(t)
  BY <1>13, Kept DEF ReadValues, Unlock
<1>14. CASE GetCredential(t)
  BY <1>14, Kept DEF GetCredential, InitLockFree
<1>15. CASE FactoryOk(t)
  <2>1. PICK c \in Cred : /\ IsFreeCred(c)
                         /\ openCreds' = openCreds \cup {c} /\ credential' = c
    BY <1>15, FreshCredIsFree DEF FactoryOk
  <2>2. Counted' = Counted /\ t \in Counted
    BY <1>15 DEF FactoryOk
  <2>3. credential = None
    BY <1>15 DEF FactoryOk, UseInv, OneCredential
  <2>4. Lease!Share(c)
    BY <1>15, <2>1, <2>2, <2>3 DEF FactoryOk, IsFreeCred, Lease!Share
  <2> QED
    BY <2>4 DEF Simulated, Lease!LeaseNext
<1>16. CASE FactoryFail(t)
  BY <1>16, Kept DEF FactoryFail, RaiseFromLoad
<1>17. CASE ForgetFailed(t)
  BY <1>17, Kept DEF ForgetFailed, Unlock, Forgotten
<1>18. CASE Unwind(t)
  BY <1>18, Kept DEF Unwind
<1>19. CASE Release(t)
  BY <1>19, Kept DEF Release, NotifyAll
<1>20. ASSUME NEW ok \in BOOLEAN, ProbeClose(t, ok)
       PROVE  Simulated
  BY <1>20, Kept DEF ProbeClose
<1>21. CASE FinishTakesCredential(t)
  <2>1. Counted' = Counted /\ Counted = {t}
    BY <1>21, OnlyOneCounts DEF FinishTakesCredential, LastMustCleanUp
  <2>2. ~closed /\ ~disposed
    BY <1>21 DEF FinishTakesCredential, LastMustCleanUp, EndInv, Disposed
  <2> QED
    BY <1>21, <2>1, <2>2, Retires DEF FinishTakesCredential, TakeCredential
<1>22. CASE FinishReturns(t)
  BY <1>22, Returns DEF FinishReturns, NotifyAll, CleanupStillDue
<1>23. CASE CloseCredential(t)
  BY <1>23, Disposes DEF CloseCredential, UseInv, OneCredential
<1>24. CASE Abandon(t)
  BY <1>24, Returns DEF Abandon, NotifyAll
<1>25. CASE AwaitReaders(t)
  BY <1>25, Kept DEF AwaitReaders, WaitFor
<1>26. CASE AwaitSleeps(t)
  BY <1>26, Kept DEF AwaitSleeps, Sleep
<1>27. CASE CloseQuery(t)
  BY <1>27, Kept DEF CloseQuery
<1>28. CASE Drain(t)
  <2>1. Counted' = {} /\ Counted = {}
    BY <1>28, NobodyCounts DEF Drain, WaitFor
  <2>2. closed /\ ~disposed
    BY <1>28 DEF Drain, EndInv, OneDrains
  <2> QED
    BY <1>28, <2>1, <2>2, Retires DEF Drain
<1>29. CASE DrainSleeps(t)
  BY <1>29, Kept DEF DrainSleeps, Sleep
<1>30. CASE DisposeCredential(t)
  BY <1>30, Disposes DEF DisposeCredential, UseInv, Over
<1>31. CASE DisposeDone(t)
  <2>1. closed /\ Counted = {} /\ credential = None /\ openCreds = {} /\ ~disposed
    BY <1>31 DEF DisposeDone, UseInv, Over, EndInv, CredHeld, OneDrains
  <2>2. Counted' = Counted
    BY <1>31 DEF DisposeDone
  <2>3. Lease!End
    BY <1>31, <2>1, <2>2 DEF DisposeDone, Lease!End
  <2> QED
    BY <2>3 DEF Simulated, Lease!LeaseNext
<1>32. ASSUME NEW r \in Res, DisposeResource(t, r)
       PROVE  Simulated
  BY <1>32, Kept DEF DisposeResource
<1>33. CASE Join(t)
  BY <1>33, Kept DEF Join, WaitFor
<1>34. CASE JoinSleeps(t)
  BY <1>34, Kept DEF JoinSleeps, Sleep
<1>35. CASE RefreshInterrupted(t)
  BY <1>35, Kept DEF RefreshInterrupted, Unlock
<1>36. CASE CloseCredentialInterrupted(t)
  BY <1>36, Disposes DEF CloseCredentialInterrupted, UseInv, OneCredential
<1>37. CASE LockInterrupted(t)
  BY <1>37, Kept DEF LockInterrupted
<1>38. CASE CredInterrupted(t)
  BY <1>38, Kept DEF CredInterrupted, RaiseFromLoad
<1>39. CASE AwaitInterrupted(t)
  BY <1>39, Kept DEF AwaitInterrupted
<1>40. CASE CloseAllInterrupted(t)
  BY <1>40, Kept DEF CloseAllInterrupted
<1> HIDE NoneIsNoValue DEF LeaseInv
<1> QED
  BY <1>1, <1>2, <1>3, <1>4, <1>5, <1>6, <1>7, <1>8, <1>9, <1>10, <1>11, <1>12,
     <1>13, <1>14, <1>15, <1>16, <1>17, <1>18, <1>19, <1>20, <1>21, <1>22,
     <1>23, <1>24, <1>25, <1>26, <1>27, <1>28, <1>29, <1>30, <1>31, <1>32,
     <1>33, <1>34, <1>35, <1>36, <1>37, <1>38, <1>39, <1>40
  DEF Step, Call, SdkStep, StoreStep, Interrupt

\* The store implements the abstract lease protocol: with any number of threads
\* and whatever fails or is interrupted, each of its steps is one of StoreLease.
THEOREM StoreImplementsLease == Spec => ImplementsLease
<1>1. Init => Lease!LeaseInit
  BY NoneIsNoValue DEF Init, Lease!LeaseInit, Counted, Counting
<1>2. LeaseInv /\ UseInv /\ EndInv /\ [Next]_vars => [Lease!LeaseNext]_(Lease!leaseState)
  <2> SUFFICES ASSUME LeaseInv, UseInv, EndInv, [Next]_vars
               PROVE  Simulated
    BY DEF Simulated
  <2>1. CASE Next
    BY <2>1, StepSimulated DEF Next, Step
  <2>2. CASE UNCHANGED vars
    BY <2>2, Kept DEF vars, Counted
  <2> QED
    BY <2>1, <2>2
<1> QED
  BY <1>1, <1>2, LeaseInvHolds, UseInvHolds, EndInvHolds, PTL
  DEF Spec, ImplementsLease, Lease!LeaseSpec
=============================================================================
