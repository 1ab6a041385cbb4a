------------------------------ MODULE AzureStore ------------------------------
(***************************************************************************)
(* AzureAppConfigurationStore (src/src/mtappconfig/azure_source.py): one   *)
(* store object shared by all threads of a web process.  Threads run       *)
(* select, ping, close(query) and close_all concurrently.  A step is one   *)
(* critical section of `_condition`, one acquisition of another lock, or   *)
(* one call into the SDK, which may fail.                                  *)
(*                                                                         *)
(* What a configuration says is not modelled here; a provider is known by  *)
(* the credential it was loaded with.  A _ProviderResources object is a    *)
(* member of Res, a DefaultAzureCredential one of Cred; a member that      *)
(* nothing refers to any more is used again for the next object.           *)
(***************************************************************************)
EXTENDS Naturals, FiniteSets

CONSTANTS
  Thread,         \* threads of the process
  Query,          \* (key filter, label filter, trim prefixes) triples
  Res,            \* _ProviderResources objects
  Cred,           \* credential objects
  None,
  InterruptIo,    \* threads in which an SDK call may raise a BaseException
  InterruptWait   \* threads in which waiting for a lock may raise one

ASSUME ThreadsFinite == IsFiniteSet(Thread)
ASSUME NoneIsNoValue == None \notin Thread \cup Query \cup Res \cup Cred
ASSUME InterruptsInThreads == InterruptIo \subseteq Thread /\ InterruptWait \subseteq Thread

VARIABLES
  \* where each thread is, and the locals of its call
  pc,
  query,     \* the query of a select that holds a lease on resOf[t]
  resOf,     \* the resources the call works on
  credOf,    \* the credential the call borrowed, or took over to close
  attempt,   \* whether the refresh of this very call failed
  \* fields of _ProviderResources
  provider,  \* the credential of the loaded provider, or None
  transport, \* a transport is open
  failed,    \* load_error is set
  errors,    \* refresh_errors is not empty
  borrowers,
  ioLock,
  \* fields of the store
  providers, credential, closed, disposed, activeOperations, cleanupWhenIdle,
  initLock,  \* _credential_init_lock
  waiting,   \* threads asleep in _condition.wait_for
  \* the world
  openCreds, \* credentials created and not closed
  doomed,    \* resources that close_all has taken over and not yet closed
  failedBusy \* an operation failed since the store was last idle, and no load
             \* has succeeded since the clean-up after it

callVars == <<pc, query, resOf, credOf, attempt>>
objectVars == <<provider, transport>>
readVars == <<failed, errors, ioLock>>
leaseVars == <<providers, borrowers, activeOperations, waiting>>
cleanupVars == <<cleanupWhenIdle, failedBusy>>
credVars == <<credential, openCreds, initLock>>
lifeVars == <<closed, disposed, doomed>>
vars == <<callVars, objectVars, readVars, leaseVars, cleanupVars, credVars, lifeVars>>

Counting == {"lock", "cred", "factory", "build", "load", "failed", "refresh",
             "read", "unwind", "release", "probeclose", "await", "qclose",
             "finish", "closecred", "abandon"}
Label == Counting \cup {"idle", "drain", "dispose", "join"}

Goto(t, label) == pc' = [pc EXCEPT ![t] = label]

NoProviders == \A q \in Query : providers[q] = None

IsFreeRes(r) == /\ r \notin doomed
                /\ \A q \in Query : providers[q] # r
                /\ \A t \in Thread : resOf[t] # r
                /\ provider[r] = None /\ ~transport[r]
FreshRes == IF \E r \in Res : IsFreeRes(r) THEN {CHOOSE r \in Res : IsFreeRes(r)} ELSE {}

IsFreeCred(c) == /\ c \notin openCreds
                 /\ c # credential
                 /\ \A t \in Thread : credOf[t] # c
                 /\ \A r \in Res : provider[r] # c
FreshCred == IF \E c \in Cred : IsFreeCred(c) THEN {CHOOSE c \in Cred : IsFreeCred(c)} ELSE {}

Init ==
  /\ pc = [t \in Thread |-> "idle"]
  /\ query = [t \in Thread |-> None]
  /\ resOf = [t \in Thread |-> None]
  /\ credOf = [t \in Thread |-> None]
  /\ attempt = [t \in Thread |-> FALSE]
  /\ provider = [r \in Res |-> None]
  /\ transport = [r \in Res |-> FALSE]
  /\ failed = [r \in Res |-> FALSE]
  /\ errors = [r \in Res |-> FALSE]
  /\ borrowers = [r \in Res |-> 0]
  /\ ioLock = [r \in Res |-> None]
  /\ providers = [q \in Query |-> None]
  /\ credential = None /\ closed = FALSE /\ disposed = FALSE
  /\ activeOperations = 0 /\ cleanupWhenIdle = FALSE
  /\ initLock = None /\ waiting = {}
  /\ openCreds = {} /\ doomed = {} /\ failedBusy = FALSE

-----------------------------------------------------------------------------
(* _borrow, entry.  On a closed store select and ping raise at once and    *)
(* change nothing, so only calls on an open store are steps.               *)

\* Mutant: the test for a closed store is forgotten.
EnterUntested == /\ activeOperations' = activeOperations + 1
                 /\ failedBusy' = (failedBusy /\ activeOperations > 0)

Enter == /\ ~closed
         /\ activeOperations' = activeOperations + 1
         /\ failedBusy' = (failedBusy /\ activeOperations > 0)

NewResources(r) ==
  /\ failed' = [failed EXCEPT ![r] = FALSE]
  /\ errors' = [errors EXCEPT ![r] = FALSE]
  /\ UNCHANGED <<objectVars, ioLock>>

\* Mutant: a reader of a cached provider takes no lease on it.
LeasedForFree(r) == borrowers

Leased(r) == [borrowers EXCEPT ![r] = @ + 1]

BorrowCached(t, q) ==
  /\ pc[t] = "idle" /\ providers[q] # None
  /\ Enter
  /\ query' = [query EXCEPT ![t] = q]
  /\ resOf' = [resOf EXCEPT ![t] = providers[q]]
  /\ borrowers' = Leased(providers[q])
  /\ Goto(t, "lock")
  /\ UNCHANGED <<credOf, attempt, objectVars, readVars, providers, waiting,
                 cleanupWhenIdle, credVars, lifeVars>>

BorrowNew(t, q) ==
  /\ pc[t] = "idle" /\ providers[q] = None
  /\ Enter
  /\ \E r \in FreshRes :
       /\ NewResources(r)
       /\ providers' = [providers EXCEPT ![q] = r]
       /\ query' = [query EXCEPT ![t] = q]
       /\ resOf' = [resOf EXCEPT ![t] = r]
       /\ borrowers' = [borrowers EXCEPT ![r] = 1]
  /\ Goto(t, "lock")
  /\ UNCHANGED <<credOf, attempt, waiting, cleanupWhenIdle, credVars, lifeVars>>

\* ping works on resources of its own, which no query ever shares.
PingBorrow(t) ==
  /\ pc[t] = "idle"
  /\ Enter
  /\ \E r \in FreshRes :
       /\ NewResources(r)
       /\ resOf' = [resOf EXCEPT ![t] = r]
       /\ borrowers' = [borrowers EXCEPT ![r] = 0]
  /\ Goto(t, "cred")
  /\ UNCHANGED <<query, credOf, attempt, providers, waiting, cleanupWhenIdle,
                 credVars, lifeVars>>

-----------------------------------------------------------------------------
(* select, under the query's io_lock.                                      *)

Unlock(r) == ioLock' = [ioLock EXCEPT ![r] = None]

\* A waiter that finds the load it waited for failed raises the same error.
AcquireFailed(t) ==
  /\ pc[t] = "lock" /\ ioLock[resOf[t]] = None /\ failed[resOf[t]]
  /\ Goto(t, "unwind")
  /\ failedBusy' = TRUE
  /\ UNCHANGED <<query, resOf, credOf, attempt, objectVars, readVars, leaseVars,
                 cleanupWhenIdle, credVars, lifeVars>>

\* Mutant: the errors of the previous read are kept.
KeepErrors(r) == UNCHANGED errors

ClearErrors(r) == errors' = [errors EXCEPT ![r] = FALSE]

AcquireIo(t) ==
  /\ pc[t] = "lock" /\ ioLock[resOf[t]] = None /\ ~failed[resOf[t]]
  /\ ioLock' = [ioLock EXCEPT ![resOf[t]] = t]
  /\ IF provider[resOf[t]] = None
       THEN Goto(t, "cred") /\ UNCHANGED errors
       ELSE Goto(t, "refresh") /\ ClearErrors(resOf[t])
  /\ UNCHANGED <<query, resOf, credOf, attempt, objectVars, failed, leaseVars,
                 cleanupVars, credVars, lifeVars>>

\* provider.refresh() succeeds, or fails by an exception or through the
\* on_refresh_error callback.
Refresh(t, ok) ==
  /\ pc[t] = "refresh"
  /\ errors' = [errors EXCEPT ![resOf[t]] = @ \/ ~ok]
  /\ attempt' = [attempt EXCEPT ![t] = ~ok]
  /\ Goto(t, "read")
  /\ UNCHANGED <<query, resOf, credOf, objectVars, failed, ioLock, leaseVars,
                 cleanupVars, credVars, lifeVars>>

RefreshInterrupted(t) ==
  /\ pc[t] = "refresh" /\ t \in InterruptIo
  /\ Unlock(resOf[t])
  /\ Goto(t, "unwind")
  /\ failedBusy' = TRUE
  /\ UNCHANGED <<query, resOf, credOf, attempt, objectVars, failed, errors,
                 leaseVars, cleanupWhenIdle, credVars, lifeVars>>

\* ConfigValues(dict(provider), refresh_errors): copies both, then unlocks.
ReadValues(t) ==
  /\ pc[t] = "read"
  /\ Unlock(resOf[t])
  /\ attempt' = [attempt EXCEPT ![t] = FALSE]
  /\ Goto(t, "release")
  /\ UNCHANGED <<query, resOf, credOf, objectVars, failed, errors, leaseVars,
                 cleanupVars, credVars, lifeVars>>

-----------------------------------------------------------------------------
(* _load_provider and _get_credential, for select and for ping.            *)

RaiseFromLoad(t) ==
  /\ Goto(t, IF query[t] = None THEN "unwind" ELSE "failed")
  /\ failedBusy' = TRUE

\* Mutant: the lock is held until the load is over.
InitLockSpansLoad == initLock = None /\ \A t \in Thread : pc[t] \notin {"build", "load"}

InitLockFree == initLock = None

GetCredential(t) ==
  /\ pc[t] = "cred" /\ InitLockFree
  /\ IF credential = None
       THEN initLock' = t /\ Goto(t, "factory") /\ UNCHANGED credOf
       ELSE credOf' = [credOf EXCEPT ![t] = credential] /\ Goto(t, "build")
            /\ UNCHANGED initLock
  /\ UNCHANGED <<query, resOf, attempt, objectVars, readVars, leaseVars,
                 cleanupVars, credential, openCreds, lifeVars>>

FactoryOk(t) ==
  /\ pc[t] = "factory"
  /\ \E c \in FreshCred :
       /\ openCreds' = openCreds \cup {c}
       /\ credential' = c
       /\ credOf' = [credOf EXCEPT ![t] = c]
  /\ initLock' = None
  /\ Goto(t, "build")
  /\ UNCHANGED <<query, resOf, attempt, objectVars, readVars, leaseVars,
                 cleanupVars, lifeVars>>

\* Also the outcome of a missing SDK, which fails before any credential exists.
FactoryFail(t) ==
  /\ pc[t] = "factory"
  /\ initLock' = None
  /\ RaiseFromLoad(t)
  /\ UNCHANGED <<query, resOf, credOf, attempt, objectVars, readVars, leaseVars,
                 cleanupWhenIdle, credential, openCreds, lifeVars>>

BuildOk(t) ==
  /\ pc[t] = "build"
  /\ transport' = [transport EXCEPT ![resOf[t]] = TRUE]
  /\ Goto(t, "load")
  /\ UNCHANGED <<query, resOf, credOf, attempt, provider, readVars, leaseVars,
                 cleanupVars, credVars, lifeVars>>

BuildFail(t) ==
  /\ pc[t] = "build"
  /\ credOf' = [credOf EXCEPT ![t] = None]
  /\ RaiseFromLoad(t)
  /\ UNCHANGED <<query, resOf, attempt, objectVars, readVars, leaseVars,
                 cleanupWhenIdle, credVars, lifeVars>>

LoadOk(t) ==
  /\ pc[t] = "load"
  /\ provider' = [provider EXCEPT ![resOf[t]] = credOf[t]]
  /\ credOf' = [credOf EXCEPT ![t] = None]
  /\ Goto(t, IF query[t] = None THEN "probeclose" ELSE "read")
  /\ failedBusy' = (failedBusy /\ cleanupWhenIdle)
  /\ UNCHANGED <<query, resOf, attempt, transport, readVars, leaseVars,
                 cleanupWhenIdle, credVars, lifeVars>>

\* The transport is closed here: load() does not return its provider.
LoadFail(t) ==
  /\ pc[t] = "load"
  /\ transport' = [transport EXCEPT ![resOf[t]] = FALSE]
  /\ credOf' = [credOf EXCEPT ![t] = None]
  /\ RaiseFromLoad(t)
  /\ UNCHANGED <<query, resOf, attempt, provider, readVars, leaseVars,
                 cleanupWhenIdle, credVars, lifeVars>>

\* Mutant: the query forgets whatever resources it has.
ForgottenAnyway(current, r) == None

\* The query forgets the failed resources, unless it has moved on to others.
Forgotten(current, r) == IF current = r THEN None ELSE current

ForgetFailed(t) ==
  /\ pc[t] = "failed"
  /\ failed' = [failed EXCEPT ![resOf[t]] = TRUE]
  /\ providers' = [providers EXCEPT ![query[t]] = Forgotten(@, resOf[t])]
  /\ Unlock(resOf[t])
  /\ Goto(t, "unwind")
  /\ UNCHANGED <<query, resOf, credOf, attempt, objectVars, errors, borrowers,
                 activeOperations, waiting, cleanupVars, credVars, lifeVars>>

\* probe.close(): provider and transport are both closed, even if one raises.
ProbeClose(t, ok) ==
  /\ pc[t] = "probeclose"
  /\ provider' = [provider EXCEPT ![resOf[t]] = None]
  /\ transport' = [transport EXCEPT ![resOf[t]] = FALSE]
  /\ Goto(t, IF ok THEN "finish" ELSE "unwind")
  /\ resOf' = [resOf EXCEPT ![t] = None]
  /\ failedBusy' = (failedBusy \/ ~ok)
  /\ UNCHANGED <<query, credOf, attempt, readVars, leaseVars, cleanupWhenIdle,
                 credVars, lifeVars>>

-----------------------------------------------------------------------------
(* _borrow, exit, and _finish_operation.                                   *)

\* Mutant: nobody is notified.
NotifyNobody == UNCHANGED waiting

NotifyAll == waiting' = {}

Unwind(t) ==
  /\ pc[t] = "unwind"
  /\ cleanupWhenIdle' = TRUE
  /\ IF query[t] = None
       THEN Goto(t, "finish") /\ resOf' = [resOf EXCEPT ![t] = None]
       ELSE Goto(t, "release") /\ UNCHANGED resOf
  /\ UNCHANGED <<query, credOf, attempt, objectVars, readVars, leaseVars,
                 failedBusy, credVars, lifeVars>>

Release(t) ==
  /\ pc[t] = "release"
  /\ borrowers' = [borrowers EXCEPT ![resOf[t]] = @ - 1]
  /\ query' = [query EXCEPT ![t] = None]
  /\ resOf' = [resOf EXCEPT ![t] = None]
  /\ NotifyAll
  /\ Goto(t, "finish")
  /\ UNCHANGED <<credOf, attempt, objectVars, readVars, providers,
                 activeOperations, cleanupVars, credVars, lifeVars>>

\* Mutant: other operations may be under way.
AnyMustCleanUp == cleanupWhenIdle /\ NoProviders /\ ~closed

\* Mutant: providers may still be cached.
LastMustCleanUpAnyway == activeOperations = 1 /\ cleanupWhenIdle /\ ~closed

LastMustCleanUp ==
  activeOperations = 1 /\ cleanupWhenIdle /\ NoProviders /\ ~closed

\* Mutant: any operation that ends resets the flag.
CleanupForgotten == FALSE

CleanupStillDue == cleanupWhenIdle /\ activeOperations # 1

\* Mutant: the flag stays set.
TakeCredentialOnly(t) ==
  /\ credOf' = [credOf EXCEPT ![t] = credential]
  /\ credential' = None
  /\ UNCHANGED cleanupWhenIdle

TakeCredential(t) ==
  /\ credOf' = [credOf EXCEPT ![t] = credential]
  /\ credential' = None
  /\ cleanupWhenIdle' = FALSE

\* The last operation takes the credential over and stays counted to close it.
FinishTakesCredential(t) ==
  /\ pc[t] = "finish" /\ LastMustCleanUp
  /\ TakeCredential(t)
  /\ Goto(t, "closecred")
  /\ UNCHANGED <<query, resOf, attempt, objectVars, readVars, leaseVars,
                 failedBusy, openCreds, initLock, lifeVars>>

FinishReturns(t) ==
  /\ pc[t] = "finish" /\ ~LastMustCleanUp
  /\ cleanupWhenIdle' = CleanupStillDue
  /\ activeOperations' = activeOperations - 1
  /\ NotifyAll
  /\ Goto(t, "idle")
  /\ UNCHANGED <<query, resOf, credOf, attempt, objectVars, readVars, providers,
                 borrowers, failedBusy, credVars, lifeVars>>

\* Back to the test: a load may have failed with a new credential meanwhile.
CloseCredential(t) ==
  /\ pc[t] = "closecred"
  /\ openCreds' = openCreds \ {credOf[t]}
  /\ credOf' = [credOf EXCEPT ![t] = None]
  /\ Goto(t, "finish")
  /\ UNCHANGED <<query, resOf, attempt, objectVars, readVars, leaseVars,
                 cleanupVars, credential, initLock, lifeVars>>

CloseCredentialInterrupted(t) ==
  /\ pc[t] = "closecred" /\ t \in InterruptIo /\ credOf[t] # None
  /\ openCreds' = openCreds \ {credOf[t]}
  /\ credOf' = [credOf EXCEPT ![t] = None]
  /\ Goto(t, "abandon")
  /\ UNCHANGED <<query, resOf, attempt, objectVars, readVars, leaseVars,
                 cleanupVars, credential, initLock, lifeVars>>

\* The interrupted thread gives its place up without testing again.
Abandon(t) ==
  /\ pc[t] = "abandon"
  /\ activeOperations' = activeOperations - 1
  /\ NotifyAll
  /\ Goto(t, "idle")
  /\ UNCHANGED <<query, resOf, credOf, attempt, objectVars, readVars, providers,
                 borrowers, cleanupVars, credVars, lifeVars>>

-----------------------------------------------------------------------------
(* close(query).  A query without a provider, like a closed store, makes   *)
(* it return at once.                                                      *)

\* Mutant: the provider stays cached until it is closed.
NotPopped(q) == providers

Popped(q) == [providers EXCEPT ![q] = None]

CallClose(t, q) ==
  /\ pc[t] = "idle" /\ providers[q] # None
  /\ Enter
  /\ resOf' = [resOf EXCEPT ![t] = providers[q]]
  /\ providers' = Popped(q)
  /\ Goto(t, "await")
  /\ UNCHANGED <<query, credOf, attempt, objectVars, readVars, borrowers,
                 waiting, cleanupWhenIdle, credVars, lifeVars>>

\* Mutant: a plain wait, which does not test its condition again.
WaitOnce(t, condition) == t \notin waiting

\* _condition.wait_for(condition): go on, or sleep until notified.
WaitFor(t, condition) == t \notin waiting /\ condition
Sleep(t, condition) == t \notin waiting /\ ~condition /\ waiting' = waiting \cup {t}

AwaitReaders(t) ==
  /\ pc[t] = "await" /\ WaitFor(t, borrowers[resOf[t]] = 0)
  /\ Goto(t, "qclose")
  /\ UNCHANGED <<query, resOf, credOf, attempt, objectVars, readVars, leaseVars,
                 cleanupVars, credVars, lifeVars>>

AwaitSleeps(t) ==
  /\ pc[t] = "await" /\ Sleep(t, borrowers[resOf[t]] = 0)
  /\ UNCHANGED <<callVars, objectVars, readVars, providers, borrowers,
                 activeOperations, cleanupVars, credVars, lifeVars>>

\* Whether or not a close raises, both are closed and the call unwinds here.
CloseQuery(t) ==
  /\ pc[t] = "qclose"
  /\ provider' = [provider EXCEPT ![resOf[t]] = None]
  /\ transport' = [transport EXCEPT ![resOf[t]] = FALSE]
  /\ resOf' = [resOf EXCEPT ![t] = None]
  /\ Goto(t, "finish")
  /\ UNCHANGED <<query, credOf, attempt, readVars, leaseVars, cleanupVars,
                 credVars, lifeVars>>

-----------------------------------------------------------------------------
(* close_all, the end of the store's lifetime.                             *)

CallCloseAll(t) ==
  /\ pc[t] = "idle"
  /\ Goto(t, IF closed THEN "join" ELSE "drain")
  /\ closed' = TRUE
  /\ UNCHANGED <<query, resOf, credOf, attempt, objectVars, readVars, leaseVars,
                 cleanupVars, credVars, disposed, doomed>>

Drain(t) ==
  /\ pc[t] = "drain" /\ WaitFor(t, activeOperations = 0)
  /\ doomed' = {providers[q] : q \in Query} \ {None}
  /\ providers' = [q \in Query |-> None]
  /\ credOf' = [credOf EXCEPT ![t] = credential]
  /\ credential' = None
  /\ Goto(t, "dispose")
  /\ UNCHANGED <<query, resOf, attempt, objectVars, readVars, borrowers,
                 activeOperations, waiting, cleanupVars, openCreds, initLock,
                 closed, disposed>>

DrainSleeps(t) ==
  /\ pc[t] = "drain" /\ Sleep(t, activeOperations = 0)
  /\ UNCHANGED <<callVars, objectVars, readVars, providers, borrowers,
                 activeOperations, cleanupVars, credVars, lifeVars>>

DisposeResource(t, r) ==
  /\ pc[t] = "dispose" /\ r \in doomed
  /\ doomed' = doomed \ {r}
  /\ provider' = [provider EXCEPT ![r] = None]
  /\ transport' = [transport EXCEPT ![r] = FALSE]
  /\ UNCHANGED <<callVars, readVars, leaseVars, cleanupVars, credVars, closed,
                 disposed>>

\* The exit stack closes the credential last.
DisposeCredential(t) ==
  /\ pc[t] = "dispose" /\ doomed = {} /\ credOf[t] # None
  /\ openCreds' = openCreds \ {credOf[t]}
  /\ credOf' = [credOf EXCEPT ![t] = None]
  /\ UNCHANGED <<pc, query, resOf, attempt, objectVars, readVars, leaseVars,
                 cleanupVars, credential, initLock, lifeVars>>

DisposeDone(t) ==
  /\ pc[t] = "dispose" /\ doomed = {} /\ credOf[t] = None
  /\ disposed' = TRUE
  /\ NotifyAll
  /\ Goto(t, "idle")
  /\ UNCHANGED <<query, resOf, credOf, attempt, objectVars, readVars, providers,
                 borrowers, activeOperations, cleanupVars, credVars, closed, doomed>>

Join(t) ==
  /\ pc[t] = "join" /\ WaitFor(t, disposed)
  /\ Goto(t, "idle")
  /\ UNCHANGED <<query, resOf, credOf, attempt, objectVars, readVars, leaseVars,
                 cleanupVars, credVars, lifeVars>>

JoinSleeps(t) ==
  /\ pc[t] = "join" /\ Sleep(t, disposed)
  /\ UNCHANGED <<callVars, objectVars, readVars, providers, borrowers,
                 activeOperations, cleanupVars, credVars, lifeVars>>

-----------------------------------------------------------------------------
(* A BaseException, such as KeyboardInterrupt, while a thread waits.       *)

LockInterrupted(t) ==
  /\ pc[t] = "lock" /\ t \in InterruptWait
  /\ Goto(t, "unwind")
  /\ failedBusy' = TRUE
  /\ UNCHANGED <<query, resOf, credOf, attempt, objectVars, readVars, leaseVars,
                 cleanupWhenIdle, credVars, lifeVars>>

CredInterrupted(t) ==
  /\ pc[t] = "cred" /\ t \in InterruptWait
  /\ RaiseFromLoad(t)
  /\ UNCHANGED <<query, resOf, credOf, attempt, objectVars, readVars, leaseVars,
                 cleanupWhenIdle, credVars, lifeVars>>

\* close(query) loses its only reference to the resources it has popped.
AwaitInterrupted(t) ==
  /\ pc[t] = "await" /\ t \in InterruptWait
  /\ waiting' = waiting \ {t}
  /\ resOf' = [resOf EXCEPT ![t] = None]
  /\ Goto(t, "finish")
  /\ UNCHANGED <<query, credOf, attempt, objectVars, readVars, providers,
                 borrowers, activeOperations, cleanupVars, credVars, lifeVars>>

CloseAllInterrupted(t) ==
  /\ pc[t] \in {"drain", "join"} /\ t \in InterruptWait
  /\ waiting' = waiting \ {t}
  /\ Goto(t, "idle")
  /\ UNCHANGED <<query, resOf, credOf, attempt, objectVars, readVars, providers,
                 borrowers, activeOperations, cleanupVars, credVars, lifeVars>>

-----------------------------------------------------------------------------
\* The calls a caller may make, and the steps of a call that is under way.
Call(t) ==
  \/ \E q \in Query : BorrowCached(t, q) \/ BorrowNew(t, q) \/ CallClose(t, q)
  \/ PingBorrow(t)
  \/ CallCloseAll(t)

\* Network I/O of a load or a refresh.
SdkStep(t) ==
  \/ \E ok \in BOOLEAN : Refresh(t, ok)
  \/ BuildOk(t) \/ BuildFail(t) \/ LoadOk(t) \/ LoadFail(t)

StoreStep(t) ==
  \/ AcquireFailed(t) \/ AcquireIo(t) \/ ReadValues(t)
  \/ GetCredential(t) \/ FactoryOk(t) \/ FactoryFail(t)
  \/ ForgetFailed(t) \/ Unwind(t) \/ Release(t)
  \/ \E ok \in BOOLEAN : ProbeClose(t, ok)
  \/ FinishTakesCredential(t) \/ FinishReturns(t) \/ CloseCredential(t) \/ Abandon(t)
  \/ AwaitReaders(t) \/ AwaitSleeps(t) \/ CloseQuery(t)
  \/ Drain(t) \/ DrainSleeps(t) \/ DisposeCredential(t) \/ DisposeDone(t)
  \/ \E r \in Res : DisposeResource(t, r)
  \/ Join(t) \/ JoinSleeps(t)

Interrupt(t) ==
  \/ RefreshInterrupted(t) \/ CloseCredentialInterrupted(t)
  \/ LockInterrupted(t) \/ CredInterrupted(t)
  \/ AwaitInterrupted(t) \/ CloseAllInterrupted(t)

Next == \E t \in Thread : Call(t) \/ SdkStep(t) \/ StoreStep(t) \/ Interrupt(t)

Spec == Init /\ [][Next]_vars

-----------------------------------------------------------------------------
(* Properties.                                                             *)

\* Every variable has the type its field or local has in the code.
TypeOK ==
  /\ pc \in [Thread -> Label]
  /\ query \in [Thread -> Query \cup {None}]
  /\ resOf \in [Thread -> Res \cup {None}]
  /\ credOf \in [Thread -> Cred \cup {None}]
  /\ attempt \in [Thread -> BOOLEAN]
  /\ provider \in [Res -> Cred \cup {None}]
  /\ transport \in [Res -> BOOLEAN]
  /\ failed \in [Res -> BOOLEAN]
  /\ errors \in [Res -> BOOLEAN]
  /\ borrowers \in [Res -> Nat]
  /\ ioLock \in [Res -> Thread \cup {None}]
  /\ providers \in [Query -> Res \cup {None}]
  /\ credential \in Cred \cup {None}
  /\ closed \in BOOLEAN /\ disposed \in BOOLEAN
  /\ activeOperations \in Nat /\ cleanupWhenIdle \in BOOLEAN
  /\ initLock \in Thread \cup {None} /\ waiting \subseteq Thread
  /\ openCreds \subseteq Cred /\ doomed \subseteq Res /\ failedBusy \in BOOLEAN

Counted == {t \in Thread : pc[t] \in Counting}
Borrowers(r) == {t \in Thread : query[t] # None /\ resOf[t] = r}

\* The counters that decide when something may be closed are exact on every
\* path through _borrow, close and _finish_operation: the store counts the
\* operations that are under way, each resources object its readers.
LeasesExact ==
  /\ activeOperations = Cardinality(Counted)
  /\ \A r \in Res : borrowers[r] = Cardinality(Borrowers(r))

\* No thread works with anything another thread has closed: a credential
\* being used to load is open, a provider being refreshed or read is loaded
\* with an open credential, and the transport of a load under way is open.
NoUseAfterClose ==
  \A t \in Thread :
    /\ pc[t] \in {"build", "load"} => credOf[t] \in openCreds
    /\ pc[t] = "load" => transport[resOf[t]]
    /\ pc[t] \in {"refresh", "read"} =>
         provider[resOf[t]] \in openCreds /\ transport[resOf[t]]

Held(r) == \/ r \in doomed
           \/ \E q \in Query : providers[q] = r
           \/ \E t \in Thread : resOf[t] = r

\* Whatever is open can still be reached by something that will close it: a
\* credential by the store or by the thread that took it over, a provider or a
\* transport by a query, by a call under way or by close_all.
NoLeak ==
  /\ \A c \in openCreds : c = credential \/ \E t \in Thread : credOf[t] = c
  /\ \A r \in Res : provider[r] # None \/ transport[r] => Held(r)

\* Values are reported with the refresh failure of the read that returns them,
\* and with no failure of an earlier or a concurrent read of the same provider.
ReportsOwnAttempt ==
  \A t \in Thread : pc[t] = "read" => errors[resOf[t]] = attempt[t]

\* When the store falls idle after an operation failed, with no provider cached
\* and no load that succeeded after the clean-up, no credential is left open,
\* even if a load failed with a new one while the old one was being closed.
FailureLeavesNoCredential ==
  activeOperations = 0 /\ ~closed /\ NoProviders /\ failedBusy => openCreds = {}

\* close_all returns, to its first caller or to any other, only when every
\* provider, transport and credential of the store is closed.
CloseAllReleasesAll ==
  [][\A t \in Thread :
       pc[t] \in {"dispose", "join"} /\ pc'[t] = "idle" =>
         /\ openCreds' = {} /\ doomed' = {} /\ Counted' = {}
         /\ \A r \in Res : provider'[r] = None /\ ~transport'[r]]_vars

-----------------------------------------------------------------------------
(* The store implements StoreLease.                                        *)

Lease == INSTANCE StoreLease WITH
  Holder <- Thread, Secret <- Cred, NoSecret <- None,
  lifetime <- IF disposed THEN "ended" ELSE IF closed THEN "closing" ELSE "open",
  leases <- Counted,
  shared <- credential,
  retired <- openCreds \ {credential}

\* The store lends, retires and disposes only as StoreLease allows.
ImplementsLease == Lease!LeaseSpec

-----------------------------------------------------------------------------
(* Liveness.  A thread that is inside a call keeps running: SDK calls and  *)
(* the credential factory return, by a result or an error, because each    *)
(* has a timeout or a retry budget.  Only the network I/O of a select may  *)
(* hang, unless SelectsReturn.  Nothing makes a caller call.               *)

Fairness ==
  \A t \in Thread : WF_vars(StoreStep(t)) /\ WF_vars(query[t] = None /\ SdkStep(t))
FairSpec == Spec /\ Fairness

SelectsReturn == \A t \in Thread : WF_vars(query[t] # None /\ SdkStep(t))

\* Every close_all returns, the first and any later one, on every thread.
CloseAllReturns ==
  SelectsReturn =>
    \A t \in Thread : pc[t] \in {"drain", "dispose", "join"} ~> pc[t] = "idle"

\* close(query) is never starved by readers: it stops waiting for them however
\* many selects of the same query keep arriving.
CloseIsNotStarved ==
  SelectsReturn => \A t \in Thread : pc[t] = "await" ~> pc[t] = "finish"

FailureStep == \E t \in Thread : pc[t] # "unwind" /\ pc'[t] = "unwind"

\* An operation that has done its work returns, if failures of other
\* operations do not go on for ever: each can send the last one back to close
\* another credential.
FinishReturnsAtLast ==
  SelectsReturn /\ <>[][~FailureStep]_vars =>
    \A t \in Thread : pc[t] \in {"finish", "closecred"} ~> pc[t] = "idle"

\* A close_all that finds the store closed already is harmless: it returns, on
\* a thread that nothing interrupts (azure_source.py, close_all's docstring).
RepeatedCloseAllIsHarmless ==
  SelectsReturn => \A t \in Thread \ InterruptWait : pc[t] = "join" ~> pc[t] = "idle"

Probing(t) == query[t] = None /\ pc[t] \in {"cred", "factory", "build", "load", "probeclose"}

\* ping gets its answer while the I/O of every select hangs.
PingIsIndependent ==
  <>[][~FailureStep]_vars =>
    \A t \in Thread : Probing(t) ~> ~Probing(t)
=============================================================================
