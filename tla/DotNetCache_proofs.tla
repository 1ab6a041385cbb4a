------------------------- MODULE DotNetCache_proofs -------------------------
(***************************************************************************)
(* For any threads, tenants and bounds, whatever fails: callers of Get     *)
(* hold the configuration that refreshes reach, and a refresh that says    *)
(* true has brought what a touched sentinel stands for.                    *)
(***************************************************************************)
EXTENDS DotNetCache, TLAPS

-----------------------------------------------------------------------------
(* The inductive invariant.                                                *)

\* A thread inside a call asks for a tenant and holds no configuration yet; it
\* loads a tenant that has no entry, and refreshes one that has.
CallsFit ==
  \A t \in Thread : pc[t] # "idle" =>
    /\ tenant[t] \in Tenant /\ config[t] = None
    /\ entries[tenant[t]] = None <=> pc[t] \in {"shared", "own"}

\* What was read of the shared settings is a version of them.
ReadsFit == \A t \in Thread : pc[t] \in {"own", "reown"} => shared[t] \in Version

HeldInv == TypeOK /\ CallsFit /\ ReadsFit /\ HeldIsRefreshed

-----------------------------------------------------------------------------
USE DEF Goto, serviceVars, localVars, Version

LEMMA Initially == Init => HeldInv
BY BoundsArePositive, NoneIsNoValue
DEF Init, HeldInv, TypeOK, CallsFit, ReadsFit, HeldIsRefreshed, Query, Entry

\* The store changes no entry and no call.
LEMMA WorldStep ==
  ASSUME HeldInv, Tick \/ (\E q \in Query : Change(q)) \/ (\E n \in Tenant : Touch(n))
  PROVE  HeldInv'
<1> USE BoundsArePositive DEF HeldInv, TypeOK, Entry, Query
<1>1. CASE Tick
  BY <1>1 DEF Tick, CallsFit, ReadsFit, HeldIsRefreshed
<1>2. CASE \E q \in Query : Change(q)
  BY <1>2 DEF Change, CallsFit, ReadsFit, HeldIsRefreshed
<1>3. CASE \E n \in Tenant : Touch(n)
  BY <1>3 DEF Touch, CallsFit, ReadsFit, HeldIsRefreshed
<1> QED
  BY <1>1, <1>2, <1>3

\* A call begins: it holds no configuration, or the one that is cached.
LEMMA CallStep ==
  ASSUME HeldInv, NEW t \in Thread, NEW n \in Tenant,
         (\E kind \in {"get", "refresh"} : Cold(t, n, kind)) \/ GetCached(t, n)
           \/ RefreshCached(t, n)
  PROVE  HeldInv'
<1> USE NoneIsNoValue DEF HeldInv, TypeOK, Entry, Reading
<1>1. CASE \E kind \in {"get", "refresh"} : Cold(t, n, kind)
  BY <1>1 DEF Cold, Enter, LockFree, CallsFit, ReadsFit, HeldIsRefreshed
<1>2. CASE GetCached(t, n)
  BY <1>2 DEF GetCached, LockFree, CallsFit, ReadsFit, HeldIsRefreshed
<1>3. CASE RefreshCached(t, n)
  BY <1>3 DEF RefreshCached, Enter, LockFree, CallsFit, ReadsFit, HeldIsRefreshed
<1> QED
  BY <1>1, <1>2, <1>3

\* A load that ends is the only one under way, and nobody holds a configuration
\* of a tenant that had no entry.
LEMMA LoadStep ==
  ASSUME HeldInv, NEW t \in Thread, ReadShared(t) \/ ReadOwn(t) \/ LoadFails(t)
  PROVE  HeldInv'
<1> USE BoundsArePositive, NoneIsNoValue DEF HeldInv, TypeOK, Entry, Reading
<1>1. CASE ReadShared(t)
  BY <1>1 DEF ReadShared, Query, CallsFit, ReadsFit, HeldIsRefreshed
<1>2. CASE ReadOwn(t)
  <2> USE <1>2 DEF ReadOwn, Returns, Provider
  <2>1. tenant[t] \in Tenant /\ entries[tenant[t]] = None /\ shared[t] \in Version
    BY DEF CallsFit, ReadsFit
  <2>2. Provider(t, built + 1) \in Entry'
    BY <2>1 DEF Query
  <2>3. TypeOK'
    BY <2>1, <2>2
  <2>4. CallsFit' /\ ReadsFit'
    BY <2>1, <2>2 DEF CallsFit, ReadsFit
  <2>5. HeldIsRefreshed'
    BY <2>1, <2>2 DEF CallsFit, HeldIsRefreshed
  <2> QED
    BY <2>3, <2>4, <2>5
<1>3. CASE LoadFails(t)
  BY <1>3 DEF LoadFails, Returns, CallsFit, ReadsFit, HeldIsRefreshed
<1> QED
  BY <1>1, <1>2, <1>3

\* A refresh leaves each tenant the configuration that it has.
LEMMA RefreshStep ==
  ASSUME HeldInv, NEW t \in Thread,
         Skip(t) \/ Unchanged(t) \/ Reload(t) \/ Reloaded(t) \/ RefreshFails(t)
  PROVE  HeldInv'
<1> USE BoundsArePositive, NoneIsNoValue DEF HeldInv, TypeOK, Entry, Reading, Returns
<1>1. CASE Skip(t)
  BY <1>1 DEF Skip, CallsFit, ReadsFit, HeldIsRefreshed
<1>2. CASE Unchanged(t)
  BY <1>2 DEF Unchanged, CallsFit, ReadsFit, HeldIsRefreshed
<1>3. CASE Reload(t)
  BY <1>3 DEF Reload, Everything, CallsFit, ReadsFit, HeldIsRefreshed
<1>4. CASE Reloaded(t)
  BY <1>4 DEF Reloaded, Provider, Query, CallsFit, ReadsFit, HeldIsRefreshed
<1>5. CASE RefreshFails(t)
  BY <1>5 DEF RefreshFails, CallsFit, ReadsFit, HeldIsRefreshed
<1> QED
  BY <1>1, <1>2, <1>3, <1>4, <1>5

LEMMA Inductive == HeldInv /\ [Next]_vars => HeldInv'
<1> SUFFICES ASSUME HeldInv, [Next]_vars PROVE HeldInv'
  OBVIOUS
<1>1. CASE UNCHANGED vars
  BY <1>1 DEF vars, HeldInv, TypeOK, Entry, CallsFit, ReadsFit, HeldIsRefreshed
<1>2. CASE Next
  BY <1>2, WorldStep, CallStep, LoadStep, RefreshStep DEF Next, Step
<1> QED
  BY <1>1, <1>2

LEMMA Invariant == Spec => []HeldInv
BY Initially, Inductive, PTL DEF Spec

\* Every field and local keeps its type, and the lock is held by the one thread
\* that loads (TenantConfigurationCache.cs).
THEOREM TypeCorrect == Spec => []TypeOK
<1>1. HeldInv => TypeOK
  BY DEF HeldInv
<1> QED
  BY <1>1, Invariant, PTL

\* However many threads ask for a tenant at once, and whatever fails, each holds
\* the one configuration of the tenant that every refresh reaches.
THEOREM HeldConfigurationsAreRefreshed == Spec => []HeldIsRefreshed
<1>1. HeldInv => HeldIsRefreshed
  BY DEF HeldInv
<1> QED
  BY <1>1, Invariant, PTL

-----------------------------------------------------------------------------
(* A refresh that says true has brought what was there when the sentinel   *)
(* was touched.                                                            *)

\* What a touched sentinel obliges a refresh to bring was in the store by then.
OwedFits ==
  /\ owed \in [Tenant -> [since : Nat, shared : Version, own : Version] \cup {None}]
  /\ \A n \in Tenant : owed[n] # None =>
       owed[n].since <= now /\ owed[n].shared <= version[Shared] /\ owed[n].own <= version[n]

\* No refresh is put off by more than the interval, and no entry has seen a
\* sentinel that has not been.
EntriesFit ==
  \A n \in Tenant : entries[n] # None =>
    entries[n].due <= now + Interval /\ entries[n].seen <= sentinel[n]

\* Whoever reads for a tenant began after its sentinel was touched.
ReadsPayOff ==
  \A t \in Thread : pc[t] \in {"own", "reown"} /\ owed[tenant[t]] # None =>
    shared[t] >= owed[tenant[t]].shared

Paid(n) == entries[n].shared >= owed[n].shared /\ entries[n].own >= owed[n].own

\* An entry has what it owes once it has seen the touched sentinel, or once its
\* refresh is put off beyond what it was at that time.
SeenIsPaid ==
  \A n \in Tenant : entries[n] # None /\ owed[n] # None =>
    ((entries[n].seen = sentinel[n] \/ entries[n].due > owed[n].since + Interval) => Paid(n))

TimesFit == \A t \in Thread : at[t] <= now

OwedInv == OwedFits /\ EntriesFit /\ ReadsPayOff /\ SeenIsPaid /\ TimesFit

LEMMA OwedInitially == Init => OwedInv
BY BoundsArePositive DEF Init, OwedInv, OwedFits, EntriesFit, ReadsPayOff, SeenIsPaid, TimesFit

\* A touched sentinel has not been seen, and what reads at that time owes nothing.
LEMMA OwedWorldStep ==
  ASSUME HeldInv, OwedInv,
         Tick \/ (\E q \in Query : Change(q)) \/ (\E n \in Tenant : Touch(n))
  PROVE  OwedInv'
<1> USE BoundsArePositive DEF HeldInv, TypeOK, Entry, Query, OwedInv
<1>1. CASE Tick
  BY <1>1 DEF Tick, OwedFits, EntriesFit, ReadsPayOff, SeenIsPaid, Paid, TimesFit
<1>2. CASE \E q \in Query : Change(q)
  BY <1>2 DEF Change, OwedFits, EntriesFit, ReadsPayOff, SeenIsPaid, Paid, TimesFit
<1>3. ASSUME NEW n \in Tenant, Touch(n)
      PROVE  OwedInv'
  <2> USE <1>3 DEF Touch
  <2>1. OwedFits' /\ EntriesFit' /\ TimesFit'
    BY DEF OwedFits, EntriesFit, TimesFit
  <2>2. ReadsPayOff'
    BY DEF ReadsPayOff, BeingRead, Reading, CallsFit
  <2>3. SeenIsPaid'
    BY DEF SeenIsPaid, EntriesFit, Paid
  <2> QED
    BY <2>1, <2>2, <2>3
<1> QED
  BY <1>1, <1>2, <1>3

\* The beginning of a call reads nothing.
LEMMA OwedCallStep ==
  ASSUME HeldInv, OwedInv, NEW t \in Thread, NEW n \in Tenant,
         (\E kind \in {"get", "refresh"} : Cold(t, n, kind)) \/ GetCached(t, n)
           \/ RefreshCached(t, n)
  PROVE  OwedInv'
<1> USE BoundsArePositive DEF HeldInv, TypeOK, OwedInv
<1>1. UNCHANGED <<now, version, sentinel, entries, owed, shared>>
  BY DEF Cold, GetCached, RefreshCached, Enter
<1>2. \A s \in Thread : pc'[s] \in {"own", "reown"} => pc[s] = pc'[s] /\ tenant'[s] = tenant[s]
  BY DEF Cold, GetCached, RefreshCached, Enter
<1>3. \A s \in Thread : at'[s] \in {at[s], now}
  BY DEF Cold, GetCached, RefreshCached, Enter
<1>4. OwedFits' /\ EntriesFit' /\ SeenIsPaid' /\ TimesFit'
  BY <1>1, <1>3 DEF OwedFits, EntriesFit, SeenIsPaid, Paid, TimesFit
<1>5. ReadsPayOff'
  BY <1>1, <1>2 DEF ReadsPayOff
<1> QED
  BY <1>4, <1>5

\* What was read since the sentinel was touched is what is owed, or newer.
LEMMA OwedReadStep ==
  ASSUME HeldInv, OwedInv, NEW t \in Thread,
         ReadShared(t) \/ ReadOwn(t) \/ Reloaded(t)
  PROVE  OwedInv'
<1> USE BoundsArePositive, NoneIsNoValue DEF HeldInv, TypeOK, Entry, Query, OwedInv
<1>1. CASE ReadShared(t)
  <2> USE <1>1 DEF ReadShared
  <2>1. tenant[t] \in Tenant
    BY DEF CallsFit
  <2>2. ReadsPayOff'
    BY <2>1 DEF ReadsPayOff, OwedFits
  <2> QED
    BY <2>2 DEF OwedFits, EntriesFit, SeenIsPaid, Paid, TimesFit
<1>2. CASE ReadOwn(t) \/ Reloaded(t)
  <2>1. PICK id : entries' = [entries EXCEPT ![tenant[t]] = Provider(t, id)]
    BY <1>2 DEF ReadOwn, Reloaded
  <2>2. /\ UNCHANGED <<now, version, sentinel, owed>>
        /\ pc' = [pc EXCEPT ![t] = "idle"] /\ at' = [at EXCEPT ![t] = 0]
        /\ shared' = [shared EXCEPT ![t] = 0]
        /\ \A s \in Thread \ {t} : tenant'[s] = tenant[s]
    BY <1>2 DEF ReadOwn, Reloaded, Returns
  <2>3. tenant[t] \in Tenant /\ pc[t] \in {"own", "reown"}
    BY <1>2 DEF CallsFit, ReadOwn, Reloaded
  <2>4. OwedFits' /\ TimesFit'
    BY <2>2 DEF OwedFits, TimesFit
  <2>5. EntriesFit'
    BY <2>1, <2>2, <2>3 DEF EntriesFit, Provider
  <2>6. ReadsPayOff'
    BY <2>2 DEF ReadsPayOff
  <2>7. SeenIsPaid'
    BY <2>1, <2>2, <2>3 DEF SeenIsPaid, Paid, Provider, ReadsPayOff, OwedFits
  <2> QED
    BY <2>4, <2>5, <2>6, <2>7
<1> QED
  BY <1>1, <1>2

\* An entry whose refresh is put off has seen the sentinel, or owes nothing any more.
LEMMA OwedRefreshStep ==
  ASSUME HeldInv, OwedInv, NEW t \in Thread,
         LoadFails(t) \/ Skip(t) \/ Unchanged(t) \/ Reload(t) \/ RefreshFails(t)
  PROVE  OwedInv'
<1> USE BoundsArePositive, NoneIsNoValue DEF HeldInv, TypeOK, Entry, Reading, OwedInv
<1>1. /\ UNCHANGED <<now, version, sentinel>>
      /\ \A s \in Thread : at'[s] \in {at[s], 0}
      /\ \A s \in Thread : pc'[s] \in {"own", "reown"} =>
           pc'[s] = pc[s] /\ shared'[s] = shared[s] /\ tenant'[s] = tenant[s]
  BY DEF LoadFails, Skip, Unchanged, Reload, Everything, RefreshFails, Returns
<1>2. tenant[t] \in Tenant
  BY DEF CallsFit, LoadFails, Skip, Unchanged, Reload, RefreshFails
<1>3. CASE LoadFails(t) \/ Skip(t) \/ Reload(t)
  <2>1. UNCHANGED <<entries, owed>>
    BY <1>3 DEF LoadFails, Skip, Reload
  <2> QED
    BY <1>1, <2>1 DEF OwedFits, EntriesFit, ReadsPayOff, SeenIsPaid, Paid, TimesFit
<1>4. CASE Unchanged(t)
  BY <1>1, <1>2, <1>4
  DEF Unchanged, CallsFit, OwedFits, EntriesFit, ReadsPayOff, SeenIsPaid, Paid, TimesFit
<1>5. CASE RefreshFails(t)
  <2> USE <1>5 DEF RefreshFails
  <2>1. OwedFits' /\ TimesFit' /\ ReadsPayOff'
    BY <1>1, <1>2 DEF OwedFits, TimesFit, ReadsPayOff
  <2>2. EntriesFit'
    BY <1>1, <1>2 DEF EntriesFit, CallsFit
  <2>3. \A n \in Tenant : owed'[n] # None => entries'[n] = entries[n] /\ owed'[n] = owed[n]
    <3>1. PICK due : entries' = [entries EXCEPT ![tenant[t]].due = due]
      OBVIOUS
    <3> QED
      BY <1>2, <3>1 DEF OwedFits
  <2>4. SeenIsPaid'
    BY <1>1, <2>3 DEF SeenIsPaid, Paid
  <2> QED
    BY <2>1, <2>2, <2>4
<1> QED
  BY <1>3, <1>4, <1>5

LEMMA OwedInductive == HeldInv /\ OwedInv /\ [Next]_vars => OwedInv'
<1> SUFFICES ASSUME HeldInv, OwedInv, [Next]_vars PROVE OwedInv'
  OBVIOUS
<1>1. CASE UNCHANGED vars
  BY <1>1 DEF vars, OwedInv, OwedFits, EntriesFit, ReadsPayOff, SeenIsPaid, Paid, TimesFit
<1>2. CASE Next
  BY <1>2, OwedWorldStep, OwedCallStep, OwedReadStep, OwedRefreshStep DEF Next, Step
<1> QED
  BY <1>1, <1>2

\* Once the sentinel of a tenant is touched, a refresh the interval later that
\* says true, no other being under way, has brought all that was there by then.
THEOREM RefreshesBringUpToDate == Spec => RefreshBringsUpToDate
<1> DEFINE Brought ==
      \A t \in Thread, n \in Tenant :
        (/\ pc[t] # "idle" /\ tenant[t] = n /\ pc'[t] = "idle" /\ result'[t] = "true"
         /\ owed[n] # None /\ ~Busy(n)'
         /\ at[t] >= owed[n].since + Interval)
        => /\ entries'[n].shared >= owed[n].shared
           /\ entries'[n].own >= owed[n].own
<1>1. HeldInv /\ OwedInv /\ [Next]_vars => Brought
  <2> SUFFICES ASSUME HeldInv, OwedInv, [Next]_vars, NEW t \in Thread, NEW n \in Tenant,
                      pc[t] # "idle", tenant[t] = n, pc'[t] = "idle", result'[t] = "true",
                      owed[n] # None, ~Busy(n)', at[t] >= owed[n].since + Interval
               PROVE  entries'[n].shared >= owed[n].shared /\ entries'[n].own >= owed[n].own
    OBVIOUS
  <2> USE BoundsArePositive, NoneIsNoValue DEF HeldInv, TypeOK, Entry, OwedInv
  <2>1. ReadOwn(t) \/ Skip(t) \/ Unchanged(t) \/ Reloaded(t)
    <3>1. pc'[t] # pc[t]
      OBVIOUS
    <3>2. PICK s \in Thread : Step(s)
      BY <3>1 DEF Next, Tick, Change, Touch, vars
    <3>3. s = t
      BY <3>1, <3>2 DEF Step, Cold, GetCached, RefreshCached, ReadShared, ReadOwn, LoadFails, Skip,
                        Unchanged, Reload, Reloaded, RefreshFails, Returns
    <3>4. ~(\E m \in Tenant : \/ \E kind \in {"get", "refresh"} : Cold(t, m, kind)
                             \/ GetCached(t, m) \/ RefreshCached(t, m))
      BY DEF Cold, GetCached, RefreshCached, Enter
    <3>5. ~ReadShared(t) /\ ~Reload(t)
      BY DEF ReadShared, Reload, Everything
    <3>6. ~LoadFails(t) /\ ~RefreshFails(t)
      BY NoneIsNoValue DEF LoadFails, RefreshFails, Returns
    <3> QED
      BY <3>2, <3>3, <3>4, <3>5, <3>6 DEF Step
  <2>2. CASE ReadOwn(t) \/ Reloaded(t)
    BY <2>2 DEF ReadOwn, Reloaded, Provider, ReadsPayOff, OwedFits, Query
  <2>3. CASE Skip(t)
    <3>1. entries' = entries /\ ~Busy(n) /\ now < entries[n].due
      BY <2>3 DEF Skip, Returns, Idle, Busy
    <3> QED
      BY <2>3, <3>1 DEF SeenIsPaid, Paid, TimesFit, CallsFit, OwedFits, Skip
  <2>4. CASE Unchanged(t)
    BY <2>4 DEF Unchanged, SeenIsPaid, Paid, CallsFit, OwedFits
  <2> QED
    BY <2>1, <2>2, <2>3, <2>4
<1>2. Spec => []OwedInv
  BY Invariant, OwedInitially, OwedInductive, PTL DEF Spec
<1> QED
  BY <1>1, <1>2, Invariant, PTL DEF Spec, RefreshBringsUpToDate
=============================================================================
