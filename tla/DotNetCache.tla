----------------------------- MODULE DotNetCache -----------------------------
(***************************************************************************)
(* TenantConfigurationCache of samples/05-dotnet-cache-refresh with the    *)
(* provider that AzureConfigurationRefresher.Load builds for each tenant:  *)
(* Get and the cold path of RefreshAsync load under one lock; a refresh of *)
(* a cached tenant runs outside it.  The provider reads the shared         *)
(* settings, then the tenant's own with the sentinel among them, and reads *)
(* them all again when the sentinel it watches has changed.                *)
(***************************************************************************)
EXTENDS Naturals

CONSTANTS
  Thread, Tenant, Shared, None,
  Changing,              \* settings that change, among Tenant and Shared
  Interval,              \* SetRefreshInterval
  MaxTime, MaxVersion    \* bounds for TLC

ASSUME BoundsArePositive == MaxTime \in Nat /\ MaxVersion \in Nat \ {0} /\ Interval \in Nat
ASSUME SharedIsNoTenant == Shared \notin Tenant
ASSUME NoneIsNoValue ==
  /\ None \notin Tenant \cup Thread \cup
                  [config : Nat, shared : Nat, own : Nat, seen : Nat, due : Nat]
  /\ None # "true"

VARIABLES
  now,
  version,   \* of the settings of each tenant and of the shared ones
  sentinel,  \* of each tenant
  entries,   \* _entries: configuration and refresher of each tenant, or None
  built,     \* number of configurations built
  lock,
  pc, call, tenant, at, shared,   \* locals of a call, per thread
  config,    \* the configuration that a caller of Get holds
  result,    \* what the last RefreshAsync returned
  owed       \* ghost: what the settings were when each sentinel was touched
             \* last, or None after a load or failure beside or since that

serviceVars == <<now, version, sentinel>>
localVars == <<pc, call, tenant, at, shared, config, result>>
vars == <<serviceVars, entries, built, lock, localVars, owed>>

Query == Tenant \cup {Shared}

Init ==
  /\ now = 0
  /\ version = [q \in Query |-> 1]
  /\ sentinel = [n \in Tenant |-> 1]
  /\ entries = [n \in Tenant |-> None]
  /\ built = 0 /\ lock = None
  /\ pc = [t \in Thread |-> "idle"]
  /\ call = [t \in Thread |-> None]
  /\ tenant = [t \in Thread |-> None]
  /\ at = [t \in Thread |-> 0]
  /\ shared = [t \in Thread |-> 0]
  /\ config = [t \in Thread |-> None]
  /\ result = [t \in Thread |-> None]
  /\ owed = [n \in Tenant |-> None]

Reading == {"shared", "own", "reshared", "reown"}
BeingRead(n) == \E t \in Thread : tenant[t] = n /\ pc[t] \in Reading

-----------------------------------------------------------------------------
(* The store: settings change, and a sentinel is touched after that.       *)

Tick == /\ now < MaxTime /\ now' = now + 1
        /\ UNCHANGED <<version, sentinel, entries, built, lock, localVars, owed>>

Change(q) ==
  /\ q \in Changing /\ version[q] < MaxVersion
  /\ version' = [version EXCEPT ![q] = @ + 1]
  /\ UNCHANGED <<now, sentinel, entries, built, lock, localVars, owed>>

Touch(n) ==
  /\ n \in Changing /\ sentinel[n] < MaxVersion
  /\ sentinel' = [sentinel EXCEPT ![n] = @ + 1]
  /\ owed' = [owed EXCEPT ![n] = IF BeingRead(n) THEN None ELSE
                [since |-> now, shared |-> version[Shared], own |-> version[n]]]
  /\ UNCHANGED <<now, version, entries, built, lock, localVars>>

-----------------------------------------------------------------------------
(* Get and RefreshAsync.                                                   *)

Goto(t, label) == pc' = [pc EXCEPT ![t] = label]

\* Mutant: the lock does not keep other calls out.
LockIgnored == TRUE

LockFree == lock = None

Enter(t, n, kind) ==
  /\ pc[t] = "idle" /\ LockFree
  /\ call' = [call EXCEPT ![t] = kind]
  /\ tenant' = [tenant EXCEPT ![t] = n]
  /\ at' = [at EXCEPT ![t] = now]
  /\ result' = [result EXCEPT ![t] = None]
  /\ UNCHANGED <<serviceVars, entries, built, shared, owed>>

\* An uncached call loads under the lock.  A cancelled RefreshAsync throws
\* before this and changes nothing.
Cold(t, n, kind) ==
  /\ Enter(t, n, kind) /\ entries[n] = None
  /\ lock' = t
  /\ config' = [config EXCEPT ![t] = None]
  /\ Goto(t, "shared")

GetCached(t, n) ==
  /\ pc[t] = "idle" /\ LockFree /\ entries[n] # None
  /\ config' = [config EXCEPT ![t] = entries[n].config]
  /\ tenant' = [tenant EXCEPT ![t] = n]
  /\ result' = [result EXCEPT ![t] = None]
  /\ UNCHANGED <<serviceVars, entries, built, lock, pc, call, at, shared, owed>>

RefreshCached(t, n) ==
  /\ Enter(t, n, "refresh") /\ entries[n] # None
  /\ config' = [config EXCEPT ![t] = None]
  /\ Goto(t, "check")
  /\ UNCHANGED lock

\* The locals of a call end with it; the tenant that a configuration was got
\* for stays with the caller.
Returns(t, value) ==
  /\ Goto(t, "idle")
  /\ result' = [result EXCEPT ![t] = value]
  /\ call' = [call EXCEPT ![t] = None]
  /\ tenant' = [tenant EXCEPT ![t] = IF config'[t] = None THEN None ELSE @]
  /\ at' = [at EXCEPT ![t] = 0]
  /\ shared' = [shared EXCEPT ![t] = 0]

ReadShared(t) ==
  /\ pc[t] \in {"shared", "reshared"}
  /\ shared' = [shared EXCEPT ![t] = version[Shared]]
  /\ Goto(t, IF pc[t] = "shared" THEN "own" ELSE "reown")
  /\ UNCHANGED <<serviceVars, entries, built, lock, call, tenant, at, config, result, owed>>

Provider(t, id) ==
  [config |-> id, shared |-> shared[t], own |-> version[tenant[t]],
   seen |-> sentinel[tenant[t]], due |-> now + Interval]

ReadOwn(t) ==
  /\ pc[t] = "own"
  /\ entries' = [entries EXCEPT ![tenant[t]] = Provider(t, built + 1)]
  /\ built' = built + 1
  /\ lock' = None
  /\ config' = [config EXCEPT ![t] = IF call[t] = "get" THEN built + 1 ELSE None]
  /\ Returns(t, IF call[t] = "get" THEN None ELSE "true")
  /\ UNCHANGED <<serviceVars, owed>>

LoadFails(t) ==
  /\ pc[t] \in {"shared", "own"}
  /\ lock' = None
  /\ UNCHANGED <<serviceVars, entries, built, config, owed>>
  /\ Returns(t, None)

-----------------------------------------------------------------------------
(* TryRefreshAsync of the tenant's own refresher.                          *)

Busy(n) == \E t \in Thread : tenant[t] = n /\ pc[t] \in {"reshared", "reown"}
Idle(n) == now < entries[n].due \/ Busy(n)

\* Before the interval is over, or beside another refresh, it does nothing and
\* says true.
Skip(t) ==
  /\ pc[t] = "check" /\ Idle(tenant[t])
  /\ UNCHANGED <<serviceVars, entries, built, lock, config, owed>>
  /\ Returns(t, "true")

Unchanged(t) ==
  /\ pc[t] = "check" /\ ~Idle(tenant[t])
  /\ entries[tenant[t]].seen = sentinel[tenant[t]]
  /\ entries' = [entries EXCEPT ![tenant[t]].due = now + Interval]
  /\ UNCHANGED <<serviceVars, built, lock, config, owed>>
  /\ Returns(t, "true")

\* Mutant: without refreshAll, only the tenant's own settings are read again.
OwnOnly == "reown"

\* refreshAll: everything that was selected is read again, shared settings first.
Everything == "reshared"

Reload(t) ==
  /\ pc[t] = "check" /\ ~Idle(tenant[t])
  /\ entries[tenant[t]].seen # sentinel[tenant[t]]
  /\ Goto(t, Everything)
  /\ UNCHANGED <<serviceVars, entries, built, lock, call, tenant, at, shared, config,
                 result, owed>>

\* What was read is put into the same configuration.
Reloaded(t) ==
  /\ pc[t] = "reown"
  /\ entries' = [entries EXCEPT ![tenant[t]] = Provider(t, @.config)]
  /\ UNCHANGED <<serviceVars, built, lock, config, owed>>
  /\ Returns(t, "true")

\* A failure keeps all values, says false and may put the next refresh off.
RefreshFails(t) ==
  /\ pc[t] \in {"reshared", "reown"} \/ (pc[t] = "check" /\ ~Idle(tenant[t]))
  /\ \E due \in {entries[tenant[t]].due, now + Interval} :
       entries' = [entries EXCEPT ![tenant[t]].due = due]
  /\ owed' = [owed EXCEPT ![tenant[t]] = None]
  /\ UNCHANGED <<serviceVars, built, lock, config>>
  /\ Returns(t, "false")

Step(t) ==
  \/ \E n \in Tenant : \/ \E kind \in {"get", "refresh"} : Cold(t, n, kind)
                       \/ GetCached(t, n) \/ RefreshCached(t, n)
  \/ ReadShared(t) \/ ReadOwn(t) \/ LoadFails(t)
  \/ Skip(t) \/ Unchanged(t) \/ Reload(t) \/ Reloaded(t) \/ RefreshFails(t)

Next == \/ Tick \/ (\E q \in Query : Change(q)) \/ (\E n \in Tenant : Touch(n))
        \/ \E t \in Thread : Step(t)

Spec == Init /\ [][Next]_vars

-----------------------------------------------------------------------------
(* Properties.                                                             *)

Version == 1 .. MaxVersion
Entry == [config : 1 .. built, shared : Version, own : Version, seen : Version, due : Nat]

\* Every variable has the type that its field or local has, and the lock is held
\* by the thread that loads and by no other.
TypeOK ==
  /\ now \in 0 .. MaxTime /\ version \in [Query -> Version]
  /\ sentinel \in [Tenant -> Version]
  /\ entries \in [Tenant -> Entry \cup {None}] /\ built \in Nat
  /\ lock \in Thread \cup {None}
  /\ \A t \in Thread : pc[t] \in {"shared", "own"} <=> lock = t
  /\ pc \in [Thread -> {"idle", "check"} \cup Reading]
  /\ call \in [Thread -> {"get", "refresh", None}]
  /\ tenant \in [Thread -> Tenant \cup {None}] /\ at \in [Thread -> 0 .. MaxTime]
  /\ shared \in [Thread -> 0 .. MaxVersion]
  /\ config \in [Thread -> (1 .. built) \cup {None}]
  /\ result \in [Thread -> {"true", "false", None}]

\* What Get has handed out for a tenant is the one configuration of that tenant,
\* which every later refresh reaches, however many threads asked at once
\* (Tests/TenantConfigurationCacheTests.cs, Concurrent_Get_for_the_same_tenant_loads_once).
HeldIsRefreshed ==
  \A t \in Thread : config[t] # None =>
    entries[tenant[t]] # None /\ config[t] = entries[tenant[t]].config

\* Settings are changed and the sentinel of a tenant is touched while nothing
\* reads for that tenant, and no refresh fails from then on: once RefreshAsync,
\* called the interval later, says true and no other refresh is under way, the
\* configuration has them all, the shared ones as well.
RefreshBringsUpToDate ==
  [][\A t \in Thread, n \in Tenant :
       (/\ pc[t] # "idle" /\ tenant[t] = n /\ pc'[t] = "idle" /\ result'[t] = "true"
        /\ owed[n] # None /\ ~Busy(n)'
        /\ at[t] >= owed[n].since + Interval)
       => /\ entries'[n].shared >= owed[n].shared
          /\ entries'[n].own >= owed[n].own]_vars
=============================================================================
