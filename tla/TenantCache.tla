----------------------------- MODULE TenantCache -----------------------------
(***************************************************************************)
(* TenantConfigCache (src/src/mtappconfig/cache.py) over a tenant source   *)
(* (samples/0*/source_*.py) whose two selects, shared settings first and   *)
(* the tenant's own second, each go through a provider that the store      *)
(* keeps per query.  get holds one lock from start to end; the settings in *)
(* the service, the clock and requests that render a configuration they    *)
(* got earlier move on meanwhile.                                          *)
(*                                                                         *)
(* A configuration is its version: settings of a query have version 1, 2,  *)
(* ... in the service, and a view pairs the versions of the two queries.   *)
(***************************************************************************)
EXTENDS Naturals, Sequences, FiniteSets

CONSTANTS
  Thread, Tenant,
  Shared,            \* the query of the shared settings
  Config,            \* TenantConfig objects
  None,
  MaxEntries, Ttl, RefreshInterval,
  ProviderInterval,  \* the refresh interval inside a provider
  Faults,            \* "load", "report" and "raise": how a select may fail
  Changing,          \* the queries whose settings change in the service
  MaxTime, MaxVersion, MaxCalls   \* bounds for TLC

ASSUME BoundsAreNaturals ==
  {MaxEntries, Ttl, RefreshInterval, ProviderInterval, MaxTime, MaxVersion, MaxCalls} \subseteq Nat
ASSUME ChangingAreQueries == Changing \subseteq Tenant \cup {Shared}
ASSUME NamesAreDistinct == Shared \notin Tenant /\ None \notin Tenant \cup Config \cup Thread
ASSUME NoneIsNoValue ==
  None \notin [version : Nat, due : Nat, backoff : Nat]
               \cup [config : Config, loadedAt : Nat, refreshedAt : Nat]
ASSUME VersionsBeginAtOne == MaxVersion >= 1

Query == Tenant \cup {Shared}

VARIABLES
  now,
  history,   \* history[q][v]: when version v of q's settings was replaced
  loaded,    \* q's provider, or None: its version, when its next refresh is due,
             \* and until when its client backs off
  entries,   \* _entries[tenant]: _Entry, or None
  order,     \* the order of the OrderedDict, least recently used first
  configs,   \* TenantConfig objects: values and refresh_errors
  stats,
  lock,
  pc, tenant, at, view, problem, config,   \* locals of get, per thread
  calls,     \* number of calls of get so far (this and the rest: ghosts)
  lastUse,   \* the number of the call that last asked for a tenant
  served,    \* the view that get last returned for a tenant
  failedLoads \* how many calls of get raised

localVars == <<pc, tenant, at, view, problem, config>>
cacheVars == <<entries, order, configs, stats, lock>>
ghostVars == <<calls, lastUse, served, failedLoads>>
vars == <<now, history, loaded, localVars, cacheVars, ghostVars>>

Latest(q) == Len(history[q]) + 1
NoView == [shared |-> 0, own |-> 0]

Init ==
  /\ now = 0
  /\ history = [q \in Query |-> <<>>]
  /\ loaded = [q \in Query |-> None]
  /\ entries = [n \in Tenant |-> None]
  /\ order = <<>>
  /\ configs = [c \in Config |-> [view |-> NoView, errors |-> FALSE]]
  /\ stats = [hits |-> 0, misses |-> 0, evictions |-> 0, expirations |-> 0,
              refreshFailures |-> 0]
  /\ lock = None
  /\ pc = [t \in Thread |-> "idle"]
  /\ tenant = [t \in Thread |-> None]
  /\ at = [t \in Thread |-> 0]
  /\ view = [t \in Thread |-> NoView]
  /\ problem = [t \in Thread |-> FALSE]
  /\ config = [t \in Thread |-> None]
  /\ calls = 0
  /\ lastUse = [n \in Tenant |-> 0]
  /\ served = [n \in Tenant |-> NoView]
  /\ failedLoads = 0

-----------------------------------------------------------------------------
(* The world: time passes, and settings change in the service.             *)

Tick ==
  /\ now < MaxTime
  /\ now' = now + 1
  /\ UNCHANGED <<history, loaded, localVars, cacheVars, ghostVars>>

Write(q) ==
  /\ Latest(q) < MaxVersion
  /\ history' = [history EXCEPT ![q] = Append(@, now)]
  /\ UNCHANGED <<now, loaded, localVars, cacheVars, ghostVars>>

-----------------------------------------------------------------------------
(* get, up to the source: everything here is done under the lock.          *)

\* Mutant: the lock does not keep other calls out.
LockIgnored == TRUE

LockFree == lock = None

\* Mutant: the refresh interval is taken for the time-to-live.
ExpiredWhenDue(n) == now - entries[n].loadedAt >= RefreshInterval

Expired(n) == now - entries[n].loadedAt >= Ttl
RefreshDue(n) == now - entries[n].refreshedAt >= RefreshInterval

Place(n) == CHOOSE i \in DOMAIN order : order[i] = n
Without(n) == SubSeq(order, 1, Place(n) - 1) \o SubSeq(order, Place(n) + 1, Len(order))

\* Mutant: a hit does not move its entry to the end.
NotMoved(n) == order

MovedToEnd(n) == Append(Without(n), n)

\* Mutant: an entry is dropped with its provider left behind.
Abandoned(ns) == loaded

\* TenantConfig.close closes the tenant's own query and never the shared one; if
\* it raises, the provider is gone all the same.
ClosedFor(ns) == [q \in Query |-> IF q \in ns THEN None ELSE loaded[q]]

Enter(t, n) ==
  /\ pc[t] = "idle" /\ LockFree /\ calls < MaxCalls
  /\ tenant' = [tenant EXCEPT ![t] = n]
  /\ at' = [at EXCEPT ![t] = now]
  /\ calls' = calls + 1
  /\ lastUse' = [lastUse EXCEPT ![n] = calls + 1]
  /\ UNCHANGED <<now, history, view, problem, configs, failedLoads>>

Query1(t) == pc' = [pc EXCEPT ![t] = "shared"] /\ lock' = t

GetMiss(t, n) ==
  /\ entries[n] = None
  /\ Enter(t, n)
  /\ stats' = [stats EXCEPT !.misses = @ + 1]
  /\ Query1(t)
  /\ UNCHANGED <<loaded, entries, order, config, served>>

\* The provider is closed before the new load, which uses the same query.
GetExpired(t, n) ==
  /\ entries[n] # None /\ Expired(n)
  /\ Enter(t, n)
  /\ loaded' = ClosedFor({n})
  /\ entries' = [entries EXCEPT ![n] = None]
  /\ order' = Without(n)
  /\ stats' = [stats EXCEPT !.expirations = @ + 1, !.misses = @ + 1]
  /\ Query1(t)
  /\ UNCHANGED <<config, served>>

Touched(n) == stats' = [stats EXCEPT !.hits = @ + 1] /\ order' = MovedToEnd(n)

\* Mutant: a hit puts the next refresh off.
PutOff(n) == entries' = [entries EXCEPT ![n].refreshedAt = now]

\* Mutant: a hit makes the next refresh due.
PutForward(n) == entries' = [entries EXCEPT ![n].refreshedAt = now - RefreshInterval]

Undisturbed(n) == UNCHANGED entries

GetHit(t, n) ==
  /\ entries[n] # None /\ ~Expired(n) /\ ~RefreshDue(n)
  /\ Enter(t, n)
  /\ Touched(n)
  /\ Undisturbed(n)
  /\ config' = [config EXCEPT ![t] = entries[n].config]
  /\ served' = [served EXCEPT ![n] = configs[entries[n].config].view]
  /\ pc' = [pc EXCEPT ![t] = "respond"]
  /\ UNCHANGED <<loaded, lock>>

\* The attempt is marked before it is made.
GetHitDue(t, n) ==
  /\ entries[n] # None /\ ~Expired(n) /\ RefreshDue(n)
  /\ Enter(t, n)
  /\ Touched(n)
  /\ entries' = [entries EXCEPT ![n].refreshedAt = now]
  /\ config' = [config EXCEPT ![t] = entries[n].config]
  /\ Query1(t)
  /\ UNCHANGED <<loaded, served>>

-----------------------------------------------------------------------------
(* The two selects of the source's reload, in its order.                   *)

\* A provider is loaded with what the service has now; refreshing it is an
\* operation on the service only when its own interval has passed.
Fetched(q) == [version |-> Latest(q), due |-> now + ProviderInterval, backoff |-> 0]
Reread(q) ==
  IF loaded[q] = None \/ now >= loaded[q].due THEN Fetched(q) ELSE loaded[q]

Goes(t) == pc' = [pc EXCEPT ![t] = IF pc[t] = "shared" THEN "own" ELSE "conclude"]
Asked(t) == IF pc[t] = "shared" THEN Shared ELSE tenant[t]
Selecting(t) == pc[t] \in {"shared", "own"}
Read(t, version) ==
  view' = [view EXCEPT ![t] = IF pc[t] = "shared" THEN [@ EXCEPT !.shared = version]
                                                 ELSE [@ EXCEPT !.own = version]]

BackedOff(q) == loaded[q] # None /\ now < loaded[q].backoff

SelectOk(t) ==
  /\ Selecting(t) /\ ~BackedOff(Asked(t))
  /\ loaded' = [loaded EXCEPT ![Asked(t)] = Reread(Asked(t))]
  /\ Read(t, Reread(Asked(t)).version)
  /\ Goes(t)
  /\ UNCHANGED <<now, history, tenant, at, problem, config, cacheVars, ghostVars>>

\* A loaded provider that cannot be refreshed reports so and keeps its values; it
\* backs off and, until it is through with that, reports so again.  Each report
\* puts the next refresh off.
PutOffRefresh(q) ==
  [loaded[q] EXCEPT !.due = now + ProviderInterval,
                    !.backoff = IF BackedOff(q) THEN @ ELSE now + ProviderInterval]

SelectReports(t) ==
  /\ Selecting(t) /\ loaded[Asked(t)] # None
  /\ \/ BackedOff(Asked(t))
     \/ now >= loaded[Asked(t)].due /\ "report" \in Faults
  /\ problem' = [problem EXCEPT ![t] = TRUE]
  /\ loaded' = [loaded EXCEPT ![Asked(t)] = PutOffRefresh(Asked(t))]
  /\ Read(t, loaded[Asked(t)].version)
  /\ Goes(t)
  /\ UNCHANGED <<now, history, tenant, at, config, cacheVars, ghostVars>>

\* A first load that fails raises; the fake store raises on any select.
SelectRaises(t) ==
  /\ Selecting(t)
  /\ \/ loaded[Asked(t)] = None /\ "load" \in Faults
     \/ "raise" \in Faults

-----------------------------------------------------------------------------
(* get, after the source.                                                  *)

Leave(t, label) ==
  /\ pc' = [pc EXCEPT ![t] = label]
  /\ lock' = None
  /\ view' = [view EXCEPT ![t] = NoView]
  /\ problem' = [problem EXCEPT ![t] = FALSE]
  /\ UNCHANGED <<now, history, calls, lastUse>>

FailureCounted == stats' = [stats EXCEPT !.refreshFailures = @ + 1]

\* A load that raises leaves no entry, and get raises.
LoadRaises(t) ==
  /\ config[t] = None /\ SelectRaises(t)
  /\ Leave(t, "idle")
  /\ tenant' = [tenant EXCEPT ![t] = None]
  /\ at' = [at EXCEPT ![t] = 0]
  /\ failedLoads' = failedLoads + 1
  /\ UNCHANGED <<loaded, config, entries, order, configs, stats, served>>

\* A refresh that raises is counted and the cached configuration is served.
RefreshRaises(t) ==
  /\ config[t] # None /\ SelectRaises(t)
  /\ configs' = [configs EXCEPT ![config[t]].errors = FALSE]
  /\ FailureCounted
  /\ served' = [served EXCEPT ![tenant[t]] = configs[config[t]].view]
  /\ Leave(t, "respond")
  /\ UNCHANGED <<loaded, tenant, at, config, entries, order, failedLoads>>

\* Mutant: the view is replaced whether or not a select reported a failure.
UpdatedAnyway(t) == view[t]

UpdatedView(t) == IF problem[t] THEN configs[config[t]].view ELSE view[t]

CountedIfReported(t) == IF problem[t] THEN FailureCounted ELSE UNCHANGED stats

\* TenantConfig.refresh: reported failures keep the complete last view.
RefreshDone(t) ==
  /\ pc[t] = "conclude" /\ config[t] # None
  /\ configs' = [configs EXCEPT ![config[t]] =
                   [view |-> UpdatedView(t), errors |-> problem[t]]]
  /\ CountedIfReported(t)
  /\ served' = [served EXCEPT ![tenant[t]] = configs'[config[t]].view]
  /\ Leave(t, "respond")
  /\ UNCHANGED <<loaded, tenant, at, config, entries, order, failedLoads>>

IsFreeConfig(c) == /\ \A n \in Tenant : entries[n] # None => entries[n].config # c
                   /\ \A t \in Thread : config[t] # c
FreshConfig ==
  IF \E c \in Config : IsFreeConfig(c) THEN {CHOOSE c \in Config : IsFreeConfig(c)} ELSE {}

\* Mutant: one entry too many is kept.
OverCapacityByTwo(o) == IF Len(o) > MaxEntries + 1 THEN Len(o) - MaxEntries ELSE 0

OverCapacity(o) == IF Len(o) > MaxEntries THEN Len(o) - MaxEntries ELSE 0

\* The new entry is in place before the least recently used ones are evicted.
LoadDone(t) ==
  LET n == tenant[t]
      filled == Append(order, n)
      excess == OverCapacity(filled)
      victims == {filled[i] : i \in 1 .. excess}
  IN
  /\ pc[t] = "conclude" /\ config[t] = None
  /\ \E c \in FreshConfig :
       /\ configs' = [configs EXCEPT ![c] = [view |-> view[t], errors |-> problem[t]]]
       /\ config' = [config EXCEPT ![t] = c]
       /\ entries' = [m \in Tenant |->
            IF m \in victims THEN None
            ELSE IF m = n THEN [config |-> c, loadedAt |-> at[t], refreshedAt |-> at[t]]
            ELSE entries[m]]
  /\ order' = SubSeq(filled, excess + 1, Len(filled))
  /\ loaded' = ClosedFor(victims)
  /\ stats' = [stats EXCEPT !.evictions = @ + excess,
                            !.refreshFailures = @ + (IF problem[t] THEN 1 ELSE 0)]
  /\ served' = [served EXCEPT ![n] = view[t]]
  /\ Leave(t, "respond")
  /\ UNCHANGED <<tenant, at, failedLoads>>

\* The request renders dict(config.values), at any time after get returned.
Respond(t) ==
  /\ pc[t] = "respond"
  /\ pc' = [pc EXCEPT ![t] = "idle"]
  /\ tenant' = [tenant EXCEPT ![t] = None]
  /\ config' = [config EXCEPT ![t] = None]
  /\ at' = [at EXCEPT ![t] = 0]
  /\ UNCHANGED <<now, history, loaded, view, problem, cacheVars, ghostVars>>

GetStep(t) ==
  \/ \E n \in Tenant : GetMiss(t, n) \/ GetExpired(t, n) \/ GetHit(t, n) \/ GetHitDue(t, n)
  \/ SelectOk(t) \/ SelectReports(t) \/ LoadRaises(t) \/ RefreshRaises(t)
  \/ RefreshDone(t) \/ LoadDone(t) \/ Respond(t)

Next == Tick \/ (\E q \in Changing : Write(q)) \/ (\E t \in Thread : GetStep(t))

Spec == Init /\ [][Next]_vars

-----------------------------------------------------------------------------
(* Properties.                                                             *)

View == [shared : 0 .. MaxVersion, own : 0 .. MaxVersion]
Provider == [version : 1 .. MaxVersion, due : Nat, backoff : Nat]
Stats == [hits : Nat, misses : Nat, evictions : Nat, expirations : Nat, refreshFailures : Nat]
Entry == [config : Config, loadedAt : Nat, refreshedAt : Nat]

\* Every variable has the type its field or local has in the code.
TypeOK ==
  /\ now \in 0 .. MaxTime
  /\ history \in [Query -> Seq(0 .. MaxTime)]
  /\ loaded \in [Query -> Provider \cup {None}]
  /\ entries \in [Tenant -> Entry \cup {None}]
  /\ order \in Seq(Tenant)
  /\ configs \in [Config -> [view : View, errors : BOOLEAN]]
  /\ stats \in Stats
  /\ lock \in Thread \cup {None}
  /\ pc \in [Thread -> {"idle", "shared", "own", "conclude", "respond"}]
  /\ tenant \in [Thread -> Tenant \cup {None}] /\ at \in [Thread -> 0 .. MaxTime]
  /\ view \in [Thread -> View] /\ problem \in [Thread -> BOOLEAN]
  /\ config \in [Thread -> Config \cup {None}]
  /\ calls \in 0 .. MaxCalls /\ failedLoads \in 0 .. MaxCalls
  /\ lastUse \in [Tenant -> 0 .. MaxCalls] /\ served \in [Tenant -> View]

Cached == {n \in Tenant : entries[n] # None}

\* A tenant's provider lives exactly as long as its entry: between calls the
\* cache holds at most max_entries of them, and none that no entry would close.
ProvidersFollowEntries ==
  /\ lock = None => Cardinality(Cached) <= MaxEntries
  /\ \A n \in Tenant : lock = None \/ tenant[lock] # n =>
       (loaded[n] # None <=> n \in Cached)

\* The cache's order lists each cached tenant once, from the one whose last
\* request is the oldest to the one asked for last.
OrderIsRecency ==
  /\ {order[i] : i \in DOMAIN order} = Cached
  /\ \A i, j \in DOMAIN order : i < j => lastUse[order[i]] < lastUse[order[j]]

\* What the diagnostics endpoint shows adds up: each call was a hit or a miss,
\* and each miss is an entry, an entry dropped since, or a load that failed.
StatsAddUp ==
  lock = None =>
    /\ stats.hits + stats.misses = calls
    /\ stats.misses =
         Cardinality(Cached) + stats.evictions + stats.expirations + failedLoads
    /\ stats.refreshFailures <= calls - failedLoads

\* Version v of q's settings was what the service had at some time after
\* `start`, or still is.
CurrentAfter(q, v, start) == v > Len(history[q]) \/ history[q][v] >= start

Rendered(t) == configs[config[t]].view

\* However many refreshes fail, a tenant's own settings are never rendered to a
\* request that came the time-to-live or more after they were replaced.
OwnSettingsWithinTtl ==
  \A t \in Thread : pc[t] = "respond" =>
    CurrentAfter(tenant[t], Rendered(t).own, (at[t] + 1) - Ttl)

\* No call of get returns an older version, of shared or of own settings, than
\* an earlier call for the same tenant returned, across expiry, eviction,
\* failures and requests that run at the same time.
NeverGoesBack ==
  [][\A n \in Tenant : /\ served'[n].shared >= served[n].shared
                       /\ served'[n].own >= served[n].own]_vars

\* A cached configuration changes only to a view both of whose selects went
\* through: failures keep the complete view of before.
FailuresKeepView ==
  [][\A n \in Tenant :
       entries[n] # None /\ entries'[n] # None /\ entries'[n].config = entries[n].config =>
         LET c == entries[n].config IN
         configs'[c].view # configs[c].view =>
           ~configs'[c].errors /\ lock # None /\ ~problem[lock]]_vars
=============================================================================
