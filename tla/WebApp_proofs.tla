----------------------------- MODULE WebApp_proofs -----------------------------
(***************************************************************************)
(* What the application promises while stores go down and come back: all   *)
(* that its cache promises, that a warm tenant is served, and how soon     *)
(* after an outage everything is fresh again.                              *)
(***************************************************************************)
EXTENDS WebApp, TenantCache_proofs

-----------------------------------------------------------------------------
(* The inductive invariants.                                               *)

\* An entry is gone only once the time-to-live of its load is over, and a call
\* that loads came after that.
WarmInv ==
  /\ \A n \in Tenant : IF entries[n] = None THEN warmUntil[n] <= now
                       ELSE warmUntil[n] = entries[n].loadedAt + Ttl
  /\ \A t \in Thread : Busy(t) /\ config[t] = None => warmUntil[tenant[t]] <= at[t]

\* A call that refreshes has marked its attempt, no request came after the call
\* under way, and a failure was reported to that call alone.
AttemptsFit ==
  /\ \A n \in Tenant : entries[n] # None => entries[n].refreshedAt <= now
  /\ \A t \in Thread : Busy(t) =>
       /\ config[t] # None => entries[tenant[t]].refreshedAt = at[t]
       /\ \A s \in Thread : at[s] <= at[t]
  /\ \A t \in Thread : problem[t] => pc[t] \in {"own", "conclude"}

\* The store of q has been up since x, or before.
Settled(q, x) == Up(StoreOf[q]) /\ upSince[StoreOf[q]] <= x

\* Once its store is up, a client backs off for one interval of the provider at
\* most; by the end of the second one the provider has tried to refresh.
ProviderFits(q) ==
  /\ loaded[q].due <= now + ProviderInterval
  /\ loaded[q].backoff <= now + ProviderInterval
  /\ Up(StoreOf[q]) =>
       /\ loaded[q].backoff <= upSince[StoreOf[q]] + ProviderInterval
       /\ \/ Held(q, loaded[q].version, loaded[q].due - ProviderInterval)
          \/ loaded[q].due <= (upSince[StoreOf[q]] + 2 * ProviderInterval) - 1

ProvidersAreFresh == \A q \in Query : loaded[q] # None => ProviderFits(q)

\* An attempt made at x succeeds when its store has been up for two intervals, and
\* what it reads is then at most one interval old.
Ready(q, x) == Settled(q, (x + 1) - 2 * ProviderInterval)
ReadAt(q, v, x) == Held(q, v, (x + 1) - ProviderInterval)

CallsAreFresh ==
  \A t \in Thread :
    /\ pc[t] \in {"own", "conclude"} /\ Ready(Shared, at[t]) =>
         ReadAt(Shared, view[t].shared, at[t])
    /\ pc[t] = "conclude" /\ Ready(tenant[t], at[t]) => ReadAt(tenant[t], view[t].own, at[t])
    /\ problem[t] => \/ ~Ready(Shared, at[t])
                     \/ pc[t] = "conclude" /\ ~Ready(tenant[t], at[t])

ViewIsFresh(n, v, x) ==
  Ready(Shared, x) /\ Ready(n, x) => ReadAt(Shared, v.shared, x) /\ ReadAt(n, v.own, x)

\* An entry that is not being refreshed is as fresh as its last attempt.
EntriesAreFresh ==
  \A n \in Tenant : entries[n] # None /\ (\A t \in Thread : Busy(t) => tenant[t] # n) =>
    ViewIsFresh(n, configs[entries[n].config].view, entries[n].refreshedAt)

AnswersAreFresh ==
  \A t \in Thread : pc[t] = "respond" =>
    LET start == (at[t] + 1) - CatchUp IN
    Settled(Shared, start) /\ Settled(tenant[t], start) =>
      /\ Held(Shared, configs[config[t]].view.shared, start)
      /\ Held(tenant[t], configs[config[t]].view.own, start)

FreshInv == /\ AttemptsFit /\ ProvidersAreFresh /\ CallsAreFresh
            /\ EntriesAreFresh /\ AnswersAreFresh

-----------------------------------------------------------------------------
(* The application is a cache, and more.                                   *)

USE DEF localVars, cacheVars, ghostVars, webVars, allVars

\* Each step of the application is one of the cache, or none.
LEMMA StepOfCache == [AppNext]_allVars => [Next]_vars
<1> SUFFICES ASSUME [AppNext]_allVars PROVE [Next]_vars
  OBVIOUS
<1>1. CASE World
  BY <1>1 DEF World, Next
<1>2. CASE \E store \in Store : GoesDown(store) \/ ComesUp(store)
  BY <1>2 DEF GoesDown, ComesUp
<1>3. ASSUME NEW t \in Thread, Route(t)
      PROVE  [Next]_vars
  <2>1. CASE \E n \in Tenant : RequestTenant(t, n)
    BY <2>1 DEF RequestTenant, Next, GetStep
  <2>2. CASE Select(t) \/ Refresh(t) \/ Load(t) \/ Render(t) \/ StoreUnavailable(t)
    BY <2>2 DEF Select, Refresh, Load, Render, StoreUnavailable, Next, GetStep
  <2>3. CASE (\E raw \in Stranger : NotFound(t, raw)) \/ RejectEncoded(t) \/ Healthz(t)
               \/ Diagnostics(t) \/ Readyz(t)
    BY <2>3 DEF NotFound, RejectEncoded, Healthz, Diagnostics, Readyz, Answers
  <2> QED
    BY <1>3, <2>1, <2>2, <2>3 DEF Route
<1>4. CASE UNCHANGED allVars
  BY <1>4
<1> QED
  BY <1>1, <1>2, <1>3, <1>4 DEF AppNext

\* What holds of the cache alone holds of the cache in the application, where a
\* select fails only for a store that is down.
THEOREM AppRunsCache == AppSpec => Spec
<1>1. AppInit => Init
  BY DEF AppInit
<1> QED
  BY <1>1, StepOfCache, PTL DEF AppSpec, Spec

THEOREM AppInvariant == AppSpec => []CacheInv
<1> QED
  BY AppRunsCache, Invariant, PTL

\* The failures of a store keep the view that was complete.
THEOREM AppFailuresKeep == AppSpec => FailuresKeepView
<1> QED
  BY AppRunsCache, FailuresKeep, PTL

LEMMA AppInitially == AppInit => AppTypeOK
<1> SUFFICES ASSUME AppInit PROVE AppTypeOK
  OBVIOUS
<1>1. TypeOK
  BY Initially DEF AppInit, CacheInv
<1> QED
  BY <1>1, Bounds DEF AppInit, AppTypeOK

LEMMA AppTypes == CacheInv /\ CacheInv' /\ AppTypeOK /\ [AppNext]_allVars => AppTypeOK'
<1> SUFFICES ASSUME CacheInv, CacheInv', AppTypeOK, [AppNext]_allVars PROVE AppTypeOK'
  OBVIOUS
<1>1. TypeOK' /\ TypeOK /\ now \in 0 .. MaxTime
  BY DEF CacheInv, TypeOK
<1>2. upSince' \in [Store -> 0 .. MaxTime \cup {None}]
  <2>1. \/ upSince' = upSince
        \/ \E store \in Store : upSince' = [upSince EXCEPT ![store] = None]
        \/ \E store \in Store : upSince' = [upSince EXCEPT ![store] = now]
    BY DEF AppNext, World, GoesDown, ComesUp, Route, RequestTenant, Select, Refresh, Load, Render,
           StoreUnavailable, NotFound, RejectEncoded, Healthz, Diagnostics, Readyz, Answers
  <2> QED
    BY <1>1, <2>1 DEF AppTypeOK
<1>3. answer' \in [Thread -> {200, 404, 503, None}]
  <2>1. \/ answer' = answer
        \/ \E t \in Thread, status \in {200, 404, 503} : answer' = [answer EXCEPT ![t] = status]
    BY DEF AppNext, World, GoesDown, ComesUp, Route, RequestTenant, Select, Refresh, Load, Render,
           StoreUnavailable, NotFound, RejectEncoded, Healthz, Diagnostics, Readyz, Answers
  <2> QED
    BY <2>1 DEF AppTypeOK
<1>4. warmUntil' \in [Tenant -> 0 .. MaxTime + Ttl]
  <2>1. \/ warmUntil' = warmUntil
        \/ \E t \in Thread : warmUntil' = [warmUntil EXCEPT ![tenant[t]] = at[t] + Ttl]
    BY DEF AppNext, World, GoesDown, ComesUp, Route, RequestTenant, Select, Refresh, Load, Render,
           StoreUnavailable, NotFound, RejectEncoded, Healthz, Diagnostics, Readyz, Answers
  <2>2. \A t \in Thread : at[t] + Ttl \in 0 .. MaxTime + Ttl
    BY <1>1, Bounds DEF TypeOK
  <2> QED
    BY <2>1, <2>2 DEF AppTypeOK
<1> QED
  BY <1>1, <1>2, <1>3, <1>4 DEF AppTypeOK

\* Every variable of the application keeps its type.
THEOREM AppTypeCorrect == AppSpec => []AppTypeOK
<1> QED
  BY AppInvariant, AppInitially, AppTypes, PTL DEF AppSpec

-----------------------------------------------------------------------------
(* A warm tenant is served.                                                *)

LEMMA WarmInitially == AppInit => WarmInv
BY DEF AppInit, Init, WarmInv, Busy

\* With room for all tenants, nothing is evicted.
LEMMA NothingIsEvicted ==
  ASSUME CacheInv, NEW t \in Thread, LoadDone(t),
         IsFiniteSet(Tenant), Cardinality(Tenant) <= MaxEntries
  PROVE  /\ tenant[t] \in Tenant /\ entries'[tenant[t]] # None
         /\ entries'[tenant[t]].loadedAt = at[t]
         /\ \A n \in Tenant \ {tenant[t]} : entries'[n] = entries[n]
<1> DEFINE n == tenant[t]
           filled == Append(order, n)
<1>1. TypeOK /\ pc[t] = "conclude" /\ config[t] = None /\ Busy(t)
  BY DEF CacheInv, LoadDone, Busy
<1>2. n \in Tenant /\ entries[n] = None
  BY <1>1, BusyTenant DEF CallFits
<1>3. PICK c \in FreshConfig :
        entries' = [m \in Tenant |->
             IF m \in {filled[i] : i \in 1 .. OverCapacity(filled)} THEN None
             ELSE IF m = n THEN [config |-> c, loadedAt |-> at[t], refreshedAt |-> at[t]]
             ELSE entries[m]]
  BY DEF LoadDone
<1>4. Len(order) + 1 <= Cardinality(Tenant)
  <2>1. Cached \subseteq Tenant /\ n \notin Cached /\ Cached # Tenant
    BY <1>2 DEF Cached
  <2>2. Cardinality(Cached) < Cardinality(Tenant)
    <3>1. IsFiniteSet(Cached) /\ Cardinality(Cached) \in Nat /\ Cardinality(Tenant) \in Nat
      BY <2>1, FS_Subset, FS_CardinalityType
    <3>2. Cardinality(Cached) <= Cardinality(Tenant)
            /\ (Cardinality(Cached) = Cardinality(Tenant) => Cached = Tenant)
      BY <2>1, FS_Subset
    <3> QED
      BY <2>1, <3>1, <3>2
  <2>3. Cardinality(Cached) \in Nat /\ Cardinality(Tenant) \in Nat
    BY <2>1, FS_Subset, FS_CardinalityType
  <2> QED
    BY <2>2, <2>3, CachedCounts
<1>5. filled \in Seq(Tenant) /\ Len(filled) = Len(order) + 1
  BY <1>1, <1>2 DEF TypeOK
<1>6. OverCapacity(filled) = 0
  <2>1. Cardinality(Tenant) \in Nat /\ Len(order) \in Nat
    BY CachedCounts, FS_CardinalityType
  <2>2. Len(filled) <= MaxEntries
    BY <1>4, <1>5, <2>1, Bounds
  <2>3. Len(filled) \in Nat
    BY <1>5
  <2> QED
    BY <2>2, <2>3, Bounds DEF OverCapacity
<1>7. \A m \in Tenant : entries'[m] =
        IF m = n THEN [config |-> c, loadedAt |-> at[t], refreshedAt |-> at[t]] ELSE entries[m]
  BY <1>3, <1>6
<1>8. [config |-> c, loadedAt |-> at[t], refreshedAt |-> at[t]] \in Entry
  <2>1. c \in Config /\ at[t] \in Nat
    BY <1>1, Bounds DEF FreshConfig, TypeOK
  <2> QED
    BY <2>1 DEF Entry
<1> QED
  BY <1>2, <1>7, <1>8, NoneIsNew

LEMMA WarmInductive ==
  ASSUME IsFiniteSet(Tenant), Cardinality(Tenant) <= MaxEntries
  PROVE  CacheInv /\ CacheInv' /\ AppTypeOK /\ WarmInv /\ [AppNext]_allVars => WarmInv'
<1> SUFFICES ASSUME CacheInv, CacheInv', AppTypeOK, WarmInv, [AppNext]_allVars PROVE WarmInv'
  OBVIOUS
<1>1. TypeOK /\ TypeOK' /\ now \in Nat
  BY Times DEF CacheInv
<1>2. \A n \in Tenant : warmUntil[n] \in Nat
  BY Bounds DEF AppTypeOK
<1>3. CASE World
  <2>1. /\ UNCHANGED <<warmUntil, entries, tenant, at, pc, config>> /\ now' \in {now, now + 1}
    BY <1>3 DEF World, Tick, Write
  <2> QED
    BY <1>1, <1>2, <2>1 DEF WarmInv, Busy
<1>4. CASE UNCHANGED vars /\ UNCHANGED warmUntil
  BY <1>4 DEF WarmInv, Busy, vars
<1>5. ASSUME NEW t \in Thread, NEW n \in Tenant, RequestTenant(t, n)
      PROVE  WarmInv'
  <2>1. Enter(t, n) /\ warmUntil' = warmUntil /\ now' = now
    BY <1>5 DEF RequestTenant, GetMiss, GetExpired, GetHit, GetHitDue, Enter
  <2>2. /\ at' = [at EXCEPT ![t] = now] /\ tenant' = [tenant EXCEPT ![t] = n]
        /\ at'[t] = now /\ tenant'[t] = n
    BY <1>1, <2>1 DEF Enter, TypeOK
  <2>3. \A s \in Thread : Busy(s)' => s = t
    <3>1. pc' = [pc EXCEPT ![t] = "shared"] \/ pc' = [pc EXCEPT ![t] = "respond"]
      BY <1>5 DEF RequestTenant, GetMiss, GetExpired, GetHit, GetHitDue, Query1
    <3> QED
      BY <1>1, <2>1, <3>1, Entered DEF TypeOK, Busy
  <2>4. CASE GetMiss(t, n)
    <3>1. entries' = entries /\ entries[n] = None
      BY <2>4 DEF GetMiss
    <3> QED
      BY <2>1, <2>2, <2>3, <3>1 DEF WarmInv
  <2>5. CASE GetExpired(t, n)
    <3>1. /\ entries[n] # None /\ now - entries[n].loadedAt >= Ttl
          /\ entries' = [entries EXCEPT ![n] = None]
      BY <2>5 DEF GetExpired, Expired
    <3>2. warmUntil[n] = entries[n].loadedAt + Ttl /\ entries[n].loadedAt \in Nat
      BY <1>1, <3>1, Times DEF WarmInv
    <3>3. warmUntil[n] <= now
      BY <1>1, <3>1, <3>2, Bounds
    <3>4. entries'[n] = None /\ \A m \in Tenant \ {n} : entries'[m] = entries[m]
      BY <1>1, <3>1 DEF TypeOK
    <3> QED
      BY <2>1, <2>2, <2>3, <3>3, <3>4 DEF WarmInv
  <2>6. CASE GetHit(t, n) \/ GetHitDue(t, n)
    <3>1. /\ entries[n] # None /\ config' = [config EXCEPT ![t] = entries[n].config]
      BY <2>6 DEF GetHit, GetHitDue
    <3>2. config'[t] # None
      <4>1. entries[n].config # None
        BY <1>1, <3>1, Times, NamesAreDistinct
      <4> QED
        BY <1>1, <3>1, <4>1 DEF TypeOK
    <3>3. \A m \in Tenant : entries'[m] # None <=> entries[m] # None
      <4>1. CASE entries' = entries
        BY <4>1
      <4>2. CASE GetHitDue(t, n)
        <5>1. entries' = [entries EXCEPT ![n] = [@ EXCEPT !.refreshedAt = now]]
          BY <4>2 DEF GetHitDue
        <5>2. entries'[n] \in Entry
          <6>1. entries[n] \in Entry /\ entries'[n] = [entries[n] EXCEPT !.refreshedAt = now]
            BY <1>1, <3>1, <5>1 DEF TypeOK
          <6> QED
            BY <1>1, <6>1 DEF Entry
        <5> QED
          BY <1>1, <3>1, <5>1, <5>2, NoneIsNew DEF TypeOK
      <4> QED
        BY <2>6, <4>1, <4>2 DEF GetHit, Undisturbed
    <3>4. Quiet
      BY <2>6, QuietSteps
    <3>5. \A m \in Tenant : entries'[m] # None => entries'[m].loadedAt = entries[m].loadedAt
      BY <3>4 DEF Quiet
    <3> QED
      BY <2>1, <2>3, <3>2, <3>3, <3>5 DEF WarmInv
  <2> QED
    BY <1>5, <2>4, <2>5, <2>6 DEF RequestTenant
<1>6. ASSUME NEW t \in Thread, Select(t)
      PROVE  WarmInv'
  <2>1. /\ UNCHANGED <<warmUntil, entries, tenant, at, config, now>> /\ Goes(t) /\ Selecting(t)
    BY <1>6 DEF Select, SelectOk, SelectReports
  <2>2. \A s \in Thread : Busy(s)' => Busy(s)
    BY <1>1, <2>1 DEF Goes, TypeOK, Busy, Selecting
  <2> QED
    BY <2>1, <2>2 DEF WarmInv
<1>7. ASSUME NEW t \in Thread, Refresh(t) \/ Render(t)
      PROVE  WarmInv'
  <2>1. UNCHANGED <<warmUntil, entries, now>>
    BY <1>7 DEF Refresh, RefreshDone, RefreshRaises, Render, Respond, Leave
  <2>2. /\ pc' = [pc EXCEPT ![t] = "respond"] /\ UNCHANGED <<tenant, at, config>>
        \/ /\ pc' = [pc EXCEPT ![t] = "idle"] /\ tenant' = [tenant EXCEPT ![t] = None]
           /\ at' = [at EXCEPT ![t] = 0] /\ config' = [config EXCEPT ![t] = None]
    BY <1>7 DEF Refresh, RefreshDone, RefreshRaises, Render, Respond, Leave
  <2>3. \A s \in Thread : Busy(s)' => /\ Busy(s) /\ tenant'[s] = tenant[s]
                                      /\ at'[s] = at[s] /\ config'[s] = config[s]
    BY <1>1, <2>2 DEF TypeOK, Busy
  <2> QED
    BY <2>1, <2>3 DEF WarmInv
<1>8. ASSUME NEW t \in Thread, StoreUnavailable(t)
      PROVE  WarmInv'
  <2>1. LoadRaises(t) /\ warmUntil' = warmUntil
    BY <1>8 DEF StoreUnavailable
  <2>2. /\ UNCHANGED <<entries, now, config>> /\ Leave(t, "idle") /\ Busy(t)
    BY <2>1 DEF LoadRaises, Leave, SelectRaises, Selecting, Busy
  <2>3. \A s \in Thread : ~Busy(s)'
    BY <2>2, Left
  <2> QED
    BY <2>1, <2>2, <2>3 DEF WarmInv
<1>9. ASSUME NEW t \in Thread, Load(t)
      PROVE  WarmInv'
  <2>1. LoadDone(t) /\ warmUntil' = [warmUntil EXCEPT ![tenant[t]] = at[t] + Ttl]
    BY <1>9 DEF Load
  <2>2. now' = now /\ \A s \in Thread : ~Busy(s)'
    <3>1. Leave(t, "respond") /\ Busy(t)
      BY <2>1 DEF LoadDone, Busy
    <3> QED
      BY <3>1, Left DEF Leave
  <2>3. /\ tenant[t] \in Tenant /\ entries'[tenant[t]] # None
        /\ entries'[tenant[t]].loadedAt = at[t]
        /\ \A n \in Tenant \ {tenant[t]} : entries'[n] = entries[n]
    BY <2>1, NothingIsEvicted
  <2>4. /\ warmUntil'[tenant[t]] = at[t] + Ttl
        /\ \A n \in Tenant \ {tenant[t]} : warmUntil'[n] = warmUntil[n]
    BY <2>1, <2>3 DEF AppTypeOK
  <2> QED
    BY <2>2, <2>3, <2>4 DEF WarmInv
<1>10. CASE \E store \in Store : GoesDown(store) \/ ComesUp(store)
  BY <1>4, <1>10 DEF GoesDown, ComesUp
<1>11. ASSUME NEW t \in Thread,
              (\E raw \in Stranger : NotFound(t, raw)) \/ RejectEncoded(t) \/ Healthz(t)
                \/ Diagnostics(t) \/ Readyz(t)
       PROVE  WarmInv'
  BY <1>4, <1>11 DEF NotFound, RejectEncoded, Healthz, Diagnostics, Readyz, Answers
<1> QED
  BY <1>3, <1>4, <1>5, <1>6, <1>7, <1>8, <1>9, <1>10, <1>11 DEF AppNext, Route

\* While there is room for all tenants, 503 is for a tenant that no load of the
\* last time-to-live has warmed: with every store down, the others are served.
THEOREM WarmServed ==
  ASSUME IsFiniteSet(Tenant), Cardinality(Tenant) <= MaxEntries
  PROVE  AppSpec => WarmIsServed
<1> DEFINE Warm == \A t \in Thread : pc[t] # "idle" /\ answer'[t] = 503 /\ pc'[t] = "idle" =>
                     at[t] >= warmUntil[tenant[t]]
<1>1. CacheInv /\ AppTypeOK /\ WarmInv /\ [AppNext]_allVars => Warm
  <2> SUFFICES ASSUME CacheInv, AppTypeOK, WarmInv, [AppNext]_allVars,
                      NEW t \in Thread, pc[t] # "idle", answer'[t] = 503, pc'[t] = "idle"
               PROVE  at[t] >= warmUntil[tenant[t]]
    OBVIOUS
  <2>1. TypeOK
    BY DEF CacheInv
  <2>2. PICK s \in Thread : Render(s) \/ StoreUnavailable(s)
    <3>1. ~UNCHANGED pc
      OBVIOUS
    <3>2. ASSUME NEW s \in Thread, NEW n \in Tenant, RequestTenant(s, n)
          PROVE  FALSE
      <4>1. pc' = [pc EXCEPT ![s] = "shared"] \/ pc' = [pc EXCEPT ![s] = "respond"]
        BY <3>2 DEF RequestTenant, GetMiss, GetExpired, GetHit, GetHitDue, Query1
      <4> QED
        BY <2>1, <4>1 DEF TypeOK
    <3>3. ASSUME NEW s \in Thread, Select(s) \/ Refresh(s) \/ Load(s)
          PROVE  FALSE
      <4>1. \/ pc' = [pc EXCEPT ![s] = "own"] \/ pc' = [pc EXCEPT ![s] = "conclude"]
            \/ pc' = [pc EXCEPT ![s] = "respond"]
        BY <3>3 DEF Select, SelectOk, SelectReports, Goes, Refresh, RefreshDone, RefreshRaises,
                    Load, LoadDone, Leave
      <4> QED
        BY <2>1, <4>1 DEF TypeOK
    <3>4. PICK s \in Thread : Route(s)
      BY <3>1 DEF AppNext, World, Tick, Write, GoesDown, ComesUp, vars
    <3>5. Render(s) \/ StoreUnavailable(s)
      BY <3>1, <3>2, <3>3, <3>4 DEF Route, NotFound, RejectEncoded, Healthz, Diagnostics, Readyz,
         Answers, vars
    <3> QED
      BY <3>5
  <2>3. s = t
    <3>1. pc' = [pc EXCEPT ![s] = "idle"]
      BY <2>2 DEF Render, Respond, StoreUnavailable, LoadRaises, Leave
    <3> QED
      BY <2>1, <3>1 DEF TypeOK
  <2>4. ~Render(t)
    <3>1. Render(t) => answer'[t] = 200
      BY DEF Render, AppTypeOK
    <3> QED
      BY <3>1
  <2>5. Busy(t) /\ config[t] = None
    BY <2>2, <2>3, <2>4 DEF StoreUnavailable, LoadRaises, SelectRaises, Selecting, Busy
  <2>6. warmUntil[tenant[t]] \in Nat /\ at[t] \in Nat
    BY <2>1, <2>5, BusyTenant, Times, Bounds DEF AppTypeOK
  <2> QED
    BY <2>5, <2>6 DEF WarmInv
<1> HIDE DEF Warm
<1>2. CacheInv /\ AppTypeOK /\ WarmInv /\ [AppNext]_allVars => [Warm]_allVars
  BY <1>1
<1>3. AppSpec => []WarmInv
  BY AppInvariant, AppTypeCorrect, WarmInitially, WarmInductive, PTL DEF AppSpec
<1>4. AppSpec => [][Warm]_allVars
  BY <1>2, <1>3, AppInvariant, AppTypeCorrect, PTL DEF AppSpec
<1> QED
  BY <1>4 DEF WarmIsServed, Warm

-----------------------------------------------------------------------------
(* After an outage.                                                        *)

\* The intervals of the code: what a provider or an entry refreshes after is some
\* time, never none.
Intervals == RefreshInterval >= 1 /\ ProviderInterval >= 1

\* The times that freshness is about.
LEMMA Moments ==
  ASSUME TypeOK, NEW x \in Int
  PROVE  /\ (x + 1) - 2 * ProviderInterval \in Int /\ (x + 1) - ProviderInterval \in Int
         /\ (x + 1) - CatchUp \in Int /\ CatchUp \in Int
         /\ CatchUp = RefreshInterval + 2 * ProviderInterval - 1
BY Bounds DEF CatchUp

LEMMA UpIsTime ==
  ASSUME AppTypeOK, NEW q \in Query
  PROVE  /\ StoreOf[q] \in Store
         /\ Up(StoreOf[q]) => upSince[StoreOf[q]] \in Nat
BY Bounds DEF AppTypeOK, Up, Store

LEMMA SettledLater ==
  ASSUME AppTypeOK, NEW q \in Query, NEW x \in Int, NEW y \in Int, x <= y, Settled(q, x)
  PROVE  Settled(q, y)
BY UpIsTime DEF Settled

LEMMA FreshInitially == AppInit => FreshInv
BY NamesAreDistinct DEF AppInit, Init, FreshInv, AttemptsFit, ProvidersAreFresh, CallsAreFresh,
   EntriesAreFresh, AnswersAreFresh, Busy

\* The order of attempts, step by step.
LEMMA AttemptsKept ==
  ASSUME CacheInv, AttemptsFit, [Next]_vars
  PROVE  AttemptsFit'
<1>1. TypeOK /\ now \in Nat /\ \A s \in Thread : at[s] \in Nat /\ at[s] <= now
  BY Times DEF CacheInv, CountsFit
<1>2. CASE Tick \/ (\E q \in Changing : Write(q)) \/ UNCHANGED vars
  <2>1. /\ UNCHANGED <<entries, pc, config, tenant, at, problem>> /\ now' \in {now, now + 1}
    BY <1>2 DEF Tick, Write, vars
  <2>2. \A n \in Tenant : entries[n] # None => entries[n].refreshedAt \in Nat
    BY <1>1 DEF TypeOK, Entry
  <2> QED
    BY <1>1, <2>1, <2>2 DEF AttemptsFit, Busy
<1>3. ASSUME NEW t \in Thread, NEW n \in Tenant,
             GetMiss(t, n) \/ GetExpired(t, n) \/ GetHit(t, n) \/ GetHitDue(t, n)
      PROVE  AttemptsFit'
  <2>1. Enter(t, n) /\ now' = now /\ problem' = problem /\ at' = [at EXCEPT ![t] = now]
          /\ tenant' = [tenant EXCEPT ![t] = n]
    BY <1>3 DEF GetMiss, GetExpired, GetHit, GetHitDue, Enter
  <2>2. (\A s \in Thread : ~Busy(s)) /\ config[t] = None
    BY <2>1, Entered
  <2>3. /\ at'[t] = now /\ tenant'[t] = n /\ \A s \in Thread : at'[s] <= now
    BY <1>1, <2>1 DEF TypeOK
  <2>4. pc' = [pc EXCEPT ![t] = "shared"] \/ pc' = [pc EXCEPT ![t] = "respond"]
    BY <1>3 DEF GetMiss, GetExpired, GetHit, GetHitDue, Query1
  <2>5. \A s \in Thread : (Busy(s)' => s = t) /\ ~problem[s]
    BY <1>1, <2>2, <2>4 DEF TypeOK, Busy, AttemptsFit
  <2>6. /\ Busy(t)' /\ config'[t] # None => entries'[n].refreshedAt = now
        /\ \A m \in Tenant : entries'[m] # None => entries'[m].refreshedAt <= now
    <3>1. CASE GetMiss(t, n)
      BY <2>2, <3>1 DEF GetMiss, AttemptsFit
    <3>2. CASE GetExpired(t, n)
      <4>1. entries' = [entries EXCEPT ![n] = None] /\ config' = config
        BY <3>2 DEF GetExpired
      <4> QED
        BY <1>1, <2>2, <4>1 DEF TypeOK, AttemptsFit
    <3>3. CASE GetHit(t, n)
      <4>1. entries' = entries /\ pc' = [pc EXCEPT ![t] = "respond"]
        BY <3>3 DEF GetHit, Undisturbed
      <4> QED
        BY <1>1, <4>1 DEF TypeOK, AttemptsFit, Busy
    <3>4. CASE GetHitDue(t, n)
      <4>1. entries[n] # None /\ entries' = [entries EXCEPT ![n] = [@ EXCEPT !.refreshedAt = now]]
        BY <3>4 DEF GetHitDue
      <4>2. entries[n] \in Entry /\ entries'[n] = [entries[n] EXCEPT !.refreshedAt = now]
              /\ \A m \in Tenant \ {n} : entries'[m] = entries[m]
        BY <1>1, <4>1 DEF TypeOK
      <4>3. entries'[n].refreshedAt = now
        BY <4>2 DEF Entry
      <4>4. \A m \in Tenant \ {n} : entries[m] # None => entries[m].refreshedAt <= now
        BY DEF AttemptsFit
      <4>5. \A m \in Tenant : entries'[m] # None => entries'[m].refreshedAt <= now
        <5>1. \A m \in Tenant \ {n} : entries'[m] = entries[m]
          BY <4>2
        <5>2. now <= now
          BY <1>1
        <5> QED
          BY <4>3, <4>4, <5>1, <5>2
      <4> QED
        BY <4>3, <4>5
    <3> QED
      BY <1>3, <3>1, <3>2, <3>3, <3>4
  <2> QED
    BY <2>1, <2>3, <2>5, <2>6 DEF AttemptsFit
<1>4. ASSUME NEW t \in Thread, SelectOk(t) \/ SelectReports(t)
      PROVE  AttemptsFit'
  <2>1. /\ UNCHANGED <<now, entries, tenant, at, config>> /\ Goes(t) /\ Selecting(t)
        /\ problem' = problem \/ problem' = [problem EXCEPT ![t] = TRUE]
    BY <1>4 DEF SelectOk, SelectReports
  <2>2. /\ pc'[t] \in {"own", "conclude"} /\ \A s \in Thread \ {t} : pc'[s] = pc[s]
        /\ \A s \in Thread : Busy(s)' => Busy(s)
    BY <1>1, <2>1 DEF Goes, Selecting, TypeOK, Busy
  <2>3. \A s \in Thread \ {t} : problem'[s] = problem[s]
    BY <1>1, <2>1 DEF TypeOK
  <2> QED
    BY <2>1, <2>2, <2>3 DEF AttemptsFit
<1>5. ASSUME NEW t \in Thread, Busy(t), now' = now,
             Leave(t, "idle") \/ Leave(t, "respond"),
             \A n \in Tenant : entries'[n] # None =>
               \/ entries'[n] = entries[n]
               \/ entries'[n].refreshedAt = at[t]
      PROVE  AttemptsFit'
  <2>1. /\ \A s \in Thread : ~Busy(s)' /\ (s # t => ~Busy(s))
        /\ problem' = [problem EXCEPT ![t] = FALSE]
    BY <1>5, Left DEF Leave
  <2>2. \A s \in Thread : ~problem'[s]
    BY <1>1, <2>1 DEF TypeOK, AttemptsFit, Busy
  <2> QED
    BY <1>1, <1>5, <2>1, <2>2 DEF AttemptsFit
<1>6. ASSUME NEW t \in Thread, LoadRaises(t) \/ RefreshRaises(t) \/ RefreshDone(t)
      PROVE  AttemptsFit'
  <2>1. /\ Busy(t) /\ now' = now /\ entries' = entries
        /\ Leave(t, "idle") \/ Leave(t, "respond")
    BY <1>6 DEF LoadRaises, RefreshRaises, RefreshDone, SelectRaises, Selecting, Busy, Leave
  <2> QED
    BY <1>5, <2>1
<1>7. ASSUME NEW t \in Thread, LoadDone(t)
      PROVE  AttemptsFit'
  <2>1. Busy(t) /\ Leave(t, "respond") /\ now' = now
    BY <1>7 DEF LoadDone, Busy, Leave
  <2>2. ASSUME NEW n \in Tenant, entries'[n] # None
        PROVE  entries'[n] = entries[n] \/ entries'[n].refreshedAt = at[t]
    <3>1. entries'[n] = IF n = tenant[t]
              THEN [config |-> config'[t], loadedAt |-> at[t], refreshedAt |-> at[t]]
              ELSE entries[n]
      BY <1>7, <2>2, Loaded
    <3> QED
      BY <3>1
  <2> QED
    BY <1>5, <2>1, <2>2
<1>8. ASSUME NEW t \in Thread, Respond(t)
      PROVE  AttemptsFit'
  <2>1. /\ pc' = [pc EXCEPT ![t] = "idle"] /\ at' = [at EXCEPT ![t] = 0]
        /\ tenant' = [tenant EXCEPT ![t] = None] /\ config' = [config EXCEPT ![t] = None]
        /\ UNCHANGED <<now, entries, problem>> /\ pc[t] = "respond"
    BY <1>8 DEF Respond
  <2>2. /\ \A s \in Thread \ {t} : /\ pc'[s] = pc[s] /\ at'[s] = at[s]
                                   /\ tenant'[s] = tenant[s] /\ config'[s] = config[s]
        /\ pc'[t] = "idle" /\ at'[t] = 0
    BY <1>1, <2>1 DEF TypeOK
  <2>3. \A s \in Thread : problem'[s] => s # t
    BY <2>1 DEF AttemptsFit
  <2> QED
    BY <1>1, <2>1, <2>2, <2>3 DEF AttemptsFit, Busy
<1> QED
  BY <1>2, <1>3, <1>4, <1>6, <1>7, <1>8 DEF Next, GetStep

\* Steps that select nothing and store no view: what remains is that an entry that
\* is no longer under refresh, or is handed out, is as fresh as its last attempt.
LEMMA QuietKeepsFresh ==
  ASSUME CacheInv, CacheInv', AppTypeOK, AttemptsFit', FreshInv, Intervals, Quiet,
         upSince' = upSince, now' \in {now, now + 1},
         \A t \in Thread : problem'[t] => problem[t],
         \A n \in Tenant :
           entries'[n] # None /\ (\A t \in Thread : Busy(t)' => tenant'[t] # n) =>
             \/ /\ \A t \in Thread : Busy(t) => tenant[t] # n
                /\ entries'[n].refreshedAt = entries[n].refreshedAt
             \/ ViewIsFresh(n, configs[entries[n].config].view, entries'[n].refreshedAt),
         \A t \in Thread : pc'[t] = "respond" =>
           \/ /\ pc[t] = "respond" /\ tenant'[t] = tenant[t] /\ config'[t] = config[t]
              /\ at'[t] = at[t]
           \/ /\ entries'[tenant'[t]] # None /\ entries'[tenant'[t]].config = config'[t]
              /\ \A s \in Thread : Busy(s)' => tenant'[s] # tenant'[t]
              /\ entries'[tenant'[t]].refreshedAt >= (at'[t] + 1) - RefreshInterval
  PROVE  FreshInv'
<1>1. TypeOK /\ TypeOK' /\ now \in Nat
  BY Times DEF CacheInv
<1>2. /\ \A q, v, a : Held(q, v, a)' <=> Held(q, v, a)
      /\ \A q, x : Settled(q, x)' <=> Settled(q, x)
      /\ \A q, v, x : ReadAt(q, v, x)' <=> ReadAt(q, v, x)
      /\ \A q, x : Ready(q, x)' <=> Ready(q, x)
      /\ \A n, v, x : ViewIsFresh(n, v, x)' <=> ViewIsFresh(n, v, x)
  BY DEF Quiet, Held, CurrentAfter, Settled, Up, ReadAt, Ready, ViewIsFresh
<1>3. ProvidersAreFresh'
  <2> SUFFICES ASSUME NEW q \in Query, loaded'[q] # None PROVE ProviderFits(q)'
    BY DEF ProvidersAreFresh
  <2>1. loaded'[q] = loaded[q] /\ loaded[q] \in Provider
    BY <1>1 DEF Quiet, Query, TypeOK
  <2>2. ProviderFits(q)
    BY <2>1 DEF FreshInv, ProvidersAreFresh
  <2> QED
    BY <1>1, <1>2, <2>1, <2>2, Bounds DEF ProviderFits, Up, Provider
<1>4. CallsAreFresh'
  <2>1. \A t \in Thread : problem'[t] => problem[t] /\ pc'[t] \in {"own", "conclude"}
    BY DEF AttemptsFit
  <2>2. \A t \in Thread : pc'[t] \in {"own", "conclude"} =>
          /\ pc'[t] = pc[t] /\ view'[t] = view[t] /\ tenant'[t] = tenant[t] /\ at'[t] = at[t]
    BY DEF Quiet
  <2> QED
    BY <1>2, <2>1, <2>2 DEF FreshInv, CallsAreFresh
<1>5. ASSUME NEW n \in Tenant, entries'[n] # None,
             \A t \in Thread : Busy(t)' => tenant'[t] # n
      PROVE  ViewIsFresh(n, configs'[entries'[n].config].view, entries'[n].refreshedAt)
  <2>1. /\ entries[n] # None /\ entries'[n].config = entries[n].config
        /\ configs'[entries[n].config].view = configs[entries[n].config].view
    BY <1>1, <1>5, Times DEF Quiet
  <2>2. CASE /\ \A t \in Thread : Busy(t) => tenant[t] # n
             /\ entries'[n].refreshedAt = entries[n].refreshedAt
    BY <2>1, <2>2 DEF FreshInv, EntriesAreFresh
  <2>3. CASE ViewIsFresh(n, configs[entries[n].config].view, entries'[n].refreshedAt)
    BY <2>1, <2>3
  <2> QED
    BY <1>5, <2>2, <2>3
<1>6. EntriesAreFresh'
  BY <1>2, <1>5 DEF EntriesAreFresh
<1>7. ASSUME NEW t \in Thread, pc'[t] = "respond",
             Settled(Shared, (at'[t] + 1) - CatchUp), Settled(tenant'[t], (at'[t] + 1) - CatchUp)
      PROVE  /\ Held(Shared, configs'[config'[t]].view.shared, (at'[t] + 1) - CatchUp)
             /\ Held(tenant'[t], configs'[config'[t]].view.own, (at'[t] + 1) - CatchUp)
  <2>1. CASE /\ pc[t] = "respond" /\ tenant'[t] = tenant[t] /\ config'[t] = config[t]
             /\ at'[t] = at[t]
    <3>1. config[t] \in Config
      BY <1>1, <2>1 DEF CacheInv, LocalsFit, TypeOK
    <3>2. configs'[config[t]].view = configs[config[t]].view
      BY <3>1 DEF Quiet
    <3> QED
      BY <1>7, <2>1, <3>2 DEF FreshInv, AnswersAreFresh
  <2>2. CASE /\ entries'[tenant'[t]] # None /\ entries'[tenant'[t]].config = config'[t]
             /\ \A s \in Thread : Busy(s)' => tenant'[s] # tenant'[t]
             /\ entries'[tenant'[t]].refreshedAt >= (at'[t] + 1) - RefreshInterval
    <3> DEFINE n == tenant'[t]
               x == entries'[n].refreshedAt
               start == (at'[t] + 1) - CatchUp
    <3>1. n \in Tenant /\ n \in Query /\ Shared \in Query
      BY <1>1, <1>7, <2>2 DEF CacheInv, LocalsFit, TypeOK, Query
    <3>2. x \in Nat /\ at'[t] \in Nat
      <4>1. entries'[n] \in Entry
        BY <1>1, <2>2, <3>1 DEF TypeOK
      <4>2. at'[t] \in Nat
        BY <1>1, Bounds DEF TypeOK
      <4> QED
        BY <4>1, <4>2 DEF Entry
    <3>3. ViewIsFresh(n, configs'[config'[t]].view, x)
      BY <1>5, <2>2, <3>1
    <3> HIDE DEF n, x
    <3>4. /\ start \in Int /\ (x + 1) - 2 * ProviderInterval \in Int
          /\ (x + 1) - ProviderInterval \in Int
          /\ start <= (x + 1) - 2 * ProviderInterval /\ start <= (x + 1) - ProviderInterval
      BY <1>1, <2>2, <3>2, Moments, Bounds DEF n, x, Intervals
    <3>5. Ready(Shared, x) /\ Ready(n, x)
      BY <1>7, <3>1, <3>4, SettledLater DEF Ready, n
    <3>6. ReadAt(Shared, configs'[config'[t]].view.shared, x)
            /\ ReadAt(n, configs'[config'[t]].view.own, x)
      BY <3>3, <3>5 DEF ViewIsFresh
    <3>7. Held(Shared, configs'[config'[t]].view.shared, start)
            /\ Held(n, configs'[config'[t]].view.own, start)
      BY <1>1, <3>1, <3>4, <3>6, HeldSince DEF ReadAt
    <3> QED
      BY <3>7 DEF n
  <2> QED
    BY <1>7, <2>1, <2>2
<1>8. AnswersAreFresh'
  BY <1>2, <1>7 DEF AnswersAreFresh, CatchUp
<1> QED
  BY <1>3, <1>4, <1>6, <1>8 DEF FreshInv

\* Nothing is handed out without a refresh unless its last attempt is recent, and a
\* refresh raises only for a store that is down.
LEMMA QuietStepsKeepFresh ==
  ASSUME CacheInv, CacheInv', AppTypeOK, AttemptsFit', FreshInv, Intervals, upSince' = upSince,
         \/ Tick \/ UNCHANGED vars
         \/ \E t \in Thread :
              \/ \E n \in Tenant : GetMiss(t, n) \/ GetExpired(t, n) \/ GetHit(t, n) \/ GetHitDue(t, n)
              \/ LoadRaises(t) \/ (RefreshRaises(t) /\ ~Reachable(t)) \/ Respond(t)
  PROVE  FreshInv'
<1>1. Quiet /\ TypeOK /\ TypeOK' /\ now \in Nat
  <2>1. Quiet
    BY QuietSteps
  <2> QED
    BY <2>1, Times DEF CacheInv
<1>2. CASE Tick \/ UNCHANGED vars
  <2>1. UNCHANGED <<pc, tenant, at, config, entries, problem>> /\ now' \in {now, now + 1}
    BY <1>2 DEF Tick, vars
  <2> QED
    BY <1>1, <2>1, QuietKeepsFresh DEF Busy
<1>3. ASSUME NEW t \in Thread, NEW n \in Tenant,
             GetMiss(t, n) \/ GetExpired(t, n) \/ GetHit(t, n) \/ GetHitDue(t, n)
      PROVE  FreshInv'
  <2>1. /\ Enter(t, n) /\ now' = now /\ problem' = problem
        /\ tenant' = [tenant EXCEPT ![t] = n] /\ at' = [at EXCEPT ![t] = now]
    BY <1>3 DEF GetMiss, GetExpired, GetHit, GetHitDue, Enter
  <2>2. \A s \in Thread : ~Busy(s)
    BY <2>1, Entered
  <2>3. /\ tenant'[t] = n /\ at'[t] = now
        /\ \A s \in Thread \ {t} : tenant'[s] = tenant[s] /\ at'[s] = at[s]
    BY <1>1, <2>1 DEF TypeOK
  <2>4. CASE ~GetHit(t, n)
    <3>1. pc' = [pc EXCEPT ![t] = "shared"]
      BY <1>3, <2>4 DEF GetMiss, GetExpired, GetHitDue, Query1
    <3>2. pc'[t] = "shared" /\ Busy(t)' /\ \A s \in Thread \ {t} : pc'[s] = pc[s]
      BY <1>1, <3>1 DEF TypeOK, Busy
    <3>3. \A s \in Thread \ {t} : config'[s] = config[s]
      BY <1>1, <1>3, <2>4 DEF TypeOK, GetMiss, GetExpired, GetHitDue
    <3>4. \A m \in Tenant \ {n} : entries'[m] = entries[m]
      BY <1>1, <1>3, <2>4 DEF TypeOK, GetMiss, GetExpired, GetHitDue
    <3> QED
      BY <1>1, <2>1, <2>2, <2>3, <3>2, <3>3, <3>4, QuietKeepsFresh
  <2>5. CASE GetHit(t, n)
    <3>1. /\ pc' = [pc EXCEPT ![t] = "respond"] /\ entries' = entries
          /\ config' = [config EXCEPT ![t] = entries[n].config]
          /\ entries[n] # None /\ ~(now - entries[n].refreshedAt >= RefreshInterval)
      BY <2>5 DEF GetHit, Undisturbed, RefreshDue
    <3>2. /\ pc'[t] = "respond" /\ config'[t] = entries[n].config
          /\ \A s \in Thread \ {t} : pc'[s] = pc[s] /\ config'[s] = config[s]
      BY <1>1, <3>1 DEF TypeOK
    <3>3. \A s \in Thread : ~Busy(s)'
      BY <2>2, <3>2 DEF Busy
    <3>4. entries[n].refreshedAt >= (now + 1) - RefreshInterval
      <4>1. entries[n].refreshedAt \in Nat
        BY <1>1, <3>1 DEF TypeOK, Entry
      <4> QED
        BY <1>1, <3>1, <4>1, Bounds
    <3> QED
      BY <1>1, <2>1, <2>2, <2>3, <3>1, <3>2, <3>3, <3>4, QuietKeepsFresh
  <2> QED
    BY <2>4, <2>5
<1>4. ASSUME NEW t \in Thread, LoadRaises(t)
      PROVE  FreshInv'
  <2>1. /\ Busy(t) /\ Leave(t, "idle") /\ config[t] = None
        /\ tenant' = [tenant EXCEPT ![t] = None] /\ at' = [at EXCEPT ![t] = 0]
        /\ UNCHANGED <<now, entries, config>>
    BY <1>4 DEF LoadRaises, SelectRaises, Selecting, Busy, Leave
  <2>2. /\ \A s \in Thread \ {t} : ~Busy(s) /\ pc'[s] = pc[s]
        /\ pc'[t] = "idle" /\ entries[tenant[t]] = None
    BY <2>1, Left DEF CallFits
  <2>3. /\ \A s \in Thread \ {t} : tenant'[s] = tenant[s] /\ at'[s] = at[s]
        /\ problem' = [problem EXCEPT ![t] = FALSE]
    BY <1>1, <2>1 DEF TypeOK, Leave
  <2>4. \A s \in Thread : problem'[s] => problem[s]
    BY <1>1, <2>3 DEF TypeOK
  <2> QED
    BY <1>1, <2>1, <2>2, <2>3, <2>4, QuietKeepsFresh
<1>5. ASSUME NEW t \in Thread, RefreshRaises(t), ~Reachable(t)
      PROVE  FreshInv'
  <2> DEFINE n == tenant[t]
  <2>1. /\ Busy(t) /\ Leave(t, "respond") /\ config[t] # None /\ Selecting(t)
        /\ UNCHANGED <<now, entries, config, tenant, at>>
    BY <1>5 DEF RefreshRaises, SelectRaises, Selecting, Busy, Leave
  <2>2. /\ \A s \in Thread \ {t} : ~Busy(s) /\ pc'[s] = pc[s]
        /\ pc'[t] = "respond" /\ n \in Tenant /\ entries[n] # None
        /\ entries[n].config = config[t] /\ \A s \in Thread : ~Busy(s)'
    BY <2>1, Left DEF CallFits
  <2>3. problem' = [problem EXCEPT ![t] = FALSE]
    BY <2>1 DEF Leave
  <2>4. \A s \in Thread : problem'[s] => problem[s]
    BY <1>1, <2>3 DEF TypeOK
  <2>5. entries[n].refreshedAt = at[t] /\ at[t] \in Nat
    BY <1>1, <2>1, Times DEF FreshInv, AttemptsFit
  <2>6. ViewIsFresh(n, configs[entries[n].config].view, entries[n].refreshedAt)
    <3>1. Asked(t) \in {Shared, n} /\ ~Up(StoreOf[Asked(t)])
      BY <1>5 DEF Asked, Reachable
    <3> QED
      BY <3>1 DEF ViewIsFresh, Ready, Settled
  <2>7. entries[n].refreshedAt >= (at[t] + 1) - RefreshInterval
    BY <2>5, Bounds DEF Intervals
  <2> HIDE DEF n
  <2>8. tenant[t] = n
    BY DEF n
  <2> QED
    BY <1>1, <2>1, <2>2, <2>4, <2>6, <2>7, <2>8, QuietKeepsFresh
<1>6. ASSUME NEW t \in Thread, Respond(t)
      PROVE  FreshInv'
  <2>1. /\ pc' = [pc EXCEPT ![t] = "idle"] /\ at' = [at EXCEPT ![t] = 0]
        /\ tenant' = [tenant EXCEPT ![t] = None] /\ config' = [config EXCEPT ![t] = None]
        /\ UNCHANGED <<now, entries, problem>> /\ pc[t] = "respond"
    BY <1>6 DEF Respond
  <2>2. /\ \A s \in Thread \ {t} : /\ pc'[s] = pc[s] /\ at'[s] = at[s]
                                   /\ tenant'[s] = tenant[s] /\ config'[s] = config[s]
        /\ pc'[t] = "idle"
    BY <1>1, <2>1 DEF TypeOK
  <2> QED
    BY <1>1, <2>1, <2>2, QuietKeepsFresh DEF Busy
<1> QED
  BY <1>2, <1>3, <1>4, <1>5, <1>6

\* A change replaces nothing before now.
LEMMA WriteKeepsFresh ==
  ASSUME CacheInv, AppTypeOK, AttemptsFit', FreshInv, Intervals, upSince' = upSince,
         NEW p \in Query, Write(p)
  PROVE  FreshInv'
<1>1. TypeOK /\ now \in Nat /\ Shared \in Query /\ \A n \in Tenant : n \in Query
  BY Times DEF CacheInv, Query
<1>2. UNCHANGED <<now, loaded, entries, configs, pc, config, tenant, at, view, problem>>
  BY DEF Write
<1>3. /\ \A q, x : Settled(q, x)' <=> Settled(q, x)
      /\ \A q, x : Ready(q, x)' <=> Ready(q, x)
  BY DEF Settled, Up, Ready
<1>4. \A v : \A q \in Query, x \in Int : x <= now /\ Held(q, v, x) => Held(q, v, x)'
  BY <1>1, WriteKeepsHeld
<1>5. \A v : \A q \in Query, x \in Int : x <= now /\ ReadAt(q, v, x) => ReadAt(q, v, x)'
  <2> SUFFICES ASSUME NEW v, NEW q \in Query, NEW x \in Int, x <= now, ReadAt(q, v, x)
               PROVE  ReadAt(q, v, x)'
    OBVIOUS
  <2>1. (x + 1) - ProviderInterval \in Int /\ (x + 1) - ProviderInterval <= now
    BY <1>1, Bounds DEF Intervals
  <2> QED
    BY <1>4, <2>1 DEF ReadAt
<1>6. ProvidersAreFresh'
  <2> SUFFICES ASSUME NEW q \in Query, loaded[q] # None PROVE ProviderFits(q)'
    BY <1>2 DEF ProvidersAreFresh
  <2>1. loaded[q] \in Provider /\ ProviderFits(q)
    BY <1>1 DEF TypeOK, FreshInv, ProvidersAreFresh
  <2>2. loaded[q].due - ProviderInterval \in Int /\ loaded[q].due - ProviderInterval <= now
    BY <1>1, <2>1, Bounds DEF Provider, ProviderFits
  <2>3. Held(q, loaded[q].version, loaded[q].due - ProviderInterval)
          => Held(q, loaded[q].version, loaded[q].due - ProviderInterval)'
    <3> DEFINE v == loaded[q].version
               x == loaded[q].due - ProviderInterval
    <3>1. x \in Int /\ x <= now /\ v' = v /\ x' = x
      BY <1>2, <2>2
    <3> HIDE DEF v, x
    <3>2. Held(q, v, x) => Held(q, v, x)'
      BY <1>4, <3>1
    <3> QED
      BY <3>2 DEF v, x
  <2> QED
    BY <1>2, <2>1, <2>3 DEF ProviderFits, Up
<1>7. CallsAreFresh'
  <2>1. ASSUME NEW t \in Thread, pc[t] \in {"own", "conclude"}
        PROVE  tenant[t] \in Query /\ at[t] \in Int /\ at[t] <= now
    <3>1. tenant[t] \in Tenant
      BY <2>1, BusyTenant DEF Busy
    <3> QED
      BY <1>1, <3>1, Times DEF CacheInv, CountsFit
  <2> QED
    BY <1>1, <1>2, <1>3, <1>5, <2>1 DEF FreshInv, CallsAreFresh
<1>8. EntriesAreFresh'
  <2>1. \A n \in Tenant : entries[n] # None =>
          entries[n].refreshedAt \in Int /\ entries[n].refreshedAt <= now
    BY <1>1 DEF TypeOK, Entry, FreshInv, AttemptsFit
  <2>2. \A v : \A n \in Tenant, x \in Int :
          x <= now /\ ViewIsFresh(n, v, x) => ViewIsFresh(n, v, x)'
    BY <1>1, <1>3, <1>5 DEF ViewIsFresh
  <2> QED
    BY <1>2, <2>1, <2>2 DEF FreshInv, EntriesAreFresh, Busy
<1>9. AnswersAreFresh'
  <2>1. ASSUME NEW t \in Thread, pc[t] = "respond"
        PROVE  /\ tenant[t] \in Query
               /\ (at[t] + 1) - CatchUp \in Int /\ (at[t] + 1) - CatchUp <= now
    <3>1. tenant[t] \in Query
      BY <1>1, <2>1 DEF CacheInv, LocalsFit, TypeOK
    <3>2. at[t] \in Int /\ at[t] <= now
      BY <1>1, Times DEF CacheInv, CountsFit
    <3> QED
      BY <1>1, <3>1, <3>2, Moments, Bounds DEF Intervals
  <2>2. CatchUp' = CatchUp
    BY DEF CatchUp
  <2> QED
    BY <1>1, <1>2, <1>3, <1>4, <2>1, <2>2 DEF FreshInv, AnswersAreFresh
<1> QED
  BY <1>6, <1>7, <1>8, <1>9 DEF FreshInv

\* A store that has just come up has not been up for long.
LEMMA StoresKeepFresh ==
  ASSUME CacheInv, AppTypeOK, AttemptsFit', FreshInv, Intervals,
         NEW store \in Store, GoesDown(store) \/ ComesUp(store)
  PROVE  FreshInv'
<1>1. /\ TypeOK /\ now \in Nat /\ Shared \in Query /\ \A n \in Tenant : n \in Query
      /\ \A t \in Thread : at[t] \in Nat /\ at[t] <= now
  BY Times DEF CacheInv, CountsFit, Query
<1>2. /\ UNCHANGED <<now, history, loaded, entries, configs, pc, config, tenant, at, view, problem>>
      /\ \/ upSince' = [upSince EXCEPT ![store] = None]
         \/ ~Up(store) /\ upSince' = [upSince EXCEPT ![store] = now]
  BY DEF GoesDown, ComesUp, vars
<1>3. \A other \in Store : Up(other)' =>
        \/ Up(other) /\ upSince'[other] = upSince[other]
        \/ upSince'[other] = now
  BY <1>2 DEF AppTypeOK, Up
<1>4. \A q \in Query, x \in Int : x < now /\ Settled(q, x)' => Settled(q, x)
  BY <1>1, <1>3, UpIsTime DEF Settled
<1>5. /\ \A q, v, a : Held(q, v, a)' <=> Held(q, v, a)
      /\ \A q, v, x : ReadAt(q, v, x)' <=> ReadAt(q, v, x)
  BY <1>2 DEF Held, CurrentAfter, ReadAt
<1>6. \A q \in Query, x \in Int : x <= now /\ Ready(q, x)' => Ready(q, x)
  <2> SUFFICES ASSUME NEW q \in Query, NEW x \in Int, x <= now, Ready(q, x)'
               PROVE  Ready(q, x)
    OBVIOUS
  <2>1. (x + 1) - 2 * ProviderInterval \in Int /\ (x + 1) - 2 * ProviderInterval < now
    BY <1>1, Bounds DEF Intervals
  <2> QED
    BY <1>4, <2>1 DEF Ready
<1>7. ProvidersAreFresh'
  <2> SUFFICES ASSUME NEW q \in Query, loaded[q] # None PROVE ProviderFits(q)'
    BY <1>2 DEF ProvidersAreFresh
  <2>1. loaded[q] \in Provider /\ ProviderFits(q) /\ StoreOf[q] \in Store
    BY <1>1, UpIsTime DEF TypeOK, FreshInv, ProvidersAreFresh
  <2>2. loaded[q].due \in Nat /\ loaded[q].backoff \in Nat
    BY <2>1 DEF Provider
  <2>3. CASE Up(StoreOf[q])' /\ upSince'[StoreOf[q]] = now
    <3>1. loaded[q].due <= (now + 2 * ProviderInterval) - 1
      BY <1>1, <2>1, <2>2, Bounds DEF Intervals, ProviderFits
    <3> QED
      BY <1>2, <2>1, <2>3, <3>1 DEF ProviderFits
  <2>4. CASE Up(StoreOf[q])' => Up(StoreOf[q]) /\ upSince'[StoreOf[q]] = upSince[StoreOf[q]]
    BY <1>2, <1>5, <2>1, <2>4 DEF ProviderFits
  <2> QED
    BY <1>3, <2>1, <2>3, <2>4
<1>8. CallsAreFresh'
  <2>1. ASSUME NEW t \in Thread, pc[t] \in {"own", "conclude"}
        PROVE  tenant[t] \in Query
    <3>1. tenant[t] \in Tenant
      BY <2>1, BusyTenant DEF Busy
    <3> QED
      BY <1>1, <3>1
  <2>2. \A t \in Thread : problem[t] => pc[t] \in {"own", "conclude"}
    BY DEF FreshInv, AttemptsFit
  <2> QED
    BY <1>1, <1>2, <1>5, <1>6, <2>1, <2>2 DEF FreshInv, CallsAreFresh
<1>9. EntriesAreFresh'
  <2>1. \A n \in Tenant : entries[n] # None =>
          entries[n].refreshedAt \in Int /\ entries[n].refreshedAt <= now
    BY <1>1 DEF TypeOK, Entry, FreshInv, AttemptsFit
  <2>2. \A v : \A n \in Tenant, x \in Int :
          x <= now /\ ViewIsFresh(n, v, x) => ViewIsFresh(n, v, x)'
    BY <1>1, <1>5, <1>6 DEF ViewIsFresh
  <2> QED
    BY <1>2, <2>1, <2>2 DEF FreshInv, EntriesAreFresh, Busy
<1>10. AnswersAreFresh'
  <2>1. ASSUME NEW t \in Thread, pc[t] = "respond"
        PROVE  /\ tenant[t] \in Query
               /\ (at[t] + 1) - CatchUp \in Int /\ (at[t] + 1) - CatchUp < now
    <3>1. tenant[t] \in Query
      BY <1>1, <2>1 DEF CacheInv, LocalsFit, TypeOK
    <3> QED
      BY <1>1, <3>1, Moments, Bounds DEF Intervals
  <2>2. CatchUp' = CatchUp
    BY DEF CatchUp
  <2> QED
    BY <1>1, <1>2, <1>4, <1>5, <2>1, <2>2 DEF FreshInv, AnswersAreFresh
<1> QED
  BY <1>7, <1>8, <1>9, <1>10 DEF FreshInv

\* A select that reaches a store which has been up for two intervals reads what was
\* there one interval ago, or later, and reports no failure.
LEMMA ReadsWhenReady ==
  ASSUME CacheInv, AppTypeOK, FreshInv, Intervals, NEW t \in Thread, Select(t),
         NEW q, q = Asked(t)
  PROVE  /\ q \in Query /\ Selecting(t) /\ Goes(t)
         /\ UNCHANGED <<now, history, tenant, at, config, cacheVars, ghostVars, upSince>>
         /\ \E p \in Provider :
              /\ loaded' = [loaded EXCEPT ![q] = p] /\ Read(t, p.version) /\ loaded'[q] = p
              /\ Ready(q, at[t]) => problem' = problem /\ ReadAt(q, p.version, at[t])
              /\ problem' = problem \/ problem' = [problem EXCEPT ![t] = TRUE]
         /\ ProviderFits(q)'
<1>1. /\ TypeOK /\ now \in Nat /\ at[t] \in Nat /\ at[t] <= now
      /\ Selecting(t) /\ Goes(t) /\ Busy(t)
      /\ UNCHANGED <<now, history, tenant, at, config, cacheVars, ghostVars, upSince>>
  <2>1. Selecting(t) /\ Busy(t)
    BY DEF Select, SelectOk, SelectReports, Selecting, Busy
  <2> QED
    BY <2>1, Times DEF CacheInv, CountsFit, Select, SelectOk, SelectReports
<1>2. q \in Query /\ StoreOf[q] \in Store
  BY <1>1, BusyTenant, UpIsTime DEF Asked, Query
<1>3. Up(StoreOf[q]) => upSince[StoreOf[q]] \in Nat
  BY <1>2, UpIsTime
<1>4. loaded[q] # None =>
        /\ loaded[q] \in Provider /\ ProviderFits(q)
        /\ loaded[q].due \in Nat /\ loaded[q].backoff \in Nat
  BY <1>1, <1>2 DEF TypeOK, FreshInv, ProvidersAreFresh, Provider
<1>5. \A r, v, a : Held(r, v, a)' <=> Held(r, v, a)
  BY <1>1 DEF Held, CurrentAfter
<1>6. \A s : Up(s)' <=> Up(s)
  BY <1>1 DEF Up
<1>7. CASE SelectOk(t)
  <2> DEFINE p == Reread(q)
  <2>1. /\ p \in Provider /\ loaded' = [loaded EXCEPT ![q] = p] /\ Read(t, p.version)
        /\ problem' = problem
    BY <1>7, SelectOkKeeps DEF SelectOk
  <2>2. loaded'[q] = p
    BY <1>1, <1>2, <2>1 DEF TypeOK
  <2>3. CASE loaded[q] = None \/ now >= loaded[q].due
    <3>1. p = [version |-> Latest(q), due |-> now + ProviderInterval, backoff |-> 0]
      BY <2>3 DEF Reread, Fetched
    <3>2. p.version = Latest(q) /\ p.due = now + ProviderInterval /\ p.backoff = 0
      BY <3>1
    <3> HIDE DEF p
    <3>3. \A x : Held(q, p.version, x)
      BY <1>2, <3>2, LatestIsHeld
    <3>4. ProviderFits(q)'
      BY <1>1, <1>3, <1>5, <1>6, <2>2, <3>2, <3>3, Bounds DEF ProviderFits
    <3> QED
      BY <1>1, <1>2, <2>1, <2>2, <3>3, <3>4 DEF ReadAt
  <2>4. CASE ~(loaded[q] = None \/ now >= loaded[q].due)
    <3>1. p = loaded[q]
      BY <2>4 DEF Reread
    <3> HIDE DEF p
    <3>2. ProviderFits(q)'
      BY <1>1, <1>4, <1>5, <1>6, <2>2, <2>4, <3>1 DEF ProviderFits
    <3>3. ASSUME Ready(q, at[t])
          PROVE  ReadAt(q, p.version, at[t])
      <4>1. /\ Up(StoreOf[q]) /\ upSince[StoreOf[q]] \in Nat
            /\ upSince[StoreOf[q]] <= (at[t] + 1) - 2 * ProviderInterval
        BY <1>3, <3>3 DEF Ready, Settled
      <4>2. ~(loaded[q].due <= (upSince[StoreOf[q]] + 2 * ProviderInterval) - 1)
        BY <1>1, <1>4, <2>4, <4>1, Bounds
      <4>3. Held(q, loaded[q].version, loaded[q].due - ProviderInterval)
        BY <1>4, <2>4, <4>1, <4>2 DEF ProviderFits
      <4>4. /\ (at[t] + 1) - ProviderInterval \in Int /\ loaded[q].due - ProviderInterval \in Int
            /\ (at[t] + 1) - ProviderInterval <= loaded[q].due - ProviderInterval
        BY <1>1, <1>4, <2>4, Bounds
      <4> QED
        BY <1>1, <1>2, <3>1, <4>3, <4>4, HeldSince DEF ReadAt
    <3> QED
      BY <1>1, <1>2, <2>1, <2>2, <3>2, <3>3
  <2> QED
    BY <2>3, <2>4
<1>8. CASE SelectReports(t) /\ (~Reachable(t) \/ BackedOff(q))
  <2> DEFINE p == PutOffRefresh(q)
  <2>1. /\ p \in Provider /\ p.version = loaded[q].version
        /\ loaded' = [loaded EXCEPT ![q] = p] /\ Read(t, p.version)
        /\ problem' = [problem EXCEPT ![t] = TRUE] /\ loaded[q] # None
    BY <1>8, SelectReportsKeeps DEF SelectReports
  <2>2. loaded'[q] = p
    BY <1>1, <1>2, <2>1 DEF TypeOK
  <2>3. /\ p.due = now + ProviderInterval
        /\ p.backoff = IF BackedOff(q) THEN loaded[q].backoff ELSE now + ProviderInterval
    <3>1. PICK x \in Provider : x = loaded[q]
      BY <1>4, <2>1
    <3>2. PICK b : b = IF BackedOff(q) THEN x.backoff ELSE now + ProviderInterval
      OBVIOUS
    <3>3. p = [x EXCEPT !.due = now + ProviderInterval, !.backoff = b]
      BY <3>1, <3>2 DEF PutOffRefresh
    <3>4. p = [version |-> x.version, due |-> now + ProviderInterval, backoff |-> b]
      BY <3>3 DEF Provider
    <3> QED
      BY <3>1, <3>2, <3>4
  <2>4. /\ loaded[q].due \in Nat /\ loaded[q].backoff \in Nat /\ ProviderFits(q)
    BY <1>4, <2>1
  <2>5. BackedOff(q) => now < loaded[q].backoff
    BY DEF BackedOff
  <2>6. Up(StoreOf[q]) => BackedOff(q)
    BY <1>8 DEF Reachable
  <2> HIDE DEF p
  <2>7. ProviderFits(q)'
    <3>1. p.due <= now + ProviderInterval /\ p.backoff <= now + ProviderInterval
      BY <1>1, <2>3, <2>4, Bounds DEF ProviderFits
    <3>2. ASSUME Up(StoreOf[q])
          PROVE  /\ p.backoff <= upSince[StoreOf[q]] + ProviderInterval
                 /\ p.due <= (upSince[StoreOf[q]] + 2 * ProviderInterval) - 1
      <4>1. /\ loaded[q].backoff <= upSince[StoreOf[q]] + ProviderInterval
            /\ upSince[StoreOf[q]] \in Nat /\ now < loaded[q].backoff
            /\ p.backoff = loaded[q].backoff
        BY <1>3, <2>3, <2>4, <2>5, <2>6, <3>2 DEF ProviderFits
      <4> QED
        BY <1>1, <2>3, <2>4, <4>1, Bounds
    <3> QED
      BY <1>1, <1>6, <2>2, <3>1, <3>2 DEF ProviderFits
  <2>8. ~Ready(q, at[t])
    <3> SUFFICES ASSUME Ready(q, at[t]) PROVE FALSE
      OBVIOUS
    <3>1. /\ Up(StoreOf[q]) /\ upSince[StoreOf[q]] \in Nat
          /\ upSince[StoreOf[q]] <= (at[t] + 1) - 2 * ProviderInterval
      BY <1>3 DEF Ready, Settled
    <3>2. loaded[q].backoff <= upSince[StoreOf[q]] + ProviderInterval /\ now < loaded[q].backoff
      BY <2>4, <2>5, <2>6, <3>1 DEF ProviderFits
    <3> QED
      BY <1>1, <2>4, <3>1, <3>2, Bounds DEF Intervals
  <2> QED
    BY <1>1, <1>2, <2>1, <2>2, <2>7, <2>8
<1> QED
  BY <1>7, <1>8 DEF Select

LEMMA SelectKeepsFresh ==
  ASSUME CacheInv, AppTypeOK, AttemptsFit', FreshInv, Intervals, NEW t \in Thread, Select(t)
  PROVE  FreshInv'
<1>0. PICK q : q = Asked(t)
  OBVIOUS
<1>1. /\ q \in Query /\ Selecting(t) /\ Goes(t)
      /\ UNCHANGED <<now, history, tenant, at, config, cacheVars, ghostVars, upSince>>
      /\ ProviderFits(q)'
  BY <1>0, ReadsWhenReady
<1>2. PICK p \in Provider :
        /\ loaded' = [loaded EXCEPT ![q] = p] /\ Read(t, p.version)
        /\ Ready(q, at[t]) => problem' = problem /\ ReadAt(q, p.version, at[t])
        /\ problem' = problem \/ problem' = [problem EXCEPT ![t] = TRUE]
  BY <1>0, ReadsWhenReady
<1>3. /\ TypeOK /\ tenant[t] \in Tenant /\ \A s \in Thread \ {t} : ~Busy(s)
      /\ pc[t] \in {"shared", "own"}
  <2>1. Busy(t)
    BY <1>1 DEF Selecting, Busy
  <2> QED
    BY <1>1, <2>1, BusyTenant DEF CacheInv, Selecting
<1>4. /\ pc'[t] = (IF pc[t] = "shared" THEN "own" ELSE "conclude")
      /\ \A s \in Thread \ {t} : pc'[s] = pc[s] /\ problem'[s] = problem[s]
  BY <1>1, <1>2, <1>3 DEF Goes, TypeOK
<1>5. /\ pc[t] = "shared" => view'[t].shared = p.version
      /\ pc[t] = "own" => view'[t].own = p.version /\ view'[t].shared = view[t].shared
  BY <1>2, <1>3 DEF Read, TypeOK, View
<1>6. /\ \A r, v, a : Held(r, v, a)' <=> Held(r, v, a)
      /\ \A r, x : Settled(r, x)' <=> Settled(r, x)
      /\ \A r, v, x : ReadAt(r, v, x)' <=> ReadAt(r, v, x)
      /\ \A r, x : Ready(r, x)' <=> Ready(r, x)
      /\ \A n, v, x : ViewIsFresh(n, v, x)' <=> ViewIsFresh(n, v, x)
      /\ \A s : Up(s)' <=> Up(s)
  BY <1>1 DEF Held, CurrentAfter, Settled, Up, ReadAt, Ready, ViewIsFresh
<1>7. ProvidersAreFresh'
  <2> SUFFICES ASSUME NEW r \in Query, loaded'[r] # None PROVE ProviderFits(r)'
    BY DEF ProvidersAreFresh
  <2>1. CASE r = q
    BY <1>1, <2>1
  <2>2. CASE r # q
    <3>1. loaded'[r] = loaded[r]
      BY <1>2, <1>3, <2>2 DEF TypeOK
    <3>2. ProviderFits(r)
      BY <3>1 DEF FreshInv, ProvidersAreFresh
    <3> QED
      BY <1>1, <1>6, <3>1, <3>2 DEF ProviderFits
  <2> QED
    BY <2>1, <2>2
<1>8. CallsAreFresh'
  <2>1. ASSUME NEW s \in Thread, s # t
        PROVE  pc'[s] \notin {"own", "conclude"} /\ ~problem'[s]
    BY <1>3, <1>4, <2>1 DEF Busy, FreshInv, AttemptsFit
  <2>2. CASE pc[t] = "shared"
    <3>1. q = Shared /\ pc'[t] = "own" /\ view'[t].shared = p.version /\ ~problem[t]
      BY <1>0, <1>4, <1>5, <2>2 DEF Asked, FreshInv, AttemptsFit
    <3> QED
      BY <1>1, <1>2, <1>6, <2>1, <3>1 DEF CallsAreFresh
  <2>3. CASE pc[t] = "own"
    <3>1. /\ q = tenant[t] /\ pc'[t] = "conclude" /\ view'[t].own = p.version
          /\ view'[t].shared = view[t].shared
      BY <1>0, <1>4, <1>5, <2>3 DEF Asked
    <3>2. /\ Ready(Shared, at[t]) => ReadAt(Shared, view[t].shared, at[t])
          /\ problem[t] => ~Ready(Shared, at[t])
      BY <2>3 DEF FreshInv, CallsAreFresh
    <3> QED
      BY <1>1, <1>2, <1>6, <2>1, <3>1, <3>2 DEF CallsAreFresh
  <2> QED
    BY <1>3, <2>2, <2>3
<1>9. EntriesAreFresh'
  <2>1. \A s \in Thread : Busy(s)' <=> Busy(s)
    BY <1>3, <1>4 DEF Busy
  <2>2. UNCHANGED <<entries, configs, tenant>>
    BY <1>1
  <2> QED
    BY <1>6, <2>1, <2>2 DEF FreshInv, EntriesAreFresh
<1>10. AnswersAreFresh'
  <2>1. \A s \in Thread : pc'[s] = "respond" => pc[s] = "respond"
    BY <1>4
  <2>2. UNCHANGED <<tenant, at, config, configs>> /\ CatchUp' = CatchUp
    BY <1>1 DEF CatchUp
  <2> QED
    BY <1>6, <2>1, <2>2 DEF FreshInv, AnswersAreFresh
<1> QED
  BY <1>7, <1>8, <1>9, <1>10 DEF FreshInv

\* A request that came no later than the call under way wants nothing fresher than
\* what that call has read.
LEMMA ReadIsEnough ==
  ASSUME CacheInv, AppTypeOK, FreshInv, Intervals,
         NEW t \in Thread, pc[t] = "conclude", NEW s \in Thread
  PROVE  LET start == (at[s] + 1) - CatchUp IN
         Settled(Shared, start) /\ Settled(tenant[t], start) =>
           /\ ~problem[t]
           /\ Held(Shared, view[t].shared, start) /\ Held(tenant[t], view[t].own, start)
<1> DEFINE start == (at[s] + 1) - CatchUp
<1> SUFFICES ASSUME Settled(Shared, start), Settled(tenant[t], start)
             PROVE  /\ ~problem[t]
                    /\ Held(Shared, view[t].shared, start) /\ Held(tenant[t], view[t].own, start)
  OBVIOUS
<1>1. TypeOK /\ at[t] \in Nat /\ at[s] \in Nat /\ at[s] <= at[t]
  BY Times DEF CacheInv, FreshInv, AttemptsFit, Busy
<1>2. tenant[t] \in Query /\ Shared \in Query
  BY BusyTenant DEF Busy, Query
<1>3. /\ start \in Int /\ (at[t] + 1) - 2 * ProviderInterval \in Int
      /\ (at[t] + 1) - ProviderInterval \in Int
      /\ start <= (at[t] + 1) - 2 * ProviderInterval /\ start <= (at[t] + 1) - ProviderInterval
  BY <1>1, Moments, Bounds DEF Intervals
<1> HIDE DEF start
<1>4. Ready(Shared, at[t]) /\ Ready(tenant[t], at[t])
  BY <1>2, <1>3, SettledLater DEF Ready
<1>5. ~problem[t] /\ ReadAt(Shared, view[t].shared, at[t]) /\ ReadAt(tenant[t], view[t].own, at[t])
  BY <1>4 DEF FreshInv, CallsAreFresh
<1> QED
  BY <1>1, <1>2, <1>3, <1>5, HeldSince DEF ReadAt

LEMMA RefreshDoneKeepsFresh ==
  ASSUME CacheInv, AppTypeOK, AttemptsFit', FreshInv, Intervals, upSince' = upSince,
         NEW t \in Thread, RefreshDone(t)
  PROVE  FreshInv'
<1> DEFINE n == tenant[t]
           c == config[t]
<1>1. TypeOK /\ pc[t] = "conclude" /\ c # None /\ Busy(t) /\ Leave(t, "respond")
  BY DEF CacheInv, RefreshDone, Busy
<1>2. /\ n \in Tenant /\ entries[n] # None /\ entries[n].config = c
      /\ \A s \in Thread \ {t} : ~Busy(s) /\ pc'[s] = pc[s]
      /\ pc'[t] = "respond" /\ \A s \in Thread : ~Busy(s)'
  BY <1>1, Left DEF CallFits
<1>3. /\ configs' = [configs EXCEPT ![c] = [view |-> UpdatedView(t), errors |-> problem[t]]]
      /\ UNCHANGED <<loaded, history, entries, tenant, at, config, now>>
  BY <1>1 DEF RefreshDone, Leave
<1>4. /\ c \in Config /\ configs'[c].view = UpdatedView(t)
      /\ \A d \in Config \ {c} : configs'[d] = configs[d]
  BY <1>1, <1>3 DEF TypeOK
<1>5. /\ \A r, v, a : Held(r, v, a)' <=> Held(r, v, a)
      /\ \A r, x : Settled(r, x)' <=> Settled(r, x)
      /\ \A m, v, x : ViewIsFresh(m, v, x)' <=> ViewIsFresh(m, v, x)
      /\ \A s : Up(s)' <=> Up(s)
  BY <1>3 DEF Held, CurrentAfter, Settled, Up, ReadAt, Ready, ViewIsFresh
<1>6. ProvidersAreFresh'
  BY <1>3, <1>5 DEF FreshInv, ProvidersAreFresh, ProviderFits
<1>7. CallsAreFresh'
  <2>1. \A s \in Thread : pc'[s] \notin {"own", "conclude"} /\ ~problem'[s]
    BY <1>2 DEF Busy, AttemptsFit
  <2> QED
    BY <2>1 DEF CallsAreFresh
<1>8. entries[n].refreshedAt = at[t]
  BY <1>1, <1>2 DEF FreshInv, AttemptsFit
<1>9. ViewIsFresh(n, UpdatedView(t), at[t])
  BY <1>1 DEF FreshInv, CallsAreFresh, ViewIsFresh, UpdatedView
<1>10. \A m \in Tenant : entries[m] # None => entries[m].config \in Config
  BY <1>1, Times
<1>11. EntriesAreFresh'
  <2> SUFFICES ASSUME NEW m \in Tenant, entries[m] # None
               PROVE  ViewIsFresh(m, configs'[entries[m].config].view, entries[m].refreshedAt)
    BY <1>3, <1>5 DEF EntriesAreFresh
  <2>1. CASE m = n
    BY <1>2, <1>4, <1>8, <1>9, <2>1
  <2>2. CASE m # n
    <3>1. entries[m].config # c
      BY <1>2, <2>2 DEF CacheInv, ConfigsFit
    <3>2. \A s \in Thread : Busy(s) => tenant[s] # m
      BY <1>2, <2>2
    <3> QED
      BY <1>4, <1>10, <3>1, <3>2 DEF FreshInv, EntriesAreFresh
  <2> QED
    BY <2>1, <2>2
<1>12. ASSUME NEW s \in Thread, pc'[s] = "respond",
              Settled(Shared, (at[s] + 1) - CatchUp), Settled(tenant[s], (at[s] + 1) - CatchUp)
       PROVE  /\ Held(Shared, configs'[config[s]].view.shared, (at[s] + 1) - CatchUp)
              /\ Held(tenant[s], configs'[config[s]].view.own, (at[s] + 1) - CatchUp)
  <2>1. CASE config[s] = c
    <3>1. tenant[s] = n
      BY <1>1, <1>2, <2>1 DEF CacheInv, ConfigsFit
    <3>2. /\ ~problem[t] /\ Held(Shared, view[t].shared, (at[s] + 1) - CatchUp)
          /\ Held(n, view[t].own, (at[s] + 1) - CatchUp)
      BY <1>1, <1>12, <3>1, ReadIsEnough
    <3>3. UpdatedView(t) = view[t]
      BY <3>2 DEF UpdatedView
    <3> QED
      BY <1>4, <2>1, <3>1, <3>2, <3>3
  <2>2. CASE config[s] # c
    <3>1. s # t /\ pc[s] = "respond"
      BY <1>2, <1>12, <2>2
    <3>2. config[s] \in Config
      BY <1>1, <3>1 DEF CacheInv, LocalsFit, TypeOK
    <3> QED
      BY <1>4, <1>12, <2>2, <3>1, <3>2 DEF FreshInv, AnswersAreFresh
  <2> QED
    BY <2>1, <2>2
<1>13. AnswersAreFresh'
  <2>1. CatchUp' = CatchUp
    BY DEF CatchUp
  <2> QED
    BY <1>3, <1>5, <1>12, <2>1 DEF AnswersAreFresh
<1> QED
  BY <1>6, <1>7, <1>11, <1>13 DEF FreshInv

LEMMA LoadDoneKeepsFresh ==
  ASSUME CacheInv, AppTypeOK, AttemptsFit', FreshInv, Intervals, upSince' = upSince,
         NEW t \in Thread, LoadDone(t)
  PROVE  FreshInv'
<1> DEFINE n == tenant[t]
           c == config'[t]
<1>1. /\ TypeOK /\ pc[t] = "conclude" /\ config[t] = None /\ n \in Tenant /\ Busy(t)
      /\ Leave(t, "respond")
  BY Loaded DEF CacheInv, LoadDone, Busy
<1>2. /\ c \in Config /\ configs'[c].view = view[t]
      /\ \A s \in Thread : pc'[s] \notin {"own", "conclude"}
      /\ \A s \in Thread \ {t} : pc'[s] = pc[s] /\ config'[s] = config[s]
      /\ \A d \in Config \ {c} : configs'[d] = configs[d]
      /\ \A s \in Thread : config[s] # c
      /\ \A m \in Tenant : entries[m] # None => entries[m].config # c
      /\ loaded'[Shared] = loaded[Shared]
      /\ UNCHANGED <<now, history, tenant, at>>
  BY Loaded
<1>3. \A m \in Tenant :
        /\ loaded'[m] \in {loaded[m], None}
        /\ entries'[m] # None =>
             entries'[m] = IF m = n
                             THEN [config |-> c, loadedAt |-> at[t], refreshedAt |-> at[t]]
                             ELSE entries[m]
  BY Loaded
<1> HIDE DEF c
<1>4. /\ \A r, v, a : Held(r, v, a)' <=> Held(r, v, a)
      /\ \A r, x : Settled(r, x)' <=> Settled(r, x)
      /\ \A m, v, x : ViewIsFresh(m, v, x)' <=> ViewIsFresh(m, v, x)
      /\ \A s : Up(s)' <=> Up(s)
  BY <1>2 DEF Held, CurrentAfter, Settled, Up, ReadAt, Ready, ViewIsFresh
<1>5. ProvidersAreFresh'
  <2> SUFFICES ASSUME NEW q \in Query, loaded'[q] # None PROVE ProviderFits(q)'
    BY DEF ProvidersAreFresh
  <2>1. loaded'[q] = loaded[q]
    BY <1>2, <1>3 DEF Query
  <2>2. ProviderFits(q)
    BY <2>1 DEF FreshInv, ProvidersAreFresh
  <2> QED
    BY <1>2, <1>4, <2>1, <2>2 DEF ProviderFits
<1>6. CallsAreFresh'
  <2>1. \A s \in Thread : ~problem'[s]
    BY <1>2 DEF AttemptsFit
  <2> QED
    BY <1>2, <2>1 DEF CallsAreFresh
<1>7. \A s \in Thread \ {t} : ~Busy(s)
  BY <1>1, BusyTenant
<1>8. EntriesAreFresh'
  <2> SUFFICES ASSUME NEW m \in Tenant, entries'[m] # None
               PROVE  ViewIsFresh(m, configs'[entries'[m].config].view, entries'[m].refreshedAt)
    BY <1>4 DEF EntriesAreFresh
  <2>1. CASE m = n
    <3>1. entries'[m].config = c /\ entries'[m].refreshedAt = at[t]
      BY <1>3, <2>1
    <3>2. ViewIsFresh(n, view[t], at[t])
      BY <1>1 DEF FreshInv, CallsAreFresh, ViewIsFresh
    <3> QED
      BY <1>2, <2>1, <3>1, <3>2
  <2>2. CASE m # n
    <3>1. entries'[m] = entries[m] /\ entries[m] # None /\ entries[m].config # c
      BY <1>2, <1>3, <2>2
    <3>2. entries[m].config \in Config
      BY <1>1, <3>1, Times
    <3>3. \A s \in Thread : Busy(s) => tenant[s] # m
      BY <1>7, <2>2
    <3> QED
      BY <1>2, <3>1, <3>2, <3>3 DEF FreshInv, EntriesAreFresh
  <2> QED
    BY <2>1, <2>2
<1>9. ASSUME NEW s \in Thread, pc'[s] = "respond",
             Settled(Shared, (at[s] + 1) - CatchUp), Settled(tenant[s], (at[s] + 1) - CatchUp)
      PROVE  /\ Held(Shared, configs'[config'[s]].view.shared, (at[s] + 1) - CatchUp)
             /\ Held(tenant[s], configs'[config'[s]].view.own, (at[s] + 1) - CatchUp)
  <2>1. CASE s = t
    <3>1. /\ Held(Shared, view[t].shared, (at[t] + 1) - CatchUp)
          /\ Held(n, view[t].own, (at[t] + 1) - CatchUp)
      BY <1>1, <1>9, <2>1, ReadIsEnough
    <3> QED
      BY <1>2, <2>1, <3>1 DEF c
  <2>2. CASE s # t
    <3>1. pc[s] = "respond" /\ config'[s] = config[s] /\ config[s] # c
      BY <1>2, <1>9, <2>2
    <3>2. config[s] \in Config
      BY <1>1, <3>1 DEF CacheInv, LocalsFit, TypeOK
    <3> QED
      BY <1>2, <1>9, <3>1, <3>2 DEF FreshInv, AnswersAreFresh
  <2> QED
    BY <2>1, <2>2
<1>10. AnswersAreFresh'
  <2>1. CatchUp' = CatchUp
    BY DEF CatchUp
  <2> QED
    BY <1>2, <1>4, <1>9, <2>1 DEF AnswersAreFresh
<1> QED
  BY <1>5, <1>6, <1>8, <1>10 DEF FreshInv

LEMMA FreshInductive ==
  ASSUME Intervals
  PROVE  CacheInv /\ CacheInv' /\ AppTypeOK /\ FreshInv /\ [AppNext]_allVars => FreshInv'
<1> SUFFICES ASSUME CacheInv, CacheInv', AppTypeOK, FreshInv, [AppNext]_allVars
             PROVE  FreshInv'
  OBVIOUS
<1>1. AttemptsFit'
  BY StepOfCache, AttemptsKept DEF FreshInv
<1>2. CASE World
  <2>1. CASE Tick
    BY <1>1, <1>2, <2>1, QuietStepsKeepFresh DEF World
  <2>2. CASE \E q \in Changing : Write(q)
    BY <1>1, <1>2, <2>2, WriteKeepsFresh, ChangingAreQueries DEF World, Query
  <2> QED
    BY <1>2, <2>1, <2>2 DEF World
<1>3. CASE \E store \in Store : GoesDown(store) \/ ComesUp(store)
  BY <1>1, <1>3, StoresKeepFresh
<1>4. CASE UNCHANGED vars /\ upSince' = upSince
  BY <1>1, <1>4, QuietStepsKeepFresh
<1>5. ASSUME NEW t \in Thread, Route(t)
      PROVE  FreshInv'
  <2>1. ASSUME NEW n \in Tenant, RequestTenant(t, n)
        PROVE  FreshInv'
    BY <1>1, <2>1, QuietStepsKeepFresh DEF RequestTenant
  <2>2. CASE Select(t)
    BY <1>1, <2>2, SelectKeepsFresh
  <2>3. CASE Refresh(t)
    BY <1>1, <2>3, QuietStepsKeepFresh, RefreshDoneKeepsFresh DEF Refresh
  <2>4. CASE Load(t)
    BY <1>1, <2>4, LoadDoneKeepsFresh DEF Load
  <2>5. CASE Render(t) \/ StoreUnavailable(t)
    BY <1>1, <2>5, QuietStepsKeepFresh DEF Render, StoreUnavailable
  <2>6. CASE (\E raw \in Stranger : NotFound(t, raw)) \/ RejectEncoded(t) \/ Healthz(t)
               \/ Diagnostics(t) \/ Readyz(t)
    BY <1>4, <2>6 DEF NotFound, RejectEncoded, Healthz, Diagnostics, Readyz, Answers
  <2> QED
    BY <1>5, <2>1, <2>2, <2>3, <2>4, <2>5, <2>6 DEF Route
<1>6. CASE UNCHANGED allVars
  BY <1>4, <1>6
<1> QED
  BY <1>2, <1>3, <1>5, <1>6 DEF AppNext

\* After an outage everything that is rendered, shared settings included, catches
\* up within the cache's refresh interval and two of the provider's.
THEOREM FreshAgain ==
  ASSUME Intervals
  PROVE  AppSpec => []FreshAfterOutage
<1>1. FreshInv => FreshAfterOutage
  BY DEF FreshInv, AnswersAreFresh, FreshAfterOutage, Settled, Held, Rendered
<1>2. AppSpec => []FreshInv
  BY AppInvariant, AppTypeCorrect, FreshInitially, FreshInductive, PTL DEF AppSpec
<1> QED
  BY <1>1, <1>2, PTL
=============================================================================
