-------------------------------- MODULE WebApp --------------------------------
(***************************************************************************)
(* The Flask application (src/src/mtappconfig/webapp.py) with the registry *)
(* of its tenants, over the cache of TenantCache and over stores that go   *)
(* down and come back: a select fails just when it has to reach a store    *)
(* that is down, or while its client still backs off.                      *)
(***************************************************************************)
EXTENDS TenantCache

CONSTANTS
  StoreOf,   \* the store of each query (_store_for)
  Stranger   \* identifiers no tenant is registered under

ASSUME StoresAreNamed == StoreOf[Shared] # None /\ Tenant \cap Stranger = {}

VARIABLES
  upSince,   \* since when each store has been up, or None while it is down
  answer,    \* the last response of each thread
  warmUntil  \* ghost: when the entry of each tenant loaded last expires

webVars == <<upSince, answer, warmUntil>>
allVars == <<vars, webVars>>

Store == {StoreOf[q] : q \in Query}
Up(store) == upSince[store] # None

\* TenantRegistry takes an identifier only once; sample 03 refuses to start when
\* a registered tenant has no store (validate_coverage).
Covered == \A n \in Tenant : StoreOf[n] # None

AppInit ==
  /\ Init /\ Covered
  /\ upSince = [store \in Store |-> 0]
  /\ answer = [t \in Thread |-> None]
  /\ warmUntil = [n \in Tenant |-> 0]

-----------------------------------------------------------------------------
(* The stores.                                                             *)

World == (Tick \/ \E q \in Changing : Write(q)) /\ UNCHANGED webVars

GoesDown(store) ==
  /\ Up(store)
  /\ upSince' = [upSince EXCEPT ![store] = None]
  /\ UNCHANGED <<vars, answer, warmUntil>>

ComesUp(store) ==
  /\ ~Up(store)
  /\ upSince' = [upSince EXCEPT ![store] = now]
  /\ UNCHANGED <<vars, answer, warmUntil>>

Reachable(t) == Up(StoreOf[Asked(t)])

\* A select of a provider that is loaded and not yet due stays in the process.
Local(t) == loaded[Asked(t)] # None /\ now < loaded[Asked(t)].due

-----------------------------------------------------------------------------
(* The routes.                                                             *)

\* /t/<tenant>/ and /t/<tenant>/api/config: _resolve, then config_cache.get.
RequestTenant(t, n) ==
  /\ GetMiss(t, n) \/ GetExpired(t, n) \/ GetHit(t, n) \/ GetHitDue(t, n)
  /\ UNCHANGED webVars

\* A request that neither the cache nor a tenant's store is asked for.
Answers(t, status) ==
  /\ pc[t] = "idle"
  /\ answer' = [answer EXCEPT ![t] = status]
  /\ UNCHANGED <<vars, upSince, warmUntil>>

\* An encoded separator in the path is refused whatever the path decodes to.
RejectEncoded(t) == Answers(t, 404)

\* An identifier that is malformed or that no tenant has.
Unknown(raw) == raw \notin Tenant
NotFound(t, raw) == Unknown(raw) /\ Answers(t, 404)

Healthz(t) == Answers(t, 200)

\* It takes the lock of the cache.
Diagnostics(t) == LockFree /\ Answers(t, 200)

Select(t) ==
  /\ \/ SelectOk(t) /\ (Reachable(t) \/ Local(t))
     \/ SelectReports(t) /\ (~Reachable(t) \/ BackedOff(Asked(t)))
  /\ UNCHANGED webVars

Refresh(t) ==
  /\ RefreshDone(t) \/ (RefreshRaises(t) /\ ~Reachable(t) /\ ~Local(t))
  /\ UNCHANGED webVars

Load(t) ==
  /\ LoadDone(t)
  /\ warmUntil' = [warmUntil EXCEPT ![tenant[t]] = at[t] + Ttl]
  /\ UNCHANGED <<upSince, answer>>

\* The values are rendered after get has returned.
Render(t) ==
  /\ Respond(t)
  /\ answer' = [answer EXCEPT ![t] = 200]
  /\ UNCHANGED <<upSince, warmUntil>>

\* get raised ConfigStoreUnavailableError: the handler answers without details.
StoreUnavailable(t) ==
  /\ LoadRaises(t) /\ ~Reachable(t) /\ ~Local(t)
  /\ answer' = [answer EXCEPT ![t] = 503]
  /\ UNCHANGED <<upSince, warmUntil>>

\* /readyz pings the shared store alone, past the cache.
Readyz(t) == Answers(t, IF Up(StoreOf[Shared]) THEN 200 ELSE 503)

Route(t) ==
  \/ \E n \in Tenant : RequestTenant(t, n)
  \/ \E raw \in Stranger : NotFound(t, raw)
  \/ Select(t) \/ Refresh(t) \/ Load(t) \/ Render(t) \/ StoreUnavailable(t)
  \/ RejectEncoded(t) \/ Healthz(t) \/ Diagnostics(t) \/ Readyz(t)

AppNext ==
  \/ World
  \/ \E store \in Store : GoesDown(store) \/ ComesUp(store)
  \/ \E t \in Thread : Route(t)

AppSpec == AppInit /\ [][AppNext]_allVars

-----------------------------------------------------------------------------
(* Properties.                                                             *)

\* Every variable of the application has its type, those of the cache included.
AppTypeOK ==
  /\ TypeOK
  /\ upSince \in [Store -> 0 .. MaxTime \cup {None}]
  /\ answer \in [Thread -> {200, 404, 503, None}]
  /\ warmUntil \in [Tenant -> 0 .. MaxTime + Ttl]

\* With room for all tenants, a tenant whose configuration was loaded less than
\* the time-to-live before a request is served whatever is down: only a request
\* that finds nothing cached, or nothing that is young enough, is answered 503
\* (docs/implementation-notes.md, "Reliability").
WarmIsServed ==
  [][\A t \in Thread : pc[t] # "idle" /\ answer'[t] = 503 /\ pc'[t] = "idle" =>
       at[t] >= warmUntil[tenant[t]]]_allVars

\* After an outage it takes up to the refresh interval of the cache and twice
\* that of the provider until what is rendered has caught up: a client that
\* failed backs off, and a refresh tried before the end of that is put off.
CatchUp == RefreshInterval + 2 * ProviderInterval - 1

\* A request that comes when the stores its tenant needs have been up for that
\* long is rendered no setting, shared or own, replaced so long ago.
FreshAfterOutage ==
  \A t \in Thread : pc[t] = "respond" =>
    LET start == (at[t] + 1) - CatchUp IN
    (\A q \in {Shared, tenant[t]} : Up(StoreOf[q]) /\ upSince[StoreOf[q]] <= start) =>
      /\ CurrentAfter(Shared, Rendered(t).shared, start)
      /\ CurrentAfter(tenant[t], Rendered(t).own, start)

\* The time-to-live bounds how old the settings of an entry are (cache.py).
SettingsWithinTtl ==
  \A t \in Thread : pc[t] = "respond" =>
    /\ CurrentAfter(tenant[t], Rendered(t).own, (at[t] + 1) - Ttl)
    /\ CurrentAfter(Shared, Rendered(t).shared, (at[t] + 1) - Ttl)
=============================================================================
