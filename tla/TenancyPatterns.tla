--------------------------- MODULE TenancyPatterns ---------------------------
(***************************************************************************)
(* The four tenancy patterns (samples/01 to 04) over the fake store: where *)
(* an operator puts a setting of a tenant or of all tenants, and what the  *)
(* source of the pattern selects for a tenant.  Settings are written,      *)
(* snapshots are created and expire, references are repointed, and stores  *)
(* become unavailable.                                                     *)
(***************************************************************************)
EXTENDS Naturals, Sequences, FiniteSets

CONSTANTS
  Tenant, Shared,  \* whose settings; both name prefixes and stores
  NameOrder,
  Values,          \* the values that the settings of a scope may have
  Snapshot, Contents, Retentions,  \* names, settings and retention of snapshots
  Referring,       \* whose settings may hold references to snapshots
  None,
  MaxTime          \* bound for TLC

Scope == Tenant \cup {Shared}
ASSUME ScopesDiffer == Shared \notin Tenant /\ None \notin Scope
ASSUME TimesAreNaturals == MaxTime \in Nat /\ Retentions \subseteq Nat \cup {None}
ASSUME NoneIsNoSnapshot ==
  None \notin {Contents[x] : x \in Snapshot} \cup
    [settings : {Contents[x] : x \in Snapshot}, created : Nat, retention : Retentions]

INSTANCE FakeStore WITH Prefix <- Scope

ASSUME NamesAreSorted ==
  /\ NameOrder \in Seq(Name)
  /\ \A i, j \in DOMAIN NameOrder : NameOrder[i] = NameOrder[j] => i = j
\* Snapshots are taken of keys with their prefixes.
ASSUME ContentsArePrefixed ==
  \A x \in Snapshot, name \in Name : Contents[x][[prefix |-> None, name |-> name]] = None

VARIABLES
  pattern,    \* the sample that is running
  settings,   \* _settings of each store
  snapshots,  \* _snapshots; sample 04 has one store
  unavailable,
  now

vars == <<pattern, settings, snapshots, unavailable, now>>

Pattern == {"key-prefix", "label", "store-per-tenant", "snapshot-references"}

Init ==
  /\ pattern \in Pattern
  /\ settings = [store \in Scope |-> {}]
  /\ snapshots = [x \in Snapshot |-> None]
  /\ unavailable = {}
  /\ now = 0

-----------------------------------------------------------------------------
(* Where the seeds put the settings of a scope.                            *)

StoreOf(scope) == IF pattern = "store-per-tenant" THEN scope ELSE Shared
PrefixOf(scope) ==
  IF pattern \in {"key-prefix", "snapshot-references"} THEN scope ELSE None
LabelOf(scope) == IF pattern = "label" /\ scope # Shared THEN scope ELSE None

\* Mutants: the old setting of the key and label stays, or all of the key go.
AllStay(store, key, label) == settings[store]
SameKeyGoes(store, key, label) == {s \in settings[store] : s.key # key}

Others(store, key, label) == {s \in settings[store] : s.key # key \/ s.label # label}

Put(scope, name, kind, value) ==
  LET key == [prefix |-> PrefixOf(scope), name |-> name] IN
  settings' = [settings EXCEPT ![StoreOf(scope)] =
    Others(StoreOf(scope), key, LabelOf(scope)) \cup
      {[key |-> key, label |-> LabelOf(scope), kind |-> kind, value |-> value]}]

Set(scope, name, value) ==
  /\ Put(scope, name, "value", value)
  /\ UNCHANGED <<pattern, snapshots, unavailable, now>>

\* Mutant: a snapshot of the same name is replaced.
Replaceable(x) == TRUE

NewName(x) == snapshots[x] = None

CreateSnapshot(x, retention) ==
  /\ pattern = "snapshot-references" /\ NewName(x)
  /\ snapshots' = [snapshots EXCEPT ![x] =
       [settings |-> Contents[x], created |-> now, retention |-> retention]]
  /\ UNCHANGED <<pattern, settings, unavailable, now>>

SetSnapshotReference(scope, name, x) ==
  /\ pattern = "snapshot-references" /\ scope \in Referring
  /\ Put(scope, name, "reference", x)
  /\ UNCHANGED <<pattern, snapshots, unavailable, now>>

\* A setting of the type of references whose value names no snapshot.
SetMalformed(scope, name) ==
  /\ pattern = "snapshot-references" /\ scope \in Referring
  /\ Put(scope, name, "malformed", None)
  /\ UNCHANGED <<pattern, snapshots, unavailable, now>>

Toggle(store) ==
  /\ \E scope \in Scope : store = StoreOf(scope)
  /\ unavailable' = (unavailable \ {store}) \cup ({store} \ unavailable)
  /\ UNCHANGED <<pattern, settings, snapshots, now>>

Tick ==
  /\ now < MaxTime /\ pattern = "snapshot-references"
  /\ now' = now + 1
  /\ UNCHANGED <<pattern, settings, snapshots, unavailable>>

Next ==
  \/ \E scope \in Scope, name \in Name :
       \/ \E v \in Values[scope] : Set(scope, name, v)
       \/ \E x \in Snapshot : SetSnapshotReference(scope, name, x)
       \/ SetMalformed(scope, name)
  \/ \E x \in Snapshot, r \in Retentions : CreateSnapshot(x, r)
  \/ (\E store \in Scope : Toggle(store)) \/ Tick

Spec == Init /\ [][Next]_vars

-----------------------------------------------------------------------------
(* What the source of the pattern selects.                                 *)

StoreFor(scope) == IF pattern = "store-per-tenant" THEN scope ELSE Shared
FilterFor(scope) ==
  IF pattern \in {"key-prefix", "snapshot-references"} THEN scope ELSE None
LabelFor(scope) == IF pattern = "label" /\ scope # Shared THEN scope ELSE None

Raises(scope) ==
  \/ StoreFor(scope) \in unavailable
  \/ SelectFails(settings[StoreFor(scope)], FilterFor(scope), LabelFor(scope))

Read(scope) ==
  Select(settings[StoreFor(scope)], snapshots, FilterFor(scope), LabelFor(scope),
         FilterFor(scope), now)

Merged(n) == Overlay(Read(Shared), Read(n))

\* The configuration a load of the tenant returns; None if it raises.
View(n) == IF Raises(Shared) \/ Raises(n) THEN None ELSE Merged(n)

-----------------------------------------------------------------------------
(* Properties.                                                             *)

Setting ==
  LET Of(kind, values) == [key : Key, label : Tenant \cup {None}, kind : {kind}, value : values]
  IN  Of("value", UNION {Values[scope] : scope \in Scope}) \cup Of("reference", Snapshot)
        \cup Of("malformed", {None})

\* Every field of the stores has its type, and a key with a label is set once.
TypeOK ==
  /\ pattern \in Pattern /\ unavailable \subseteq Scope /\ now \in 0 .. MaxTime
  /\ \A store \in Scope : \A s \in settings[store] :
       /\ s \in Setting
       /\ \A r \in settings[store] : r.key = s.key /\ r.label = s.label => r = s
  /\ \A x \in Snapshot : snapshots[x] = None \/
       /\ snapshots[x].settings = Contents[x] /\ snapshots[x].retention \in Retentions
       /\ snapshots[x].created \in 0 .. MaxTime

\* The settings that the operator has given a scope, however they are laid out.
Given(scope) ==
  {s \in settings[StoreOf(scope)] : s.key.prefix = PrefixOf(scope) /\ s.label = LabelOf(scope)}

Alive(x) ==
  /\ snapshots[x] # None
  /\ snapshots[x].retention # None => now < snapshots[x].created + snapshots[x].retention

\* What one of them says of the bare name x or of another key.
Says(scope, s, k) ==
  CASE s.kind = "value" -> IF k = [prefix |-> None, name |-> s.key.name] THEN s.value ELSE None
    [] s.kind = "reference" /\ Alive(s.value) ->
         CASE k.prefix = None -> snapshots[s.value].settings[[k EXCEPT !.prefix = scope]]
           [] k.prefix = scope -> None
           [] OTHER -> snapshots[s.value].settings[k]
    [] OTHER -> None

Place(s) == CHOOSE i \in DOMAIN NameOrder : NameOrder[i] = s.key.name

\* The settings of the scope that say something of k, and whether v is what
\* the last of them says.
Saying(scope, k) == {s \in Given(scope) : Says(scope, s, k) # None}
Holds(scope, k, v) ==
  \E s \in Saying(scope, k) :
    Says(scope, s, k) = v /\ \A r \in Saying(scope, k) : Place(r) <= Place(s)

\* Every pattern, through its own layout and its own selects, serves a tenant
\* the same: its own settings over the shared ones, in both the one that sorts
\* last, and an error only if a store it needs is unavailable or one of these
\* settings is malformed (tests/test_pattern_contract.py, fake.py).
EveryPatternServesTheSame ==
  \A n \in Tenant :
    IF \E scope \in {n, Shared} :
         StoreOf(scope) \in unavailable \/ \E s \in Given(scope) : s.kind = "malformed"
      THEN View(n) = None
      ELSE \A k \in Key :
        CASE Saying(n, k) # {} -> Holds(n, k, View(n)[k])
          [] Saying(n, k) = {} /\ Saying(Shared, k) # {} -> Holds(Shared, k, View(n)[k])
          [] OTHER -> View(n)[k] = None

References(scope) == {s.value : s \in {s \in Given(scope) : s.kind = "reference"}}

\* Nothing done to another tenant changes what a tenant is served: a step gives
\* settings to one scope only, and the view of a tenant changes only with its own
\* or the shared settings, with a snapshot that these refer to, or with a store
\* that it needs.
TenantsAreIsolated ==
  [][/\ \A n, m \in Scope : Given(n)' # Given(n) /\ Given(m)' # Given(m) => n = m
     /\ \A n \in Tenant : View(n)' # View(n) => \E scope \in {n, Shared} :
          \/ Given(scope)' # Given(scope)
          \/ \E x \in References(scope) : Alive(x)' # Alive(x)
          \/ (StoreOf(scope) \in unavailable)' # (StoreOf(scope) \in unavailable)]_vars

\* What a snapshot resolves to never changes until it expires, and an expired
\* one never comes back under its name.
SnapshotsAreFinal ==
  [][\A x \in Snapshot : snapshots[x] # None =>
       ResolveSnapshot(snapshots[x], now)' \in {ResolveSnapshot(snapshots[x], now), None}]_vars
=============================================================================
