------------------------ MODULE TenancyPatterns_proofs ------------------------
(***************************************************************************)
(* For any tenants, names, values and snapshots: the stores of the four    *)
(* patterns keep their types, what a snapshot resolves to is final, no     *)
(* tenant depends on another, and every pattern serves what its layout     *)
(* says.                                                                   *)
(***************************************************************************)
EXTENDS TenancyPatterns, WellFoundedInduction, TLAPS

-----------------------------------------------------------------------------
(* The type invariant, store by store.                                     *)

SetOnce(store) == \A r, s \in settings[store] : r.key = s.key /\ r.label = s.label => r = s
StoreOK(store) == settings[store] \subseteq Setting /\ SetOnce(store)
SnapshotOf(x) == [settings : {Contents[x]}, created : 0 .. MaxTime, retention : Retentions]

StoresInv ==
  /\ pattern \in Pattern /\ unavailable \subseteq Scope /\ now \in 0 .. MaxTime
  /\ DOMAIN settings = Scope /\ \A store \in Scope : StoreOK(store)
  /\ DOMAIN snapshots = Snapshot
  /\ \A x \in Snapshot : snapshots[x] \in SnapshotOf(x) \cup {None}

LEMMA Initially == Init => StoresInv
BY TimesAreNaturals
DEF Init, StoresInv, StoreOK, SetOnce

\* The setting that is put replaces the one with its key and label, if any.
LEMMA PutStep ==
  ASSUME StoresInv, NEW scope \in Scope, NEW name \in Name, NEW kind, NEW value,
         \A label \in Tenant \cup {None}, key \in Key :
           [key |-> key, label |-> label, kind |-> kind, value |-> value] \in Setting,
         Put(scope, name, kind, value), UNCHANGED <<pattern, snapshots, unavailable, now>>
  PROVE  StoresInv'
<1> PICK store \in Scope : store = StoreOf(scope)
  BY DEF StoreOf, Scope
<1> DEFINE key == [prefix |-> PrefixOf(scope), name |-> name]
           new == [key |-> key, label |-> LabelOf(scope), kind |-> kind, value |-> value]
<1>1. key \in Key /\ LabelOf(scope) \in Tenant \cup {None}
  BY DEF PrefixOf, LabelOf, Scope, Key
<1>2. new \in Setting /\ new.key = key /\ new.label = LabelOf(scope)
  BY <1>1
<1>3. settings' = [settings EXCEPT ![store] = Others(store, key, LabelOf(scope)) \cup {new}]
  BY DEF Put
<1> HIDE DEF key, new
<1>4. settings'[store] = Others(store, key, LabelOf(scope)) \cup {new}
  BY <1>1, <1>3 DEF StoresInv
<1>5. settings[store] \subseteq Setting /\ SetOnce(store)
  BY <1>1 DEF StoresInv, StoreOK
<1>6. StoreOK(store)'
  <2>1. settings'[store] \subseteq Setting
    BY <1>2, <1>4, <1>5 DEF Others
  <2>2. \A r, s \in settings'[store] : r.key = s.key /\ r.label = s.label => r = s
    BY <1>2, <1>4, <1>5 DEF Others, SetOnce
  <2> QED
    BY <2>1, <2>2 DEF StoreOK, SetOnce
<1>7. \A other \in Scope \ {store} : StoreOK(other)'
  BY <1>1, <1>3 DEF StoresInv, StoreOK, SetOnce
<1> QED
  <2>1. \A other \in Scope : StoreOK(other)'
    BY <1>6, <1>7
  <2>2. DOMAIN settings' = Scope
    BY <1>3 DEF StoresInv
  <2> QED
    BY <2>1, <2>2 DEF StoresInv, SnapshotOf

LEMMA Inductive == StoresInv /\ [Next]_vars => StoresInv'
<1> SUFFICES ASSUME StoresInv, [Next]_vars PROVE StoresInv'
  OBVIOUS
<1>1. ASSUME NEW scope \in Scope, NEW name \in Name, NEW v \in Values[scope],
             Set(scope, name, v)
      PROVE  StoresInv'
  <2>1. \A label \in Tenant \cup {None}, key \in Key :
          [key |-> key, label |-> label, kind |-> "value", value |-> v] \in Setting
    BY <1>1 DEF Setting
  <2> QED
    BY <1>1, <2>1, PutStep DEF Set
<1>2. ASSUME NEW scope \in Scope, NEW name \in Name, NEW x \in Snapshot,
             SetSnapshotReference(scope, name, x)
      PROVE  StoresInv'
  <2>1. \A label \in Tenant \cup {None}, key \in Key :
          [key |-> key, label |-> label, kind |-> "reference", value |-> x] \in Setting
    BY <1>2 DEF Setting
  <2> QED
    BY <1>2, <2>1, PutStep DEF SetSnapshotReference
<1>3. ASSUME NEW scope \in Scope, NEW name \in Name, SetMalformed(scope, name)
      PROVE  StoresInv'
  <2>1. \A label \in Tenant \cup {None}, key \in Key :
          [key |-> key, label |-> label, kind |-> "malformed", value |-> None] \in Setting
    BY DEF Setting
  <2> QED
    BY <1>3, <2>1, PutStep DEF SetMalformed
<1>4. ASSUME NEW x \in Snapshot, NEW r \in Retentions, CreateSnapshot(x, r)
      PROVE  StoresInv'
  BY <1>4 DEF CreateSnapshot, StoresInv, StoreOK, SetOnce, SnapshotOf
<1>5. ASSUME NEW store \in Scope, Toggle(store) PROVE StoresInv'
  BY <1>5 DEF Toggle, StoresInv, StoreOK, SetOnce, SnapshotOf
<1>6. CASE Tick
  BY <1>6, TimesAreNaturals DEF Tick, StoresInv, StoreOK, SetOnce, SnapshotOf
<1>7. CASE UNCHANGED vars
  BY <1>7 DEF vars, StoresInv, StoreOK, SetOnce, SnapshotOf
<1> QED
  BY <1>1, <1>2, <1>3, <1>4, <1>5, <1>6, <1>7 DEF Next

LEMMA Invariant == Spec => []StoresInv
BY Initially, Inductive, PTL DEF Spec

\* Every field of the stores keeps its type, and a key with a label is set once,
\* whatever is written, in every pattern (fake.py, set).
THEOREM TypeCorrect == Spec => []TypeOK
<1>1. StoresInv => TypeOK
  BY DEF StoresInv, StoreOK, SetOnce, SnapshotOf, TypeOK
<1> QED
  BY <1>1, Invariant, PTL

-----------------------------------------------------------------------------

\* Snapshots are created under new names only, and time only runs on.
LEMMA Kept ==
  ASSUME StoresInv, [Next]_vars, NEW x \in Snapshot, snapshots[x] # None
  PROVE  snapshots'[x] = snapshots[x] /\ now \in Nat /\ now' \in Nat /\ now' >= now
<1>1. now \in Nat
  BY TimesAreNaturals DEF StoresInv
<1> QED
  BY <1>1 DEF StoresInv, Next, vars, Set, SetSnapshotReference, SetMalformed, CreateSnapshot,
              NewName, Toggle, Tick

\* A snapshot that exists resolves to the same settings until it expires, and
\* never again after that (fake.py, create_snapshot and _resolve_snapshot).
THEOREM SnapshotsFinal == Spec => SnapshotsAreFinal
<1> DEFINE Final(x) == snapshots[x] # None =>
      ResolveSnapshot(snapshots[x], now)' \in {ResolveSnapshot(snapshots[x], now), None}
<1>1. ASSUME StoresInv, [Next]_vars, NEW x \in Snapshot PROVE Final(x)
  <2> SUFFICES ASSUME snapshots[x] # None PROVE Final(x)
    OBVIOUS
  <2>1. snapshots'[x] = snapshots[x] /\ now \in Nat /\ now' \in Nat /\ now' >= now
    BY <1>1, Kept
  <2>2. snapshots[x].created \in Nat /\ snapshots[x].retention \in Nat \cup {None}
    <3>1. snapshots[x] \in SnapshotOf(x)
      BY <1>1 DEF StoresInv
    <3>2. snapshots[x].created \in 0 .. MaxTime /\ snapshots[x].retention \in Retentions
      BY <3>1 DEF SnapshotOf
    <3>3. snapshots[x].retention \in Nat \cup {None}
      BY <3>2, TimesAreNaturals, Zenon
    <3> QED
      BY <3>2, <3>3, TimesAreNaturals
  <2>3. Retained(snapshots[x], now)' => Retained(snapshots[x], now)
    BY <2>1, <2>2 DEF Retained
  <2> QED
    BY <2>1, <2>3 DEF ResolveSnapshot
<1>2. StoresInv /\ [Next]_vars => [\A x \in Snapshot : Final(x)]_vars
  BY <1>1
<1> QED
  BY <1>2, Invariant, PTL DEF Spec, SnapshotsAreFinal

-----------------------------------------------------------------------------
(* Isolation: a view is made of what its two scopes were given.            *)

\* Where keys have no prefix, the label or the store tells the scopes apart.
LaidOut ==
  PrefixOf(Shared) = None => \A store \in Scope : \A s \in settings[store] : s.key.prefix = None

LEMMA LaidOutInitially == Init => LaidOut
BY DEF Init, LaidOut

\* No two scopes share a store, a prefix and a label.
LEMMA ScopesApart ==
  ASSUME StoresInv, NEW n \in Scope, NEW m \in Scope, StoreOf(n) = StoreOf(m),
         PrefixOf(n) = PrefixOf(m), LabelOf(n) = LabelOf(m)
  PROVE  n = m
BY ScopesDiffer DEF StoresInv, Pattern, StoreOf, PrefixOf, LabelOf

\* What is put into a store belongs to one scope.
LEMMA PutGives ==
  ASSUME StoresInv, NEW scope \in Scope, NEW name \in Name, NEW kind, NEW value,
         Put(scope, name, kind, value), pattern' = pattern
  PROVE  /\ \A n \in Scope \ {scope} : Given(n)' = Given(n)
         /\ LaidOut => LaidOut'
<1> PICK store \in Scope : store = StoreOf(scope)
  BY DEF StoreOf, Scope
<1> DEFINE key == [prefix |-> PrefixOf(scope), name |-> name]
           new == [key |-> key, label |-> LabelOf(scope), kind |-> kind, value |-> value]
<1>1. /\ new.key.prefix = PrefixOf(scope) /\ new.label = LabelOf(scope)
      /\ key.prefix = PrefixOf(scope)
  OBVIOUS
<1>2. settings' = [settings EXCEPT ![store] = Others(store, key, LabelOf(scope)) \cup {new}]
  BY DEF Put
<1> HIDE DEF key, new
<1>3. DOMAIN settings = Scope
  BY DEF StoresInv
<1>4. \A other \in Scope : \A s :
        (other # store \/ s.key.prefix # PrefixOf(scope) \/ s.label # LabelOf(scope))
          => (s \in settings'[other] <=> s \in settings[other])
  BY <1>1, <1>2, <1>3 DEF Others
<1>5. ASSUME NEW n \in Scope \ {scope} PROVE Given(n)' = Given(n)
  <2>1. StoreOf(n)' = StoreOf(n) /\ PrefixOf(n)' = PrefixOf(n) /\ LabelOf(n)' = LabelOf(n)
    BY DEF StoreOf, PrefixOf, LabelOf
  <2>2. StoreOf(n) # store \/ PrefixOf(n) # PrefixOf(scope) \/ LabelOf(n) # LabelOf(scope)
    BY ScopesApart
  <2>3. StoreOf(n) \in Scope
    BY DEF StoreOf, Scope
  <2> QED
    BY <1>4, <2>1, <2>2, <2>3 DEF Given
<1>6. ASSUME LaidOut PROVE LaidOut'
  <2>1. PrefixOf(Shared)' = PrefixOf(Shared) /\ (PrefixOf(Shared) = None => PrefixOf(scope) = None)
    BY ScopesDiffer DEF PrefixOf, Scope
  <2> QED
    BY <1>1, <1>2, <1>3, <1>6, <2>1 DEF LaidOut, Others
<1> QED
  BY <1>5, <1>6

\* The filter and label of a scope's select find just what the scope was given.
LEMMA SelectedIsGiven ==
  ASSUME StoresInv, LaidOut, NEW scope \in Scope
  PROVE  Selected(settings[StoreFor(scope)], FilterFor(scope), LabelFor(scope)) = Given(scope)
<1>1. /\ StoreFor(scope) = StoreOf(scope) /\ FilterFor(scope) = PrefixOf(scope)
      /\ LabelFor(scope) = LabelOf(scope) /\ StoreOf(scope) \in Scope
  BY DEF StoreFor, StoreOf, FilterFor, PrefixOf, LabelFor, LabelOf, Scope
<1>2. PrefixOf(scope) = None => PrefixOf(Shared) = None
  BY ScopesDiffer DEF PrefixOf, Scope
<1> QED
  BY <1>1, <1>2 DEF Selected, MatchesKey, MatchesLabel, Given, LaidOut

LEMMA LaidOutStep == StoresInv /\ LaidOut /\ [Next]_vars => LaidOut'
<1> SUFFICES ASSUME StoresInv, LaidOut, [Next]_vars PROVE LaidOut'
  OBVIOUS
<1>1. CASE UNCHANGED <<pattern, settings>>
  BY <1>1 DEF LaidOut, PrefixOf
<1>2. CASE \E scope \in Scope, name \in Name : \E kind, value :
             Put(scope, name, kind, value) /\ pattern' = pattern
  BY <1>2, PutGives
<1> QED
  BY <1>1, <1>2 DEF Next, vars, Set, SetSnapshotReference, SetMalformed, CreateSnapshot, Toggle, Tick

\* What a select returns depends on what it finds and on what that adds.
LEMMA SelectDepends ==
  ASSUME NEW found, NEW stored1, NEW snaps1, NEW time1, NEW stored2, NEW snaps2, NEW time2,
         NEW filter, NEW label, NEW trim,
         Selected(stored1, filter, label) = found, Selected(stored2, filter, label) = found,
         \A s \in found :
           Contribution(s, snaps1, trim, time1) = Contribution(s, snaps2, trim, time2)
  PROVE  Select(stored1, snaps1, filter, label, trim, time1)
           = Select(stored2, snaps2, filter, label, trim, time2)
<1> DEFINE Adds(stored, snaps, time) == [name \in Name |->
      {Contribution(s, snaps, trim, time) :
         s \in {s \in Selected(stored, filter, label) : s.key.name = name}}]
<1>1. Adds(stored1, snaps1, time1) = Adds(stored2, snaps2, time2)
  <2>1. ASSUME NEW name \in Name
        PROVE  {Contribution(s, snaps1, trim, time1) : s \in {s \in found : s.key.name = name}}
                 = {Contribution(s, snaps2, trim, time2) : s \in {s \in found : s.key.name = name}}
    OBVIOUS
  <2> QED
    BY <2>1
<1> QED
  BY <1>1 DEF Select

\* As long as the snapshots it refers to stay alive or not, a given setting adds
\* the same.
LEMMA AddsTheSame ==
  ASSUME StoresInv, [Next]_vars, NEW s \in Setting, s.kind # "malformed",
         s.kind = "reference" => Alive(s.value)' = Alive(s.value), NEW trim
  PROVE  Contribution(s, snapshots', trim, now') = Contribution(s, snapshots, trim, now)
<1>1. CASE s.kind = "value"
  BY <1>1 DEF Contribution
<1>2. CASE s.kind = "reference"
  <2> PICK x \in Snapshot : s.value = x
    BY <1>2 DEF Setting
  <2>1. Alive(x)' = Alive(x)
    BY <1>2
  <2>2. ASSUME Alive(x) PROVE snapshots'[x] = snapshots[x]
    BY <2>2, Kept DEF Alive
  <2>3. /\ ResolveSnapshot(snapshots[x], now) = IF Alive(x) THEN snapshots[x].settings ELSE None
        /\ ResolveSnapshot(snapshots'[x], now')
             = IF Alive(x)' THEN snapshots'[x].settings ELSE None
    <3>1. now \in Nat /\ now' \in Nat
      BY TimesAreNaturals, Inductive DEF StoresInv
    <3>2. \A y \in SnapshotOf(x) :
            y.created \in Nat /\ (y.retention # None => y.retention \in Nat)
      <4>1. \A y \in SnapshotOf(x) : y.created \in 0 .. MaxTime /\ y.retention \in Retentions
        BY DEF SnapshotOf
      <4>2. \A y \in SnapshotOf(x) : y.retention # None => y.retention \in Nat
        BY <4>1, TimesAreNaturals, Zenon
      <4> QED
        BY <4>1, <4>2, TimesAreNaturals
    <3>3. /\ snapshots[x] # None => snapshots[x] \in SnapshotOf(x)
          /\ snapshots'[x] # None => snapshots'[x] \in SnapshotOf(x)
      BY Inductive DEF StoresInv, SnapshotOf
    <3> QED
      BY <3>1, <3>2, <3>3 DEF ResolveSnapshot, Retained, Alive
  <2>4. ResolveSnapshot(snapshots'[x], now') = ResolveSnapshot(snapshots[x], now)
    BY <2>1, <2>2, <2>3
  <2> QED
    BY <1>2, <2>4 DEF Contribution
<1> QED
  BY <1>1, <1>2 DEF Setting

\* The select for a scope changes only with what it was given, a snapshot that
\* this refers to, or its store.
LEMMA ScopeKept ==
  ASSUME StoresInv, LaidOut, [Next]_vars, NEW scope \in Scope, Given(scope)' = Given(scope),
         \A x \in References(scope) : Alive(x)' = Alive(x),
         (StoreOf(scope) \in unavailable)' = (StoreOf(scope) \in unavailable)
  PROVE  /\ Raises(scope)' = Raises(scope)
         /\ ~Raises(scope) => Read(scope)' = Read(scope)
<1> DEFINE found == Given(scope)
<1>1. pattern' = pattern
  BY DEF Next, vars, Set, SetSnapshotReference, SetMalformed, CreateSnapshot, Toggle, Tick
<1>2. /\ StoreFor(scope)' = StoreFor(scope) /\ FilterFor(scope)' = FilterFor(scope)
      /\ LabelFor(scope)' = LabelFor(scope) /\ StoreFor(scope) = StoreOf(scope)
      /\ StoreOf(scope)' = StoreOf(scope)
  BY <1>1 DEF StoreFor, StoreOf, FilterFor, LabelFor
<1>3. /\ Selected(settings[StoreFor(scope)], FilterFor(scope), LabelFor(scope)) = found
      /\ Selected(settings'[StoreFor(scope)], FilterFor(scope), LabelFor(scope)) = found
  <2>1. StoresInv' /\ LaidOut'
    BY Inductive, LaidOutStep
  <2>2. Selected(settings[StoreFor(scope)], FilterFor(scope), LabelFor(scope)) = found
    BY SelectedIsGiven
  <2>3. /\ FilterFor(scope) = PrefixOf(scope) /\ LabelFor(scope) = LabelOf(scope)
        /\ PrefixOf(scope)' = PrefixOf(scope) /\ PrefixOf(Shared)' = PrefixOf(Shared)
        /\ LabelOf(scope)' = LabelOf(scope) /\ StoreOf(scope) \in Scope
        /\ PrefixOf(scope) = None => PrefixOf(Shared) = None
    BY <1>1, ScopesDiffer DEF FilterFor, PrefixOf, LabelFor, LabelOf, StoreOf, Scope
  <2>4. Selected(settings'[StoreOf(scope)], PrefixOf(scope), LabelOf(scope)) = Given(scope)'
    BY <1>2, <2>1, <2>3 DEF Selected, MatchesKey, MatchesLabel, Given, LaidOut
  <2> QED
    BY <1>2, <2>2, <2>3, <2>4
<1>4. Raises(scope)' = Raises(scope)
  BY <1>2, <1>3 DEF Raises, SelectFails
<1>5. ASSUME ~Raises(scope) PROVE Read(scope)' = Read(scope)
  <2>1. found \subseteq Setting
    BY <1>2 DEF Given, StoresInv, StoreOK, StoreOf, Scope
  <2>2. \A s \in found : s.kind # "malformed"
    BY <1>3, <1>5 DEF Raises, SelectFails
  <2>3. \A s \in found : s.kind = "reference" => Alive(s.value)' = Alive(s.value)
    BY DEF References
  <2>4. \A s \in found : Contribution(s, snapshots', FilterFor(scope), now')
                           = Contribution(s, snapshots, FilterFor(scope), now)
    BY <2>1, <2>2, <2>3, AddsTheSame
  <2>5. Select(settings'[StoreFor(scope)], snapshots', FilterFor(scope), LabelFor(scope),
               FilterFor(scope), now')
          = Select(settings[StoreFor(scope)], snapshots, FilterFor(scope), LabelFor(scope),
                   FilterFor(scope), now)
    BY <1>3, <2>4, SelectDepends
  <2> QED
    BY <1>2, <2>5 DEF Read
<1> QED
  BY <1>4, <1>5

\* In every pattern a step gives settings to one scope only, and what a tenant is
\* served changes only with its own or the shared settings, a snapshot that these
\* refer to, or a store that it needs (tests/test_pattern_contract.py).
THEOREM Isolated == Spec => TenantsAreIsolated
<1> DEFINE OneScope ==
             \A n, m \in Scope : Given(n)' # Given(n) /\ Given(m)' # Given(m) => n = m
           OwnCauses == \A n \in Tenant : View(n)' # View(n) => \E scope \in {n, Shared} :
             \/ Given(scope)' # Given(scope)
             \/ \E x \in References(scope) : Alive(x)' # Alive(x)
             \/ (StoreOf(scope) \in unavailable)' # (StoreOf(scope) \in unavailable)
<1>1. ASSUME StoresInv, [Next]_vars PROVE OneScope
  <2>1. CASE UNCHANGED <<pattern, settings>>
    BY <2>1 DEF Given, StoreOf, PrefixOf, LabelOf
  <2>2. CASE \E scope \in Scope, name \in Name : \E kind, value :
               Put(scope, name, kind, value) /\ pattern' = pattern
    <3> PICK scope \in Scope : \A n \in Scope \ {scope} : Given(n)' = Given(n)
      BY <1>1, <2>2, PutGives
    <3> QED
      OBVIOUS
  <2> QED
    BY <1>1, <2>1, <2>2
    DEF Next, vars, Set, SetSnapshotReference, SetMalformed, CreateSnapshot, Toggle, Tick
<1>2. ASSUME StoresInv, LaidOut, [Next]_vars PROVE OwnCauses
  <2> SUFFICES ASSUME NEW n \in Tenant,
                      \A scope \in {n, Shared} :
                        /\ Given(scope)' = Given(scope)
                        /\ \A x \in References(scope) : Alive(x)' = Alive(x)
                        /\ (StoreOf(scope) \in unavailable)' = (StoreOf(scope) \in unavailable)
               PROVE  View(n)' = View(n)
    OBVIOUS
  <2>1. \A scope \in {n, Shared} :
          Raises(scope)' = Raises(scope) /\ (~Raises(scope) => Read(scope)' = Read(scope))
    BY <1>2, ScopeKept DEF Scope
  <2> QED
    BY <2>1 DEF View, Merged, Overlay
<1>3. Spec => []LaidOut
  BY Invariant, LaidOutInitially, LaidOutStep, PTL DEF Spec
<1>4. StoresInv /\ LaidOut /\ [Next]_vars => [OneScope /\ OwnCauses]_vars
  BY <1>1, <1>2
<1> QED
  BY <1>3, <1>4, Invariant, PTL DEF Spec, TenantsAreIsolated

-----------------------------------------------------------------------------
(* The last name wins: induction over the sorted names.                    *)
LEMMA NaturalsByInduction ==
  ASSUME NEW S, 0 \in S, \A n \in Nat : n \in S => n + 1 \in S
  PROVE  Nat \subseteq S
<1> DEFINE Missing == Nat \ S
           Less == OpToRel(<, Nat)
<1> SUFFICES ASSUME Missing # {} PROVE FALSE
  OBVIOUS
<1>1. PICK m \in Missing : \A n \in Missing : <<n, m>> \notin Less
  <2>1. IsWellFoundedOn(Less, Nat)
    BY NatLessThanWellFounded
  <2>2. Missing \subseteq Nat
    OBVIOUS
  <2> HIDE DEF Less, Missing
  <2> QED
    BY <2>1, <2>2, WFMin
<1>2. \A n \in Nat : n < m => <<n, m>> \in Less
  BY DEF OpToRel
<1>3. m # 0 /\ m - 1 \in Nat /\ m - 1 < m /\ m = (m - 1) + 1
  OBVIOUS
<1>4. m - 1 \in S
  BY <1>1, <1>2, <1>3
<1> QED
  BY <1>3, <1>4

\* What the names up to the i-th add, as the fold defines it.
Adding(added, g, i) ==
  IF i = 0 THEN Nothing
  ELSE IF added[LastWins[i]] = {} THEN g[i - 1]
  ELSE Overlay(g[i - 1], CHOOSE c \in added[LastWins[i]] : TRUE)

LEMMA FoldExists ==
  ASSUME NEW added, NEW n \in Nat
  PROVE  \E g : g = [i \in 0 .. n |-> Adding(added, g, i)]
<1> DEFINE Good == {m \in Nat : \E g : g = [i \in 0 .. m |-> Adding(added, g, i)]}
<1>1. 0 \in Good
  <2> DEFINE g == [i \in 0 .. 0 |-> Nothing]
  <2>1. g = [i \in 0 .. 0 |-> Adding(added, g, i)]
    BY DEF Adding
  <2> QED
    BY <2>1
<1>2. ASSUME NEW m \in Nat, m \in Good PROVE m + 1 \in Good
  <2> PICK g : g = [i \in 0 .. m |-> Adding(added, g, i)]
    BY <1>2
  <2> DEFINE h == [i \in 0 .. m + 1 |-> IF i = m + 1 THEN Adding(added, g, i) ELSE g[i]]
  <2>1. \A i \in 0 .. m : g[i] = Adding(added, g, i)
    OBVIOUS
  <2>2. ASSUME NEW i \in 0 .. m + 1 PROVE h[i] = Adding(added, h, i)
    <3>1. i = 0 \/ (i - 1 \in 0 .. m /\ h[i - 1] = g[i - 1])
      OBVIOUS
    <3>2. Adding(added, h, i) = Adding(added, g, i)
      BY <3>1 DEF Adding
    <3> QED
      BY <2>1, <3>2
  <2>3. h = [i \in 0 .. m + 1 |-> Adding(added, h, i)]
    BY <2>2
  <2> HIDE DEF h
  <2>4. \E f : f = [i \in 0 .. m + 1 |-> Adding(added, f, i)]
    BY <2>3
  <2> QED
    BY <2>4
<1>3. n \in Good
  <2> HIDE DEF Good
  <2> QED
    BY <1>1, <1>2, NaturalsByInduction
<1> QED
  BY <1>3

LEMMA UpToAdds ==
  ASSUME NEW added
  PROVE  UpTo(added) = [i \in 0 .. Len(NameOrder) |-> Adding(added, UpTo(added), i)]
<1>1. Len(NameOrder) \in Nat
  BY NamesAreSorted
<1>2. \E g : g = [i \in 0 .. Len(NameOrder) |-> Adding(added, g, i)]
  BY <1>1, FoldExists
<1>3. UpTo(added) = CHOOSE g : g = [i \in 0 .. Len(NameOrder) |-> Adding(added, g, i)]
  BY DEF UpTo, Adding
<1> QED
  BY <1>2, <1>3

\* What the i-th name adds of a key.
Gives(added, i, k) ==
  IF added[LastWins[i]] = {} THEN None ELSE (CHOOSE c \in added[LastWins[i]] : TRUE)[k]

\* v is what the last of the names up to n that adds something of k adds.
IsLast(added, k, n, v) ==
  \/ v = None /\ \A i \in 1 .. n : Gives(added, i, k) = None
  \/ \E i \in 1 .. n :
       /\ Gives(added, i, k) = v /\ v # None
       /\ \A j \in 1 .. n : Gives(added, j, k) # None => j <= i

LEMMA LastNameWins ==
  ASSUME NEW added, NEW k \in Key
  PROVE  IsLast(added, k, Len(NameOrder), Combined(added)[k])
<1> DEFINE N == Len(NameOrder)
           Good == {n \in Nat : n <= N => IsLast(added, k, n, UpTo(added)[n][k])}
<1>1. N \in Nat
  BY NamesAreSorted
<1>2. \A i \in 0 .. N : UpTo(added)[i] = Adding(added, UpTo(added), i)
  BY UpToAdds
<1> HIDE DEF N
<1>3. 0 \in Good
  BY <1>1, <1>2 DEF Adding, Nothing, IsLast
<1>4. ASSUME NEW n \in Nat, n \in Good PROVE n + 1 \in Good
  <2> SUFFICES ASSUME n + 1 <= N
               PROVE  IsLast(added, k, n + 1, UpTo(added)[n + 1][k])
    OBVIOUS
  <2>1. IsLast(added, k, n, UpTo(added)[n][k])
    BY <1>1, <1>4
  <2>2. UpTo(added)[n + 1] = Adding(added, UpTo(added), n + 1) /\ (n + 1) - 1 = n /\ n + 1 # 0
    BY <1>1, <1>2
  <2>3. UpTo(added)[n + 1][k] = IF Gives(added, n + 1, k) # None THEN Gives(added, n + 1, k)
                                ELSE UpTo(added)[n][k]
    BY <2>2 DEF Adding, Gives, Overlay
  <2>4. 1 .. n + 1 = (1 .. n) \cup {n + 1} /\ \A i \in 1 .. n : i <= n + 1
    OBVIOUS
  <2> QED
    BY <2>1, <2>3, <2>4 DEF IsLast
<1>5. N \in Good
  <2> HIDE DEF Good
  <2> QED
    BY <1>1, <1>3, <1>4, NaturalsByInduction
<1> QED
  BY <1>1, <1>5 DEF Combined, N

-----------------------------------------------------------------------------
(* Every pattern serves what its layout says.                              *)

\* Only the pattern with snapshots has references, well formed or not.
OnlyValues ==
  pattern # "snapshot-references" =>
    \A store \in Scope : \A s \in settings[store] : s.kind = "value"

LEMMA OnlyValuesInitially == Init => OnlyValues
BY DEF Init, OnlyValues

LEMMA OnlyValuesStep == StoresInv /\ OnlyValues /\ [Next]_vars => OnlyValues'
<1> SUFFICES ASSUME StoresInv, OnlyValues, [Next]_vars PROVE OnlyValues'
  OBVIOUS
<1>1. CASE UNCHANGED <<pattern, settings>>
  BY <1>1 DEF OnlyValues
<1>2. CASE pattern = "snapshot-references" /\ pattern' = pattern
  BY <1>2 DEF OnlyValues
<1>3. ASSUME NEW scope \in Scope, NEW name \in Name, NEW v, Set(scope, name, v)
      PROVE  OnlyValues'
  BY <1>3 DEF Set, Put, Others, StoresInv, OnlyValues
<1> QED
  BY <1>1, <1>2, <1>3
  DEF Next, vars, SetSnapshotReference, SetMalformed, CreateSnapshot, Toggle, Tick

\* A scope is given a name once.
LEMMA GivenOnce ==
  ASSUME StoresInv, NEW scope \in Scope, NEW r \in Given(scope), NEW s \in Given(scope),
         r.key.name = s.key.name
  PROVE  r = s
<1>1. StoreOf(scope) \in Scope
  BY DEF StoreOf, Scope
<1>2. r \in settings[StoreOf(scope)] /\ s \in settings[StoreOf(scope)]
  BY DEF Given
<1>3. r.key \in Key /\ s.key \in Key
  BY <1>1, <1>2 DEF StoresInv, StoreOK, Setting
<1>4. r.key = s.key
  BY <1>3 DEF Given, Key
<1> QED
  BY <1>1, <1>2, <1>4 DEF Given, StoresInv, StoreOK, SetOnce

LEMMA Resolves ==
  ASSUME StoresInv, NEW x \in Snapshot
  PROVE  ResolveSnapshot(snapshots[x], now) = IF Alive(x) THEN Contents[x] ELSE None
<1>1. snapshots[x] = None \/ snapshots[x] \in SnapshotOf(x)
  BY DEF StoresInv
<1>2. CASE snapshots[x] \in SnapshotOf(x)
  <2>1. /\ snapshots[x].settings = Contents[x] /\ snapshots[x].created \in 0 .. MaxTime
        /\ snapshots[x].retention \in Retentions
    BY <1>2 DEF SnapshotOf
  <2>2. snapshots[x].retention \in Nat \cup {None}
    BY <2>1, TimesAreNaturals, Zenon
  <2>3. now \in Nat /\ snapshots[x].created \in Nat
    BY <2>1, TimesAreNaturals DEF StoresInv
  <2> QED
    BY <2>1, <2>2, <2>3 DEF ResolveSnapshot, Retained, Alive
<1> QED
  BY <1>1, <1>2 DEF ResolveSnapshot, Alive

\* What a given setting adds to a select is what it says.
LEMMA AddsWhatItSays ==
  ASSUME StoresInv, OnlyValues, NEW scope \in Scope, NEW s \in Given(scope),
         s.kind # "malformed", NEW k \in Key
  PROVE  Contribution(s, snapshots, FilterFor(scope), now)[k] = Says(scope, s, k)
<1>1. /\ s \in Setting /\ s.key \in Key /\ s.key.prefix = FilterFor(scope)
      /\ s.kind = "value" \/ pattern = "snapshot-references"
  <2>1. StoreOf(scope) \in Scope
    BY DEF StoreOf, Scope
  <2>2. s \in settings[StoreOf(scope)] /\ s.key.prefix = FilterFor(scope)
    BY DEF Given, FilterFor, PrefixOf
  <2>3. s \in Setting
    BY <2>1, <2>2 DEF StoresInv, StoreOK
  <2>4. s.key \in Key
    BY <2>3 DEF Setting
  <2> QED
    BY <2>1, <2>2, <2>3, <2>4 DEF OnlyValues
<1>2. CASE s.kind = "value"
  <2>1. Trimmed(FilterFor(scope), s.key) = [prefix |-> None, name |-> s.key.name]
    BY <1>1 DEF Trimmed, Key
  <2>2. Trimmed(FilterFor(scope), s.key) \in Key
    BY <1>1, <2>1 DEF Key
  <2> QED
    BY <1>2, <2>1, <2>2 DEF Contribution, Nothing, Says
<1>3. CASE s.kind = "reference"
  <2> PICK x \in Snapshot : s.value = x
    BY <1>1, <1>3 DEF Setting
  <2> DEFINE raw == {r \in Key : Contents[x][r] # None /\ Trimmed(scope, r) = k}
             from == [k EXCEPT !.prefix = scope]
  <2>1. FilterFor(scope) = scope /\ scope # None
    BY <1>1, <1>3, ScopesDiffer DEF FilterFor
  <2>2. ResolveSnapshot(snapshots[x], now) = IF Alive(x) THEN Contents[x] ELSE None
    BY Resolves
  <2>3. Alive(x) => snapshots[x].settings = Contents[x] /\ Contents[x] # None
    BY NoneIsNoSnapshot DEF Alive, StoresInv, SnapshotOf
  <2>4. Contribution(s, snapshots, scope, now)[k] =
          IF ~Alive(x) \/ raw = {} THEN None ELSE Contents[x][CHOOSE r \in raw : TRUE]
    BY <1>3, <2>2, <2>3 DEF Contribution, Nothing
  <2>5. Says(scope, s, k) = IF ~Alive(x) \/ k.prefix = scope THEN None
                            ELSE IF k.prefix = None THEN Contents[x][from] ELSE Contents[x][k]
    BY <1>3, <2>1, <2>3 DEF Says
  <2>6. CASE k.prefix = None
    <3>1. from \in Key /\ Trimmed(scope, from) = k
      BY <2>1, <2>6 DEF Key, Trimmed
    <3>2. ASSUME NEW r \in raw PROVE r = from
      <4>1. Contents[x][k] = None
        BY <2>6, ContentsArePrefixed DEF Key
      <4>2. r.prefix = scope
        BY <4>1 DEF Trimmed
      <4> QED
        BY <2>6, <4>2 DEF Trimmed, Key
    <3>3. raw = IF Contents[x][from] # None THEN {from} ELSE {}
      BY <3>1, <3>2
    <3> HIDE DEF raw, from
    <3> QED
      BY <2>1, <2>4, <2>5, <2>6, <3>3
  <2>7. CASE k.prefix = scope
    <3>1. \A r \in Key : Trimmed(scope, r) # k
      BY <2>1, <2>7 DEF Key, Trimmed
    <3>2. raw = {}
      BY <3>1
    <3> HIDE DEF raw
    <3> QED
      BY <2>1, <2>4, <2>5, <2>7, <3>2
  <2>8. CASE k.prefix # None /\ k.prefix # scope
    <3>1. \A r \in Key : Trimmed(scope, r) = k <=> r = k
      BY <2>8 DEF Key, Trimmed
    <3>2. raw = IF Contents[x][k] # None THEN {k} ELSE {}
      BY <3>1
    <3> HIDE DEF raw, from
    <3> QED
      BY <2>1, <2>4, <2>5, <2>8, <3>2
  <2> QED
    BY <2>6, <2>7, <2>8
<1> QED
  BY <1>1, <1>2, <1>3 DEF Setting

\* What the select for a scope holds of a key is what the last of the settings
\* given to the scope says.
LEMMA ReadHolds ==
  ASSUME StoresInv, LaidOut, OnlyValues, NEW scope \in Scope, ~Raises(scope), NEW k \in Key
  PROVE  /\ Saying(scope, k) = {} => Read(scope)[k] = None
         /\ Saying(scope, k) # {} => Read(scope)[k] # None /\ Holds(scope, k, Read(scope)[k])
<1> DEFINE added == [name \in Name |-> {Contribution(s, snapshots, FilterFor(scope), now) :
                                         s \in {s \in Given(scope) : s.key.name = name}}]
           v == Read(scope)[k]
           N == Len(NameOrder)
<1>1. Selected(settings[StoreFor(scope)], FilterFor(scope), LabelFor(scope)) = Given(scope)
  BY SelectedIsGiven
<1>2. v = Combined(added)[k]
  BY <1>1 DEF Read, Select
<1>3. /\ DOMAIN NameOrder = 1 .. N /\ \A i \in 1 .. N : NameOrder[i] \in Name
      /\ \A name \in Name : \E i \in 1 .. N : NameOrder[i] = name
      /\ \A i, j \in 1 .. N : NameOrder[i] = NameOrder[j] => i = j
  BY NamesAreSorted DEF Name
<1>4. \A s \in Given(scope) : s.kind # "malformed" /\ s.key.name \in Name
  <2>1. \A s \in Given(scope) : s \in Setting
    BY DEF Given, StoresInv, StoreOK, StoreOf, Scope
  <2>2. \A s \in Given(scope) : s.key \in Key
    BY <2>1 DEF Setting
  <2> QED
    BY <1>1, <2>2 DEF Raises, SelectFails, Key
<1>5. ASSUME NEW s \in Given(scope)
      PROVE  /\ Place(s) \in 1 .. N /\ NameOrder[Place(s)] = s.key.name
             /\ Gives(added, Place(s), k) = Says(scope, s, k)
  <2>1. Place(s) \in 1 .. N /\ NameOrder[Place(s)] = s.key.name
    BY <1>3, <1>4 DEF Place
  <2>2. {r \in Given(scope) : r.key.name = s.key.name} = {s}
    BY GivenOnce
  <2>3. added[s.key.name] = {Contribution(s, snapshots, FilterFor(scope), now)}
    BY <1>4, <2>2
  <2>4. Gives(added, Place(s), k) = Contribution(s, snapshots, FilterFor(scope), now)[k]
    BY <2>1, <2>3 DEF Gives, LastWins
  <2> QED
    BY <1>4, <2>1, <2>4, AddsWhatItSays
<1>6. ASSUME NEW i \in 1 .. N, Gives(added, i, k) # None
      PROVE  \E s \in Saying(scope, k) : Place(s) = i
  <2>1. added[NameOrder[i]] # {}
    BY <1>6 DEF Gives, LastWins
  <2>2. PICK s \in Given(scope) : s.key.name = NameOrder[i]
    <3>1. NameOrder[i] \in Name
      BY <1>3
    <3>2. {s \in Given(scope) : s.key.name = NameOrder[i]} = {} => added[NameOrder[i]] = {}
      BY <3>1
    <3> HIDE DEF added
    <3> QED
      BY <2>1, <3>2
  <2>3. Place(s) = i
    BY <1>3, <1>5, <2>2
  <2> QED
    BY <1>5, <1>6, <2>3 DEF Saying
<1> HIDE DEF added, v
<1>7. IsLast(added, k, N, v)
  BY <1>2, LastNameWins
<1>8. CASE v = None /\ \A i \in 1 .. N : Gives(added, i, k) = None
  <2>1. Saying(scope, k) = {}
    BY <1>5, <1>8 DEF Saying
  <2> QED
    BY <1>8, <2>1 DEF v
<1>9. ASSUME NEW i \in 1 .. N, Gives(added, i, k) = v, v # None,
             \A j \in 1 .. N : Gives(added, j, k) # None => j <= i
      PROVE  Saying(scope, k) # {} /\ v # None /\ Holds(scope, k, v)
  <2>1. PICK s \in Saying(scope, k) : Place(s) = i
    BY <1>6, <1>9
  <2>2. Says(scope, s, k) = v
    BY <1>5, <1>9, <2>1 DEF Saying
  <2>3. \A r \in Saying(scope, k) : Place(r) <= Place(s)
    BY <1>5, <1>9, <2>1 DEF Saying
  <2> QED
    BY <1>9, <2>1, <2>2, <2>3 DEF Holds
<1> QED
  BY <1>7, <1>8, <1>9 DEF IsLast, v

\* Every pattern, through its own layout and its own selects, serves a tenant its
\* own settings over the shared ones, in both the one that sorts last, and fails
\* only for a store it needs or a malformed setting (fake.py, source.py, samples).
THEOREM PatternsServeTheSame == Spec => []EveryPatternServesTheSame
<1>1. ASSUME StoresInv, LaidOut, OnlyValues PROVE EveryPatternServesTheSame
  <2>1. ASSUME NEW scope \in Scope
        PROVE  Raises(scope) <=>
                 StoreOf(scope) \in unavailable \/ \E s \in Given(scope) : s.kind = "malformed"
    <3>1. StoreFor(scope) = StoreOf(scope)
      BY DEF StoreFor, StoreOf
    <3> QED
      BY <1>1, <3>1, SelectedIsGiven DEF Raises, SelectFails
  <2> SUFFICES ASSUME NEW n \in Tenant
               PROVE  IF \E scope \in {n, Shared} :
                           StoreOf(scope) \in unavailable
                             \/ \E s \in Given(scope) : s.kind = "malformed"
                        THEN View(n) = None
                        ELSE \A k \in Key :
                          CASE Saying(n, k) # {} -> Holds(n, k, View(n)[k])
                            [] Saying(n, k) = {} /\ Saying(Shared, k) # {} ->
                                 Holds(Shared, k, View(n)[k])
                            [] OTHER -> View(n)[k] = None
    BY DEF EveryPatternServesTheSame
  <2>2. n \in Scope /\ Shared \in Scope
    BY DEF Scope
  <2>3. CASE Raises(n) \/ Raises(Shared)
    BY <2>1, <2>2, <2>3 DEF View
  <2>4. CASE ~Raises(n) /\ ~Raises(Shared)
    <3>1. ~\E scope \in {n, Shared} :
             StoreOf(scope) \in unavailable \/ \E s \in Given(scope) : s.kind = "malformed"
      BY <2>1, <2>2, <2>4
    <3>2. ASSUME NEW k \in Key
          PROVE  CASE Saying(n, k) # {} -> Holds(n, k, View(n)[k])
                   [] Saying(n, k) = {} /\ Saying(Shared, k) # {} -> Holds(Shared, k, View(n)[k])
                   [] OTHER -> View(n)[k] = None
      <4>1. View(n)[k] = IF Read(n)[k] # None THEN Read(n)[k] ELSE Read(Shared)[k]
        BY <2>4 DEF View, Merged, Overlay
      <4>2. /\ Saying(n, k) = {} => Read(n)[k] = None
            /\ Saying(n, k) # {} => Read(n)[k] # None /\ Holds(n, k, Read(n)[k])
        BY <1>1, <2>2, <2>4, ReadHolds
      <4>3. /\ Saying(Shared, k) = {} => Read(Shared)[k] = None
            /\ Saying(Shared, k) # {} =>
                 Read(Shared)[k] # None /\ Holds(Shared, k, Read(Shared)[k])
        BY <1>1, <2>2, <2>4, ReadHolds
      <4>4. CASE Saying(n, k) # {}
        BY <4>1, <4>2, <4>4
      <4>5. CASE Saying(n, k) = {} /\ Saying(Shared, k) # {}
        BY <4>1, <4>2, <4>3, <4>5
      <4>6. CASE Saying(n, k) = {} /\ Saying(Shared, k) = {}
        BY <4>1, <4>2, <4>3, <4>6
      <4> QED
        BY <4>4, <4>5, <4>6
    <3> QED
      BY <3>1, <3>2
  <2> QED
    BY <2>3, <2>4
<1>2. Spec => []LaidOut
  BY Invariant, LaidOutInitially, LaidOutStep, PTL DEF Spec
<1>3. Spec => []OnlyValues
  BY Invariant, OnlyValuesInitially, OnlyValuesStep, PTL DEF Spec
<1> QED
  BY <1>1, <1>2, <1>3, Invariant, PTL
=============================================================================
