------------------------------ MODULE FakeStore ------------------------------
(***************************************************************************)
(* FakeAppConfigurationStore (src/src/mtappconfig/fake.py): what a select  *)
(* returns.  A key is a prefix, which names a tenant or the shared         *)
(* settings, and a name; neither contains the slash between them, so that  *)
(* the filter "prefix/*" matches a key just if it has that prefix.         *)
(***************************************************************************)
EXTENDS Naturals, Sequences

CONSTANTS
  Prefix,     \* what a key may begin with
  NameOrder,  \* the names, sorted
  None        \* no prefix, no label, no value

Name == {NameOrder[i] : i \in DOMAIN NameOrder}
Key == [prefix : Prefix \cup {None}, name : Name]

\* What a dictionary of keys and values holds; None: it lacks the key.
Nothing == [k \in Key |-> None]
Overlay(below, above) == [k \in Key |-> IF above[k] # None THEN above[k] ELSE below[k]]

\* A filter None stands for "*".
MatchesKey(filter, s) == filter = None \/ s.key.prefix = filter

MatchesLabel(filter, s) == s.label = filter

\* The key without the prefix to trim, and back.
Trimmed(trim, k) == IF k.prefix = trim THEN [k EXCEPT !.prefix = None] ELSE k

Retained(snapshot, now) ==
  snapshot.retention = None \/ now - snapshot.created < snapshot.retention

\* The settings of a snapshot, or None.  A reference that cannot be resolved
\* contributes nothing and raises nothing.
ResolveSnapshot(snapshot, now) ==
  IF snapshot = None \/ ~Retained(snapshot, now) THEN None ELSE snapshot.settings

\* What a selected setting adds.  A snapshot's keys are trimmed but not filtered.
Contribution(s, snapshots, trim, now) ==
  LET resolved == ResolveSnapshot(snapshots[s.value], now) IN
  IF s.kind = "value"
    THEN [Nothing EXCEPT ![Trimmed(trim, s.key)] = s.value]
  ELSE IF resolved = None THEN Nothing
  ELSE [k \in Key |->
          LET raw == {r \in Key : resolved[r] # None /\ Trimmed(trim, r) = k} IN
          IF raw = {} THEN None ELSE resolved[CHOOSE r \in raw : TRUE]]

Selected(settings, filter, label) ==
  {s \in settings : MatchesKey(filter, s) /\ MatchesLabel(label, s)}

\* One malformed reference among the selected settings fails the whole select.
SelectFails(settings, filter, label) ==
  \E s \in Selected(settings, filter, label) : s.kind = "malformed"

\* Mutant: later names do not override earlier ones.
FirstWins == [i \in DOMAIN NameOrder |-> NameOrder[Len(NameOrder) + 1 - i]]

LastWins == NameOrder

\* The selected settings are read in the order of their keys, and the last wins:
\* what there is after i names, from what each name adds.
UpTo(added) ==
  LET read[i \in 0 .. Len(NameOrder)] ==
        IF i = 0 THEN Nothing
        ELSE IF added[LastWins[i]] = {} THEN read[i - 1]
        ELSE Overlay(read[i - 1], CHOOSE c \in added[LastWins[i]] : TRUE)
  IN  read

Combined(added) == UpTo(added)[Len(NameOrder)]

Select(settings, snapshots, filter, label, trim, now) ==
  Combined([name \in Name |->
    {Contribution(s, snapshots, trim, now) :
       s \in {s \in Selected(settings, filter, label) : s.key.name = name}}])
=============================================================================
