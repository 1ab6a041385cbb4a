------------------------------- MODULE MCWebApp -------------------------------
(* Stores and view for the runs of WebApp.                                  *)
EXTENDS WebApp

\* Sample 03: a store of its own for each tenant.
MCStoreOf == [q \in Query |-> q]

LiveConfigs == [c \in {c \in Config : ~IsFreeConfig(c)} |-> configs[c]]

\* A time that no request within the bound reaches is as good as any later one,
\* and one that is later than the start of any interval as good as the next.
Until(x) == IF x > MaxTime THEN MaxTime + 1 ELSE x
LastStart == MaxTime + 1 - (IF Ttl < CatchUp THEN Ttl ELSE CatchUp)
Since(x) == IF x > LastStart THEN LastStart + 1 ELSE x

\* Without the counters and the answers, which no guard looks at.
AppView ==
  <<now, [q \in Query |-> [v \in DOMAIN history[q] |-> Since(history[q][v])]],
    [q \in Query |-> IF loaded[q] = None THEN None ELSE
       <<loaded[q].version, Until(loaded[q].due), Until(loaded[q].backoff)>>],
    localVars, entries, order, LiveConfigs, lock, served,
    [store \in Store |-> IF Up(store) THEN Since(upSince[store]) ELSE None],
    [n \in Tenant |-> Until(warmUntil[n])]>>
=============================================================================
