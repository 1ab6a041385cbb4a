----------------------------- MODULE MCAzureStore -----------------------------
(* Model values, symmetry and view for the runs of AzureStore.             *)
EXTENDS AzureStore, TLC

ThreadSymmetry == Permutations(Thread)

\* Fields of resources that nothing refers to any more are dropped: a member of
\* Res is given fresh ones when it is used again.
Garbage(r) == ~Held(r) /\ provider[r] = None /\ ~transport[r]
LiveView ==
  <<callVars, objectVars, leaseVars, cleanupVars, credVars, lifeVars, ioLock,
    [r \in Res |-> ~Garbage(r) /\ failed[r]], [r \in Res |-> ~Garbage(r) /\ errors[r]]>>
=============================================================================
