------------------------------ MODULE StoreLease ------------------------------
(***************************************************************************)
(* What a store owes the threads that share it, whatever its queries do:   *)
(* an operation holds a lease; the store keeps at most one credential for  *)
(* all of them; that credential is given up only by the sole lease holder, *)
(* or after shutdown when no lease is left; shutdown admits nobody and     *)
(* ends with every credential disposed of.                                 *)
(***************************************************************************)
EXTENDS FiniteSets

CONSTANTS Holder, Secret, NoSecret

VARIABLES
  lifetime,  \* "open", "closing" or "ended"
  leases,    \* the operations that are under way
  shared,    \* the credential that new loads use, or NoSecret
  retired    \* credentials given up and not yet closed

leaseState == <<lifetime, leases, shared, retired>>

LeaseInit ==
  lifetime = "open" /\ leases = {} /\ shared = NoSecret /\ retired = {}

Lend(h) ==
  /\ lifetime = "open" /\ h \notin leases
  /\ leases' = leases \cup {h}
  /\ UNCHANGED <<lifetime, shared, retired>>

Return(h) ==
  /\ h \in leases
  /\ leases' = leases \ {h}
  /\ UNCHANGED <<lifetime, shared, retired>>

Share(c) ==
  /\ leases # {} /\ shared = NoSecret /\ c \notin retired
  /\ shared' = c
  /\ UNCHANGED <<lifetime, leases, retired>>

Retire ==
  /\ shared # NoSecret
  /\ \/ lifetime = "open" /\ \E h \in leases : leases = {h}
     \/ lifetime = "closing" /\ leases = {}
  /\ retired' = retired \cup {shared}
  /\ shared' = NoSecret
  /\ UNCHANGED <<lifetime, leases>>

Dispose(c) ==
  /\ c \in retired
  /\ retired' = retired \ {c}
  /\ UNCHANGED <<lifetime, leases, shared>>

Shutdown ==
  /\ lifetime = "open"
  /\ lifetime' = "closing"
  /\ UNCHANGED <<leases, shared, retired>>

End ==
  /\ lifetime = "closing" /\ leases = {} /\ shared = NoSecret /\ retired = {}
  /\ lifetime' = "ended"
  /\ UNCHANGED <<leases, shared, retired>>

LeaseNext ==
  \/ \E h \in Holder : Lend(h) \/ Return(h)
  \/ \E c \in Secret : Share(c) \/ Dispose(c)
  \/ Retire \/ Shutdown \/ End

LeaseSpec == LeaseInit /\ [][LeaseNext]_leaseState
=============================================================================
