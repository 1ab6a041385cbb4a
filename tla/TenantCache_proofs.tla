-------------------------- MODULE TenantCache_proofs --------------------------
(***************************************************************************)
(* What TenantConfigCache promises, for any threads, tenants, capacity and *)
(* intervals, whatever fails and however the calls interleave.             *)
(***************************************************************************)
EXTENDS TenantCache, SequenceTheorems, FiniteSetTheorems, TLAPS

-----------------------------------------------------------------------------
(* The inductive invariants.                                               *)

Busy(t) == pc[t] \in {"shared", "own", "conclude"}

\* The lock is held by the thread between its entry into get and its return.
LockFits == \A t \in Thread : Busy(t) <=> lock = t

\* A thread knows its tenant while it is in a request, and its configuration
\* once get has returned.
LocalsFit ==
  \A t \in Thread : /\ pc[t] = "idle" <=> tenant[t] = None
                    /\ pc[t] = "idle" => config[t] = None
                    /\ pc[t] = "respond" => config[t] # None

\* A call that loads finds no entry, and no provider before it has selected its
\* own; one that refreshes has both.
CallFits(t) ==
  IF config[t] = None
    THEN entries[tenant[t]] = None /\ (loaded[tenant[t]] # None <=> pc[t] = "conclude")
    ELSE /\ entries[tenant[t]] # None /\ entries[tenant[t]].config = config[t]
         /\ loaded[tenant[t]] # None

\* Providers and entries of all other tenants go together.
ProvidersFit ==
  /\ \A t \in Thread : Busy(t) => CallFits(t)
  /\ \A n \in Tenant : (\A t \in Thread : Busy(t) => tenant[t] # n) =>
       (loaded[n] # None <=> entries[n] # None)

\* No TenantConfig is shared: neither by two entries, nor by an entry and a
\* request for another tenant.
ConfigsFit ==
  /\ \A m, n \in Tenant :
       entries[m] # None /\ entries[n] # None /\ entries[m].config = entries[n].config =>
         m = n
  /\ \A t \in Thread, n \in Tenant :
       config[t] # None /\ entries[n] # None /\ entries[n].config = config[t] => tenant[t] = n

\* Versions stay in their bound, no moment that was written down is in the future,
\* and each call is counted once.
CountsFit ==
  /\ \A q \in Query : Latest(q) <= MaxVersion
  /\ \A t \in Thread : at[t] <= now
  /\ \A n \in Tenant : entries[n] # None => entries[n].loadedAt <= now
  /\ stats.hits + stats.misses = calls
  /\ stats.refreshFailures + failedLoads + (IF lock = None THEN 0 ELSE 1) <= calls

\* The tenant of the call under way was asked for last; its load is the miss that
\* is not accounted for yet.
OrderFits ==
  /\ Len(order) <= MaxEntries
  /\ \A n \in Tenant : lastUse[n] <= calls
  /\ \A t \in Thread : Busy(t) =>
       /\ lastUse[tenant[t]] = calls
       /\ \A n \in Tenant \ {tenant[t]} : lastUse[n] < calls
  /\ stats.misses = Len(order) + stats.evictions + stats.expirations + failedLoads
                      + (IF \E t \in Thread : Busy(t) /\ config[t] = None THEN 1 ELSE 0)

CacheInv == /\ TypeOK /\ LockFits /\ LocalsFit /\ ProvidersFit /\ ConfigsFit
            /\ CountsFit /\ OrderIsRecency /\ OrderFits

\* What a call has read so far is what the providers hold.
ReadFits ==
  \A t \in Thread :
    /\ pc[t] \in {"own", "conclude"} =>
         loaded[Shared] # None /\ view[t].shared = loaded[Shared].version
    /\ pc[t] = "conclude" => view[t].own = loaded[tenant[t]].version

\* What a tenant was served last is what is cached for it; no provider holds
\* less, and none holds more than the service has.
ServedFits ==
  /\ \A q \in Query : loaded[q] # None => loaded[q].version <= Latest(q)
  /\ \A n \in Tenant :
       /\ served[n].own <= Latest(n)
       /\ loaded[n] # None => served[n].own <= loaded[n].version
       /\ IF loaded[Shared] = None THEN served[n].shared = 0
                                   ELSE served[n].shared <= loaded[Shared].version
       /\ entries[n] # None => served[n] = configs[entries[n].config].view

ServedInv == ReadFits /\ ServedFits

\* Version v of q's settings is one that was there, and was current at `start` or
\* later.
Held(q, v, start) == v \in 1 .. MaxVersion /\ CurrentAfter(q, v, start)

HeldBy(cs, c) == cs[c].view.own

\* Neither a provider nor an entry has own settings replaced before the entry was
\* loaded; no request was given an entry that had expired.
AgeInv ==
  /\ \A n \in Tenant : entries[n] # None =>
       /\ Held(n, loaded[n].version, entries[n].loadedAt)
       /\ Held(n, HeldBy(configs, entries[n].config), entries[n].loadedAt)
  /\ \A t \in Thread : pc[t] = "conclude" /\ config[t] = None =>
       Held(tenant[t], loaded[tenant[t]].version, at[t])
  /\ \A t \in Thread, n \in Tenant :
       config[t] # None /\ entries[n] # None /\ entries[n].config = config[t] =>
         entries[n].loadedAt >= (at[t] + 1) - Ttl
  /\ \A t \in Thread : pc[t] = "respond" =>
       Held(tenant[t], HeldBy(configs, config[t]), (at[t] + 1) - Ttl)
-----------------------------------------------------------------------------
(* Recency orders: a sequence that lists each member of a set once, by     *)
(* increasing use.                                                         *)

Orders(o, members, use) ==
  /\ {o[i] : i \in DOMAIN o} = members
  /\ \A i, j \in DOMAIN o : i < j => use[o[i]] < use[o[j]]

\* No two places hold the same member.
LEMMA OrderIsInjective ==
  ASSUME NEW o \in Seq(Tenant), NEW use \in [Tenant -> Nat], NEW members,
         Orders(o, members, use), NEW i \in DOMAIN o, NEW j \in DOMAIN o, o[i] = o[j]
  PROVE  i = j
<1> o[i] \in Tenant /\ i \in Nat /\ j \in Nat
  OBVIOUS
<1> QED
  BY DEF Orders

\* An order is as long as its set is large.
LEMMA OrderCounts ==
  ASSUME NEW o \in Seq(Tenant), NEW use \in [Tenant -> Nat], NEW members,
         Orders(o, members, use)
  PROVE  IsFiniteSet(members) /\ Cardinality(members) = Len(o)
<1>1. Len(o) \in Nat /\ DOMAIN o = 1 .. Len(o) /\ o \in [1 .. Len(o) -> members]
  BY DEF Orders
<1>2. o \in Surjection(1 .. Len(o), members)
  BY <1>1 DEF Orders, Surjection
<1>3. o \in Injection(1 .. Len(o), members)
  <2>1. \A i, j \in 1 .. Len(o) : o[i] = o[j] => i = j
    BY <1>1, OrderIsInjective
  <2> QED
    BY <1>1, <2>1 DEF Injection, IsInjective
<1>4. ExistsBijection(1 .. Len(o), members)
  BY <1>2, <1>3 DEF ExistsBijection, Bijection
<1>5. IsFiniteSet(1 .. Len(o)) /\ Cardinality(1 .. Len(o)) = Len(o)
  BY <1>1, FS_Interval
<1> QED
  BY <1>4, <1>5, FS_Bijection

\* Taking one place out.
LEMMA OneOut ==
  ASSUME NEW o \in Seq(Tenant), NEW p \in 1 .. Len(o)
  PROVE  LET r == SubSeq(o, 1, p - 1) \o SubSeq(o, p + 1, Len(o))
         IN  /\ r \in Seq(Tenant) /\ Len(r) = Len(o) - 1
             /\ \A i \in 1 .. Len(o) - 1 : r[i] = IF i < p THEN o[i] ELSE o[i + 1]
<1> DEFINE front == SubSeq(o, 1, p - 1)
           back == SubSeq(o, p + 1, Len(o))
<1>1. /\ front \in Seq(Tenant) /\ Len(front) = p - 1
      /\ \A i \in 1 .. p - 1 : front[i] = o[i]
  BY SubSeqProperties
<1>2. /\ back \in Seq(Tenant) /\ Len(back) = Len(o) - p
      /\ \A i \in 1 .. Len(o) - p : back[i] = o[p + i]
  <2>1. \A i \in p + 1 .. Len(o) : o[i] \in Tenant
    OBVIOUS
  <2>2. /\ back \in Seq(Tenant)
        /\ Len(back) = IF p + 1 <= Len(o) THEN Len(o) - (p + 1) + 1 ELSE 0
        /\ \A i \in 1 .. Len(o) - (p + 1) + 1 : back[i] = o[(p + 1) + i - 1]
    BY <2>1, SubSeqProperties
  <2> QED
    BY <2>2
<1> HIDE DEF front, back
<1>3. /\ front \o back \in Seq(Tenant) /\ Len(front \o back) = Len(o) - 1
      /\ \A i \in 1 .. Len(o) - 1 :
           (front \o back)[i] = IF i <= p - 1 THEN front[i] ELSE back[i - (p - 1)]
  <2>1. Len(front) + Len(back) = Len(o) - 1
    BY <1>1, <1>2
  <2>2. /\ front \o back \in Seq(Tenant) /\ Len(front \o back) = Len(front) + Len(back)
        /\ \A i \in 1 .. Len(front) + Len(back) :
             (front \o back)[i] = IF i <= Len(front) THEN front[i] ELSE back[i - Len(front)]
    BY <1>1, <1>2, ConcatProperties
  <2>3. Len(front) = p - 1
    BY <1>1
  <2> QED
    BY <2>1, <2>2, <2>3
<1>4. ASSUME NEW i \in 1 .. Len(o) - 1
      PROVE  (front \o back)[i] = IF i < p THEN o[i] ELSE o[i + 1]
  <2>1. CASE i < p
    BY <1>1, <1>3, <2>1
  <2>2. CASE i >= p
    <3>1. i - (p - 1) \in 1 .. Len(o) - p /\ p + (i - (p - 1)) = i + 1
      BY <2>2
    <3>2. back[i - (p - 1)] = o[i + 1]
      BY <1>2, <3>1
    <3> QED
      BY <1>3, <2>2, <3>2
  <2>3. i < p \/ i >= p
    OBVIOUS
  <2> QED
    BY <2>1, <2>2, <2>3
<1> QED
  BY <1>3, <1>4 DEF front, back

\* Without(n) orders what is left.
LEMMA WithoutOrders ==
  ASSUME order \in Seq(Tenant), NEW use \in [Tenant -> Nat], NEW members,
         Orders(order, members, use), NEW n \in members
  PROVE  /\ Without(n) \in Seq(Tenant) /\ Len(Without(n)) = Len(order) - 1
         /\ Orders(Without(n), members \ {n}, use)
<1> DEFINE w == Without(n)
<1>1. Place(n) \in 1 .. Len(order) /\ order[Place(n)] = n
  BY DEF Orders, Place
<1>2. /\ w \in Seq(Tenant) /\ Len(w) = Len(order) - 1
      /\ \A i \in 1 .. Len(order) - 1 :
           w[i] = IF i < Place(n) THEN order[i] ELSE order[i + 1]
  BY <1>1, OneOut DEF Without
<1> HIDE DEF w
<1> DEFINE p == Place(n)
<1> HIDE DEF p
<1>9. p \in 1 .. Len(order) /\ order[p] = n /\ Len(order) \in Nat /\ Len(w) \in Nat
      /\ DOMAIN order = 1 .. Len(order) /\ DOMAIN w = 1 .. Len(order) - 1
  BY <1>1, <1>2 DEF p
<1>10. \A i \in 1 .. Len(order) - 1 : w[i] = IF i < p THEN order[i] ELSE order[i + 1]
  BY <1>2 DEF p
<1>3. \A m \in members \ {n} : \E i \in DOMAIN w : w[i] = m
  <2> TAKE m \in members \ {n}
  <2>1. PICK i \in 1 .. Len(order) : order[i] = m
    BY DEF Orders
  <2>2. CASE i < p
    <3>1. i \in 1 .. Len(order) - 1
      BY <1>9, <2>1, <2>2
    <3> QED
      BY <1>9, <1>10, <2>1, <2>2, <3>1
  <2>3. CASE i > p
    <3>1. w[i - 1] = order[i]
      <4>1. i - 1 \in 1 .. Len(order) - 1 /\ ~(i - 1 < p) /\ (i - 1) + 1 = i
        BY <2>1, <2>3, <1>9
      <4> QED
        BY <1>10, <4>1
    <3>2. i - 1 \in DOMAIN w
      BY <2>3, <1>9
    <3> QED
      BY <3>1, <3>2, <2>1
  <2> QED
    BY <2>1, <2>2, <2>3, <1>9
<1>4. \A i \in DOMAIN w : w[i] \in members \ {n}
  <2> TAKE i \in DOMAIN w
  <2>1. w[i] = IF i < p THEN order[i] ELSE order[i + 1]
    BY <1>2, <1>9 DEF p
  <2>2. \E k \in DOMAIN order : k # p /\ w[i] = order[k]
    <3>1. CASE i < p
      BY <1>9, <2>1, <3>1
    <3>2. CASE i >= p
      <4>1. i + 1 \in DOMAIN order /\ i + 1 # p
        BY <1>9, <3>2
      <4> QED
        BY <1>9, <2>1, <3>2, <4>1
    <3> QED
      BY <1>9, <3>1, <3>2
  <2> QED
    BY <2>2, <1>9, OrderIsInjective DEF Orders
<1>5. ASSUME NEW i \in DOMAIN w, NEW j \in DOMAIN w, i < j
      PROVE  use[w[i]] < use[w[j]]
  <2> DEFINE old(k) == IF k < p THEN k ELSE k + 1
  <2>0. i \in 1 .. Len(order) - 1 /\ j \in 1 .. Len(order) - 1
    BY <1>9
  <2>1. old(i) \in DOMAIN order /\ old(j) \in DOMAIN order /\ old(i) < old(j)
    <3>1. old(i) \in 1 .. Len(order) /\ old(j) \in 1 .. Len(order)
      <4>1. \A k \in 1 .. Len(order) - 1 : k \in 1 .. Len(order) /\ k + 1 \in 1 .. Len(order)
        BY <1>9
      <4> QED
        BY <2>0, <4>1
    <3>2. old(i) < old(j)
      BY <1>5, <1>9, <2>0
    <3> QED
      BY <1>9, <3>1, <3>2
  <2>2. w[i] = order[old(i)] /\ w[j] = order[old(j)]
    BY <1>2, <1>9 DEF p
  <2> HIDE DEF old
  <2> QED
    BY <2>1, <2>2 DEF Orders
<1>6. Orders(w, members \ {n}, use)
  BY <1>3, <1>4, <1>5 DEF Orders
<1> QED
  BY <1>2, <1>6 DEF w

\* A member that is used last belongs at the end.
LEMMA AppendOrders ==
  ASSUME NEW o \in Seq(Tenant), NEW use, NEW new, NEW members,
         Orders(o, members, use), NEW n \in Tenant,
         \A m \in members : new[m] = use[m] /\ use[m] < new[n]
  PROVE  /\ Append(o, n) \in Seq(Tenant) /\ Len(Append(o, n)) = Len(o) + 1
         /\ Orders(Append(o, n), members \cup {n}, new)
<1> DEFINE a == Append(o, n)
<1>1. /\ a \in Seq(Tenant) /\ Len(a) = Len(o) + 1 /\ Len(o) \in Nat
      /\ DOMAIN o = 1 .. Len(o) /\ DOMAIN a = 1 .. Len(o) + 1
      /\ \A i \in 1 .. Len(o) : a[i] = o[i] /\ o[i] \in members
      /\ a[Len(o) + 1] = n
  BY AppendProperties DEF Orders
<1> HIDE DEF a
<1>2. {a[i] : i \in DOMAIN a} = members \cup {n}
  <2>1. \A m \in members : \E i \in DOMAIN a : a[i] = m
    BY <1>1 DEF Orders
  <2> QED
    BY <1>1, <2>1
<1>3. ASSUME NEW i \in DOMAIN a, NEW j \in DOMAIN a, i < j
      PROVE  new[a[i]] < new[a[j]]
  <2>1. i \in 1 .. Len(o) /\ a[i] = o[i] /\ o[i] \in members
    BY <1>1, <1>3
  <2>2. CASE j = Len(o) + 1
    BY <1>1, <2>1, <2>2
  <2>3. CASE j \in 1 .. Len(o)
    BY <1>1, <1>3, <2>1, <2>3 DEF Orders
  <2> QED
    BY <1>1, <2>2, <2>3
<1> QED
  BY <1>1, <1>2, <1>3 DEF Orders, a

\* The front may go.
LEMMA RestOrders ==
  ASSUME NEW o \in Seq(Tenant), NEW use \in [Tenant -> Nat], NEW members,
         Orders(o, members, use), NEW k \in 0 .. Len(o)
  PROVE  LET r == SubSeq(o, k + 1, Len(o)) IN
         /\ r \in Seq(Tenant) /\ Len(r) = Len(o) - k
         /\ Orders(r, members \ {o[i] : i \in 1 .. k}, use)
<1> DEFINE r == SubSeq(o, k + 1, Len(o))
           front == {o[i] : i \in 1 .. k}
<1>0. Len(o) \in Nat /\ DOMAIN o = 1 .. Len(o) /\ k \in Nat
  OBVIOUS
<1>1. /\ r \in Seq(Tenant) /\ Len(r) = Len(o) - k
      /\ \A i \in 1 .. Len(o) - k : r[i] = o[k + i]
  <2>1. \A i \in k + 1 .. Len(o) : o[i] \in Tenant
    OBVIOUS
  <2>2. /\ r \in Seq(Tenant)
        /\ Len(r) = IF k + 1 <= Len(o) THEN Len(o) - (k + 1) + 1 ELSE 0
        /\ \A i \in 1 .. Len(o) - (k + 1) + 1 : r[i] = o[(k + 1) + i - 1]
    BY <2>1, SubSeqProperties
  <2> QED
    BY <2>2
<1> HIDE DEF r
<1>2. DOMAIN r = 1 .. Len(o) - k
  BY <1>1
<1>3. \A m \in members \ front : \E i \in DOMAIN r : r[i] = m
  <2> TAKE m \in members \ front
  <2>1. PICK i \in 1 .. Len(o) : o[i] = m
    BY DEF Orders
  <2>2. i > k
    BY <2>1, <1>0
  <2>3. r[i - k] = m
    BY <2>1, <2>2, <1>0, <1>1
  <2> QED
    BY <2>2, <2>3, <1>0, <1>2
<1>4. \A i \in DOMAIN r : r[i] \in members \ front
  <2> TAKE i \in DOMAIN r
  <2>1. i \in 1 .. Len(o) - k /\ k + i \in DOMAIN o /\ r[i] = o[k + i]
    <3>1. i \in 1 .. Len(o) - k
      BY <1>2
    <3>2. k + i \in 1 .. Len(o)
      BY <1>0, <3>1
    <3> QED
      BY <1>0, <1>1, <3>1, <3>2
  <2>2. ASSUME NEW j \in 1 .. k
        PROVE  o[j] # o[k + i]
    <3>1. j \in DOMAIN o /\ j # k + i
      BY <1>0, <2>1
    <3> QED
      BY <2>1, <3>1, OrderIsInjective
  <2> QED
    BY <2>1, <2>2 DEF Orders
<1>5. ASSUME NEW i \in DOMAIN r, NEW j \in DOMAIN r, i < j
      PROVE  use[r[i]] < use[r[j]]
  <2>1. i \in 1 .. Len(o) - k /\ j \in 1 .. Len(o) - k
    BY <1>2
  <2>2. k + i \in DOMAIN o /\ k + j \in DOMAIN o /\ k + i < k + j
    BY <1>0, <1>5, <2>1
  <2>3. r[i] = o[k + i] /\ r[j] = o[k + j]
    BY <1>1, <2>1
  <2> QED
    BY <2>2, <2>3 DEF Orders
<1>6. Orders(r, members \ front, use)
  BY <1>3, <1>4, <1>5 DEF Orders
<1> QED
  BY <1>1, <1>6 DEF r

\* Only the use of members matters.
LEMMA SameUse ==
  ASSUME NEW o, NEW use, NEW new, NEW members, Orders(o, members, use),
         \A m \in members : new[m] = use[m]
  PROVE  Orders(o, members, new)
BY DEF Orders

-----------------------------------------------------------------------------
(* Types and providers, step by step.                                      *)

USE DEF localVars, cacheVars, ghostVars

\* The bounds are natural numbers.
LEMMA Bounds ==
  /\ MaxEntries \in Nat /\ Ttl \in Nat /\ RefreshInterval \in Nat /\ ProviderInterval \in Nat
  /\ MaxTime \in Nat /\ MaxVersion \in Nat \ {0} /\ MaxCalls \in Nat
BY BoundsAreNaturals, VersionsBeginAtOne

\* No provider and no entry is None.
LEMMA NoneIsNew == None \notin Provider /\ None \notin Entry
BY NoneIsNoValue, Bounds DEF Provider, Entry

LEMMA OrderIsOrder == OrderIsRecency <=> Orders(order, Cached, lastUse)
BY DEF OrderIsRecency, Orders

LEMMA Initially == Init => CacheInv
<1> SUFFICES ASSUME Init PROVE CacheInv
  OBVIOUS
<1> USE Bounds DEF Init
<1>1. TypeOK
  <2>1. NoView \in View /\ stats \in Stats
    BY DEF NoView, View, Stats
  <2>2. \A q \in Query : history[q] \in Seq(0 .. MaxTime)
    OBVIOUS
  <2> QED
    BY <2>1, <2>2 DEF TypeOK
<1>2. LockFits /\ LocalsFit /\ ProvidersFit /\ ConfigsFit /\ CountsFit
  BY NamesAreDistinct DEF LockFits, LocalsFit, ProvidersFit, ConfigsFit, CountsFit, Busy, Query, Latest
<1>3. Cached = {}
  BY DEF Cached
<1>4. OrderIsRecency /\ OrderFits
  BY <1>3 DEF OrderIsRecency, OrderFits, Busy
<1> QED
  BY <1>1, <1>2, <1>4 DEF CacheInv

\* The world touches neither the cache nor a call.
LEMMA TickKeeps ==
  ASSUME CacheInv, Tick
  PROVE  CacheInv'
<1> USE Bounds DEF CacheInv, Tick
<1>1. TypeOK'
  BY DEF TypeOK
<1>2. LockFits' /\ LocalsFit' /\ ProvidersFit' /\ ConfigsFit'
  BY DEF LockFits, LocalsFit, ProvidersFit, CallFits, ConfigsFit, Busy
<1>3. CountsFit'
  <2>1. now \in Nat /\ now' = now + 1
    BY DEF TypeOK
  <2>2. \A t \in Thread : at[t] \in Nat
    BY DEF TypeOK
  <2>3. \A n \in Tenant : entries[n] # None => entries[n].loadedAt \in Nat
    BY DEF TypeOK, Entry
  <2> QED
    BY <2>1, <2>2, <2>3 DEF CountsFit, Latest
<1>4. OrderIsRecency' /\ OrderFits'
  BY DEF OrderIsRecency, OrderFits, Cached, Busy
<1> QED
  BY <1>1, <1>2, <1>3, <1>4

LEMMA WriteKeeps ==
  ASSUME CacheInv, NEW q \in Query, Write(q)
  PROVE  CacheInv'
<1> USE Bounds DEF CacheInv, Write
<1>1. TypeOK'
  <2>1. Append(history[q], now) \in Seq(0 .. MaxTime)
    BY DEF TypeOK
  <2> QED
    BY <2>1 DEF TypeOK
<1>2. LockFits' /\ LocalsFit' /\ ProvidersFit' /\ ConfigsFit'
  BY DEF LockFits, LocalsFit, ProvidersFit, CallFits, ConfigsFit, Busy
<1>4. CountsFit'
  <2>1. \A p \in Query : Latest(p)' <= MaxVersion
    <3>1. Latest(q)' = Latest(q) + 1 /\ Latest(q) \in Nat
      BY DEF TypeOK, Latest
    <3>2. \A p \in Query \ {q} : Latest(p)' = Latest(p)
      BY DEF TypeOK, Latest
    <3> QED
      BY <3>1, <3>2 DEF CountsFit
  <2> QED
    BY <2>1 DEF CountsFit
<1>3. OrderIsRecency' /\ OrderFits'
  BY DEF OrderIsRecency, OrderFits, Cached, Busy
<1> QED
  BY <1>1, <1>2, <1>3, <1>4

\* A call begins when no other one is under way, and its tenant becomes the one
\* that was asked for last.
LEMMA Entered ==
  ASSUME CacheInv, NEW t \in Thread, NEW n \in Tenant, Enter(t, n)
  PROVE  /\ lock = None /\ (\A s \in Thread : ~Busy(s)) /\ config[t] = None
         /\ loaded[n] # None <=> entries[n] # None
         /\ calls \in Nat /\ calls' = calls + 1 /\ calls' <= MaxCalls
         /\ lastUse \in [Tenant -> Nat] /\ lastUse'[n] = calls'
         /\ \A m \in Tenant \ {n} : lastUse'[m] = lastUse[m] /\ lastUse[m] < calls'
<1>1. lock = None /\ (\A s \in Thread : ~Busy(s)) /\ config[t] = None
  BY NamesAreDistinct DEF CacheInv, Enter, LockFree, LockFits, LocalsFit
<1>2. calls \in Nat /\ calls' = calls + 1 /\ calls' <= MaxCalls
  BY Bounds DEF CacheInv, TypeOK, Enter
<1>3. lastUse \in [Tenant -> 0 .. MaxCalls]
  BY DEF CacheInv, TypeOK
<1>4. \A m \in Tenant : lastUse[m] <= calls
  BY DEF CacheInv, OrderFits
<1>5. lastUse' = [lastUse EXCEPT ![n] = calls + 1]
  BY DEF Enter
<1>6. loaded[n] # None <=> entries[n] # None
  BY <1>1 DEF CacheInv, ProvidersFit
<1> QED
  BY <1>1, <1>2, <1>3, <1>4, <1>5, <1>6, Bounds

LEMMA GetMissKeeps ==
  ASSUME CacheInv, NEW t \in Thread, NEW n \in Tenant, GetMiss(t, n)
  PROVE  CacheInv'
<1>1. TypeOK /\ Enter(t, n)
  BY DEF CacheInv, GetMiss
<1>2. stats' \in Stats /\ stats' = [stats EXCEPT !.misses = @ + 1]
  <2>1. stats \in Stats /\ stats' = [stats EXCEPT !.misses = @ + 1]
    BY <1>1 DEF TypeOK, GetMiss
  <2> QED
    BY <2>1 DEF Stats
<1>3. stats \in Stats
  BY <1>1 DEF TypeOK
<1>4. /\ pc' = [pc EXCEPT ![t] = "shared"] /\ lock' = t
      /\ tenant' = [tenant EXCEPT ![t] = n]
      /\ at' = [at EXCEPT ![t] = now]
      /\ UNCHANGED <<now, history, view, problem, configs, failedLoads, loaded, entries,
                     order, config, served>>
  BY DEF GetMiss, Enter, Query1
<1>5. TypeOK'
  <2>1. calls' \in 0 .. MaxCalls /\ lastUse' \in [Tenant -> 0 .. MaxCalls]
    BY <1>1, Bounds DEF TypeOK, Enter
  <2> QED
    BY <1>1, <1>2, <1>4, <2>1 DEF TypeOK
<1>6. /\ pc'[t] = "shared" /\ tenant'[t] = n /\ config'[t] = None /\ at'[t] = now
      /\ \A s \in Thread \ {t} : /\ pc'[s] = pc[s] /\ tenant'[s] = tenant[s]
                                 /\ ~Busy(s)' /\ at'[s] = at[s]
  BY <1>1, <1>4, Entered DEF TypeOK, Busy
<1>7. LockFits' /\ LocalsFit'
  BY <1>1, <1>4, <1>6, Entered, NamesAreDistinct DEF CacheInv, LockFits, LocalsFit, Busy
<1>8. ProvidersFit'
  <2>1. CallFits(t)'
    BY <1>1, <1>4, <1>6, Entered DEF CallFits, GetMiss
  <2> QED
    BY <1>1, <1>4, <1>6, <2>1, Entered DEF CacheInv, ProvidersFit
<1>9. ConfigsFit'
  <2>1. \A s \in Thread : config'[s] # None => tenant'[s] = tenant[s]
    BY <1>4, <1>6
  <2> QED
    BY <1>4, <2>1 DEF CacheInv, ConfigsFit
<1>10. CountsFit'
  <2>1. \A s \in Thread : at'[s] <= now'
    BY <1>1, <1>4, <1>6, Bounds DEF CacheInv, CountsFit, TypeOK
  <2>2. stats'.hits + stats'.misses = calls'
    BY <1>1, <1>2, <1>3, Entered DEF CacheInv, CountsFit, Stats
  <2>3. stats'.refreshFailures = stats.refreshFailures /\ stats.refreshFailures \in Nat
          /\ failedLoads \in Nat
    BY <1>1, <1>2, <1>3, Bounds DEF Stats, TypeOK
  <2> QED
    BY <1>1, <1>4, <2>1, <2>2, <2>3, Entered, NamesAreDistinct DEF CacheInv, CountsFit, Latest
<1>11. OrderIsRecency'
  <2>1. n \notin Cached /\ Cached' = Cached /\ Cached \subseteq Tenant
    BY <1>4 DEF Cached, GetMiss
  <2>2. Orders(order, Cached, lastUse')
    BY <1>1, <2>1, Entered, OrderIsOrder, SameUse DEF CacheInv
  <2> QED
    BY <1>4, <2>1, <2>2 DEF OrderIsRecency, Orders
<1>12. OrderFits'
  <2>1. stats'.misses = stats.misses + 1 /\ stats'.evictions = stats.evictions
          /\ stats'.expirations = stats.expirations
    BY <1>2, <1>3 DEF Stats
  <2>2. stats.misses = Len(order) + stats.evictions + stats.expirations + failedLoads + 0
    BY <1>1, Entered DEF CacheInv, OrderFits
  <2>3. stats'.misses = Len(order') + stats'.evictions + stats'.expirations + failedLoads' + 1
    BY <1>1, <1>3, <1>4, <2>1, <2>2 DEF TypeOK, Stats
  <2>4. Busy(t)' /\ config'[t] = None
    BY <1>6 DEF Busy
  <2>5. \A m \in Tenant : lastUse'[m] <= calls'
    BY <1>1, Entered
  <2>6. Len(order') <= MaxEntries
    BY <1>4 DEF CacheInv, OrderFits
  <2> QED
    BY <1>1, <1>6, <2>3, <2>4, <2>5, <2>6, Entered DEF OrderFits
<1> QED
  BY <1>5, <1>7, <1>8, <1>9, <1>10, <1>11, <1>12 DEF CacheInv

\* The entry goes together with its provider.
LEMMA GetExpiredKeeps ==
  ASSUME CacheInv, NEW t \in Thread, NEW n \in Tenant, GetExpired(t, n)
  PROVE  CacheInv'
<1>1. TypeOK /\ Enter(t, n) /\ entries[n] # None
  BY DEF CacheInv, GetExpired
<1>2. stats' \in Stats /\ stats' = [stats EXCEPT !.expirations = @ + 1, !.misses = @ + 1]
  <2>1. stats \in Stats /\ stats' = [stats EXCEPT !.expirations = @ + 1, !.misses = @ + 1]
    BY <1>1 DEF TypeOK, GetExpired
  <2>2. [stats EXCEPT !.expirations = @ + 1] \in Stats
    BY <2>1 DEF Stats
  <2>3. stats' = [[stats EXCEPT !.expirations = @ + 1] EXCEPT !.misses = @ + 1]
    BY <2>1 DEF Stats
  <2>4. \A x \in Stats : [x EXCEPT !.misses = @ + 1] \in Stats
    BY DEF Stats
  <2> QED
    BY <2>1, <2>2, <2>3, <2>4
<1>3. stats \in Stats
  BY <1>1 DEF TypeOK
<1>4. /\ pc' = [pc EXCEPT ![t] = "shared"] /\ lock' = t
      /\ tenant' = [tenant EXCEPT ![t] = n]
      /\ at' = [at EXCEPT ![t] = now]
      /\ entries' = [entries EXCEPT ![n] = None]
      /\ order' = Without(n)
      /\ loaded' = [q \in Query |-> IF q = n THEN None ELSE loaded[q]]
      /\ UNCHANGED <<now, history, view, problem, configs, failedLoads, config, served>>
  BY DEF GetExpired, Enter, Query1, ClosedFor
<1>5. n \in Cached /\ Cached' = Cached \ {n} /\ Cached \subseteq Tenant
  BY <1>1, <1>4 DEF Cached, TypeOK
<1>6. /\ Without(n) \in Seq(Tenant) /\ Len(Without(n)) = Len(order) - 1
      /\ Orders(Without(n), Cached \ {n}, lastUse)
  BY <1>1, <1>5, Entered, OrderIsOrder, WithoutOrders DEF CacheInv, TypeOK
<1>7. TypeOK'
  <2>1. calls' \in 0 .. MaxCalls /\ lastUse' \in [Tenant -> 0 .. MaxCalls]
    BY <1>1, Bounds DEF TypeOK, Enter
  <2> QED
    BY <1>1, <1>2, <1>4, <1>6, <2>1 DEF TypeOK
<1>8. /\ pc'[t] = "shared" /\ tenant'[t] = n /\ config'[t] = None /\ at'[t] = now
      /\ \A s \in Thread \ {t} : /\ pc'[s] = pc[s] /\ tenant'[s] = tenant[s]
                                 /\ ~Busy(s)' /\ at'[s] = at[s]
  BY <1>1, <1>4, Entered DEF TypeOK, Busy
<1>9. \A m \in Tenant : /\ entries'[m] = IF m = n THEN None ELSE entries[m]
                        /\ loaded'[m] = IF m = n THEN None ELSE loaded[m]
  BY <1>1, <1>4 DEF TypeOK, Query
<1>10. LockFits' /\ LocalsFit'
  BY <1>1, <1>4, <1>8, Entered, NamesAreDistinct DEF CacheInv, LockFits, LocalsFit, Busy
<1>11. ProvidersFit'
  <2>1. CallFits(t)'
    BY <1>8, <1>9 DEF CallFits
  <2> QED
    BY <1>1, <1>8, <1>9, <2>1, Entered DEF CacheInv, ProvidersFit
<1>12. ConfigsFit'
  <2>1. \A s \in Thread : config'[s] # None => config'[s] = config[s] /\ tenant'[s] = tenant[s]
    BY <1>4, <1>8
  <2> QED
    BY <1>9, <2>1 DEF CacheInv, ConfigsFit
<1>13. CountsFit'
  <2>1. \A s \in Thread : at'[s] <= now'
    BY <1>1, <1>4, <1>8, Bounds DEF CacheInv, CountsFit, TypeOK
  <2>2. stats'.hits + stats'.misses = calls'
    BY <1>1, <1>2, <1>3, Entered DEF CacheInv, CountsFit, Stats
  <2>3. stats'.refreshFailures = stats.refreshFailures /\ stats.refreshFailures \in Nat
          /\ failedLoads \in Nat
    BY <1>1, <1>2, <1>3, Bounds DEF Stats, TypeOK
  <2> QED
    BY <1>1, <1>4, <1>9, <2>1, <2>2, <2>3, Entered, NamesAreDistinct DEF CacheInv, CountsFit, Latest
<1>14. OrderIsRecency'
  <2>1. Orders(order', Cached', lastUse')
    BY <1>1, <1>4, <1>5, <1>6, Entered, SameUse
  <2> QED
    BY <2>1 DEF OrderIsRecency, Orders
<1>15. OrderFits'
  <2>1. stats'.misses = stats.misses + 1 /\ stats'.evictions = stats.evictions
          /\ stats'.expirations = stats.expirations + 1
    BY <1>2, <1>3 DEF Stats
  <2>2. stats.misses = Len(order) + stats.evictions + stats.expirations + failedLoads + 0
    BY <1>1, Entered DEF CacheInv, OrderFits
  <2>3. Len(order) \in Nat /\ failedLoads \in Nat
    BY <1>1, Bounds DEF TypeOK
  <2>4. stats'.misses = Len(order') + stats'.evictions + stats'.expirations + failedLoads' + 1
    BY <1>3, <1>4, <1>6, <2>1, <2>2, <2>3 DEF Stats
  <2>5. Busy(t)' /\ config'[t] = None
    BY <1>8 DEF Busy
  <2>6. \A m \in Tenant : lastUse'[m] <= calls'
    BY <1>1, Entered
  <2>7. Len(order') <= MaxEntries
    BY <1>4, <1>6, <2>3, Bounds DEF CacheInv, OrderFits
  <2> QED
    BY <1>1, <1>8, <2>4, <2>5, <2>6, <2>7, Entered DEF OrderFits
<1> QED
  BY <1>7, <1>10, <1>11, <1>12, <1>13, <1>14, <1>15 DEF CacheInv

\* A hit moves its entry to the end of the order.
LEMMA TouchedOrders ==
  ASSUME CacheInv, NEW t \in Thread, NEW n \in Tenant, Enter(t, n), entries[n] # None
  PROVE  /\ MovedToEnd(n) \in Seq(Tenant) /\ Len(MovedToEnd(n)) = Len(order)
         /\ Orders(MovedToEnd(n), Cached, lastUse')
<1>1. TypeOK /\ n \in Cached /\ Cached \subseteq Tenant
  BY DEF CacheInv, Cached
<1>2. /\ Without(n) \in Seq(Tenant) /\ Len(Without(n)) = Len(order) - 1
      /\ Orders(Without(n), Cached \ {n}, lastUse)
  BY <1>1, Entered, OrderIsOrder, WithoutOrders DEF CacheInv, TypeOK
<1>3. \A m \in Cached \ {n} : lastUse'[m] = lastUse[m] /\ lastUse[m] < lastUse'[n]
  BY <1>1, Entered
<1>4. Len(order) \in Nat
  BY <1>1 DEF TypeOK
<1>5. (Cached \ {n}) \cup {n} = Cached
  BY <1>1
<1> DEFINE w == Without(n)
<1> HIDE DEF w
<1>6. w \in Seq(Tenant) /\ Orders(w, Cached \ {n}, lastUse)
  BY <1>2 DEF w
<1>7. /\ Append(w, n) \in Seq(Tenant) /\ Len(Append(w, n)) = Len(w) + 1
      /\ Orders(Append(w, n), (Cached \ {n}) \cup {n}, lastUse')
  BY <1>3, <1>6, AppendOrders
<1>8. Orders(Append(w, n), Cached, lastUse')
  BY <1>5, <1>7
<1>9. Len(Append(w, n)) = Len(order)
  BY <1>2, <1>4, <1>7 DEF w
<1> QED
  BY <1>7, <1>8, <1>9 DEF MovedToEnd, w

LEMMA GetHitKeeps ==
  ASSUME CacheInv, NEW t \in Thread, NEW n \in Tenant, GetHit(t, n)
  PROVE  CacheInv'
<1>1. TypeOK /\ Enter(t, n) /\ entries[n] # None
  BY DEF CacheInv, GetHit
<1>2. stats' \in Stats /\ stats' = [stats EXCEPT !.hits = @ + 1] /\ stats \in Stats
  <2>1. stats \in Stats /\ stats' = [stats EXCEPT !.hits = @ + 1]
    BY <1>1 DEF TypeOK, GetHit, Touched
  <2> QED
    BY <2>1 DEF Stats
<1>3. /\ pc' = [pc EXCEPT ![t] = "respond"]
      /\ tenant' = [tenant EXCEPT ![t] = n]
      /\ at' = [at EXCEPT ![t] = now]
      /\ config' = [config EXCEPT ![t] = entries[n].config]
      /\ served' = [served EXCEPT ![n] = configs[entries[n].config].view]
      /\ order' = MovedToEnd(n)
      /\ UNCHANGED <<now, history, view, problem, configs, failedLoads, loaded, entries, lock>>
  BY DEF GetHit, Enter, Touched, Undisturbed
<1>4. entries[n] \in Entry /\ entries[n].config \in Config /\ entries[n].config # None
  <2>1. entries[n] \in Entry
    BY <1>1 DEF TypeOK
  <2> QED
    BY <2>1, NamesAreDistinct DEF Entry
<1>5. TypeOK'
  <2>1. calls' \in 0 .. MaxCalls /\ lastUse' \in [Tenant -> 0 .. MaxCalls]
    BY <1>1, Bounds DEF TypeOK, Enter
  <2>2. configs[entries[n].config].view \in View
    BY <1>1, <1>4 DEF TypeOK
  <2> QED
    BY <1>1, <1>2, <1>3, <1>4, <2>1, <2>2, TouchedOrders DEF TypeOK
<1>6. /\ pc'[t] = "respond" /\ tenant'[t] = n /\ config'[t] = entries[n].config /\ at'[t] = now
      /\ \A s \in Thread \ {t} : /\ pc'[s] = pc[s] /\ tenant'[s] = tenant[s]
                                 /\ config'[s] = config[s] /\ at'[s] = at[s]
      /\ \A s \in Thread : ~Busy(s)'
  BY <1>1, <1>3, Entered DEF TypeOK, Busy
<1>7. LockFits' /\ LocalsFit'
  <2>1. n # None
    BY NamesAreDistinct
  <2> QED
    BY <1>1, <1>3, <1>4, <1>6, <2>1, Entered, NamesAreDistinct
    DEF CacheInv, LockFits, LocalsFit
<1>8. ProvidersFit'
  BY <1>1, <1>3, <1>6, Entered DEF CacheInv, ProvidersFit
<1>9. ConfigsFit'
  BY <1>1, <1>3, <1>6 DEF CacheInv, ConfigsFit
<1>10. CountsFit'
  <2>1. \A s \in Thread : at'[s] <= now'
    BY <1>1, <1>3, <1>6, Bounds DEF CacheInv, CountsFit, TypeOK
  <2>2. stats'.hits + stats'.misses = calls'
    BY <1>1, <1>2, Entered DEF CacheInv, CountsFit, Stats
  <2>3. stats'.refreshFailures = stats.refreshFailures /\ stats.refreshFailures \in Nat
          /\ failedLoads \in Nat
    BY <1>1, <1>2, Bounds DEF Stats, TypeOK
  <2> QED
    BY <1>1, <1>3, <2>1, <2>2, <2>3, Entered DEF CacheInv, CountsFit, Latest
<1>11. OrderIsRecency'
  <2>1. Cached' = Cached
    BY <1>3 DEF Cached
  <2>2. Orders(order', Cached', lastUse')
    BY <1>1, <1>3, <2>1, TouchedOrders
  <2> QED
    BY <2>2 DEF OrderIsRecency, Orders
<1>12. OrderFits'
  <2>1. stats'.misses = stats.misses /\ stats'.evictions = stats.evictions
          /\ stats'.expirations = stats.expirations
    BY <1>2 DEF Stats
  <2>2. stats.misses = Len(order) + stats.evictions + stats.expirations + failedLoads + 0
    BY <1>1, Entered DEF CacheInv, OrderFits
  <2>3. Len(order') = Len(order)
    BY <1>1, <1>3, TouchedOrders
  <2>4. \A m \in Tenant : lastUse'[m] <= calls'
    BY <1>1, Entered
  <2>5. Len(order') <= MaxEntries
    BY <2>3 DEF CacheInv, OrderFits
  <2> QED
    BY <1>3, <1>6, <2>1, <2>2, <2>3, <2>4, <2>5 DEF OrderFits
<1> QED
  BY <1>5, <1>7, <1>8, <1>9, <1>10, <1>11, <1>12 DEF CacheInv

LEMMA GetHitDueKeeps ==
  ASSUME CacheInv, NEW t \in Thread, NEW n \in Tenant, GetHitDue(t, n)
  PROVE  CacheInv'
<1>1. TypeOK /\ Enter(t, n) /\ entries[n] # None
  BY DEF CacheInv, GetHitDue
<1>2. stats' \in Stats /\ stats' = [stats EXCEPT !.hits = @ + 1] /\ stats \in Stats
  <2>1. stats \in Stats /\ stats' = [stats EXCEPT !.hits = @ + 1]
    BY <1>1 DEF TypeOK, GetHitDue, Touched
  <2> QED
    BY <2>1 DEF Stats
<1>3. /\ pc' = [pc EXCEPT ![t] = "shared"] /\ lock' = t
      /\ tenant' = [tenant EXCEPT ![t] = n]
      /\ at' = [at EXCEPT ![t] = now]
      /\ config' = [config EXCEPT ![t] = entries[n].config]
      /\ entries' = [entries EXCEPT ![n].refreshedAt = now]
      /\ order' = MovedToEnd(n)
      /\ UNCHANGED <<now, history, view, problem, configs, failedLoads, loaded, served>>
  BY DEF GetHitDue, Enter, Query1, Touched
<1>4. entries[n] \in Entry /\ entries[n].config \in Config /\ entries[n].config # None
  <2>1. entries[n] \in Entry
    BY <1>1 DEF TypeOK
  <2> QED
    BY <2>1, NamesAreDistinct DEF Entry
<1>5. /\ entries'[n] \in Entry /\ entries'[n] # None
      /\ entries'[n].config = entries[n].config /\ entries'[n].loadedAt = entries[n].loadedAt
      /\ \A m \in Tenant \ {n} : entries'[m] = entries[m]
  <2>1. now \in Nat /\ entries \in [Tenant -> Entry \cup {None}]
    BY <1>1, Bounds DEF TypeOK
  <2>2. entries'[n] = [entries[n] EXCEPT !.refreshedAt = now]
    BY <1>3, <2>1
  <2>3. entries'[n] \in Entry /\ entries'[n].config = entries[n].config
          /\ entries'[n].loadedAt = entries[n].loadedAt
    BY <1>4, <2>1, <2>2 DEF Entry
  <2> QED
    BY <1>3, <2>1, <2>3, NoneIsNew
<1>6. TypeOK'
  <2>1. calls' \in 0 .. MaxCalls /\ lastUse' \in [Tenant -> 0 .. MaxCalls]
    BY <1>1, Bounds DEF TypeOK, Enter
  <2>2. entries' \in [Tenant -> Entry \cup {None}]
    BY <1>1, <1>3, <1>5 DEF TypeOK
  <2> QED
    BY <1>1, <1>2, <1>3, <1>4, <2>1, <2>2, TouchedOrders DEF TypeOK
<1>7. /\ pc'[t] = "shared" /\ tenant'[t] = n /\ config'[t] = entries[n].config /\ at'[t] = now
      /\ \A s \in Thread \ {t} : /\ pc'[s] = pc[s] /\ tenant'[s] = tenant[s]
                                 /\ config'[s] = config[s] /\ at'[s] = at[s] /\ ~Busy(s)'
  BY <1>1, <1>3, Entered DEF TypeOK, Busy
<1>8. LockFits' /\ LocalsFit'
  BY <1>1, <1>3, <1>4, <1>7, Entered, NamesAreDistinct
  DEF CacheInv, LockFits, LocalsFit, Busy
<1>9. ProvidersFit'
  <2>1. CallFits(t)'
    BY <1>1, <1>3, <1>4, <1>5, <1>7, Entered DEF CallFits
  <2> QED
    BY <1>1, <1>3, <1>5, <1>7, <2>1, Entered DEF CacheInv, ProvidersFit
<1>10. ConfigsFit'
  BY <1>1, <1>5, <1>7 DEF CacheInv, ConfigsFit
<1>11. CountsFit'
  <2>1. \A s \in Thread : at'[s] <= now'
    BY <1>1, <1>3, <1>7, Bounds DEF CacheInv, CountsFit, TypeOK
  <2>2. stats'.hits + stats'.misses = calls'
    BY <1>1, <1>2, Entered DEF CacheInv, CountsFit, Stats
  <2>3. stats'.refreshFailures = stats.refreshFailures /\ stats.refreshFailures \in Nat
          /\ failedLoads \in Nat
    BY <1>1, <1>2, Bounds DEF Stats, TypeOK
  <2> QED
    BY <1>1, <1>3, <1>5, <2>1, <2>2, <2>3, Entered, NamesAreDistinct DEF CacheInv, CountsFit, Latest
<1>12. OrderIsRecency'
  <2>1. Cached' = Cached
    BY <1>1, <1>5 DEF Cached
  <2>2. Orders(order', Cached', lastUse')
    BY <1>1, <1>3, <2>1, TouchedOrders
  <2> QED
    BY <2>2 DEF OrderIsRecency, Orders
<1>13. OrderFits'
  <2>1. stats'.misses = stats.misses /\ stats'.evictions = stats.evictions
          /\ stats'.expirations = stats.expirations
    BY <1>2 DEF Stats
  <2>2. stats.misses = Len(order) + stats.evictions + stats.expirations + failedLoads + 0
    BY <1>1, Entered DEF CacheInv, OrderFits
  <2>3. Len(order') = Len(order)
    BY <1>1, <1>3, TouchedOrders
  <2>4. \A m \in Tenant : lastUse'[m] <= calls'
    BY <1>1, Entered
  <2>5. Len(order') <= MaxEntries
    BY <2>3 DEF CacheInv, OrderFits
  <2>6. \A s \in Thread : Busy(s)' => s = t /\ config'[s] # None
    BY <1>4, <1>7
  <2> QED
    BY <1>1, <1>3, <1>7, <2>1, <2>2, <2>3, <2>4, <2>5, <2>6, Entered DEF OrderFits
<1> QED
  BY <1>6, <1>8, <1>9, <1>10, <1>11, <1>12, <1>13 DEF CacheInv

\* A select puts a provider in place, if there was none, and changes nothing of
\* the cache.
LEMMA SelectKeeps ==
  ASSUME CacheInv, NEW t \in Thread, Selecting(t), NEW p \in Provider,
         loaded' = [loaded EXCEPT ![Asked(t)] = p], Read(t, p.version), Goes(t),
         problem' \in [Thread -> BOOLEAN],
         UNCHANGED <<now, history, tenant, at, config, cacheVars, ghostVars>>
  PROVE  CacheInv'
<1>1. TypeOK
  BY DEF CacheInv
<1>2. p # None /\ p.version \in 1 .. MaxVersion
  BY NoneIsNew DEF Provider
<1>3. /\ Busy(t) /\ lock = t /\ \A s \in Thread \ {t} : ~Busy(s)
      /\ pc[t] # "idle" /\ tenant[t] \in Tenant
  <2>1. Busy(t) /\ pc[t] # "idle" /\ lock = t
    BY DEF CacheInv, LockFits, Selecting, Busy
  <2> QED
    BY <1>1, <2>1 DEF CacheInv, LockFits, LocalsFit, TypeOK
<1>4. /\ pc'[t] = (IF pc[t] = "shared" THEN "own" ELSE "conclude") /\ Busy(t)'
      /\ \A s \in Thread \ {t} : pc'[s] = pc[s] /\ ~Busy(s)'
  BY <1>1, <1>3 DEF Goes, TypeOK, Busy
<1>5. /\ Asked(t) \in Query /\ loaded'[Asked(t)] = p
      /\ \A q \in Query \ {Asked(t)} : loaded'[q] = loaded[q]
  BY <1>1, <1>3 DEF Asked, Query, TypeOK
<1>6. TypeOK'
  <2>1. view' \in [Thread -> View]
    <3>1. view[t] \in View /\ view'[t] \in View
      <4>1. view[t] \in View /\ p.version \in 0 .. MaxVersion
        BY <1>1, <1>2, Bounds DEF TypeOK, Provider
      <4>2. \/ view'[t] = [view[t] EXCEPT !.shared = p.version]
            \/ view'[t] = [view[t] EXCEPT !.own = p.version]
        BY <1>1 DEF TypeOK, Read
      <4>3. \A x \in View, v \in 0 .. MaxVersion :
              [x EXCEPT !.shared = v] \in View /\ [x EXCEPT !.own = v] \in View
        BY DEF View
      <4> QED
        BY <4>1, <4>2, <4>3
    <3> QED
      BY <1>1, <3>1 DEF TypeOK, Read
  <2>2. loaded' \in [Query -> Provider \cup {None}]
    BY <1>1, <1>5 DEF TypeOK
  <2>3. pc' \in [Thread -> {"idle", "shared", "own", "conclude", "respond"}]
    BY <1>1 DEF TypeOK, Goes
  <2> QED
    BY <1>1, <2>1, <2>2, <2>3 DEF TypeOK
<1>7. LockFits' /\ LocalsFit'
  BY <1>3, <1>4, NamesAreDistinct DEF CacheInv, LockFits, LocalsFit, Busy
<1>8. ProvidersFit'
  <2>1. Shared \notin Tenant
    BY NamesAreDistinct
  <2>2. CallFits(t)'
    <3>1. CallFits(t)
      BY <1>3 DEF CacheInv, ProvidersFit
    <3>2. CASE pc[t] = "shared"
      <4>1. loaded'[tenant[t]] = loaded[tenant[t]]
        BY <1>3, <1>5, <2>1, <3>2 DEF Asked, Query
      <4> QED
        BY <1>4, <3>1, <3>2, <4>1 DEF CallFits
    <3>3. CASE pc[t] = "own"
      BY <1>2, <1>4, <1>5, <3>1, <3>3 DEF CallFits, Asked
    <3> QED
      BY <3>2, <3>3 DEF Selecting
  <2>3. \A n \in Tenant \ {tenant[t]} : loaded'[n] = loaded[n]
    BY <1>5, <2>1 DEF Asked, Query
  <2> QED
    BY <1>3, <1>4, <2>2, <2>3 DEF CacheInv, ProvidersFit
<1>9. ConfigsFit' /\ CountsFit'
  BY DEF CacheInv, ConfigsFit, CountsFit, Latest
<1>10. OrderIsRecency' /\ OrderFits'
  BY <1>3, <1>4 DEF CacheInv, OrderIsRecency, OrderFits, Cached
<1> QED
  BY <1>6, <1>7, <1>8, <1>9, <1>10 DEF CacheInv

LEMMA SelectOkKeeps ==
  ASSUME CacheInv, NEW t \in Thread, SelectOk(t)
  PROVE  CacheInv' /\ Reread(Asked(t)) \in Provider
<1>1. TypeOK /\ tenant[t] \in Tenant
  BY DEF CacheInv, LocalsFit, TypeOK, SelectOk, Selecting
<1>2. Asked(t) \in Query
  BY <1>1 DEF Asked, Query
<1>3. Latest(Asked(t)) \in 1 .. MaxVersion
  <2>1. Len(history[Asked(t)]) \in Nat
    BY <1>1, <1>2 DEF TypeOK
  <2> QED
    BY <1>2, <2>1, Bounds DEF CacheInv, CountsFit, Latest
<1>4. Reread(Asked(t)) \in Provider
  <2>1. Fetched(Asked(t)) \in Provider
    BY <1>1, <1>3, Bounds DEF Fetched, Provider, TypeOK
  <2> QED
    BY <1>1, <1>2, <2>1 DEF Reread, TypeOK
<1> QED
  BY <1>1, <1>4, SelectKeeps DEF SelectOk, TypeOK

LEMMA SelectReportsKeeps ==
  ASSUME CacheInv, NEW t \in Thread, SelectReports(t)
  PROVE  /\ CacheInv' /\ PutOffRefresh(Asked(t)) \in Provider
         /\ PutOffRefresh(Asked(t)).version = loaded[Asked(t)].version
<1>1. TypeOK /\ tenant[t] \in Tenant
  BY DEF CacheInv, LocalsFit, TypeOK, SelectReports, Selecting
<1>2. Asked(t) \in Query /\ loaded[Asked(t)] \in Provider
  BY <1>1 DEF Asked, Query, SelectReports, TypeOK
<1>3. /\ PutOffRefresh(Asked(t)) \in Provider
      /\ PutOffRefresh(Asked(t)).version = loaded[Asked(t)].version
  <2>1. PICK p \in Provider : p = loaded[Asked(t)]
    BY <1>2
  <2>2. now + ProviderInterval \in Nat
    BY <1>1, Bounds DEF TypeOK
  <2>3. PICK b \in Nat : b = IF BackedOff(Asked(t)) THEN p.backoff ELSE now + ProviderInterval
    BY <2>2 DEF Provider
  <2>4. PutOffRefresh(Asked(t)) = [p EXCEPT !.due = now + ProviderInterval, !.backoff = b]
    BY <2>1, <2>3 DEF PutOffRefresh
  <2>5. PutOffRefresh(Asked(t)) =
          [version |-> p.version, due |-> now + ProviderInterval, backoff |-> b]
    BY <2>4 DEF Provider
  <2> QED
    BY <2>1, <2>2, <2>5 DEF Provider
<1>4. problem' \in [Thread -> BOOLEAN]
  BY <1>1 DEF SelectReports, TypeOK
<1> QED
  BY <1>3, <1>4, SelectKeeps DEF SelectReports

\* A call that leaves get gives the lock back.
LEMMA Left ==
  ASSUME CacheInv, NEW t \in Thread, Busy(t), NEW label \in {"idle", "respond"},
         Leave(t, label)
  PROVE  /\ lock = t /\ lock' = None /\ t # None /\ tenant[t] \in Tenant /\ CallFits(t)
         /\ \A s \in Thread \ {t} : ~Busy(s) /\ pc'[s] = pc[s]
         /\ pc'[t] = label /\ \A s \in Thread : ~Busy(s)'
         /\ pc' \in [Thread -> {"idle", "shared", "own", "conclude", "respond"}]
         /\ view' \in [Thread -> View] /\ problem' \in [Thread -> BOOLEAN]
         /\ view[t] \in View /\ problem[t] \in BOOLEAN
<1>1. TypeOK
  BY DEF CacheInv
<1>2. lock = t /\ lock' = None /\ t # None /\ \A s \in Thread \ {t} : ~Busy(s)
  BY NamesAreDistinct DEF CacheInv, LockFits, Leave
<1>3. tenant[t] \in Tenant
  <2>1. pc[t] # "idle"
    BY DEF Busy
  <2> QED
    BY <1>1, <2>1 DEF CacheInv, LocalsFit, TypeOK
<1>4. CallFits(t)
  BY DEF CacheInv, ProvidersFit
<1>5. /\ pc' = [pc EXCEPT ![t] = label]
      /\ pc' \in [Thread -> {"idle", "shared", "own", "conclude", "respond"}]
  BY <1>1 DEF Leave, TypeOK
<1>6. pc'[t] = label /\ \A s \in Thread \ {t} : pc'[s] = pc[s]
  BY <1>1, <1>5 DEF TypeOK
<1>7. \A s \in Thread : ~Busy(s)'
  BY <1>2, <1>6 DEF Busy
<1>8. view' \in [Thread -> View] /\ problem' \in [Thread -> BOOLEAN]
  <2>1. NoView \in View
    BY Bounds DEF NoView, View
  <2> QED
    BY <1>1, <2>1 DEF Leave, TypeOK
<1>9. view[t] \in View /\ problem[t] \in BOOLEAN
  BY <1>1 DEF TypeOK
<1> QED
  BY <1>2, <1>3, <1>4, <1>5, <1>6, <1>7, <1>8, <1>9

LEMMA LoadRaisesKeeps ==
  ASSUME CacheInv, NEW t \in Thread, LoadRaises(t)
  PROVE  CacheInv'
<1>1. TypeOK
  BY DEF CacheInv
<1>2. Leave(t, "idle") /\ Busy(t) /\ pc[t] # "conclude" /\ config[t] = None
  BY DEF LoadRaises, SelectRaises, Selecting, Busy
<1> DEFINE n == tenant[t]
<1>3. /\ lock = t /\ lock' = None /\ t # None /\ n \in Tenant /\ CallFits(t)
      /\ \A s \in Thread \ {t} : ~Busy(s) /\ pc'[s] = pc[s]
      /\ pc'[t] = "idle" /\ \A s \in Thread : ~Busy(s)'
      /\ pc' \in [Thread -> {"idle", "shared", "own", "conclude", "respond"}]
      /\ view' \in [Thread -> View] /\ problem' \in [Thread -> BOOLEAN]
  BY <1>2, Left
<1>4. /\ tenant' = [tenant EXCEPT ![t] = None]
      /\ at' = [at EXCEPT ![t] = 0]
      /\ failedLoads' = failedLoads + 1
      /\ UNCHANGED <<now, history, calls, lastUse, loaded, config, entries, order, configs,
                     stats, served>>
  BY DEF LoadRaises, Leave
<1>5. /\ stats \in Stats /\ failedLoads \in Nat /\ calls \in Nat /\ calls <= MaxCalls
      /\ stats.refreshFailures \in Nat
  BY <1>1, Bounds DEF TypeOK, Stats
<1>6. stats.refreshFailures + failedLoads + 1 <= calls
  BY <1>3 DEF CacheInv, CountsFit
<1>7. failedLoads' \in 0 .. MaxCalls
  BY <1>4, <1>5, <1>6, Bounds
<1>8. TypeOK'
  BY <1>1, <1>3, <1>4, <1>7, Bounds DEF TypeOK
<1>9. /\ tenant'[t] = None /\ at'[t] = 0
      /\ \A s \in Thread \ {t} : tenant'[s] = tenant[s] /\ at'[s] = at[s]
  BY <1>1, <1>4 DEF TypeOK
<1>10. LockFits' /\ LocalsFit'
  BY <1>2, <1>3, <1>4, <1>9, NamesAreDistinct DEF CacheInv, LockFits, LocalsFit
<1>11. ProvidersFit'
  <2>1. loaded[n] = None /\ entries[n] = None
    BY <1>2, <1>3 DEF CallFits
  <2> QED
    BY <1>3, <1>4, <2>1 DEF CacheInv, ProvidersFit
<1>12. ConfigsFit'
  BY <1>2, <1>4, <1>9 DEF CacheInv, ConfigsFit
<1>13. CountsFit'
  <2>1. \A s \in Thread : at'[s] <= now'
    BY <1>1, <1>4, <1>9, Bounds DEF CacheInv, CountsFit, TypeOK
  <2>2. stats'.refreshFailures + failedLoads' + 0 <= calls'
    BY <1>4, <1>5, <1>6
  <2> QED
    BY <1>3, <1>4, <2>1, <2>2 DEF CacheInv, CountsFit, Latest
<1>14. OrderIsRecency'
  BY <1>4 DEF CacheInv, OrderIsRecency, Cached
<1>15. OrderFits'
  <2>1. stats.misses = Len(order) + stats.evictions + stats.expirations + failedLoads + 1
    BY <1>2 DEF CacheInv, OrderFits
  <2>2. Len(order) \in Nat /\ stats.evictions \in Nat /\ stats.expirations \in Nat
    BY <1>1, <1>5 DEF TypeOK, Stats
  <2>3. stats'.misses = Len(order') + stats'.evictions + stats'.expirations + failedLoads' + 0
    <3>1. order' = order /\ stats' = stats /\ failedLoads' = failedLoads + 1
      BY <1>4
    <3>2. stats.misses =
            Len(order) + stats.evictions + stats.expirations + (failedLoads + 1) + 0
      BY <1>5, <2>1, <2>2, SMTT(20)
    <3> QED
      BY <3>1, <3>2
  <2> QED
    BY <1>3, <1>4, <2>3 DEF CacheInv, OrderFits
<1> QED
  BY <1>8, <1>10, <1>11, <1>12, <1>13, <1>14, <1>15 DEF CacheInv

\* A refresh that ends, however it does, replaces nothing but one configuration
\* and counts at most one failure.
LEMMA RefreshEndKeeps ==
  ASSUME CacheInv, NEW t \in Thread, Busy(t), config[t] # None, Leave(t, "respond"),
         configs' \in [Config -> [view : View, errors : BOOLEAN]],
         FailureCounted \/ UNCHANGED stats,
         served' = [served EXCEPT ![tenant[t]] = configs'[config[t]].view],
         UNCHANGED <<loaded, tenant, at, config, entries, order, failedLoads>>
  PROVE  CacheInv'
<1>1. TypeOK
  BY DEF CacheInv
<1> DEFINE n == tenant[t]
<1>2. /\ lock = t /\ lock' = None /\ t # None /\ n \in Tenant /\ CallFits(t)
      /\ \A s \in Thread \ {t} : ~Busy(s) /\ pc'[s] = pc[s]
      /\ pc'[t] = "respond" /\ \A s \in Thread : ~Busy(s)'
      /\ pc' \in [Thread -> {"idle", "shared", "own", "conclude", "respond"}]
      /\ view' \in [Thread -> View] /\ problem' \in [Thread -> BOOLEAN]
  BY Left
<1>3. UNCHANGED <<now, history, calls, lastUse>>
  BY DEF Leave
<1>4. /\ stats' \in Stats
      /\ stats'.hits = stats.hits /\ stats'.misses = stats.misses
      /\ stats'.evictions = stats.evictions /\ stats'.expirations = stats.expirations
      /\ stats'.refreshFailures <= stats.refreshFailures + 1
      /\ stats.refreshFailures \in Nat /\ stats'.refreshFailures \in Nat
  <2>1. stats \in Stats /\ (stats' = [stats EXCEPT !.refreshFailures = @ + 1] \/ stats' = stats)
    BY <1>1 DEF TypeOK, FailureCounted
  <2> QED
    BY <2>1 DEF Stats
<1>5. TypeOK'
  <2>1. config[t] \in Config
    BY <1>1 DEF TypeOK
  <2>2. configs'[config[t]].view \in View
    BY <2>1
  <2>3. served' \in [Tenant -> View]
    BY <1>1, <2>2 DEF TypeOK
  <2> QED
    BY <1>1, <1>2, <1>3, <1>4, <2>3 DEF TypeOK
<1>6. LockFits' /\ LocalsFit'
  <2>1. n # None
    BY <1>2, NamesAreDistinct
  <2> QED
    BY <1>2, <2>1, NamesAreDistinct DEF CacheInv, LockFits, LocalsFit
<1>7. ProvidersFit'
  <2>1. loaded[n] # None /\ entries[n] # None
    BY <1>2 DEF CallFits
  <2> QED
    BY <1>2, <2>1 DEF CacheInv, ProvidersFit
<1>8. ConfigsFit'
  BY DEF CacheInv, ConfigsFit
<1>9. CountsFit'
  <2>1. failedLoads \in Nat /\ calls \in Nat
    BY <1>1, Bounds DEF TypeOK
  <2>2. stats.refreshFailures + failedLoads + 1 <= calls
    BY <1>2 DEF CacheInv, CountsFit
  <2>3. stats'.refreshFailures + failedLoads' + 0 <= calls'
    BY <1>3, <1>4, <2>1, <2>2
  <2> QED
    BY <1>2, <1>3, <1>4, <2>3 DEF CacheInv, CountsFit, Latest
<1>10. OrderIsRecency'
  BY <1>3 DEF CacheInv, OrderIsRecency, Cached
<1>11. OrderFits'
  <2>1. \A s \in Thread : Busy(s) => config[s] # None
    BY <1>2
  <2> QED
    BY <1>2, <1>3, <1>4, <2>1 DEF CacheInv, OrderFits
<1> QED
  BY <1>5, <1>6, <1>7, <1>8, <1>9, <1>10, <1>11 DEF CacheInv

LEMMA RefreshRaisesKeeps ==
  ASSUME CacheInv, NEW t \in Thread, RefreshRaises(t)
  PROVE  CacheInv'
<1>1. TypeOK /\ config[t] \in Config
  BY DEF CacheInv, RefreshRaises, TypeOK
<1>2. Busy(t)
  BY DEF RefreshRaises, SelectRaises, Selecting, Busy
<1>3. /\ configs' \in [Config -> [view : View, errors : BOOLEAN]]
      /\ configs'[config[t]].view = configs[config[t]].view
  <2>1. configs[config[t]] \in [view : View, errors : BOOLEAN]
    BY <1>1 DEF TypeOK
  <2>2. /\ [configs[config[t]] EXCEPT !.errors = FALSE] \in [view : View, errors : BOOLEAN]
        /\ [configs[config[t]] EXCEPT !.errors = FALSE].view = configs[config[t]].view
    BY <2>1
  <2>3. configs' = [configs EXCEPT ![config[t]] = [@ EXCEPT !.errors = FALSE]]
    BY DEF RefreshRaises
  <2> QED
    BY <1>1, <2>2, <2>3 DEF TypeOK
<1> QED
  BY <1>2, <1>3, RefreshEndKeeps DEF RefreshRaises

LEMMA RefreshDoneKeeps ==
  ASSUME CacheInv, NEW t \in Thread, RefreshDone(t)
  PROVE  CacheInv'
<1>1. TypeOK /\ config[t] \in Config
  BY DEF CacheInv, RefreshDone, TypeOK
<1>2. Busy(t)
  BY DEF RefreshDone, Busy
<1>3. configs' \in [Config -> [view : View, errors : BOOLEAN]]
  <2>1. UpdatedView(t) \in View /\ problem[t] \in BOOLEAN
    BY <1>1 DEF TypeOK, UpdatedView
  <2> QED
    BY <1>1, <2>1 DEF TypeOK, RefreshDone
<1>4. FailureCounted \/ UNCHANGED stats
  BY DEF RefreshDone, CountedIfReported
<1> QED
  BY <1>2, <1>3, <1>4, RefreshEndKeeps DEF RefreshDone

\* A request that has its answer leaves.
LEMMA RespondKeeps ==
  ASSUME CacheInv, NEW t \in Thread, Respond(t)
  PROVE  CacheInv'
<1>1. TypeOK /\ ~Busy(t) /\ lock # t
  BY DEF CacheInv, Respond, Busy, LockFits
<1>2. /\ pc' = [pc EXCEPT ![t] = "idle"]
      /\ tenant' = [tenant EXCEPT ![t] = None]
      /\ config' = [config EXCEPT ![t] = None]
      /\ at' = [at EXCEPT ![t] = 0]
      /\ UNCHANGED <<now, history, loaded, view, problem, cacheVars, ghostVars>>
  BY DEF Respond
<1>3. TypeOK'
  BY <1>1, <1>2, Bounds DEF TypeOK
<1>4. /\ pc'[t] = "idle" /\ tenant'[t] = None /\ config'[t] = None /\ at'[t] = 0 /\ ~Busy(t)'
      /\ \A s \in Thread \ {t} :
           /\ pc'[s] = pc[s] /\ tenant'[s] = tenant[s] /\ config'[s] = config[s]
           /\ at'[s] = at[s] /\ (Busy(s)' <=> Busy(s))
  BY <1>1, <1>2 DEF TypeOK, Busy
<1>5. LockFits' /\ LocalsFit'
  BY <1>1, <1>2, <1>4 DEF CacheInv, LockFits, LocalsFit
<1>6. ProvidersFit'
  <2>1. \A s \in Thread : Busy(s)' => CallFits(s)'
    BY <1>2, <1>4 DEF CacheInv, ProvidersFit, CallFits
  <2> QED
    BY <1>1, <1>2, <1>4, <2>1 DEF CacheInv, ProvidersFit
<1>7. ConfigsFit'
  BY <1>2, <1>4 DEF CacheInv, ConfigsFit
<1>8. CountsFit'
  <2>1. \A s \in Thread : at'[s] <= now'
    BY <1>1, <1>2, <1>4, Bounds DEF CacheInv, CountsFit, TypeOK
  <2> QED
    BY <1>2, <2>1 DEF CacheInv, CountsFit, Latest
<1>9. OrderIsRecency'
  BY <1>2 DEF CacheInv, OrderIsRecency, Cached
<1>10. OrderFits'
  <2>1. \A s \in Thread : Busy(s)' => Busy(s) /\ tenant'[s] = tenant[s] /\ config'[s] = config[s]
    BY <1>4
  <2>2. (\E s \in Thread : Busy(s)' /\ config'[s] = None)
          <=> (\E s \in Thread : Busy(s) /\ config[s] = None)
    BY <1>1, <1>4
  <2> QED
    BY <1>2, <2>1, <2>2 DEF CacheInv, OrderFits
<1> QED
  BY <1>3, <1>5, <1>6, <1>7, <1>8, <1>9, <1>10 DEF CacheInv

\* How many places a full order is over capacity.
LEMMA Excess ==
  ASSUME NEW o \in Seq(Tenant)
  PROVE  /\ OverCapacity(o) \in 0 .. Len(o)
         /\ Len(o) - OverCapacity(o) <= MaxEntries
<1> Len(o) \in Nat
  OBVIOUS
<1> QED
  BY Bounds DEF OverCapacity

\* A new entry takes its place at the end, and those over capacity leave with
\* their providers.
LEMMA LoadDoneKeeps ==
  ASSUME CacheInv, NEW t \in Thread, LoadDone(t)
  PROVE  CacheInv'
<1> DEFINE n == tenant[t]
           filled == Append(order, n)
           excess == OverCapacity(filled)
           victims == {filled[i] : i \in 1 .. excess}
<1>1. TypeOK
  BY DEF CacheInv
<1>2. Busy(t) /\ Leave(t, "respond") /\ pc[t] = "conclude" /\ config[t] = None
  BY DEF LoadDone, Busy
<1>3. /\ lock = t /\ lock' = None /\ t # None /\ n \in Tenant /\ CallFits(t)
      /\ \A s \in Thread \ {t} : ~Busy(s) /\ pc'[s] = pc[s]
      /\ pc'[t] = "respond" /\ \A s \in Thread : ~Busy(s)'
      /\ pc' \in [Thread -> {"idle", "shared", "own", "conclude", "respond"}]
      /\ view' \in [Thread -> View] /\ problem' \in [Thread -> BOOLEAN]
      /\ view[t] \in View /\ problem[t] \in BOOLEAN
  BY <1>2, Left
<1>4. entries[n] = None /\ loaded[n] # None
  BY <1>2, <1>3 DEF CallFits
<1>5. PICK c \in FreshConfig :
        /\ configs' = [configs EXCEPT ![c] = [view |-> view[t], errors |-> problem[t]]]
        /\ config' = [config EXCEPT ![t] = c]
        /\ entries' = [m \in Tenant |->
             IF m \in victims THEN None
             ELSE IF m = n THEN [config |-> c, loadedAt |-> at[t], refreshedAt |-> at[t]]
             ELSE entries[m]]
  BY DEF LoadDone
<1>6. /\ order' = SubSeq(filled, excess + 1, Len(filled))
      /\ loaded' = [q \in Query |-> IF q \in victims THEN None ELSE loaded[q]]
      /\ stats' = [stats EXCEPT !.evictions = @ + excess,
                                !.refreshFailures = @ + (IF problem[t] THEN 1 ELSE 0)]
      /\ served' = [served EXCEPT ![n] = view[t]]
      /\ UNCHANGED <<now, history, calls, lastUse, tenant, at, failedLoads>>
  BY DEF LoadDone, ClosedFor, Leave
<1>7. c \in Config /\ IsFreeConfig(c) /\ c # None
  BY <1>5, NamesAreDistinct DEF FreshConfig
<1>8. /\ filled \in Seq(Tenant) /\ Len(filled) = Len(order) + 1 /\ Len(order) \in Nat
      /\ Orders(filled, Cached \cup {n}, lastUse)
  <2>1. Cached \subseteq Tenant /\ n \notin Cached
    BY <1>4 DEF Cached
  <2>2. \A m \in Cached : lastUse[m] = lastUse[m] /\ lastUse[m] < lastUse[n]
    BY <1>2, <1>3, <2>1 DEF CacheInv, OrderFits
  <2>3. order \in Seq(Tenant) /\ Len(order) \in Nat
    BY <1>1 DEF TypeOK
  <2>4. Orders(order, Cached, lastUse)
    BY OrderIsOrder DEF CacheInv
  <2> HIDE DEF n
  <2> QED
    BY <1>3, <2>2, <2>3, <2>4, AppendOrders
<1>9. excess \in 0 .. Len(filled) /\ Len(filled) - excess <= MaxEntries
  BY <1>8, Excess
<1> HIDE DEF filled, excess
<1>10. /\ order' \in Seq(Tenant) /\ Len(order') = Len(filled) - excess
       /\ Orders(order', (Cached \cup {n}) \ victims, lastUse)
  <2>1. lastUse \in [Tenant -> Nat]
    BY <1>1, Bounds DEF TypeOK
  <2> QED
    BY <1>6, <1>8, <1>9, <2>1, RestOrders
<1> HIDE DEF victims
<1>11. PICK e \in Entry : /\ e = [config |-> c, loadedAt |-> at[t], refreshedAt |-> at[t]]
                          /\ e.config = c /\ e.loadedAt = at[t]
  <2>1. at[t] \in Nat
    BY <1>1, Bounds DEF TypeOK
  <2>2. [config |-> c, loadedAt |-> at[t], refreshedAt |-> at[t]] \in Entry
    BY <1>7, <2>1 DEF Entry
  <2> QED
    BY <2>2
<1>12. \A m \in Tenant : /\ entries'[m] = IF m \in victims THEN None
                                          ELSE IF m = n THEN e ELSE entries[m]
                         /\ loaded'[m] = IF m \in victims THEN None ELSE loaded[m]
  BY <1>5, <1>6, <1>11 DEF Query
<1>13. Cached' = (Cached \cup {n}) \ victims
  <2>1. Cached' = {m \in Tenant : entries'[m] # None}
    BY DEF Cached
  <2>2. Cached = {m \in Tenant : entries[m] # None}
    BY DEF Cached
  <2> QED
    BY <1>3, <1>12, <2>1, <2>2, NoneIsNew
<1>14. /\ stats \in Stats /\ stats' \in Stats
       /\ stats'.hits = stats.hits /\ stats'.misses = stats.misses
       /\ stats'.evictions = stats.evictions + excess
       /\ stats'.expirations = stats.expirations
       /\ stats'.refreshFailures <= stats.refreshFailures + 1
       /\ stats.refreshFailures \in Nat /\ stats'.refreshFailures \in Nat
  <2>1. stats \in Stats /\ excess \in Nat
    BY <1>1, <1>8, <1>9 DEF TypeOK
  <2>2. PICK f \in {0, 1} : f = IF problem[t] THEN 1 ELSE 0
    OBVIOUS
  <2> DEFINE x == [stats EXCEPT !.evictions = @ + excess]
  <2>3. /\ x \in Stats /\ x.evictions = stats.evictions + excess
        /\ x.hits = stats.hits /\ x.misses = stats.misses
        /\ x.expirations = stats.expirations /\ x.refreshFailures = stats.refreshFailures
    BY <2>1 DEF Stats
  <2>4. stats' = [x EXCEPT !.refreshFailures = @ + f]
    BY <1>6, <2>1, <2>2, <2>3 DEF Stats
  <2> HIDE DEF x
  <2>5. /\ stats' \in Stats /\ stats'.evictions = x.evictions
        /\ stats'.hits = x.hits /\ stats'.misses = x.misses
        /\ stats'.expirations = x.expirations
        /\ stats'.refreshFailures = x.refreshFailures + f
    BY <2>2, <2>3, <2>4 DEF Stats
  <2>6. stats.refreshFailures \in Nat /\ stats'.refreshFailures \in Nat
    BY <2>1, <2>5 DEF Stats
  <2> QED
    BY <2>1, <2>2, <2>3, <2>5, <2>6
<1>15. TypeOK'
  <2>1. entries' \in [Tenant -> Entry \cup {None}]
    BY <1>1, <1>5, <1>11 DEF TypeOK
  <2>2. loaded' \in [Query -> Provider \cup {None}]
    BY <1>1, <1>6 DEF TypeOK
  <2>3. /\ configs' \in [Config -> [view : View, errors : BOOLEAN]]
        /\ config' \in [Thread -> Config \cup {None}]
        /\ served' \in [Tenant -> View]
    BY <1>1, <1>3, <1>5, <1>6, <1>7 DEF TypeOK
  <2> QED
    BY <1>1, <1>3, <1>6, <1>10, <1>14, <2>1, <2>2, <2>3 DEF TypeOK
<1>16. /\ config'[t] = c
       /\ \A s \in Thread \ {t} : config'[s] = config[s]
  BY <1>1, <1>5 DEF TypeOK
<1>17. LockFits' /\ LocalsFit'
  <2>1. n # None
    BY <1>3, NamesAreDistinct
  <2> QED
    BY <1>3, <1>6, <1>7, <1>16, <2>1, NamesAreDistinct DEF CacheInv, LockFits, LocalsFit
<1>18. ProvidersFit'
  <2>1. \A m \in Tenant \ {n} : loaded[m] # None <=> entries[m] # None
    BY <1>3 DEF CacheInv, ProvidersFit
  <2>2. \A m \in Tenant : loaded'[m] # None <=> entries'[m] # None
    BY <1>4, <1>12, <2>1, NoneIsNew
  <2> QED
    BY <1>3, <2>2 DEF ProvidersFit
<1>19. ConfigsFit'
  <2>1. \A m \in Tenant : entries[m] # None => entries[m].config # c
    BY <1>7 DEF IsFreeConfig
  <2>2. \A s \in Thread : config[s] # c
    BY <1>7 DEF IsFreeConfig
  <2>3. \A m \in Tenant : entries'[m] # None =>
          \/ m = n /\ entries'[m].config = c
          \/ entries'[m] = entries[m] /\ entries[m].config # c
    BY <1>11, <1>12, <2>1
  <2>4. \A m, k \in Tenant :
          entries'[m] # None /\ entries'[k] # None /\ entries'[m].config = entries'[k].config =>
            m = k
    BY <2>3 DEF CacheInv, ConfigsFit
  <2>5. \A s \in Thread, m \in Tenant :
          config'[s] # None /\ entries'[m] # None /\ entries'[m].config = config'[s] =>
            tenant'[s] = m
    BY <1>6, <1>16, <2>2, <2>3 DEF CacheInv, ConfigsFit
  <2> QED
    BY <2>4, <2>5 DEF ConfigsFit
<1>20. CountsFit'
  <2>1. failedLoads \in Nat /\ calls \in Nat
    BY <1>1, Bounds DEF TypeOK
  <2>2. stats.refreshFailures + failedLoads + 1 <= calls
    BY <1>3 DEF CacheInv, CountsFit
  <2>3. stats'.refreshFailures + failedLoads' + 0 <= calls'
    BY <1>6, <1>14, <2>1, <2>2
  <2>4. \A m \in Tenant : entries'[m] # None => entries'[m].loadedAt <= now'
    BY <1>6, <1>11, <1>12 DEF CacheInv, CountsFit
  <2> QED
    BY <1>3, <1>6, <1>14, <2>3, <2>4 DEF CacheInv, CountsFit, Latest
<1>21. OrderIsRecency'
  BY <1>6, <1>10, <1>13 DEF OrderIsRecency, Orders
<1>22. OrderFits'
  <2>1. stats.misses = Len(order) + stats.evictions + stats.expirations + failedLoads + 1
    BY <1>2 DEF CacheInv, OrderFits
  <2>2. excess \in Nat /\ failedLoads \in Nat /\ stats.evictions \in Nat
          /\ stats.expirations \in Nat
    BY <1>1, <1>8, <1>9, <1>14, Bounds DEF TypeOK, Stats
  <2>3. stats.misses = (Len(filled) - excess) + (stats.evictions + excess) + stats.expirations
                         + failedLoads + 0
    <3>1. Len(order) \in Int /\ Len(filled) = Len(order) + 1
      BY <1>8
    <3>2. \A l, o, x, f, k \in Int :
            l + o + x + f + 1 = ((l + 1) - k) + (o + k) + x + f + 0
      OBVIOUS
    <3> HIDE DEF filled, excess
    <3> QED
      BY <2>1, <2>2, <3>1, <3>2
  <2>4. stats'.misses = Len(order') + stats'.evictions + stats'.expirations + failedLoads' + 0
    BY <1>6, <1>10, <1>14, <2>3
  <2>5. Len(order') <= MaxEntries
    BY <1>9, <1>10
  <2> QED
    BY <1>3, <1>6, <2>4, <2>5 DEF CacheInv, OrderFits
<1> QED
  BY <1>15, <1>17, <1>18, <1>19, <1>20, <1>21, <1>22 DEF CacheInv

\* A step keeps the invariant.
LEMMA Inductive == CacheInv /\ [Next]_vars => CacheInv'
<1> SUFFICES ASSUME CacheInv, [Next]_vars PROVE CacheInv'
  OBVIOUS
<1>1. CASE Tick
  BY <1>1, TickKeeps
<1>2. CASE \E q \in Changing : Write(q)
  BY <1>2, WriteKeeps, ChangingAreQueries DEF Query
<1>3. ASSUME NEW t \in Thread, GetStep(t)
      PROVE  CacheInv'
  <2>1. CASE \E n \in Tenant : GetMiss(t, n) \/ GetExpired(t, n) \/ GetHit(t, n) \/ GetHitDue(t, n)
    BY <2>1, GetMissKeeps, GetExpiredKeeps, GetHitKeeps, GetHitDueKeeps
  <2>2. CASE SelectOk(t) \/ SelectReports(t)
    BY <2>2, SelectOkKeeps, SelectReportsKeeps
  <2>3. CASE LoadRaises(t) \/ RefreshRaises(t)
    BY <2>3, LoadRaisesKeeps, RefreshRaisesKeeps
  <2>4. CASE RefreshDone(t) \/ LoadDone(t) \/ Respond(t)
    BY <2>4, RefreshDoneKeeps, LoadDoneKeeps, RespondKeeps
  <2> QED
    BY <1>3, <2>1, <2>2, <2>3, <2>4 DEF GetStep
<1>4. CASE UNCHANGED vars
  BY <1>4 DEF CacheInv, TypeOK, LockFits, LocalsFit, ProvidersFit, CallFits, ConfigsFit,
              CountsFit, OrderIsRecency, OrderFits, vars, Busy, Latest, Cached
<1> QED
  BY <1>1, <1>2, <1>3, <1>4 DEF Next

\* The invariant of the cache, whatever fails and however calls interleave.
THEOREM Invariant == Spec => []CacheInv
<1> QED
  BY Initially, Inductive, PTL DEF Spec

\* Every variable keeps the type its field or local has in the code.
THEOREM TypeCorrect == Spec => []TypeOK
<1>1. CacheInv => TypeOK
  BY DEF CacheInv
<1> QED
  BY <1>1, Invariant, PTL

\* What diagnostics and eviction rely on: the order lists what is cached, once
\* and by recency.
THEOREM OrderCorrect == Spec => []OrderIsRecency
<1>1. CacheInv => OrderIsRecency
  BY DEF CacheInv
<1> QED
  BY <1>1, Invariant, PTL

\* As many entries as the order is long.
LEMMA CachedCounts ==
  ASSUME CacheInv
  PROVE  Cardinality(Cached) = Len(order) /\ Len(order) \in Nat
<1>1. TypeOK /\ Orders(order, Cached, lastUse)
  BY OrderIsOrder DEF CacheInv
<1>2. lastUse \in [Tenant -> Nat] /\ order \in Seq(Tenant)
  BY <1>1, Bounds DEF TypeOK
<1> QED
  BY <1>1, <1>2, OrderCounts

\* Between calls the cache is within its capacity, and no provider outlives its
\* entry: what closing an evicted or expired tenant is for.
THEOREM ProvidersCorrect == Spec => []ProvidersFollowEntries
<1>1. CacheInv => ProvidersFollowEntries
  <2> SUFFICES ASSUME CacheInv PROVE ProvidersFollowEntries
    OBVIOUS
  <2>1. Cardinality(Cached) <= MaxEntries
    BY CachedCounts DEF CacheInv, OrderFits
  <2>2. ASSUME NEW n \in Tenant, lock = None \/ tenant[lock] # n
        PROVE  loaded[n] # None <=> n \in Cached
    <3>1. \A t \in Thread : Busy(t) => tenant[t] # n
      BY <2>2, NamesAreDistinct DEF CacheInv, LockFits
    <3> QED
      BY <3>1 DEF CacheInv, ProvidersFit, Cached
  <2> QED
    BY <2>1, <2>2 DEF ProvidersFollowEntries
<1> QED
  BY <1>1, Invariant, PTL

\* The counters of the diagnostics endpoint add up, for any number of calls.
THEOREM StatsCorrect == Spec => []StatsAddUp
<1>1. CacheInv => StatsAddUp
  <2> SUFFICES ASSUME CacheInv, lock = None
               PROVE  /\ stats.hits + stats.misses = calls
                      /\ stats.misses = Cardinality(Cached) + stats.evictions
                                          + stats.expirations + failedLoads
                      /\ stats.refreshFailures <= calls - failedLoads
    BY DEF StatsAddUp
  <2>1. \A t \in Thread : ~Busy(t)
    BY NamesAreDistinct DEF CacheInv, LockFits
  <2>2. stats.misses = Len(order) + stats.evictions + stats.expirations + failedLoads + 0
    BY <2>1 DEF CacheInv, OrderFits
  <2>3. /\ stats.refreshFailures \in Nat /\ failedLoads \in Nat /\ calls \in Nat
        /\ stats.evictions \in Nat /\ stats.expirations \in Nat
    BY Bounds DEF CacheInv, TypeOK, Stats
  <2>4. stats.refreshFailures + failedLoads + 0 <= calls
    BY DEF CacheInv, CountsFit
  <2> QED
    BY <2>2, <2>3, <2>4, CachedCounts DEF CacheInv, CountsFit
<1> QED
  BY <1>1, Invariant, PTL

-----------------------------------------------------------------------------
(* What failures leave alone.                                              *)

\* Failed selects keep the complete view of before: TenantConfig.refresh stores a
\* view only when neither of its two selects reported a failure.
THEOREM FailuresKeep == Spec => FailuresKeepView
<1> DEFINE Kept == \A n \in Tenant :
             entries[n] # None /\ entries'[n] # None /\ entries'[n].config = entries[n].config =>
               LET c == entries[n].config IN
               configs'[c].view # configs[c].view =>
                 ~configs'[c].errors /\ lock # None /\ ~problem[lock]
<1>1. CacheInv /\ [Next]_vars => Kept
  <2> SUFFICES ASSUME CacheInv, [Next]_vars, configs' # configs PROVE Kept
    OBVIOUS
  <2>1. TypeOK
    BY DEF CacheInv
  <2>2. PICK t \in Thread : RefreshRaises(t) \/ RefreshDone(t) \/ LoadDone(t)
    <3>1. PICK t \in Thread : GetStep(t)
      BY DEF Next, vars, Tick, Write
    <3>2. ~ \E n \in Tenant : GetMiss(t, n) \/ GetExpired(t, n) \/ GetHit(t, n) \/ GetHitDue(t, n)
      BY DEF GetMiss, GetExpired, GetHit, GetHitDue, Enter
    <3>3. ~ (SelectOk(t) \/ SelectReports(t) \/ LoadRaises(t) \/ Respond(t))
      BY DEF SelectOk, SelectReports, LoadRaises, Respond
    <3> QED
      BY <3>1, <3>2, <3>3 DEF GetStep
  <2>3. CASE RefreshRaises(t)
    <3>1. /\ config[t] \in Config
          /\ configs' = [configs EXCEPT ![config[t]] = [@ EXCEPT !.errors = FALSE]]
      BY <2>1, <2>3 DEF TypeOK, RefreshRaises
    <3>2. \A c \in Config : configs'[c].view = configs[c].view
      BY <2>1, <3>1 DEF TypeOK
    <3>3. \A n \in Tenant : entries[n] # None => entries[n].config \in Config
      BY <2>1 DEF TypeOK, Entry
    <3> QED
      BY <3>2, <3>3
  <2>4. CASE RefreshDone(t)
    <3>1. config[t] \in Config /\ lock = t /\ lock # None
      BY <2>1, <2>4, NamesAreDistinct DEF CacheInv, TypeOK, RefreshDone, LockFits, Busy
    <3>2. /\ configs'[config[t]] = [view |-> UpdatedView(t), errors |-> problem[t]]
          /\ \A c \in Config \ {config[t]} : configs'[c] = configs[c]
      BY <2>1, <2>4, <3>1 DEF TypeOK, RefreshDone
    <3>3. problem[t] => configs'[config[t]].view = configs[config[t]].view
      BY <3>2 DEF UpdatedView
    <3>4. \A n \in Tenant : entries[n] # None => entries[n].config \in Config
      BY <2>1 DEF TypeOK, Entry
    <3> QED
      BY <3>1, <3>2, <3>3, <3>4
  <2>5. CASE LoadDone(t)
    <3>1. PICK c \in FreshConfig :
            configs' = [configs EXCEPT ![c] = [view |-> view[t], errors |-> problem[t]]]
      BY <2>5 DEF LoadDone
    <3>2. IsFreeConfig(c)
      BY DEF FreshConfig
    <3>3. \A n \in Tenant : entries[n] # None => configs'[entries[n].config] = configs[entries[n].config]
      BY <2>1, <3>1, <3>2 DEF IsFreeConfig, TypeOK, Entry
    <3> QED
      BY <3>3
  <2> QED
    BY <2>2, <2>3, <2>4, <2>5
<1>2. Kept => [Kept]_vars
  OBVIOUS
<1> HIDE DEF Kept
<1>3. CacheInv /\ [Next]_vars => [Kept]_vars
  BY <1>1
<1>4. Spec => [][Kept]_vars
  BY <1>3, Invariant, PTL DEF Spec
<1> QED
  BY <1>4 DEF FailuresKeepView, Kept

-----------------------------------------------------------------------------
(* Views never go back.                                                    *)

\* What a step that selects nothing and stores no view leaves in place.
Quiet ==
  /\ history' = history
  /\ loaded'[Shared] = loaded[Shared]
  /\ \A n \in Tenant :
       /\ loaded'[n] \in {loaded[n], None}
       /\ entries'[n] # None =>
            /\ entries[n] # None /\ entries'[n].config = entries[n].config
            /\ entries'[n].loadedAt = entries[n].loadedAt
            /\ loaded'[n] = loaded[n]
  /\ \A c \in Config : configs'[c].view = configs[c].view
  /\ \A t \in Thread : pc'[t] \in {"own", "conclude"} =>
       /\ pc'[t] = pc[t] /\ view'[t] = view[t] /\ tenant'[t] = tenant[t]
       /\ at'[t] = at[t] /\ config'[t] = config[t]
       /\ loaded'[tenant[t]] = loaded[tenant[t]]

\* The tenant of a call under way is known.
LEMMA BusyTenant ==
  ASSUME CacheInv, NEW t \in Thread, Busy(t)
  PROVE  /\ tenant[t] \in Tenant /\ CallFits(t) /\ lock = t /\ t # None
         /\ \A s \in Thread \ {t} : ~Busy(s)
<1>1. tenant[t] \in Tenant
  BY DEF CacheInv, LocalsFit, TypeOK, Busy
<1>2. lock = t /\ t # None /\ \A s \in Thread \ {t} : ~Busy(s)
  BY NamesAreDistinct DEF CacheInv, LockFits
<1>3. CallFits(t)
  BY DEF CacheInv, ProvidersFit
<1> QED
  BY <1>1, <1>2, <1>3

LEMMA QuietSteps ==
  ASSUME CacheInv,
         \/ Tick \/ UNCHANGED vars
         \/ \E t \in Thread :
              \/ \E n \in Tenant : GetMiss(t, n) \/ GetExpired(t, n) \/ GetHit(t, n) \/ GetHitDue(t, n)
              \/ LoadRaises(t) \/ RefreshRaises(t) \/ Respond(t)
  PROVE  Quiet
<1>1. TypeOK
  BY DEF CacheInv
<1>2. CASE Tick \/ UNCHANGED vars
  BY <1>2 DEF Tick, vars, Quiet
<1>3. ASSUME NEW t \in Thread, NEW n \in Tenant,
             GetMiss(t, n) \/ GetExpired(t, n) \/ GetHit(t, n) \/ GetHitDue(t, n)
      PROVE  Quiet
  <2>1. Enter(t, n) /\ UNCHANGED <<history, configs, view>>
    BY <1>3 DEF GetMiss, GetExpired, GetHit, GetHitDue, Enter
  <2>2. \A s \in Thread : ~Busy(s)
    BY <2>1, Entered
  <2>3. pc' = [pc EXCEPT ![t] = "shared"] \/ pc' = [pc EXCEPT ![t] = "respond"]
    BY <1>3 DEF GetMiss, GetExpired, GetHit, GetHitDue, Query1
  <2>4. \A s \in Thread : pc'[s] \notin {"own", "conclude"}
    BY <1>1, <2>2, <2>3 DEF TypeOK, Busy
  <2>5. CASE GetExpired(t, n)
    <3>1. /\ loaded' = [q \in Query |-> IF q = n THEN None ELSE loaded[q]]
          /\ entries' = [entries EXCEPT ![n] = None]
      BY <2>5 DEF GetExpired, ClosedFor
    <3>2. \A m \in Tenant : /\ entries'[m] = IF m = n THEN None ELSE entries[m]
                            /\ loaded'[m] = IF m = n THEN None ELSE loaded[m]
      BY <1>1, <3>1 DEF TypeOK, Query
    <3>3. loaded'[Shared] = loaded[Shared]
      BY <3>1, NamesAreDistinct DEF Query
    <3> QED
      BY <2>1, <2>4, <3>2, <3>3 DEF Quiet
  <2>6. CASE GetHitDue(t, n)
    <3>1. /\ loaded' = loaded /\ entries[n] # None
          /\ entries' = [entries EXCEPT ![n] = [@ EXCEPT !.refreshedAt = now]]
      BY <2>6 DEF GetHitDue
    <3>2. /\ entries'[n].config = entries[n].config /\ entries'[n].loadedAt = entries[n].loadedAt
          /\ \A m \in Tenant \ {n} : entries'[m] = entries[m]
      BY <1>1, <3>1 DEF TypeOK, Entry
    <3> QED
      BY <2>1, <2>4, <3>1, <3>2 DEF Quiet
  <2>7. CASE GetMiss(t, n) \/ GetHit(t, n)
    BY <2>1, <2>4, <2>7 DEF GetMiss, GetHit, Undisturbed, Quiet
  <2> QED
    BY <1>3, <2>5, <2>6, <2>7
<1>4. ASSUME NEW t \in Thread, LoadRaises(t) \/ RefreshRaises(t) \/ Respond(t)
      PROVE  Quiet
  <2>1. /\ UNCHANGED <<history, loaded, entries>>
        /\ pc' = [pc EXCEPT ![t] = "idle"] \/ pc' = [pc EXCEPT ![t] = "respond"]
    BY <1>4 DEF LoadRaises, RefreshRaises, Respond, Leave
  <2>2. \A c \in Config : configs'[c].view = configs[c].view
    <3>1. CASE configs' = configs
      BY <3>1
    <3>2. CASE RefreshRaises(t)
      <4>1. configs' = [configs EXCEPT ![config[t]] = [@ EXCEPT !.errors = FALSE]]
        BY <3>2 DEF RefreshRaises
      <4> QED
        BY <1>1, <4>1 DEF TypeOK
    <3> QED
      BY <1>4, <3>1, <3>2 DEF LoadRaises, Respond
  <2>3. \A s \in Thread : pc'[s] \in {"own", "conclude"} => s # t /\ pc'[s] = pc[s]
    BY <1>1, <2>1 DEF TypeOK
  <2>4. \A s \in Thread \ {t} : /\ view'[s] = view[s] /\ tenant'[s] = tenant[s]
                                /\ at'[s] = at[s] /\ config'[s] = config[s]
    BY <1>1, <1>4 DEF TypeOK, LoadRaises, RefreshRaises, Respond, Leave
  <2> QED
    BY <2>1, <2>2, <2>3, <2>4 DEF Quiet
<1> QED
  BY <1>2, <1>3, <1>4

LEMMA ServedInitially == Init => ServedInv
BY NamesAreDistinct DEF Init, ServedInv, ReadFits, ServedFits, Query, NoView, Latest

LEMMA QuietKeepsServed ==
  ASSUME CacheInv, ServedInv, Quiet, served' = served
  PROVE  ServedInv'
<1>1. ReadFits'
  <2>1. \A t \in Thread : pc'[t] = "conclude" => loaded'[tenant'[t]] = loaded[tenant[t]]
    BY DEF Quiet
  <2> QED
    BY <2>1 DEF Quiet, ServedInv, ReadFits
<1>2. ServedFits'
  <2>1. \A n \in Tenant : entries[n] # None => entries[n].config \in Config
    BY DEF CacheInv, TypeOK, Entry
  <2>2. \A q \in Query : loaded'[q] # None => loaded'[q] = loaded[q]
    BY DEF Quiet, Query
  <2>3. \A n \in Tenant : entries'[n] # None =>
          configs'[entries'[n].config].view = configs[entries[n].config].view
    BY <2>1 DEF Quiet
  <2> QED
    BY <2>2, <2>3 DEF Quiet, ServedInv, ServedFits, Latest, Query
<1> QED
  BY <1>1, <1>2 DEF ServedInv

\* A version that is there does not go away.
LEMMA WriteKeepsServed ==
  ASSUME CacheInv, ServedInv, NEW q \in Query, Write(q)
  PROVE  ServedInv' /\ served' = served
<1>1. /\ history' = [history EXCEPT ![q] = Append(@, now)]
      /\ UNCHANGED <<loaded, entries, configs, served, pc, view, tenant>>
  BY DEF Write
<1>2. \A p \in Query : Latest(p)' >= Latest(p) /\ Latest(p) \in Nat /\ Latest(p)' \in Nat
  BY <1>1 DEF CacheInv, TypeOK, Latest
<1>3. ReadFits'
  BY <1>1 DEF ServedInv, ReadFits
<1>4. ServedFits'
  <2>1. \A p \in Query : loaded[p] # None => loaded[p].version \in Nat
    BY DEF CacheInv, TypeOK, Provider
  <2>2. \A n \in Tenant : served[n].own \in Nat /\ n \in Query
    BY DEF CacheInv, TypeOK, View, Query
  <2>3. \A p \in Query : loaded[p] # None => loaded[p].version <= Latest(p)'
    BY <1>2, <2>1 DEF ServedInv, ServedFits
  <2>4. \A n \in Tenant : served[n].own <= Latest(n)'
    BY <1>2, <2>2 DEF ServedInv, ServedFits
  <2> QED
    BY <1>1, <2>3, <2>4 DEF ServedInv, ServedFits
<1> QED
  BY <1>1, <1>3, <1>4 DEF ServedInv

\* A select leaves its provider with the version it had or with the latest.
LEMMA SelectKeepsServed ==
  ASSUME CacheInv, ServedInv, NEW t \in Thread, Selecting(t), NEW p \in Provider,
         loaded' = [loaded EXCEPT ![Asked(t)] = p], Read(t, p.version), Goes(t),
         \/ p.version = Latest(Asked(t))
         \/ loaded[Asked(t)] # None /\ p.version = loaded[Asked(t)].version,
         UNCHANGED <<history, tenant, config, cacheVars, ghostVars>>
  PROVE  ServedInv'
<1> DEFINE q == Asked(t)
<1>1. TypeOK
  BY DEF CacheInv
<1>2. /\ tenant[t] \in Tenant /\ \A s \in Thread \ {t} : ~Busy(s)
      /\ tenant[t] \in Query /\ Shared \in Query /\ Shared # tenant[t]
  <2>1. Busy(t)
    BY DEF Selecting, Busy
  <2> QED
    BY <2>1, BusyTenant, NamesAreDistinct DEF Query
<1>3. /\ q \in Query /\ loaded'[q] = p /\ p # None
      /\ \A r \in Query \ {q} : loaded'[r] = loaded[r]
  BY <1>1, <1>2, NoneIsNew DEF TypeOK, Asked
<1>4. /\ pc'[t] = (IF pc[t] = "shared" THEN "own" ELSE "conclude")
      /\ \A s \in Thread \ {t} : pc'[s] = pc[s]
  BY <1>1 DEF Goes, TypeOK
<1>5. /\ pc[t] = "shared" => view'[t].shared = p.version
      /\ pc[t] = "own" => view'[t].own = p.version /\ view'[t].shared = view[t].shared
  BY <1>1 DEF Read, TypeOK, View
<1>6. p.version \in Nat /\ p.version <= Latest(q)
  <2>1. p.version \in Nat /\ Latest(q) \in Nat
    BY <1>1, <1>3, Bounds DEF Provider, TypeOK, Latest
  <2> QED
    BY <1>3, <2>1 DEF ServedInv, ServedFits
<1>7. loaded[q] # None => loaded[q].version <= p.version
  <2>1. loaded[q] # None => loaded[q].version \in Nat /\ loaded[q].version <= Latest(q)
    BY <1>1, <1>3 DEF ServedInv, ServedFits, TypeOK, Provider
  <2> QED
    BY <1>6, <2>1
<1>8. ReadFits'
  <2>1. CASE pc[t] = "shared"
    <3>1. q = Shared
      BY <2>1 DEF Asked
    <3> QED
      BY <1>2, <1>3, <1>4, <1>5, <2>1, <3>1 DEF ReadFits, Busy
  <2>2. CASE pc[t] = "own"
    <3>1. q = tenant[t]
      BY <2>2 DEF Asked
    <3>2. loaded'[Shared] = loaded[Shared]
      BY <1>2, <1>3, <3>1
    <3> QED
      BY <1>2, <1>3, <1>4, <1>5, <2>2, <3>1, <3>2 DEF ReadFits, Busy, ServedInv
  <2> QED
    BY <2>1, <2>2 DEF Selecting
<1>9. ServedFits'
  <2>1. \A r \in Query : loaded'[r] # None => loaded'[r].version <= Latest(r)'
    BY <1>3, <1>6 DEF ServedInv, ServedFits, Latest
  <2>2. ASSUME NEW n \in Tenant, loaded'[n] # None
        PROVE  served[n].own <= loaded'[n].version
    <3>1. n \in Query /\ served[n].own \in Nat /\ Latest(n) \in Nat
      <4>1. n \in Query /\ served[n] \in View
        BY <1>1 DEF TypeOK, Query
      <4> QED
        BY <1>1, <4>1, Bounds DEF TypeOK, View, Latest
    <3>2. CASE n = q
      <4>1. loaded[n] # None => loaded[n].version \in Nat
        BY <1>1, <3>1 DEF TypeOK, Provider
      <4> QED
        BY <1>3, <1>6, <1>7, <3>1, <3>2, <4>1 DEF ServedInv, ServedFits
    <3>3. CASE n # q
      BY <1>3, <2>2, <3>1, <3>3 DEF ServedInv, ServedFits
    <3> QED
      BY <3>2, <3>3
  <2>3. ASSUME NEW n \in Tenant
        PROVE  IF loaded'[Shared] = None THEN served[n].shared = 0
                                         ELSE served[n].shared <= loaded'[Shared].version
    <3>1. served[n].shared \in Nat
      BY <1>1, Bounds DEF TypeOK, View
    <3>2. CASE q = Shared
      <4>1. loaded[Shared] # None => loaded[Shared].version \in Nat
        BY <1>1, <1>2 DEF TypeOK, Provider
      <4> QED
        BY <1>3, <1>6, <1>7, <3>1, <3>2, <4>1 DEF ServedInv, ServedFits
    <3>3. CASE q # Shared
      BY <1>2, <1>3, <3>3 DEF ServedInv, ServedFits
    <3> QED
      BY <3>2, <3>3
  <2> QED
    BY <2>1, <2>2, <2>3 DEF ServedInv, ServedFits, Latest
<1> QED
  BY <1>8, <1>9 DEF ServedInv

\* Between two served views of a tenant.
NoOlder(new, old) == new.shared >= old.shared /\ new.own >= old.own

\* What a call that reaches its end has read is not older than what its tenant
\* was served before.
LEMMA ReadIsNoOlder ==
  ASSUME CacheInv, ServedInv, NEW t \in Thread, pc[t] = "conclude"
  PROVE  /\ tenant[t] \in Tenant /\ view[t] \in View
         /\ view[t].own <= Latest(tenant[t])
         /\ loaded[tenant[t]] # None /\ view[t].own = loaded[tenant[t]].version
         /\ loaded[Shared] # None /\ view[t].shared = loaded[Shared].version
         /\ NoOlder(view[t], served[tenant[t]])
<1>1. tenant[t] \in Tenant /\ CallFits(t) /\ loaded[tenant[t]] # None
  BY BusyTenant DEF Busy, CallFits
<1>2. view[t] \in View /\ served[tenant[t]] \in View
  BY <1>1 DEF CacheInv, TypeOK
<1>3. /\ view[t].own = loaded[tenant[t]].version
      /\ loaded[Shared] # None /\ view[t].shared = loaded[Shared].version
  BY DEF ServedInv, ReadFits
<1>4. view[t].own <= Latest(tenant[t])
  BY <1>1, <1>3 DEF ServedInv, ServedFits, Query
<1>5. served[tenant[t]].own <= view[t].own /\ served[tenant[t]].shared <= view[t].shared
  BY <1>1, <1>3 DEF ServedInv, ServedFits
<1> QED
  BY <1>1, <1>2, <1>3, <1>4, <1>5, Bounds DEF NoOlder, View

LEMMA HitServesTheSame ==
  ASSUME CacheInv, ServedInv, NEW t \in Thread, NEW n \in Tenant, GetHit(t, n)
  PROVE  served' = served
BY DEF CacheInv, TypeOK, GetHit, ServedInv, ServedFits

LEMMA RefreshRaisesServesTheSame ==
  ASSUME CacheInv, ServedInv, NEW t \in Thread, RefreshRaises(t)
  PROVE  served' = served
<1>1. Busy(t) /\ config[t] # None
  BY DEF RefreshRaises, SelectRaises, Selecting, Busy
<1>2. tenant[t] \in Tenant /\ entries[tenant[t]] # None /\ entries[tenant[t]].config = config[t]
  BY <1>1, BusyTenant DEF CallFits
<1> QED
  BY <1>2 DEF CacheInv, TypeOK, RefreshRaises, ServedInv, ServedFits

LEMMA RefreshDoneKeepsServed ==
  ASSUME CacheInv, ServedInv, NEW t \in Thread, RefreshDone(t)
  PROVE  /\ ServedInv'
         /\ \A n \in Tenant : NoOlder(served'[n], served[n])
<1> DEFINE n == tenant[t]
           c == config[t]
<1>1. TypeOK /\ pc[t] = "conclude" /\ config[t] # None /\ Busy(t)
  BY DEF CacheInv, RefreshDone, Busy
<1>2. /\ n \in Tenant /\ entries[n] # None /\ entries[n].config = c
      /\ \A s \in Thread \ {t} : ~Busy(s)
  BY <1>1, BusyTenant DEF CallFits
<1>3. /\ configs' = [configs EXCEPT ![c] = [view |-> UpdatedView(t), errors |-> problem[t]]]
      /\ served' = [served EXCEPT ![n] = configs'[c].view]
      /\ pc' = [pc EXCEPT ![t] = "respond"]
      /\ UNCHANGED <<loaded, history, entries>>
  BY DEF RefreshDone, Leave
<1>4. c \in Config /\ configs'[c].view = UpdatedView(t)
      /\ \A d \in Config \ {c} : configs'[d] = configs[d]
  BY <1>1, <1>3 DEF TypeOK
<1>5. served'[n] = UpdatedView(t) /\ \A m \in Tenant \ {n} : served'[m] = served[m]
  BY <1>1, <1>2, <1>3, <1>4 DEF TypeOK
<1>6. UpdatedView(t) \in {view[t], served[n]}
  BY <1>2 DEF UpdatedView, ServedInv, ServedFits
<1>7. \A s \in Thread : pc'[s] \notin {"own", "conclude"}
  BY <1>1, <1>2, <1>3 DEF TypeOK, Busy
<1>8. ReadFits'
  BY <1>7 DEF ReadFits
<1>9. ServedFits'
  <2>1. /\ UpdatedView(t).own <= Latest(n)
        /\ UpdatedView(t).own <= loaded[n].version
        /\ loaded[Shared] # None /\ UpdatedView(t).shared <= loaded[Shared].version
    <3>1. /\ view[t].own <= Latest(n) /\ loaded[n] # None /\ loaded[Shared] # None
          /\ view[t].own = loaded[n].version /\ view[t].shared = loaded[Shared].version
      BY <1>1, ReadIsNoOlder
    <3>2. view[t].own \in Nat /\ view[t].shared \in Nat
      BY <1>1, Bounds DEF TypeOK, View
    <3>3. CASE UpdatedView(t) = view[t]
      BY <3>1, <3>2, <3>3
    <3>4. CASE UpdatedView(t) = served[n]
      BY <1>2, <3>1, <3>4 DEF ServedInv, ServedFits
    <3> QED
      BY <1>6, <3>3, <3>4
  <2>2. \A m \in Tenant \ {n} : entries[m] # None =>
          configs'[entries[m].config].view = configs[entries[m].config].view
    <3>1. \A m \in Tenant : entries[m] # None => entries[m].config \in Config
      BY <1>1 DEF TypeOK, Entry
    <3>2. \A m \in Tenant \ {n} : entries[m] # None => entries[m].config # c
      BY <1>2 DEF CacheInv, ConfigsFit
    <3> QED
      BY <1>4, <3>1, <3>2
  <2>3. entries'[n].config = c
    BY <1>2, <1>3
  <2> QED
    BY <1>2, <1>3, <1>4, <1>5, <2>1, <2>2, <2>3 DEF ServedInv, ServedFits, Latest
<1>10. ASSUME NEW m \in Tenant
       PROVE  NoOlder(served'[m], served[m])
  <2>1. NoOlder(served[m], served[m])
    <3>1. served[m] \in View
      BY <1>1 DEF TypeOK
    <3> QED
      BY <3>1 DEF View, NoOlder
  <2> QED
    BY <1>1, <1>5, <1>6, <2>1, ReadIsNoOlder
<1> QED
  BY <1>8, <1>9, <1>10 DEF ServedInv

\* What a load that ends well leaves in place.
LEMMA Loaded ==
  ASSUME CacheInv, NEW t \in Thread, LoadDone(t)
  PROVE  /\ pc[t] = "conclude" /\ config[t] = None /\ tenant[t] \in Tenant
         /\ \A s \in Thread : pc'[s] \notin {"own", "conclude"}
         /\ \A s \in Thread \ {t} : pc'[s] = pc[s] /\ config'[s] = config[s]
         /\ pc'[t] = "respond" /\ config'[t] \in Config
         /\ configs'[config'[t]].view = view[t]
         /\ \A d \in Config \ {config'[t]} : configs'[d] = configs[d]
         /\ \A s \in Thread : config[s] # config'[t]
         /\ \A n \in Tenant : entries[n] # None => entries[n].config # config'[t]
         /\ \A n \in Tenant :
              /\ loaded'[n] \in {loaded[n], None}
              /\ entries'[n] # None => loaded'[n] = loaded[n]
              /\ entries'[n] # None => entries'[n] =
                   IF n = tenant[t]
                     THEN [config |-> config'[t], loadedAt |-> at[t], refreshedAt |-> at[t]]
                     ELSE entries[n]
         /\ loaded'[Shared] = loaded[Shared]
         /\ served' = [served EXCEPT ![tenant[t]] = view[t]]
         /\ UNCHANGED <<now, history, tenant, at>>
<1> DEFINE n == tenant[t]
           filled == Append(order, n)
           victims == {filled[i] : i \in 1 .. OverCapacity(filled)}
<1>1. TypeOK /\ Busy(t) /\ pc[t] = "conclude" /\ config[t] = None /\ Leave(t, "respond")
  BY DEF CacheInv, LoadDone, Busy
<1>2. n \in Tenant /\ \A s \in Thread \ {t} : ~Busy(s)
  BY <1>1, BusyTenant
<1>3. PICK c \in FreshConfig :
        /\ configs' = [configs EXCEPT ![c] = [view |-> view[t], errors |-> problem[t]]]
        /\ config' = [config EXCEPT ![t] = c]
        /\ entries' = [m \in Tenant |->
             IF m \in victims THEN None
             ELSE IF m = n THEN [config |-> c, loadedAt |-> at[t], refreshedAt |-> at[t]]
             ELSE entries[m]]
  BY DEF LoadDone
<1>4. /\ loaded' = [q \in Query |-> IF q \in victims THEN None ELSE loaded[q]]
      /\ served' = [served EXCEPT ![n] = view[t]]
      /\ pc' = [pc EXCEPT ![t] = "respond"]
      /\ UNCHANGED <<now, history, tenant, at>>
  BY DEF LoadDone, ClosedFor, Leave
<1>5. victims \subseteq Tenant
  <2>1. order \in Seq(Tenant)
    BY <1>1 DEF TypeOK
  <2>2. filled \in Seq(Tenant)
    BY <1>2, <2>1
  <2> HIDE DEF filled
  <2>3. OverCapacity(filled) \in 0 .. Len(filled) /\ Len(filled) \in Nat
    BY <2>2, Excess
  <2> QED
    BY <2>2, <2>3
<1> HIDE DEF victims, filled
<1>6. c \in Config /\ IsFreeConfig(c)
  BY DEF FreshConfig
<1>7. /\ config'[t] = c /\ configs'[c].view = view[t]
      /\ \A d \in Config \ {c} : configs'[d] = configs[d]
      /\ \A s \in Thread \ {t} : config'[s] = config[s]
  BY <1>1, <1>3, <1>6 DEF TypeOK
<1>8. /\ \A s \in Thread : config[s] # c
      /\ \A m \in Tenant : entries[m] # None => entries[m].config # c
  BY <1>6 DEF IsFreeConfig
<1>9. \A m \in Tenant :
        /\ loaded'[m] = IF m \in victims THEN None ELSE loaded[m]
        /\ entries'[m] = IF m \in victims THEN None
                         ELSE IF m = n THEN [config |-> c, loadedAt |-> at[t], refreshedAt |-> at[t]]
                         ELSE entries[m]
  BY <1>3, <1>4 DEF Query
<1>10. loaded'[Shared] = loaded[Shared]
  BY <1>4, <1>5, NamesAreDistinct DEF Query
<1>11. /\ pc'[t] = "respond" /\ \A s \in Thread \ {t} : pc'[s] = pc[s]
       /\ \A s \in Thread : pc'[s] \notin {"own", "conclude"}
  BY <1>1, <1>2, <1>4 DEF TypeOK, Busy
<1> QED
  BY <1>1, <1>2, <1>4, <1>6, <1>7, <1>8, <1>9, <1>10, <1>11

\* It leaves the other tenants' entries, which hold other configurations.
LEMMA LoadedElsewhere ==
  ASSUME CacheInv, NEW t \in Thread, LoadDone(t),
         NEW m \in Tenant, m # tenant[t], entries'[m] # None
  PROVE  entries'[m] = entries[m] /\ entries[m] # None /\ entries[m].config # config'[t]
<1>1. entries'[m] = entries[m]
  BY Loaded
<1>2. entries[m] # None => entries[m].config # config'[t]
  BY Loaded, ZenonT(20)
<1> QED
  BY <1>1, <1>2

LEMMA LoadDoneKeepsServed ==
  ASSUME CacheInv, ServedInv, NEW t \in Thread, LoadDone(t)
  PROVE  /\ ServedInv'
         /\ \A n \in Tenant : NoOlder(served'[n], served[n])
<1> DEFINE n == tenant[t]
<1>1. TypeOK /\ pc[t] = "conclude" /\ n \in Tenant /\ history' = history
  BY Loaded DEF CacheInv
<1>2. served'[n] = view[t] /\ \A m \in Tenant \ {n} : served'[m] = served[m]
  <2>1. served' = [served EXCEPT ![n] = view[t]]
    BY Loaded
  <2> QED
    BY <1>1, <2>1 DEF TypeOK
<1>3. ReadFits'
  BY Loaded DEF ReadFits
<1>4. ServedFits'
  <2>1. /\ view[t].own <= Latest(n) /\ loaded[n] # None /\ loaded[Shared] # None
        /\ view[t].own = loaded[n].version /\ view[t].shared = loaded[Shared].version
    BY <1>1, ReadIsNoOlder
  <2>2. view[t].own \in Nat /\ view[t].shared \in Nat
    BY <1>1, Bounds DEF TypeOK, View
  <2>3. \A q \in Query : loaded'[q] # None => loaded'[q] = loaded[q]
    BY Loaded DEF Query
  <2>4. loaded'[Shared] = loaded[Shared]
    BY Loaded
  <2>5. ASSUME NEW m \in Tenant, entries'[m] # None
        PROVE  served'[m] = configs'[entries'[m].config].view
    <3>1. CASE m = n
      <4>1. /\ entries'[n] = [config |-> config'[t], loadedAt |-> at[t], refreshedAt |-> at[t]]
            /\ configs'[config'[t]].view = view[t]
        BY <2>5, <3>1, Loaded
      <4>2. entries'[n].config = config'[t]
        BY <4>1
      <4> QED
        BY <1>2, <3>1, <4>1, <4>2
    <3>2. CASE m # n
      <4>1. entries'[m] = entries[m] /\ entries[m] # None /\ entries[m].config # config'[t]
        BY <2>5, <3>2, LoadedElsewhere
      <4>2. entries[m].config \in Config
        BY <1>1, <4>1 DEF TypeOK, Entry
      <4>3. configs'[entries[m].config] = configs[entries[m].config]
        BY <4>1, <4>2, Loaded
      <4> QED
        BY <1>2, <3>2, <4>1, <4>3 DEF ServedInv, ServedFits
    <3> QED
      BY <3>1, <3>2
  <2>6. ASSUME NEW m \in Tenant
        PROVE  /\ served'[m].own <= Latest(m)
               /\ loaded'[m] # None => served'[m].own <= loaded'[m].version
               /\ IF loaded'[Shared] = None THEN served'[m].shared = 0
                                            ELSE served'[m].shared <= loaded'[Shared].version
    <3>1. m \in Query
      BY DEF Query
    <3>2. CASE m = n
      BY <1>2, <2>1, <2>2, <2>3, <2>4, <3>1, <3>2
    <3>3. CASE m # n
      BY <1>2, <2>3, <2>4, <3>1, <3>3 DEF ServedInv, ServedFits
    <3> QED
      BY <3>2, <3>3
  <2> QED
    BY <1>1, <2>3, <2>5, <2>6 DEF ServedInv, ServedFits, Latest
<1>5. ASSUME NEW m \in Tenant
      PROVE  NoOlder(served'[m], served[m])
  <2>1. NoOlder(served[m], served[m])
    <3>1. served[m] \in View
      BY <1>1 DEF TypeOK
    <3> QED
      BY <3>1 DEF View, NoOlder
  <2> QED
    BY <1>1, <1>2, <2>1, ReadIsNoOlder
<1> QED
  BY <1>3, <1>4, <1>5 DEF ServedInv

\* Selecting, by either way it can end.
LEMMA SelectsKeepServed ==
  ASSUME CacheInv, ServedInv, NEW t \in Thread, SelectOk(t) \/ SelectReports(t)
  PROVE  ServedInv' /\ served' = served
<1>1. CASE SelectOk(t)
  <2> DEFINE p == Reread(Asked(t))
  <2>1. p \in Provider
    BY <1>1, SelectOkKeeps
  <2>2. \/ p.version = Latest(Asked(t))
        \/ loaded[Asked(t)] # None /\ p.version = loaded[Asked(t)].version
    BY DEF Reread, Fetched
  <2>3. /\ Selecting(t) /\ loaded' = [loaded EXCEPT ![Asked(t)] = p] /\ Read(t, p.version)
        /\ Goes(t) /\ UNCHANGED <<history, tenant, config, cacheVars, ghostVars>>
    BY <1>1 DEF SelectOk
  <2> HIDE DEF p
  <2>4. ServedInv'
    BY <2>1, <2>2, <2>3, SelectKeepsServed
  <2> QED
    BY <2>3, <2>4
<1>2. CASE SelectReports(t)
  <2> DEFINE p == PutOffRefresh(Asked(t))
  <2>1. p \in Provider /\ p.version = loaded[Asked(t)].version
    BY <1>2, SelectReportsKeeps
  <2>2. /\ Selecting(t) /\ loaded' = [loaded EXCEPT ![Asked(t)] = p]
        /\ Read(t, loaded[Asked(t)].version)
        /\ loaded[Asked(t)] # None
        /\ Goes(t) /\ UNCHANGED <<history, tenant, config, cacheVars, ghostVars>>
    BY <1>2 DEF SelectReports
  <2> HIDE DEF p
  <2>3. ServedInv'
    BY <2>1, <2>2, SelectKeepsServed
  <2> QED
    BY <2>2, <2>3
<1> QED
  BY <1>1, <1>2

LEMMA ServedInductive ==
  CacheInv /\ ServedInv /\ [Next]_vars =>
    ServedInv' /\ \A n \in Tenant : NoOlder(served'[n], served[n])
<1> SUFFICES ASSUME CacheInv, ServedInv, [Next]_vars
             PROVE  ServedInv' /\ \A n \in Tenant : NoOlder(served'[n], served[n])
  OBVIOUS
<1>1. served' = served => \A n \in Tenant : NoOlder(served'[n], served[n])
  BY Bounds DEF CacheInv, TypeOK, View, NoOlder
<1>2. CASE Tick \/ UNCHANGED vars
  <2>1. served' = served
    BY <1>2 DEF Tick, vars
  <2> QED
    BY <1>1, <1>2, <2>1, QuietSteps, QuietKeepsServed
<1>3. CASE \E q \in Changing : Write(q)
  BY <1>1, <1>3, WriteKeepsServed, ChangingAreQueries DEF Query
<1>4. ASSUME NEW t \in Thread, GetStep(t)
      PROVE  ServedInv' /\ \A n \in Tenant : NoOlder(served'[n], served[n])
  <2>1. ASSUME NEW n \in Tenant,
               GetMiss(t, n) \/ GetExpired(t, n) \/ GetHit(t, n) \/ GetHitDue(t, n)
        PROVE  ServedInv' /\ served' = served
    <3>1. served' = served
      BY <2>1, HitServesTheSame DEF GetMiss, GetExpired, GetHitDue
    <3> QED
      BY <2>1, <3>1, QuietSteps, QuietKeepsServed
  <2>2. CASE LoadRaises(t) \/ RefreshRaises(t) \/ Respond(t)
    <3>1. served' = served
      BY <2>2, RefreshRaisesServesTheSame DEF LoadRaises, Respond
    <3>2. Quiet
      BY <2>2, QuietSteps
    <3> QED
      BY <1>1, <3>1, <3>2, QuietKeepsServed
  <2>3. CASE SelectOk(t) \/ SelectReports(t)
    BY <1>1, <2>3, SelectsKeepServed
  <2>4. CASE RefreshDone(t) \/ LoadDone(t)
    BY <2>4, RefreshDoneKeepsServed, LoadDoneKeepsServed
  <2> QED
    BY <1>1, <1>4, <2>1, <2>2, <2>3, <2>4 DEF GetStep
<1> QED
  BY <1>2, <1>3, <1>4 DEF Next

THEOREM ServedInvariant == Spec => []ServedInv
<1> QED
  BY Invariant, ServedInitially, ServedInductive, PTL DEF Spec

\* No call of get returns an older version than an earlier call for the same
\* tenant: not after an expiry or an eviction, and not when refreshes fail.
THEOREM NeverBack == Spec => NeverGoesBack
<1> DEFINE Forward == \A n \in Tenant : /\ served'[n].shared >= served[n].shared
                                        /\ served'[n].own >= served[n].own
<1>1. CacheInv /\ ServedInv /\ [Next]_vars => Forward
  BY ServedInductive DEF NoOlder
<1> HIDE DEF Forward
<1>2. CacheInv /\ ServedInv /\ [Next]_vars => [Forward]_vars
  BY <1>1
<1>3. Spec => [][Forward]_vars
  BY <1>2, Invariant, ServedInvariant, PTL DEF Spec
<1> QED
  BY <1>3 DEF NeverGoesBack, Forward

-----------------------------------------------------------------------------
(* The time-to-live bounds the age of own settings.                        *)

\* What was current at some time was so at, or after, any earlier one.
LEMMA HeldSince ==
  ASSUME TypeOK, NEW q \in Query, NEW v, NEW a \in Int, NEW b \in Int, b <= a, Held(q, v, a)
  PROVE  Held(q, v, b)
<1>1. /\ history[q] \in Seq(0 .. MaxTime) /\ v \in 1 .. MaxVersion
      /\ Len(history[q]) \in Nat
  BY DEF TypeOK, Held
<1>2. CASE v > Len(history[q])
  BY <1>1, <1>2 DEF Held, CurrentAfter
<1>3. CASE ~(v > Len(history[q]))
  <2>1. v \in 1 .. Len(history[q])
    BY <1>1, <1>3, Bounds
  <2>2. history[q][v] \in Nat /\ history[q][v] >= a
    BY <1>1, <1>3, <2>1, Bounds DEF Held, CurrentAfter
  <2> QED
    BY <1>1, <2>2 DEF Held, CurrentAfter
<1> QED
  BY <1>2, <1>3

\* A change now replaces nothing before now.
LEMMA WriteKeepsHeld ==
  ASSUME TypeOK, NEW p \in Query, Write(p), NEW q \in Query, NEW v, NEW a \in Int, a <= now,
         Held(q, v, a)
  PROVE  Held(q, v, a)'
<1>1. /\ history[q] \in Seq(0 .. MaxTime) /\ v \in 1 .. MaxVersion
      /\ Len(history[q]) \in Nat /\ now \in 0 .. MaxTime
  BY DEF TypeOK, Held
<1>2. history'[q] = IF q = p THEN Append(history[q], now) ELSE history[q]
  BY DEF TypeOK, Write
<1>3. CASE q # p
  BY <1>2, <1>3 DEF Held, CurrentAfter
<1>4. CASE q = p
  <2>1. /\ Len(history'[q]) = Len(history[q]) + 1
        /\ history'[q][Len(history[q]) + 1] = now
        /\ \A i \in 1 .. Len(history[q]) : history'[q][i] = history[q][i]
    BY <1>1, <1>2, <1>4
  <2>2. CASE v > Len(history[q])
    <3>1. v = Len(history[q]) + 1 \/ v > Len(history'[q])
      BY <1>1, <2>1, <2>2
    <3> QED
      BY <1>1, <2>1, <3>1 DEF Held, CurrentAfter
  <2>3. CASE ~(v > Len(history[q]))
    <3>1. v \in 1 .. Len(history[q])
      BY <1>1, <2>3, Bounds
    <3> QED
      BY <1>1, <2>1, <2>3, <3>1 DEF Held, CurrentAfter
  <2> QED
    BY <2>2, <2>3
<1> QED
  BY <1>3, <1>4

LEMMA LatestIsHeld ==
  ASSUME CacheInv, NEW q \in Query, NEW a
  PROVE  Held(q, Latest(q), a)
<1>1. Len(history[q]) \in Nat /\ Latest(q) <= MaxVersion
  BY DEF CacheInv, TypeOK, CountsFit
<1> QED
  BY <1>1, Bounds DEF Held, CurrentAfter, Latest

LEMMA AgeInitially == Init => AgeInv
BY DEF Init, AgeInv

\* All times are natural numbers.
LEMMA Times ==
  ASSUME TypeOK
  PROVE  /\ now \in Nat /\ \A t \in Thread : at[t] \in Nat /\ (at[t] + 1) - Ttl \in Int
         /\ \A n \in Tenant : entries[n] # None =>
              entries[n].loadedAt \in Nat /\ entries[n].config \in Config
BY Bounds DEF TypeOK, Entry

LEMMA WriteKeepsAge ==
  ASSUME CacheInv, AgeInv, Ttl > 0, NEW q \in Query, Write(q)
  PROVE  AgeInv'
<1>1. TypeOK
  BY DEF CacheInv
<1>2. UNCHANGED <<now, loaded, entries, configs, pc, config, tenant, at>>
  BY DEF Write
<1>3. \A n \in Tenant : entries[n] # None =>
        /\ Held(n, loaded[n].version, entries[n].loadedAt)'
        /\ Held(n, HeldBy(configs, entries[n].config), entries[n].loadedAt)'
  <2> SUFFICES ASSUME NEW n \in Tenant, entries[n] # None
               PROVE  /\ Held(n, loaded[n].version, entries[n].loadedAt)'
                      /\ Held(n, HeldBy(configs, entries[n].config), entries[n].loadedAt)'
    OBVIOUS
  <2>1. n \in Query /\ entries[n].loadedAt \in Int /\ entries[n].loadedAt <= now
    BY <1>1, Times DEF Query, CacheInv, CountsFit
  <2>2. /\ Held(n, loaded[n].version, entries[n].loadedAt)
        /\ Held(n, HeldBy(configs, entries[n].config), entries[n].loadedAt)
    BY DEF AgeInv
  <2> QED
    BY <1>1, <1>2, <2>1, <2>2, WriteKeepsHeld DEF Held, CurrentAfter, HeldBy
<1>4. ASSUME NEW t \in Thread, pc[t] = "conclude", config[t] = None
      PROVE  Held(tenant[t], loaded[tenant[t]].version, at[t])'
  <2>1. tenant[t] \in Query /\ at[t] \in Int /\ at[t] <= now
    BY <1>1, <1>4, BusyTenant, Times DEF Busy, Query, CacheInv, CountsFit
  <2>2. Held(tenant[t], loaded[tenant[t]].version, at[t])
    BY <1>4 DEF AgeInv
  <2> QED
    BY <1>1, <1>2, <2>1, <2>2, WriteKeepsHeld DEF Held, CurrentAfter
<1>5. ASSUME NEW t \in Thread, pc[t] = "respond"
      PROVE  Held(tenant[t], HeldBy(configs, config[t]), (at[t] + 1) - Ttl)'
  <2>1. tenant[t] \in Query
    BY <1>1, <1>5 DEF Query, CacheInv, LocalsFit, TypeOK
  <2>2. (at[t] + 1) - Ttl \in Int /\ (at[t] + 1) - Ttl <= now
    BY <1>1, Times, Bounds DEF CacheInv, CountsFit
  <2>3. Held(tenant[t], HeldBy(configs, config[t]), (at[t] + 1) - Ttl)
    BY <1>5 DEF AgeInv
  <2> QED
    BY <1>1, <1>2, <2>1, <2>2, <2>3, WriteKeepsHeld DEF Held, CurrentAfter, HeldBy
<1> QED
  BY <1>2, <1>3, <1>4, <1>5 DEF AgeInv

\* Steps that select nothing and store no view keep what is held; what remains is
\* that they hand out no entry beyond its time-to-live.
LEMMA QuietKeepsAge ==
  ASSUME CacheInv, AgeInv, CacheInv', Quiet,
         \A t \in Thread, n \in Tenant :
           config'[t] # None /\ entries'[n] # None /\ entries'[n].config = config'[t] =>
             \/ config'[t] = config[t] /\ at'[t] = at[t]
             \/ entries'[n].loadedAt >= (at'[t] + 1) - Ttl,
         \A t \in Thread : pc'[t] = "respond" =>
           \/ /\ pc[t] = "respond" /\ tenant'[t] = tenant[t] /\ config'[t] = config[t]
              /\ at'[t] = at[t]
           \/ entries'[tenant'[t]] # None /\ entries'[tenant'[t]].config = config'[t]
  PROVE  AgeInv'
<1>1. TypeOK /\ TypeOK'
  BY DEF CacheInv
<1>2. \A q, v, a : Held(q, v, a)' <=> Held(q, v, a)
  BY DEF Quiet, Held, CurrentAfter
<1>3. \A c \in Config : HeldBy(configs', c) = HeldBy(configs, c)
  BY DEF Quiet, HeldBy
<1>4. ASSUME NEW n \in Tenant, entries'[n] # None
      PROVE  /\ Held(n, loaded'[n].version, entries'[n].loadedAt)
             /\ Held(n, HeldBy(configs', entries'[n].config), entries'[n].loadedAt)
  <2>1. /\ entries[n] # None /\ entries'[n].config = entries[n].config
        /\ entries'[n].loadedAt = entries[n].loadedAt /\ loaded'[n] = loaded[n]
        /\ entries[n].config \in Config
    BY <1>1, <1>4, Times DEF Quiet
  <2> QED
    BY <1>3, <2>1 DEF AgeInv
<1>5. ASSUME NEW t \in Thread, pc'[t] = "conclude", config'[t] = None
      PROVE  Held(tenant'[t], loaded'[tenant'[t]].version, at'[t])
  <2>1. /\ pc[t] = "conclude" /\ config[t] = None /\ tenant'[t] = tenant[t] /\ at'[t] = at[t]
        /\ loaded'[tenant[t]] = loaded[tenant[t]]
    BY <1>5 DEF Quiet
  <2> QED
    BY <2>1 DEF AgeInv
<1>6. ASSUME NEW t \in Thread, NEW n \in Tenant,
             config'[t] # None, entries'[n] # None, entries'[n].config = config'[t]
      PROVE  entries'[n].loadedAt >= (at'[t] + 1) - Ttl
  <2>1. entries[n] # None /\ entries[n].config = entries'[n].config
          /\ entries'[n].loadedAt = entries[n].loadedAt
    BY <1>6 DEF Quiet
  <2> QED
    BY <1>6, <2>1 DEF AgeInv
<1>7. ASSUME NEW t \in Thread, pc'[t] = "respond"
      PROVE  Held(tenant'[t], HeldBy(configs', config'[t]), (at'[t] + 1) - Ttl)
  <2>1. config'[t] \in Config /\ tenant'[t] \in Tenant /\ tenant'[t] \in Query
    BY <1>1, <1>7 DEF CacheInv, LocalsFit, TypeOK, Query
  <2>2. CASE /\ pc[t] = "respond" /\ tenant'[t] = tenant[t] /\ config'[t] = config[t]
             /\ at'[t] = at[t]
    BY <1>3, <2>1, <2>2 DEF AgeInv
  <2>3. CASE entries'[tenant'[t]] # None /\ entries'[tenant'[t]].config = config'[t]
    <3>1. entries'[tenant'[t]].loadedAt >= (at'[t] + 1) - Ttl
      BY <1>6, <2>1, <2>3, NamesAreDistinct
    <3>2. Held(tenant'[t], HeldBy(configs', config'[t]), entries'[tenant'[t]].loadedAt)
      BY <1>4, <2>1, <2>3
    <3>3. entries'[tenant'[t]].loadedAt \in Int /\ (at'[t] + 1) - Ttl \in Int
      <4>1. at'[t] \in Nat
        BY <1>1, Bounds DEF TypeOK
      <4>2. entries'[tenant'[t]] \in Entry
        BY <1>1, <2>1, <2>3 DEF TypeOK
      <4> QED
        BY <4>1, <4>2, Bounds DEF Entry
    <3> QED
      BY <1>1, <2>1, <3>1, <3>2, <3>3, HeldSince
  <2> QED
    BY <1>7, <2>2, <2>3
<1> QED
  BY <1>2, <1>4, <1>5, <1>6, <1>7 DEF AgeInv

LEMMA SelectKeepsAge ==
  ASSUME CacheInv, AgeInv, NEW t \in Thread, Selecting(t), NEW p \in Provider,
         loaded' = [loaded EXCEPT ![Asked(t)] = p], Goes(t),
         \/ p.version = Latest(Asked(t))
         \/ loaded[Asked(t)] # None /\ p.version = loaded[Asked(t)].version,
         UNCHANGED <<now, history, tenant, at, config, cacheVars, ghostVars>>
  PROVE  AgeInv'
<1> DEFINE q == Asked(t)
<1>1. TypeOK
  BY DEF CacheInv
<1>2. /\ tenant[t] \in Tenant /\ \A s \in Thread \ {t} : ~Busy(s)
      /\ CallFits(t) /\ Shared \notin Tenant
  <2>1. Busy(t)
    BY DEF Selecting, Busy
  <2> QED
    BY <2>1, BusyTenant, NamesAreDistinct
<1>3. /\ q \in Query /\ loaded'[q] = p
      /\ \A r \in Query \ {q} : loaded'[r] = loaded[r]
  BY <1>1, <1>2 DEF TypeOK, Asked, Query
<1>4. /\ pc'[t] = (IF pc[t] = "shared" THEN "own" ELSE "conclude")
      /\ \A s \in Thread \ {t} : pc'[s] = pc[s]
  BY <1>1 DEF Goes, TypeOK
<1>5. \A r, v, a : Held(r, v, a)' <=> Held(r, v, a)
  BY DEF Held, CurrentAfter
<1>6. ASSUME NEW n \in Tenant, entries[n] # None
      PROVE  Held(n, loaded'[n].version, entries[n].loadedAt)
  <2>1. n \in Query
    BY DEF Query
  <2>2. CASE n = q
    <3>1. CASE p.version = Latest(n)
      BY <1>3, <2>1, <2>2, <3>1, LatestIsHeld
    <3>2. CASE p.version = loaded[n].version
      BY <1>3, <1>6, <2>2, <3>2 DEF AgeInv
    <3> QED
      BY <2>2, <3>1, <3>2
  <2>3. CASE n # q
    BY <1>3, <1>6, <2>1, <2>3 DEF AgeInv
  <2> QED
    BY <2>2, <2>3
<1>7. ASSUME NEW s \in Thread, pc'[s] = "conclude", config[s] = None
      PROVE  Held(tenant[s], loaded'[tenant[s]].version, at[s])
  <2>1. s = t /\ pc[t] = "own"
    BY <1>2, <1>4, <1>7 DEF Busy, Selecting
  <2>2. q = tenant[t] /\ loaded[q] = None
    BY <1>2, <1>7, <2>1 DEF CallFits, Asked
  <2>3. p.version = Latest(q)
    BY <2>2
  <2> QED
    BY <1>3, <2>1, <2>2, <2>3, LatestIsHeld
<1>8. \A s \in Thread : pc'[s] = "respond" => pc[s] = "respond"
  BY <1>4
<1> QED
  BY <1>5, <1>6, <1>7, <1>8 DEF AgeInv, HeldBy

LEMMA SelectsKeepAge ==
  ASSUME CacheInv, AgeInv, NEW t \in Thread, SelectOk(t) \/ SelectReports(t)
  PROVE  AgeInv'
<1>1. CASE SelectOk(t)
  <2> DEFINE p == Reread(Asked(t))
  <2>1. p \in Provider
    BY <1>1, SelectOkKeeps
  <2>2. \/ p.version = Latest(Asked(t))
        \/ loaded[Asked(t)] # None /\ p.version = loaded[Asked(t)].version
    BY DEF Reread, Fetched
  <2>3. /\ Selecting(t) /\ loaded' = [loaded EXCEPT ![Asked(t)] = p] /\ Goes(t)
        /\ UNCHANGED <<now, history, tenant, at, config, cacheVars, ghostVars>>
    BY <1>1 DEF SelectOk
  <2> HIDE DEF p
  <2> QED
    BY <2>1, <2>2, <2>3, SelectKeepsAge
<1>2. CASE SelectReports(t)
  <2> DEFINE p == PutOffRefresh(Asked(t))
  <2>1. p \in Provider /\ p.version = loaded[Asked(t)].version
    BY <1>2, SelectReportsKeeps
  <2>2. /\ Selecting(t) /\ loaded' = [loaded EXCEPT ![Asked(t)] = p] /\ Goes(t)
        /\ loaded[Asked(t)] # None
        /\ UNCHANGED <<now, history, tenant, at, config, cacheVars, ghostVars>>
    BY <1>2 DEF SelectReports
  <2> HIDE DEF p
  <2> QED
    BY <2>1, <2>2, SelectKeepsAge
<1> QED
  BY <1>1, <1>2

LEMMA RefreshDoneKeepsAge ==
  ASSUME CacheInv, ServedInv, AgeInv, NEW t \in Thread, RefreshDone(t)
  PROVE  AgeInv'
<1> DEFINE n == tenant[t]
           c == config[t]
<1>1. TypeOK /\ pc[t] = "conclude" /\ config[t] # None /\ Busy(t)
  BY DEF CacheInv, RefreshDone, Busy
<1>2. /\ n \in Tenant /\ n \in Query /\ entries[n] # None /\ entries[n].config = c
      /\ \A s \in Thread \ {t} : ~Busy(s)
  BY <1>1, BusyTenant DEF CallFits, Query
<1>3. /\ configs' = [configs EXCEPT ![c] = [view |-> UpdatedView(t), errors |-> problem[t]]]
      /\ pc' = [pc EXCEPT ![t] = "respond"]
      /\ UNCHANGED <<loaded, history, entries, tenant, at, config>>
  BY DEF RefreshDone, Leave
<1>4. c \in Config /\ HeldBy(configs', c) = UpdatedView(t).own
      /\ \A d \in Config \ {c} : HeldBy(configs', d) = HeldBy(configs, d)
  BY <1>1, <1>3 DEF TypeOK, HeldBy
<1>5. pc'[t] = "respond" /\ \A s \in Thread \ {t} : pc'[s] = pc[s]
  BY <1>1, <1>3 DEF TypeOK
<1>6. \A r, v, a : Held(r, v, a)' <=> Held(r, v, a)
  BY <1>3 DEF Held, CurrentAfter
<1>7. Held(n, HeldBy(configs', c), entries[n].loadedAt)
  <2>1. UpdatedView(t).own = HeldBy(configs, c) \/ UpdatedView(t).own = loaded[n].version
    BY <1>1, ReadIsNoOlder DEF UpdatedView, HeldBy
  <2> QED
    BY <1>2, <1>4, <2>1 DEF AgeInv
<1>8. ASSUME NEW m \in Tenant, entries[m] # None
      PROVE  Held(m, HeldBy(configs', entries[m].config), entries[m].loadedAt)
  <2>1. CASE entries[m].config = c
    <3>1. m = n
      BY <1>2, <1>8, <2>1 DEF CacheInv, ConfigsFit
    <3> QED
      BY <1>2, <1>7, <3>1
  <2>2. CASE entries[m].config # c
    BY <1>1, <1>4, <1>8, <2>2, Times DEF AgeInv
  <2> QED
    BY <2>1, <2>2
<1>9. ASSUME NEW s \in Thread, pc'[s] = "respond"
      PROVE  Held(tenant[s], HeldBy(configs', config[s]), (at[s] + 1) - Ttl)
  <2>1. CASE config[s] = c
    <3>1. tenant[s] = n /\ entries[n].loadedAt >= (at[s] + 1) - Ttl
      BY <1>1, <1>2, <2>1 DEF CacheInv, ConfigsFit, AgeInv
    <3>2. entries[n].loadedAt \in Int /\ (at[s] + 1) - Ttl \in Int
      BY <1>1, <1>2, Times
    <3> QED
      BY <1>1, <1>2, <1>7, <2>1, <3>1, <3>2, HeldSince
  <2>2. CASE config[s] # c
    <3>1. s # t /\ pc[s] = "respond"
      BY <1>5, <1>9, <2>2
    <3>2. config[s] \in Config
      BY <1>1, <3>1 DEF CacheInv, LocalsFit, TypeOK
    <3> QED
      BY <1>4, <2>2, <3>1, <3>2 DEF AgeInv
  <2> QED
    BY <2>1, <2>2
<1>10. \A s \in Thread : pc'[s] # "conclude"
  BY <1>2, <1>5 DEF Busy
<1> QED
  BY <1>3, <1>6, <1>8, <1>9, <1>10 DEF AgeInv

LEMMA LoadDoneKeepsAge ==
  ASSUME CacheInv, ServedInv, AgeInv, Ttl > 0, NEW t \in Thread, LoadDone(t)
  PROVE  AgeInv'
<1> DEFINE n == tenant[t]
           c == config'[t]
<1>1. TypeOK /\ pc[t] = "conclude" /\ config[t] = None /\ n \in Tenant /\ n \in Query
  BY Loaded DEF CacheInv, Query
<1>2. /\ c \in Config /\ configs'[c].view = view[t]
      /\ \A s \in Thread : pc'[s] \notin {"own", "conclude"}
      /\ \A s \in Thread \ {t} : pc'[s] = pc[s] /\ config'[s] = config[s]
      /\ \A d \in Config \ {c} : configs'[d] = configs[d]
      /\ \A s \in Thread : config[s] # c
      /\ \A m \in Tenant : entries[m] # None => entries[m].config # c
      /\ UNCHANGED <<now, history, tenant, at>>
  BY Loaded
<1>3. \A m \in Tenant : entries'[m] # None =>
        /\ loaded'[m] = loaded[m]
        /\ entries'[m] = IF m = n
                           THEN [config |-> c, loadedAt |-> at[t], refreshedAt |-> at[t]]
                           ELSE entries[m]
  BY Loaded
<1> HIDE DEF c
<1>4. \A r, v, a : Held(r, v, a)' <=> Held(r, v, a)
  BY <1>2 DEF Held, CurrentAfter
<1>5. /\ HeldBy(configs', c) = view[t].own
      /\ \A d \in Config \ {c} : HeldBy(configs', d) = HeldBy(configs, d)
  BY <1>2 DEF HeldBy
<1>6. view[t].own = loaded[n].version /\ Held(n, view[t].own, at[t])
  BY <1>1, ReadIsNoOlder DEF AgeInv
<1>7. ASSUME NEW m \in Tenant, entries'[m] # None
      PROVE  /\ Held(m, loaded'[m].version, entries'[m].loadedAt)
             /\ Held(m, HeldBy(configs', entries'[m].config), entries'[m].loadedAt)
  <2>1. CASE m = n
    <3>1. entries'[m].config = c /\ entries'[m].loadedAt = at[t]
      BY <1>3, <1>7, <2>1
    <3> QED
      BY <1>3, <1>5, <1>6, <1>7, <2>1, <3>1
  <2>2. CASE m # n
    <3>1. entries[m] # None /\ entries'[m] = entries[m] /\ loaded'[m] = loaded[m]
      BY <1>3, <1>7, <2>2
    <3>2. entries[m].config \in Config \ {c}
      BY <1>1, <1>2, <3>1, Times
    <3> QED
      BY <1>5, <3>1, <3>2 DEF AgeInv
  <2> QED
    BY <2>1, <2>2
<1>8. at[t] \in Int /\ (at[t] + 1) - Ttl \in Int /\ (at[t] + 1) - Ttl <= at[t]
  BY <1>1, Times, Bounds
<1>9. ASSUME NEW s \in Thread, NEW m \in Tenant,
             config'[s] # None, entries'[m] # None, entries'[m].config = config'[s]
      PROVE  entries'[m].loadedAt >= (at[s] + 1) - Ttl
  <2>1. CASE m = n
    <3>1. entries'[m].config = c /\ entries'[m].loadedAt = at[t]
      BY <1>3, <1>9, <2>1
    <3>2. s = t
      BY <1>2, <1>9, <3>1 DEF c
    <3> QED
      BY <1>8, <3>1, <3>2
  <2>2. CASE m # n
    <3>1. entries[m] # None /\ entries'[m] = entries[m] /\ entries[m].config # c
      BY <1>2, <1>3, <1>9, <2>2
    <3>2. s # t /\ config'[s] = config[s]
      BY <1>2, <1>9, <3>1 DEF c
    <3> QED
      BY <1>9, <3>1, <3>2 DEF AgeInv
  <2> QED
    BY <2>1, <2>2
<1>10. ASSUME NEW s \in Thread, pc'[s] = "respond"
       PROVE  Held(tenant[s], HeldBy(configs', config'[s]), (at[s] + 1) - Ttl)
  <2>1. CASE s = t
    <3>1. Held(n, view[t].own, (at[t] + 1) - Ttl)
      BY <1>1, <1>6, <1>8, HeldSince
    <3> QED
      BY <1>5, <2>1, <3>1 DEF c
  <2>2. CASE s # t
    <3>1. pc[s] = "respond" /\ config'[s] = config[s] /\ config[s] # c
      BY <1>2, <1>10, <2>2
    <3>2. config[s] \in Config \ {c}
      BY <1>1, <3>1 DEF CacheInv, LocalsFit, TypeOK
    <3> QED
      BY <1>5, <3>1, <3>2 DEF AgeInv
  <2> QED
    BY <2>1, <2>2
<1> QED
  BY <1>2, <1>4, <1>7, <1>9, <1>10 DEF AgeInv

\* Only an entry that has not expired is handed out.
LEMMA QuietStepsKeepAge ==
  ASSUME CacheInv, CacheInv', AgeInv,
         \/ Tick \/ UNCHANGED vars
         \/ \E t \in Thread :
              \/ \E n \in Tenant : GetMiss(t, n) \/ GetExpired(t, n) \/ GetHit(t, n) \/ GetHitDue(t, n)
              \/ LoadRaises(t) \/ RefreshRaises(t) \/ Respond(t)
  PROVE  AgeInv'
<1>1. Quiet /\ TypeOK /\ TypeOK'
  BY QuietSteps DEF CacheInv
<1>2. CASE Tick \/ UNCHANGED vars
  <2>1. UNCHANGED <<pc, tenant, at, config, entries>>
    BY <1>2 DEF Tick, vars
  <2> QED
    BY <1>1, <2>1, QuietKeepsAge
<1>3. ASSUME NEW t \in Thread, NEW n \in Tenant,
             GetMiss(t, n) \/ GetExpired(t, n)
      PROVE  AgeInv'
  <2>1. /\ config' = config /\ Enter(t, n) /\ config[t] = None
        /\ tenant' = [tenant EXCEPT ![t] = n] /\ at' = [at EXCEPT ![t] = now]
        /\ pc' = [pc EXCEPT ![t] = "shared"]
    BY <1>3, Entered DEF GetMiss, GetExpired, Enter, Query1
  <2>2. \A s \in Thread \ {t} : tenant'[s] = tenant[s] /\ at'[s] = at[s] /\ pc'[s] = pc[s]
    BY <1>1, <2>1 DEF TypeOK
  <2>3. pc'[t] = "shared"
    BY <1>1, <2>1 DEF TypeOK
  <2> QED
    BY <1>1, <2>1, <2>2, <2>3, QuietKeepsAge
<1>4. ASSUME NEW t \in Thread, NEW n \in Tenant,
             GetHit(t, n) \/ GetHitDue(t, n)
      PROVE  AgeInv'
  <2>1. /\ entries[n] # None /\ ~Expired(n) /\ config' = [config EXCEPT ![t] = entries[n].config]
        /\ tenant' = [tenant EXCEPT ![t] = n] /\ at' = [at EXCEPT ![t] = now]
        /\ pc' = [pc EXCEPT ![t] = "shared"] \/ pc' = [pc EXCEPT ![t] = "respond"]
        /\ entries' = entries \/ entries' = [entries EXCEPT ![n] = [@ EXCEPT !.refreshedAt = now]]
    BY <1>4 DEF GetHit, GetHitDue, Enter, Query1, Undisturbed
  <2>2. /\ \A s \in Thread \ {t} : /\ tenant'[s] = tenant[s] /\ at'[s] = at[s]
                                   /\ pc'[s] = pc[s] /\ config'[s] = config[s]
        /\ tenant'[t] = n /\ at'[t] = now /\ config'[t] = entries[n].config
    BY <1>1, <2>1 DEF TypeOK
  <2>3. entries'[n] # None /\ entries'[n].config = entries[n].config
    <3>1. CASE entries' = entries
      BY <2>1, <3>1
    <3>2. CASE entries' = [entries EXCEPT ![n] = [@ EXCEPT !.refreshedAt = now]]
      <4>1. entries[n] \in Entry /\ now \in Nat
        BY <1>1, <2>1, Bounds DEF TypeOK
      <4>2. entries'[n] = [entries[n] EXCEPT !.refreshedAt = now]
        BY <1>1, <3>2 DEF TypeOK
      <4>3. entries'[n] \in Entry /\ entries'[n].config = entries[n].config
        BY <4>1, <4>2 DEF Entry
      <4> QED
        BY <4>3, NoneIsNew
    <3> QED
      BY <2>1, <3>1, <3>2
  <2>4. entries[n].loadedAt >= (now + 1) - Ttl
    BY <1>1, <2>1, Times, Bounds DEF Expired
  <2>5. ASSUME NEW m \in Tenant, entries'[m] # None, entries'[m].config = config'[t]
        PROVE  entries'[m].loadedAt >= (at'[t] + 1) - Ttl
    <3>1. m = n
      BY <2>2, <2>3, <2>5 DEF CacheInv, ConfigsFit
    <3>2. entries'[n].loadedAt = entries[n].loadedAt
      BY <1>1, <2>3 DEF Quiet
    <3> QED
      BY <2>2, <2>4, <3>1, <3>2
  <2> QED
    BY <1>1, <2>2, <2>3, <2>5, QuietKeepsAge
<1>5. ASSUME NEW t \in Thread, LoadRaises(t) \/ Respond(t)
      PROVE  AgeInv'
  <2>1. /\ config' = [config EXCEPT ![t] = None] \/ config' = config
        /\ entries' = entries /\ pc' = [pc EXCEPT ![t] = "idle"]
        /\ tenant' = [tenant EXCEPT ![t] = None] /\ at' = [at EXCEPT ![t] = 0]
        /\ LoadRaises(t) => config[t] = None
    BY <1>5 DEF LoadRaises, Respond, Leave
  <2>2. /\ \A s \in Thread \ {t} : /\ tenant'[s] = tenant[s] /\ at'[s] = at[s]
                                   /\ pc'[s] = pc[s] /\ config'[s] = config[s]
        /\ pc'[t] = "idle" /\ config'[t] = None
    <3>1. config'[t] = None
      BY <1>1, <1>5, <2>1 DEF TypeOK, LoadRaises, Respond
    <3> QED
      BY <1>1, <2>1, <3>1 DEF TypeOK
  <2> QED
    BY <1>1, <2>2, QuietKeepsAge
<1>6. ASSUME NEW t \in Thread, RefreshRaises(t)
      PROVE  AgeInv'
  <2>1. /\ pc' = [pc EXCEPT ![t] = "respond"] /\ config[t] # None
        /\ UNCHANGED <<tenant, at, config, entries>> /\ Busy(t)
    BY <1>6 DEF RefreshRaises, Leave, SelectRaises, Selecting, Busy
  <2>2. /\ \A s \in Thread \ {t} : pc'[s] = pc[s]
        /\ entries[tenant[t]] # None /\ entries[tenant[t]].config = config[t]
    BY <1>1, <2>1, BusyTenant DEF TypeOK, CallFits
  <2> QED
    BY <1>1, <2>1, <2>2, QuietKeepsAge
<1> QED
  BY <1>2, <1>3, <1>4, <1>5, <1>6

LEMMA AgeInductive ==
  ASSUME Ttl > 0
  PROVE  CacheInv /\ CacheInv' /\ ServedInv /\ AgeInv /\ [Next]_vars => AgeInv'
<1> SUFFICES ASSUME CacheInv, CacheInv', ServedInv, AgeInv, [Next]_vars
             PROVE  AgeInv'
  OBVIOUS
<1>1. CASE Tick \/ UNCHANGED vars
  BY <1>1, QuietStepsKeepAge
<1>2. CASE \E q \in Changing : Write(q)
  BY <1>2, WriteKeepsAge, ChangingAreQueries DEF Query
<1>3. ASSUME NEW t \in Thread, GetStep(t)
      PROVE  AgeInv'
  <2>1. CASE SelectOk(t) \/ SelectReports(t)
    BY <2>1, SelectsKeepAge
  <2>2. CASE RefreshDone(t) \/ LoadDone(t)
    BY <2>2, RefreshDoneKeepsAge, LoadDoneKeepsAge
  <2> QED
    BY <1>3, <2>1, <2>2, QuietStepsKeepAge DEF GetStep
<1> QED
  BY <1>1, <1>2, <1>3 DEF Next

\* However many refreshes fail, a tenant's own settings are never rendered the
\* time-to-live or more after they were replaced.
THEOREM WithinTtl ==
  ASSUME Ttl > 0
  PROVE  Spec => []OwnSettingsWithinTtl
<1>1. AgeInv => OwnSettingsWithinTtl
  BY DEF AgeInv, OwnSettingsWithinTtl, Held, HeldBy, Rendered
<1>2. Spec => []AgeInv
  BY Invariant, ServedInvariant, AgeInitially, AgeInductive, PTL DEF Spec
<1> QED
  BY <1>1, <1>2, PTL
=============================================================================
