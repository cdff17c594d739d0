---------------------------- MODULE SchemaProofs ----------------------------
(***************************************************************************)
(* Proofs about where schemas come from, for every value of the constants: *)
(* TTLCache, which keeps the discovered ones, and Discovery, which reads   *)
(* them from a backend's catalog while the database may change.            *)
(***************************************************************************)
EXTENDS TTLCache, Discovery, FiniteSetTheorems, SequenceTheorems, WellFoundedInduction, TLAPS

-----------------------------------------------------------------------------
(* The schema cache                                                        *)

\* The inductive invariant: types, distinct keys within capacity, and expiries
\* at most TTL ahead (needed so that a slot's store time is a time).
IInv == TypeOK /\ BoundedDict /\ ExpiryBounded

\* A sequence of entries as the dict can hold it at time t.
WellFormed(es, t) ==
    /\ es \in Seq(Entries)
    /\ \A i, j \in 1..Len(es) : es[i].key = es[j].key => i = j
    /\ \A i \in 1..Len(es) : es[i].expires <= t + TTL /\ TTL <= es[i].expires

-----------------------------------------------------------------------------

\* Place picks the position of a key that is there.
LEMMA PlaceIsPlace ==
    ASSUME NEW es, NEW k, Places(es, k) # {}
    PROVE  Place(es, k) \in 1..Len(es) /\ es[Place(es, k)].key = k
BY DEF Place, Places

\* Removing position p keeps the others in order.
LEMMA RemoveAtFacts ==
    ASSUME NEW S, NEW es \in Seq(S), NEW p \in 1..Len(es)
    PROVE  /\ RemoveAt(es, p) \in Seq(S)
           /\ Len(RemoveAt(es, p)) = Len(es) - 1
           /\ \A i \in 1..Len(es) - 1 :
                 RemoveAt(es, p)[i] = IF i < p THEN es[i] ELSE es[i + 1]
<1> DEFINE l == SubSeq(es, 1, p - 1)
           r == SubSeq(es, p + 1, Len(es))
<1>1. l \in Seq(S) /\ Len(l) = p - 1 /\ \A i \in 1..p - 1 : l[i] = es[i]
  OBVIOUS
<1>2. r \in Seq(S) /\ Len(r) = Len(es) - p
      /\ \A i \in 1..Len(es) - p : r[i] = es[p + i]
  OBVIOUS
<1>3. RemoveAt(es, p) = l \o r
  BY DEF RemoveAt
<1> HIDE DEF l, r
<1>4. l \o r \in Seq(S) /\ Len(l \o r) = Len(es) - 1
  BY <1>1, <1>2
<1>5. ASSUME NEW i \in 1..Len(es) - 1
      PROVE  (l \o r)[i] = IF i < p THEN es[i] ELSE es[i + 1]
  <2>1. CASE i < p
    BY <1>1, <1>2, <2>1
  <2>2. CASE ~(i < p)
    <3>0. Len(es) \in Nat /\ i \in Nat /\ p \in Nat
      OBVIOUS
    <3>1. (l \o r)[i] = r[i - (p - 1)]
      BY <1>1, <1>2, <2>2, <3>0
    <3>2. i - (p - 1) \in 1..Len(es) - p
      BY <2>2, <3>0
    <3>3. r[i - (p - 1)] = es[p + (i - (p - 1))]
      BY <1>2, <3>2
    <3>4. p + (i - (p - 1)) = i + 1
      BY <3>0
    <3> QED BY <3>1, <3>3, <3>4, <2>2
  <2> QED BY <2>1, <2>2
<1> QED BY <1>3, <1>4, <1>5

\* A read leaves a well-formed dict, no longer than before.
LEMMA AfterGetWellFormed ==
    ASSUME NEW es, NEW t \in Nat, WellFormed(es, t), NEW k \in Keys
    PROVE  WellFormed(AfterGet(es, k, t), t) /\ Len(AfterGet(es, k, t)) <= Len(es)
<1>1. CASE Places(es, k) # {} /\ ~Live(es[Place(es, k)], t)
  <2>1. Place(es, k) \in 1..Len(es)
    BY <1>1, PlaceIsPlace
  <2>2. AfterGet(es, k, t) = RemoveAt(es, Place(es, k))
    BY <1>1 DEF AfterGet
  <2> DEFINE p == Place(es, k)
             rs == RemoveAt(es, p)
  <2>3. /\ rs \in Seq(Entries)
        /\ Len(rs) = Len(es) - 1
        /\ \A i \in 1..Len(es) - 1 : rs[i] = IF i < p THEN es[i] ELSE es[i + 1]
    BY <2>1, RemoveAtFacts DEF WellFormed
  <2>4. Len(es) \in Nat
    BY DEF WellFormed
  <2> HIDE DEF p, rs
  <2> DEFINE old(i) == IF i < p THEN i ELSE i + 1
  <2>8. \A i \in 1..Len(rs) : old(i) \in 1..Len(es) /\ rs[i] = es[old(i)]
    BY <2>1, <2>3, <2>4 DEF p
  <2>9. \A i, j \in 1..Len(rs) : old(i) = old(j) => i = j
    BY <2>1, <2>3, <2>4 DEF p
  <2> HIDE DEF old
  <2>5. \A i, j \in 1..Len(rs) : rs[i].key = rs[j].key => i = j
    BY <2>8, <2>9 DEF WellFormed
  <2>6. \A i \in 1..Len(rs) : rs[i].expires <= t + TTL /\ TTL <= rs[i].expires
    BY <2>8 DEF WellFormed
  <2>7. Len(rs) <= Len(es)
    BY <2>3, <2>4
  <2> QED BY <2>2, <2>3, <2>5, <2>6, <2>7 DEF WellFormed, rs, p
<1>2. CASE ~(Places(es, k) # {} /\ ~Live(es[Place(es, k)], t))
  BY <1>2 DEF AfterGet, WellFormed
<1> QED BY <1>1, <1>2

\* Eviction makes room for one entry.
LEMMA EvictedWellFormed ==
    ASSUME NEW es, NEW t \in Nat, WellFormed(es, t), Len(es) <= MaxEntries
    PROVE  WellFormed(Evicted(es), t) /\ Len(Evicted(es)) < MaxEntries
<1>1. CASE Len(es) >= MaxEntries
  <2>1. es # <<>> /\ Len(es) \in Nat
    BY <1>1, MaxEntriesAssumption DEF WellFormed
  <2>2. /\ Tail(es) \in Seq(Entries)
        /\ Len(Tail(es)) = Len(es) - 1
        /\ \A i \in 1..Len(es) - 1 : Tail(es)[i] = es[i + 1]
    BY <2>1 DEF WellFormed
  <2>3. Evicted(es) = Tail(es)
    BY <1>1 DEF Evicted
  <2> QED BY <2>1, <2>2, <2>3, MaxEntriesAssumption DEF WellFormed
<1>2. CASE ~(Len(es) >= MaxEntries)
  BY <1>2, MaxEntriesAssumption DEF Evicted, WellFormed
<1> QED BY <1>1, <1>2

\* Assigning an entry for key k keeps keys distinct and adds at most one entry.
LEMMA AssignedWellFormed ==
    ASSUME NEW es, NEW t \in Nat, WellFormed(es, t),
           NEW e \in Entries, e.expires = t + TTL
    PROVE  WellFormed(Assigned(es, e), t) /\ Len(Assigned(es, e)) <= Len(es) + 1
<1>0. TTL \in Nat /\ Len(es) \in Nat
  BY TTLAssumption DEF WellFormed
<1>1. CASE Places(es, e.key) # {}
  <2> DEFINE p == Place(es, e.key)
             rs == [es EXCEPT ![p] = e]
  <2>1. p \in 1..Len(es) /\ es[p].key = e.key
    BY <1>1, PlaceIsPlace
  <2> HIDE DEF p
  <2>2. /\ rs \in Seq(Entries) /\ Len(rs) = Len(es)
        /\ \A i \in 1..Len(es) : rs[i] = IF i = p THEN e ELSE es[i]
    BY <2>1 DEF WellFormed
  <2>3. Assigned(es, e) = rs
    BY <1>1 DEF Assigned, p
  <2> HIDE DEF rs
  <2>4. \A i, j \in 1..Len(rs) : rs[i].key = rs[j].key => i = j
    BY <2>1, <2>2 DEF WellFormed
  <2>5. \A i \in 1..Len(rs) : rs[i].expires <= t + TTL /\ TTL <= rs[i].expires
    BY <1>0, <2>2 DEF WellFormed
  <2> QED BY <1>0, <2>2, <2>3, <2>4, <2>5 DEF WellFormed
<1>2. CASE Places(es, e.key) = {}
  <2> DEFINE rs == Append(es, e)
  <2>1. \A i \in 1..Len(es) : es[i].key # e.key
    BY <1>2 DEF Places
  <2>2. /\ rs \in Seq(Entries) /\ Len(rs) = Len(es) + 1
        /\ \A i \in 1..Len(es) : rs[i] = es[i]
        /\ rs[Len(es) + 1] = e
    BY DEF WellFormed
  <2>3. Assigned(es, e) = rs
    BY <1>2 DEF Assigned
  <2> HIDE DEF rs
  <2>4. \A i, j \in 1..Len(rs) : rs[i].key = rs[j].key => i = j
    BY <1>0, <2>1, <2>2 DEF WellFormed
  <2>5. \A i \in 1..Len(rs) : rs[i].expires <= t + TTL /\ TTL <= rs[i].expires
    BY <1>0, <2>2 DEF WellFormed
  <2> QED BY <1>0, <2>2, <2>3, <2>4, <2>5 DEF WellFormed
<1> QED BY <1>1, <1>2

-----------------------------------------------------------------------------

\* The invariant says the dict is well formed, and Nothing is no value.
LEMMA InvAsWellFormed ==
    IInv <=> /\ WellFormed(entries, now)
             /\ Len(entries) <= MaxEntries
             /\ now \in Nat
             /\ reply \in Values \cup {Nothing}
BY DEF IInv, TypeOK, BoundedDict, ExpiryBounded, WellFormed

\* The invariant holds of the empty dict.
LEMMA InitInv == Init => IInv
BY TTLAssumption, MaxEntriesAssumption
   DEF Init, IInv, TypeOK, BoundedDict, ExpiryBounded

\* put leaves a well-formed dict within capacity.
LEMMA PutWellFormed ==
    ASSUME NEW es, NEW t \in Nat, WellFormed(es, t), Len(es) <= MaxEntries,
           NEW k \in Keys, NEW v \in Values
    PROVE  /\ WellFormed(AfterPut(es, k, v, t), t)
           /\ Len(AfterPut(es, k, v, t)) <= MaxEntries
<1> DEFINE e  == [key |-> k, expires |-> t + TTL, value |-> v]
           ev == Evicted(es)
<1>1. e \in Entries /\ e.expires = t + TTL
  BY TTLAssumption DEF Entries
<1>2. WellFormed(ev, t) /\ Len(ev) < MaxEntries
  BY EvictedWellFormed
<1>3. AfterPut(es, k, v, t) = Assigned(ev, e)
  BY DEF AfterPut
<1> HIDE DEF e, ev
<1>4. WellFormed(Assigned(ev, e), t) /\ Len(Assigned(ev, e)) <= Len(ev) + 1
  BY <1>1, <1>2, AssignedWellFormed
<1>5. Len(ev) \in Nat /\ Len(Assigned(ev, e)) \in Nat
  BY <1>2, <1>4 DEF WellFormed
<1> QED BY <1>2, <1>3, <1>4, <1>5, MaxEntriesAssumption

\* Every step keeps the invariant.
LEMMA StepInv == IInv /\ [Next]_vars => IInv'
<1> SUFFICES ASSUME IInv, [Next]_vars PROVE IInv'
  OBVIOUS
<1>0. /\ WellFormed(entries, now) /\ Len(entries) <= MaxEntries
      /\ now \in Nat /\ reply \in Values \cup {Nothing}
  BY InvAsWellFormed
<1> DEFINE Goal == /\ WellFormed(entries', now') /\ Len(entries') <= MaxEntries
                   /\ now' \in Nat /\ reply' \in Values \cup {Nothing}
<1> SUFFICES Goal
  BY DEF IInv, TypeOK, BoundedDict, ExpiryBounded, WellFormed
<1>n. Len(entries) \in Nat
  BY <1>0 DEF WellFormed
<1>1. ASSUME NEW k \in Keys, Get(k) PROVE Goal
  <2>1. WellFormed(entries', now') /\ Len(entries') <= Len(entries)
    BY <1>0, <1>1, AfterGetWellFormed DEF Get
  <2>2. Len(entries') \in Nat
    BY <2>1 DEF WellFormed
  <2>3. Found(entries, k, now) \in Values \cup {Nothing}
    <3>1. CASE Places(entries, k) # {}
      <4>1. Place(entries, k) \in 1..Len(entries)
        BY <3>1, PlaceIsPlace
      <4>2. entries[Place(entries, k)] \in Entries
        BY <1>0, <4>1 DEF WellFormed
      <4> QED BY <4>2 DEF Found, Entries
    <3>2. CASE Places(entries, k) = {}
      BY <3>2 DEF Found
    <3> QED BY <3>1, <3>2
  <2> QED BY <1>0, <1>1, <1>n, <2>1, <2>2, <2>3, MaxEntriesAssumption DEF Get
<1>2. ASSUME NEW k \in Keys, NEW v \in Values, Put(k, v) PROVE Goal
  BY <1>0, <1>2, PutWellFormed DEF Put
<1>3. CASE Invalidate
  BY <1>0, <1>3, MaxEntriesAssumption DEF Invalidate, WellFormed
<1>4. CASE Tick
  <2>1. /\ entries' = entries /\ reply' = reply /\ now' = now + 1
    BY <1>4 DEF Tick
  <2>5. entries \in Seq(Entries)
    BY <1>0 DEF WellFormed
  <2>6. \A i \in 1..Len(entries) : entries[i] \in Entries
    BY <2>5
  <2>2. \A i \in 1..Len(entries) : entries[i].expires \in Nat
    BY <2>6 DEF Entries
  <2>3. \A i \in 1..Len(entries) : entries[i].expires <= now + 1 + TTL
    BY <1>0, <2>2, TTLAssumption DEF WellFormed
  <2>4. WellFormed(entries, now + 1)
    BY <1>0, <2>3 DEF WellFormed
  <2> QED BY <1>0, <2>1, <2>4
<1>5. CASE UNCHANGED vars
  BY <1>0, <1>5 DEF vars
<1> QED BY <1>1, <1>2, <1>3, <1>4, <1>5 DEF Next

\* The dict is well typed, bounded, without repeated keys, and no entry outlives
\* TTL from now, in every reachable state (cache.py:15-30).
THEOREM CacheInvariant == Spec => [](TypeOK /\ BoundedDict /\ ExpiryBounded)
<1>1. IInv => TypeOK /\ BoundedDict /\ ExpiryBounded
  BY DEF IInv
<1> QED BY InitInv, StepInv, <1>1, PTL DEF Spec

\* Whatever is evicted, removed or overwritten, the dict stays a list of entries
\* and get answers a value or None (cache.py:15-30).
THEOREM CacheTyped == Spec => []TypeOK
BY CacheInvariant, PTL

\* No entry is live for longer than TTL from now, though a store may overwrite
\* one with time left and a read may leave an expired one where it is
\* (cache.py:15-27).
THEOREM CacheExpiryBounded == Spec => []ExpiryBounded
BY CacheInvariant, PTL

-----------------------------------------------------------------------------

\* In a dict whose keys are distinct, an entry is found at its own position.
LEMMA PlaceUnique ==
    ASSUME NEW es, NEW t, WellFormed(es, t), NEW i \in 1..Len(es)
    PROVE  Place(es, es[i].key) = i /\ Places(es, es[i].key) # {}
<1>1. Places(es, es[i].key) # {}
  BY DEF Places
<1>2. /\ Place(es, es[i].key) \in 1..Len(es)
      /\ es[Place(es, es[i].key)].key = es[i].key
  BY <1>1, PlaceIsPlace
<1> QED BY <1>1, <1>2 DEF WellFormed

\* Dropping entries leaves each slot as it was or empties it.
LEMMA SubsetSlots ==
    ASSUME NEW es, NEW rs, NEW t, WellFormed(es, t), WellFormed(rs, t),
           \A i \in 1..Len(rs) : \E j \in 1..Len(es) : rs[i] = es[j],
           NEW x
    PROVE  SlotIn(rs, x) \in {SlotIn(es, x), Nothing}
<1>1. CASE Places(rs, x) = {}
  BY <1>1 DEF SlotIn
<1>2. CASE Places(rs, x) # {}
  <2>1. Place(rs, x) \in 1..Len(rs) /\ rs[Place(rs, x)].key = x
    BY <1>2, PlaceIsPlace
  <2>2. PICK j \in 1..Len(es) : rs[Place(rs, x)] = es[j]
    BY <2>1
  <2>3. es[j].key = x
    BY <2>1, <2>2
  <2>4. Place(es, x) = j /\ Places(es, x) # {}
    BY <2>3, PlaceUnique
  <2> QED BY <1>2, <2>2, <2>4 DEF SlotIn
<1> QED BY <1>1, <1>2

\* A read drops at most the entry it found expired, and nothing else.
LEMMA AfterGetEntries ==
    ASSUME NEW es, NEW t \in Nat, WellFormed(es, t), NEW k \in Keys
    PROVE  /\ \A i \in 1..Len(AfterGet(es, k, t)) :
                 \E j \in 1..Len(es) : AfterGet(es, k, t)[i] = es[j]
           /\ \A j \in 1..Len(es) :
                 \/ \E i \in 1..Len(AfterGet(es, k, t)) : AfterGet(es, k, t)[i] = es[j]
                 \/ ~Live(es[j], t)
<1>1. CASE Places(es, k) # {} /\ ~Live(es[Place(es, k)], t)
  <2> DEFINE p == Place(es, k)
             rs == RemoveAt(es, p)
  <2>1. p \in 1..Len(es)
    BY <1>1, PlaceIsPlace
  <2>2. AfterGet(es, k, t) = rs
    BY <1>1 DEF AfterGet
  <2>7. Len(es) \in Nat /\ es \in Seq(Entries)
    BY DEF WellFormed
  <2>3. /\ Len(rs) = Len(es) - 1 /\ Len(es) \in Nat
        /\ \A i \in 1..Len(es) - 1 : rs[i] = IF i < p THEN es[i] ELSE es[i + 1]
    BY <2>1, <2>7, RemoveAtFacts
  <2>4. ~Live(es[p], t)
    BY <1>1
  <2> HIDE DEF p, rs
  <2>5. \A i \in 1..Len(rs) : \E j \in 1..Len(es) : rs[i] = es[j]
    <3> TAKE i \in 1..Len(rs)
    <3>1. CASE i < p
      <4>1. i \in 1..Len(es) /\ rs[i] = es[i]
        BY <2>1, <2>3, <3>1
      <4> QED BY <4>1
    <3>2. CASE ~(i < p)
      <4>1. i + 1 \in 1..Len(es) /\ rs[i] = es[i + 1]
        BY <2>1, <2>3, <3>2
      <4> QED BY <4>1
    <3> QED BY <3>1, <3>2
  <2>6. ASSUME NEW j \in 1..Len(es), j # p
        PROVE  \E i \in 1..Len(rs) : rs[i] = es[j]
    <3>1. CASE j < p
      <4>1. j \in 1..Len(rs) /\ rs[j] = es[j]
        BY <2>1, <2>3, <3>1
      <4> QED BY <4>1
    <3>2. CASE ~(j < p)
      <4>1. j - 1 \in 1..Len(rs) /\ rs[j - 1] = es[j]
        BY <2>1, <2>3, <2>6, <3>2
      <4> QED BY <4>1
    <3> QED BY <3>1, <3>2
  <2> QED BY <2>2, <2>4, <2>5, <2>6
<1>2. CASE ~(Places(es, k) # {} /\ ~Live(es[Place(es, k)], t))
  BY <1>2 DEF AfterGet
<1> QED BY <1>1, <1>2

\* Eviction keeps every entry but the first.
LEMMA EvictedEntries ==
    ASSUME NEW es, NEW t \in Nat, WellFormed(es, t), Len(es) <= MaxEntries
    PROVE  /\ \A i \in 1..Len(Evicted(es)) : \E j \in 1..Len(es) : Evicted(es)[i] = es[j]
           /\ \A j \in 1..Len(es) :
                 \/ \E i \in 1..Len(Evicted(es)) : Evicted(es)[i] = es[j]
                 \/ j = 1 /\ Len(es) = MaxEntries
<1>1. CASE Len(es) >= MaxEntries
  <2>1. es # <<>> /\ Len(es) \in Nat /\ Len(es) = MaxEntries
    BY <1>1, MaxEntriesAssumption DEF WellFormed
  <2>2. /\ Len(Tail(es)) = Len(es) - 1
        /\ \A i \in 1..Len(es) - 1 : Tail(es)[i] = es[i + 1]
    BY <2>1 DEF WellFormed
  <2>3. \A i \in 1..Len(Tail(es)) : i + 1 \in 1..Len(es)
    BY <2>1, <2>2
  <2>4. \A j \in 1..Len(es) : j # 1 => j - 1 \in 1..Len(Tail(es)) /\ Tail(es)[j - 1] = es[j]
    BY <2>1, <2>2
  <2>5. Evicted(es) = Tail(es)
    BY <1>1 DEF Evicted
  <2> QED BY <2>1, <2>2, <2>3, <2>4, <2>5
<1>2. CASE ~(Len(es) >= MaxEntries)
  BY <1>2 DEF Evicted
<1> QED BY <1>1, <1>2

\* Assigning e sets the slot of its key and no other.
LEMMA AssignedSlots ==
    ASSUME NEW es, NEW t \in Nat, WellFormed(es, t),
           NEW e \in Entries, e.expires = t + TTL
    PROVE  /\ SlotIn(Assigned(es, e), e.key) = [value |-> e.value, stored |-> t]
           /\ Places(Assigned(es, e), e.key) # {}
           /\ \A x : x # e.key =>
                 /\ SlotIn(Assigned(es, e), x) = SlotIn(es, x)
                 /\ Places(Assigned(es, e), x) = {} <=> Places(es, x) = {}
<1> DEFINE rs == Assigned(es, e)
<1>1. WellFormed(rs, t)
  BY AssignedWellFormed
<1>2. PICK p \in 1..Len(rs) :
         /\ rs[p] = e
         /\ \A i \in 1..Len(rs) : i # p => i \in 1..Len(es) /\ rs[i] = es[i]
         /\ \A i \in 1..Len(es) : es[i].key # e.key => i # p /\ i \in 1..Len(rs)
  <2>1. CASE Places(es, e.key) # {}
    <3> DEFINE q == Place(es, e.key)
    <3>1. q \in 1..Len(es) /\ es[q].key = e.key
      BY <2>1, PlaceIsPlace
    <3>2. rs = [es EXCEPT ![q] = e]
      BY <2>1 DEF Assigned
    <3> HIDE DEF q, rs
    <3>3. Len(rs) = Len(es) /\ \A i \in 1..Len(es) : rs[i] = IF i = q THEN e ELSE es[i]
      BY <3>1, <3>2 DEF WellFormed
    <3> QED BY <3>1, <3>3
  <2>2. CASE Places(es, e.key) = {}
    <3>1. rs = Append(es, e)
      BY <2>2 DEF Assigned
    <3> HIDE DEF rs
    <3>2. /\ Len(rs) = Len(es) + 1 /\ Len(es) \in Nat /\ rs[Len(es) + 1] = e
          /\ \A i \in 1..Len(es) : rs[i] = es[i]
      BY <3>1 DEF WellFormed
    <3>3. Len(es) + 1 \in 1..Len(rs)
      BY <3>2
    <3>4. \A i \in 1..Len(rs) : i # Len(es) + 1 => i \in 1..Len(es)
      BY <3>2
    <3>5. \A i \in 1..Len(es) : i # Len(es) + 1 /\ i \in 1..Len(rs)
      BY <3>2
    <3> QED BY <3>2, <3>3, <3>4, <3>5
  <2> QED BY <2>1, <2>2
<1> HIDE DEF rs
<1>3. Place(rs, e.key) = p /\ Places(rs, e.key) # {}
  BY <1>1, <1>2, PlaceUnique
<1>4. SlotIn(rs, e.key) = [value |-> e.value, stored |-> t]
  BY <1>2, <1>3, TTLAssumption DEF SlotIn
<1>5. ASSUME NEW x, x # e.key PROVE Places(rs, x) = Places(es, x)
  BY <1>2, <1>5 DEF Places
<1>6. ASSUME NEW x, x # e.key, Places(es, x) # {} PROVE rs[Place(rs, x)] = es[Place(es, x)]
  <2>1. Place(rs, x) = Place(es, x)
    BY <1>5, <1>6 DEF Place
  <2>2. Place(rs, x) \in 1..Len(rs) /\ rs[Place(rs, x)].key = x
    BY <1>5, <1>6, PlaceIsPlace
  <2>3. Place(rs, x) # p
    BY <1>2, <1>6, <2>2
  <2> QED BY <1>2, <2>1, <2>2, <2>3
<1>7. ASSUME NEW x, x # e.key PROVE SlotIn(rs, x) = SlotIn(es, x)
  BY <1>5, <1>6, <1>7 DEF SlotIn
<1> QED BY <1>3, <1>4, <1>5, <1>7 DEF rs

\* What a slot holds is a record of a value and its time, or nothing.
LEMMA SlotType ==
    ASSUME NEW es, NEW t \in Nat, WellFormed(es, t), NEW x
    PROVE  SlotIn(es, x) \in Fresh!Slots \cup {Nothing}
<1>1. CASE Places(es, x) # {}
  <2>1. Place(es, x) \in 1..Len(es)
    BY <1>1, PlaceIsPlace
  <2>2. es[Place(es, x)] \in Entries /\ TTL <= es[Place(es, x)].expires
    BY <2>1 DEF WellFormed
  <2> QED BY <1>1, <2>2, TTLAssumption DEF SlotIn, Entries, Fresh!Slots
<1>2. CASE Places(es, x) = {}
  BY <1>2 DEF SlotIn
<1> QED BY <1>1, <1>2
-----------------------------------------------------------------------------

\* The empty dict stands for the store that remembers nothing.
LEMMA InitImplements == Init => Fresh!Init
<1> SUFFICES ASSUME Init PROVE Fresh!Init
  OBVIOUS
<1>1. \A k \in Keys : SlotIn(entries, k) = Nothing
  BY DEF Init, SlotIn, Places
<1> QED BY <1>1 DEF Init, Fresh!Init, Content

\* A read of the dict is a read of the store, after it has lost what the dict dropped.
LEMMA GetImplements ==
    ASSUME IInv, NEW k \in Keys, Get(k)
    PROVE  Fresh!Lookup(k)
<1>0. WellFormed(entries, now) /\ now \in Nat
  BY InvAsWellFormed
<1>1. WellFormed(entries', now)
  BY <1>0, AfterGetWellFormed DEF Get
<1>2. \A x \in Keys : SlotIn(entries', x) \in {SlotIn(entries, x), Nothing}
  BY <1>0, <1>1, AfterGetEntries, SubsetSlots DEF Get
<1>3. \A x \in Keys : SlotIn(entries', x) \in Fresh!Slots \cup {Nothing}
  BY <1>0, <1>1, SlotType
<1>4. /\ Content' \in [Keys -> Fresh!Slots \cup {Nothing}]
      /\ Fresh!MayForget(Content)
  BY <1>2, <1>3 DEF Content, Fresh!MayForget
<1>5. reply' = IF Content[k] # Nothing /\ now < Content[k].stored + TTL
               THEN Content[k].value
               ELSE Nothing
  <2>1. CASE Places(entries, k) = {}
    BY <2>1 DEF Get, Found, Content, SlotIn
  <2>2. CASE Places(entries, k) # {}
    <3> DEFINE e == entries[Place(entries, k)]
    <3>1. Place(entries, k) \in 1..Len(entries)
      BY <2>2, PlaceIsPlace
    <3>2. e \in Entries /\ TTL <= e.expires
      BY <1>0, <3>1 DEF WellFormed
    <3>3. Content[k] = [value |-> e.value, stored |-> e.expires - TTL]
      BY <2>2 DEF Content, SlotIn
    <3>4. reply' = IF Live(e, now) THEN e.value ELSE Nothing
      BY <2>2 DEF Get, Found
    <3> HIDE DEF e
    <3>5. e.expires - TTL + TTL = e.expires /\ e.expires - TTL \in Nat /\ e.value \in Values
      BY <3>2, TTLAssumption DEF Entries
    <3>6. Content[k] # Nothing
      BY <3>3, <3>5, NothingAssumption
    <3>7. now < Content[k].stored + TTL <=> Live(e, now)
      BY <3>3, <3>5 DEF Live
    <3> QED BY <3>3, <3>4, <3>6, <3>7
  <2> QED BY <2>1, <2>2
<1>6. now' = now
  BY DEF Get
<1> QED BY <1>4, <1>5, <1>6 DEF Fresh!Lookup

\* A put into the dict is a put into the store, losing what was evicted.
LEMMA PutImplements ==
    ASSUME IInv, NEW k \in Keys, NEW v \in Values, Put(k, v)
    PROVE  Fresh!Store(k, v)
<1> DEFINE e  == [key |-> k, expires |-> now + TTL, value |-> v]
           ev == Evicted(entries)
           s  == [value |-> v, stored |-> now]
<1>0. WellFormed(entries, now) /\ now \in Nat /\ Len(entries) <= MaxEntries
  BY InvAsWellFormed
<1>1. e \in Entries /\ e.expires = now + TTL /\ e.key = k /\ e.value = v
  BY <1>0, TTLAssumption DEF Entries
<1>2. entries' = Assigned(ev, e)
  BY DEF Put, AfterPut
<1>3. WellFormed(ev, now)
  BY <1>0, EvictedWellFormed
<1>4. WellFormed(entries', now)
  BY <1>0, PutWellFormed DEF Put
<1>5. \A x : SlotIn(ev, x) \in {SlotIn(entries, x), Nothing}
  BY <1>0, <1>3, EvictedEntries, SubsetSlots
<1> HIDE DEF e, ev, s
<1>b. e \in Entries /\ e.expires = now + TTL
  BY <1>1
<1>a. /\ SlotIn(Assigned(ev, e), e.key) = [value |-> e.value, stored |-> now]
      /\ Places(Assigned(ev, e), e.key) # {}
      /\ \A x : x # e.key =>
            /\ SlotIn(Assigned(ev, e), x) = SlotIn(ev, x)
            /\ Places(Assigned(ev, e), x) = {} <=> Places(ev, x) = {}
  BY <1>0, <1>b, <1>3, AssignedSlots
<1>6. SlotIn(entries', k) = s
  BY <1>1, <1>2, <1>a DEF s
<1>7. \A x : x # k => SlotIn(entries', x) = SlotIn(ev, x)
  BY <1>1, <1>2, <1>a
<1>8. \A x \in Keys : SlotIn(entries', x) \in Fresh!Slots \cup {Nothing}
  BY <1>0, <1>4, SlotType
<1>9. Content' \in [Keys -> Fresh!Slots \cup {Nothing}] /\ Content'[k] = s
  BY <1>6, <1>8 DEF Content
<1>10. \A x \in Keys : Content'[x] \in {[Content EXCEPT ![k] = s][x], Nothing}
  BY <1>5, <1>6, <1>7 DEF Content
<1>11. now' = now /\ reply' = reply
  BY DEF Put
<1> QED BY <1>9, <1>10, <1>11 DEF Fresh!Store, Fresh!MayForget, s

\* The dict implements the abstract store: whatever get answers was put last
\* under that key, less than TTL ago, for every capacity and lifetime.
THEOREM CacheImplementsFreshStore == Spec => AnswersFresh
<1>1. IInv /\ [Next]_vars => [Fresh!Next]_(Fresh!vars)
  <2> SUFFICES ASSUME IInv, [Next]_vars PROVE [Fresh!Next]_(Fresh!vars)
    OBVIOUS
  <2>1. ASSUME NEW k \in Keys, Get(k) PROVE Fresh!Next
    BY <2>1, GetImplements DEF Fresh!Next
  <2>2. ASSUME NEW k \in Keys, NEW v \in Values, Put(k, v) PROVE Fresh!Next
    BY <2>2, PutImplements DEF Fresh!Next
  <2>3. CASE Invalidate
    <3>1. \A k \in Keys : SlotIn(entries', k) = Nothing
      BY <2>3 DEF Invalidate, SlotIn, Places
    <3> QED BY <2>3, <3>1 DEF Invalidate, Fresh!Next, Fresh!Clear, Content
  <2>4. CASE Tick
    BY <2>4 DEF IInv, TypeOK, Tick, Fresh!Next, Fresh!Age, Content
  <2>5. CASE UNCHANGED vars
    BY <2>5 DEF vars, Fresh!vars, Content, SlotIn, Places, Place
  <2> QED BY <2>1, <2>2, <2>3, <2>4, <2>5 DEF Next
<1> QED BY InitInv, StepInv, InitImplements, <1>1, PTL DEF Spec, AnswersFresh, Fresh!Spec

-----------------------------------------------------------------------------

\* A key is lost to invalidation, to its own expiry, or to eviction as the
\* oldest entry of a full cache, and to nothing else.
THEOREM CacheLossHasCause == Spec => LossHasCause
<1> DEFINE Kept(i) == Places(entries', entries[i].key) = {}
                      => \/ entries' = <<>> /\ reply' = reply
                         \/ ~Live(entries[i], now)
                         \/ i = 1 /\ Len(entries) = MaxEntries
<1>1. ASSUME IInv, [Next]_vars, NEW i \in 1..Len(entries)
      PROVE  Kept(i)
  <2>0. WellFormed(entries, now) /\ now \in Nat /\ Len(entries) <= MaxEntries
    BY <1>1, InvAsWellFormed
  <2>1. ASSUME NEW k \in Keys, Get(k) PROVE Kept(i)
    BY <2>0, <2>1, AfterGetEntries DEF Get, Places
  <2>2. ASSUME NEW k \in Keys, NEW v \in Values, Put(k, v) PROVE Kept(i)
    <3> DEFINE e  == [key |-> k, expires |-> now + TTL, value |-> v]
               ev == Evicted(entries)
               x  == entries[i].key
    <3>1. e \in Entries /\ e.expires = now + TTL
      BY <2>0, TTLAssumption DEF Entries
    <3>2. entries' = Assigned(ev, e)
      BY <2>2 DEF Put, AfterPut
    <3>3. WellFormed(ev, now)
      BY <2>0, EvictedWellFormed
    <3>4. \/ \E j \in 1..Len(ev) : ev[j] = entries[i]
          \/ i = 1 /\ Len(entries) = MaxEntries
      BY <2>0, EvictedEntries
    <3>5. (\E j \in 1..Len(ev) : ev[j] = entries[i]) => Places(ev, x) # {}
      BY DEF Places
    <3> HIDE DEF e, ev
    <3>a. /\ SlotIn(Assigned(ev, e), e.key) = [value |-> e.value, stored |-> now]
          /\ Places(Assigned(ev, e), e.key) # {}
          /\ \A z : z # e.key =>
                /\ SlotIn(Assigned(ev, e), z) = SlotIn(ev, z)
                /\ Places(Assigned(ev, e), z) = {} <=> Places(ev, z) = {}
      BY <2>0, <3>1, <3>3, AssignedSlots
    <3>6. x # e.key => (Places(entries', x) = {} <=> Places(ev, x) = {})
      BY <3>2, <3>a
    <3>7. Places(entries', e.key) # {}
      BY <3>2, <3>a
    <3> QED BY <3>4, <3>5, <3>6, <3>7
  <2>3. CASE Invalidate
    BY <2>3 DEF Invalidate
  <2>4. CASE Tick
    BY <2>4 DEF Tick, Places
  <2>5. CASE UNCHANGED vars
    BY <2>5 DEF vars, Places
  <2> QED BY <1>1, <2>1, <2>2, <2>3, <2>4, <2>5 DEF Next
<1>2. IInv /\ [Next]_vars =>
        [\A i \in 1..Len(entries) :
            Places(entries', entries[i].key) = {}
            => \/ entries' = <<>> /\ reply' = reply
               \/ ~Live(entries[i], now)
               \/ i = 1 /\ Len(entries) = MaxEntries]_vars
  BY <1>1
<1> QED BY InitInv, StepInv, <1>2, PTL DEF Spec, LossHasCause

-----------------------------------------------------------------------------
(* Sequences of sequences                                                  *)

\* A set of natural numbers that is not empty has a least one.
LEMMA LeastExists ==
    ASSUME NEW T \in SUBSET Nat, T # {}
    PROVE  \E x \in T : \A y \in T : x <= y
<1> DEFINE less == OpToRel(<, Nat)
<1>1. PICK x \in T : \A y \in T : ~(<<y, x>> \in less)
  <2> HIDE DEF less
  <2>1. IsWellFoundedOn(less, Nat)
    BY NatLessThanWellFounded DEF less
  <2> QED BY <2>1, WFMin
<1>2. \A y \in T : ~(y < x)
  BY <1>1 DEF OpToRel
<1> HIDE DEF less
<1>3. \A y \in T : y \in Nat /\ x \in Nat
  OBVIOUS
<1> QED BY <1>2, <1>3

\* The first n of a sequence of sequences, joined one after the other.
Joins(f, n, seqs) == \A i \in 1..n : f[i] = IF i = 1 THEN seqs[i] ELSE f[i - 1] \o seqs[i]

LEMMA JoinsExist ==
    ASSUME NEW T, NEW seqs \in Seq(Seq(T)), NEW n \in 0..Len(seqs)
    PROVE  \E f \in [1..n -> Seq(T)] : Joins(f, n, seqs)
<1> DEFINE Wrong == {k \in 0..Len(seqs) : ~ \E f \in [1..k -> Seq(T)] : Joins(f, k, seqs)}
<1>0. Len(seqs) \in Nat /\ \A i \in 1..Len(seqs) : seqs[i] \in Seq(T)
  BY LenProperties, ElementOfSeq
<1>1. SUFFICES ASSUME Wrong # {} PROVE FALSE
  OBVIOUS
<1>2. PICK m \in Wrong : \A k \in Wrong : m <= k
  <2>1. Wrong \in SUBSET Nat
    BY <1>0
  <2> HIDE DEF Wrong
  <2> QED BY <1>1, <2>1, LeastExists
<1>3. m \in 0..Len(seqs) /\ m \in Nat
  BY <1>0
<1>4. m # 0
  <2>1. [i \in 1..0 |-> <<>>] \in [1..0 -> Seq(T)] /\ Joins([i \in 1..0 |-> <<>>], 0, seqs)
    BY DEF Joins
  <2> QED BY <2>1
<1>5. PICK f \in [1..m - 1 -> Seq(T)] : Joins(f, m - 1, seqs)
  <2>1. m - 1 \in 0..Len(seqs) /\ ~(m <= m - 1)
    BY <1>0, <1>3, <1>4
  <2>2. m - 1 \notin Wrong
    <3> HIDE DEF Wrong
    <3> QED BY <1>2, <2>1
  <2> QED BY <2>1, <2>2
<1> DEFINE last == IF m = 1 THEN seqs[m] ELSE f[m - 1] \o seqs[m]
           g    == [i \in 1..m |-> IF i = m THEN last ELSE f[i]]
<1>6. last \in Seq(T)
  <2>1. m \in 1..Len(seqs) /\ (m # 1 => m - 1 \in 1..m - 1)
    BY <1>0, <1>3, <1>4
  <2>2. seqs[m] \in Seq(T) /\ (m # 1 => f[m - 1] \in Seq(T))
    BY <1>0, <2>1
  <2> QED BY <2>2, ConcatProperties
<1>7. \A i \in 1..m : i # m => i \in 1..m - 1
  BY <1>3
<1>8. g \in [1..m -> Seq(T)]
  <2> HIDE DEF last
  <2> QED BY <1>6, <1>7
<1>9. Joins(g, m, seqs)
  <2> SUFFICES ASSUME NEW i \in 1..m
               PROVE  g[i] = IF i = 1 THEN seqs[i] ELSE g[i - 1] \o seqs[i]
    BY DEF Joins
  <2>1. i # 1 => i - 1 \in 1..m /\ i - 1 # m
    BY <1>3
  <2>2. i # 1 => g[i - 1] = f[i - 1]
    BY <2>1
  <2>3. CASE i = m
    BY <2>2, <2>3
  <2>4. CASE i # m
    BY <1>5, <1>7, <2>2, <2>4 DEF Joins
  <2> QED BY <2>3, <2>4
<1> HIDE DEF g
<1> QED BY <1>2, <1>8, <1>9

LEMMA JoinsAgree ==
    ASSUME NEW n \in Nat, NEW f, NEW g, NEW seqs, Joins(f, n, seqs), Joins(g, n, seqs)
    PROVE  \A i \in 1..n : f[i] = g[i]
<1> DEFINE Wrong == {i \in 1..n : f[i] # g[i]}
<1> SUFFICES ASSUME Wrong # {} PROVE FALSE
  OBVIOUS
<1>1. PICK m \in Wrong : \A k \in Wrong : m <= k
  <2>1. Wrong \in SUBSET Nat
    OBVIOUS
  <2> HIDE DEF Wrong
  <2> QED BY <2>1, LeastExists
<1>2. m \in 1..n /\ f[m] # g[m]
  OBVIOUS
<1>3. m # 1 => m - 1 \in 1..n /\ ~(m <= m - 1)
  BY <1>2
<1>4. m # 1 => f[m - 1] = g[m - 1]
  BY <1>1, <1>3
<1> HIDE DEF Wrong
<1> QED BY <1>2, <1>4 DEF Joins

\* What FlattenSeq does.
LEMMA Flattened ==
    ASSUME NEW T, NEW seqs \in Seq(Seq(T)), Len(seqs) > 0
    PROVE  \E f \in [1..Len(seqs) -> Seq(T)] :
               Joins(f, Len(seqs), seqs) /\ FlattenSeq(seqs) = f[Len(seqs)]
<1> DEFINE n == Len(seqs)
           Joined(f) == f = [i \in 1..n |-> IF i = 1 THEN seqs[i] ELSE f[i - 1] \o seqs[i]]
           h == CHOOSE f : Joined(f)
<1>0. n \in Nat /\ n \in 0..n /\ n # 0
  BY LenProperties
<1>1. PICK f \in [1..n -> Seq(T)] : Joins(f, n, seqs)
  BY <1>0, JoinsExist
<1>2. Joined(f)
  BY <1>1 DEF Joins
<1>3. Joined(h)
  BY <1>2
<1>4. FlattenSeq(seqs) = h[n]
  BY <1>0 DEF FlattenSeq
<1>5. Joins(h, n, seqs)
  BY <1>3 DEF Joins
<1> HIDE DEF h
<1>6. h[n] = f[n]
  <2>1. n \in 1..n
    BY <1>0
  <2> QED BY <1>0, <1>1, <1>5, <2>1, JoinsAgree
<1> QED BY <1>1, <1>4, <1>6

LEMMA FlattenedType ==
    ASSUME NEW T, NEW seqs \in Seq(Seq(T))
    PROVE  FlattenSeq(seqs) \in Seq(T)
<1>0. Len(seqs) \in Nat
  BY LenProperties
<1>1. CASE Len(seqs) = 0
  <2>1. seqs = <<>>
    BY <1>1, EmptySeq
  <2> QED BY <1>1, <2>1, EmptySeq DEF FlattenSeq
<1>2. CASE Len(seqs) > 0
  <2>1. Len(seqs) \in 1..Len(seqs)
    BY <1>0, <1>2
  <2> QED BY <1>2, <2>1, Flattened
<1> QED BY <1>0, <1>1, <1>2

LEMMA FlattenedAppend ==
    ASSUME NEW T, NEW seqs \in Seq(Seq(T)), NEW t \in Seq(T)
    PROVE  FlattenSeq(Append(seqs, t)) = FlattenSeq(seqs) \o t
<1> DEFINE n == Len(seqs)
           more == Append(seqs, t)
<1>0. n \in Nat
  BY LenProperties
<1>1. /\ more \in Seq(Seq(T)) /\ Len(more) = n + 1 /\ more[n + 1] = t
      /\ \A i \in 1..n : more[i] = seqs[i]
  BY AppendProperties
<1> HIDE DEF more
<1>2. PICK g \in [1..n + 1 -> Seq(T)] : Joins(g, n + 1, more) /\ FlattenSeq(more) = g[n + 1]
  BY <1>0, <1>1, Flattened
<1>3. g[n + 1] = IF n = 0 THEN t ELSE g[n] \o t
  <2>1. n + 1 \in 1..n + 1 /\ (n + 1 = 1 <=> n = 0) /\ (n + 1) - 1 = n
    BY <1>0
  <2>2. g[n + 1] = IF n + 1 = 1 THEN more[n + 1] ELSE g[(n + 1) - 1] \o more[n + 1]
    BY <1>2, <2>1 DEF Joins
  <2> QED BY <1>1, <2>1, <2>2
<1>4. CASE n = 0
  <2>1. seqs = <<>> /\ FlattenSeq(seqs) = <<>>
    BY <1>4, EmptySeq DEF FlattenSeq
  <2> QED BY <1>2, <1>3, <1>4, <2>1, ConcatEmptySeq DEF more
<1>5. CASE n > 0
  <2>1. PICK f \in [1..n -> Seq(T)] : Joins(f, n, seqs) /\ FlattenSeq(seqs) = f[n]
    BY <1>5, Flattened
  <2>2. Joins(g, n, seqs)
    <3>1. \A i \in 1..n : i \in 1..n + 1
      BY <1>0
    <3> QED BY <1>1, <1>2, <3>1 DEF Joins
  <2>3. n \in 1..n
    BY <1>0, <1>5
  <2>4. g[n] = f[n]
    BY <1>0, <2>1, <2>2, <2>3, JoinsAgree
  <2> QED BY <1>2, <1>3, <1>5, <2>1, <2>4 DEF more
<1> QED BY <1>0, <1>4, <1>5

\* A sequence is one of its elements.
LEMMA IsSequence ==
    ASSUME NEW n \in Nat, NEW s, s = [i \in 1..n |-> s[i]]
    PROVE  s \in Seq(ToSet(s)) /\ Len(s) = n /\ DOMAIN s = 1..n
<1>1. DOMAIN s = 1..n
  OBVIOUS
<1>2. s \in [1..n -> ToSet(s)]
  BY <1>1 DEF ToSet
<1>3. s \in Seq(ToSet(s))
  BY <1>2, SeqDef
<1>4. Len(s) = n
  <2>1. Len(s) \in Nat /\ 1..Len(s) = 1..n
    BY <1>1, <1>3, LenProperties
  <2> QED BY <2>1
<1> QED BY <1>1, <1>3, <1>4

\* A sequence of sequences is one of sequences of its elements.
Elements(seqs) == UNION {ToSet(seqs[i]) : i \in DOMAIN seqs}

LEMMA AreSequences ==
    ASSUME NEW n \in Nat, NEW seqs, seqs = [i \in 1..n |-> seqs[i]],
           \A i \in 1..n : seqs[i] \in Seq(ToSet(seqs[i]))
    PROVE  seqs \in Seq(Seq(Elements(seqs))) /\ Len(seqs) = n /\ DOMAIN seqs = 1..n
<1>1. Len(seqs) = n /\ DOMAIN seqs = 1..n
  BY IsSequence
<1>2. ASSUME NEW i \in 1..n PROVE seqs[i] \in Seq(Elements(seqs))
  <2>1. ToSet(seqs[i]) \subseteq Elements(seqs)
    BY <1>1 DEF Elements
  <2> QED BY <2>1, SeqMonotonic
<1>3. seqs \in [1..n -> Seq(Elements(seqs))]
  BY <1>2
<1> QED BY <1>1, <1>3, SeqDef

\* Where FlattenSeq puts the j-th element of the i-th sequence.
Lays(at, seqs) ==
    /\ \A i \in DOMAIN seqs : \A j \in DOMAIN seqs[i] :
          /\ at[i][j] \in 1..Len(FlattenSeq(seqs))
          /\ FlattenSeq(seqs)[at[i][j]] = seqs[i][j]
    /\ \A i, k \in DOMAIN seqs : \A j \in DOMAIN seqs[i] : \A l \in DOMAIN seqs[k] :
          /\ at[i][j] = at[k][l] => i = k /\ j = l
          /\ i < k \/ (i = k /\ j < l) => at[i][j] < at[k][l]
    /\ \A p \in 1..Len(FlattenSeq(seqs)) :
          \E i \in DOMAIN seqs : \E j \in DOMAIN seqs[i] : at[i][j] = p

\* Every element of every sequence gets a place of its own, in their order, and
\* no place is left.
LEMMA FlattenedPlaces ==
    ASSUME NEW T, NEW seqs \in Seq(Seq(T))
    PROVE  \E at : Lays(at, seqs)
<1> DEFINE Wrong == {n \in Nat : \E ss \in Seq(Seq(T)) : Len(ss) = n /\ ~ \E at : Lays(at, ss)}
<1>0. SUFFICES ASSUME Wrong # {} PROVE FALSE
  <2>1. Len(seqs) \in Nat
    BY LenProperties
  <2> QED BY <2>1
<1>1. PICK n \in Wrong : \A k \in Wrong : n <= k
  <2>1. Wrong \in SUBSET Nat
    OBVIOUS
  <2> HIDE DEF Wrong
  <2> QED BY <1>0, <2>1, LeastExists
<1>2. PICK ss \in Seq(Seq(T)) : Len(ss) = n /\ ~ \E at : Lays(at, ss)
  OBVIOUS
<1>3. n \in Nat /\ DOMAIN ss = 1..n /\ \A i \in 1..n : ss[i] \in Seq(T)
  BY <1>2, LenProperties, ElementOfSeq
<1> HIDE DEF Wrong
<1>4. CASE n = 0
  <2>1. ss = <<>> /\ FlattenSeq(ss) = <<>>
    BY <1>2, <1>4, EmptySeq DEF FlattenSeq
  <2>2. Lays(<<>>, ss)
    BY <1>3, <1>4, <2>1 DEF Lays
  <2> QED BY <1>2, <2>2
<1>5. CASE n > 0
  <2> DEFINE front == [i \in 1..n - 1 |-> ss[i]]
             s     == ss[n]
             flat  == FlattenSeq(front)
  <2>1. n \in 1..n /\ n - 1 \in Nat /\ \A i \in 1..n - 1 : i \in 1..n
    BY <1>3, <1>5
  <2>2. front \in Seq(Seq(T)) /\ s \in Seq(T)
    <3>1. front \in [1..n - 1 -> Seq(T)]
      BY <1>3, <2>1
    <3> QED BY <1>3, <2>1, <3>1, SeqDef
  <2>3. DOMAIN front = 1..n - 1 /\ Len(front) = n - 1
    <3>1. Len(front) \in Nat /\ DOMAIN front = 1..Len(front) /\ DOMAIN front = 1..n - 1
      BY <2>2, LenProperties
    <3> QED BY <2>1, <3>1
  <2>4. \A i \in 1..n - 1 : front[i] = ss[i]
    OBVIOUS
  <2> HIDE DEF front
  <2>5. ss = Append(front, s)
    <3>1. /\ Append(front, s) \in Seq(Seq(T)) /\ Len(Append(front, s)) = n
          /\ Append(front, s)[n] = s
          /\ \A i \in 1..n - 1 : Append(front, s)[i] = front[i]
      BY <1>3, <2>1, <2>2, <2>3, AppendProperties
    <3>2. \A i \in 1..n : i = n \/ i \in 1..n - 1
      BY <1>3
    <3>3. \A i \in 1..n : Append(front, s)[i] = ss[i]
      BY <2>4, <3>1, <3>2
    <3> QED BY <1>2, <3>1, <3>3, SeqEqual
  <2>6. FlattenSeq(ss) = flat \o s
    BY <2>2, <2>5, FlattenedAppend
  <2>7. flat \in Seq(T) /\ Len(flat) \in Nat
    BY <2>2, FlattenedType, LenProperties
  <2>8. Len(s) \in Nat /\ DOMAIN s = 1..Len(s)
    BY <2>2, LenProperties
  <2>9. /\ Len(flat \o s) = Len(flat) + Len(s)
        /\ \A p \in 1..Len(flat) : (flat \o s)[p] = flat[p]
        /\ \A j \in 1..Len(s) : (flat \o s)[Len(flat) + j] = s[j]
    <3>1. /\ Len(flat \o s) = Len(flat) + Len(s)
          /\ \A p \in 1..Len(flat) + Len(s) :
                (flat \o s)[p] = IF p <= Len(flat) THEN flat[p] ELSE s[p - Len(flat)]
      BY <2>2, <2>7, ConcatProperties
    <3>2. \A p \in 1..Len(flat) : p \in 1..Len(flat) + Len(s) /\ p <= Len(flat)
      BY <2>7, <2>8
    <3>3. \A j \in 1..Len(s) : /\ Len(flat) + j \in 1..Len(flat) + Len(s)
                               /\ ~(Len(flat) + j <= Len(flat))
                               /\ (Len(flat) + j) - Len(flat) = j
      BY <2>7, <2>8
    <3> HIDE DEF flat, s
    <3> QED BY <3>1, <3>2, <3>3
  <2>10. PICK at : Lays(at, front)
    <3>1. n - 1 \notin Wrong
      <4>1. n - 1 \in Nat /\ ~(n <= n - 1)
        BY <1>3, <2>1
      <4> QED BY <1>1, <4>1
    <3> QED BY <2>1, <2>2, <2>3, <3>1 DEF Wrong
  <2> DEFINE g == [i \in 1..n |-> IF i = n THEN [j \in 1..Len(s) |-> Len(flat) + j] ELSE at[i]]
  <2>11. /\ \A j \in 1..Len(s) : g[n][j] = Len(flat) + j
         /\ \A i \in 1..n - 1 : g[i] = at[i] /\ i # n
    BY <1>3, <2>1
  <2> HIDE DEF g
  <2>12. \A i \in 1..n : \/ i = n /\ DOMAIN ss[i] = 1..Len(s) /\ ss[i] = s
                         \/ i \in 1..n - 1 /\ i # n /\ ss[i] = front[i]
    BY <1>3, <2>4, <2>8
  <2>13. \A i \in 1..n - 1 : \A j \in DOMAIN front[i] :
            at[i][j] \in 1..Len(flat) /\ flat[at[i][j]] = front[i][j]
    BY <2>3, <2>10 DEF Lays
  <2> HIDE DEF flat, s
  <2>14. ASSUME NEW i \in 1..n, NEW j \in DOMAIN ss[i]
         PROVE  /\ g[i][j] \in 1..Len(flat) + Len(s)
                /\ (flat \o s)[g[i][j]] = ss[i][j]
                /\ i = n <=> g[i][j] > Len(flat)
    <3>1. CASE i = n /\ DOMAIN ss[i] = 1..Len(s) /\ ss[i] = s
      <4>1. j \in 1..Len(s) /\ g[i][j] = Len(flat) + j
        BY <2>11, <3>1
      <4> QED BY <2>7, <2>8, <2>9, <3>1, <4>1
    <3>2. CASE i \in 1..n - 1 /\ i # n /\ ss[i] = front[i]
      <4>1. g[i][j] = at[i][j] /\ at[i][j] \in 1..Len(flat) /\ flat[at[i][j]] = front[i][j]
        BY <2>11, <2>13, <3>2
      <4> QED BY <2>7, <2>8, <2>9, <3>2, <4>1
    <3> QED BY <2>12, <3>1, <3>2
  <2>15. ASSUME NEW i \in 1..n, NEW k \in 1..n, NEW j \in DOMAIN ss[i], NEW l \in DOMAIN ss[k],
                g[i][j] = g[k][l]
         PROVE  i = k /\ j = l
    <3>1. i = n <=> k = n
      BY <2>14, <2>15
    <3>2. CASE i = n
      <4>1. j \in 1..Len(s) /\ l \in 1..Len(s) /\ k = n
        BY <2>12, <3>1, <3>2
      <4>2. Len(flat) + j = Len(flat) + l
        BY <2>11, <2>15, <3>2, <4>1
      <4> QED BY <2>7, <2>8, <3>2, <4>1, <4>2
    <3>3. CASE i # n
      <4>1. /\ i \in 1..n - 1 /\ k \in 1..n - 1
            /\ j \in DOMAIN front[i] /\ l \in DOMAIN front[k] /\ at[i][j] = at[k][l]
        BY <2>11, <2>12, <2>15, <3>1, <3>3
      <4>2. \A a, b \in 1..n - 1 : \A c \in DOMAIN front[a] : \A d \in DOMAIN front[b] :
               /\ at[a][c] = at[b][d] => a = b /\ c = d
               /\ a < b \/ (a = b /\ c < d) => at[a][c] < at[b][d]
        BY <2>3, <2>10 DEF Lays
      <4> QED BY <4>1, <4>2
    <3> QED BY <3>2, <3>3
  <2>16. ASSUME NEW i \in 1..n, NEW k \in 1..n, NEW j \in DOMAIN ss[i], NEW l \in DOMAIN ss[k],
                i < k \/ (i = k /\ j < l)
         PROVE  g[i][j] < g[k][l]
    <3>1. CASE k = n /\ i = n
      <4>1. j \in 1..Len(s) /\ l \in 1..Len(s) /\ j < l
        BY <1>3, <2>12, <2>16, <3>1
      <4>2. g[i][j] = Len(flat) + j /\ g[k][l] = Len(flat) + l
        BY <2>11, <3>1, <4>1
      <4> QED BY <2>7, <2>8, <4>1, <4>2
    <3>2. CASE k = n /\ i # n
      <4>1. g[i][j] \in 1..Len(flat) + Len(s) /\ ~(g[i][j] > Len(flat))
            /\ g[k][l] \in 1..Len(flat) + Len(s) /\ g[k][l] > Len(flat)
        BY <2>14, <3>2
      <4> DEFINE a == g[i][j]
                 b == g[k][l]
                 w == Len(flat)
                 v == Len(s)
      <4>2. a \in 1..w + v /\ ~(a > w) /\ b \in 1..w + v /\ b > w /\ w \in Nat /\ v \in Nat
        BY <2>7, <2>8, <4>1
      <4> HIDE DEF a, b, w, v
      <4>3. a < b
        BY <4>2
      <4> QED BY <4>3 DEF a, b
    <3>3. CASE k # n
      <4>1. i \in 1..n - 1 /\ k \in 1..n - 1
        BY <1>3, <2>16, <3>3
      <4>2. /\ j \in DOMAIN front[i] /\ l \in DOMAIN front[k]
            /\ g[i][j] = at[i][j] /\ g[k][l] = at[k][l]
        BY <2>4, <2>11, <4>1
      <4>3. \A a, b \in 1..n - 1 : \A c \in DOMAIN front[a] : \A d \in DOMAIN front[b] :
               /\ at[a][c] = at[b][d] => a = b /\ c = d
               /\ a < b \/ (a = b /\ c < d) => at[a][c] < at[b][d]
        BY <2>3, <2>10 DEF Lays
      <4> QED BY <2>16, <4>1, <4>2, <4>3
    <3> QED BY <3>1, <3>2, <3>3
  <2>17. ASSUME NEW p \in 1..Len(flat) + Len(s)
         PROVE  \E i \in 1..n : \E j \in DOMAIN ss[i] : g[i][j] = p
    <3>1. CASE p <= Len(flat)
      <4>1. p \in 1..Len(flat)
        BY <2>7, <2>8, <3>1
      <4>2. PICK i \in 1..n - 1 : \E j \in DOMAIN front[i] : at[i][j] = p
        BY <2>3, <2>10, <4>1 DEF Lays, flat
      <4> QED BY <2>1, <2>4, <2>11, <4>2
    <3>2. CASE p > Len(flat)
      <4>1. p - Len(flat) \in 1..Len(s) /\ Len(flat) + (p - Len(flat)) = p
        BY <2>7, <2>8, <3>2
      <4>2. DOMAIN ss[n] = 1..Len(s)
        BY <2>8 DEF s
      <4> QED BY <2>1, <2>11, <4>1, <4>2
    <3>3. p \in Nat
      BY <2>7, <2>8
    <3> QED BY <2>7, <3>1, <3>2, <3>3
  <2>18. Lays(g, ss)
    <3>1. DOMAIN ss = 1..n /\ Len(FlattenSeq(ss)) = Len(flat) + Len(s)
      BY <1>3, <2>6, <2>9
    <3>2. \A i \in DOMAIN ss : \A j \in DOMAIN ss[i] :
             /\ g[i][j] \in 1..Len(FlattenSeq(ss))
             /\ FlattenSeq(ss)[g[i][j]] = ss[i][j]
      BY <2>6, <2>14, <3>1
    <3>3. \A i, k \in DOMAIN ss : \A j \in DOMAIN ss[i] : \A l \in DOMAIN ss[k] :
             /\ g[i][j] = g[k][l] => i = k /\ j = l
             /\ i < k \/ (i = k /\ j < l) => g[i][j] < g[k][l]
      BY <2>15, <2>16, <3>1
    <3>4. \A p \in 1..Len(FlattenSeq(ss)) : \E i \in DOMAIN ss : \E j \in DOMAIN ss[i] : g[i][j] = p
      BY <2>17, <3>1
    <3> QED BY <3>2, <3>3, <3>4 DEF Lays
  <2> QED BY <1>2, <2>18
<1> QED BY <1>3, <1>4, <1>5

\* A finite set is enumerated by a sequence of its elements, each once.
LEMMA Enumerated ==
    ASSUME NEW S, IsFiniteSet(S)
    PROVE  /\ SetToSeq(S) \in [1..Cardinality(S) -> S]
           /\ Len(SetToSeq(S)) = Cardinality(S) /\ Cardinality(S) \in Nat
           /\ DOMAIN SetToSeq(S) = 1..Cardinality(S)
           /\ \A i, j \in 1..Cardinality(S) : SetToSeq(S)[i] = SetToSeq(S)[j] => i = j
           /\ \A x \in S : \E i \in 1..Cardinality(S) : SetToSeq(S)[i] = x
<1> DEFINE n == Cardinality(S)
<1>1. n \in Nat /\ ExistsBijection(1..n, S)
  BY FS_CardinalityType
<1>2. \E f \in [1..n -> S] : IsInjective(f)
  BY <1>1 DEF ExistsBijection, Bijection, Injection
<1>3. SetToSeq(S) \in [1..n -> S] /\ IsInjective(SetToSeq(S))
  BY <1>2 DEF SetToSeq
<1> HIDE DEF n
<1>4. SetToSeq(S) \in Injection(1..n, S)
  BY <1>3 DEF Injection
<1>5. Cardinality(1..n) = n
  BY <1>1, FS_Interval
<1>6. SetToSeq(S) \in Surjection(1..n, S)
  BY <1>4, <1>5, FS_Injection DEF n
<1>7. Len(SetToSeq(S)) = n /\ DOMAIN SetToSeq(S) = 1..n
  BY <1>1, <1>3
<1>8. \A i, j \in 1..n : SetToSeq(S)[i] = SetToSeq(S)[j] => i = j
  BY <1>3, <1>7 DEF IsInjective
<1>9. \A x \in S : \E i \in 1..n : SetToSeq(S)[i] = x
  BY <1>6 DEF Surjection
<1> QED BY <1>1, <1>3, <1>7, <1>8, <1>9 DEF n

\* If no element of T stands for more than m of S, S is at most m times as large.
LEMMA Fibres ==
    ASSUME NEW S, IsFiniteSet(S), NEW T, IsFiniteSet(T), NEW f \in [S -> T], NEW m \in Nat,
           \A t \in T : Cardinality({s \in S : f[s] = t}) <= m
    PROVE  Cardinality(S) <= Cardinality(T) * m
<1> DEFINE In(U) == {s \in S : f[s] \in U}
           Wrong == {n \in Nat : \E U \in SUBSET T : Cardinality(U) = n /\ ~(Cardinality(In(U)) <= n * m)}
<1>1. S = In(T)
  OBVIOUS
<1>2. SUFFICES ASSUME Wrong # {} PROVE FALSE
  <2>1. Cardinality(T) \in Nat
    BY FS_CardinalityType
  <2> QED BY <1>1, <2>1
<1>3. PICK n \in Wrong : \A k \in Wrong : n <= k
  <2>1. Wrong \in SUBSET Nat
    OBVIOUS
  <2> HIDE DEF Wrong
  <2> QED BY <1>2, <2>1, LeastExists
<1>4. PICK U \in SUBSET T : Cardinality(U) = n /\ ~(Cardinality(In(U)) <= n * m)
  OBVIOUS
<1>5. n \in Nat
  OBVIOUS
<1>6. IsFiniteSet(U) /\ \A V \in SUBSET T : IsFiniteSet(In(V)) /\ Cardinality(In(V)) \in Nat
  <2>1. \A V : In(V) \subseteq S
    OBVIOUS
  <2> HIDE DEF In
  <2> QED BY <2>1, FS_Subset, FS_CardinalityType
<1>7. U # {}
  <2>1. SUFFICES ASSUME U = {} PROVE FALSE
    OBVIOUS
  <2>2. In(U) = {} /\ n = 0
    BY <1>4, <2>1, FS_EmptySet
  <2>3. Cardinality(In(U)) = 0
    BY <2>2, FS_EmptySet
  <2> QED BY <1>4, <2>2, <2>3
<1>8. PICK u : u \in U
  BY <1>7
<1> DEFINE V == U \ {u}
<1>9. Cardinality(V) = n - 1 /\ n - 1 \in Nat
  <2>1. IsFiniteSet(V) /\ Cardinality(V) = Cardinality(U) - 1
    BY <1>6, <1>8, FS_RemoveElement
  <2>2. Cardinality(V) \in Nat
    BY <2>1, FS_CardinalityType
  <2> QED BY <1>4, <2>1, <2>2
<1>10. Cardinality(In(V)) <= (n - 1) * m
  <2>1. n - 1 \notin Wrong
    <3>1. ~(n <= n - 1)
      BY <1>5
    <3> HIDE DEF Wrong
    <3> QED BY <1>3, <3>1
  <2> QED BY <1>9, <2>1
<1>11. In(U) = In(V) \cup In({u}) /\ In(V) \cap In({u}) = {}
  BY <1>8
<1>12. Cardinality(In({u})) <= m
  <2>1. In({u}) = {s \in S : f[s] = u}
    OBVIOUS
  <2> QED BY <1>8, <2>1
<1> HIDE DEF In, V, Wrong
<1>13. Cardinality(In(U)) = Cardinality(In(V)) + Cardinality(In({u}))
  <2>1. IsFiniteSet(In(V)) /\ IsFiniteSet(In({u})) /\ Cardinality(In(V)) \in Nat
        /\ Cardinality(In({u})) \in Nat
    BY <1>6, <1>8 DEF V
  <2>2. Cardinality(In(V) \cap In({u})) = 0
    BY <1>11, FS_EmptySet
  <2>3. Cardinality(In(V) \cup In({u})) =
           Cardinality(In(V)) + Cardinality(In({u})) - Cardinality(In(V) \cap In({u}))
    BY <2>1, FS_Union
  <2> QED BY <1>11, <2>1, <2>2, <2>3
<1>14. Cardinality(In(V)) \in Nat /\ Cardinality(In({u})) \in Nat
  BY <1>6, <1>8 DEF V
<1>15. (n - 1) * m + m = n * m
  BY <1>5
<1>16. (n - 1) * m \in Nat /\ n * m \in Nat
  BY <1>5, <1>9
<1> QED BY <1>4, <1>10, <1>12, <1>13, <1>14, <1>15, <1>16

Growing(h, m) == \A i, j \in 1..m : i < j => h[i] < h[j]
Onto(h, m, n) == \A p \in 1..n : \E j \in 1..m : h[j] = p

\* What grows from each of the first numbers to the next and misses none stays.
LEMMA GrowingOntoStays ==
    ASSUME NEW m \in Nat, NEW n \in Nat, NEW h \in [1..m -> 1..n],
           Growing(h, m), Onto(h, m, n)
    PROVE  m = n /\ \A j \in 1..m : h[j] = j
<1> DEFINE Wrong == {j \in 1..m : h[j] # j}
<1>1. Wrong = {}
  <2>1. SUFFICES ASSUME Wrong # {} PROVE FALSE
    OBVIOUS
  <2>2. PICK j \in Wrong : \A k \in Wrong : j <= k
    <3>1. Wrong \in SUBSET Nat
      OBVIOUS
    <3> HIDE DEF Wrong
    <3> QED BY <2>1, <3>1, LeastExists
  <2>3. j \in 1..m /\ j \in Nat /\ h[j] # j /\ h[j] \in 1..n /\ h[j] \in Nat
    OBVIOUS
  <2>4. \A l \in 1..m : l < j => h[l] = l
    <3>1. \A l \in 1..m : l < j => ~(j <= l)
      BY <2>3
    <3>2. \A l \in 1..m : l < j => l \notin Wrong
      <4> HIDE DEF Wrong
      <4> QED BY <2>2, <3>1
    <3> QED BY <3>2
  <2> HIDE DEF Wrong
  <2>5. h[j] > j
    <3>1. CASE j = 1
      BY <2>3, <3>1
    <3>2. CASE j # 1
      <4>1. j - 1 \in 1..m /\ j - 1 < j
        BY <2>3, <3>2
      <4>2. h[j - 1] = j - 1 /\ h[j - 1] < h[j]
        BY <2>3, <2>4, <4>1 DEF Growing
      <4> QED BY <2>3, <4>2
    <3> QED BY <3>1, <3>2
  <2>6. j \in 1..n
    BY <2>3, <2>5
  <2>7. PICK l \in 1..m : h[l] = j
    BY <2>6 DEF Onto
  <2>8. CASE l < j
    BY <2>3, <2>4, <2>7, <2>8
  <2>9. CASE l = j
    BY <2>3, <2>7, <2>9
  <2>10. CASE j < l
    <3>1. h[j] < h[l]
      BY <2>3, <2>10 DEF Growing
    <3> QED BY <2>3, <2>5, <2>7, <3>1
  <2> QED BY <2>3, <2>8, <2>9, <2>10
<1>2. \A j \in 1..m : h[j] = j
  BY <1>1
<1>3. m <= n
  <2>1. m = 0 \/ m \in 1..m
    OBVIOUS
  <2>2. m \in 1..m => m \in 1..n
    BY <1>2
  <2> QED BY <2>1, <2>2
<1>4. n <= m
  <2>1. n = 0 \/ n \in 1..n
    OBVIOUS
  <2>2. n \in 1..n => n \in 1..m
    BY <1>2 DEF Onto
  <2> QED BY <2>1, <2>2
<1> QED BY <1>2, <1>3, <1>4

-----------------------------------------------------------------------------
(* Reading within a budget                                                 *)

\* A LIMIT of one more than the budget cuts nothing that is within the budget.
LEMMA WithinBudget ==
    ASSUME NEW S, NEW s \in Seq(S), NEW b \in Nat
    PROVE  /\ ReadUpTo(b, s) \in Seq(S)
           /\ Len(ReadUpTo(b, s)) = IF Len(s) <= b + 1 THEN Len(s) ELSE b + 1
           /\ \A i \in 1..Len(ReadUpTo(b, s)) : i \in 1..Len(s) /\ ReadUpTo(b, s)[i] = s[i]
           /\ Len(ReadUpTo(b, s)) <= b => ReadUpTo(b, s) = s
<1>1. Len(s) \in Nat
  BY LenProperties
<1>2. CASE Len(s) <= b + 1
  BY <1>1, <1>2 DEF ReadUpTo, AtMost
<1>3. CASE ~(Len(s) <= b + 1)
  <2>1. ReadUpTo(b, s) = SubSeq(s, 1, b + 1)
    BY <1>3 DEF ReadUpTo, AtMost
  <2>2. \A i \in 1..b + 1 : i \in 1..Len(s) /\ s[i] \in S
    BY <1>1, <1>3, ElementOfSeq
  <2>3. /\ SubSeq(s, 1, b + 1) \in Seq(S)
        /\ Len(SubSeq(s, 1, b + 1)) = b + 1
        /\ \A i \in 1..b + 1 : SubSeq(s, 1, b + 1)[i] = s[i]
    BY <2>2, SubSeqProperties
  <2> QED BY <1>3, <2>1, <2>2, <2>3
<1> QED BY <1>2, <1>3

\* The rows about a table.
About(rows, t) == {i \in 1..Len(rows) : rows[i].table = t}

\* Each row about a table has a place among its columns, in the rows' order.
LEMMA FieldsPicked ==
    ASSUME NEW R, NEW rows \in Seq(R), NEW t
    PROVE  /\ FieldsIn(rows, t) \in Seq(ToSet(FieldsIn(rows, t)))
           /\ \E place \in Bijection(About(rows, t), 1..Len(FieldsIn(rows, t))) :
                 /\ \A i \in About(rows, t) : FieldsIn(rows, t)[place[i]] = rows[i].column
                 /\ \A i, k \in About(rows, t) : i < k => place[i] < place[k]
<1> DEFINE n     == Len(rows)
           picks == [i \in DOMAIN rows |->
                        IF rows[i].table = t THEN <<rows[i].column>> ELSE <<>>]
           Mine  == About(rows, t)
<1>1. n \in Nat /\ DOMAIN rows = 1..n
  BY LenProperties
<1>2. FieldsIn(rows, t) = FlattenSeq(picks)
  BY DEF FieldsIn
<1>3. /\ \A i \in Mine : picks[i] = <<rows[i].column>> /\ DOMAIN picks[i] = {1} /\ i \in DOMAIN picks
      /\ \A i \in 1..n : i \notin Mine => picks[i] = <<>> /\ DOMAIN picks[i] = {}
      /\ Mine \subseteq 1..n
  BY <1>1 DEF About
<1>4. picks = [i \in 1..n |-> picks[i]]
  BY <1>1
<1> HIDE DEF picks
<1>5. \A i \in 1..n : picks[i] \in Seq(ToSet(picks[i]))
  <2> SUFFICES ASSUME NEW i \in 1..n PROVE picks[i] \in Seq(ToSet(picks[i]))
    OBVIOUS
  <2>1. CASE i \in Mine
    <3>1. picks[i] = [k \in 1..1 |-> picks[i][k]]
      BY <1>3, <2>1
    <3> QED BY <3>1, IsSequence
  <2>2. CASE i \notin Mine
    BY <1>3, <2>2, EmptySeq
  <2> QED BY <2>1, <2>2
<1>6. picks \in Seq(Seq(Elements(picks))) /\ DOMAIN picks = 1..n
  BY <1>1, <1>4, <1>5, AreSequences
<1> DEFINE flat == FlattenSeq(picks)
<1>7. PICK at : Lays(at, picks)
  BY <1>6, FlattenedPlaces
<1>8. flat \in Seq(Elements(picks)) /\ Len(flat) \in Nat
  BY <1>6, FlattenedType, LenProperties
<1>9. flat \in Seq(ToSet(flat))
  <2>1. flat = [i \in 1..Len(flat) |-> flat[i]]
    BY <1>8, LenProperties
  <2> QED BY <1>8, <2>1, IsSequence
<1> DEFINE b == [i \in Mine |-> at[i][1]]
<1>10. b \in Bijection(Mine, 1..Len(flat))
  <2>1. \A i \in Mine : at[i][1] \in 1..Len(flat)
    BY <1>3, <1>7 DEF Lays
  <2>2. \A i, k \in Mine : at[i][1] = at[k][1] => i = k
    BY <1>3, <1>7 DEF Lays
  <2>3. \A p \in 1..Len(flat) : \E i \in Mine : at[i][1] = p
    <3> SUFFICES ASSUME NEW p \in 1..Len(flat) PROVE \E i \in Mine : at[i][1] = p
      OBVIOUS
    <3>1. PICK i \in DOMAIN picks : \E j \in DOMAIN picks[i] : at[i][j] = p
      BY <1>7 DEF Lays
    <3>2. i \in Mine
      BY <1>3, <1>6, <3>1
    <3> QED BY <1>3, <3>1, <3>2
  <2> HIDE DEF Mine
  <2>4. b \in [Mine -> 1..Len(flat)]
    BY <2>1
  <2> QED BY <2>2, <2>3, <2>4 DEF Bijection, Injection, Surjection, IsInjective
<1>11. /\ \A i \in Mine : flat[at[i][1]] = rows[i].column
       /\ \A i, k \in Mine : i < k => at[i][1] < at[k][1]
  BY <1>3, <1>7 DEF Lays
<1>12. \A i \in Mine : b[i] = at[i][1]
  OBVIOUS
<1> HIDE DEF flat, b, Mine
<1>13. FieldsIn(rows, t) = flat
  BY <1>2 DEF flat
<1> QED BY <1>9, <1>10, <1>11, <1>12, <1>13 DEF Mine

LEMMA IntervalCounted ==
    ASSUME NEW n \in Nat
    PROVE  IsFiniteSet(1..n) /\ Cardinality(1..n) = n
BY FS_Interval

\* A table has as many columns among rows as rows are about it.
LEMMA FieldsCounted ==
    ASSUME NEW R, NEW rows \in Seq(R), NEW t
    PROVE  Len(FieldsIn(rows, t)) = Cardinality(About(rows, t))
<1> DEFINE Mine   == About(rows, t)
           fields == FieldsIn(rows, t)
<1>1. IsFiniteSet(Mine)
  <2>1. Len(rows) \in Nat
    BY LenProperties
  <2>2. IsFiniteSet(1..Len(rows)) /\ Mine \subseteq 1..Len(rows)
    BY <2>1, FS_Interval DEF About
  <2> QED BY <2>2, FS_Subset
<1>2. ExistsBijection(Mine, 1..Len(fields)) /\ Len(fields) \in Nat
  BY FieldsPicked, LenProperties DEF ExistsBijection
<1> HIDE DEF Mine, fields
<1>3. Cardinality(1..Len(fields)) = Cardinality(Mine)
  BY <1>1, <1>2, FS_Bijection
<1>4. Cardinality(1..Len(fields)) = Len(fields)
  BY <1>2, IntervalCounted
<1> QED BY <1>3, <1>4 DEF Mine, fields

\* Rows of a whole catalog name its tables and have all columns of each.
LEMMA CatalogGenuine ==
    ASSUME WellFormedDatabase(live)
    PROVE  /\ ColumnRows \in Seq(ToSet(ColumnRows))
           /\ \A p \in 1..Len(ColumnRows) : ColumnRows[p].table \in Tables(live)
           /\ \A t \in Tables(live) : FieldsIn(ColumnRows, t) = live.columns[t]
<1> DEFINE n      == Cardinality(Tables(live))
           order  == SetToSeq(Tables(live))
           Cols(i) == live.columns[order[i]]
           blocks == [i \in 1..n |->
                        [j \in DOMAIN Cols(i) |-> [table |-> order[i], column |-> Cols(i)[j]]]]
           rows   == FlattenSeq(blocks)
<1>1. /\ n \in Nat /\ order \in [1..n -> Tables(live)]
      /\ \A i, j \in 1..n : order[i] = order[j] => i = j
      /\ \A t \in Tables(live) : \E i \in 1..n : order[i] = t
  BY Enumerated DEF WellFormedDatabase
<1>2. ColumnRows = rows
  BY DEF ColumnRows
<1> HIDE DEF order, n
<1>3. \A i \in 1..n : order[i] \in Tables(live)
                    /\ Cols(i) \in Seq(ToSet(Cols(i))) /\ Len(Cols(i)) \in Nat /\ DOMAIN Cols(i) = 1..Len(Cols(i))
  BY <1>1, LenProperties DEF WellFormedDatabase
<1>4. /\ blocks = [i \in 1..n |-> blocks[i]]
      /\ \A i \in 1..n : /\ blocks[i] = [j \in 1..Len(Cols(i)) |-> blocks[i][j]]
                         /\ DOMAIN blocks[i] = 1..Len(Cols(i))
                         /\ \A j \in 1..Len(Cols(i)) :
                               /\ blocks[i][j].table = order[i]
                               /\ blocks[i][j].column = Cols(i)[j]
  BY <1>3
<1> HIDE DEF blocks
<1>5. \A i \in 1..n : blocks[i] \in Seq(ToSet(blocks[i]))
  BY <1>3, <1>4, IsSequence
<1>6. blocks \in Seq(Seq(Elements(blocks))) /\ DOMAIN blocks = 1..n
  BY <1>1, <1>4, <1>5, AreSequences
<1>7. PICK at : Lays(at, blocks)
  BY <1>6, FlattenedPlaces
<1>8. rows \in Seq(Elements(blocks)) /\ Len(rows) \in Nat /\ DOMAIN rows = 1..Len(rows)
  BY <1>6, FlattenedType, LenProperties
<1>9. rows \in Seq(ToSet(rows))
  <2>1. rows = [i \in 1..Len(rows) |-> rows[i]]
    BY <1>8, LenProperties
  <2> QED BY <1>8, <2>1, IsSequence
<1>10. \A p \in 1..Len(rows) : \E i \in 1..n : \E j \in 1..Len(Cols(i)) : at[i][j] = p
  <2>1. \A p \in 1..Len(rows) : \E i \in DOMAIN blocks : \E j \in DOMAIN blocks[i] : at[i][j] = p
    BY <1>7 DEF Lays
  <2> QED BY <1>4, <1>6, <2>1
<1>11. \A i \in 1..n : \A j \in 1..Len(Cols(i)) :
          at[i][j] \in 1..Len(rows) /\ rows[at[i][j]] = blocks[i][j]
  BY <1>4, <1>6, <1>7 DEF Lays
<1>12. \A i \in 1..n : \A j, l \in 1..Len(Cols(i)) : j < l => at[i][j] < at[i][l]
  BY <1>4, <1>6, <1>7 DEF Lays
<1> HIDE DEF rows
<1>13. ASSUME NEW p \in 1..Len(rows) PROVE rows[p].table \in Tables(live)
  <2>1. PICK i \in 1..n : \E j \in 1..Len(Cols(i)) : at[i][j] = p
    BY <1>10
  <2>2. PICK j \in 1..Len(Cols(i)) : at[i][j] = p
    BY <2>1
  <2>3. rows[p].table = order[i]
    BY <1>4, <1>11, <2>2
  <2> QED BY <1>3, <2>3
<1>14. ASSUME NEW t \in Tables(live) PROVE FieldsIn(rows, t) = live.columns[t]
  <2>1. PICK i \in 1..n : order[i] = t
    BY <1>1
  <2> DEFINE cols   == live.columns[t]
             m      == Len(cols)
             Mine   == About(rows, t)
             fields == FieldsIn(rows, t)
  <2>2. cols = Cols(i) /\ cols \in Seq(ToSet(cols)) /\ m \in Nat
    BY <1>3, <2>1
  <2>3. fields \in Seq(ToSet(fields)) /\ Len(fields) \in Nat
    BY <1>9, FieldsPicked, LenProperties
  <2>4. PICK place \in Bijection(Mine, 1..Len(fields)) :
           /\ \A p \in Mine : fields[place[p]] = rows[p].column
           /\ \A p, q \in Mine : p < q => place[p] < place[q]
    BY <1>9, FieldsPicked
  <2>5. /\ \A p \in Mine : place[p] \in 1..Len(fields)
        /\ \A q \in 1..Len(fields) : \E p \in Mine : place[p] = q
    BY DEF Bijection, Injection, Surjection
  <2>6. \A j \in 1..m : at[i][j] \in Mine /\ rows[at[i][j]].column = cols[j]
    BY <1>4, <1>11, <2>1, <2>2 DEF About
  <2>7. \A p \in Mine : \E j \in 1..m : at[i][j] = p
    <3> SUFFICES ASSUME NEW p \in Mine PROVE \E j \in 1..m : at[i][j] = p
      OBVIOUS
    <3>1. p \in 1..Len(rows) /\ rows[p].table = t
      BY DEF About
    <3>2. PICK k \in 1..n : \E j \in 1..Len(Cols(k)) : at[k][j] = p
      BY <1>10, <3>1
    <3>3. order[k] = t
      BY <1>4, <1>11, <3>1, <3>2
    <3>4. k = i
      BY <1>1, <2>1, <3>3
    <3> QED BY <2>2, <3>2, <3>4
  <2> DEFINE h == [j \in 1..m |-> place[at[i][j]]]
  <2> HIDE DEF Mine, fields, cols
  <2>8. h \in [1..m -> 1..Len(fields)]
    BY <2>5, <2>6
  <2>9. \A j, l \in 1..m : j < l => h[j] < h[l]
    BY <1>12, <2>2, <2>4, <2>6
  <2>10. \A q \in 1..Len(fields) : \E j \in 1..m : h[j] = q
    BY <2>5, <2>7
  <2>11. \A j \in 1..m : h[j] = place[at[i][j]]
    OBVIOUS
  <2> HIDE DEF h
  <2>12. m = Len(fields) /\ \A j \in 1..m : h[j] = j
    <3> DEFINE w == Len(fields)
    <3>1. m \in Nat /\ w \in Nat /\ h \in [1..m -> 1..w]
      BY <2>2, <2>3, <2>8
    <3>2. Growing(h, m) /\ Onto(h, m, w)
      BY <2>9, <2>10 DEF Growing, Onto
    <3> HIDE DEF m, w
    <3>3. m = w /\ \A j \in 1..m : h[j] = j
      BY <3>1, <3>2, GrowingOntoStays
    <3> QED BY <3>3 DEF w
  <2>13. \A j \in 1..m : fields[j] = cols[j]
    BY <2>4, <2>6, <2>11, <2>12
  <2>14. fields = cols
    <3>1. cols \in Seq(ToSet(cols) \cup ToSet(fields)) /\ fields \in Seq(ToSet(cols) \cup ToSet(fields))
      BY <2>2, <2>3, SeqMonotonic
    <3> QED BY <2>12, <2>13, <3>1, SeqEqual
  <2> QED BY <2>14 DEF fields, cols
<1> QED BY <1>2, <1>9, <1>13, <1>14

\* If neither the tables nor a table's columns are too many, no row was cut off,
\* and the columns of each table read are all of them: rows that fill the limit
\* are more than the tables allowed can have.
LEMMA CatalogUncut ==
    ASSUME WellFormedDatabase(live),
           ~(Cardinality(DOMAIN Grouped) > MaxSources),
           ~ \E t \in DOMAIN Grouped : Len(Grouped[t]) > MaxFields
    PROVE  /\ IsFiniteSet(DOMAIN Grouped) /\ DOMAIN Grouped \subseteq Tables(live)
           /\ \A t \in DOMAIN Grouped : Grouped[t] = live.columns[t]
           /\ \A t \in Tables(live) : live.columns[t] # <<>> => t \in DOMAIN Grouped
<1> DEFINE budget == MaxSources * MaxFields
           whole  == ColumnRows
           rows   == ReadUpTo(budget, whole)
           n      == Len(rows)
           Met    == {rows[i].table : i \in DOMAIN rows}
<1>1. MaxSources \in Nat /\ MaxFields \in Nat /\ budget \in Nat
  BY DiscoveryAssumption
<1>2. Grouped = [t \in Met |-> FieldsIn(rows, t)] /\ DOMAIN Grouped = Met
  BY DEF Grouped
<1>3. /\ whole \in Seq(ToSet(whole))
      /\ \A p \in 1..Len(whole) : whole[p].table \in Tables(live)
      /\ \A t \in Tables(live) : FieldsIn(whole, t) = live.columns[t]
  BY CatalogGenuine
<1> HIDE DEF whole, budget
<1>4. /\ rows \in Seq(ToSet(whole))
      /\ Len(rows) = IF Len(whole) <= budget + 1 THEN Len(whole) ELSE budget + 1
      /\ \A i \in 1..Len(rows) : i \in 1..Len(whole) /\ rows[i] = whole[i]
      /\ Len(rows) <= budget => rows = whole
  BY <1>1, <1>3, WithinBudget
<1> HIDE DEF rows
<1>5. n \in Nat /\ DOMAIN rows = 1..n /\ IsFiniteSet(1..n) /\ Cardinality(1..n) = n
  BY <1>4, LenProperties, IntervalCounted
<1>6. Met \subseteq Tables(live) /\ IsFiniteSet(Met)
  <2>1. Met \subseteq Tables(live)
    BY <1>3, <1>4, <1>5
  <2> HIDE DEF Met
  <2> QED BY <2>1, FS_Subset DEF WellFormedDatabase
<1>7. \A t \in Met : Cardinality(About(rows, t)) <= MaxFields
  <2> SUFFICES ASSUME NEW t \in Met PROVE Cardinality(About(rows, t)) <= MaxFields
    OBVIOUS
  <2>1. Len(FieldsIn(rows, t)) <= MaxFields
    <3>1. t \in DOMAIN Grouped /\ Grouped[t] = FieldsIn(rows, t)
      BY <1>2
    <3>2. Len(FieldsIn(rows, t)) \in Nat
      BY <1>4, FieldsPicked, LenProperties
    <3> QED BY <1>1, <3>1, <3>2
  <2> QED BY <1>4, <2>1, FieldsCounted
<1>8. n <= Cardinality(Met) * MaxFields
  <2> DEFINE f == [i \in 1..n |-> rows[i].table]
  <2>1. f \in [1..n -> Met]
    BY <1>5
  <2>2. \A t \in Met : {i \in 1..n : f[i] = t} = About(rows, t)
    BY DEF About
  <2>3. \A t \in Met : Cardinality({i \in 1..n : f[i] = t}) <= MaxFields
    BY <1>7, <2>2
  <2> HIDE DEF f, Met, n
  <2>4. Cardinality(1..n) <= Cardinality(Met) * MaxFields
    BY <1>1, <1>5, <1>6, <2>1, <2>3, Fibres
  <2> QED BY <1>5, <2>4
<1>9. n <= budget
  <2>1. Cardinality(Met) \in Nat /\ Cardinality(Met) <= MaxSources
    BY <1>1, <1>2, <1>6, FS_CardinalityType
  <2>2. \A c \in Nat : c <= MaxSources => c * MaxFields <= MaxSources * MaxFields
    BY <1>1
  <2> HIDE DEF Met, n
  <2>3. Cardinality(Met) * MaxFields <= budget /\ Cardinality(Met) * MaxFields \in Nat
    BY <1>1, <2>1, <2>2 DEF budget
  <2> QED BY <1>1, <1>5, <1>8, <2>3
<1>10. rows = whole
  BY <1>4, <1>9
<1>11. \A t \in DOMAIN Grouped : Grouped[t] = live.columns[t]
  BY <1>2, <1>3, <1>6, <1>10
<1>12. ASSUME NEW t \in Tables(live), live.columns[t] # <<>> PROVE t \in Met
  <2>1. FieldsIn(rows, t) # <<>> /\ FieldsIn(rows, t) \in Seq(ToSet(FieldsIn(rows, t)))
    BY <1>3, <1>4, <1>10, <1>12, FieldsPicked
  <2>2. Len(FieldsIn(rows, t)) # 0
    BY <2>1, EmptySeq
  <2>3. Cardinality(About(rows, t)) # 0
    BY <1>4, <2>2, FieldsCounted
  <2>4. About(rows, t) # {}
    BY <2>3, FS_EmptySet
  <2> QED BY <1>5, <2>4 DEF About
<1> QED BY <1>2, <1>6, <1>11, <1>12

\* The largest of some of the first numbers.
LEMMA LargestThere ==
    ASSUME NEW n \in Nat, NEW S \in SUBSET (1..n), S # {}
    PROVE  Max(S) \in S
<1> DEFINE Below == {n - x : x \in S}
<1>1. Below \in SUBSET Nat /\ Below # {}
  <2>1. \A x \in S : x \in 1..n /\ n - x \in Nat
    OBVIOUS
  <2>2. PICK x : x \in S
    OBVIOUS
  <2>3. n - x \in Below
    BY <2>2
  <2> QED BY <2>1, <2>3
<1>2. PICK y \in Below : \A z \in Below : y <= z
  <2> HIDE DEF Below
  <2> QED BY <1>1, LeastExists
<1>3. PICK x \in S : y = n - x
  OBVIOUS
<1>4. \A z \in S : x >= z
  <2> SUFFICES ASSUME NEW z \in S PROVE x >= z
    OBVIOUS
  <2>1. n - x <= n - z
    BY <1>2, <1>3
  <2>2. x \in Nat /\ z \in Nat
    OBVIOUS
  <2> QED BY <2>1, <2>2
<1> QED BY <1>4 DEF Max

-----------------------------------------------------------------------------
(* Genuine sources                                                         *)

\* The databases of a call are of the backend's kind.
WorldInv == /\ backend \in Backends
            /\ live \in past
            /\ past \subseteq Databases[backend]

Made(source) ==
    /\ \E db \in past : source.name \in Tables(db)
    /\ \E db \in past : Columns(db, source.name) = source.fields

\* Tables were listed from the database, and there is one to read the columns of;
\* sources and time columns are the database's at some moment.
GenuineInv ==
    /\ WorldInv
    /\ pc \in {"tables", "columns"} => backend # "redis"
    /\ pc = "fields" => backend = "jira"
    /\ backend # "redis" => /\ Len(names) \in Nat
                            /\ \A i \in 1..Len(names) : \E db \in past : names[i] \in Tables(db)
    /\ pc = "tables" => sources = <<>>
    /\ pc = "columns" => Len(sources) < Len(names)
    /\ sources \in Seq(ToSet(sources))
    /\ \A i \in 1..Len(sources) : Made(sources[i])
    /\ \A t \in DOMAIN times : \E db \in past : <<t, times[t]>> \in ToSet(db.times)

LEMMA Shapes ==
    ASSUME WorldInv, NEW db \in past
    PROVE  WellFormedDatabase(db)
BY DiscoveryAssumption DEF WorldInv

LEMMA ColumnsType ==
    ASSUME NEW db, WellFormedDatabase(db), NEW t
    PROVE  Columns(db, t) \in Seq(ToSet(Columns(db, t)))
<1>1. <<>> \in Seq(ToSet(<<>>))
  BY EmptySeq
<1> QED BY <1>1 DEF Columns, WellFormedDatabase

\* Fields within the budget are all the columns there are.
LEMMA FieldsWhole ==
    ASSUME WorldInv, NEW t, ~(Len(Fields(t)) > MaxFields)
    PROVE  Fields(t) = Columns(live, t)
<1>1. Columns(live, t) \in Seq(ToSet(Columns(live, t)))
  BY Shapes, ColumnsType DEF WorldInv
<1>2. MaxFields \in Nat
  BY DiscoveryAssumption
<1> DEFINE whole == Columns(live, t)
           read  == ReadUpTo(MaxFields, whole)
<1> HIDE DEF whole
<1>3. read \in Seq(ToSet(whole)) /\ (Len(read) <= MaxFields => read = whole)
  BY <1>1, <1>2, WithinBudget DEF whole
<1>4. Len(read) \in Nat
  BY <1>3, LenProperties
<1>5. Fields(t) = read
  BY DEF Fields, whole
<1> HIDE DEF read
<1> QED BY <1>2, <1>3, <1>4, <1>5 DEF whole

\* A source more.
LEMMA SourceAppended ==
    ASSUME sources \in Seq(ToSet(sources)), NEW s, sources' = Append(sources, s)
    PROVE  /\ sources' \in Seq(ToSet(sources'))
           /\ Len(sources) \in Nat /\ Len(sources') = Len(sources) + 1
           /\ \A i \in 1..Len(sources) : sources'[i] = sources[i]
           /\ sources'[Len(sources) + 1] = s
<1> DEFINE T == ToSet(sources) \cup {s}
<1>1. sources \in Seq(T) /\ s \in T
  BY SeqMonotonic
<1>2. Len(sources) \in Nat
  BY LenProperties
<1>3. /\ sources' \in Seq(T) /\ Len(sources') = Len(sources) + 1
      /\ \A i \in 1..Len(sources) : sources'[i] = sources[i]
      /\ sources'[Len(sources) + 1] = s
  BY <1>1, AppendProperties
<1>4. sources' = [i \in 1..Len(sources') |-> sources'[i]] /\ Len(sources') \in Nat
  BY <1>3, LenProperties
<1>5. sources' \in Seq(ToSet(sources'))
  BY <1>4, IsSequence
<1> QED BY <1>2, <1>3, <1>5

\* What was said of the past stays said when it grows.
LEMMA GenuineStutter ==
    ASSUME GenuineInv, UNCHANGED discoveryVars
    PROVE  GenuineInv'
BY DEF GenuineInv, WorldInv, Made, discoveryVars, world, found

LEMMA GenuineInit ==
    ASSUME InitDiscovery
    PROVE  GenuineInv
<1>1. WorldInv
  BY DEF InitDiscovery, WorldInv
<1>2. sources \in Seq(ToSet(sources)) /\ Len(sources) = 0 /\ DOMAIN times = {}
  BY EmptySeq DEF InitDiscovery
<1>3. backend # "redis" => names = <<>> /\ Len(names) = 0
  BY EmptySeq DEF InitDiscovery
<1>4. /\ pc # "columns" /\ sources = <<>> /\ (pc = "tables" => backend # "redis")
      /\ pc = "fields" => backend = "jira"
  BY DEF InitDiscovery
<1> QED BY <1>1, <1>2, <1>3, <1>4 DEF GenuineInv

\* A step that leaves the world, the names and the time columns alone and ends or
\* goes on with the sources there are.
LEMMA GenuineUnread ==
    ASSUME GenuineInv, UNCHANGED <<world, names, sources, times>>, pc' \notin {"tables", "columns", "fields"}
    PROVE  GenuineInv'
BY DEF GenuineInv, WorldInv, Made, world

LEMMA GenuineChanges ==
    ASSUME GenuineInv, DatabaseChanges
    PROVE  GenuineInv'
<1>1. /\ past \subseteq past' /\ past' = past \cup {live'} /\ live' \in Databases[backend]
      /\ UNCHANGED <<backend, names, sources, edges, times, pc, outcome>>
  BY DEF DatabaseChanges, found
<1>2. WorldInv'
  BY <1>1 DEF GenuineInv, WorldInv
<1>3. \A i \in 1..Len(sources) : Made(sources[i])'
  BY <1>1 DEF GenuineInv, Made
<1> QED BY <1>1, <1>2, <1>3 DEF GenuineInv

LEMMA GenuineListed ==
    ASSUME GenuineInv, ListTables
    PROVE  GenuineInv'
<1> DEFINE tables == SetToSeq(Tables(live))
<1>1. UNCHANGED <<world, sources, edges, times>> /\ names' = ReadUpTo(MaxSources, tables)
      /\ backend # "redis"
  BY DEF ListTables, GenuineInv
<1>2. WorldInv /\ WorldInv' /\ live \in past /\ past' = past /\ backend' = backend
  BY <1>1 DEF GenuineInv, WorldInv, world
<1>3. tables \in Seq(Tables(live))
  <2>1. IsFiniteSet(Tables(live))
    BY <1>2, Shapes DEF WellFormedDatabase
  <2>2. \E n \in Nat : tables \in [1..n -> Tables(live)]
    BY <2>1, Enumerated
  <2> HIDE DEF tables
  <2> QED BY <2>2, SeqDef
<1> HIDE DEF tables
<1>4. MaxSources \in Nat
  BY DiscoveryAssumption
<1>5. names' \in Seq(Tables(live)) /\ Len(names') \in Nat
  <2>1. ReadUpTo(MaxSources, tables) \in Seq(Tables(live))
    BY <1>3, <1>4, WithinBudget
  <2> QED BY <1>1, <2>1, LenProperties
<1>6. \A i \in 1..Len(names') : names'[i] \in Tables(live)
  BY <1>5, ElementOfSeq
<1>7. pc' = "columns" => Len(sources') < Len(names')
  <2>1. SUFFICES ASSUME pc' = "columns" PROVE Len(sources') < Len(names')
    OBVIOUS
  <2>2. names' # <<>> /\ sources' = <<>>
    BY <1>1, <2>1 DEF ListTables, End, GenuineInv
  <2>3. Len(names') # 0
    BY <1>5, <2>2, EmptySeq
  <2> QED BY <1>5, <2>2, <2>3, EmptySeq
<1>8. pc' \notin {"tables", "fields"}
  BY DEF ListTables, End
<1>9. \A i \in 1..Len(sources) : Made(sources[i])'
  BY <1>1, <1>2 DEF GenuineInv, Made
<1> QED BY <1>1, <1>2, <1>6, <1>7, <1>8, <1>9 DEF GenuineInv

\* A source whose fields are the columns of a table now, listed at some time.
LEMMA GenuineAppended ==
    ASSUME GenuineInv, NEW t, \E db \in past : t \in Tables(db),
           sources' = Append(sources, [name |-> t, fields |-> Columns(live, t)]),
           UNCHANGED <<world, names, times>>,
           pc' \notin {"tables", "fields"}, pc' = "columns" => Len(sources') < Len(names) /\ backend # "redis"
    PROVE  GenuineInv'
<1>1. /\ sources' \in Seq(ToSet(sources'))
      /\ Len(sources) \in Nat /\ Len(sources') = Len(sources) + 1
      /\ \A i \in 1..Len(sources) : sources'[i] = sources[i]
      /\ sources'[Len(sources) + 1] = [name |-> t, fields |-> Columns(live, t)]
  BY SourceAppended DEF GenuineInv
<1>2. WorldInv' /\ live \in past /\ past' = past /\ backend' = backend /\ names' = names /\ times' = times
  BY DEF GenuineInv, WorldInv, world
<1>3. ASSUME NEW i \in 1..Len(sources') PROVE Made(sources[i])'
  <2>1. CASE i = Len(sources) + 1
    BY <1>1, <1>2, <2>1 DEF Made
  <2>2. CASE i # Len(sources) + 1
    <3>1. i \in 1..Len(sources)
      BY <1>1, <2>2
    <3>2. Made(sources[i])
      BY <3>1 DEF GenuineInv
    <3> QED BY <1>1, <1>2, <3>1, <3>2 DEF Made
  <2> QED BY <2>1, <2>2
<1>4. \A u \in DOMAIN times : \E db \in past : <<u, times[u]>> \in ToSet(db.times)
  BY DEF GenuineInv
<1>5. backend # "redis" => /\ Len(names) \in Nat
                            /\ \A i \in 1..Len(names) : \E db \in past : names[i] \in Tables(db)
  BY DEF GenuineInv
<1> QED BY <1>1, <1>2, <1>3, <1>4, <1>5 DEF GenuineInv

LEMMA GenuineColumns ==
    ASSUME GenuineInv, ReadColumns
    PROVE  GenuineInv'
<1> DEFINE t == names[Len(sources) + 1]
<1>1. UNCHANGED <<world, names, edges, times>> /\ pc = "columns"
  BY DEF ReadColumns
<1>2. CASE Len(Fields(t)) > MaxFields
  <2>1. UNCHANGED sources /\ pc' = "over"
    BY <1>2 DEF ReadColumns, End
  <2> QED BY <1>1, <2>1, GenuineUnread
<1>3. CASE ~(Len(Fields(t)) > MaxFields)
  <2>1. /\ sources' = Append(sources, [name |-> t, fields |-> Fields(t)])
        /\ pc' = IF backend = "sqlite" THEN "keys" ELSE AfterColumns(sources')
    BY <1>3 DEF ReadColumns
  <2>2. \E db \in past : t \in Tables(db)
    <3>1. Len(sources) \in Nat
      BY LenProperties DEF GenuineInv
    <3>2. Len(names) \in Nat /\ Len(sources) < Len(names)
      BY <1>1 DEF GenuineInv
    <3>3. Len(sources) + 1 \in 1..Len(names)
      BY <3>1, <3>2
    <3> QED BY <1>1, <3>3 DEF GenuineInv
  <2>3. Fields(t) = Columns(live, t)
    BY <1>3, FieldsWhole DEF GenuineInv
  <2>4. pc' \notin {"tables", "fields"} /\ (pc' = "columns" => Len(sources') < Len(names) /\ backend # "redis")
    BY <1>1, <2>1 DEF AfterColumns, GenuineInv
  <2> HIDE DEF t
  <2> QED BY <1>1, <2>1, <2>2, <2>3, <2>4, GenuineAppended
<1> QED BY <1>2, <1>3

LEMMA GenuineFields ==
    ASSUME GenuineInv, WholePages, ReadFields
    PROVE  GenuineInv'
<1>1. UNCHANGED <<world, names, edges, times>> /\ pc' \in {"over", "assembling"}
  BY DEF ReadFields, End
<1>2. PICK t \in Tables(live) :
         IF Len(live.columns[t]) > MaxFields THEN End("refused") /\ UNCHANGED sources
         ELSE sources' = <<[name |-> t, fields |-> AtMost(PageSize, live.columns[t])]>>
  BY DEF ReadFields
<1>3. CASE Len(live.columns[t]) > MaxFields
  BY <1>1, <1>2, <1>3, GenuineUnread
<1>4. CASE ~(Len(live.columns[t]) > MaxFields)
  <2> DEFINE s == [name |-> t, fields |-> AtMost(PageSize, live.columns[t])]
  <2>1. WorldInv /\ WorldInv' /\ live \in past /\ past' = past /\ backend' = backend
    BY <1>1 DEF GenuineInv, WorldInv, world
  <2>2. AtMost(PageSize, live.columns[t]) = Columns(live, t)
    <3>1. backend = "jira" /\ MaxFields <= PageSize
      BY <2>1 DEF WholePages, WorldInv, GenuineInv, ReadFields
    <3>2. Len(live.columns[t]) \in Nat /\ MaxFields \in Nat /\ PageSize \in Nat
      BY <2>1, Shapes, DiscoveryAssumption, LenProperties DEF WellFormedDatabase
    <3> QED BY <1>4, <3>1, <3>2 DEF AtMost, Columns
  <2>3. sources' = <<s>>
    BY <1>2, <1>4
  <2>4. sources' \in Seq(ToSet(sources')) /\ Len(sources') = 1 /\ sources'[1] = s
    <3>1. sources' = [i \in 1..1 |-> sources'[i]]
      BY <2>3
    <3> QED BY <2>3, <3>1, IsSequence
  <2>5. Made(sources[1])'
    BY <2>1, <2>2, <2>4 DEF Made
  <2>6. \A i \in 1..Len(sources') : Made(sources[i])'
    BY <2>4, <2>5
  <2> HIDE DEF s
  <2> QED BY <1>1, <2>1, <2>4, <2>6 DEF GenuineInv
<1> QED BY <1>3, <1>4

\* Several sources, each a table of now with its columns.
LEMMA GenuineGrouped ==
    ASSUME GenuineInv, ReadCatalog
    PROVE  GenuineInv'
<1> DEFINE catalog == Grouped
           order   == SetToSeq(DOMAIN catalog)
           TooMuch == \/ Cardinality(DOMAIN catalog) > MaxSources
                      \/ \E t \in DOMAIN catalog : Len(catalog[t]) > MaxFields
<1>1. UNCHANGED <<world, names, edges, times>>
  BY DEF ReadCatalog
<1>2. IF TooMuch THEN End("refused") /\ UNCHANGED sources
      ELSE /\ sources' = [i \in DOMAIN order |-> [name |-> order[i], fields |-> catalog[order[i]]]]
           /\ pc' = "assembling"
  BY DEF ReadCatalog
<1>3. CASE TooMuch
  BY <1>1, <1>2, <1>3, GenuineUnread DEF End
<1>4. CASE ~TooMuch
  <2>1. WorldInv /\ WorldInv' /\ live \in past /\ past' = past /\ backend' = backend
    BY <1>1 DEF GenuineInv, WorldInv, world
  <2>2. /\ IsFiniteSet(DOMAIN catalog) /\ DOMAIN catalog \subseteq Tables(live)
        /\ \A t \in DOMAIN catalog : catalog[t] = live.columns[t]
    BY <1>4, <2>1, Shapes, CatalogUncut
  <2>3. PICK n \in Nat : order \in [1..n -> DOMAIN catalog] /\ DOMAIN order = 1..n
    BY <2>2, Enumerated
  <2> HIDE DEF order, catalog
  <2>4. /\ sources' = [i \in 1..n |-> [name |-> order[i], fields |-> catalog[order[i]]]]
        /\ pc' = "assembling"
    BY <1>2, <1>4, <2>3
  <2>5. /\ \A i \in 1..n : sources'[i] = [name |-> order[i], fields |-> catalog[order[i]]]
        /\ sources' = [i \in 1..n |-> sources'[i]]
    BY <2>4
  <2>6. sources' \in Seq(ToSet(sources')) /\ Len(sources') = n
    BY <2>5, IsSequence
  <2>7. ASSUME NEW i \in 1..n PROVE Made(sources[i])'
    <3>1. order[i] \in Tables(live) /\ catalog[order[i]] = Columns(live, order[i])
      BY <2>2, <2>3 DEF Columns
    <3>2. sources'[i].name = order[i] /\ sources'[i].fields = catalog[order[i]]
      BY <2>5
    <3> QED BY <2>1, <3>1, <3>2 DEF Made
  <2> QED BY <1>1, <2>1, <2>4, <2>6, <2>7 DEF GenuineInv
<1> QED BY <1>3, <1>4

LEMMA GenuineType ==
    ASSUME GenuineInv, ReadType
    PROVE  GenuineInv'
<1> DEFINE k    == names[Len(sources) + 1]
           here == Columns(live, k.name)
<1>1. UNCHANGED <<world, names, edges, times>> /\ pc = "types"
  BY DEF ReadType
<1>2. CASE pc' = "over" /\ UNCHANGED sources
  BY <1>1, <1>2, GenuineUnread
<1>3. CASE /\ here = <<k.type>> /\ pc' \notin {"tables", "columns", "fields"}
           /\ sources' = Append(sources, [name |-> k.name, fields |-> here])
  <2>1. k.name \in Tables(live) /\ live \in past
    BY <1>3 DEF Columns, GenuineInv, WorldInv
  <2> HIDE DEF k
  <2> QED BY <1>1, <1>3, <2>1, GenuineAppended
<1> QED BY <1>2, <1>3 DEF ReadType, End

LEMMA GenuineTimes ==
    ASSUME GenuineInv, ReadTimes
    PROVE  GenuineInv'
<1> DEFINE rows  == ReadUpTo(MaxSources, live.times)
           Of(t) == {i \in DOMAIN rows : rows[i][1] = t}
           Timed == {s \in {sources[i].name : i \in DOMAIN sources} : Of(s) # {}}
<1>1. /\ UNCHANGED <<world, names, sources, edges>> /\ pc' = "over"
      /\ times' = [t \in Timed |-> rows[Max(Of(t))][2]]
  BY DEF ReadTimes, End
<1>2. WorldInv /\ WorldInv' /\ live \in past /\ past' = past /\ backend' = backend
  BY <1>1 DEF GenuineInv, WorldInv, world
<1>3. /\ live.times \in Seq(ToSet(live.times))
      /\ \A time \in ToSet(live.times) : time = <<time[1], time[2]>>
  BY <1>2, Shapes DEF WellFormedDatabase
<1>4. rows \in Seq(ToSet(live.times)) /\ Len(rows) \in Nat /\ DOMAIN rows = 1..Len(rows)
  BY <1>3, DiscoveryAssumption, WithinBudget, LenProperties
<1> HIDE DEF rows
<1>5. ASSUME NEW t \in Timed PROVE <<t, times'[t]>> \in ToSet(live.times)
  <2> DEFINE last == Max(Of(t))
  <2>1. Of(t) # {} /\ Of(t) \in SUBSET (1..Len(rows))
    BY <1>4
  <2>2. last \in Of(t)
    <3> HIDE DEF Of
    <3> QED BY <1>4, <2>1, LargestThere
  <2>3. rows[last] \in ToSet(live.times) /\ rows[last][1] = t
    BY <1>4, <2>2, ElementOfSeq
  <2>4. times'[t] = rows[last][2]
    BY <1>1
  <2> HIDE DEF last
  <2> QED BY <1>3, <2>3, <2>4
<1>6. DOMAIN times' = Timed
  BY <1>1
<1>7. \A i \in 1..Len(sources) : Made(sources[i])'
  BY <1>1, <1>2 DEF GenuineInv, Made
<1> HIDE DEF Timed
<1> QED BY <1>1, <1>2, <1>5, <1>6, <1>7 DEF GenuineInv

\* SQLite goes back to the next table's columns only if there is one.
LEMMA GenuineKeys ==
    ASSUME GenuineInv, ReadKeys
    PROVE  GenuineInv'
<1>1. UNCHANGED <<world, names, sources, times>> /\ pc' \notin {"tables", "fields"}
  BY DEF ReadKeys, AfterColumns
<1>2. pc' = "columns" => backend = "sqlite" /\ Len(sources) < Len(names)
  BY DEF ReadKeys, AfterColumns
<1> QED BY <1>1, <1>2 DEF GenuineInv, WorldInv, Made, world

LEMMA GenuineStep ==
    ASSUME WholePages, GenuineInv, [NextDiscovery]_discoveryVars
    PROVE  GenuineInv'
<1>1. CASE Assemble
  BY <1>1, GenuineUnread DEF Assemble, found, End
<1>2. CASE Breaks
  BY <1>2, GenuineUnread DEF Breaks, found, End
<1> QED BY <1>1, <1>2, GenuineStutter, GenuineListed, GenuineColumns, GenuineGrouped, GenuineFields,
          GenuineType, GenuineKeys, GenuineTimes, GenuineChanges DEF NextDiscovery

\* Every source of a schema was a table at some moment of the call and has the
\* columns it had at some moment, for every history of the database, every budget
\* and each connector; of Jira if the server puts as many fields in a page as the
\* budget allows.
THEOREM SourcesDiscovered ==
    ASSUME WholePages
    PROVE  SpecDiscovery => []SourcesGenuine
<1>1. InitDiscovery => GenuineInv
  BY GenuineInit
<1>2. GenuineInv /\ [NextDiscovery]_discoveryVars => GenuineInv'
  BY GenuineStep
<1>3. GenuineInv => SourcesGenuine
  <2>1. SUFFICES ASSUME GenuineInv, NEW i \in DOMAIN sources
                 PROVE  /\ Made(sources[i])
                        /\ sources[i].name \in DOMAIN times =>
                              \E db \in past : <<sources[i].name, times[sources[i].name]>> \in ToSet(db.times)
    BY DEF SourcesGenuine, Made
  <2>2. i \in 1..Len(sources)
    BY <2>1, LenProperties DEF GenuineInv
  <2> QED BY <2>1, <2>2 DEF GenuineInv
<1> QED BY <1>1, <1>2, <1>3, PTL DEF SpecDiscovery

-----------------------------------------------------------------------------
(* Genuine relationships                                                   *)

\* Where the j-th element of the i-th sequence is: the i-th has wide[i] elements.
Placed(at, flat, seqs, m, wide) ==
    /\ \A i \in 1..m : \A j \in 1..wide[i] :
          at[i][j] \in 1..Len(flat) /\ flat[at[i][j]] = seqs[i][j]
    /\ \A i, k \in 1..m : \A j \in 1..wide[i] : \A l \in 1..wide[k] :
          at[i][j] = at[k][l] => i = k /\ j = l
    /\ \A p \in 1..Len(flat) : \E i \in 1..m : \E j \in 1..wide[i] : at[i][j] = p

LEMMA LaysPlaced ==
    ASSUME NEW m, NEW seqs, NEW wide, NEW at, Lays(at, seqs),
           DOMAIN seqs = 1..m, \A i \in 1..m : DOMAIN seqs[i] = 1..wide[i]
    PROVE  Placed(at, FlattenSeq(seqs), seqs, m, wide)
<1>1. ASSUME NEW i \in 1..m, NEW j \in 1..wide[i]
      PROVE  at[i][j] \in 1..Len(FlattenSeq(seqs)) /\ FlattenSeq(seqs)[at[i][j]] = seqs[i][j]
  BY DEF Lays
<1>2. ASSUME NEW i \in 1..m, NEW k \in 1..m, NEW j \in 1..wide[i], NEW l \in 1..wide[k],
             at[i][j] = at[k][l]
      PROVE  i = k /\ j = l
  <2>1. i \in DOMAIN seqs /\ k \in DOMAIN seqs /\ j \in DOMAIN seqs[i] /\ l \in DOMAIN seqs[k]
    OBVIOUS
  <2>2. \A c \in DOMAIN seqs[i] : \A d \in DOMAIN seqs[k] : at[i][c] = at[k][d] => i = k /\ c = d
    BY <2>1 DEF Lays
  <2> QED BY <1>2, <2>1, <2>2
<1>3. ASSUME NEW p \in 1..Len(FlattenSeq(seqs))
      PROVE  \E i \in 1..m : \E j \in 1..wide[i] : at[i][j] = p
  <2>1. PICK i \in DOMAIN seqs : \E j \in DOMAIN seqs[i] : at[i][j] = p
    BY Zenon DEF Lays
  <2> QED BY <2>1
<1> QED BY <1>1, <1>2, <1>3 DEF Placed

\* Sequences of known lengths, laid one after the other.
LEMMA Laid ==
    ASSUME NEW m \in Nat, NEW seqs, seqs = [i \in 1..m |-> seqs[i]], NEW wide \in [1..m -> Nat],
           \A i \in 1..m : seqs[i] = [j \in 1..wide[i] |-> seqs[i][j]]
    PROVE  /\ FlattenSeq(seqs) \in Seq(ToSet(FlattenSeq(seqs)))
           /\ Len(FlattenSeq(seqs)) \in Nat
           /\ DOMAIN FlattenSeq(seqs) = 1..Len(FlattenSeq(seqs))
           /\ \E at : Placed(at, FlattenSeq(seqs), seqs, m, wide)
<1> DEFINE flat == FlattenSeq(seqs)
<1>1. \A i \in 1..m : seqs[i] \in Seq(ToSet(seqs[i])) /\ DOMAIN seqs[i] = 1..wide[i]
  BY IsSequence
<1>2. seqs \in Seq(Seq(Elements(seqs))) /\ DOMAIN seqs = 1..m
  BY <1>1, AreSequences
<1>3. flat \in Seq(Elements(seqs))
  BY <1>2, FlattenedType
<1> HIDE DEF flat
<1>4. Len(flat) \in Nat /\ flat = [i \in 1..Len(flat) |-> flat[i]] /\ DOMAIN flat = 1..Len(flat)
  BY <1>3, LenProperties
<1>5. flat \in Seq(ToSet(flat))
  BY <1>4, IsSequence
<1>6. PICK at : Lays(at, seqs)
  BY <1>2, FlattenedPlaces
<1>7. Placed(at, flat, seqs, m, wide)
  BY <1>1, <1>2, <1>6, LaysPlaced DEF flat
<1> QED BY <1>4, <1>5, <1>7 DEF flat

\* The keys of a well-formed database.
LEMMA KeysType ==
    ASSUME NEW db, WellFormedDatabase(db)
    PROVE  /\ Len(db.keys) \in Nat /\ DOMAIN db.keys = 1..Len(db.keys)
           /\ \A i \in 1..Len(db.keys) :
                 /\ db.keys[i] \in ToSet(db.keys) /\ db.keys[i].source \in Tables(db)
                 /\ Len(db.keys[i].pairs) \in Nat /\ Len(db.keys[i].pairs) > 0
                 /\ DOMAIN db.keys[i].pairs = 1..Len(db.keys[i].pairs)
                 /\ \A j \in 1..Len(db.keys[i].pairs) :
                       db.keys[i].pairs[j] = <<db.keys[i].pairs[j][1], db.keys[i].pairs[j][2]>>
                 /\ Len(db.keys[i].pairs) = 1 => db.keys[i].pairs = <<db.keys[i].pairs[1]>>
<1> DEFINE keys == db.keys
<1>1. Len(keys) \in Nat /\ DOMAIN keys = 1..Len(keys)
  BY LenProperties DEF WellFormedDatabase
<1>2. ASSUME NEW i \in 1..Len(keys)
      PROVE  /\ keys[i] \in ToSet(keys) /\ keys[i].source \in Tables(db)
             /\ Len(keys[i].pairs) \in Nat /\ Len(keys[i].pairs) > 0
             /\ DOMAIN keys[i].pairs = 1..Len(keys[i].pairs)
             /\ \A j \in 1..Len(keys[i].pairs) :
                   keys[i].pairs[j] = <<keys[i].pairs[j][1], keys[i].pairs[j][2]>>
             /\ Len(keys[i].pairs) = 1 => keys[i].pairs = <<keys[i].pairs[1]>>
  <2> DEFINE pairs == keys[i].pairs
  <2>1. keys[i] \in ToSet(keys)
    BY <1>1 DEF ToSet
  <2>2. /\ keys[i].source \in Tables(db) /\ pairs \in Seq(ToSet(pairs)) /\ pairs # <<>>
        /\ \A pair \in ToSet(pairs) : pair = <<pair[1], pair[2]>>
    BY <2>1 DEF WellFormedDatabase
  <2> HIDE DEF pairs
  <2>3. Len(pairs) \in Nat /\ Len(pairs) > 0 /\ DOMAIN pairs = 1..Len(pairs)
    BY <2>2, LenProperties, EmptySeq
  <2>4. \A j \in 1..Len(pairs) : pairs[j] \in ToSet(pairs)
    BY <2>3 DEF ToSet
  <2>5. Len(pairs) = 1 => pairs = <<pairs[1]>>
    BY <2>2, <2>3
  <2> QED BY <2>1, <2>2, <2>3, <2>4, <2>5 DEF pairs
<1> QED BY <1>1, <1>2

\* A foreign key of one pair of columns, of one of some databases.
DeclaredIn(dbs, rel) ==
    \E db \in dbs : \E k \in ToSet(db.keys) :
        /\ k.source = rel.source /\ k.target = rel.target
        /\ k.pairs = <<<<rel.from, rel.to>>>>

\* Another relationship has the name of the i-th.
Shared(rels, i) == \E j \in 1..Len(rels) : j # i /\ rels[j].name = rels[i].name

\* What is no foreign key of one pair shares its name: only SchemaModel's check
\* of names is left to refuse it.
Apart(dbs, rels) ==
    /\ rels \in Seq(ToSet(rels))
    /\ \A i \in 1..Len(rels) : DeclaredIn(dbs, rels[i]) \/ Shared(rels, i)

\* The columns that the keys of a name match, each with its key.
LEMMA NamedKeys ==
    ASSUME NEW db, WellFormedDatabase(db), NEW name
    PROVE  /\ Len(Named(db, name)) \in Nat /\ DOMAIN Named(db, name) = 1..Len(Named(db, name))
           /\ \A f \in 1..Len(Named(db, name)) : \E k \in 1..Len(db.keys) :
                 /\ db.keys[k].name = name /\ Named(db, name)[f].key = db.keys[k]
                 /\ \E j \in 1..Len(db.keys[k].pairs) : Named(db, name)[f].pair = db.keys[k].pairs[j]
                 /\ Len(Named(db, name)) = 1 => Len(db.keys[k].pairs) = 1
           /\ \A k \in 1..Len(db.keys) : db.keys[k].name = name => Len(Named(db, name)) > 0
<1> DEFINE keys == db.keys
           m    == Len(keys)
           Wide(i) == Len(keys[i].pairs)
           wide == [i \in 1..m |-> IF keys[i].name # name THEN 0 ELSE Wide(i)]
           seqs == [i \in DOMAIN keys |->
                      IF keys[i].name # name THEN <<>>
                      ELSE [j \in DOMAIN keys[i].pairs |->
                               [key |-> keys[i], pair |-> keys[i].pairs[j]]]]
           ends == FlattenSeq(seqs)
           n    == Len(ends)
<1>1. m \in Nat /\ DOMAIN keys = 1..m
      /\ \A i \in 1..m : Wide(i) \in Nat /\ Wide(i) > 0 /\ DOMAIN keys[i].pairs = 1..Wide(i)
  BY KeysType
<1>2. Named(db, name) = ends
  BY DEF Named
<1>3. wide \in [1..m -> Nat] /\ \A i \in 1..m : wide[i] = IF keys[i].name # name THEN 0 ELSE Wide(i)
  BY <1>1
<1>4. seqs = [i \in 1..m |-> seqs[i]]
  BY <1>1
<1>5. ASSUME NEW i \in 1..m
      PROVE  /\ seqs[i] = [j \in 1..wide[i] |-> seqs[i][j]]
             /\ \A j \in 1..wide[i] : /\ keys[i].name = name /\ j \in 1..Wide(i)
                                      /\ seqs[i][j].key = keys[i] /\ seqs[i][j].pair = keys[i].pairs[j]
  <2>1. CASE keys[i].name # name
    <3>1. seqs[i] = <<>> /\ wide[i] = 0
      BY <1>1, <2>1
    <3> HIDE DEF seqs, wide
    <3> QED BY <3>1
  <2>2. CASE keys[i].name = name
    <3>1. seqs[i] = [j \in 1..Wide(i) |-> [key |-> keys[i], pair |-> keys[i].pairs[j]]]
      BY <1>1, <2>2
    <3>2. wide[i] = Wide(i)
      BY <2>2
    <3> HIDE DEF seqs, wide, keys, Wide
    <3> QED BY <2>2, <3>1, <3>2
  <2> QED BY <2>1, <2>2
<1> HIDE DEF seqs, wide, keys, m, Wide
<1>6. n \in Nat /\ DOMAIN ends = 1..n /\ \E at : Placed(at, ends, seqs, m, wide)
  <2>1. \A i \in 1..m : seqs[i] = [j \in 1..wide[i] |-> seqs[i][j]]
    BY <1>5
  <2>2. m \in Nat /\ wide \in [1..m -> Nat]
    BY <1>1, <1>3
  <2> QED BY <1>4, <2>1, <2>2, Laid
<1>7. PICK at : Placed(at, ends, seqs, m, wide)
  BY <1>6
<1> HIDE DEF ends
<1>8. ASSUME NEW f \in 1..n
      PROVE  \E k \in 1..m : /\ keys[k].name = name /\ ends[f].key = keys[k]
                             /\ \E j \in 1..Wide(k) : ends[f].pair = keys[k].pairs[j]
                             /\ n = 1 => Wide(k) = 1
  <2>1. PICK k \in 1..m : \E j \in 1..wide[k] : at[k][j] = f
    BY <1>7 DEF Placed
  <2>2. PICK j \in 1..wide[k] : at[k][j] = f
    BY <2>1
  <2>3. ends[f] = seqs[k][j]
    BY <1>7, <2>2 DEF Placed
  <2>4. keys[k].name = name /\ j \in 1..Wide(k)
        /\ ends[f].key = keys[k] /\ ends[f].pair = keys[k].pairs[j]
    BY <1>5, <2>2, <2>3
  <2>5. ASSUME n = 1 PROVE Wide(k) = 1
    <3>1. wide[k] = Wide(k) /\ Wide(k) \in Nat /\ Wide(k) > 0
      BY <1>1, <1>3, <2>4
    <3>2. 1 \in 1..wide[k] /\ Wide(k) \in 1..wide[k]
      BY <3>1
    <3>3. at[k][1] \in 1..n /\ at[k][Wide(k)] \in 1..n
      BY <1>7, <3>2 DEF Placed
    <3>4. at[k][1] = at[k][Wide(k)]
      BY <2>5, <3>3
    <3> QED BY <1>7, <3>2, <3>4 DEF Placed
  <2> QED BY <2>4, <2>5
<1>9. ASSUME NEW k \in 1..m, keys[k].name = name PROVE n > 0
  <2>1. 1 \in 1..wide[k]
    BY <1>1, <1>3, <1>9
  <2>2. at[k][1] \in 1..n
    BY <1>7, <2>1 DEF Placed
  <2> QED BY <1>6, <2>2
<1> QED BY <1>2, <1>6, <1>8, <1>9 DEF keys, m, Wide, ends

LEMMA SingleKey ==
    ASSUME NEW db, WellFormedDatabase(db), NEW k \in 1..Len(db.keys), Len(db.keys[k].pairs) = 1
    PROVE  /\ db.keys[k] \in ToSet(db.keys)
           /\ db.keys[k].pairs = <<db.keys[k].pairs[1]>>
           /\ db.keys[k].pairs[1] = <<db.keys[k].pairs[1][1], db.keys[k].pairs[1][2]>>
<1>1. /\ db.keys[k] \in ToSet(db.keys)
      /\ db.keys[k].pairs = <<db.keys[k].pairs[1]>>
      /\ \A j \in 1..Len(db.keys[k].pairs) :
            db.keys[k].pairs[j] = <<db.keys[k].pairs[j][1], db.keys[k].pairs[j][2]>>
  BY KeysType
<1>2. 1 \in 1..Len(db.keys[k].pairs)
  OBVIOUS
<1> QED BY <1>1, <1>2

\* Sequences laid one after the other: in none of them does a key come apart.
LEMMA FlattenedApart ==
    ASSUME NEW dbs, NEW m \in Nat, NEW seqs, seqs = [i \in 1..m |-> seqs[i]], NEW wide \in [1..m -> Nat],
           \A i \in 1..m : seqs[i] = [j \in 1..wide[i] |-> seqs[i][j]],
           \A i \in 1..m : \A j \in 1..wide[i] :
              \/ DeclaredIn(dbs, seqs[i][j])
              \/ \E l \in 1..wide[i] : l # j /\ seqs[i][l].name = seqs[i][j].name
    PROVE  Apart(dbs, FlattenSeq(seqs))
<1> DEFINE flat == FlattenSeq(seqs)
<1>1. flat \in Seq(ToSet(flat)) /\ \E at : Placed(at, flat, seqs, m, wide)
  BY Laid
<1>2. PICK at : Placed(at, flat, seqs, m, wide)
  BY <1>1
<1> HIDE DEF flat
<1>3. ASSUME NEW p \in 1..Len(flat) PROVE DeclaredIn(dbs, flat[p]) \/ Shared(flat, p)
  <2>1. PICK i \in 1..m : \E j \in 1..wide[i] : at[i][j] = p
    BY <1>2 DEF Placed
  <2>2. PICK j \in 1..wide[i] : at[i][j] = p
    BY <2>1
  <2>3. flat[p] = seqs[i][j]
    BY <1>2, <2>2 DEF Placed
  <2>4. CASE DeclaredIn(dbs, seqs[i][j])
    BY <2>3, <2>4
  <2>5. CASE \E l \in 1..wide[i] : l # j /\ seqs[i][l].name = seqs[i][j].name
    <3>1. PICK l \in 1..wide[i] : l # j /\ seqs[i][l].name = seqs[i][j].name
      BY <2>5
    <3>2. at[i][l] \in 1..Len(flat) /\ flat[at[i][l]] = seqs[i][l]
      BY <1>2 DEF Placed
    <3>3. at[i][l] # p
      BY <1>2, <2>2, <3>1 DEF Placed
    <3> QED BY <2>3, <3>1, <3>2, <3>3 DEF Shared
  <2> QED BY <2>4, <2>5
<1> QED BY <1>1, <1>3 DEF Apart, flat

\* Each row is of a key of the table, every key of it has a row, and the rows of a
\* key share its name.
Traced(of, rows, keys, t) ==
    /\ \A p \in 1..Len(rows) : of[p] \in 1..Len(keys) /\ keys[of[p]].source = t
    /\ \A p, q \in 1..Len(rows) : of[p] = of[q] => rows[p].name = rows[q].name
    /\ \A k \in 1..Len(keys) : keys[k].source = t => \E p \in 1..Len(rows) : of[p] = k

\* SQLite numbers its keys: the rows of a key are all the rows of its name.
LEMMA PragmaApart ==
    ASSUME NEW db, WellFormedDatabase(db), NEW dbs, db \in dbs, NEW t
    PROVE  /\ Apart(dbs, PragmaRows(db, t))
           /\ \E of : Traced(of, PragmaRows(db, t), db.keys, t)
<1> DEFINE keys == db.keys
           m    == Len(keys)
           Wide(i) == Len(keys[i].pairs)
           wide == [i \in 1..m |-> IF keys[i].source # t THEN 0 ELSE Wide(i)]
           Number(i) == Ordinals[Cardinality({n \in 1..i : keys[n].source = t})]
           Name(i) == t \o keys[i].target \o <<Number(i)>>
           Row(i, j) == Relation(Name(i), t, keys[i].pairs[j][1], keys[i].target, keys[i].pairs[j][2])
           seqs == [i \in DOMAIN keys |-> IF keys[i].source # t THEN <<>>
                                          ELSE [j \in DOMAIN keys[i].pairs |-> Row(i, j)]]
<1>1. PragmaRows(db, t) = FlattenSeq(seqs)
  BY DEF PragmaRows
<1>2. /\ m \in Nat /\ DOMAIN keys = 1..m
      /\ \A i \in 1..m : Wide(i) \in Nat /\ Wide(i) > 0 /\ DOMAIN keys[i].pairs = 1..Wide(i)
  BY KeysType
<1>3. wide \in [1..m -> Nat]
  BY <1>2
<1>4. seqs = [i \in 1..m |-> seqs[i]]
  BY <1>2
<1>5. ASSUME NEW i \in 1..m
      PROVE  /\ seqs[i] = [j \in 1..wide[i] |-> seqs[i][j]]
             /\ \A j \in 1..wide[i] : /\ keys[i].source = t /\ wide[i] = Wide(i)
                                      /\ seqs[i][j] = Row(i, j)
  <2>1. CASE keys[i].source # t
    <3>1. seqs[i] = <<>> /\ wide[i] = 0
      BY <1>2, <2>1
    <3> HIDE DEF seqs, wide
    <3> QED BY <3>1
  <2>2. CASE keys[i].source = t
    <3>1. seqs[i] = [j \in 1..Wide(i) |-> Row(i, j)] /\ wide[i] = Wide(i)
      BY <1>2, <2>2
    <3> HIDE DEF seqs, wide, keys, Wide, Row
    <3> QED BY <2>2, <3>1
  <2> QED BY <2>1, <2>2
<1>6. ASSUME NEW i \in 1..m, NEW j \in 1..wide[i]
      PROVE  \/ DeclaredIn(dbs, seqs[i][j])
             \/ \E l \in 1..wide[i] : l # j /\ seqs[i][l].name = seqs[i][j].name
  <2>1. /\ keys[i].source = t /\ wide[i] = Wide(i) /\ Wide(i) \in Nat /\ Wide(i) > 0
        /\ \A l \in 1..wide[i] : seqs[i][l] = Row(i, l)
    BY <1>2, <1>5
  <2>2. CASE Wide(i) = 1
    <3>1. keys[i].pairs = <<keys[i].pairs[1]>> /\ keys[i] \in ToSet(keys)
          /\ keys[i].pairs[1] = <<keys[i].pairs[1][1], keys[i].pairs[1][2]>>
      BY <2>2, SingleKey
    <3>0. j = 1
      <4> HIDE DEF wide, Wide, keys, m
      <4>1. wide[i] = 1
        BY <2>1, <2>2
      <4> QED BY <4>1
    <3> DEFINE row == Row(i, 1)
    <3>2. /\ row.source = t /\ row.target = keys[i].target
          /\ row.from = keys[i].pairs[1][1] /\ row.to = keys[i].pairs[1][2]
      BY DEF Relation
    <3>3. seqs[i][j] = row
      BY <2>1, <3>0
    <3> HIDE DEF row, seqs, wide
    <3>4. keys[i].pairs = <<<<row.from, row.to>>>>
      BY <3>1, <3>2
    <3>5. DeclaredIn(dbs, row)
      BY <2>1, <3>1, <3>2, <3>4 DEF DeclaredIn
    <3> QED BY <3>3, <3>5
  <2>3. CASE Wide(i) # 1
    <3>1. PICK l \in 1..wide[i] : l # j
      <4>1. 1 \in 1..wide[i] /\ 2 \in 1..wide[i]
        <5> HIDE DEF wide, Wide
        <5> QED BY <2>1, <2>3
      <4> HIDE DEF wide
      <4> QED BY <4>1
    <3>2. Row(i, l).name = Name(i) /\ Row(i, j).name = Name(i)
      BY DEF Relation
    <3> HIDE DEF seqs, wide, Row, Name
    <3> QED BY <2>1, <3>1, <3>2
  <2> QED BY <2>2, <2>3
<1>9. \A i \in 1..m : \A j \in 1..wide[i] : keys[i].source = t /\ seqs[i][j].name = Name(i)
  <2>1. \A i \in 1..m : \A j \in 1..wide[i] : Row(i, j).name = Name(i)
    BY DEF Relation
  <2> HIDE DEF seqs, wide, keys, m, Row, Name
  <2> QED BY <1>5, <2>1
<1>10. \A i \in 1..m : keys[i].source = t => 1 \in 1..wide[i]
  BY <1>2
<1> DEFINE rows == FlattenSeq(seqs)
<1> HIDE DEF seqs, wide, keys, m, Name
<1>7. /\ \A i \in 1..m : seqs[i] = [j \in 1..wide[i] |-> seqs[i][j]]
      /\ \A i \in 1..m : \A j \in 1..wide[i] :
            \/ DeclaredIn(dbs, seqs[i][j])
            \/ \E l \in 1..wide[i] : l # j /\ seqs[i][l].name = seqs[i][j].name
  BY <1>5, <1>6
<1>8. Apart(dbs, FlattenSeq(seqs))
  BY <1>2, <1>3, <1>4, <1>7, FlattenedApart
<1>11. \E at : Placed(at, rows, seqs, m, wide)
  BY <1>2, <1>3, <1>4, <1>7, Laid
<1>12. PICK at : Placed(at, rows, seqs, m, wide)
  BY <1>11
<1> HIDE DEF rows
<1> DEFINE Key(p) == CHOOSE i \in 1..m : \E j \in 1..wide[i] : at[i][j] = p
           of == [p \in 1..Len(rows) |-> Key(p)]
<1>13. ASSUME NEW p \in 1..Len(rows)
       PROVE  /\ Key(p) \in 1..m /\ keys[Key(p)].source = t
              /\ rows[p].name = Name(Key(p))
  <2>1. \E i \in 1..m : \E j \in 1..wide[i] : at[i][j] = p
    BY <1>12 DEF Placed
  <2>2. Key(p) \in 1..m /\ \E j \in 1..wide[Key(p)] : at[Key(p)][j] = p
    BY <2>1
  <2> DEFINE i == Key(p)
  <2> HIDE DEF i
  <2>3. PICK j \in 1..wide[i] : at[i][j] = p
    BY <2>2 DEF i
  <2>4. i \in 1..m
    BY <2>2 DEF i
  <2>5. rows[p] = seqs[i][j]
    BY <1>12, <2>3, <2>4 DEF Placed
  <2>6. keys[i].source = t /\ rows[p].name = Name(i)
    BY <1>9, <2>4, <2>5
  <2> QED BY <2>2, <2>6 DEF i
<1>14. ASSUME NEW k \in 1..m, keys[k].source = t PROVE \E p \in 1..Len(rows) : Key(p) = k
  <2>1. 1 \in 1..wide[k]
    BY <1>10, <1>14
  <2> DEFINE p == at[k][1]
  <2>2. p \in 1..Len(rows)
    BY <1>12, <2>1 DEF Placed
  <2>3. \A i \in 1..m : \A j \in 1..wide[i] : at[i][j] = p => i = k
    BY <1>12, <2>1 DEF Placed
  <2>4. \E i \in 1..m : \E j \in 1..wide[i] : at[i][j] = p
    BY <2>1
  <2> HIDE DEF p
  <2>5. Key(p) = k
    BY <2>3, <2>4
  <2> QED BY <2>2, <2>5
<1>15. \A p \in 1..Len(rows) : of[p] = Key(p)
  OBVIOUS
<1> HIDE DEF of, Key
<1>16. Traced(of, rows, keys, t)
  <2>1. \A p \in 1..Len(rows) : of[p] \in 1..Len(keys) /\ keys[of[p]].source = t
    BY <1>13, <1>15 DEF m
  <2>2. \A p, q \in 1..Len(rows) : of[p] = of[q] => rows[p].name = rows[q].name
    BY <1>13, <1>15
  <2>3. \A k \in 1..Len(keys) : keys[k].source = t => \E p \in 1..Len(rows) : of[p] = k
    BY <1>14, <1>15 DEF m
  <2> QED BY <2>1, <2>2, <2>3 DEF Traced
<1> QED BY <1>1, <1>8, <1>16 DEF rows, keys

\* The join is of all the ends of a name with all: only the keys of one pair, of a
\* name of their own, come out of it alone.
LEMMA JoinedApart ==
    ASSUME NEW db, WellFormedDatabase(db), NEW dbs, db \in dbs, NEW name
    PROVE  /\ Apart(dbs, JoinedRows(db, name))
           /\ \A p \in 1..Len(JoinedRows(db, name)) : JoinedRows(db, name)[p].name = name
           /\ Len(Named(db, name)) > 0 => Len(JoinedRows(db, name)) > 0
<1> DEFINE ends == Named(db, name)
           n    == Len(ends)
           wide == [f \in 1..n |-> n]
           Row(f, t) == Relation(name, ends[f].key.source, ends[f].pair[1],
                                 ends[t].key.target, ends[t].pair[2])
           seqs == [f \in DOMAIN ends |-> [t \in DOMAIN ends |-> Row(f, t)]]
<1>1. JoinedRows(db, name) = FlattenSeq(seqs)
  BY DEF JoinedRows
<1>2. n \in Nat /\ DOMAIN ends = 1..n
  BY NamedKeys
<1>3. wide \in [1..n -> Nat] /\ \A f \in 1..n : wide[f] = n
  BY <1>2
<1>4. /\ seqs = [f \in 1..n |-> seqs[f]]
      /\ \A f, t \in 1..n : seqs[f][t] = Row(f, t)
      /\ \A f \in 1..n : seqs[f] = [t \in 1..n |-> Row(f, t)]
  BY <1>2
<1>5. \A f \in 1..n : seqs[f] = [t \in 1..wide[f] |-> seqs[f][t]]
  <2> HIDE DEF wide, seqs, Row, ends
  <2> QED BY <1>3, <1>4
<1>6. ASSUME NEW f \in 1..n, NEW t \in 1..n
      PROVE  DeclaredIn(dbs, Row(f, t)) \/ \E l \in 1..n : l # t /\ Row(f, l).name = Row(f, t).name
  <2>1. CASE n = 1
    <3>1. f = 1 /\ t = 1
      BY <2>1
    <3>2. PICK k \in 1..Len(db.keys) :
             /\ ends[1].key = db.keys[k] /\ Len(db.keys[k].pairs) = 1
             /\ \E j \in 1..Len(db.keys[k].pairs) : ends[1].pair = db.keys[k].pairs[j]
      BY <2>1, <3>1, NamedKeys
    <3> DEFINE key == db.keys[k]
               row == Row(1, 1)
    <3>3. key \in ToSet(db.keys) /\ key.pairs = <<key.pairs[1]>>
          /\ key.pairs[1] = <<key.pairs[1][1], key.pairs[1][2]>>
      BY <3>2, SingleKey
    <3>4. ends[1].pair = key.pairs[1]
      BY <3>2
    <3>5. /\ row.source = ends[1].key.source /\ row.target = ends[1].key.target
          /\ row.from = ends[1].pair[1] /\ row.to = ends[1].pair[2]
      BY DEF Relation
    <3>6. row.source = key.source /\ row.target = key.target
          /\ row.from = key.pairs[1][1] /\ row.to = key.pairs[1][2]
      BY <3>2, <3>4, <3>5
    <3> HIDE DEF row
    <3>7. key.pairs = <<<<row.from, row.to>>>>
      BY <3>3, <3>6
    <3>8. DeclaredIn(dbs, row)
      BY <3>3, <3>6, <3>7 DEF DeclaredIn
    <3> QED BY <3>1, <3>8 DEF row
  <2>2. CASE n # 1
    <3>1. PICK l \in 1..n : l # t
      <4>1. 1 \in 1..n /\ 2 \in 1..n
        BY <1>2, <2>2
      <4> HIDE DEF n
      <4> QED BY <4>1
    <3>2. Row(f, l).name = name /\ Row(f, t).name = name
      BY DEF Relation
    <3> HIDE DEF Row
    <3> QED BY <3>1, <3>2
  <2> QED BY <2>1, <2>2
<1>7. \A f \in 1..n : \A t \in 1..wide[f] :
         \/ DeclaredIn(dbs, seqs[f][t])
         \/ \E l \in 1..wide[f] : l # t /\ seqs[f][l].name = seqs[f][t].name
  <2> HIDE DEF wide, seqs, Row, ends
  <2> SUFFICES ASSUME NEW f \in 1..n, NEW t \in 1..n
               PROVE  \/ DeclaredIn(dbs, seqs[f][t])
                      \/ \E l \in 1..n : l # t /\ seqs[f][l].name = seqs[f][t].name
    BY <1>3
  <2>1. \A l \in 1..n : seqs[f][l] = Row(f, l)
    BY <1>4
  <2>2. DeclaredIn(dbs, Row(f, t)) \/ \E l \in 1..n : l # t /\ Row(f, l).name = Row(f, t).name
    BY <1>6
  <2>3. seqs[f][t] = Row(f, t)
    BY <2>1
  <2> QED BY <2>1, <2>2, <2>3
<1>8. \A f, t \in 1..n : seqs[f][t].name = name
  <2>1. \A f, t \in 1..n : Row(f, t).name = name
    BY DEF Relation
  <2> HIDE DEF seqs, Row, ends
  <2> QED BY <1>4, <2>1
<1> DEFINE flat == FlattenSeq(seqs)
<1> HIDE DEF seqs, wide, ends, n
<1>9. Apart(dbs, flat)
  BY <1>2, <1>3, <1>4, <1>5, <1>7, FlattenedApart
<1>10. Len(flat) \in Nat /\ \E at : Placed(at, flat, seqs, n, wide)
  BY <1>2, <1>3, <1>4, <1>5, Laid
<1>11. PICK at : Placed(at, flat, seqs, n, wide)
  BY <1>10
<1> HIDE DEF flat
<1>12. ASSUME NEW p \in 1..Len(flat) PROVE flat[p].name = name
  <2>1. PICK f \in 1..n : \E t \in 1..wide[f] : at[f][t] = p
    BY <1>11 DEF Placed
  <2>2. PICK t \in 1..wide[f] : at[f][t] = p
    BY <2>1
  <2>3. flat[p] = seqs[f][t] /\ t \in 1..n
    BY <1>3, <1>11, <2>2 DEF Placed
  <2> QED BY <1>8, <2>3
<1>13. ASSUME n > 0 PROVE Len(flat) > 0
  <2>1. 1 \in 1..n /\ 1 \in 1..wide[1]
    BY <1>2, <1>3, <1>13
  <2>2. at[1][1] \in 1..Len(flat)
    BY <1>11, <2>1 DEF Placed
  <2> QED BY <1>10, <2>2
<1> QED BY <1>1, <1>9, <1>12, <1>13 DEF flat, n, ends

\* Every key's name is joined on; a row has the name of a key.
LEMMA CatalogApart ==
    ASSUME NEW db, WellFormedDatabase(db), NEW dbs, db \in dbs
    PROVE  /\ Apart(dbs, CatalogRows(db))
           /\ \A p \in 1..Len(CatalogRows(db)) : \E k \in 1..Len(db.keys) :
                 CatalogRows(db)[p].name = db.keys[k].name
<1> DEFINE m    == Len(db.keys)
           Rows(i) == JoinedRows(db, db.keys[i].name)
           wide == [i \in 1..m |-> Len(Rows(i))]
           seqs == [i \in DOMAIN db.keys |-> Rows(i)]
           flat == FlattenSeq(seqs)
<1>1. CatalogRows(db) = flat
  BY DEF CatalogRows
<1>2. m \in Nat /\ DOMAIN db.keys = 1..m
  BY KeysType
<1>0. \A i \in 1..m : seqs[i] = Rows(i) /\ wide[i] = Len(Rows(i))
  BY <1>2
<1>3. seqs = [i \in 1..m |-> seqs[i]]
  BY <1>2
<1>4. ASSUME NEW i \in 1..m
      PROVE  /\ Apart(dbs, Rows(i)) /\ Len(Rows(i)) \in Nat
             /\ Rows(i) = [j \in 1..Len(Rows(i)) |-> Rows(i)[j]]
  <2>1. Apart(dbs, Rows(i))
    BY JoinedApart
  <2> HIDE DEF Rows
  <2> QED BY <2>1, LenProperties DEF Apart
<1>5. wide \in [1..m -> Nat]
  BY <1>4
<1> HIDE DEF seqs, wide, Rows
<1>6. ASSUME NEW i \in 1..m, NEW j \in 1..wide[i]
      PROVE  \/ DeclaredIn(dbs, seqs[i][j])
             \/ \E l \in 1..wide[i] : l # j /\ seqs[i][l].name = seqs[i][j].name
  <2>1. seqs[i] = Rows(i) /\ wide[i] = Len(Rows(i)) /\ Apart(dbs, Rows(i))
    BY <1>0, <1>4
  <2> QED BY <2>1 DEF Apart, Shared
<1>7. \A i \in 1..m : seqs[i] = [j \in 1..wide[i] |-> seqs[i][j]]
  BY <1>0, <1>4
<1>8. Apart(dbs, flat)
  <2> HIDE DEF m
  <2> QED BY <1>2, <1>3, <1>5, <1>6, <1>7, FlattenedApart
<1>9. PICK at : Placed(at, flat, seqs, m, wide)
  <2> HIDE DEF m
  <2> QED BY <1>2, <1>3, <1>5, <1>7, Laid
<1> HIDE DEF flat
<1>10. ASSUME NEW p \in 1..Len(flat) PROVE \E k \in 1..m : flat[p].name = db.keys[k].name
  <2>1. PICK i \in 1..m : \E j \in 1..wide[i] : at[i][j] = p
    BY <1>9 DEF Placed
  <2>2. PICK j \in 1..wide[i] : at[i][j] = p
    BY <2>1
  <2>0. flat[p] = seqs[i][j]
    BY <1>9, <2>2 DEF Placed
  <2>3. flat[p] = Rows(i)[j] /\ j \in 1..Len(Rows(i))
    BY <1>0, <2>0
  <2>4. flat[p].name = db.keys[i].name
    BY <2>3, JoinedApart DEF Rows
  <2> QED BY <2>4
<1> QED BY <1>1, <1>8, <1>10

\* Of relationships that are acceptable together no name is shared.
LEMMA AcceptedApart ==
    ASSUME NEW rels, rels \in Seq(ToSet(rels)), Acceptable(rels)
    PROVE  \A i, j \in 1..Len(rels) : rels[i].name = rels[j].name => i = j
<1> DEFINE n == Len(rels)
           f == [i \in DOMAIN rels |-> rels[i].name]
<1>1. DOMAIN f = 1..n
  BY LenProperties
<1>2. IsInjective(f)
  BY DEF Acceptable
<1> HIDE DEF f, n
<1>3. \A i, j \in 1..n : f[i] = f[j] => i = j
  BY <1>1, <1>2 DEF IsInjective
<1>4. \A i \in 1..n : f[i] = rels[i].name
  BY <1>1 DEF f
<1> QED BY <1>3, <1>4 DEF n

\* Numbers that never share one of the first m are at most m; as many if all are met.
LEMMA OneEach ==
    ASSUME NEW n \in Nat, NEW m \in Nat, NEW h \in [1..n -> 1..m],
           \A i, j \in 1..n : h[i] = h[j] => i = j
    PROVE  n <= m /\ (Onto(h, n, m) => n = m)
<1>1. h \in Injection(1..n, 1..m)
  BY DEF Injection, IsInjective
<1>2. IsFiniteSet(1..m) /\ Cardinality(1..m) = m /\ Cardinality(1..n) = n
  BY IntervalCounted
<1>3. n <= m /\ (n = m <=> h \in Surjection(1..n, 1..m))
  BY <1>1, <1>2, FS_Injection
<1>4. Onto(h, n, m) => h \in Surjection(1..n, 1..m)
  BY DEF Onto, Surjection
<1> QED BY <1>3, <1>4

\* Relationships of names that are not too many are not cut, if they are acceptable.
LEMMA AcceptedUncut ==
    ASSUME NEW rels, rels \in Seq(ToSet(rels)), NEW b \in Nat, NEW m \in Nat, NEW label, m <= b,
           \A p \in 1..Len(rels) : \E k \in 1..m : rels[p].name = label[k],
           Acceptable(ReadUpTo(b, rels))
    PROVE  ReadUpTo(b, rels) = rels /\ Len(rels) <= m
<1> DEFINE read == ReadUpTo(b, rels)
           n    == Len(read)
           Key(p) == CHOOSE k \in 1..m : read[p].name = label[k]
           h    == [p \in 1..n |-> Key(p)]
<1>1. /\ read \in Seq(ToSet(rels)) /\ (n <= b => read = rels)
      /\ \A i \in 1..n : i \in 1..Len(rels) /\ read[i] = rels[i]
  BY WithinBudget
<1>2. n \in Nat /\ read = [i \in 1..n |-> read[i]]
  BY <1>1, LenProperties
<1> HIDE DEF read
<1>3. read \in Seq(ToSet(read))
  BY <1>2, IsSequence
<1>4. Acceptable(read)
  BY DEF read
<1>5. \A i, j \in 1..n : read[i].name = read[j].name => i = j
  BY <1>3, <1>4, AcceptedApart
<1> HIDE DEF n
<1>6. \A p \in 1..n : Key(p) \in 1..m /\ read[p].name = label[Key(p)]
  BY <1>1
<1>7. h \in [1..n -> 1..m] /\ \A i, j \in 1..n : h[i] = h[j] => i = j
  <2> HIDE DEF Key
  <2> QED BY <1>5, <1>6
<1> HIDE DEF h
<1>8. n <= m
  BY <1>2, <1>7, OneEach
<1> QED BY <1>1, <1>2, <1>8 DEF read, n

\* The relationships of a catalog that are acceptable once read are all of its
\* rows, as few as its keys, and each is a key.
LEMMA CatalogAccepted ==
    ASSUME NEW db, WellFormedDatabase(db), NEW dbs, db \in dbs, NEW b \in Nat, Len(db.keys) <= b,
           Acceptable(ReadUpTo(b, CatalogRows(db)))
    PROVE  /\ ReadUpTo(b, CatalogRows(db)) = CatalogRows(db)
           /\ Len(CatalogRows(db)) <= Len(db.keys)
<1> DEFINE rows  == CatalogRows(db)
           m     == Len(db.keys)
           label == [k \in 1..m |-> db.keys[k].name]
<1>1. rows \in Seq(ToSet(rows)) /\ \A p \in 1..Len(rows) : \E k \in 1..m : rows[p].name = db.keys[k].name
  BY CatalogApart DEF Apart
<1>2. \A p \in 1..Len(rows) : \E k \in 1..m : rows[p].name = label[k]
  BY <1>1
<1>3. m \in Nat
  BY KeysType
<1>4. m <= b /\ Acceptable(ReadUpTo(b, rows))
  OBVIOUS
<1> HIDE DEF rows, label, m
<1>5. ReadUpTo(b, rows) = rows /\ Len(rows) <= m
  BY <1>1, <1>2, <1>3, <1>4, AcceptedUncut
<1> QED BY <1>5 DEF rows, m

\* The relationships read so far: either they are foreign keys of one pair that the
\* database had at some moment, or a name they share will have them refused.
Sound(dbs, rels) ==
    /\ rels \in Seq(ToSet(rels))
    /\ Acceptable(rels) => \A i \in 1..Len(rels) : DeclaredIn(dbs, rels[i])

LEMMA ApartSound ==
    ASSUME NEW dbs, NEW rels, Apart(dbs, rels)
    PROVE  Sound(dbs, rels)
<1>1. ASSUME Acceptable(rels), NEW i \in 1..Len(rels) PROVE DeclaredIn(dbs, rels[i])
  <2>1. \A j \in 1..Len(rels) : rels[j].name = rels[i].name => j = i
    BY <1>1, AcceptedApart DEF Apart
  <2> QED BY <2>1 DEF Apart, Shared
<1> QED BY <1>1 DEF Sound, Apart

\* Two lots of relationships that are acceptable together are so apart.
LEMMA AcceptedParts ==
    ASSUME NEW a, a \in Seq(ToSet(a)), NEW b, b \in Seq(ToSet(b)), Acceptable(a \o b)
    PROVE  Acceptable(a) /\ Acceptable(b)
<1> DEFINE both == a \o b
           T    == ToSet(a) \cup ToSet(b)
           n    == Len(a)
           k    == Len(b)
<1>1. a \in Seq(T) /\ b \in Seq(T) /\ DOMAIN a = 1..n /\ DOMAIN b = 1..k
  BY SeqMonotonic, LenProperties
<1>2. n \in Nat /\ k \in Nat
  BY LenProperties
<1>3. /\ both \in Seq(T) /\ Len(both) = n + k
      /\ \A i \in 1..n + k : both[i] = IF i <= n THEN a[i] ELSE b[i - n]
  BY <1>1, ConcatProperties
<1> HIDE DEF both
<1>4. both = [i \in 1..Len(both) |-> both[i]] /\ Len(both) \in Nat
  BY <1>3, LenProperties
<1>5. both \in Seq(ToSet(both)) /\ Acceptable(both)
  BY <1>4, IsSequence DEF both
<1>6. \A i, j \in 1..n + k : both[i].name = both[j].name => i = j
  BY <1>3, <1>5, AcceptedApart
<1> HIDE DEF n, k
<1>7. ASSUME NEW i \in 1..n, NEW j \in 1..n, a[i].name = a[j].name PROVE i = j
  <2>1. i \in 1..n + k /\ j \in 1..n + k /\ i <= n /\ j <= n
    BY <1>2
  <2>2. both[i] = a[i] /\ both[j] = a[j]
    BY <1>3, <2>1
  <2> QED BY <1>6, <1>7, <2>1, <2>2
<1>8. ASSUME NEW i \in 1..k, NEW j \in 1..k, b[i].name = b[j].name PROVE i = j
  <2>1. n + i \in 1..n + k /\ n + j \in 1..n + k /\ ~(n + i <= n) /\ ~(n + j <= n)
        /\ (n + i) - n = i /\ (n + j) - n = j
    BY <1>2
  <2>2. both[n + i] = b[i] /\ both[n + j] = b[j]
    BY <1>3, <2>1
  <2>3. n + i = n + j
    BY <1>6, <1>8, <2>1, <2>2
  <2> QED BY <1>2, <2>3
<1>9. Acceptable(a)
  BY <1>1, <1>7 DEF Acceptable, IsInjective
<1>10. Acceptable(b)
  BY <1>1, <1>8 DEF Acceptable, IsInjective
<1> QED BY <1>9, <1>10

LEMMA SoundJoined ==
    ASSUME NEW dbs, NEW a, NEW b, Sound(dbs, a), Sound(dbs, b)
    PROVE  Sound(dbs, a \o b)
<1> DEFINE both == a \o b
           T    == ToSet(a) \cup ToSet(b)
           n    == Len(a)
           k    == Len(b)
<1>1. a \in Seq(T) /\ b \in Seq(T) /\ a \in Seq(ToSet(a)) /\ b \in Seq(ToSet(b))
  BY SeqMonotonic DEF Sound
<1>2. n \in Nat /\ k \in Nat
  BY <1>1, LenProperties
<1>3. /\ both \in Seq(T) /\ Len(both) = n + k
      /\ \A i \in 1..n + k : both[i] = IF i <= n THEN a[i] ELSE b[i - n]
  BY <1>1, ConcatProperties
<1> HIDE DEF both, n, k
<1>4. both = [i \in 1..Len(both) |-> both[i]] /\ Len(both) \in Nat
  BY <1>3, LenProperties
<1>5. both \in Seq(ToSet(both))
  BY <1>4, IsSequence
<1>6. ASSUME Acceptable(both), NEW i \in 1..Len(both) PROVE DeclaredIn(dbs, both[i])
  <2>1. Acceptable(a) /\ Acceptable(b)
    BY <1>1, <1>6, AcceptedParts DEF both
  <2>2. CASE i <= n
    <3>1. i \in 1..n /\ both[i] = a[i]
      BY <1>2, <1>3, <2>2
    <3> QED BY <2>1, <3>1 DEF Sound, n
  <2>3. CASE ~(i <= n)
    <3>1. i - n \in 1..k /\ both[i] = b[i - n]
      BY <1>2, <1>3, <2>3
    <3> QED BY <2>1, <3>1 DEF Sound, k
  <2> QED BY <2>2, <2>3
<1> QED BY <1>5, <1>6 DEF Sound, both

\* Foreign keys are read by SQLite and PostgreSQL only; what is assembled was accepted.
EdgesInv ==
    /\ WorldInv
    /\ Sound(past, edges)
    /\ pc = "keys" => backend \in {"sqlite"} \cup Postgres
    /\ pc # "over" => outcome = "pending"
    /\ pc = "labelling" \/ outcome = "schema" => Acceptable(edges)

LEMMA EdgesRead ==
    ASSUME KeysFit, EdgesInv, ReadKeys
    PROVE  Sound(past, edges')
<1>1. backend \in {"sqlite"} \cup Postgres /\ live \in past /\ WellFormedDatabase(live)
  BY Shapes DEF EdgesInv, WorldInv, ReadKeys
<1>2. CASE backend = "sqlite"
  <2> DEFINE t == Last(sources).name
  <2>1. edges' = edges \o PragmaRows(live, t)
    BY <1>2 DEF ReadKeys
  <2> HIDE DEF t
  <2>2. Sound(past, PragmaRows(live, t))
    BY <1>1, PragmaApart, ApartSound
  <2> QED BY <2>1, <2>2, SoundJoined DEF EdgesInv
<1>3. CASE backend # "sqlite"
  <2> DEFINE b    == MaxSources * MaxFields
             rows == CatalogRows(live)
             read == ReadUpTo(b, rows)
  <2>1. edges' = read
    BY <1>3 DEF ReadKeys
  <2>2. b \in Nat /\ Len(live.keys) <= b
    <3>1. MaxSources \in Nat /\ MaxFields \in Nat
      BY DiscoveryAssumption
    <3>2. backend \in Backends \cap Postgres /\ live \in Databases[backend]
      BY <1>1, <1>3 DEF EdgesInv, WorldInv
    <3>3. Len(live.keys) <= MaxSources * MaxFields
      BY <3>2 DEF KeysFit
    <3> QED BY <3>1, <3>3
  <2>3. Apart(past, rows) /\ rows \in Seq(ToSet(rows))
    BY <1>1, CatalogApart DEF Apart
  <2> HIDE DEF b
  <2>4. read \in Seq(ToSet(read))
    <3> HIDE DEF rows
    <3>1. read \in Seq(ToSet(rows))
      BY <2>2, <2>3, WithinBudget
    <3>2. Len(read) \in Nat /\ read = [i \in 1..Len(read) |-> read[i]]
      BY <3>1, LenProperties
    <3> HIDE DEF read
    <3> QED BY <3>2, IsSequence
  <2>5. ASSUME Acceptable(read) PROVE \A i \in 1..Len(read) : DeclaredIn(past, read[i])
    <3>1. read = rows
      BY <1>1, <2>2, <2>5, CatalogAccepted
    <3>2. Sound(past, rows)
      BY <2>3, ApartSound
    <3> QED BY <2>5, <3>1, <3>2 DEF Sound
  <2> QED BY <2>1, <2>4, <2>5 DEF Sound
<1> QED BY <1>1, <1>2, <1>3

LEMMA EdgesInit ==
    ASSUME InitDiscovery
    PROVE  EdgesInv
<1>1. edges = <<>> /\ edges \in Seq(ToSet(edges)) /\ Len(edges) = 0
  BY EmptySeq DEF InitDiscovery
<1>2. Sound(past, edges)
  BY <1>1 DEF Sound
<1>3. pc \notin {"keys", "labelling"} /\ outcome = "pending" /\ WorldInv
  BY DEF InitDiscovery, WorldInv
<1> QED BY <1>2, <1>3 DEF EdgesInv

LEMMA EdgesStep ==
    ASSUME KeysFit, EdgesInv, [NextDiscovery]_discoveryVars
    PROVE  EdgesInv'
<1>1. CASE ReadKeys
  <2>1. UNCHANGED <<world, outcome>> /\ pc = "keys" /\ pc' \in {"assembling", "columns"}
    BY <1>1 DEF ReadKeys, AfterColumns, EdgesInv, Postgres
  <2>2. Sound(past, edges')
    BY <1>1, EdgesRead
  <2>3. outcome = "pending"
    BY <2>1 DEF EdgesInv
  <2> QED BY <2>1, <2>2, <2>3 DEF EdgesInv, WorldInv, world
<1>2. CASE DatabaseChanges
  <2>1. /\ past' = past \cup {live'} /\ live' \in Databases[backend] /\ past \subseteq past'
        /\ UNCHANGED <<backend, edges, pc, outcome>>
    BY <1>2 DEF DatabaseChanges, found
  <2>2. Sound(past', edges)
    BY <2>1 DEF EdgesInv, Sound, DeclaredIn
  <2> QED BY <2>1, <2>2 DEF EdgesInv, WorldInv
<1>3. CASE Assemble
  BY <1>3 DEF Assemble, End, EdgesInv, WorldInv, world, found
<1>4. CASE ListTables \/ ReadColumns
  BY <1>4 DEF ListTables, ReadColumns, AfterColumns, End, EdgesInv, WorldInv, world, Postgres
<1>5. CASE ReadCatalog \/ ReadFields \/ ReadType
  BY <1>5 DEF ReadCatalog, ReadFields, ReadType, End, EdgesInv, WorldInv, world
<1>6. CASE ReadTimes \/ Breaks \/ UNCHANGED discoveryVars
  BY <1>6 DEF ReadTimes, Breaks, discoveryVars, End, EdgesInv, WorldInv, world, found
<1> QED BY <1>1, <1>2, <1>3, <1>4, <1>5, <1>6 DEF NextDiscovery

\* Every relationship of a schema is a foreign key of one pair of columns that the
\* database had at some moment of the call, for every history of the database and
\* every budget: composite keys and constraints of one name share the name of the
\* relationships made of them, and the schema is refused.  Of PostgreSQL if the
\* limit on the rows leaves room for one of each key: of a name cut to its first
\* row nothing is left to tell that there were more.
THEOREM RelationshipsDiscovered ==
    ASSUME KeysFit
    PROVE  SpecDiscovery => []RelationshipsGenuine
<1>1. InitDiscovery => EdgesInv
  BY EdgesInit
<1>2. EdgesInv /\ [NextDiscovery]_discoveryVars => EdgesInv'
  BY EdgesStep
<1>3. EdgesInv => RelationshipsGenuine
  <2>1. SUFFICES ASSUME EdgesInv, outcome = "schema", NEW i \in DOMAIN edges
                 PROVE  DeclaredIn(past, edges[i])
    BY DEF RelationshipsGenuine, DeclaredIn
  <2>2. i \in 1..Len(edges)
    BY <2>1, LenProperties DEF EdgesInv, Sound
  <2> QED BY <2>1, <2>2 DEF EdgesInv, Sound
<1> QED BY <1>1, <1>2, <1>3, PTL DEF SpecDiscovery

-----------------------------------------------------------------------------
(* All of a database that stood still                                      *)

\* Every key of a catalog has a row.
LEMMA CatalogCounted ==
    ASSUME NEW db, WellFormedDatabase(db)
    PROVE  Len(CatalogRows(db)) \in Nat /\ Len(db.keys) <= Len(CatalogRows(db))
<1> DEFINE m    == Len(db.keys)
           Rows(i) == JoinedRows(db, db.keys[i].name)
           wide == [i \in 1..m |-> Len(Rows(i))]
           seqs == [i \in DOMAIN db.keys |-> Rows(i)]
           flat == FlattenSeq(seqs)
<1>1. CatalogRows(db) = flat
  BY DEF CatalogRows
<1>2. m \in Nat /\ DOMAIN db.keys = 1..m
  BY KeysType
<1>3. ASSUME NEW i \in 1..m
      PROVE  /\ Len(Rows(i)) \in Nat /\ Len(Rows(i)) > 0
             /\ Rows(i) = [j \in 1..Len(Rows(i)) |-> Rows(i)[j]]
  <2>1. Apart({db}, Rows(i)) /\ (Len(Named(db, db.keys[i].name)) > 0 => Len(Rows(i)) > 0)
    BY JoinedApart
  <2>2. Len(Named(db, db.keys[i].name)) > 0
    BY NamedKeys
  <2> HIDE DEF Rows
  <2> QED BY <2>1, <2>2, LenProperties DEF Apart
<1>4. \A i \in 1..m : seqs[i] = Rows(i) /\ wide[i] = Len(Rows(i))
  BY <1>2
<1>5. seqs = [i \in 1..m |-> seqs[i]]
  BY <1>2
<1>6. wide \in [1..m -> Nat]
  BY <1>3
<1> HIDE DEF seqs, wide, Rows, m
<1>7. \A i \in 1..m : seqs[i] = [j \in 1..wide[i] |-> seqs[i][j]]
  BY <1>3, <1>4
<1>8. Len(flat) \in Nat /\ \E at : Placed(at, flat, seqs, m, wide)
  BY <1>2, <1>5, <1>6, <1>7, Laid
<1>9. PICK at : Placed(at, flat, seqs, m, wide)
  BY <1>8
<1> HIDE DEF flat
<1>10. \A i \in 1..m : 1 \in 1..wide[i]
  BY <1>3, <1>4
<1> DEFINE h == [i \in 1..m |-> at[i][1]]
<1>11. h \in [1..m -> 1..Len(flat)]
  BY <1>9, <1>10 DEF Placed
<1>12. ASSUME NEW i \in 1..m, NEW k \in 1..m, h[i] = h[k] PROVE i = k
  <2>1. at[i][1] = at[k][1] /\ 1 \in 1..wide[i] /\ 1 \in 1..wide[k]
    BY <1>10, <1>12
  <2> QED BY <1>9, <2>1 DEF Placed
<1> HIDE DEF h
<1>13. m <= Len(flat)
  BY <1>2, <1>8, <1>11, <1>12, OneEach
<1> QED BY <1>1, <1>8, <1>13 DEF m

\* SQLite's foreign keys, table by table.
Pragmas(db, k) == [i \in 1..k |-> PragmaRows(db, SetToSeq(Tables(db))[i])]

LEMMA PragmasType ==
    ASSUME NEW db, WellFormedDatabase(db), NEW k \in Nat
    PROVE  /\ \A i \in 1..k : /\ Pragmas(db, k)[i] \in Seq(ToSet(Pragmas(db, k)[i]))
                              /\ Len(Pragmas(db, k)[i]) \in Nat
                              /\ Pragmas(db, k)[i] = [j \in 1..Len(Pragmas(db, k)[i]) |-> Pragmas(db, k)[i][j]]
           /\ Pragmas(db, k) = [i \in 1..k |-> Pragmas(db, k)[i]]
<1>1. ASSUME NEW i \in 1..k
      PROVE  /\ Pragmas(db, k)[i] \in Seq(ToSet(Pragmas(db, k)[i]))
             /\ Len(Pragmas(db, k)[i]) \in Nat
             /\ Pragmas(db, k)[i] = [j \in 1..Len(Pragmas(db, k)[i]) |-> Pragmas(db, k)[i][j]]
  <2> DEFINE rows == PragmaRows(db, SetToSeq(Tables(db))[i])
  <2>1. Pragmas(db, k)[i] = rows
    BY DEF Pragmas
  <2>2. rows \in Seq(ToSet(rows))
    BY PragmaApart DEF Apart
  <2> HIDE DEF rows
  <2>3. Len(rows) \in Nat /\ rows = [j \in 1..Len(rows) |-> rows[j]]
    BY <2>2, LenProperties
  <2> QED BY <2>1, <2>2, <2>3
<1>2. Pragmas(db, k) = [i \in 1..k |-> Pragmas(db, k)[i]]
  BY DEF Pragmas
<1> QED BY <1>1, <1>2

\* Of all tables, acceptable together, they are as many as the keys.
LEMMA PragmasCounted ==
    ASSUME NEW db, WellFormedDatabase(db), NEW n, n = Cardinality(Tables(db)),
           Acceptable(FlattenSeq(Pragmas(db, n)))
    PROVE  Len(FlattenSeq(Pragmas(db, n))) = Len(db.keys)
<1> DEFINE order == SetToSeq(Tables(db))
           seqs  == Pragmas(db, n)
           wide  == [i \in 1..n |-> Len(seqs[i])]
           flat  == FlattenSeq(seqs)
           keys  == db.keys
           m     == Len(keys)
<1>1. /\ n \in Nat
      /\ \A i, j \in 1..n : order[i] = order[j] => i = j
      /\ \A t \in Tables(db) : \E i \in 1..n : order[i] = t
  BY Enumerated DEF WellFormedDatabase
<1>2. m \in Nat /\ \A k \in 1..m : keys[k].source \in Tables(db)
  BY KeysType
<1>0. seqs = [i \in 1..n |-> seqs[i]]
  BY <1>1, PragmasType
<1>3. \A i \in 1..n : Len(seqs[i]) \in Nat /\ seqs[i] = [j \in 1..Len(seqs[i]) |-> seqs[i][j]]
  <2>1. n \in Nat
    BY <1>1
  <2> HIDE DEF order
  <2> QED BY <2>1, PragmasType
<1>4. \A i \in 1..n : \E of : Traced(of, seqs[i], keys, order[i])
  BY PragmaApart DEF Pragmas
<1> HIDE DEF order, seqs, keys, m
<1>5. wide \in [1..n -> Nat] /\ \A i \in 1..n : wide[i] = Len(seqs[i])
  BY <1>3
<1> HIDE DEF wide
<1>6. \A i \in 1..n : seqs[i] = [j \in 1..wide[i] |-> seqs[i][j]]
  BY <1>3, <1>5
<1>7. flat \in Seq(ToSet(flat)) /\ Len(flat) \in Nat /\ \E at : Placed(at, flat, seqs, n, wide)
  BY <1>0, <1>1, <1>5, <1>6, Laid
<1>8. PICK at : Placed(at, flat, seqs, n, wide)
  BY <1>7
<1>9. Acceptable(flat)
  BY DEF seqs
<1> HIDE DEF flat
<1>10. \A p, q \in 1..Len(flat) : flat[p].name = flat[q].name => p = q
  BY <1>7, <1>9, AcceptedApart
<1> DEFINE trace == [i \in 1..n |-> CHOOSE of : Traced(of, seqs[i], keys, order[i])]
<1>11. \A i \in 1..n : Traced(trace[i], seqs[i], keys, order[i])
  BY <1>4
<1> HIDE DEF trace
<1> DEFINE Table(p) == CHOOSE i \in 1..n : \E j \in 1..wide[i] : at[i][j] = p
           Row(p)   == CHOOSE j \in 1..wide[Table(p)] : at[Table(p)][j] = p
           h        == [p \in 1..Len(flat) |-> trace[Table(p)][Row(p)]]
<1>12. ASSUME NEW p \in 1..Len(flat)
       PROVE  /\ Table(p) \in 1..n /\ Row(p) \in 1..Len(seqs[Table(p)])
              /\ at[Table(p)][Row(p)] = p
              /\ flat[p] = seqs[Table(p)][Row(p)]
  <2>1. \E i \in 1..n : \E j \in 1..wide[i] : at[i][j] = p
    BY <1>8 DEF Placed
  <2>2. Table(p) \in 1..n /\ \E j \in 1..wide[Table(p)] : at[Table(p)][j] = p
    BY <2>1
  <2>3. Row(p) \in 1..wide[Table(p)] /\ at[Table(p)][Row(p)] = p
    BY <2>2
  <2> DEFINE i == Table(p)
             j == Row(p)
  <2>4. i \in 1..n /\ j \in 1..wide[i] /\ at[i][j] = p
    BY <2>2, <2>3
  <2> HIDE DEF i, j
  <2>5. flat[p] = seqs[i][j]
    BY <1>8, <2>4 DEF Placed
  <2>6. j \in 1..Len(seqs[i])
    BY <1>5, <2>4
  <2> QED BY <2>4, <2>5, <2>6 DEF i, j
<1> HIDE DEF Table, Row
<1>13. ASSUME NEW p \in 1..Len(flat)
       PROVE  /\ h[p] = trace[Table(p)][Row(p)] /\ h[p] \in 1..m
              /\ keys[h[p]].source = order[Table(p)]
  <2> DEFINE i == Table(p)
             j == Row(p)
  <2>1. i \in 1..n /\ j \in 1..Len(seqs[i]) /\ h[p] = trace[i][j]
    BY <1>12
  <2> HIDE DEF i, j, h
  <2>2. trace[i][j] \in 1..m /\ keys[trace[i][j]].source = order[i]
    BY <1>11, <2>1 DEF Traced, m
  <2> QED BY <2>1, <2>2 DEF i, j
<1>14. h \in [1..Len(flat) -> 1..m]
  <2>1. h = [p \in 1..Len(flat) |-> h[p]]
    OBVIOUS
  <2> HIDE DEF h
  <2> QED BY <1>13, <2>1
<1> HIDE DEF h
<1>15. ASSUME NEW p \in 1..Len(flat), NEW q \in 1..Len(flat), h[p] = h[q] PROVE p = q
  <2> DEFINE i == Table(p)
  <2>1. i = Table(q)
    <3>1. order[Table(p)] = order[Table(q)]
      BY <1>13, <1>15
    <3>2. Table(p) \in 1..n /\ Table(q) \in 1..n
      BY <1>12
    <3> QED BY <1>1, <3>1, <3>2
  <2>2. i \in 1..n /\ Row(p) \in 1..Len(seqs[i]) /\ Row(q) \in 1..Len(seqs[i])
        /\ flat[p] = seqs[i][Row(p)] /\ flat[q] = seqs[i][Row(q)]
    BY <1>12, <2>1
  <2>3. trace[i][Row(p)] = trace[i][Row(q)]
    BY <1>13, <1>15, <2>1
  <2> HIDE DEF i
  <2>4. seqs[i][Row(p)].name = seqs[i][Row(q)].name
    BY <1>11, <2>2, <2>3 DEF Traced
  <2> QED BY <1>10, <2>2, <2>4
<1>16. ASSUME NEW k \in 1..m PROVE \E p \in 1..Len(flat) : h[p] = k
  <2>1. PICK i \in 1..n : order[i] = keys[k].source
    BY <1>1, <1>2
  <2>2. PICK j \in 1..Len(seqs[i]) : trace[i][j] = k
    BY <1>11, <2>1 DEF Traced, m
  <2> DEFINE p == at[i][j]
  <2>3. p \in 1..Len(flat) /\ j \in 1..wide[i]
    BY <1>5, <1>8, <2>2 DEF Placed
  <2>4. Table(p) = i /\ Row(p) = j
    <3>1. Table(p) \in 1..n /\ Row(p) \in 1..wide[Table(p)] /\ at[Table(p)][Row(p)] = at[i][j]
      BY <1>5, <1>12, <2>3
    <3> QED BY <1>8, <2>3, <3>1 DEF Placed
  <2>5. h[p] = k
    BY <1>13, <2>2, <2>3, <2>4
  <2> QED BY <2>3, <2>5
<1>17. Onto(h, Len(flat), m)
  BY <1>16 DEF Onto
<1>18. Len(flat) = m
  BY <1>2, <1>7, <1>14, <1>15, <1>17, OneEach
<1> QED BY <1>18 DEF flat, m, keys, seqs

\* The connectors that list tables and then read the columns of each.
Sql == {"sqlite", "postgres", "timescaledb", "mysql"}

Assembled == pc \in {"assembling", "labelling"} \/ outcome = "schema"

\* The sources are the tables there are, with their columns.
Complete ==
    /\ {sources[i].name : i \in DOMAIN sources} = Tables(live)
    /\ \A i \in DOMAIN sources : sources[i].fields = live.columns[sources[i].name]

\* All tables were listed, within the budget; their columns are read in that order.
ListedInv ==
    /\ names = SetToSeq(Tables(live)) /\ Cardinality(Tables(live)) <= MaxSources
    /\ Len(sources) <= Len(names)
    /\ \A i \in 1..Len(sources) : /\ sources[i].name = names[i]
                                  /\ sources[i].fields = live.columns[names[i]]
    /\ backend = "sqlite" /\ pc = "keys" => Len(sources) > 0
    /\ pc # "columns" /\ ~(backend = "sqlite" /\ pc = "keys") => Len(sources) = Len(names)

\* SQLite's foreign keys follow each table's columns, PostgreSQL's those of all.
KeysInv ==
    /\ backend = "sqlite" =>
          edges = FlattenSeq(Pragmas(live, IF pc = "keys" THEN Len(sources) - 1 ELSE Len(sources)))
    /\ backend \in Postgres /\ Assembled =>
          edges = ReadUpTo(MaxSources * MaxFields, CatalogRows(live))

TimesInv == backend = "timescaledb" /\ outcome = "schema" =>
                DOMAIN times = {live.times[i][1] : i \in DOMAIN live.times}

Going == pc # "over" \/ outcome = "schema"

\* Where each backend's call can be.
StageInv ==
    /\ pc \in {"tables", "columns"} => backend \in Sql
    /\ pc = "tables" => edges = <<>>
    /\ pc = "catalog" => backend = "hana"
    /\ pc = "fields" => backend = "jira"
    /\ pc = "types" => backend = "redis"
    /\ pc = "labelling" => backend = "timescaledb"

\* While the database stands still, what is read is all there is to read.
WholeInv ==
    /\ StageInv
    /\ past = {live} =>
          /\ backend \in Sql /\ pc # "tables" /\ Going => ListedInv /\ KeysInv /\ TimesInv
          /\ backend \in {"hana", "jira"} /\ Assembled => Complete

LEMMA NoPragmas ==
    ASSUME NEW db
    PROVE  FlattenSeq(Pragmas(db, 0)) = <<>>
<1>1. Pragmas(db, 0) = <<>>
  BY DEF Pragmas
<1> QED BY <1>1, EmptySeq DEF FlattenSeq

LEMMA PragmasMore ==
    ASSUME NEW db, WellFormedDatabase(db), NEW k \in Nat
    PROVE  FlattenSeq(Pragmas(db, k + 1)) =
              FlattenSeq(Pragmas(db, k)) \o PragmaRows(db, SetToSeq(Tables(db))[k + 1])
<1> DEFINE some == Pragmas(db, k)
           more == Pragmas(db, k + 1)
           rows == PragmaRows(db, SetToSeq(Tables(db))[k + 1])
           T    == Elements(some) \cup ToSet(rows)
<1>1. some \in Seq(Seq(Elements(some))) /\ Len(some) = k
  <2>1. some = [i \in 1..k |-> some[i]]
    BY PragmasType
  <2>2. \A i \in 1..k : some[i] \in Seq(ToSet(some[i]))
    BY PragmasType
  <2> HIDE DEF some
  <2> QED BY <2>1, <2>2, AreSequences
<1>2. rows \in Seq(ToSet(rows))
  BY PragmaApart DEF Apart
<1>3. /\ \A i \in 1..k : more[i] = some[i]
      /\ more[k + 1] = rows
  BY DEF Pragmas
<1>4. more = [i \in 1..k + 1 |-> more[i]]
  BY DEF Pragmas
<1> HIDE DEF some, more, rows, T
<1>5. some \in Seq(Seq(T)) /\ rows \in Seq(T)
  <2>1. Elements(some) \subseteq T /\ ToSet(rows) \subseteq T
    BY DEF T
  <2>2. Seq(Elements(some)) \subseteq Seq(T)
    BY <2>1, SeqMonotonic
  <2> QED BY <1>1, <1>2, <2>1, <2>2, SeqMonotonic
<1>6. /\ Append(some, rows) \in Seq(Seq(T)) /\ Len(Append(some, rows)) = k + 1
      /\ \A i \in 1..k : Append(some, rows)[i] = some[i]
      /\ Append(some, rows)[k + 1] = rows
  BY <1>1, <1>5, AppendProperties
<1>7. Append(some, rows) = more
  <2> DEFINE a == Append(some, rows)
  <2>1. a = [i \in 1..k + 1 |-> a[i]]
    BY <1>6, LenProperties
  <2>2. \A i \in 1..k + 1 : a[i] = more[i]
    BY <1>3, <1>6
  <2> HIDE DEF a
  <2>3. a = more
    BY <1>4, <2>1, <2>2
  <2> QED BY <2>3 DEF a
<1>8. FlattenSeq(Append(some, rows)) = FlattenSeq(some) \o rows
  BY <1>5, FlattenedAppend
<1> QED BY <1>7, <1>8 DEF some, more, rows

\* What the other invariants give.
LEMMA StillShapes ==
    ASSUME GenuineInv, EdgesInv
    PROVE  /\ WellFormedDatabase(live) /\ live \in past /\ backend \in Backends
           /\ live \in Databases[backend]
           /\ Len(sources) \in Nat /\ DOMAIN sources = 1..Len(sources)
           /\ pc # "over" => outcome = "pending"
<1>1. WorldInv
  BY DEF GenuineInv
<1>2. WellFormedDatabase(live) /\ live \in past /\ backend \in Backends /\ live \in Databases[backend]
  BY <1>1, Shapes DEF WorldInv
<1> QED BY <1>2, LenProperties DEF GenuineInv, EdgesInv

LEMMA WholeInit ==
    ASSUME InitDiscovery
    PROVE  WholeInv
<1>1. /\ backend \in Sql => pc = "tables"
      /\ backend \in {"hana", "jira"} => pc \in {"catalog", "fields"}
      /\ outcome = "pending" /\ edges = <<>>
  BY DEF InitDiscovery, Sql
<1>2. StageInv
  BY DiscoveryAssumption DEF InitDiscovery, StageInv, Sql
<1> QED BY <1>1, <1>2 DEF WholeInv, Assembled

\* A call that ends without a schema has nothing to have read.
LEMMA WholeOver ==
    ASSUME pc' = "over", outcome' # "schema"
    PROVE  WholeInv'
BY DEF WholeInv, StageInv, Going, Assembled

LEMMA WholeChanges ==
    ASSUME WholeInv, GenuineInv, EdgesInv, DatabaseChanges
    PROVE  WholeInv'
<1>1. past' # {live'}
  BY DEF DatabaseChanges, GenuineInv, WorldInv
<1>2. StageInv'
  BY DEF DatabaseChanges, found, WholeInv, StageInv
<1> QED BY <1>1, <1>2 DEF WholeInv

LEMMA WholeListed ==
    ASSUME WholeInv, GenuineInv, EdgesInv, ListTables
    PROVE  WholeInv'
<1> DEFINE tables == SetToSeq(Tables(live))
           n      == Cardinality(Tables(live))
<1>1. /\ UNCHANGED <<world, sources, edges, times>> /\ pc = "tables"
      /\ names' = ReadUpTo(MaxSources, tables) /\ sources = <<>> /\ edges = <<>> /\ backend \in Sql
      /\ outcome = "pending"
  BY DEF ListTables, GenuineInv, EdgesInv, WholeInv, StageInv
<1>2. CASE Len(names') > MaxSources
  BY <1>2, WholeOver DEF ListTables, End
<1>3. CASE ~(Len(names') > MaxSources)
  <2>1. pc' = (IF names' # <<>> THEN "columns" ELSE IF backend \in Postgres THEN "keys" ELSE "assembling")
        /\ outcome' = outcome
    BY <1>3 DEF ListTables
  <2>2. tables \in Seq(Tables(live)) /\ Len(tables) = n /\ n \in Nat
    <3>1. IsFiniteSet(Tables(live))
      BY StillShapes DEF WellFormedDatabase
    <3>2. tables \in [1..n -> Tables(live)] /\ Len(tables) = n /\ n \in Nat
      BY <3>1, Enumerated
    <3> HIDE DEF tables, n
    <3> QED BY <3>2, SeqDef
  <2> HIDE DEF tables, n
  <2>3. names' = tables /\ n <= MaxSources
    <3>1. MaxSources \in Nat
      BY DiscoveryAssumption
    <3>2. /\ Len(names') = IF Len(tables) <= MaxSources + 1 THEN Len(tables) ELSE MaxSources + 1
          /\ Len(names') <= MaxSources => names' = tables
      BY <1>1, <2>2, <3>1, WithinBudget
    <3> QED BY <1>3, <2>2, <3>1, <3>2
  <2>4. sources' = <<>> /\ Len(sources') = 0 /\ edges' = <<>> /\ backend' = backend /\ live' = live
    BY <1>1, EmptySeq DEF world
  <2>5. names' = <<>> => Len(names') = 0
    BY EmptySeq
  <2>6. names' # <<>> => pc' = "columns"
    BY <2>1
  <2>7. backend = "sqlite" => pc' # "keys"
    BY <2>1 DEF Postgres
  <2>8. ListedInv'
    BY <2>2, <2>3, <2>4, <2>5, <2>6, <2>7 DEF ListedInv, tables, n
  <2>9. KeysInv'
    <3>1. edges = FlattenSeq(Pragmas(live, 0))
      BY <1>1, NoPragmas
    <3>2. backend \in Postgres => pc' \in {"columns", "keys"}
      BY <2>1
    <3> QED BY <1>1, <2>1, <2>4, <2>7, <3>1, <3>2 DEF KeysInv, Assembled
  <2>10. StageInv' /\ TimesInv'
    BY <1>1, <2>1, <2>4 DEF StageInv, TimesInv
  <2>11. backend' \notin {"hana", "jira"}
    BY <1>1, <2>4 DEF Sql
  <2> QED BY <2>8, <2>9, <2>10, <2>11 DEF WholeInv
<1> QED BY <1>2, <1>3

LEMMA WholeColumns ==
    ASSUME WholeInv, GenuineInv, EdgesInv, ReadColumns
    PROVE  WholeInv'
<1> DEFINE t == names[Len(sources) + 1]
           s == [name |-> t, fields |-> Fields(t)]
<1>1. UNCHANGED <<world, names, edges, times>> /\ pc = "columns" /\ backend \in Sql /\ outcome = "pending"
  BY DEF ReadColumns, EdgesInv, WholeInv, StageInv
<1>2. CASE Len(Fields(t)) > MaxFields
  BY <1>2, WholeOver DEF ReadColumns, End
<1>3. CASE ~(Len(Fields(t)) > MaxFields)
  <2>1. /\ sources' = Append(sources, s) /\ outcome' = outcome
        /\ pc' = IF backend = "sqlite" THEN "keys" ELSE AfterColumns(sources')
    BY <1>3 DEF ReadColumns
  <2>2. /\ Len(sources) \in Nat /\ Len(sources') = Len(sources) + 1
        /\ \A i \in 1..Len(sources) : sources'[i] = sources[i]
        /\ sources'[Len(sources) + 1] = s
    BY <2>1, SourceAppended DEF GenuineInv
  <2>3. Fields(t) = Columns(live, t)
    BY <1>3, FieldsWhole DEF GenuineInv
  <2>4. s.name = t /\ s.fields = Columns(live, t)
    BY <2>3
  <2>5. /\ backend' = backend /\ live' = live /\ past' = past /\ names' = names /\ edges' = edges
    BY <1>1 DEF world
  <2>6. pc' \in {"keys", "columns", "assembling"} /\ (pc' = "keys" => backend = "sqlite" \/ backend \in Postgres)
        /\ (backend \in Postgres => pc' \in {"keys", "columns"})
    BY <2>1 DEF AfterColumns, Postgres
  <2>7. Len(names) \in Nat /\ Len(sources) < Len(names)
    BY <1>1 DEF GenuineInv, Sql
  <2>8. StageInv' /\ TimesInv' /\ backend' \notin {"hana", "jira"}
    BY <1>1, <2>1, <2>5, <2>6 DEF StageInv, TimesInv, Sql
  <2> HIDE DEF s
  <2>9. ASSUME past = {live} PROVE ListedInv' /\ KeysInv'
    <3>1. ListedInv /\ KeysInv
      BY <1>1, <2>9 DEF WholeInv, Going
    <3>2. t \in Tables(live)
      <4>1. Len(sources) + 1 \in 1..Len(names)
        BY <2>2, <2>7
      <4>2. \E db \in past : t \in Tables(db)
        BY <1>1, <4>1 DEF GenuineInv
      <4> QED BY <2>9, <4>2
    <3>3. s.fields = live.columns[t]
      BY <2>4, <3>2 DEF Columns
    <3> HIDE DEF t
    <3>4. ASSUME NEW i \in 1..Len(sources')
          PROVE  sources'[i].name = names[i] /\ sources'[i].fields = live.columns[names[i]]
      <4>1. CASE i = Len(sources) + 1
        BY <2>2, <2>4, <3>3, <4>1 DEF t
      <4>2. CASE i # Len(sources) + 1
        <5>1. i \in 1..Len(sources)
          BY <2>2, <4>2
        <5> QED BY <2>2, <3>1, <5>1 DEF ListedInv
      <4> QED BY <4>1, <4>2
    <3>5. backend # "sqlite" /\ pc' # "columns" => Len(sources') = Len(names)
      BY <2>1, <2>2, <2>7 DEF AfterColumns
    <3>6. backend = "sqlite" => pc' = "keys"
      BY <2>1
    <3>7. ListedInv'
      BY <2>2, <2>5, <2>7, <3>1, <3>4, <3>5, <3>6 DEF ListedInv
    <3>8. backend = "sqlite" => edges' = FlattenSeq(Pragmas(live, Len(sources') - 1))
      <4>1. Len(sources') - 1 = Len(sources)
        BY <2>2
      <4> QED BY <1>1, <2>5, <3>1, <4>1 DEF KeysInv
    <3>9. KeysInv'
      BY <1>1, <2>1, <2>5, <2>6, <3>6, <3>8 DEF KeysInv, Assembled
    <3> QED BY <3>7, <3>9
  <2> QED BY <2>5, <2>8, <2>9 DEF WholeInv
<1> QED BY <1>2, <1>3

LEMMA WholeKeys ==
    ASSUME WholeInv, GenuineInv, EdgesInv, ReadKeys
    PROVE  WholeInv'
<1>1. /\ UNCHANGED <<world, names, sources, times, outcome>> /\ pc = "keys" /\ outcome = "pending"
      /\ backend \in {"sqlite"} \cup Postgres /\ backend \in Sql
  BY DEF ReadKeys, EdgesInv, Postgres, Sql
<1>2. /\ backend' = backend /\ live' = live /\ past' = past /\ names' = names /\ sources' = sources
      /\ outcome' = outcome
  BY <1>1 DEF world
<1>3. /\ pc' \in {"columns", "assembling"}
      /\ pc' = "columns" => backend = "sqlite" /\ Len(sources) < Len(names)
      /\ backend = "sqlite" /\ pc' = "assembling" => ~(Len(sources) < Len(names))
  BY <1>1 DEF ReadKeys, AfterColumns, Postgres
<1>4. StageInv' /\ TimesInv' /\ backend' \notin {"hana", "jira"}
  BY <1>1, <1>2, <1>3 DEF StageInv, TimesInv, Sql
<1>5. Len(sources) \in Nat /\ Len(names) \in Nat /\ WellFormedDatabase(live)
  BY <1>1, StillShapes DEF GenuineInv, Sql
<1>6. ASSUME past = {live} PROVE ListedInv' /\ KeysInv'
  <2>1. ListedInv /\ KeysInv
    BY <1>1, <1>6 DEF WholeInv, Going
  <2>2. pc' # "columns" => Len(sources) = Len(names)
    BY <1>1, <1>3, <1>5, <2>1 DEF ListedInv
  <2>3. ListedInv'
    BY <1>2, <1>3, <2>1, <2>2 DEF ListedInv
  <2>4. CASE backend = "sqlite"
    <3> DEFINE k == Len(sources) - 1
    <3>1. Len(sources) > 0
      BY <1>1, <2>1, <2>4 DEF ListedInv
    <3>2. k \in Nat /\ k + 1 = Len(sources) /\ Len(sources) \in 1..Len(sources)
      BY <1>5, <3>1
    <3>3. Last(sources).name = SetToSeq(Tables(live))[k + 1]
      BY <2>1, <3>2 DEF ListedInv, Last
    <3>4. edges = FlattenSeq(Pragmas(live, k))
      BY <1>1, <2>1, <2>4 DEF KeysInv
    <3>5. edges' = edges \o PragmaRows(live, Last(sources).name)
      BY <2>4 DEF ReadKeys
    <3> HIDE DEF k
    <3>6. edges' = FlattenSeq(Pragmas(live, k + 1))
      BY <1>5, <3>2, <3>3, <3>4, <3>5, PragmasMore
    <3>7. edges' = FlattenSeq(Pragmas(live, Len(sources)))
      BY <3>2, <3>6
    <3>8. backend \notin Postgres
      BY <2>4 DEF Postgres
    <3>9. KeysInv'
      BY <1>2, <1>3, <3>7, <3>8 DEF KeysInv
    <3> QED BY <2>3, <3>9
  <2>5. CASE backend # "sqlite"
    <3>1. edges' = ReadUpTo(MaxSources * MaxFields, CatalogRows(live))
      BY <2>5 DEF ReadKeys
    <3>2. KeysInv'
      BY <1>2, <2>5, <3>1 DEF KeysInv
    <3> QED BY <2>3, <3>2
  <2> QED BY <2>4, <2>5
<1> QED BY <1>2, <1>4, <1>6 DEF WholeInv

LEMMA WholeCatalog ==
    ASSUME WholeInv, GenuineInv, EdgesInv, ReadCatalog
    PROVE  WholeInv'
<1> DEFINE catalog == Grouped
           order   == SetToSeq(DOMAIN catalog)
           TooMuch == \/ Cardinality(DOMAIN catalog) > MaxSources
                      \/ \E t \in DOMAIN catalog : Len(catalog[t]) > MaxFields
<1>1. /\ UNCHANGED <<world, names, edges, times>> /\ pc = "catalog" /\ outcome = "pending"
      /\ backend = "hana"
  BY DEF ReadCatalog, EdgesInv, WholeInv, StageInv
<1>2. IF TooMuch THEN End("refused") /\ UNCHANGED sources
      ELSE /\ sources' = [i \in DOMAIN order |-> [name |-> order[i], fields |-> catalog[order[i]]]]
           /\ pc' = "assembling" /\ outcome' = outcome
  BY DEF ReadCatalog
<1>3. CASE TooMuch
  BY <1>2, <1>3, WholeOver DEF End
<1>4. CASE ~TooMuch
  <2>1. WellFormedDatabase(live) /\ \A t \in Tables(live) : live.columns[t] # <<>>
    BY <1>1, StillShapes, DiscoveryAssumption
  <2>2. /\ IsFiniteSet(DOMAIN catalog) /\ DOMAIN catalog = Tables(live)
        /\ \A t \in DOMAIN catalog : catalog[t] = live.columns[t]
    <3>1. /\ IsFiniteSet(DOMAIN catalog) /\ DOMAIN catalog \subseteq Tables(live)
          /\ \A t \in DOMAIN catalog : catalog[t] = live.columns[t]
          /\ \A t \in Tables(live) : live.columns[t] # <<>> => t \in DOMAIN catalog
      BY <1>4, <2>1, CatalogUncut
    <3> HIDE DEF catalog
    <3> QED BY <2>1, <3>1
  <2>3. PICK n \in Nat : /\ order \in [1..n -> DOMAIN catalog] /\ DOMAIN order = 1..n
                         /\ \A t \in DOMAIN catalog : \E i \in 1..n : order[i] = t
    BY <2>2, Enumerated
  <2> HIDE DEF order, catalog
  <2>4. /\ sources' = [i \in 1..n |-> [name |-> order[i], fields |-> catalog[order[i]]]]
        /\ pc' = "assembling" /\ outcome' = outcome
    BY <1>2, <1>4, <2>3
  <2>5. /\ DOMAIN sources' = 1..n
        /\ \A i \in 1..n : sources'[i].name = order[i] /\ sources'[i].fields = catalog[order[i]]
    BY <2>4
  <2>6. live' = live /\ backend' = backend
    BY <1>1 DEF world
  <2>7. {sources'[i].name : i \in DOMAIN sources'} = Tables(live)
    BY <2>2, <2>3, <2>5
  <2>8. \A i \in DOMAIN sources' : sources'[i].fields = live.columns[sources'[i].name]
    BY <2>2, <2>3, <2>5
  <2>9. Complete'
    BY <2>6, <2>7, <2>8 DEF Complete
  <2>10. StageInv' /\ backend' \notin Sql
    BY <1>1, <2>4, <2>6 DEF StageInv, Sql
  <2> QED BY <2>9, <2>10 DEF WholeInv
<1> QED BY <1>3, <1>4

LEMMA WholeFields ==
    ASSUME WholePages, WholeInv, GenuineInv, EdgesInv, ReadFields
    PROVE  WholeInv'
<1>1. /\ UNCHANGED <<world, names, edges, times>> /\ pc = "fields" /\ outcome = "pending"
      /\ backend = "jira"
  BY DEF ReadFields, EdgesInv, WholeInv, StageInv
<1>2. PICK t \in Tables(live) :
         IF Len(live.columns[t]) > MaxFields THEN End("refused") /\ UNCHANGED sources
         ELSE /\ sources' = <<[name |-> t, fields |-> AtMost(PageSize, live.columns[t])]>>
              /\ pc' = "assembling" /\ outcome' = outcome
  BY DEF ReadFields
<1>3. CASE Len(live.columns[t]) > MaxFields
  BY <1>2, <1>3, WholeOver DEF End
<1>4. CASE ~(Len(live.columns[t]) > MaxFields)
  <2> DEFINE s == [name |-> t, fields |-> AtMost(PageSize, live.columns[t])]
  <2>1. WellFormedDatabase(live) /\ Tables(live) = {t}
    BY <1>1, StillShapes, DiscoveryAssumption
  <2>2. AtMost(PageSize, live.columns[t]) = live.columns[t]
    <3>1. MaxFields <= PageSize
      BY <1>1, StillShapes DEF WholePages
    <3>2. Len(live.columns[t]) \in Nat /\ MaxFields \in Nat /\ PageSize \in Nat
      BY <2>1, DiscoveryAssumption, LenProperties DEF WellFormedDatabase
    <3> QED BY <1>4, <3>1, <3>2 DEF AtMost
  <2>3. sources' = <<s>> /\ pc' = "assembling" /\ outcome' = outcome
    BY <1>2, <1>4
  <2>4. s.name = t /\ s.fields = live.columns[t]
    BY <2>2
  <2> HIDE DEF s
  <2>5. DOMAIN sources' = {1} /\ sources'[1] = s
    BY <2>3
  <2>6. live' = live /\ backend' = backend
    BY <1>1 DEF world
  <2>7. Complete'
    BY <2>1, <2>4, <2>5, <2>6 DEF Complete
  <2>8. StageInv' /\ backend' \notin Sql
    BY <1>1, <2>3, <2>6 DEF StageInv, Sql
  <2> QED BY <2>7, <2>8 DEF WholeInv
<1> QED BY <1>3, <1>4

LEMMA WholeType ==
    ASSUME WholeInv, EdgesInv, ReadType
    PROVE  WholeInv'
<1>1. UNCHANGED <<world, edges>> /\ pc = "types" /\ outcome = "pending" /\ backend = "redis"
  BY DEF ReadType, EdgesInv, WholeInv, StageInv
<1>2. pc' \in {"over", "types", "assembling"} /\ outcome' # "schema" /\ backend' = "redis"
  BY <1>1 DEF ReadType, End, world
<1> QED BY <1>2 DEF WholeInv, StageInv, Sql

LEMMA WholeAssembled ==
    ASSUME WholeInv, EdgesInv, Assemble
    PROVE  WholeInv'
<1>1. /\ UNCHANGED <<world, found>> /\ pc = "assembling" /\ outcome = "pending"
      /\ \/ pc' = "labelling" /\ outcome' = outcome /\ backend = "timescaledb"
         \/ /\ pc' = "over" /\ outcome' \in {"schema", "refused"}
            /\ outcome' = "schema" => backend # "timescaledb"
  BY DEF Assemble, End, EdgesInv
<1>2. /\ backend' = backend /\ live' = live /\ past' = past /\ names' = names /\ sources' = sources
      /\ edges' = edges /\ times' = times
  BY <1>1 DEF world, found
<1>3. StageInv'
  BY <1>1, <1>2 DEF StageInv
<1>4. TimesInv'
  BY <1>1, <1>2 DEF TimesInv
<1>5. ASSUME past = {live}, backend \in Sql PROVE ListedInv' /\ KeysInv'
  <2>1. ListedInv /\ KeysInv
    BY <1>1, <1>5 DEF WholeInv, Going
  <2>2. ListedInv'
    BY <1>1, <1>2, <2>1 DEF ListedInv
  <2>3. KeysInv'
    BY <1>1, <1>2, <2>1 DEF KeysInv, Assembled
  <2> QED BY <2>2, <2>3
<1>6. ASSUME past = {live}, backend \in {"hana", "jira"} PROVE Complete'
  BY <1>1, <1>2, <1>6 DEF WholeInv, Complete, Assembled
<1> QED BY <1>2, <1>3, <1>4, <1>5, <1>6 DEF WholeInv

\* As many sources as tables that are all listed: they are all of them.
LEMMA ListedComplete ==
    ASSUME GenuineInv, EdgesInv, ListedInv, Len(sources) = Len(names)
    PROVE  Complete /\ Len(sources) = Cardinality(Tables(live))
<1> DEFINE n == Cardinality(Tables(live))
<1>1. /\ names \in [1..n -> Tables(live)] /\ Len(names) = n /\ n \in Nat
      /\ \A t \in Tables(live) : \E i \in 1..n : names[i] = t
  <2>1. IsFiniteSet(Tables(live)) /\ names = SetToSeq(Tables(live))
    BY StillShapes DEF WellFormedDatabase, ListedInv
  <2> QED BY <2>1, Enumerated
<1>2. /\ DOMAIN sources = 1..n
      /\ \A i \in 1..n : sources[i].name = names[i] /\ sources[i].fields = live.columns[names[i]]
  BY <1>1, StillShapes DEF ListedInv
<1> HIDE DEF n
<1> QED BY <1>1, <1>2 DEF Complete, n

\* The hypertables are no more than the tables, which are within the budget.
LEMMA WholeTimes ==
    ASSUME WholeInv, GenuineInv, EdgesInv, ReadTimes
    PROVE  WholeInv'
<1> DEFINE rows  == ReadUpTo(MaxSources, live.times)
           Of(t) == {i \in DOMAIN rows : rows[i][1] = t}
<1>1. /\ UNCHANGED <<world, names, sources, edges>> /\ pc = "labelling" /\ pc' = "over"
      /\ outcome' = "schema" /\ backend = "timescaledb"
      /\ times' = [t \in {s \in {sources[i].name : i \in DOMAIN sources} : Of(s) # {}} |->
                      rows[Max(Of(t))][2]]
  BY DEF ReadTimes, End, WholeInv, StageInv
<1>2. /\ backend' = backend /\ live' = live /\ past' = past /\ names' = names /\ sources' = sources
      /\ edges' = edges
  BY <1>1 DEF world
<1>3. StageInv' /\ backend \in Sql
  BY <1>1, <1>2 DEF StageInv, Sql
<1>4. ASSUME past = {live} PROVE ListedInv' /\ KeysInv' /\ TimesInv'
  <2>1. ListedInv /\ KeysInv
    BY <1>1, <1>3, <1>4 DEF WholeInv, Going
  <2>2. ListedInv'
    BY <1>1, <1>2, <2>1 DEF ListedInv
  <2>3. KeysInv'
    BY <1>1, <1>2, <2>1 DEF KeysInv, Assembled
  <2>4. Complete /\ Cardinality(Tables(live)) <= MaxSources /\ IsFiniteSet(Tables(live))
    <3>1. Len(sources) = Len(names)
      BY <1>1, <2>1 DEF ListedInv
    <3> QED BY <2>1, <3>1, ListedComplete, StillShapes DEF ListedInv, WellFormedDatabase
  <2> DEFINE kept == live.times
             k    == Len(kept)
  <2>5. /\ kept \in Seq(ToSet(kept)) /\ k \in Nat /\ DOMAIN kept = 1..k
        /\ \A i \in 1..k : kept[i][1] \in Tables(live)
        /\ \A i, j \in 1..k : kept[i][1] = kept[j][1] => i = j
    <3>1. /\ kept \in Seq(ToSet(kept)) /\ \A time \in ToSet(kept) : time \in Tables(live) \X {time[2]}
          /\ \A i, j \in DOMAIN kept : kept[i][1] = kept[j][1] => i = j
      BY StillShapes DEF WellFormedDatabase
    <3>2. k \in Nat /\ DOMAIN kept = 1..k
      BY <3>1, LenProperties
    <3>3. \A i \in 1..k : kept[i] \in ToSet(kept)
      BY <3>2 DEF ToSet
    <3>4. \A i \in 1..k : kept[i][1] \in Tables(live)
      BY <3>1, <3>3
    <3> QED BY <3>1, <3>2, <3>4
  <2> HIDE DEF kept, k
  <2>6. k <= MaxSources
    <3> DEFINE f == [i \in 1..k |-> kept[i][1]]
    <3>1. f \in [1..k -> Tables(live)] /\ \A i, j \in 1..k : f[i] = f[j] => i = j
      BY <2>5
    <3> HIDE DEF f
    <3>2. f \in Injection(1..k, Tables(live))
      BY <3>1 DEF Injection, IsInjective
    <3>3. Cardinality(1..k) <= Cardinality(Tables(live)) /\ Cardinality(1..k) = k
      BY <2>4, <2>5, <3>2, FS_Injection, IntervalCounted
    <3>4. Cardinality(Tables(live)) \in Nat /\ MaxSources \in Nat
      BY <2>4, FS_CardinalityType, DiscoveryAssumption
    <3> QED BY <2>4, <2>5, <3>3, <3>4
  <2>7. rows = kept
    <3>1. MaxSources \in Nat
      BY DiscoveryAssumption
    <3>2. rows = ReadUpTo(MaxSources, kept)
      BY DEF kept
    <3> QED BY <2>5, <2>6, <3>1, <3>2, WithinBudget DEF k
  <2> HIDE DEF rows
  <2>8. DOMAIN times' = {s \in Tables(live) : \E i \in 1..k : kept[i][1] = s}
    <3>1. DOMAIN times' = {s \in {sources[i].name : i \in DOMAIN sources} : Of(s) # {}}
      BY <1>1
    <3>2. {sources[i].name : i \in DOMAIN sources} = Tables(live)
      BY <2>4 DEF Complete
    <3>3. \A s : Of(s) # {} <=> \E i \in 1..k : kept[i][1] = s
      BY <2>5, <2>7
    <3> HIDE DEF Of
    <3> QED BY <3>1, <3>2, <3>3
  <2>9. DOMAIN times' = {kept[i][1] : i \in DOMAIN kept}
    BY <2>5, <2>8
  <2>10. TimesInv'
    BY <1>2, <2>9 DEF TimesInv, kept
  <2> QED BY <2>2, <2>3, <2>10
<1>5. backend' \notin {"hana", "jira"}
  BY <1>1, <1>2
<1> QED BY <1>2, <1>3, <1>4, <1>5 DEF WholeInv

LEMMA WholeStep ==
    ASSUME WholePages, WholeInv, GenuineInv, EdgesInv, [NextDiscovery]_discoveryVars
    PROVE  WholeInv'
<1>1. CASE UNCHANGED discoveryVars
  BY <1>1 DEF discoveryVars, world, found, WholeInv, StageInv, ListedInv, KeysInv, TimesInv, Complete,
              Going, Assembled
<1>2. CASE Breaks
  BY <1>2, WholeOver DEF Breaks, End
<1> QED BY <1>1, <1>2, WholeListed, WholeColumns, WholeCatalog, WholeFields, WholeType, WholeKeys,
          WholeAssembled, WholeTimes, WholeChanges DEF NextDiscovery

\* A schema of a database that stood still is all of it: its tables, their columns,
\* its foreign keys and the time columns of its hypertables, for every database and
\* every budget.  Of Jira if the server puts as many fields in a page as the budget
\* allows, of PostgreSQL if the limit on the rows of relationships leaves room for
\* one of each key.
THEOREM DiscoveredWhole ==
    ASSUME WholePages, KeysFit
    PROVE  SpecDiscovery => []NothingCut
<1> DEFINE Inv == GenuineInv /\ EdgesInv /\ WholeInv
<1>1. InitDiscovery => Inv
  BY GenuineInit, EdgesInit, WholeInit
<1>2. Inv /\ [NextDiscovery]_discoveryVars => Inv'
  BY GenuineStep, EdgesStep, WholeStep
<1>3. Inv => NothingCut
  <2>1. SUFFICES ASSUME Inv, outcome = "schema", past = {live}, backend # "redis"
                 PROVE  /\ Complete
                        /\ backend \in {"sqlite"} \cup Postgres => Len(edges) = Len(live.keys)
                        /\ TimesInv
    BY DEF NothingCut, Complete, TimesInv
  <2>2. WellFormedDatabase(live) /\ backend \in Backends /\ pc = "over"
    BY <2>1, StillShapes
  <2>3. backend \in Sql \/ backend \in {"hana", "jira"}
    BY <2>1, <2>2, DiscoveryAssumption DEF Sql
  <2>4. CASE backend \in {"hana", "jira"}
    BY <2>1, <2>4 DEF WholeInv, Assembled, Postgres, TimesInv
  <2>5. CASE backend \in Sql
    <3>1. ListedInv /\ KeysInv /\ TimesInv
      BY <2>1, <2>2, <2>5 DEF WholeInv, Going
    <3>2. Complete /\ Len(sources) = Cardinality(Tables(live))
      BY <2>1, <2>2, <3>1, ListedComplete DEF ListedInv
    <3>3. Acceptable(edges)
      BY <2>1 DEF EdgesInv
    <3>4. CASE backend = "sqlite"
      <4>1. edges = FlattenSeq(Pragmas(live, Cardinality(Tables(live))))
        BY <2>2, <3>1, <3>2, <3>4 DEF KeysInv
      <4>2. Len(edges) = Len(live.keys)
        BY <2>2, <3>3, <4>1, PragmasCounted
      <4> QED BY <3>1, <3>2, <4>2
    <3>5. CASE backend \in Postgres
      <4> DEFINE b == MaxSources * MaxFields
      <4>1. edges = ReadUpTo(b, CatalogRows(live))
        BY <2>1, <3>1, <3>5 DEF KeysInv, Assembled
      <4>2. b \in Nat /\ Len(live.keys) <= b
        <5>1. MaxSources \in Nat /\ MaxFields \in Nat
          BY DiscoveryAssumption
        <5>2. backend \in Backends \cap Postgres /\ live \in Databases[backend]
          BY <2>1, <3>5, StillShapes
        <5>3. Len(live.keys) <= MaxSources * MaxFields
          BY <5>2 DEF KeysFit
        <5> QED BY <5>1, <5>3
      <4> HIDE DEF b
      <4>3. edges = CatalogRows(live) /\ Len(CatalogRows(live)) <= Len(live.keys)
        BY <2>2, <3>3, <4>1, <4>2, CatalogAccepted
      <4>4. Len(edges) \in Nat /\ Len(live.keys) <= Len(edges) /\ Len(live.keys) \in Nat
        BY <2>2, <4>3, CatalogCounted, KeysType
      <4>5. Len(edges) = Len(live.keys)
        BY <4>3, <4>4
      <4> QED BY <3>1, <3>2, <4>5
    <3>6. CASE backend \notin {"sqlite"} \cup Postgres
      BY <3>1, <3>2, <3>6
    <3> QED BY <3>4, <3>5, <3>6
  <2> QED BY <2>3, <2>4, <2>5
<1> QED BY <1>1, <1>2, <1>3, PTL DEF SpecDiscovery
=============================================================================
