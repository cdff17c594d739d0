------------------------------ MODULE TTLCache ------------------------------
(***************************************************************************)
(* core/cache.py: the per-client cache of discovered schemas.  A Python    *)
(* dict keeps its keys in insertion order and overwriting a key keeps its  *)
(* place, so the dict is a sequence of entries with distinct keys.         *)
(* Every expiry is computed from time.monotonic(), which never goes back.  *)
(***************************************************************************)
EXTENDS Naturals, Sequences, SequencesExt

CONSTANTS Keys, Values,
          TTL,         \* ttl_seconds
          MaxEntries,  \* max_entries
          Nothing,     \* Python's None
          Horizon      \* bound on the clock

ASSUME TTLAssumption == TTL \in Nat
ASSUME MaxEntriesAssumption == MaxEntries \in Nat \ {0}
ASSUME NothingAssumption == /\ Nothing \notin Values
                            /\ Nothing \notin [value: Values, stored: Nat]
ASSUME HorizonAssumption == Horizon \in Nat

VARIABLES entries,  \* self._entries
          now,      \* time.monotonic()
          reply     \* what the last get returned

vars == <<entries, now, reply>>

Entries == [key: Keys, expires: Nat, value: Values]

Places(es, k) == {i \in 1..Len(es) : es[i].key = k}
Place(es, k)  == CHOOSE i \in Places(es, k) : TRUE

Live(e, t) == t < e.expires

\* Faulty form: expiry forgotten on the read path.
FoundIgnoringExpiry(es, k, t) ==
    IF Places(es, k) # {} THEN es[Place(es, k)].value ELSE Nothing

Found(es, k, t) ==
    IF Places(es, k) # {} /\ Live(es[Place(es, k)], t)
    THEN es[Place(es, k)].value
    ELSE Nothing

AfterGet(es, k, t) ==
    IF Places(es, k) # {} /\ ~Live(es[Place(es, k)], t)
    THEN RemoveAt(es, Place(es, k))
    ELSE es

\* Faulty form: room is made one store too early.
EvictedEarly(es) == IF Len(es) + 1 >= MaxEntries /\ es # <<>> THEN Tail(es) ELSE es

\* The key about to be stored counts for nothing: a full cache drops its first
\* entry even when the store would only overwrite one.
Evicted(es) == IF Len(es) >= MaxEntries THEN Tail(es) ELSE es

Assigned(es, e) ==
    IF Places(es, e.key) # {}
    THEN [es EXCEPT ![Place(es, e.key)] = e]
    ELSE Append(es, e)

\* Faulty forms: no eviction; the deadline computed backwards; the deadline
\* prolonged by what the key's previous entry had left.
AfterPutUnbounded(es, k, v, t) ==
    Assigned(es, [key |-> k, expires |-> t + TTL, value |-> v])
AfterPutBackwards(es, k, v, t) ==
    Assigned(Evicted(es), [key |-> k, expires |-> t - TTL, value |-> v])
AfterPutProlonged(es, k, v, t) ==
    LET base == IF Places(es, k) # {} THEN es[Place(es, k)].expires ELSE t
    IN Assigned(Evicted(es), [key |-> k, expires |-> base + TTL, value |-> v])

AfterPut(es, k, v, t) ==
    Assigned(Evicted(es), [key |-> k, expires |-> t + TTL, value |-> v])

Init == entries = <<>> /\ now = 0 /\ reply = Nothing

Get(k) == /\ reply' = Found(entries, k, now)
          /\ entries' = AfterGet(entries, k, now)
          /\ UNCHANGED now

Put(k, v) == /\ entries' = AfterPut(entries, k, v, now)
             /\ UNCHANGED <<now, reply>>

Invalidate == /\ entries' = <<>>
              /\ UNCHANGED <<now, reply>>

Tick == /\ now < Horizon
        /\ now' = now + 1
        /\ UNCHANGED <<entries, reply>>

Next == \/ \E k \in Keys : Get(k)
        \/ \E k \in Keys, v \in Values : Put(k, v)
        \/ Invalidate
        \/ Tick

Spec == Init /\ [][Next]_vars

-----------------------------------------------------------------------------

\* Types of the cache's state; expiry times never lie more than TTL ahead.
TypeOK == /\ entries \in Seq(Entries)
          /\ now \in Nat
          /\ reply \in Values \cup {Nothing}

\* The dict holds a key once and never outgrows max_entries, whatever the mix
\* of overwrites, expiries and evictions (cache.py:24-27).
BoundedDict ==
    /\ Len(entries) <= MaxEntries
    /\ \A i, j \in 1..Len(entries) : entries[i].key = entries[j].key => i = j

\* No entry is to be answered for longer than TTL from now, and none was made
\* in the future.
ExpiryBounded == \A i \in 1..Len(entries) : /\ entries[i].expires <= now + TTL
                                            /\ TTL <= entries[i].expires

\* A key disappears only because the whole cache was invalidated, because its
\* entry had expired, or because the cache was full and it was the oldest
\* insertion (cache.py:19-20, 25-26, 30).
LossHasCause ==
    [][\A i \in 1..Len(entries) :
          Places(entries', entries[i].key) = {}
          => \/ entries' = <<>> /\ reply' = reply
             \/ ~Live(entries[i], now)
             \/ i = 1 /\ Len(entries) = MaxEntries]_vars

\* The refinement: each key's slot as FreshStore keeps it.
SlotIn(es, k) ==
    IF Places(es, k) = {} THEN Nothing
    ELSE [value  |-> es[Place(es, k)].value,
          stored |-> es[Place(es, k)].expires - TTL]

Content == [k \in Keys |-> SlotIn(entries, k)]

Fresh == INSTANCE FreshStore WITH content <- Content

\* What get answers was the last value put under that key, less than TTL ago:
\* the dict, its eviction order and its lazy expiry implement FreshStore.
AnswersFresh == Fresh!Spec
=============================================================================
