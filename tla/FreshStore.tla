----------------------------- MODULE FreshStore -----------------------------
(***************************************************************************)
(* What a time-limited cache promises its callers, with no mechanism: it   *)
(* may forget anything at any time, but what it does answer is the value   *)
(* stored last under that key, stored less than TTL ago.  TTLCache is      *)
(* shown to implement this module.                                         *)
(***************************************************************************)
EXTENDS Naturals

CONSTANTS Keys,     \* the keys callers use
          Values,   \* the values callers store
          TTL,      \* how long a stored value may be answered
          Nothing   \* the answer that is no value

VARIABLES content,  \* what is remembered under each key
          now,      \* the time
          reply     \* the answer to the last lookup

vars == <<content, now, reply>>

Slots == [value: Values, stored: Nat]

\* The slots with any number of keys forgotten.
MayForget(after) == \A k \in Keys : content'[k] \in {after[k], Nothing}

Init == /\ content = [k \in Keys |-> Nothing]
        /\ now \in Nat
        /\ reply = Nothing

Lookup(k) ==
    /\ content' \in [Keys -> Slots \cup {Nothing}]
    /\ MayForget(content)
    /\ reply' = IF content[k] # Nothing /\ now < content[k].stored + TTL
                THEN content[k].value
                ELSE Nothing
    /\ UNCHANGED now

Store(k, v) ==
    /\ content' \in [Keys -> Slots \cup {Nothing}]
    /\ content'[k] = [value |-> v, stored |-> now]
    /\ MayForget([content EXCEPT ![k] = [value |-> v, stored |-> now]])
    /\ UNCHANGED <<now, reply>>

Clear == /\ content' = [k \in Keys |-> Nothing]
         /\ UNCHANGED <<now, reply>>

Age == /\ now' \in Nat
       /\ now' >= now
       /\ UNCHANGED <<content, reply>>

Next == \/ \E k \in Keys : Lookup(k)
        \/ \E k \in Keys, v \in Values : Store(k, v)
        \/ Clear
        \/ Age

Spec == Init /\ [][Next]_vars
=============================================================================
