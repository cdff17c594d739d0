--------------------------- MODULE SessionProofs ---------------------------
(***************************************************************************)
(* Proofs about ReadSession for every set of connectors and column names,  *)
(* results of any width and height, and a driver failing at any step.      *)
(***************************************************************************)
EXTENDS ReadSession, FiniteSetTheorems, SequenceTheorems, TLAPS

\* What the statement gives is fixed for the session, and the connectors that
\* never see a repeated name are those whose languages cannot write one.
Asked ==
    /\ limit \in Nat /\ height \in Nat
    /\ columns \in UNION {[1..n -> Names] : n \in 1..MaxWidth}
    /\ backend \notin Dicts => ~Repeated

\* A session that is under way holds its connection, and nothing has failed yet.
UnderWay ==
    /\ pc \in {"connecting", "guarding", "ready", "fetching", "leaving", "over"}
    /\ pc # "over" => outcome = "pending"
    /\ pc = "connecting" => conn = "none"
    /\ pc \in {"guarding", "ready", "fetching"} => conn = "open"
    /\ pc \in {"connecting", "guarding", "ready", "fetching"} => failure = "none"
    /\ pc = "fetching" /\ backend # "mysql" => ~Repeated

Keys == {columns[i] : i \in DOMAIN columns}

\* The rows in hand are the answer.
Answered ==
    /\ reply.rows = IF height < limit THEN height ELSE limit
    /\ reply.keys = Keys
    /\ backend # "mysql" => ~Repeated

\* They are on the way out, unless something failed or the stream broke.
InHand ==
    /\ pc = "leaving" => failure \in {"none", "ExecutionError"}
    /\ pc = "leaving" /\ failure = "none" /\ whole => Answered
    /\ outcome = "none" /\ whole => Answered

\* The inductive invariant.
IInv == Asked /\ UnderWay /\ InHand /\ ConnectionsClosed /\ ErrorsTranslated

-----------------------------------------------------------------------------

\* A list of distinct names has as many names as places.
LEMMA DistinctNames ==
    ASSUME Asked, ~Repeated
    PROVE  Cardinality(Keys) = Len(columns)
<1>1. PICK n \in Nat : columns \in [1..n -> Names]
  BY SessionAssumption DEF Asked
<1>2. DOMAIN columns = 1..n
  BY <1>1
<1>3. columns \in Bijection(1..n, Keys)
  <2>1. columns \in Injection(1..n, Keys)
    BY <1>1, <1>2 DEF Repeated, Injection, IsInjective, Keys
  <2>2. columns \in Surjection(1..n, Keys)
    BY <1>1, <1>2 DEF Surjection, Keys
  <2> QED BY <2>1, <2>2 DEF Bijection
<1>4. IsFiniteSet(1..n) /\ Cardinality(1..n) = n
  BY FS_Interval
<1>5. Cardinality(Keys) = n
  BY <1>3, <1>4, FS_Bijection DEF ExistsBijection
<1>6. Len(columns) = n
  BY <1>1, SeqDef, LenProperties
<1> QED BY <1>5, <1>6

\* The invariant holds before the connection is made.
LEMMA InitInv == Init => IInv
<1> SUFFICES ASSUME Init PROVE IInv
  OBVIOUS
<1>1. limit \in Nat /\ height \in Nat
  BY SessionAssumption DEF Init
<1> QED BY <1>1
     DEF Init, IInv, Asked, UnderWay, InHand, Answered, ConnectionsClosed, ErrorsTranslated, Translated

\* Every step keeps the invariant.
LEMMA StepInv == IInv /\ [Next]_vars => IInv'
<1> SUFFICES ASSUME IInv, [Next]_vars PROVE IInv'
  OBVIOUS
<1>0. Asked /\ UnderWay /\ InHand /\ ConnectionsClosed /\ ErrorsTranslated
  BY DEF IInv
<1>q. UNCHANGED query
  BY DEF Next, Connect, ConnectFails, Guard, DriverFails, ConnectionLost, Execute, StreamBreaks,
     Fetch, Leave, vars
<1>a. Asked' /\ Repeated' = Repeated /\ Keys' = Keys
  BY <1>0, <1>q DEF query, Asked, Repeated, Keys
<1> USE <1>0, <1>q, <1>a DEF IInv, UnderWay, InHand, Answered, ConnectionsClosed, ErrorsTranslated,
                             Translated, query
<1>1. CASE Connect
  BY <1>1 DEF Connect
<1>2. CASE ConnectFails
  BY <1>2 DEF ConnectFails
<1>3. CASE Guard
  BY <1>3 DEF Guard
<1>4. CASE DriverFails
  BY <1>4 DEF DriverFails, Losses
<1>5. CASE ConnectionLost
  BY <1>5 DEF ConnectionLost
<1>6. CASE Execute
  BY <1>6 DEF Execute, Describe
<1>7. CASE StreamBreaks
  BY <1>7 DEF StreamBreaks
<1>8. CASE Fetch
  BY <1>8 DEF Fetch, Keys
<1>9. CASE Leave
  BY <1>9 DEF Leave, Left
<1>10. CASE UNCHANGED vars
  BY <1>10 DEF vars
<1> QED BY <1>1, <1>2, <1>3, <1>4, <1>5, <1>6, <1>7, <1>8, <1>9, <1>10 DEF Next

-----------------------------------------------------------------------------

\* For every connector and every step at which the driver may fail: a session
\* that is over has given its connection up, MySQL's excepted when it was lost
\* (sqlite.py:108-147, postgres.py:128-155, mysql.py:101-125, mongodb.py:118,
\* neo4j.py:126, influxdb.py:46, redis.py:74).
THEOREM SessionsGiveUpConnections == Spec => []ConnectionsClosed
<1>1. IInv => ConnectionsClosed
  BY DEF IInv
<1> QED BY <1>1, InitInv, StepInv, PTL DEF Spec

\* For every connector and every step at which the driver may fail: the caller
\* gets rows or an error of the project's, save for MySQL's rollback on a lost
\* connection (sqlite.py:108-147, postgres.py:128-155, mysql.py:101-125).
THEOREM SessionsTranslateErrors == Spec => []ErrorsTranslated
<1>1. IInv => ErrorsTranslated
  BY DEF IInv
<1> QED BY <1>1, InitInv, StepInv, PTL DEF Spec

\* For every result, of any width and height: an answer has the rows selected,
\* up to the limit, and a value for every column where repeated names are
\* refused (sqlite.py:134-140, postgres.py:143-149, mysql.py:113-117).
THEOREM SessionsAnswerWhole == Spec => []AnswersWhole
<1>1. IInv => AnswersWhole
  BY DistinctNames DEF IInv, InHand, Answered, AnswersWhole
<1> QED BY <1>1, InitInv, StepInv, PTL DEF Spec
=============================================================================
