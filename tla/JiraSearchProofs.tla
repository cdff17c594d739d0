-------------------------- MODULE JiraSearchProofs --------------------------
(***************************************************************************)
(* Proofs about JiraSearch for every list of issues, every row limit and   *)
(* whatever tokens the service hands out.                                  *)
(***************************************************************************)
EXTENDS JiraSearch, SequenceTheorems, TLAPS

\* The first n issues.
First(n) == SubSeq(Issues, 1, n)

\* While the service is honest, the rows in hand are the issues before the
\* place the next request reads from.
InStep == pc \in {"loop", "waiting"} /\ honest => rows = First(Place)

\* Every token handed out was carried by a request, save the one in hand.
TokensSpent ==
    /\ token \in seen \cup {NoToken}
    /\ pc = "loop" => asked = (seen \cup {NoToken}) \ {token}
    /\ pc = "waiting" => asked = seen \cup {NoToken}

\* The inductive invariant.
IInv == TypeOK /\ InStep /\ TokensSpent /\ FirstRows /\ PagesReadOnce

-----------------------------------------------------------------------------

\* Places are positions in the list of issues.
LEMMA PlaceType ==
    ASSUME TypeOK
    PROVE  Place \in 0..Len(Issues) /\ Len(Issues) \in Nat /\ limit \in Nat \ {0}
BY SearchAssumption DEF TypeOK, Place

\* The issues from one place to a later one.
LEMMA PageType ==
    ASSUME NEW m \in Nat, NEW n \in Nat, m + n <= Len(Issues)
    PROVE  /\ SubSeq(Issues, m + 1, m + n) \in Seq(Issue)
           /\ Len(SubSeq(Issues, m + 1, m + n)) = n
<1>0. Issues \in Seq(Issue) /\ Len(Issues) \in Nat
  BY SearchAssumption
<1>1. \A i \in m + 1 .. m + n : Issues[i] \in Issue
  BY <1>0
<1> QED BY <1>1, SubSeqProperties

\* A page that starts where the rows end continues them.
LEMMA PageContinues ==
    ASSUME NEW m \in Nat, NEW n \in Nat, m + n <= Len(Issues)
    PROVE  First(m) \o SubSeq(Issues, m + 1, m + n) = First(m + n)
<1>0. Issues \in Seq(Issue) /\ Len(Issues) \in Nat
  BY SearchAssumption
<1> QED BY <1>0, ConcatAdjacentSubSeq DEF First

\* rows[:limit] is never longer than the limit and keeps a list of issues one.
LEMMA CutType ==
    ASSUME TypeOK, NEW found \in Seq(Issue)
    PROVE  Cut(found) \in Seq(Issue) /\ Len(Cut(found)) <= limit
<1>0. limit \in Nat \ {0} /\ Len(found) \in Nat
  BY PlaceType
<1>1. CASE Len(found) <= limit
  BY <1>1 DEF Cut
<1>2. CASE ~(Len(found) <= limit)
  <2>1. \A i \in 1..limit : found[i] \in Issue
    BY <1>0, <1>2
  <2> QED BY <1>0, <1>2, <2>1, SubSeqProperties DEF Cut
<1> QED BY <1>1, <1>2

\* Cutting the first issues gives the first issues.
LEMMA CutFirst ==
    ASSUME TypeOK, NEW n \in 0..Len(Issues), n >= limit \/ n = Len(Issues)
    PROVE  Cut(First(n)) = First(IF limit < Len(Issues) THEN limit ELSE Len(Issues))
<1>0. /\ limit \in Nat \ {0} /\ Len(Issues) \in Nat /\ Issues \in Seq(Issue)
      /\ n \in Nat /\ n <= Len(Issues)
  BY PlaceType, SearchAssumption
<1>1. Len(First(n)) = n
  BY <1>0, PageType, 0 + n = n, 0 + 1 = 1 DEF First
<1>2. CASE n <= limit
  BY <1>0, <1>1, <1>2 DEF Cut
<1>3. CASE ~(n <= limit)
  <2>1. SubSeq(First(n), 1, limit) = First(limit)
    BY <1>0, <1>3, SubSeqOfSubSeq DEF First
  <2> QED BY <1>0, <1>1, <1>3, <2>1 DEF Cut
<1> QED BY <1>2, <1>3

-----------------------------------------------------------------------------

\* The invariant holds before the first request.
LEMMA InitInv == Init => IInv
<1> SUFFICES ASSUME Init PROVE IInv
  OBVIOUS
<1>1. TypeOK
  <2>1. reread \in BOOLEAN /\ honest \in BOOLEAN
    BY Zenon DEF Init
  <2>2. <<>> \in Seq(Issue)
    OBVIOUS
  <2>3. clock \in 0..Horizon
    BY SearchAssumption DEF Init
  <2> QED BY <2>1, <2>2, <2>3 DEF Init, TypeOK
<1>2. InStep
  <2>1. First(0) = <<>>
    BY SearchAssumption, SubSeqEmpty DEF First
  <2> QED BY <2>1 DEF Init, InStep, Place
<1>3. TokensSpent /\ PagesReadOnce
  BY DEF Init, TokensSpent, PagesReadOnce
<1>4. FirstRows
  BY <1>1, PlaceType DEF Init, FirstRows
<1> QED BY <1>1, <1>2, <1>3, <1>4 DEF IInv

\* What a response does, with the page it brings.
LEMMA ResponseInv ==
    ASSUME IInv, Response
    PROVE  IInv'
<1>0. /\ TypeOK /\ InStep /\ TokensSpent /\ FirstRows /\ PagesReadOnce /\ pc = "waiting"
      /\ Place \in Nat /\ Place <= Len(Issues) /\ Len(Issues) \in Nat /\ limit \in Nat \ {0}
  BY PlaceType DEF IInv, Response
<1>1. PICK n \in 0..Len(Issues) - Place, last \in BOOLEAN, next \in Tokens \cup {NoToken} :
          /\ Received(SubSeq(Issues, Place + 1, Place + n), last, next)
          /\ honest' = ( /\ honest
                         /\ IF last \/ next = NoToken THEN Place + n = Len(Issues)
                            ELSE PlaceOf[next] = Place + n )
  BY DEF Response
<1> DEFINE page == SubSeq(Issues, Place + 1, Place + n)
<1>2. limit' = limit /\ clock' = clock /\ asked' = asked /\ reread' = reread
  BY DEF Response, told
<1>a. n \in Nat /\ Place + n \in Nat /\ Place + n <= Len(Issues)
  BY <1>0
<1>3. page \in Seq(Issue) /\ n \in Nat /\ Place + n \in 0..Len(Issues)
  <2>1. page \in Seq(Issue)
    BY <1>0, <1>a, PageType
  <2> QED BY <1>0, <1>a, <2>1
<1>4. rows \o page \in Seq(Issue)
  BY <1>0, <1>3 DEF TypeOK
<1>5. honest => rows \o page = First(Place + n)
  <2>1. First(Place) \o page = First(Place + n)
    BY <1>0, <1>a, PageContinues
  <2> QED BY <1>0, <2>1 DEF InStep
<1>6. honest' \in BOOLEAN /\ reread' \in BOOLEAN
  BY <1>0, <1>1, <1>2, Zenon DEF TypeOK
<1>7. honest' => honest
  BY <1>1
<1>8. CASE last \/ next = NoToken
  <2>1. pc' = "returned" /\ reply' = Cut(rows \o page) /\ rows' = rows /\ token' = token /\ seen' = seen
    BY <1>1, <1>8 DEF Received, Return, local
  <2> HIDE DEF page
  <2>2. reply' \in Seq(Issue) /\ Len(reply') <= limit
    BY <1>0, <1>4, <2>1, CutType
  <2>3. TypeOK'
    BY <1>0, <1>2, <1>6, <2>1, <2>2 DEF TypeOK
  <2>4. FirstRows'
    <3>1. ASSUME honest' PROVE Place + n = Len(Issues)
      BY <1>1, <1>8, <3>1
    <3>2. ASSUME honest'
          PROVE  reply' = First(IF limit < Len(Issues) THEN limit ELSE Len(Issues))
      <4>1. rows \o page = First(Place + n)
        BY <1>5, <1>7, <3>2
      <4>2. Cut(First(Place + n)) = First(IF limit < Len(Issues) THEN limit ELSE Len(Issues))
        BY <1>0, <1>3, <3>1, <3>2, CutFirst
      <4> QED BY <2>1, <4>1, <4>2
    <3> QED BY <1>2, <2>2, <3>2 DEF FirstRows, First
  <2>5. InStep' /\ TokensSpent' /\ PagesReadOnce'
    BY <1>0, <1>2, <2>1 DEF InStep, TokensSpent, PagesReadOnce
  <2> QED BY <2>3, <2>4, <2>5 DEF IInv
<1>9. CASE ~(last \/ next = NoToken) /\ next \in seen
  <2>1. pc' = "failed" /\ reply' = reply /\ rows' = rows /\ token' = token /\ seen' = seen
    BY <1>1, <1>9 DEF Received, Fail, local
  <2>2. TypeOK'
    BY <1>0, <1>2, <1>6, <2>1 DEF TypeOK
  <2>3. FirstRows' /\ InStep' /\ TokensSpent' /\ PagesReadOnce'
    BY <1>0, <1>2, <2>1 DEF FirstRows, InStep, TokensSpent, PagesReadOnce
  <2> QED BY <2>2, <2>3 DEF IInv
<1>10. CASE ~(last \/ next = NoToken) /\ next \notin seen
  <2>1. /\ pc' = "loop" /\ reply' = reply /\ rows' = rows \o page
        /\ token' = next /\ seen' = seen \cup {next}
    BY <1>1, <1>10 DEF Received, Continue
  <2> HIDE DEF page
  <2>2. TypeOK'
    BY <1>0, <1>2, <1>4, <1>6, <1>10, <2>1 DEF TypeOK
  <2>3. InStep'
    <3>1. ASSUME honest' PROVE PlaceOf[next] = Place + n
      BY <1>1, <1>10, <3>1
    <3>2. Place' = PlaceOf[next]
      BY <1>10, <2>1 DEF Place
    <3> QED BY <1>5, <1>7, <2>1, <3>1, <3>2 DEF InStep, First
  <2>4. TokensSpent'
    BY <1>0, <1>2, <1>10, <2>1, SearchAssumption DEF TokensSpent
  <2>5. FirstRows' /\ PagesReadOnce'
    BY <1>0, <1>2, <2>1 DEF FirstRows, PagesReadOnce
  <2> QED BY <2>2, <2>3, <2>4, <2>5 DEF IInv
<1> QED BY <1>8, <1>9, <1>10

\* Every step keeps the invariant.
LEMMA StepInv == IInv /\ [Next]_vars => IInv'
<1> SUFFICES ASSUME IInv, [Next]_vars PROVE IInv'
  OBVIOUS
<1>0. TypeOK /\ InStep /\ TokensSpent /\ FirstRows /\ PagesReadOnce
  BY DEF IInv
<1>1. CASE Request
  <2>1. reread' \in BOOLEAN /\ honest' \in BOOLEAN
    BY <1>0, <1>1, Zenon DEF Request, TypeOK
  <2>2. /\ pc' = "waiting" /\ asked' = asked \cup {token} /\ honest' = honest /\ limit' = limit
        /\ rows' = rows /\ token' = token /\ seen' = seen /\ reply' = reply /\ clock' = clock
        /\ pc = "loop"
    BY <1>1 DEF Request, local
  <2>3. TypeOK'
    BY <1>0, <2>1, <2>2 DEF TypeOK
  <2>4. PagesReadOnce'
    <3>1. token \notin asked
      BY <1>0, <2>2 DEF TokensSpent
    <3> QED BY <1>0, <1>1, <3>1 DEF Request, PagesReadOnce
  <2>5. TokensSpent'
    BY <1>0, <2>2 DEF TokensSpent
  <2>6. InStep'
    BY <1>0, <2>2 DEF InStep, Place, First
  <2>7. FirstRows'
    BY <1>0, <2>2 DEF FirstRows
  <2> QED BY <2>3, <2>4, <2>5, <2>6, <2>7 DEF IInv
<1>2. CASE OutOfTime
  <2>1. /\ pc' = "failed" /\ limit' = limit /\ rows' = rows /\ token' = token /\ seen' = seen
        /\ reply' = reply /\ clock' = clock /\ asked' = asked /\ reread' = reread
        /\ honest' = honest
    BY <1>2 DEF OutOfTime, Fail, local, told
  <2>2. TypeOK'
    BY <1>0, <2>1 DEF TypeOK
  <2>3. FirstRows' /\ InStep' /\ TokensSpent' /\ PagesReadOnce'
    BY <1>0, <2>1 DEF FirstRows, InStep, TokensSpent, PagesReadOnce
  <2> QED BY <2>2, <2>3 DEF IInv
<1>3. CASE Enough
  <2>1. /\ pc' = "returned" /\ reply' = Cut(rows) /\ limit' = limit /\ rows' = rows
        /\ token' = token /\ seen' = seen /\ clock' = clock /\ asked' = asked
        /\ reread' = reread /\ honest' = honest /\ pc = "loop" /\ Len(rows) >= limit
    BY <1>3 DEF Enough, Return, local, told
  <2>2. reply' \in Seq(Issue) /\ Len(reply') <= limit
    BY <1>0, <2>1, CutType DEF TypeOK
  <2>3. TypeOK'
    BY <1>0, <2>1, <2>2 DEF TypeOK
  <2>4. FirstRows'
    <3>1. ASSUME honest'
          PROVE  reply' = First(IF limit < Len(Issues) THEN limit ELSE Len(Issues))
      <4>1. rows = First(Place)
        BY <1>0, <2>1, <3>1 DEF InStep
      <4>2. Place \in 0..Len(Issues) /\ Len(Issues) \in Nat
        BY <1>0, PlaceType
      <4>3. Len(First(Place)) = Place
        BY <4>2, PageType, 0 + Place = Place, 0 + 1 = 1 DEF First
      <4> QED BY <1>0, <2>1, <4>1, <4>2, <4>3, CutFirst
    <3> QED BY <2>1, <2>2, <3>1 DEF FirstRows, First
  <2>5. InStep' /\ TokensSpent' /\ PagesReadOnce'
    BY <1>0, <2>1 DEF InStep, TokensSpent, PagesReadOnce
  <2> QED BY <2>3, <2>4, <2>5 DEF IInv
<1>4. CASE Response
  BY <1>4, ResponseInv
<1>5. CASE RequestFails
  <2>1. /\ pc' = "failed" /\ limit' = limit /\ rows' = rows /\ token' = token /\ seen' = seen
        /\ reply' = reply /\ clock' = clock /\ asked' = asked /\ reread' = reread
        /\ honest' = honest
    BY <1>5 DEF RequestFails, Fail, local, told
  <2>2. TypeOK'
    BY <1>0, <2>1 DEF TypeOK
  <2>3. FirstRows' /\ InStep' /\ TokensSpent' /\ PagesReadOnce'
    BY <1>0, <2>1 DEF FirstRows, InStep, TokensSpent, PagesReadOnce
  <2> QED BY <2>2, <2>3 DEF IInv
<1>6. CASE Tick
  <2>1. /\ pc' = pc /\ limit' = limit /\ rows' = rows /\ token' = token /\ seen' = seen
        /\ reply' = reply /\ asked' = asked /\ reread' = reread /\ honest' = honest
    BY <1>6 DEF Tick, local, told
  <2>2. clock' \in 0..Horizon
    BY <1>0, <1>6, SearchAssumption DEF Tick, TypeOK
  <2>3. TypeOK'
    BY <1>0, <2>1, <2>2 DEF TypeOK
  <2>4. FirstRows' /\ TokensSpent' /\ PagesReadOnce'
    BY <1>0, <2>1 DEF FirstRows, TokensSpent, PagesReadOnce
  <2>5. InStep'
    BY <1>0, <2>1 DEF InStep, Place, First
  <2> QED BY <2>3, <2>4, <2>5 DEF IInv
<1>7. CASE UNCHANGED vars
  <2>1. /\ pc' = pc /\ limit' = limit /\ rows' = rows /\ token' = token /\ seen' = seen
        /\ reply' = reply /\ asked' = asked /\ reread' = reread /\ honest' = honest
        /\ clock' = clock
    BY <1>7 DEF vars, local, told
  <2>2. TypeOK' /\ FirstRows' /\ TokensSpent' /\ PagesReadOnce'
    BY <1>0, <2>1 DEF TypeOK, FirstRows, TokensSpent, PagesReadOnce
  <2>3. InStep'
    BY <1>0, <2>1 DEF InStep, Place, First
  <2> QED BY <2>2, <2>3 DEF IInv
<1> QED BY <1>1, <1>2, <1>3, <1>4, <1>5, <1>6, <1>7 DEF Next

-----------------------------------------------------------------------------

\* For every result, limit and service: the rows returned are within the limit
\* and, when the service continues where its pages end, the first rows of the
\* answer (jira.py:92-121).
THEOREM SearchReturnsFirstRows == Spec => []FirstRows
<1>1. IInv => FirstRows
  BY DEF IInv
<1> QED BY <1>1, InitInv, StepInv, PTL DEF Spec

\* For every service: no page is requested twice (jira.py:118-120).
THEOREM SearchReadsPagesOnce == Spec => []PagesReadOnce
<1>1. IInv => PagesReadOnce
  BY DEF IInv
<1> QED BY <1>1, InitInv, StepInv, PTL DEF Spec

\* For every service: the rows in hand, the tokens seen and the place kept are
\* what they are read as, wherever the service cuts its pages and whatever tokens
\* it makes up (jira.py:88-121).
THEOREM SearchTyped == Spec => []TypeOK
<1>1. IInv => TypeOK
  BY DEF IInv
<1> QED BY <1>1, InitInv, StepInv, PTL DEF Spec
=============================================================================
