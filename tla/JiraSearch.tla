----------------------------- MODULE JiraSearch -----------------------------
(***************************************************************************)
(* connectors/jira.py, JiraConnector.execute after verification: the       *)
(* pagination loop against a search service that may fail, answer short or *)
(* empty pages, answer more than was asked, end early or late, and hand    *)
(* out continuation tokens that lead back to pages already read.           *)
(***************************************************************************)
EXTENDS Naturals, Sequences, FiniteSets

CONSTANTS Issue,    \* the issues there are
          Issues,   \* what the query matches, in the service's order
          Limits,   \* row limits a verified plan may have
          Tokens,   \* continuation tokens the service hands out
          PlaceOf,  \* how many issues precede the page a token names
          NoToken,  \* a response without nextPageToken
          Budget,   \* policy.max_execution_seconds
          Horizon   \* bound on the clock

ASSUME SearchAssumption ==
    /\ Issues \in Seq(Issue)
    /\ Limits \subseteq Nat \ {0}
    /\ IsFiniteSet(Tokens)
    /\ NoToken \notin Tokens
    /\ PlaceOf \in [Tokens -> 0..Len(Issues)]
    /\ Budget \in Nat /\ Horizon \in Nat

VARIABLES limit,   \* canonical.plan.ir.limit
          rows, token, seen,
          pc,      \* "loop", "waiting", "returned" or "failed"
          reply,   \* the rows returned
          clock,   \* seconds since the deadline was set
          asked,   \* tokens requests have carried
          reread,  \* whether two requests carried the same one
          honest   \* whether every response continued where its page ended

local == <<rows, token, seen>>
told  == <<asked, reread>>
vars  == <<limit, local, pc, reply, clock, told, honest>>

Init == /\ limit \in Limits
        /\ rows = <<>>
        /\ token = NoToken
        /\ seen = {}
        /\ pc = "loop"
        /\ reply = <<>>
        /\ clock = 0
        /\ asked = {}
        /\ reread = FALSE
        /\ honest = TRUE

Place == IF token = NoToken THEN 0 ELSE PlaceOf[token]

\* rows[:limit]
Cut(found) == IF Len(found) <= limit THEN found ELSE SubSeq(found, 1, limit)

Return(found) == pc' = "returned" /\ reply' = Cut(found) /\ UNCHANGED local
Fail          == pc' = "failed" /\ UNCHANGED <<reply, local>>

-----------------------------------------------------------------------------

Request ==
    /\ pc = "loop"
    /\ Len(rows) < limit
    /\ clock < Budget
    /\ asked' = asked \cup {token}
    /\ reread' = (reread \/ token \in asked)
    /\ pc' = "waiting"
    /\ UNCHANGED <<limit, local, reply, clock, honest>>

OutOfTime ==
    /\ pc = "loop"
    /\ Len(rows) < limit
    /\ clock >= Budget
    /\ Fail
    /\ UNCHANGED <<limit, clock, told, honest>>

Enough ==
    /\ pc = "loop"
    /\ Len(rows) >= limit
    /\ Return(rows)
    /\ UNCHANGED <<limit, clock, told, honest>>

Continue(page, next) ==
    /\ rows' = rows \o page
    /\ token' = next
    /\ seen' = seen \cup {next}
    /\ pc' = "loop"
    /\ UNCHANGED reply

\* Faulty form: an empty page ends the search.
ReceivedUntilEmpty(page, last, next) ==
    IF last \/ next = NoToken \/ page = <<>> THEN Return(rows \o page)
    ELSE IF next \in seen THEN Fail
    ELSE Continue(page, next)

\* Faulty form: repeated tokens are followed.
ReceivedTrusting(page, last, next) ==
    IF last \/ next = NoToken THEN Return(rows \o page) ELSE Continue(page, next)

\* Faulty form: the end of the pages is told by isLast alone.
ReceivedUntilLast(page, last, next) ==
    IF last THEN Return(rows \o page)
    ELSE IF next \in seen THEN Fail
    ELSE Continue(page, next)

\* What the loop does with a response: stop at the last page, refuse a token
\* seen before even when there are rows enough, go on otherwise.
Received(page, last, next) ==
    IF last \/ next = NoToken THEN Return(rows \o page)
    ELSE IF next \in seen THEN Fail
    ELSE Continue(page, next)

\* The service answers with some of the issues from the token's place on.
Response ==
    /\ pc = "waiting"
    /\ \E n \in 0..Len(Issues) - Place, last \in BOOLEAN, next \in Tokens \cup {NoToken} :
          /\ Received(SubSeq(Issues, Place + 1, Place + n), last, next)
          /\ honest' = ( /\ honest
                         /\ IF last \/ next = NoToken THEN Place + n = Len(Issues)
                            ELSE PlaceOf[next] = Place + n )
    /\ UNCHANGED <<limit, clock, told>>

\* An HTTP error, a timeout or a body that is not what was expected.
RequestFails ==
    /\ pc = "waiting"
    /\ Fail
    /\ UNCHANGED <<limit, clock, told, honest>>

Tick ==
    /\ clock < Horizon
    /\ clock' = clock + 1
    /\ UNCHANGED <<limit, local, pc, reply, told, honest>>

Over == pc \in {"returned", "failed"}

Next == Request \/ OutOfTime \/ Enough \/ Response \/ RequestFails \/ Tick

\* The loop runs on, and the HTTP client's timeout ends every request in an
\* answer or an error.  Nothing is assumed of the clock.
Fairness == /\ WF_vars(Request \/ OutOfTime \/ Enough)
            /\ WF_vars(Response \/ RequestFails)

Spec == Init /\ [][Next]_vars /\ Fairness
-----------------------------------------------------------------------------

\* Types of the loop's state.
TypeOK ==
    /\ limit \in Limits
    /\ rows \in Seq(Issue)
    /\ reply \in Seq(Issue)
    /\ token \in Tokens \cup {NoToken}
    /\ seen \subseteq Tokens
    /\ asked \subseteq Tokens \cup {NoToken}
    /\ pc \in {"loop", "waiting", "returned", "failed"}
    /\ clock \in 0..Horizon
    /\ reread \in BOOLEAN /\ honest \in BOOLEAN

\* The result never has more rows than the plan asked for; and if every response
\* continued where its page ended, however short, empty or long the pages were,
\* it is the first rows of the answer: none skipped, none doubled, none missing
\* (jira.py:92-121).
FirstRows ==
    /\ Len(reply) <= limit
    /\ pc = "returned" /\ honest =>
           reply = SubSeq(Issues, 1, IF limit < Len(Issues) THEN limit ELSE Len(Issues))

\* No page is requested twice, whatever tokens come back (jira.py:118-120).
PagesReadOnce == ~reread

\* The search ends though the clock may stand still and the service may hand
\* out tokens in circles (jira.py:92-121).
Ends == <>Over
=============================================================================
