---------------------------- MODULE ReadSession -----------------------------
(***************************************************************************)
(* The execute methods of the connectors (Jira's is JiraSearch) after      *)
(* verification: one connection opened, guarded, queried and given up,     *)
(* with the driver failing at any of these steps.                          *)
(***************************************************************************)
EXTENDS Naturals, Sequences, FiniteSets

CONSTANTS Backends,  \* connectors executing
          Names,     \* names a result column may have
          MaxWidth,  \* bound on the columns of a result
          MaxHeight  \* bound on the rows a statement selects and on the limit

ASSUME SessionAssumption ==
    /\ Backends \subseteq {"sqlite", "postgres", "mysql", "mongo", "neo4j", "influx", "redis"}
    /\ MaxWidth \in Nat /\ MaxHeight \in Nat

VARIABLES backend,
          limit,   \* the verified plan's row limit
          columns, \* the result's columns as the backend names them
          height,  \* how many rows the statement selects
          whole,   \* no error has come in the place of rows
          conn,    \* "none", "open", "lost" or "closed"
          guards,  \* what protects the session so far
          pc,
          failure, \* the exception in flight, "none" without one
          reply,   \* rows returned: how many, and the keys of each
          outcome  \* what the caller got

query   == <<backend, limit, columns, height>>
vars    == <<query, whole, conn, guards, pc, failure, reply, outcome>>

Nothing == [rows |-> 0, keys |-> {}]

\* Backends whose statements may name two columns alike.
Dicts == {"sqlite", "postgres", "mysql"}

Repeated == \E i, j \in DOMAIN columns : i # j /\ columns[i] = columns[j]

Init == /\ backend \in Backends
        /\ limit \in 1..MaxHeight
        /\ columns \in UNION {[1..n -> Names] : n \in 1..MaxWidth}
        /\ height \in 0..MaxHeight
        /\ backend \notin Dicts => ~Repeated
        /\ backend = "redis" => height <= limit \* a command has the limit in it
        /\ whole = TRUE
        /\ conn = "none"
        /\ guards = <<>>
        /\ pc = "connecting"
        /\ failure = "none"
        /\ reply = Nothing
        /\ outcome = "pending"

\* What each session is put under before the statement, in order.
Guards == CASE backend = "sqlite"   -> <<"query_only", "progress_handler", "authorizer">>
            [] backend = "postgres" -> <<"read_only", "statement_timeout">>
            [] backend = "mysql"    -> <<"max_execution_time", "read_only">>
            [] OTHER                -> <<>> \* nothing is sent before the query

\* Only a local database cannot be lost.
Losses == IF backend = "sqlite" THEN {"open"} ELSE {"open", "lost"}

-----------------------------------------------------------------------------

Connect ==
    /\ pc = "connecting"
    /\ conn' = "open"
    /\ pc' = IF Guards = <<>> THEN "ready" ELSE "guarding"
    /\ UNCHANGED <<query, whole, guards, failure, reply, outcome>>

\* No connection to give up: the driver is missing or cannot connect.  SQLite's
\* is never missing, and Neo4j's is imported first inside the handlers
\* (neo4j.py:124-137).
ConnectFails ==
    /\ pc = "connecting"
    /\ outcome' \in {"ExecutionError"}
                   \cup (IF backend \in {"sqlite", "neo4j"} THEN {} ELSE {"ConfigurationError"})
    /\ pc' = "over"
    /\ UNCHANGED <<query, whole, conn, guards, failure, reply>>

Guard ==
    /\ pc = "guarding"
    /\ guards' = SubSeq(Guards, 1, Len(guards) + 1)
    /\ pc' = IF guards' = Guards THEN "ready" ELSE "guarding"
    /\ UNCHANGED <<query, whole, conn, failure, reply, outcome>>

\* A driver's error, a deadline or a lost connection, wherever the driver is
\* called: the handlers turn it into an ExecutionError.
DriverFails ==
    /\ pc \in {"guarding", "ready", "fetching"}
    /\ conn' \in Losses
    /\ failure' = "ExecutionError"
    /\ pc' = "leaving"
    /\ UNCHANGED <<query, whole, guards, reply, outcome>>

\* The connection goes while the transaction is being ended: PostgreSQL's commit
\* fails inside the handlers, MySQL's rollback outside them; the others have
\* nothing to end.
ConnectionLost ==
    /\ pc = "leaving"
    /\ backend # "sqlite" /\ conn = "open"
    /\ conn' = "lost"
    /\ failure' = IF backend = "postgres" THEN "ExecutionError" ELSE failure
    /\ UNCHANGED <<query, whole, guards, pc, reply, outcome>>

\* Faulty form: nobody looks at the column names.
DescribeTrusting ==
    /\ pc' = "fetching"
    /\ UNCHANGED failure

\* SQLite and PostgreSQL refuse a result that names two columns alike, since
\* its rows become dicts; MySQL does not look.
Describe ==
    IF backend # "mysql" /\ Repeated
    THEN pc' = "leaving" /\ failure' = "ExecutionError"
    ELSE pc' = "fetching" /\ UNCHANGED failure

\* The statement runs and its description is read.
Execute ==
    /\ pc = "ready"
    /\ Describe
    /\ UNCHANGED <<query, whole, conn, guards, reply, outcome>>

\* The rows come as text, and an error after the first of them comes as one more
\* table of it, which the reader takes for rows (influxdb.py:60-71).
StreamBreaks ==
    /\ pc = "fetching"
    /\ backend = "influx"
    /\ \E n \in 1..height :
           reply' = [rows |-> IF n < limit THEN n ELSE limit,
                     keys |-> {columns[i] : i \in DOMAIN columns}]
    /\ whole' = FALSE
    /\ pc' = "leaving"
    /\ UNCHANGED <<query, conn, guards, failure, outcome>>

\* Rows up to the limit, as dicts: a repeated name keeps one value.
Fetch ==
    /\ pc = "fetching"
    /\ reply' = [rows |-> IF height < limit THEN height ELSE limit,
                 keys |-> {columns[i] : i \in DOMAIN columns}]
    /\ pc' = "leaving"
    /\ UNCHANGED <<query, whole, conn, guards, failure, outcome>>

\* Faulty form: a failure leaves without closing.
LeftOpenOnFailure ==
    IF failure = "none" THEN conn' = "closed" /\ outcome' = "none"
    ELSE UNCHANGED conn /\ outcome' = failure

\* Faulty form: every connector rolls back as MySQL's does.
LeftRollingBack ==
    IF conn = "lost" THEN UNCHANGED conn /\ outcome' = "InterfaceError"
    ELSE conn' = "closed" /\ outcome' = failure

\* The way out.  SQLite closes; the context managers of the others end what
\* there is to end and close; MySQL rolls back before it closes, and on a lost
\* connection the rollback raises an error of the driver's own, which replaces
\* the one in flight (mysql.py:122-125).
Left ==
    IF backend = "mysql" /\ conn = "lost"
    THEN UNCHANGED conn /\ outcome' = "InterfaceError"
    ELSE conn' = "closed" /\ outcome' = failure

Leave ==
    /\ pc = "leaving"
    /\ Left
    /\ pc' = "over"
    /\ reply' = IF outcome' = "none" THEN reply ELSE Nothing
    /\ UNCHANGED <<query, whole, guards, failure>>

Next == \/ Connect \/ ConnectFails \/ Guard \/ DriverFails \/ ConnectionLost
        \/ Execute \/ StreamBreaks \/ Fetch \/ Leave

Spec == Init /\ [][Next]_vars
-----------------------------------------------------------------------------

\* docs/adding_connectors.md:31: connections are closed in failure paths too.  No
\* session leaves one open (sqlite.py:108-147, postgres.py:128-155,
\* mysql.py:101-125, mongodb.py:118, neo4j.py:126, influxdb.py:46,
\* redis.py:74); MySQL's leaves a lost one unclosed.
ConnectionsClosed ==
    pc = "over" => conn \in {"none", "closed"} \cup IF backend = "mysql" THEN {"lost"} ELSE {}

Translated == {"pending", "none", "ConfigurationError", "ExecutionError"}

\* docs/adding_connectors.md:31: raw driver failures are translated, wherever
\* they happen, with one exception: MySQL's rollback on a connection that was
\* lost (sqlite.py:108-147, postgres.py:128-155, mysql.py:101-125).
ErrorsTranslated ==
    \/ outcome \in Translated
    \/ backend = "mysql" /\ conn = "lost"

\* docs/adding_connectors.md:31 as it stands, of MySQL too.
EveryErrorTranslated == outcome \in Translated

\* An answer is whole: it has the first rows the statement selects, up to the
\* limit, and where repeated names are refused, each row has a value for every
\* column (sqlite.py:134-140, postgres.py:143-149, mysql.py:113-117,
\* neo4j.py:130-135, redis.py:75-101).  InfluxDB's is excepted once its stream
\* has broken.
AnswersWhole ==
    outcome = "none" /\ whole =>
        /\ reply.rows = IF height < limit THEN height ELSE limit
        /\ backend # "mysql" => Cardinality(reply.keys) = Len(columns)

\* The same with no exception: partial answers are no answers.
EveryAnswerWhole == outcome = "none" => whole
=============================================================================
