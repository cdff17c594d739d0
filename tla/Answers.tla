------------------------------- MODULE Answers -------------------------------
(***************************************************************************)
(* From a question to its result: the plan and the statement of Grounding, *)
(* the connector that runs the statement (connectors/*.py, execute), and   *)
(* what the client makes of the rows (api.py, execute).  What the backend  *)
(* answers is compared with what the plan says, evaluated by itself.       *)
(* Verification and sessions that fail are Facade's and ReadSession's.     *)
(***************************************************************************)
EXTENDS Grounding, Backends

VARIABLES answer, \* the rows the connector returns, or its error
          result  \* the QueryResult

vars == <<groundingVars, answer, result>>

NoStore   == [rows |-> <<>>] \* nothing is asked of a backend
NoAnswer  == [error |-> "pending", rows |-> <<>>]
NoResult  == [rows |-> <<>>]

Init == InitGrounding /\ answer = NoAnswer /\ result = NoResult

-----------------------------------------------------------------------------
(* Connectors                                                              *)

Returned(rows) == [error |-> "none", rows |-> rows]
Failed         == [error |-> "ExecutionError", rows |-> <<>>]

Smaller(a, b) == IF a < b THEN a ELSE b

\* Rows become dicts, so columns of one name are refused.
SqlSession(q, st) ==
    IF SqlFails(st) \/ ~IsInjective(SqlNames(st)) THEN Failed
    ELSE Returned(Page(SqlAnswer(st, ask.store), 0, Smaller(Policy.max_rows, q.limit)))

MongoSession(q, pipeline) ==
    Returned(Page(MongoAnswer(pipeline, q.sources[1], ask.store), 0, q.limit))

GraphSession(q, st) == Returned(Page(CypherAnswer(st, schema, ask.store), 0, q.limit))

SeriesSession(q, st) == Returned(Page(FluxAnswer(st, schema, ask.store), 0, q.limit))

Beneath(name, row) == [n \in {<<name>> \o k : k \in DOMAIN row} |-> row[Tail(n)]]

\* Entries of a stream or an index have an identifier of their own.
Identified(reply) ==
    [i \in DOMAIN reply |-> (<<"id">> :> Scalar("int", i)) @@ Beneath("fields", reply[i])]

Columns(reply, names) == [i \in DOMAIN reply |-> [n \in names |-> reply[i][n]]]

\* A row for the whole of a hash or a document, a row for each of what else a
\* key holds.
Shaped(command, reply) ==
    CASE command[1] = "HMGET" ->
             <<[n \in ToSet(SubSeq(command, 3, Len(command))) |->
                   reply[SelectLastInSeq(SubSeq(command, 3, Len(command)), LAMBDA f : f = n)]]>>
      [] command[1] = "ZRANGE"      -> Columns(reply, {<<"member">>, <<"score">>})
      [] command[1] = "SRANDMEMBER" -> Columns(reply, {<<"member">>})
      [] command[1] = "JSON.GET"    -> <<Beneath("document", reply)>>
      [] OTHER                      -> Identified(reply)

RedisSession(command) ==
    Returned(Shaped(command, RedisReply(command, schema, ask.store)))

Session(q, st) ==
    CASE ask.backend \in Relational -> SqlSession(q, st)
      [] ask.backend = "mongo"      -> MongoSession(q, st)
      [] ask.backend = "neo4j"      -> GraphSession(q, st)
      [] ask.backend = "influx"     -> SeriesSession(q, st)
      [] ask.backend = "redis"      -> RedisSession(st)

Run == /\ phase = "replanned"
       /\ ask.store # NoStore
       /\ answer' = Session(again.ir, query.statement)
       /\ phase' = IF answer'.error = "none" THEN "answered" ELSE "failed"
       /\ UNCHANGED <<ask, plan, again, query, result>>

\* Faulty form: a full result is one that meets the policy's bound.
NormalisedByPolicy(rows, q) ==
    LET kept == Page(rows, 0, Smaller(Policy.max_rows, q.limit))
    IN  [rows |-> kept, columns |-> IF kept = <<>> THEN {} ELSE DOMAIN kept[1],
         limit_reached |-> Len(kept) = Policy.max_rows]

\* The client cuts the rows again and reports whether they are as many as the
\* proposal's plan allows.
Normalised(rows, q) ==
    LET kept == Page(rows, 0, Smaller(Policy.max_rows, q.limit))
    IN  [rows |-> kept, columns |-> IF kept = <<>> THEN {} ELSE DOMAIN kept[1],
         limit_reached |-> Len(kept) = q.limit]

Normalise == /\ phase = "answered"
             /\ result' = Normalised(answer.rows, plan.ir)
             /\ phase' = "returned"
             /\ UNCHANGED <<ask, plan, again, query, answer>>

Next == \/ NextGrounding /\ UNCHANGED <<answer, result>>
        \/ Run
        \/ Normalise

Spec == Init /\ [][Next]_vars

-----------------------------------------------------------------------------
(* What a plan says, of the rows in the store                              *)

\* Rows of several sources together where every relationship holds.
Together(q) ==
    LET upto[k \in 1..Len(q.sources)] ==
            IF k = 1 THEN Qualified(ask.store, q.sources[1])
            ELSE LET others == Qualified(ask.store, q.sources[k])
                 IN  FlattenSeq([i \in DOMAIN upto[k - 1] |->
                         [j \in DOMAIN others |-> upto[k - 1][i] @@ others[j]]])
        Related(row, e) == Same(row[e.source \o e.source_field], row[e.target \o e.target_field])
    IN  SelectSeq(upto[Len(q.sources)], LAMBDA row :
            \A i \in DOMAIN q.joins : Related(row, Edge(schema, q.joins[i].rel)))

\* The pairs of nodes a traversal leads through, from the first source to the
\* other one.
Connected(q) ==
    LET t     == q.traversal
        walks == SetToSeq({w \in Walks(Edge(schema, t.rel), ask.store.links[t.rel],
                                       t.direction, t.min_depth, t.max_depth) :
                     w[1].from[1] = q.sources[1] /\ Last(w).to[1] = q.sources[2]})
    IN  [i \in DOMAIN walks |-> Qualified(ask.store, q.sources[1])[walks[i][1].from[2]]
                               @@ Qualified(ask.store, q.sources[2])[Last(walks[i]).to[2]]]

Unfolded(q) == FoldLeft(Unwound, IF Traverses(q) THEN Connected(q) ELSE Together(q), q.unwind)

Meant(q) == Having(Unfolded(q), q.predicate)

\* Every output by name: those asked for, or every field of the sources.
Outputs(q) ==
    LET Output(form, field, other, alias) ==
            [form |-> form, field |-> field, other |-> other, alias |-> alias]
        columns == [i \in DOMAIN q.projections |->
                       Output("column", q.projections[i].field, NoName, q.projections[i].alias)]
        made    == (IF HasWindow(q) THEN <<Output("bucket", q.window.field, <<q.window.every>>,
                                                  q.window.alias)>> ELSE <<>>)
                   \o [i \in DOMAIN q.metrics |-> Output(q.metrics[i].agg, q.metrics[i].field,
                                                       NoName, q.metrics[i].alias)]
                   \o [i \in DOMAIN q.calculations |->
                          Output(q.calculations[i].op, q.calculations[i].left,
                                 q.calculations[i].right, q.calculations[i].alias)]
        Plain(names) == [i \in DOMAIN names |-> ColumnOutput(names[i])]
    IN  IF columns \o made \o q.dimensions = <<>>
        THEN Plain(FlattenSeq([i \in DOMAIN q.sources |-> FieldNames(schema, q.sources[i])]))
        ELSE (IF columns = <<>> THEN Plain(q.dimensions) ELSE columns) \o made

Promised(q, outputs) ==
    Tabulated(GroupedBy(Meant(q), q.dimensions, outputs), outputs, q.sort, q.distinct)

\* Plans whose rows are not settled by the plan: grouped or distinct rows shown
\* or sorted by what differs within a group, which the planner refuses only of
\* aggregates (planner.py:172-176, 219-222).
Settled(q) ==
    LET grouped == ToSet(q.dimensions)
        shown   == FieldsOf(Outputs(q))
    IN  /\ grouped # {} => ToSet(FieldsOf(q.projections)) \subseteq grouped
        /\ grouped # {} \/ q.distinct =>
               ToSet(FieldsOf(q.sort)) \subseteq grouped \cup ToSet(Aliases(q)) \cup ToSet(shown)

-----------------------------------------------------------------------------
(* Where the code is known to answer otherwise                             *)

\* Rows are sorted before they are renamed, so an alias is the name of no
\* field yet and the rows stay as they came (mongo.py:101-123).
SortsByRename(q) ==
    /\ ask.backend = "mongo" /\ ~Mongo!Grouped(q)
    /\ \E s \in ToSet(q.sort) : s.field \in ToSet(Aliases(q))

\* A field sorted by twice is one key of a dict, in its first place with its
\* last direction (mongo.py:104-108).
SortsTwice(q) == ask.backend = "mongo" /\ ~IsInjective(FieldsOf(q.sort))

\* Two outputs of one name are one key of a dict (mongo.py:80-81, 98, 120).
NamesCollide(q) ==
    /\ ask.backend = "mongo"
    /\ LET entries == IF ~Mongo!Grouped(q) THEN Mongo!OutputEntries(q)
                      ELSE Mongo!GroupEntries(q) \o [i \in DOMAIN q.metrics |->
                               Mongo!Entry(q.metrics[i].alias, NoName)]
       IN  ~IsInjective([i \in DOMAIN entries |-> entries[i].key])

\* Cypher groups by what is returned and Flux by nothing without an aggregate,
\* so dimensions that are not shown, or shown alone, do not group
\* (cypher.py:94-104, influx.py:98-116).
GroupsLost(q) ==
    \/ /\ ask.backend = "neo4j" /\ q.dimensions # <<>>
       /\ \/ q.metrics = <<>> /\ ~q.distinct
          \/ q.projections # <<>> /\ ToSet(FieldsOf(q.projections)) # ToSet(q.dimensions)
    \/ ask.backend = "influx" /\ q.dimensions # <<>> /\ q.metrics = <<>>

\* A point has one value: rows that are not aggregated come apart, and what is
\* no value of the measurement aggregates to nothing (influx.py:94-99).
ValuesApart(q) ==
    /\ ask.backend = "influx"
    /\ IF q.metrics # <<>>
       THEN Flux!Roles(Source(schema, q.sources[1]), q.metrics[1].field) # {"field"}
       ELSE Cardinality({f \in Source(schema, q.sources[1]).fields : f.role = "field"}) # 1

\* Flux calls a point's time, value and window by names of its own
\* (influx.py:117-127).
SortsByNoColumn(q) ==
    /\ ask.backend = "influx"
    /\ \E s \in ToSet(q.sort) :
           /\ s.field \notin ToSet(q.dimensions)
           /\ s.field \notin {m.alias : m \in ToSet(q.metrics)}
           /\ q.metrics = <<>> => Flux!Roles(Source(schema, q.sources[1]), s.field) # {"tag"}

\* An aggregate of nothing is a row in SQL and Cypher and none elsewhere.
Empty(q) ==
    /\ ask.backend \in {"mongo", "influx"}
    /\ q.metrics # <<>> /\ q.dimensions = <<>> /\ Meant(q) = <<>>

KnownToDiffer(q) ==
    \/ SortsByRename(q) \/ SortsTwice(q) \/ NamesCollide(q)
    \/ GroupsLost(q) \/ ValuesApart(q) \/ SortsByNoColumn(q)
    \/ Empty(q)

-----------------------------------------------------------------------------

\* The rows can be read as the lines: every output has a column, by its alias
\* if it has one.  Flux's windows have other columns of their own.
ReadsAs(rows, lines, outputs) ==
    LET columns == UNION {DOMAIN rows[i] : i \in DOMAIN rows}
        compared == {o \in DOMAIN outputs : ask.backend # "influx" \/ outputs[o].form # "bucket"}
        Shows(c, o) == /\ outputs[o].alias \in {NoName, c}
                       /\ \A i \in DOMAIN rows : Same(Value(rows[i], c), lines[i][o])
    IN  /\ Len(rows) = Len(lines)
        /\ rows # <<>> => \A o \in compared : \E c \in columns : Shows(c, o)

PlanAnswered(q, outputs) ==
    ReadsAs(result.rows, Page(Promised(q, outputs), q.offset, q.limit), outputs)

\* What is returned is what the plan says: the rows that satisfy the predicate,
\* related, unwound, grouped and aggregated as asked, in the order asked, the
\* page asked for, and each output in a column of its name.  No compiler drops
\* a part of a plan it accepts: docs/user_manual.md:11, "Unsupported requests
\* fail rather than becoming plausible but incorrect backend operations"
\* (compilers/*.py).
AnswerAsPlanned ==
    phase = "returned" /\ Settled(plan.ir) /\ ~KnownToDiffer(plan.ir) =>
        PlanAnswered(plan.ir, Outputs(plan.ir))

\* The same without the exceptions.
AlwaysAsPlanned ==
    phase = "returned" /\ Settled(plan.ir) => PlanAnswered(plan.ir, Outputs(plan.ir))

\* A result that does not report its limit reached leaves nothing out, and none
\* is longer than the limit (api.py:205-227).
LimitTold ==
    phase = "returned" /\ Settled(plan.ir) /\ ~KnownToDiffer(plan.ir) =>
        /\ Len(result.rows) <= plan.ir.limit
        /\ ~result.limit_reached =>
               Len(Promised(plan.ir, Outputs(plan.ir))) <= plan.ir.offset + Len(result.rows)

-----------------------------------------------------------------------------
(* What verification can see                                               *)

\* What a connector takes from the plan beside the statement.
Beside(q) ==
    CASE ask.backend \in Relational -> [sources |-> ToSet(q.sources), limit |-> q.limit]
      [] ask.backend = "mongo"      -> [collection |-> q.sources[1], limit |-> q.limit]
      [] ask.backend \in {"neo4j", "influx"} -> [limit |-> q.limit]
      [] ask.backend = "redis"      -> [limit |-> 0]

\* The same question of another source.
Moved(q, s) ==
    LET M(n) == IF IsStrictPrefix(q.sources[1], n)
                THEN s \o SubSeq(n, Len(q.sources[1]) + 1, Len(n)) ELSE n
        MF(items) == [i \in DOMAIN items |-> [items[i] EXCEPT !.field = M(@)]]
    IN  [q EXCEPT !.sources = <<s>>, !.projections = MF(@), !.metrics = MF(@), !.sort = MF(@),
                  !.dimensions = [i \in DOMAIN @ |-> M(@[i])],
                  !.unwind = [i \in DOMAIN @ |-> M(@[i])],
                  !.predicate = [i \in DOMAIN @ |-> [@[i] EXCEPT !.test.field = M(@)]]]

\* The IRs a proposal may be edited to that differ in one thing.
Edits(q) ==
    {[q EXCEPT !.limit = l] : l \in {q.limit - 1, q.limit + 1} \ {0}}
    \cup {[q EXCEPT !.offset = 1 - q.offset], [q EXCEPT !.distinct = ~q.distinct],
          [q EXCEPT !.predicate = <<>>]}
    \cup (IF q.sort = <<>> THEN {} ELSE {[q EXCEPT !.sort = Tail(@)],
                                         [q EXCEPT !.sort[1].desc = ~@]})
    \cup (IF q.projections = <<>> THEN {} ELSE {[q EXCEPT !.projections = Tail(@)]})
    \cup (IF q.dimensions = <<>> THEN {} ELSE {[q EXCEPT !.dimensions = Tail(@)]})
    \cup (IF Traverses(q) THEN {[q EXCEPT !.traversal.direction = d] : d \in {"out", "in", "both"}}
          ELSE {})

Elsewhere(q) ==
    IF Len(q.sources) > 1 THEN {} ELSE {Moved(q, s) : s \in SourceNames(schema)}

\* An edit of the plan either shows in the statement or changes nothing the
\* connector does, since the statement is all verification compares.
ShowsOrMatters(edits) ==
    \A e \in edits :
        LET p == BuildPlan(e, schema, Capabilities(ask.backend), Policy, EmptyCatalog,
                           plan.reference)
        IN  p.error = "none" /\ Compile(ask.backend, p.ir, schema, Policy) = query
                => Beside(p.ir) = Beside(plan.ir)

\* No edit of a proposal's IR passes verification and changes what is run
\* (connectors/base.py:37-42).  A MongoDB pipeline does not name its
\* collection, and is excepted where the edit moves it to another one.
EditsShow ==
    phase = "proposed" =>
        ShowsOrMatters(Edits(plan.ir)
                       \cup IF ask.backend = "mongo" THEN {} ELSE Elsewhere(plan.ir))

\* base.py:24, "reject edited SQL, parameters or IR", of every backend.
EveryEditShows ==
    phase = "proposed" => ShowsOrMatters(Edits(plan.ir) \cup Elsewhere(plan.ir))
=============================================================================
