------------------------------ MODULE Backends -------------------------------
(***************************************************************************)
(* What the backends answer: the part of SQL, of the aggregation pipeline, *)
(* of Cypher, of Flux and of the Redis commands that the compilers use.    *)
(* None of it is code of the library.                                      *)
(***************************************************************************)
EXTENDS Rows, Compilers

\* The rows of an answer, the lines under the names of their outputs.
Labelled(lines, names) ==
    [i \in DOMAIN lines |->
        [n \in ToSet(names) |-> lines[i][SelectLastInSeq(names, LAMBDA m : m = n)]]]

ColumnOutput(name) == [form |-> "column", field |-> name, other |-> NoName, alias |-> NoName]

FieldNames(schema, s) == SetToSeq({s \o f.name : f \in Source(schema, s).fields})

\* Lines of groups: by keys, of the whole table if only aggregates are shown,
\* or each row by itself.
GroupedBy(table, keys, outputs) ==
    LET buckets == SelectSeq(outputs, LAMBDA o : o.form = "bucket")
        Label(row) == [k \in DOMAIN keys |-> row[keys[k]]]
                      \o [b \in DOMAIN buckets |-> Shown(buckets[b], <<row>>)]
    IN  IF keys # <<>> \/ buckets # <<>>
        THEN Grouped(table, [i \in DOMAIN table |-> Label(table[i])])
        ELSE IF \E o \in ToSet(outputs) : o.form \in Aggregates THEN <<table>>
        ELSE Apart(table)

-----------------------------------------------------------------------------
(* SQL *)

\* Each join adds the rows of its table that agree, or none of them to a row a
\* left join keeps.
Joined(st, store) ==
    LET Key(c) == c.table \o c.column
        Partners(row, k) ==
            SelectSeq(Qualified(store, st.from[k + 1]), LAMBDA other :
                \A a, b \in st.on[k] : Same((row @@ other)[Key(a)], (row @@ other)[Key(b)]))
        Blank(k) == [n \in DOMAIN Qualified(store, st.from[k + 1])[1] |-> Null.items[1]]
        Extended(row, partners, k) ==
            IF partners = <<>> /\ st.kinds[k] = "left" THEN <<row @@ Blank(k)>>
            ELSE [p \in DOMAIN partners |-> row @@ partners[p]]
        upto[k \in 0..Len(st.on)] ==
            IF k = 0 THEN Qualified(store, st.from[1])
            ELSE FlattenSeq([i \in DOMAIN upto[k - 1] |->
                     Extended(upto[k - 1][i], Partners(upto[k - 1][i], k), k)])
    IN  upto[Len(st.on)]

SqlOutputs(st) == IF st.select # <<>> THEN st.select
                  ELSE [i \in DOMAIN SetToSeq(st.every) |-> ColumnOutput(SetToSeq(st.every)[i])]

\* A column is called by its alias or by its own name without the table's.
SqlName(st, o) ==
    IF o.alias # NoName THEN o.alias
    ELSE LET t == CHOOSE t \in ToSet(st.from) : IsStrictPrefix(t, o.field)
         IN  SubSeq(o.field, Len(t) + 1, Len(o.field))

SqlNames(st) == [i \in DOMAIN SqlOutputs(st) |-> SqlName(st, SqlOutputs(st)[i])]

\* A statement that names a table twice has ambiguous columns.
SqlFails(st) == ~IsInjective(st.from)

SqlAnswer(st, store) ==
    LET groups == GroupedBy(Having(Joined(st, store), st.where), st.group, SqlOutputs(st))
    IN  Labelled(Page(Tabulated(groups, SqlOutputs(st), st.order, st.distinct),
                      st.offset, st.limit),
                 SqlNames(st))

-----------------------------------------------------------------------------
(* MongoDB *)

\* What the operators of the languages say.
Word == [op \in {"$eq", "$ne", "$gt", "$gte", "$lt", "$lte", "$in", "$nin", "$exists", "$regex",
                 "IS NULL", "IS NOT NULL", "IN PROPERTY", "CONTAINS"} |->
    CASE op \in {"$eq", "IS NULL"}     -> "="
      [] op \in {"$ne", "IS NOT NULL"} -> "!="
      [] op = "$gt" -> ">" [] op = "$gte" -> ">=" [] op = "$lt" -> "<" [] op = "$lte" -> "<="
      [] op = "$in" -> "in" [] op = "$nin" -> "not_in" [] op = "$exists" -> "exists"
      [] op \in {"$regex", "IN PROPERTY", "CONTAINS"} -> "contains"]

InWords(test) == IF test.op \in DOMAIN Word THEN [test EXCEPT !.op = Word[@]] ELSE test

Value(doc, path) == IF path \in DOMAIN doc THEN doc[path] ELSE Null.items[1]

MatchedDocs(docs, tree) ==
    SelectSeq(docs, LAMBDA doc :
        Truth(tree, [i \in DOMAIN tree |->
            LET t == InWords(tree[i].test) IN Holds(Value(doc, t.path), t.op, t.value)]))

Unwound(docs, path) ==
    FlattenSeq([i \in DOMAIN docs |->
        [k \in DOMAIN docs[i][path].val |->
            [docs[i] EXCEPT ![path] = Scalar("str", docs[i][path].val[k])]]])

\* One document per group: the keys under _id and the accumulated values.
GroupedDocs(docs, spec) ==
    LET Label(doc) == [k \in DOMAIN spec.keys |-> Value(doc, spec.keys[k])]
        groups == Grouped(docs, [i \in DOMAIN docs |-> Label(docs[i])])
        Values(group, path) == [i \in DOMAIN group |->
            IF path = Star THEN Scalar("int", 1) ELSE Value(group[i], path)]
    IN  [g \in DOMAIN groups |->
            [n \in {Mongo!Key(k) : k \in DOMAIN spec.keys} |->
                Label(groups[g][1])[CHOOSE k \in DOMAIN spec.keys : Mongo!Key(k) = n]]
            @@ [a \in DOMAIN spec.accumulators |->
                   Total(spec.accumulators[a].agg, Values(groups[g], spec.accumulators[a].path))]]

StageResult(docs, stage) ==
    CASE stage[1] = "$unwind" -> Unwound(docs, stage[2])
      [] stage[1] = "$match"  -> MatchedDocs(docs, stage[2])
      [] stage[1] = "$group"  -> GroupedDocs(docs, stage[2])
      [] stage[1] = "$sort"   ->
             Sorted(docs, [i \in DOMAIN docs |-> [k \in DOMAIN stage[2] |->
                 Directed(Rank(Value(docs[i], stage[2][k].path)), stage[2][k].desc)]])
      [] stage[1] = "$skip"   -> Page(docs, stage[2], Len(docs))
      [] stage[1] = "$limit"  -> Page(docs, 0, stage[2])
      [] stage[1] = "$project" ->
             [i \in DOMAIN docs |->
                 [n \in {m \in DOMAIN stage[2] : stage[2][m] \in DOMAIN docs[i]} |->
                     docs[i][stage[2][n]]]]

MongoAnswer(pipeline, collection, store) ==
    FoldLeft(StageResult, store.rows[collection], pipeline)

-----------------------------------------------------------------------------
(* Neo4j *)

\* The nodes of a pattern; two ends of one label are one node.
MatchedNodes(match, schema, store) ==
    IF match.link = <<>> THEN Qualified(store, match.node)
    ELSE LET walks == SetToSeq({w \in Walks(Edge(schema, match.link[1]), store.links[match.link[1]],
                                           match.link[2], match.link[3], match.link[4]) :
                        /\ w[1].from[1] = match.node
                        /\ Last(w).to[1] = match.target
                        /\ match.node = match.target => w[1].from = Last(w).to})
         IN  [i \in DOMAIN walks |->
                 Qualified(store, match.node)[walks[i][1].from[2]]
                 @@ Qualified(store, match.target)[Last(walks[i]).to[2]]]

CypherOutputs(st, schema) ==
    FlattenSeq([i \in DOMAIN st.return |->
        IF st.return[i].form # "node" THEN <<st.return[i]>>
        ELSE LET names == FieldNames(schema, st.return[i].field)
             IN  [n \in DOMAIN names |-> ColumnOutput(names[n])]])

CypherAnswer(st, schema, store) ==
    LET outputs == CypherOutputs(st, schema)
        where   == [i \in DOMAIN st.where |-> [st.where[i] EXCEPT !.test = InWords(@)]]
        keys    == IF \E o \in ToSet(outputs) : o.form \in Aggregates
                   THEN FieldsOf(SelectSeq(outputs, LAMBDA o : o.form = "column")) ELSE <<>>
        groups  == GroupedBy(Having(MatchedNodes(st.match, schema, store), where), keys, outputs)
    IN  Labelled(Page(Tabulated(groups, outputs, st.order, st.distinct), st.skip, st.limit),
                 [i \in DOMAIN outputs |->
                     IF outputs[i].alias # NoName THEN outputs[i].alias ELSE outputs[i].field])

-----------------------------------------------------------------------------
(* InfluxDB *)

TimeColumn == <<"_time">>
FieldColumn == <<"_field">>
ValueColumn == <<"_value">>

\* A measurement is a table of points, one for each value a row has.
Points(source, store) ==
    LET named(role) == SetToSeq({f.name : f \in {g \in source.fields : g.role = role}})
        tags == named("tag")
        Point(row, f) == [t \in ToSet(tags) |-> row[t]]
                         @@ (TimeColumn :> row[source.time_field])
                         @@ (FieldColumn :> Scalar("name", f)) @@ (ValueColumn :> row[f])
        rows == store.rows[source.name]
    IN  FlattenSeq([i \in DOMAIN rows |->
            LET there == SelectSeq(named("field"), LAMBDA f : rows[i][f].kind # "none")
            IN  [k \in DOMAIN there |-> Point(rows[i], there[k])]])

InRange(points, st) ==
    SelectSeq(points, LAMBDA p :
        /\ Holds(p[TimeColumn], ">=", st.start) /\ Holds(p[TimeColumn], "<", st.stop)
        /\ \A i \in DOMAIN st.filters :
               Holds(p[st.filters[i].field], st.filters[i].op, st.filters[i].value)
        /\ st.metric.field # NoName => p[FieldColumn].val = st.metric.field)

\* A line per series, and per window if there is one, under the metric's alias.
Series(points, st) ==
    LET Span(p)   == IF st.every = "" THEN <<>> ELSE <<Bucket(p[TimeColumn].val, st.every)>>
        Label(p)  == [k \in DOMAIN st.group |-> p[st.group[k]]] \o Span(p)
        groups    == Grouped(points, [i \in DOMAIN points |-> Label(points[i])])
    IN  [g \in DOMAIN groups |->
            [n \in ToSet(st.group) |-> groups[g][1][n]]
            @@ (st.metric.alias :>
                    Total(st.metric.agg, [i \in DOMAIN groups[g] |-> groups[g][i][ValueColumn]]))]

FluxAnswer(st, schema, store) ==
    LET points == InRange(Points(Source(schema, st.measurement), store), st)
        table  == IF st.metric.field = NoName THEN points ELSE Series(points, st)
        ranks  == [i \in DOMAIN table |-> [k \in DOMAIN st.sort |->
                      Directed(Rank(Value(table[i], st.sort[k])), st.desc)]]
    IN  Page(Sorted(table, ranks), 0, st.limit)

-----------------------------------------------------------------------------
(* Redis: the reply to a command, each value or entry a row of the key's.   *)

Keyed(schema, key) == CHOOSE s \in schema.sources : s.key = key

RedisReply(command, schema, store) ==
    LET rows == store.rows[Keyed(schema, command[2]).name]
    IN  CASE command[1] = "HMGET"  -> [i \in 1..Len(command) - 2 |-> Value(rows[1], command[i + 2])]
          [] command[1] = "ZRANGE" -> Page(rows, command[3], command[4] - command[3] + 1)
          [] command[1] \in {"SRANDMEMBER", "XRANGE"} -> Page(rows, 0, command[3])
          [] command[1] = "FT.SEARCH" -> Page(rows, command[3], command[4])
          [] command[1] = "JSON.GET" -> [n \in ToSet(SubSeq(command, 3, Len(command))) |-> rows[1][n]]
=============================================================================
