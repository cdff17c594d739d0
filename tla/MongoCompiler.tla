---------------------------- MODULE MongoCompiler ----------------------------
(***************************************************************************)
(* compilers/mongo.py, MongoCompiler.compile: the aggregation pipeline of  *)
(* a plan, a sequence of stages <<name, argument>>.  A name in a pipeline  *)
(* is a path within the collection; a document made by a stage is a dict,  *)
(* so of two outputs with one name the later one stays.                    *)
(***************************************************************************)
EXTENDS Planner

Unsupportable(q) ==
    \/ q.joins # <<>> \/ Traverses(q) \/ HasWindow(q) \/ q.calculations # <<>>
    \/ Len(q.sources) # 1

\* field: a name without its collection; aliases stay as they are.
Path(q, name) ==
    IF IsStrictPrefix(q.sources[1], name) THEN SubSeq(name, Len(q.sources[1]) + 1, Len(name))
    ELSE name

\* replace(".", "_"): one segment.
Underscored(path) == <<FoldLeft(LAMBDA text, s : text \o "_" \o s, path[1], Tail(path))>>

\* A dict display: a key given twice keeps its last item.
Entry(key, item) == [key |-> key, item |-> item]
Dict(entries) ==
    [k \in {e.key : e \in ToSet(entries)} |->
        entries[SelectLastInSeq(entries, LAMBDA e : e.key = k)].item]

-----------------------------------------------------------------------------

TypesOf(schema, key) ==
    UNION {{f.type : f \in {g \in s.fields : s.name \o g.name = key}} : s \in schema.sources}

NativeOp == [op \in {"=", "!=", ">", ">=", "<", "<=", "in", "not_in"} |->
    CASE op = "=" -> "$eq" [] op = "!=" -> "$ne" [] op = ">" -> "$gt" [] op = ">=" -> "$gte"
      [] op = "<" -> "$lt" [] op = "<=" -> "$lte" [] op = "in" -> "$in" [] op = "not_in" -> "$nin"]

\* One test in the words of the backend.
Test(q, f, schema) ==
    LET On(op, value) == [path |-> Path(q, f.field), op |-> op, value |-> value]
    IN  CASE f.op = "exists"   -> On("$exists", f.value)
          [] f.op = "is_null"  -> On(IF f.value.items[1].val THEN "$eq" ELSE "$ne", Null)
          [] f.op = "contains" -> On(IF "array" \in TypesOf(schema, f.field) THEN "$eq" ELSE "$regex",
                                     f.value)
          [] OTHER             -> On(NativeOp[f.op], f.value)

\* expr: the operators keep their terms, and a negation is a $nor of one term.
Match(q, schema) ==
    LET Native(step) == [step EXCEPT !.op = IF @ = "not" THEN "nor" ELSE @]
    IN  [i \in DOMAIN q.predicate |->
            [path |-> [k \in DOMAIN q.predicate[i].path |-> Native(q.predicate[i].path[k])],
             test |-> Test(q, q.predicate[i].test, schema)]]

-----------------------------------------------------------------------------

Grouped(q) == q.metrics # <<>> \/ q.dimensions # <<>> \/ q.distinct

\* What a group has in common: distinct rows are groups of what they show.
GroupedBy(q) ==
    IF q.dimensions # <<>> THEN q.dimensions
    ELSE IF q.distinct THEN FieldsOf(q.projections) ELSE <<>>

Key(i) == <<"_id", "g" \o ToString(i - 1)>>

\* The first alias a grouped field was asked under, its path otherwise.
GroupName(q, d) ==
    LET k == SelectInSeq(q.projections, LAMBDA p : p.field = d /\ p.alias # NoName)
    IN  IF k = 0 THEN Underscored(Path(q, d)) ELSE q.projections[k].alias

GroupEntries(q) ==
    [i \in DOMAIN GroupedBy(q) |-> Entry(GroupName(q, GroupedBy(q)[i]), Key(i))]

Accumulators(q) ==
    Dict([i \in DOMAIN q.metrics |->
        Entry(q.metrics[i].alias, [agg |-> q.metrics[i].agg, path |-> Path(q, q.metrics[i].field)])])

GroupStages(q) == <<
    <<"$group", [keys |-> [i \in DOMAIN GroupedBy(q) |-> Path(q, GroupedBy(q)[i])],
                 accumulators |-> Accumulators(q)]>>,
    <<"$project", Dict(GroupEntries(q) \o [i \in DOMAIN q.metrics |->
                          Entry(q.metrics[i].alias, q.metrics[i].alias)])>> >>

\* output_fields: what a sort has to call a grouped field.
SortName(q, name) ==
    LET k == SelectLastInSeq(GroupedBy(q), LAMBDA d : d = name)
    IN  IF Grouped(q) /\ k # 0 THEN GroupName(q, name) ELSE Path(q, name)

\* The sort document: a key stands where it came first, with its last direction.
SortKeys(q) ==
    LET names == [i \in DOMAIN q.sort |-> SortName(q, q.sort[i].field)]
        once  == FoldLeft(LAMBDA seen, n : IF n \in ToSet(seen) THEN seen ELSE Append(seen, n),
                          <<>>, names)
    IN  [i \in DOMAIN once |->
            [path |-> once[i],
             desc |-> q.sort[SelectLastInSeq(names, LAMBDA n : n = once[i])].desc]]

OutputEntries(q) ==
    [i \in DOMAIN q.projections |->
        Entry(IF q.projections[i].alias # NoName THEN q.projections[i].alias
              ELSE Path(q, q.projections[i].field),
              Path(q, q.projections[i].field))]

When(condition, stages) == IF condition THEN stages ELSE <<>>

\* Faulty form: the page is cut before the rows are in order.
PipelineLimitFirst(q, schema) ==
    When(q.predicate # <<>>, <<<<"$match", Match(q, schema)>>>>)
    \o <<<<"$limit", q.limit>>>>
    \o When(Grouped(q), GroupStages(q))
    \o When(q.sort # <<>>, <<<<"$sort", SortKeys(q)>>>>)

\* Faulty form: the limit is left to the cursor.
PipelineUnlimited(q, schema) ==
    [i \in DOMAIN q.unwind |-> <<"$unwind", Path(q, q.unwind[i])>>]
    \o When(q.predicate # <<>>, <<<<"$match", Match(q, schema)>>>>)
    \o When(Grouped(q), GroupStages(q))
    \o When(q.sort # <<>>, <<<<"$sort", SortKeys(q)>>>>)
    \o When(q.offset # 0, <<<<"$skip", q.offset>>>>)
    \o When(q.projections # <<>> /\ ~Grouped(q), <<<<"$project", Dict(OutputEntries(q))>>>>)

\* The stages in order.  A row is sorted and cut before it is renamed.
Pipeline(q, schema) ==
    [i \in DOMAIN q.unwind |-> <<"$unwind", Path(q, q.unwind[i])>>]
    \o When(q.predicate # <<>>, <<<<"$match", Match(q, schema)>>>>)
    \o When(Grouped(q), GroupStages(q))
    \o When(q.sort # <<>>, <<<<"$sort", SortKeys(q)>>>>)
    \o When(q.offset # 0, <<<<"$skip", q.offset>>>>)
    \o <<<<"$limit", q.limit>>>>
    \o When(q.projections # <<>> /\ ~Grouped(q), <<<<"$project", Dict(OutputEntries(q))>>>>)

CompileError(q, schema) ==
    IF Unsupportable(q) THEN "UnsupportedCapabilityError"
    ELSE IF \E i \in DOMAIN q.predicate :
                /\ q.predicate[i].test.op = "contains"
                /\ TypesOf(schema, q.predicate[i].test.field) = {} THEN "StopIteration"
    ELSE Refuse(q.distinct /\ GroupedBy(q) = <<>>, "UnsupportedCapabilityError")

Compile(q, schema) ==
    LET error == CompileError(q, schema)
    IN  [error |-> error, statement |-> IF error = "none" THEN Pipeline(q, schema) ELSE <<>>]
=============================================================================
