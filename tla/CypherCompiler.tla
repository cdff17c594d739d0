--------------------------- MODULE CypherCompiler ----------------------------
(***************************************************************************)
(* compilers/cypher.py, CypherCompiler.compile: the one MATCH ... RETURN a *)
(* plan becomes.  Node variables are called like their labels.             *)
(***************************************************************************)
EXTENDS Planner

Unsupportable(q) == q.joins # <<>> \/ q.unwind # <<>> \/ HasWindow(q) \/ q.calculations # <<>>

\* Faulty form: the pattern always ends where the relationship was declared to.
OtherEndDeclared(q, schema) == Edge(schema, q.traversal.rel).target

\* The label a traversal leads to, from wherever it starts.
OtherEnd(q, schema) ==
    LET edge == Edge(schema, q.traversal.rel)
    IN  IF edge.source = q.sources[1] THEN edge.target ELSE edge.source

NoLink == <<>>

\* What is matched: a node, or the relationship from it to another one.
Pattern(q, schema) ==
    [node |-> q.sources[1],
     link |-> IF Traverses(q)
              THEN <<q.traversal.rel, q.traversal.direction,
                     q.traversal.min_depth, q.traversal.max_depth>>
              ELSE NoLink,
     target |-> IF Traverses(q) THEN OtherEnd(q, schema) ELSE NoName]

TypesOf(schema, key) ==
    UNION {{f.type : f \in {g \in s.fields : s.name \o g.name = key}} : s \in schema.sources}

\* One test: of absence, of membership in a list either way round, or native.
Test(f, schema) ==
    LET As(op) == [f EXCEPT !.op = op]
        IsNull == [field |-> f.field, op |-> "IS NULL", value |-> Null]
        IsNotNull == [IsNull EXCEPT !.op = "IS NOT NULL"]
    IN  CASE f.op = "is_null" -> IF f.value.items[1].val THEN IsNull ELSE IsNotNull
          [] f.op = "exists"  -> IF f.value.items[1].val THEN IsNotNull ELSE IsNull
          [] f.op \notin {"is_null", "exists"} /\ IsKind(f.value, "none") ->
                 IF f.op = "=" THEN IsNull ELSE IsNotNull
          [] f.op = "contains" ->
                 As(IF "array" \in TypesOf(schema, f.field) THEN "IN PROPERTY" ELSE "CONTAINS")
          [] OTHER -> f

Item(form, field, alias) == [form |-> form, field |-> field, other |-> NoName, alias |-> alias]

\* The RETURN list; what is not aggregated in it groups the rows.
Returned(q) ==
    LET asked  == [i \in DOMAIN q.projections |->
                      Item("column", q.projections[i].field, q.projections[i].alias)]
        groups == [i \in DOMAIN q.dimensions |-> Item("column", q.dimensions[i], NoName)]
        items  == (IF asked = <<>> THEN groups ELSE asked)
                  \o [i \in DOMAIN q.metrics |->
                         Item(q.metrics[i].agg, q.metrics[i].field, q.metrics[i].alias)]
    IN  IF items # <<>> THEN items
        ELSE [i \in DOMAIN q.sources |-> Item("node", q.sources[i], NoName)]

Statement(q, schema) ==
    [match    |-> Pattern(q, schema),
     where    |-> [i \in DOMAIN q.predicate |->
                      [q.predicate[i] EXCEPT !.test = Test(@, schema)]],
     return   |-> Returned(q),
     distinct |-> q.distinct,
     order    |-> q.sort,
     skip     |-> q.offset,
     limit    |-> q.limit]

\* The planner's bound on depth is looked at again.
CompileError(q, schema, policy) ==
    IF Unsupportable(q) THEN "UnsupportedCapabilityError"
    ELSE IF Traverses(q) /\ q.traversal.rel \notin EdgeNames(schema) THEN "StopIteration"
    ELSE IF Traverses(q) /\ q.traversal.max_depth > policy.max_graph_depth
    THEN "UnsupportedCapabilityError"
    ELSE Refuse(\E i \in DOMAIN q.predicate :
                   /\ q.predicate[i].test.op = "contains"
                   /\ TypesOf(schema, q.predicate[i].test.field) = {}, "StopIteration")

Compile(q, schema, policy) ==
    LET error == CompileError(q, schema, policy)
    IN  [error |-> error,
         statement |-> IF error = "none" THEN Statement(q, schema) ELSE [match |-> NoName]]
=============================================================================
