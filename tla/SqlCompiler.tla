---------------------------- MODULE SqlCompiler -----------------------------
(***************************************************************************)
(* compilers/sql.py, SQLCompiler.compile: the statement a plan becomes,    *)
(* clause by clause.  Two statements have the same text and parameters     *)
(* exactly when the clauses below are equal, so quoting and parameter      *)
(* names are left out.  Errors other than the project's own are what       *)
(* Python raises when the schema lacks something the plan was grounded in. *)
(***************************************************************************)
EXTENDS Planner

Unsupportable(q, dialect) ==
    \/ Traverses(q)
    \/ q.unwind # <<>>
    \/ HasWindow(q) /\ dialect # "timescaledb"

\* One item of the SELECT list: a column, a time bucket (of width other), an
\* aggregate or a calculation (whose second operand is other).
Output(form, field, other, alias) ==
    [form |-> form, field |-> field, other |-> other, alias |-> alias]

\* Grouped columns are listed by themselves unless columns were asked for.
Requested(q) ==
    LET columns == [i \in DOMAIN q.projections |->
            Output("column", q.projections[i].field, NoName, q.projections[i].alias)]
        groups  == [i \in DOMAIN q.dimensions |->
            Output("column", q.dimensions[i], NoName, NoName)]
    IN  (IF columns = <<>> THEN groups ELSE columns)
        \o (IF HasWindow(q) THEN <<Output("bucket", q.window.field, <<q.window.every>>, q.window.alias)>>
            ELSE <<>>)
        \o [i \in DOMAIN q.metrics |->
               Output(q.metrics[i].agg, q.metrics[i].field, NoName, q.metrics[i].alias)]
        \o [i \in DOMAIN q.calculations |->
               Output(q.calculations[i].op, q.calculations[i].left, q.calculations[i].right,
                      q.calculations[i].alias)]

\* With nothing requested, every field the schema lists for the selected
\* sources (lines 101-108).
Everything(q, schema) ==
    IF Requested(q) # <<>> THEN {}
    ELSE UNION {{s.name \o f.name : f \in s.fields} :
                s \in {x \in schema.sources : x.name \in ToSet(q.sources)}}

-----------------------------------------------------------------------------

\* The tables in FROM order: each join adds its edge's target when the source
\* is there already, else its source (lines 122-128).
Tables(q, schema) ==
    LET upto[k \in 0..Len(q.joins)] ==
            IF k = 0 THEN <<q.sources[1]>>
            ELSE LET e == Edge(schema, q.joins[k].rel)
                 IN  Append(upto[k - 1],
                            IF e.source \in ToSet(upto[k - 1]) THEN e.target ELSE e.source)
    IN  upto[Len(q.joins)]

\* The two columns each join equates.
OnClauses(q, schema) ==
    [k \in DOMAIN q.joins |->
        LET e == Edge(schema, q.joins[k].rel)
        IN  {[table |-> e.source, column |-> e.source_field],
             [table |-> e.target, column |-> e.target_field]}]

\* source_map[...] and relationships[...] raise KeyError.
UnknownTable(q, schema) ==
    \/ q.sources[1] \notin SourceNames(schema)
    \/ \E i \in DOMAIN q.joins : q.joins[i].rel \notin EdgeNames(schema)
    \/ ~(ToSet(Tables(q, schema)) \subseteq SourceNames(schema))

Searched(q) == {q.predicate[i].test.field :
                   i \in {j \in DOMAIN q.predicate : q.predicate[j].test.op = "contains"}}

TypesOf(schema, key) ==
    UNION {{f.type : f \in {g \in s.fields : s.name \o g.name = key}} : s \in schema.sources}

\* A LIKE looks its field up again: a missing one raises StopIteration.
CompileError(q, schema, dialect) ==
    IF Unsupportable(q, dialect) THEN "UnsupportedCapabilityError"
    ELSE IF UnknownTable(q, schema) THEN "KeyError"
    ELSE IF \E key \in Searched(q) : TypesOf(schema, key) = {} THEN "StopIteration"
    ELSE Refuse(\E key \in Searched(q) : "array" \in TypesOf(schema, key),
                "UnsupportedCapabilityError")

NoStatement == [select |-> <<>>]

\* The statement, clause by clause; its parameters are the values in where.
Statement(q, schema) ==
    [select   |-> Requested(q),
     every    |-> Everything(q, schema),
     distinct |-> q.distinct,
     from     |-> Tables(q, schema),
     kinds    |-> [k \in DOMAIN q.joins |-> q.joins[k].kind],
     on       |-> OnClauses(q, schema),
     where    |-> q.predicate,
     group    |-> q.dimensions,
     order    |-> q.sort,
     limit    |-> q.limit,
     offset   |-> q.offset]

Compile(q, schema, dialect) ==
    LET error == CompileError(q, schema, dialect)
    IN  [error |-> error,
         statement |-> IF error = "none" THEN Statement(q, schema) ELSE NoStatement]
=============================================================================
