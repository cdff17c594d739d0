---------------------------- MODULE JqlCompiler -----------------------------
(***************************************************************************)
(* compilers/jql.py, JQLCompiler.compile: what of a plan a JQL text says,  *)
(* and what it refuses.  Two texts are the same exactly when the clauses   *)
(* below are: the limit, the offset and the projections are not in them.   *)
(* A scalar of kind "time" is a timestamp of whole minutes; any other text *)
(* is not one.                                                             *)
(***************************************************************************)
EXTENDS Planner

Unsupportable(q) ==
    \/ q.metrics # <<>> \/ q.dimensions # <<>> \/ q.joins # <<>>
    \/ Traverses(q) \/ HasWindow(q) \/ q.distinct
    \/ q.unwind # <<>> \/ q.calculations # <<>>

FieldTypes(schema, key) ==
    UNION {{f.type : f \in {g \in s.fields : s.name \o g.name = key}} : s \in schema.sources}

Ordered   == {">", ">=", "<", "<="}
NullTests == {"is_null", "exists"}

TestError(f, schema) ==
    LET types == FieldTypes(schema, f.field)
    IN  IF types = {} THEN "StopIteration"
        ELSE Refuse(\/ "datetime" \in types /\ IsKind(f.value, "str")
                    \/ f.op \in Ordered /\ types \cap {"number", "integer", "datetime"} = {}
                    \/ f.op = "contains" /\ ~IsKind(f.value, "none"),
                    "UnsupportedCapabilityError")

CompileError(q, schema) ==
    IF Unsupportable(q) THEN "UnsupportedCapabilityError"
    ELSE FirstError([i \in DOMAIN q.predicate |-> TestError(q.predicate[i].test, schema)])

\* literal: a truth value is written as the text of its name.
Literal(scalar) ==
    IF scalar.kind = "bool" THEN Scalar("str", IF scalar.val THEN "true" ELSE "false")
    ELSE scalar

\* Tests for a value's absence all become IS EMPTY or IS NOT EMPTY.
Test(f) ==
    IF f.op \in NullTests \/ IsKind(f.value, "none")
    THEN LET empty == CASE f.op = "is_null" -> f.value.items[1].val
                        [] f.op = "exists"  -> ~f.value.items[1].val
                        [] OTHER            -> f.op = "="
         IN  [field |-> f.field, op |-> IF empty THEN "IS EMPTY" ELSE "IS NOT EMPTY",
              literals |-> <<>>]
    ELSE [field |-> f.field, op |-> f.op,
          literals |-> [i \in DOMAIN f.value.items |-> Literal(f.value.items[i])]]

Statement(q) ==
    [where |-> [i \in DOMAIN q.predicate |->
                    [path |-> q.predicate[i].path, test |-> Test(q.predicate[i].test)]],
     order |-> q.sort]

NoStatement == [where |-> <<>>]

Compile(q, schema) ==
    LET error == CompileError(q, schema)
    IN  [error |-> error, statement |-> IF error = "none" THEN Statement(q) ELSE NoStatement]
=============================================================================
