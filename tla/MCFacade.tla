------------------------------ MODULE MCFacade ------------------------------
(***************************************************************************)
(* Facade on a table of orders whose schema moves between three states: as *)
(* first seen, with a column renamed, and with its customers table gone.   *)
(***************************************************************************)
EXTENDS Facade

Sql == INSTANCE SqlCompiler

N(x)      == <<x>>
Orders    == N("orders")
Customers == N("customers")
Field(n, t) == [name |-> N(n), type |-> t]

OrdersTable(fields)  == [name |-> Orders, fields |-> fields]
CustomersTable       == [name |-> Customers, fields |-> {Field("id", "integer"), Field("state", "string")}]
PlacedBy == [name |-> N("placed_by"), source |-> Orders, target |-> Customers,
             source_field |-> N("customer"), target_field |-> N("id")]

Amount == Field("amount", "number")
State  == Field("state", "string")
Buyer  == Field("customer", "integer")

First   == [sources |-> {OrdersTable({Amount, State, Buyer}), CustomersTable}, edges |-> {PlacedBy}]
Renamed == [sources |-> {OrdersTable({Field("total", "number"), State, Buyer}), CustomersTable},
            edges |-> {PlacedBy}]
Dropped == [sources |-> {OrdersTable({Amount, State})}, edges |-> {}]

AllSchemas == {First, Renamed, Dropped}

Compare(n, op, kind, val) == [field |-> n, op |-> op, value |-> One(kind, val)]
OpenOrders == Compare(<<"orders", "state">>, "contains", "str", "open")

Sale == [name |-> N("sale"), aliases |-> {}, candidates |-> <<<<"orders", "amount">>>>,
         preferred |-> NoName, deprecated |-> {}, condition |-> OpenOrders]
Terms == {Sale}

Ask == [operation |-> "select", sources |-> <<Orders>>, projections |-> <<>>, dimensions |-> <<>>,
        metrics |-> <<>>, filters |-> <<>>, predicate |-> <<>>, sort |-> <<>>, limit |-> 2,
        offset |-> 0, distinct |-> FALSE, joins |-> <<>>,
        traversal |-> [rel |-> NoName, max_depth |-> 1],
        window |-> [field |-> NoName, alias |-> NoName], unwind |-> <<>>, calculations |-> <<>>,
        unresolved |-> FALSE, ambiguous |-> FALSE, hinted |-> FALSE]

Column(n) == [field |-> n, alias |-> NoName]

\* A business term, and a join whose columns are whatever the schema lists.
Sales  == [Ask EXCEPT !.projections = <<Column(N("sale"))>>]
Buyers == [Ask EXCEPT !.sources = <<Orders, Customers>>, !.limit = 1,
                      !.joins = <<[rel |-> N("placed_by"), kind |-> "inner"]>>]
\* The same term under a predicate already as deep as the planner walks.
Step(op) == [op |-> op, at |-> 1]
DeepSales == [Sales EXCEPT !.predicate =
    <<[path |-> <<Step("not"), Step("not")>>, test |-> Compare(N("amount"), ">", "int", 0)]>>]

SqliteCaps == [joins |-> TRUE, aggregation |-> TRUE, graph_traversal |-> FALSE,
               time_series |-> FALSE, arrays |-> FALSE, calculations |-> TRUE, distinct |-> TRUE,
               projection |-> TRUE, sorting |-> TRUE, offsets |-> TRUE]

Open    == [allowed |-> {Orders, Customers}, max_rows |-> 2, max_offset |-> 0, max_joins |-> 1,
            max_graph_depth |-> 1]
Narrow  == [Open EXCEPT !.allowed = {Orders}, !.max_rows = 1]

Sqlite(q, schema) == Sql!Compile(q, schema, "sqlite")

AllPolicies == {Open, Narrow}
OnePolicy   == {Open}

MaybeSupplied == {NoSchema, First}
Unsupplied    == {NoSchema}

TwoQuestions == {Sales, Buyers}
Deep       == {DeepSales}
\* The clock ticks by seconds, and planning sees minutes (planner.py:34).
At[t \in 0..9] == Instant(2024, 3, 1, 0)

\* What the theorems on edited and unedited proposals take for granted.
Built == {BuildPlan(q, s, Caps, rules, Catalog, Reference[0]) :
              q \in Questions, s \in Schemas, rules \in Policies}
Plans == {p.ir : p \in {b \in Built : b.error = "none"}}
ASSUME PlansTell == TermsApart /\ Closed(Plans) /\ Telling(Plans)
=============================================================================
