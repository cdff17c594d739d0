---------------------------- MODULE MCGrounding -----------------------------
(***************************************************************************)
(* Grounding on a two-source shop: orders (amount, state, placed,          *)
(* customer) and customers (id, state), so that "state" is ambiguous over  *)
(* both, with business terms that carry conditions on other terms.         *)
(***************************************************************************)
EXTENDS Answers

Orders    == <<"orders">>
Customers == <<"customers">>
N(x)      == <<x>>
Q(s, x)   == s \o <<x>>

Field(n, t) == [name |-> n, type |-> t]

Shop == [
    sources |-> {
        [name |-> Orders, fields |-> {Field(N("amount"), "number"), Field(N("state"), "string"),
                                      Field(N("placed"), "datetime"), Field(N("customer"), "integer")}],
        [name |-> Customers, fields |-> {Field(N("id"), "integer"), Field(N("state"), "string")}] },
    edges |-> {
        [name |-> N("placed_by"), source |-> Orders, target |-> Customers,
         source_field |-> N("customer"), target_field |-> N("id")],
        [name |-> N("referred"), source |-> Customers, target |-> Customers,
         source_field |-> N("id"), target_field |-> N("id")],
        [name |-> N("keyless"), source |-> Customers, target |-> Orders,
         source_field |-> N("id"), target_field |-> NoName] } ]

\* A document store where a collection's dotted name and a nested path spell
\* the same key: shop.open as a field of "shop" and of nothing else here, and
\* shop.open.total both as a path of "shop" and as a field of "shop.open".
Documents == [
    sources |-> {
        [name |-> N("shop"), fields |-> {Field(<<"open", "total">>, "number")}],
        [name |-> <<"shop", "open">>, fields |-> {Field(N("total"), "string")}] },
    edges |-> {
        [name |-> N("held_by"), source |-> N("shop"), target |-> <<"shop", "open">>,
         source_field |-> <<"open", "total">>, target_field |-> N("total")] } ]

-----------------------------------------------------------------------------

Compare(n, op, kind, val) == [field |-> n, op |-> op, value |-> One(kind, val)]

Paid      == Compare(N("amount"), ">", "int", 0)
Open      == Compare(Q(Orders, "state"), "=", "str", "open")
During    == Compare(N("placed"), "relative_time", "str", "last_month")
AnyState  == Compare(N("state"), "!=", "str", "open")
BigSale   == Compare(N("sale"), ">", "int", 0)
Members   == [field |-> N("amount"), op |-> "in", value |-> Many(<<Scalar("int", 1), Scalar("int", 2)>>)]
Mistyped  == Compare(N("amount"), "=", "str", "open")

Concept(n, aliases, candidates, condition) ==
    [name |-> n, aliases |-> aliases, candidates |-> candidates, preferred |-> NoName,
     deprecated |-> {}, condition |-> condition]

\* "sale" is an open order's amount; "earned" is a sale whose own condition is
\* stated over "sale"; "when" only renames.
Sale   == Concept(N("sale"), {N("sold")}, <<Q(Orders, "amount")>>, Open)
Earned == Concept(N("earned"), {}, <<Q(Orders, "amount")>>, BigSale)
When   == Concept(N("when"), {N("date")}, <<Q(Orders, "placed")>>, NoFilter)

Terms == {EmptyCatalog, {Sale, Earned, When}}

-----------------------------------------------------------------------------

Column(n) == [field |-> n, alias |-> NoName]

Ask(sources, joins) ==
    [operation |-> "select", sources |-> sources, projections |-> <<>>, dimensions |-> <<>>,
     metrics |-> <<>>, filters |-> <<>>, predicate |-> <<>>, sort |-> <<>>, limit |-> 2,
     offset |-> 0, distinct |-> FALSE, joins |-> joins,
     traversal |-> [rel |-> NoName, direction |-> "out", min_depth |-> 1, max_depth |-> 1],
     window |-> [field |-> NoName, every |-> "", alias |-> NoName], unwind |-> <<>>, calculations |-> <<>>,
     unresolved |-> FALSE, ambiguous |-> FALSE, hinted |-> FALSE]

Join(n) == [rel |-> N(n), kind |-> "inner"]

Bases == {Ask(<<Orders>>, <<>>),
          Ask(<<Orders, Customers>>, <<Join("placed_by")>>),
          Ask(<<Customers, Orders>>, <<Join("placed_by")>>)}

\* Joins the planner must weigh one by one: repeated, reflexive, unknown, out
\* of reach, missing, and more than the policy allows.
Joinings ==
    {Ask(s, j) : s \in {<<Orders>>, <<Customers>>, <<Orders, Customers>>, <<Customers, Orders>>,
                        <<Orders, Orders>>},
                 j \in {<<>>, <<Join("referred")>>, <<Join("placed_by"), Join("referred")>>,
                        <<Join("referred"), Join("placed_by")>>, <<Join("keyless")>>,
                        <<Join("placed_by"), Join("unheard_of")>>,
                        <<Join("placed_by"), Join("placed_by")>>,
                        <<Join("referred"), Join("referred"), Join("placed_by")>>}}

Step(op, k) == [op |-> op, at |-> k]
At(path, f) == [path |-> path, test |-> f]

Trees == {
    <<>>,
    <<At(<<Step("or", 1)>>, Paid), At(<<Step("or", 2)>>, Open)>>,
    <<At(<<Step("not", 1)>>, During)>>,
    <<At(<<Step("or", 1), Step("and", 1)>>, Members), At(<<Step("or", 1), Step("and", 2)>>, Open),
      At(<<Step("or", 2), Step("not", 1)>>, BigSale)>> }

FilterLists == {<<>>, <<Paid>>, <<During>>, <<AnyState>>, <<BigSale>>, <<Mistyped>>, <<During, Members>>}

Columnings == {<<>>, <<Column(N("amount"))>>, <<Column(N("earned"))>>,
            <<Column(N("state"))>>, <<[field |-> N("sold"), alias |-> N("state")]>>}

By(n)     == [field |-> n, desc |-> FALSE]
Latest(n) == [field |-> n, desc |-> TRUE]

Sorts == {<<>>, <<By(N("state"))>>, <<Latest(N("earned"))>>, <<By(N("date"))>>}

Sum   == [field |-> N("earned"), agg |-> "sum", alias |-> N("total")]
Count == [field |-> Star, agg |-> "count", alias |-> N("rows")]

Aggregations == {
    [Ask(<<Orders>>, <<>>) EXCEPT !.operation = "aggregate", !.metrics = m, !.dimensions = d,
                                  !.filters = f, !.sort = s] :
        m \in {<<Sum>>, <<Count>>, <<Sum, Count>>}, d \in {<<>>, <<N("state")>>},
        f \in {<<>>, <<During>>},
        s \in {<<>>, <<By(N("total"))>>, <<By(N("state"))>>} }

Product == [op |-> "*", left |-> N("amount"), right |-> N("customer"), alias |-> N("product")]

Calculated == {[Ask(<<Orders>>, <<>>) EXCEPT !.calculations = c, !.projections = o, !.sort = s] :
    c \in {<<Product>>, <<[Product EXCEPT !.right = N("state")]>>,
           <<Product, [Product EXCEPT !.op = "/", !.left = N("sale"), !.alias = N("state")]>>},
    o \in {<<>>, <<Column(N("state"))>>, <<[field |-> N("state"), alias |-> N("product")]>>},
    s \in {<<>>, <<By(N("product"))>>, <<By(N("state"))>>}}

ShopIntents ==
    {[b EXCEPT !.filters = f, !.predicate = t, !.projections = o, !.sort = s] :
        b \in Bases, f \in FilterLists, t \in Trees, o \in Columnings, s \in Sorts}
    \cup Aggregations
    \cup Calculated
    \cup Joinings

DottedIntents ==
    {[Ask(<<N("shop"), <<"shop", "open">>>>, <<Join("held_by")>>) EXCEPT
         !.projections = <<Column(o)>>, !.limit = l, !.distinct = d] :
        o \in {N("total"), <<"open", "total">>, <<"shop", "open", "total">>},
        l \in 1..9, d \in BOOLEAN}

Generous == [allowed |-> {Orders, Customers, N("shop"), <<"shop", "open">>}, max_rows |-> 100,
             max_offset |-> 10, max_joins |-> 2, max_graph_depth |-> 1]

\* 1 March 2024, shortly after midnight.
AskedAt == Instant(2024, 3, 1, 5)

\* Questions that no business term bears on.
Asking(backend, intents, model, store) ==
    {[backend |-> backend, intent |-> i, schema |-> model, store |-> store,
      catalog |-> EmptyCatalog, now |-> AskedAt] : i \in intents}

InTerms(asks) == {[a EXCEPT !.catalog = c] : a \in asks, c \in Terms}

\* Every relative date, asked at midnight and at noon of the first and the last
\* days of each month over 200 days from August 1899 (1900 is no leap year),
\* October 1999 (2000 is one) and December 2023.
Starting == {-25720, 10880, 19700}

Moments == {i \in {DayAt(first + k, minute) : first \in Starting, k \in 0..200, minute \in {0, 720}} :
               i.day \in {1, 28, 29, 30, 31}}

Dated == {[backend |-> "sqlite", schema |-> Shop, store |-> NoStore, catalog |-> EmptyCatalog, intent |-> [Ask(<<Orders>>, <<>>) EXCEPT
                           !.filters = <<Compare(N("placed"), "relative_time", "str", e)>>],
           now |-> i] : e \in Expressions, i \in Moments}

\* The instants compared with a relative date: all days of the last month, and
\* the ends of every month of the two years before.
Near(moment) ==
    {DayAt(DayNumber(moment) - k, minute) : k \in -1..32, minute \in {0, 719, 720}}
    \cup {i \in {DayAt(DayNumber(moment) - k, 0) : k \in 33..735} : i.day \in {1, 28, 29, 30, 31}}

CellValues(type, moment) ==
    CASE type = "string"   -> {Scalar("str", "open"), Scalar("str", "closed")}
      [] type = "datetime" -> {Scalar("time", i) :
             i \in IF moment = AskedAt
                   THEN {Instant(2024, 1, 31, 1439), Instant(2024, 2, 29, 0), Instant(2024, 3, 1, 0)}
                   ELSE Near(moment)}
      [] type = "array"    -> {Scalar("array", <<"red">>), Scalar("array", <<>>)}
      [] OTHER -> {Scalar("int", 0), Scalar("int", 1)}

\* Three orders of two customers, in no order of any column.
ShopOrder(amount, state, placed, customer) ==
    (N("amount") :> Scalar("int", amount)) @@ (N("state") :> Scalar("str", state))
    @@ (N("placed") :> Scalar("time", placed)) @@ (N("customer") :> Scalar("int", customer))

ShopStore == [
    rows |-> (Orders :> <<ShopOrder(2, "open", Instant(2024, 2, 29, 0), 7),
                          ShopOrder(0, "closed", Instant(2024, 1, 31, 1439), 8),
                          ShopOrder(1, "open", Instant(2024, 2, 1, 0), 8)>>)
             @@ (Customers :> <<(N("id") :> Scalar("int", 8)) @@ (N("state") :> Scalar("str", "open")),
                                (N("id") :> Scalar("int", 7)) @@ (N("state") :> Scalar("str", "closed"))>>),
    links |-> <<>>]

Texts == <<"blue", "closed", "open", "red">>

ShopAsks   == InTerms(Asking("sqlite", ShopIntents, Shop, ShopStore)) \cup Dated
JoinAsks   == InTerms(Asking("sqlite", Joinings, Shop, NoStore))
DottedAsks == Asking("sqlite", DottedIntents, Documents, NoStore)
LapsingAsks == JoinAsks \cup DottedAsks
=============================================================================
