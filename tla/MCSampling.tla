----------------------------- MODULE MCSampling -----------------------------
(***************************************************************************)
(* Two collections whose documents disagree about a path, nest and come    *)
(* and go; a graph of people and companies with and without a second way   *)
(* for a relationship to go.                                               *)
(***************************************************************************)
EXTENDS Sampling, TLC

Entry(path, kind) == [path |-> path, kind |-> kind]

\* What the documents below are made of.
AllEntries == {Entry(path, kind) : path \in {<<x>> : x \in {"total", "address", "a", "b", "c"}}
                                           \cup {<<"address", x>> : x \in {"city", "geo"}},
                                  kind \in {"number", "integer", "string", "object", "unknown"}}

Total(kind) == <<Entry(<<"total">>, kind)>>
Address     == <<Entry(<<"address">>, "object"), Entry(<<"address", "city">>, "string")>>
Wide        == <<Entry(<<"a">>, "string"), Entry(<<"b">>, "string"), Entry(<<"c">>, "string")>>
Deep        == <<Entry(<<"address">>, "object"), Entry(<<"address", "geo">>, "object")>>

Store(orders, people) ==
    [documents |-> "orders" :> orders @@ "people" :> people, edges |-> {}]

Steady   == Store(<<Total("number"), Total("number"), Total("number")>>, <<Address>>)
Mixed    == Store(<<Total("number"), Total("string"), Total("number")>>, <<Address, Total("string")>>)
Nulls    == Store(<<Total("unknown"), Total("number")>>, <<>>)
Budgets  == Store(<<Wide>>, <<Address>>)
Nested   == Store(<<Total("number")>>, <<Deep>>)
Emptied  == [documents |-> "orders" :> <<Total("integer"), Total("number")>>, edges |-> {}]
Crowded  == [documents |-> [s \in {"orders", "people", "events"} |-> <<>>], edges |-> {}]

Edge(type, from, to) == [type |-> type, from |-> from, to |-> to]

Graph(rows) ==
    [documents |-> "Person" :> <<Total("integer"), Total("string")>> @@ "Company" :> <<Total("string")>>,
     edges |-> rows]

Employed  == Edge("WORKS_FOR", {"Person"}, {"Company"})
Secretly  == Edge("WORKS_FOR", {"Person", "Spy"}, {"Company"})
Reversed  == Edge("WORKS_FOR", {"Company"}, {"Person"})
Knows     == Edge("KNOWS", {"Person"}, {"Person"})
Dual      == Edge("OWNS", {"Person", "Company"}, {"Company"})

Stores == [b \in {"mongo", "neo4j"} |->
    IF b = "mongo" THEN {Steady, Mixed, Nulls, Budgets, Nested, Emptied, Crowded}
    ELSE {Graph({Employed, Knows}), Graph({Employed, Secretly}), Graph({Employed, Reversed, Knows}),
          Graph({Dual, Knows}), Graph({})}]
=============================================================================
