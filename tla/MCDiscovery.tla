---------------------------- MODULE MCDiscovery ----------------------------
(***************************************************************************)
(* A shop's database in the states a migration moves it through, and the   *)
(* databases that try the budgets and the naming of relationships.         *)
(***************************************************************************)
EXTENDS Discovery, TLC

Orders    == <<"orders">>
Customers == <<"customers">>
OrderItem == <<"order", "item">>
Order     == <<"order">>
ItemKind  == <<"item", "kind">>
Kind      == <<"kind">>

Key(name, source, pairs, target) ==
    [name |-> name, source |-> source, target |-> target, pairs |-> pairs]

Database(columns, keys) == [columns |-> columns, keys |-> keys, times |-> <<>>]

\* A database with hypertables.
Timed(database, hypertables) == [database EXCEPT !.times = hypertables]

PlacedBy == Key("placed_by", Orders, <<<<"customer", "id">>>>, Customers)

Shop    == Database(Orders :> <<"amount", "customer">> @@ Customers :> <<"id">>, <<PlacedBy>>)
Bare    == Database(Orders :> <<"amount">>, <<>>)
Renamed == Database(Orders :> <<"total", "customer">> @@ Customers :> <<"id", "state">>, <<PlacedBy>>)

\* One table too many, one column too many.
Many == Database(Orders :> <<"amount">> @@ Customers :> <<"id">> @@ OrderItem :> <<"id">>, <<>>)
Wide == Database(Orders :> <<"amount", "customer", "state">>, <<>>)

\* A key over two columns.
Composite == Database(
    Orders :> <<"amount", "customer">> @@ Customers :> <<"id", "state">>,
    <<Key("placed_by", Orders, <<<<"customer", "id">>, <<"amount", "state">>>>, Customers)>>)

\* Two tables' keys of the same name.
SameName == Database(
    Orders :> <<"amount", "customer">> @@ Customers :> <<"id", "referrer">>,
    <<PlacedBy, Key("placed_by", Customers, <<<<"referrer", "id">>>>, Customers)>>)

\* order_item to kind, and order to item_kind.
Underscored == Database(
    OrderItem :> <<"kind">> @@ Kind :> <<"id">> @@ Order :> <<"kind">> @@ ItemKind :> <<"id">>,
    <<Key("a", OrderItem, <<<<"kind", "id">>>>, Kind), Key("b", Order, <<<<"kind", "id">>>>, ItemKind)>>)

\* Two tables as wide as allowed and a third.
Sprawling == Database(
    Orders :> <<"amount", "customer">> @@ Customers :> <<"id", "state">> @@ OrderItem :> <<"id">>,
    <<>>)

\* The fields of Jira's issues.
Issues   == <<"issues">>
Fewer    == Database(Issues :> <<"summary">>, <<>>)
Enough   == Database(Issues :> <<"summary", "status">>, <<>>)
TooMany  == Database(Issues :> <<"summary", "status", "updated">>, <<>>)
Trackers == {Fewer, Enough, TooMany}

\* Two keys, one of them replaced by another of its name, or gone.
Keyspace == Database(Orders :> <<"zset">> @@ Customers :> <<"search">>, <<>>)
Replaced == Database(Orders :> <<"hash">> @@ Customers :> <<"search">>, <<>>)
Expired  == Database(Orders :> <<"zset">>, <<>>)

Listed(name, type, width) == [name |-> name, type |-> type, width |-> width]

KeyLists == {<<Listed(Orders, "zset", 2), Listed(Customers, "search", 1)>>,
             <<Listed(Customers, "search", 1), Listed(Orders, "hash", 1)>>,
             <<Listed(Orders, "zset", 3)>>,
             <<Listed(Orders, "zset", 1), Listed(Customers, "search", 1), Listed(Kind, "set", 1)>>}

Hypertables == {Timed(Shop, <<<<Orders, "amount">>>>),
                Timed(Renamed, <<<<Orders, "total">>, <<Customers, "state">>>>),
                Timed(Bare, <<>>), Timed(SameName, <<<<Orders, "amount">>>>)}

Migration == [b \in Backends |->
    IF b = "jira" THEN Trackers
    ELSE IF b = "redis" THEN {Keyspace, Replaced, Expired}
    ELSE IF b = "timescaledb" THEN Hypertables
    ELSE {Shop, Bare, Renamed, Many, Wide, Composite, SameName, Sprawling}]

\* Names of relationships that collide, and a page of fields that is not the last.
Lapsing == [b \in Backends |-> CASE b = "sqlite"   -> {Shop, Underscored}
                                 [] b = "postgres" -> {Shop, SameName}
                                 [] OTHER          -> Trackers]

\* The instances keep to the hypotheses of the theorems about discovery.
ASSUME KeysFit
=============================================================================
