------------------------------ MODULE MCAnswers ------------------------------
(***************************************************************************)
(* Questions asked of a document store, a graph, a time series and a       *)
(* key-value store, beside those of the shop.                              *)
(***************************************************************************)
EXTENDS MCGrounding

S(text) == Scalar("str", text)
I(n)    == Scalar("int", n)

Small == [Generous EXCEPT !.max_rows = 3, !.max_graph_depth = 3,
              !.allowed = @ \cup {N("sales"), N("archive"), N("person"), N("city"),
                                  N("cpu"), N("mem"), N("hash"), N("set"), N("zset"),
                                  N("stream"), N("json"), N("search"), N("points")}]

Plus(intended, changes) == changes @@ intended

Seqs1(items) == {<<>>} \cup {<<x>> : x \in items}

Measure(agg, n, alias) == [field |-> n, agg |-> agg, alias |-> N(alias)]
Shows(n, alias)        == [field |-> n, alias |-> alias]

Pages == {<<1, 0>>, <<2, 1>>, <<3, 0>>}

OverPages(intents) == {[i EXCEPT !.limit = p[1], !.offset = p[2]] : i \in intents, p \in Pages}

-----------------------------------------------------------------------------
(* Sales: documents with an array, a nested path and a field some lack.  The *)
(* archive has the same fields.                                              *)

City == <<"buyer", "city">>

SaleFields == {Field(N("amount"), "number"), Field(N("state"), "string"), Field(City, "string"),
               Field(N("tags"), "array"), Field(N("note"), "string")}

Sales == [sources |-> {[name |-> N("sales"), fields |-> SaleFields],
                       [name |-> N("archive"), fields |-> SaleFields]},
          edges |-> {}]

SaleDoc(amount, state, city, tags, note) ==
    (N("amount") :> I(amount)) @@ (N("state") :> S(state)) @@ (City :> S(city))
    @@ (N("tags") :> Scalar("array", tags)) @@ (N("note") :> note)

SalesStore == [
    rows |-> (N("sales") :> <<SaleDoc(2, "open", "red", <<"red", "blue">>, S("open")),
                              SaleDoc(0, "closed", "blue", <<>>, Null.items[1]),
                              SaleDoc(1, "open", "blue", <<"blue">>, Null.items[1])>>)
             @@ (N("archive") :> <<SaleDoc(3, "open", "red", <<"red">>, S("open"))>>),
    links |-> <<>>]

SaleTests == {Compare(N("state"), "=", "str", "open"), Compare(N("tags"), "contains", "str", "red"),
              Compare(City, "!=", "str", "red"), Compare(N("amount"), ">=", "int", 1),
              Compare(N("note"), "is_null", "bool", TRUE), Compare(N("note"), "exists", "bool", TRUE),
              [field |-> N("amount"), op |-> "not_in", value |-> Many(<<I(0), I(2)>>)]}

SaleTrees == {<<>>, <<At(<<Step("not", 1), Step("or", 1)>>, Compare(N("state"), "=", "str", "closed")),
                      At(<<Step("not", 1), Step("or", 2)>>, Compare(N("tags"), "contains", "str", "red"))>>}

SaleShown == {<<>>, <<Shows(City, NoName)>>, <<Shows(N("amount"), N("state")), Shows(City, N("place"))>>,
              <<Shows(City, N("amount")), Shows(N("amount"), NoName)>>, <<Shows(N("state"), N("kind"))>>}

SaleSorts == {<<>>, <<Latest(N("amount"))>>, <<By(City), By(N("amount"))>>, <<By(N("place"))>>,
              <<By(N("state")), Latest(N("state"))>>}

SaleRows == {Plus(Ask(<<N("sales")>>, <<>>), [filters |-> f, projections |-> o, sort |-> s, distinct |-> d]) :
                f \in Seqs1({Compare(N("state"), "=", "str", "open")}), o \in SaleShown, s \in SaleSorts,
                d \in BOOLEAN}
            \cup {Plus(Ask(<<N("sales")>>, <<>>), [filters |-> f, predicate |-> t, unwind |-> u]) :
                f \in Seqs1(SaleTests), t \in SaleTrees, u \in Seqs1({N("tags")})}

SaleGroups == {Plus(Ask(<<N("sales")>>, <<>>),
                    [operation |-> "aggregate", metrics |-> m, dimensions |-> d, sort |-> s, filters |-> f]) :
                  m \in {<<Measure("count", Star, "n"), Measure("count", N("note"), "noted")>>,
                         <<Measure("sum", N("amount"), "total")>>, <<Measure("avg", N("amount"), "state")>>,
                         <<Measure("max", N("amount"), "buyer_city")>>},
                  d \in {<<>>, <<N("state")>>, <<City>>, <<N("state"), City>>},
                  s \in {<<>>, <<Latest(N("total"))>>, <<By(City)>>, <<By(N("state"))>>},
                  f \in Seqs1({Compare(N("amount"), ">", "int", 5)})}
              \cup {Plus(Ask(<<N("sales")>>, <<>>),
                    [dimensions |-> <<City>>, projections |-> o, sort |-> s]) :
                  o \in SaleShown, s \in {<<>>, <<Latest(City)>>}}

MongoAsks == Asking("mongo", OverPages(SaleRows \cup SaleGroups), Sales, SalesStore)

-----------------------------------------------------------------------------
(* People, the cities they live in and the people they know.                *)

People == [
    sources |-> {[name |-> N("person"), fields |-> {Field(N("name"), "string"), Field(N("age"), "integer"),
                                                    Field(N("likes"), "array")}],
                 [name |-> N("city"), fields |-> {Field(N("name"), "string")}]},
    edges |-> {[name |-> N("lives"), source |-> N("person"), target |-> N("city"),
                source_field |-> NoName, target_field |-> NoName],
               [name |-> N("mayor"), source |-> N("city"), target |-> N("person"),
                source_field |-> NoName, target_field |-> NoName]}]

Person(name, age, likes) ==
    (N("name") :> S(name)) @@ (N("age") :> age) @@ (N("likes") :> Scalar("array", likes))

PeopleStore == [
    rows |-> (N("person") :> <<Person("red", I(3), <<"blue">>), Person("blue", I(1), <<>>),
                               Person("open", Null.items[1], <<"blue">>)>>)
             @@ (N("city") :> <<N("name") :> S("red"), N("name") :> S("closed")>>),
    links |-> (N("lives") :> {<<1, 1>>, <<2, 1>>, <<2, 2>>}) @@ (N("mayor") :> {<<1, 3>>})]

Way(rel, direction, least, most) ==
    [rel |-> N(rel), direction |-> direction, min_depth |-> least, max_depth |-> most]

Ways == {Way(r, d, b[1], b[2]) : r \in {"lives", "mayor"}, d \in {"out", "in", "both"},
                                 b \in {<<1, 1>>, <<1, 3>>, <<2, 3>>, <<1, 4>>}}

PersonTests == {Compare(N("age"), ">", "int", 1), Compare(N("age"), "is_null", "bool", FALSE),
                Compare(N("age"), "exists", "bool", FALSE),
                Compare(N("age"), "=", "none", 0), Compare(N("likes"), "contains", "str", "blue"),
                Compare(<<"person", "name">>, "contains", "str", "red")}

Traversing == {Plus(Ask(s, <<>>), [operation |-> "traverse", traversal |-> w, sort |-> o]) :
                  s \in {<<N("person"), N("city")>>, <<N("city"), N("person")>>}, w \in Ways,
                  o \in {<<>>, <<Latest(<<"person", "name">>)>>}}
              \cup {Plus(Ask(<<N("city"), N("person")>>, <<>>),
                         [operation |-> "aggregate", traversal |-> Way("lives", "in", 1, 1), metrics |-> m,
                          dimensions |-> d, projections |-> o, sort |-> s]) :
                  m \in {<<Measure("count", Star, "n")>>, <<Measure("sum", N("age"), "n")>>},
                  d \in {<<>>, <<<<"city", "name">>>>}, s \in Seqs1({Latest(N("n"))}),
                  o \in {<<>>, <<Shows(<<"city", "name">>, N("place"))>>}}

PersonRows == {Plus(Ask(<<N("person")>>, <<>>), [filters |-> f, projections |-> o, distinct |-> d]) :
                  f \in Seqs1(PersonTests), d \in BOOLEAN,
                  o \in {<<>>, <<Shows(N("age"), N("years"))>>, <<Shows(N("likes"), NoName)>>}}

PersonGroups == {Plus(Ask(<<N("person")>>, <<>>), [dimensions |-> <<N("likes")>>, projections |-> o, distinct |-> d]) :
                  o \in {<<>>, <<Shows(N("likes"), N("taste"))>>}, d \in BOOLEAN}

GraphAsks == Asking("neo4j", OverPages(Traversing \cup PersonRows \cup PersonGroups), People, PeopleStore)

-----------------------------------------------------------------------------
(* A measurement with two tags and one of the same shape beside it, and a   *)
(* table of the same points.                                                *)

PointField(n, type, role) == [name |-> N(n), type |-> type, role |-> role]
PointFields == {PointField("at", "datetime", "time"), PointField("host", "string", "tag"),
                PointField("zone", "string", "tag"), PointField("load", "number", "field")}

Measured(n, fields) == [name |-> N(n), fields |-> fields, kind |-> "measurement", bucket |-> N("b"),
                time_field |-> N("at")]

Loads  == [sources |-> {Measured("cpu", PointFields),
                           Measured("mem", PointFields \cup {PointField("free", "number", "field")})}, edges |-> {}]
Hyper  == [sources |-> {[name |-> N("points"), fields |-> PointFields]}, edges |-> {}]

Point(at, host, zone, load) ==
    (N("at") :> Scalar("time", at)) @@ (N("host") :> S(host)) @@ (N("zone") :> S(zone)) @@ (N("load") :> I(load))

Loaded == <<Point(Instant(2024, 2, 1, 0), "red", "open", 2), Point(Instant(2024, 2, 1, 30), "blue", "open", 1),
            Point(Instant(2024, 2, 1, 60), "red", "closed", 4), Point(Instant(2024, 2, 2, 0), "red", "open", 3),
            Point(Instant(2024, 3, 1, 0), "blue", "closed", 1)>>

LoadsStore == [rows |-> (N("cpu") :> Loaded) @@ (N("mem") :> [i \in DOMAIN Loaded |-> (N("free") :> I(i)) @@ Loaded[i]]),
               links |-> <<>>]
HyperStore == [rows |-> N("points") :> Loaded, links |-> <<>>]

InFebruary == Compare(N("at"), "relative_time", "str", "last_month")
From(i)    == Compare(N("at"), ">=", "time", i)
Until(i) == Compare(N("at"), "<", "time", i)
Host(op)   == Compare(N("host"), op, "str", "red")

Ranges == {<<InFebruary>>, <<InFebruary, Host("=")>>, <<From(Instant(2024, 2, 1, 30)), Until(Instant(2024, 2, 2, 0))>>,
           <<InFebruary, From(Instant(2024, 2, 1, 45))>>, <<From(Instant(2024, 2, 1, 45))>>,
           <<InFebruary, Until(Instant(2024, 2, 2, 0)), Host("!=")>>, <<InFebruary, Compare(N("load"), ">", "int", 1)>>}

Buckets == {[field |-> NoName, every |-> "", alias |-> NoName]}
           \cup {[field |-> N("at"), every |-> e, alias |-> N("bucket")] : e \in {"1h", "1d"}}

SeriesIntents(s) ==
    {Plus(Ask(<<N(s)>>, <<>>), [filters |-> f, dimensions |-> d, metrics |-> m, sort |-> o, window |-> w]) :
        f \in Ranges, d \in {<<>>, <<N("host")>>, <<N("zone"), N("host")>>},
        m \in Seqs1({Measure(a, N("load"), "load") : a \in {"sum", "max", "count"}} \cup {Measure("count", N("host"), "n")}),
        o \in {<<>>, <<Latest(N("load"))>>, <<By(N("host"))>>, <<By(N("at"))>>},
        w \in Buckets}

SeriesAsks == Asking("influx", SeriesIntents("cpu") \cup {i \in SeriesIntents("mem") : i.dimensions = <<N("host")>>},
                     Loads, LoadsStore)
              \cup Asking("timescaledb", {i \in SeriesIntents("points") : i.dimensions = <<N("host")>>},
                          Hyper, HyperStore)

-----------------------------------------------------------------------------
(* One key of each type, the types being the names.                         *)

KeyFields == [hash   |-> {"state", "amount"}, set |-> {"member"}, zset |-> {"member", "score"},
              stream |-> {"state"}, json |-> {"state", "amount"}, search |-> {"state"}]

Keys == [sources |-> {[name |-> N(t), fields |-> {Field(N(f), "string") : f \in KeyFields[t]},
                       key |-> <<"key", t>>, key_type |-> t] : t \in DOMAIN KeyFields}
                     \cup {[name |-> N("keyless"), fields |-> {}, key |-> NoName, key_type |-> ""]},
         edges |-> {}]

Held == <<"open", "closed", "red", "blue">>

KeysStore == [
    rows |-> [s \in {N(t) : t \in DOMAIN KeyFields} |->
                 [i \in 1..(IF s[1] \in {"hash", "json"} THEN 1 ELSE 4) |->
                     [f \in {N(g) : g \in KeyFields[s[1]]} |-> S(Held[i])]]],
    links |-> <<>>]

KeyIntents == {Plus(Ask(<<N(t)>>, <<>>), [projections |-> o, filters |-> f, limit |-> l, offset |-> k]) :
                  t \in DOMAIN KeyFields \cup {"keyless"}, f \in Seqs1({Compare(N("state"), "=", "str", "open")}),
                  o \in {<<>>, <<Shows(N("state"), NoName)>>, <<Shows(N("state"), N("kind"))>>,
                         <<Shows(N("amount"), NoName), Shows(N("state"), NoName)>>},
                  l \in 1..3, k \in 0..3}

RedisAsks == Asking("redis", KeyIntents, Keys, KeysStore)

-----------------------------------------------------------------------------

AllAsks == ShopAsks \cup MongoAsks \cup GraphAsks \cup SeriesAsks \cup RedisAsks

\* What PlansDoNotGuess supposes of the questions, and what PlansReground does.
ASSUME AskedApart == SpellingsApart
ASSUME AskedAgain == TermsApart /\ PlansFit
=============================================================================
