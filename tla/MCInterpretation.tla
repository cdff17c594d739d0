-------------------------- MODULE MCInterpretation --------------------------
(***************************************************************************)
(* Three sources of which the provider may be shown two, with a business   *)
(* term that stands for a field of the last; and a document store where    *)
(* the source the term stands for has a dotted name.                       *)
(***************************************************************************)
EXTENDS Interpretation

N(x) == <<x>>

Source(name, fields, words, size) ==
    [name |-> name, fields |-> fields, words |-> words, size |-> size]

Orders    == Source(N("orders"), {N("amount"), N("state")}, {"orders", "amount", "state"}, 2)
Customers == Source(N("customers"), {N("id"), N("state")}, {"customers", "id", "state"}, 2)
Ledger    == Source(N("ledger"), {N("net")}, {"ledger", "net"}, 2)
Archive   == Source(N("customers"), {N("id"), N("state")}, {"customers", "id", "state"}, 3)

PlacedBy == [source |-> N("orders"), target |-> N("customers")]
Booked   == [source |-> N("orders"), target |-> N("ledger")]

Shop   == [sources |-> <<Orders, Customers, Ledger>>, edges |-> {PlacedBy, Booked}]
Before == [sources |-> <<Archive, Orders>>, edges |-> {PlacedBy}]
ShopSchemas == {Shop, Before}

Terms == {[name |-> "revenue", aliases |-> {"turnover"}, candidates |-> <<<<"ledger", "net">>>>]}

Asked == {[words |-> {"orders", "amount", "state"}, mentions |-> {}],
          [words |-> {"orders", "state", "turnover"}, mentions |-> {"turnover"}],
          [words |-> {"turnover"}, mentions |-> {"turnover"}],
          [words |-> {"customers"}, mentions |-> {}]}

\* A provider may name sources it was not shown, or that are nowhere.
Listing == [sources |-> {N("customers")}]
Placing == [sources |-> {N("orders"), N("customers")}]
Guessing == [sources |-> {N("refunds")}]
Answerable == {Listing, Placing, Guessing}

Narrow == {N("customers"), N("ledger")}
AllPolicies == {Anything, Narrow}

-----------------------------------------------------------------------------

Events == Source(N("events"), {N("at")}, {"events", "at"}, 1)
Closed == Source(<<"shop", "closed">>, {N("total")}, {"shop", "closed", "total"}, 1)

Store == [sources |-> <<Events, Closed>>, edges |-> {}]
DottedSchemas == {Store}

DottedTerms == {[name |-> "losses", aliases |-> {}, candidates |-> <<<<"shop", "closed", "total">>>>]}

AskedOfStore == {[words |-> {"losses"}, mentions |-> {"losses"}]}
OnePolicy == {Anything}
=============================================================================
