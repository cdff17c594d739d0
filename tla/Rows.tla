-------------------------------- MODULE Rows --------------------------------
(***************************************************************************)
(* Rows and what may be asked of them, in the words all backends share.  A *)
(* row is a function from names to scalars, a table a sequence of rows, in *)
(* the order the backend happens to keep them.  Sorting is stable, so that *)
(* an answer is one sequence.                                              *)
(***************************************************************************)
EXTENDS Planner

CONSTANT TextOrder \* the texts a database holds, in their order

Same(a, b) == a.kind = b.kind /\ a.val = b.val

Rank(x) == CASE x.kind = "none" -> -1
             [] x.kind = "time" -> Minutes(x.val)
             [] x.kind = "str"  -> SelectInSeq(TextOrder, LAMBDA t : t = x.val)
             [] x.kind = "ratio" -> (1000 * x.val[1]) \div x.val[2] \* small numbers only
             [] OTHER -> x.val

\* A test of one value, a list of one being tested member by member.  A text
\* here contains no text but itself.  What comparisons make of an absent value
\* is the backend's own; databases have none where one is compared.
Holds(x, op, value) ==
    LET y == value.items[1] IN
    CASE op \in {"=", "contains"} -> IF x.kind = "array" THEN y.val \in ToSet(x.val) ELSE Same(x, y)
      [] op = "!=" -> ~Same(x, y)
      [] op = "in" -> \E i \in DOMAIN value.items : Same(x, value.items[i])
      [] op = "not_in" -> \A i \in DOMAIN value.items : ~Same(x, value.items[i])
      [] op = ">"  -> Rank(x) > Rank(y)
      [] op = ">=" -> Rank(x) >= Rank(y)
      [] op = "<"  -> Rank(x) < Rank(y)
      [] op = "<=" -> Rank(x) <= Rank(y)
      [] op = "is_null"  -> (x.kind = "none") = y.val
      [] op = "exists"   -> (x.kind # "none") = y.val

\* A predicate is true of a row when its tree of operators is, passed[i] being
\* whether leaf i is.
Truth(tree, passed) ==
    LET nodes == UNION {{SubSeq(tree[i].path, 1, n) : n \in 0..Len(tree[i].path)} :
                        i \in DOMAIN tree}
        Kids(p) == {q \in nodes : Len(q) = Len(p) + 1 /\ SubSeq(q, 1, Len(p)) = p}
        value[p \in nodes] ==
            LET kids == Kids(p)
            IN  IF kids = {}
                THEN passed[CHOOSE i \in DOMAIN tree : tree[i].path = p]
                ELSE LET op == Last(CHOOSE q \in kids : TRUE).op
                     IN  CASE op = "and" -> \A q \in kids : value[q]
                           [] op = "or"  -> \E q \in kids : value[q]
                           [] op \in {"not", "nor"} -> \A q \in kids : ~value[q]
    IN  tree = <<>> \/ value[<<>>]

Having(table, tree) ==
    SelectSeq(table, LAMBDA row :
        Truth(tree, [i \in DOMAIN tree |->
            Holds(row[tree[i].test.field], tree[i].test.op, tree[i].test.value)]))

Page(table, offset, limit) ==
    SubSeq(table, offset + 1, IF offset + limit < Len(table) THEN offset + limit ELSE Len(table))

Precedes(a, b) == \E k \in DOMAIN a : a[k] < b[k] /\ \A j \in 1..k - 1 : a[j] = b[j]

Places(table) == [i \in DOMAIN table |-> i]

\* The table in the order of the ranks its rows have.
Sorted(table, ranks) ==
    LET Above(i, j) == Precedes(ranks[i], ranks[j]) \/ (ranks[i] = ranks[j] /\ i < j)
        place == [j \in DOMAIN table |-> 1 + Cardinality({i \in DOMAIN table : Above(i, j)})]
    IN  [k \in DOMAIN table |-> table[CHOOSE j \in DOMAIN table : place[j] = k]]

Directed(rank, desc) == IF desc THEN -rank ELSE rank

Alike(a, b) == \A k \in DOMAIN a : Same(a[k], b[k])

\* The places of the rows whose labels no row before them has.
Firsts(labels) ==
    SelectSeq(Places(labels), LAMBDA i : \A j \in 1..i - 1 : ~Alike(labels[j], labels[i]))

Once(table) == [k \in DOMAIN Firsts(table) |-> table[Firsts(table)[k]]]

\* The rows with equal labels together.
Grouped(table, labels) ==
    LET firsts == Firsts(labels)
        Members(k) == SelectSeq(Places(table), LAMBDA i : Alike(labels[i], labels[firsts[k]]))
    IN  [k \in DOMAIN firsts |-> [n \in DOMAIN Members(k) |-> table[Members(k)[n]]]]

\* An aggregate of the values that are there.
Total(agg, values) ==
    LET there == SelectSeq(values, LAMBDA x : x.kind # "none")
        sum   == FoldLeft(LAMBDA s, x : s + x.val, 0, there)
    IN  CASE agg = "count" -> Scalar("int", Len(there))
          [] agg # "count" /\ there = <<>> -> Null.items[1]
          [] agg = "sum" /\ there # <<>> -> Scalar("int", sum)
          [] agg = "avg" /\ there # <<>> -> Scalar("ratio", <<sum, Len(there)>>)
          [] agg = "min" /\ there # <<>> ->
                 CHOOSE x \in ToSet(there) : \A y \in ToSet(there) : Rank(x) <= Rank(y)
          [] agg = "max" /\ there # <<>> ->
                 CHOOSE x \in ToSet(there) : \A y \in ToSet(there) : Rank(x) >= Rank(y)

Aggregates == {"sum", "avg", "min", "max", "count"}

MinutesIn == [every \in {"1h", "1d"} |-> IF every = "1h" THEN 60 ELSE 1440]

Bucket(instant, every) == Scalar("int", Minutes(instant) \div MinutesIn[every])

Arithmetic(op, x, y) ==
    CASE op = "+" -> Scalar("int", x.val + y.val)
      [] op = "-" -> Scalar("int", x.val - y.val)
      [] op = "*" -> Scalar("int", x.val * y.val)
      [] op = "/" -> IF y.val = 0 THEN Null.items[1] ELSE Scalar("ratio", <<x.val, y.val>>)

\* What one output shows of a group of rows.
Shown(o, group) ==
    CASE o.form \in {"column", "node"} -> group[1][o.field]
      [] o.form = "bucket" -> Bucket(group[1][o.field].val, o.other[1])
      [] o.form \in Aggregates ->
             Total(o.form, [i \in DOMAIN group |->
                               IF o.field = Star THEN Scalar("int", 1) ELSE group[i][o.field]])
      [] o.form \in {"+", "-", "*", "/"} ->
             Arithmetic(o.form, group[1][o.field], group[1][o.other])

Line(outputs, group) == [o \in DOMAIN outputs |-> Shown(outputs[o], group)]

\* A sort key is the alias of an output or a field of the rows.
SortRanks(outputs, order, group) ==
    [k \in DOMAIN order |->
        LET o == SelectInSeq(outputs, LAMBDA x : x.alias = order[k].field)
        IN  Directed(Rank(IF o = 0 THEN group[1][order[k].field] ELSE Shown(outputs[o], group)),
                     order[k].desc)]

\* Groups of rows in order, a line of outputs for each.
Lines(groups, outputs, order) ==
    LET sorted == Sorted(groups, [g \in DOMAIN groups |-> SortRanks(outputs, order, groups[g])])
    IN  [g \in DOMAIN sorted |-> Line(outputs, sorted[g])]

Tabulated(groups, outputs, order, distinct) ==
    IF distinct THEN Once(Lines(groups, outputs, order)) ELSE Lines(groups, outputs, order)

Apart(table) == [i \in DOMAIN table |-> <<table[i]>>]

-----------------------------------------------------------------------------
(* Databases: [rows |-> tables by source, links |-> pairs of row numbers by *)
(* relationship, from the declared source to the declared target].          *)

\* The rows of a source under their qualified names.
Qualified(store, s) ==
    [i \in DOMAIN store.rows[s] |->
        LET row == store.rows[s][i]
        IN  [k \in {s \o f : f \in DOMAIN row} |-> row[SubSeq(k, Len(s) + 1, Len(k))]]]

Hops(edge, links, direction) ==
    LET along == {[from |-> <<edge.source, l[1]>>, to |-> <<edge.target, l[2]>>, link |-> l] : l \in links}
        back  == {[from |-> h.to, to |-> h.from, link |-> h.link] : h \in along}
    IN  CASE direction = "out" -> along [] direction = "in" -> back
          [] direction = "both" -> along \cup back

\* The walks over one relationship that use no link twice.
Walks(edge, links, direction, least, most) ==
    {w \in UNION {[1..n -> Hops(edge, links, direction)] : n \in least..most} :
        /\ \A i \in 1..Len(w) - 1 : w[i].to = w[i + 1].from
        /\ \A i, j \in DOMAIN w : i # j => w[i].link # w[j].link}
=============================================================================
