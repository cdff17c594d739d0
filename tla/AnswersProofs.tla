---------------------------- MODULE AnswersProofs ----------------------------
(***************************************************************************)
(* Proofs about the planner and the statements made of its plans, for      *)
(* every question, schema, catalog and policy; and about MongoDB's call,   *)
(* in which the collection changes between verification and the answer.    *)
(***************************************************************************)
EXTENDS Answers, MongoSession, PlannerProofs

-----------------------------------------------------------------------------
(* Tables                                                                  *)

\* The table a join adds to those before it.
Added(tables, e) == IF e.source \in ToSet(tables) THEN e.target ELSE e.source

\* f[k] lists the tables of FROM after k joins.
Listing(f, i, s, n) ==
    /\ f[0] = <<i.sources[1]>>
    /\ \A k \in 1..n : f[k] = Append(f[k - 1], Added(f[k - 1], Edge(s, i.joins[k].rel)))

LEMMA ListingExists ==
    ASSUME NEW i, NEW s, NEW N \in Nat
    PROVE  \A n \in 0..N : \E f : f = [k \in 0..n |-> f[k]] /\ Listing(f, i, s, n)
<1> DEFINE Good(n) == \E f : f = [k \in 0..n |-> f[k]] /\ Listing(f, i, s, n)
           Wrong   == {n \in 0..N : ~Good(n)}
<1> SUFFICES ASSUME Wrong # {} PROVE FALSE
  OBVIOUS
<1>1. PICK m \in Wrong : \A n \in Wrong : m <= n
  <2>1. Wrong \in SUBSET Nat
    OBVIOUS
  <2> HIDE DEF Wrong
  <2> QED BY <2>1, LeastExists
<1>2. m \in 0..N /\ ~Good(m) /\ m \in Nat
  OBVIOUS
<1>3. m # 0
  <2> DEFINE f == [k \in 0..0 |-> <<i.sources[1]>>]
  <2>1. f = [k \in 0..0 |-> f[k]] /\ Listing(f, i, s, 0)
    BY DEF Listing
  <2> QED BY <1>2, <2>1
<1>4. PICK f : f = [k \in 0..m - 1 |-> f[k]] /\ Listing(f, i, s, m - 1)
  <2>1. m - 1 \in 0..N /\ ~(m <= m - 1)
    BY <1>2, <1>3
  <2>2. m - 1 \notin Wrong
    <3> HIDE DEF Wrong
    <3> QED BY <1>1, <2>1
  <2> QED BY <2>1, <2>2
<1> DEFINE last == Append(f[m - 1], Added(f[m - 1], Edge(s, i.joins[m].rel)))
           g    == [k \in 0..m |-> IF k = m THEN last ELSE f[k]]
<1>5. g = [k \in 0..m |-> g[k]]
  OBVIOUS
<1>6. Listing(g, i, s, m)
  <2> HIDE DEF last
  <2>1. g[0] = f[0] /\ g[m] = last
    BY <1>2, <1>3
  <2>2. \A k \in 1..m : g[k - 1] = f[k - 1] /\ (k # m => g[k] = f[k] /\ k \in 1..m - 1)
    BY <1>2
  <2> QED BY <1>4, <2>1, <2>2 DEF Listing, last
<1> HIDE DEF g
<1> QED BY <1>2, <1>5, <1>6

\* Joins that the walk accepts add their tables one by one, each to the others.
LEMMA TablesListed ==
    ASSUME NEW i, NEW s, i.joins \in Seq(ToSet(i.joins)), i.sources \in Seq(ToSet(i.sources)),
           i.sources # <<>>, ~Traverses(i), EdgeError(i, s) = "none",
           NEW f, Listing(f, i, s, Len(i.joins))
    PROVE  \A k \in 0..Len(i.joins) :
               /\ f[k] \in Seq(ToSet(i.sources))
               /\ Len(f[k]) = k + 1
               /\ ToSet(f[k]) = Involved(i, s, k + 1)
               /\ \A j \in 0..k : \A m \in 1..j + 1 : f[k][m] = f[j][m]
<1> DEFINE n == Len(i.joins)
           S == ToSet(i.sources)
           Good(k) == /\ f[k] \in Seq(S)
                      /\ Len(f[k]) = k + 1
                      /\ ToSet(f[k]) = Involved(i, s, k + 1)
                      /\ \A j \in 0..k : \A m \in 1..j + 1 : f[k][m] = f[j][m]
           Wrong == {k \in 0..n : ~Good(k)}
<1>0. n \in Nat /\ i.sources[1] \in S
  <2>1. Len(i.sources) # 0 /\ Len(i.sources) \in Nat
    BY EmptySeq, LenProperties
  <2>2. 1 \in 1..Len(i.sources)
    BY <2>1
  <2> QED BY <2>2, ElementOfSeq, LenProperties
<1>1. /\ EdgesWalked(i) \in Seq({j.rel : j \in ToSet(i.joins)})
      /\ Len(EdgesWalked(i)) = n
      /\ \A k \in 1..n : EdgesWalked(i)[k] = i.joins[k].rel
  <2>1. EdgesWalked(i) = [k \in 1..n |-> i.joins[k].rel]
    BY JoinsWalked
  <2> DEFINE R == {j.rel : j \in ToSet(i.joins)}
  <2>2. \A k \in 1..n : i.joins[k].rel \in R
    BY ElementOfSeq
  <2> HIDE DEF R
  <2>3. [k \in 1..n |-> i.joins[k].rel] \in Seq(R)
    BY <1>0, <2>2, SeqDef
  <2>4. Len([k \in 1..n |-> i.joins[k].rel]) = n
    BY <1>0
  <2>5. EdgesWalked(i) \in Seq(R)
    BY <2>1, <2>3, Zenon
  <2> QED BY <2>1, <2>4, <2>5 DEF R
<1>2. \A k \in 1..n : LET e == Edge(s, i.joins[k].rel)
                      IN  /\ {e.source, e.target} \cap Involved(i, s, k) # {}
                          /\ {e.source, e.target} \subseteq S
                          /\ Ends(s, EdgesWalked(i)[k]) = {e.source, e.target}
  BY <1>1, EdgesAccepted DEF Ends
<1>3. Involved(i, s, 1) = {i.sources[1]}
  BY DEF Involved
<1>4. \A k \in 1..n : Involved(i, s, k + 1) = Involved(i, s, k) \cup Ends(s, EdgesWalked(i)[k])
  <2> SUFFICES ASSUME NEW k \in 1..n
               PROVE  Involved(i, s, k + 1) = Involved(i, s, k) \cup Ends(s, EdgesWalked(i)[k])
    OBVIOUS
  <2>1. 1..(k + 1) - 1 = (1..k - 1) \cup {k}
    BY <1>0
  <2> QED BY <2>1 DEF Involved
<1> SUFFICES ASSUME Wrong # {} PROVE FALSE
  OBVIOUS
<1>5. PICK m \in Wrong : \A k \in Wrong : m <= k
  <2>1. Wrong \in SUBSET Nat
    BY <1>0
  <2> HIDE DEF Wrong
  <2> QED BY <2>1, LeastExists
<1>6. m \in 0..n /\ ~Good(m) /\ m \in Nat
  <2> HIDE DEF Good
  <2>1. m \in 0..n /\ ~Good(m)
    OBVIOUS
  <2> QED BY <1>0, <2>1
<1>7. CASE m = 0
  <2>1. f[0] = <<i.sources[1]>>
    BY DEF Listing
  <2>2. f[0] \in Seq(S) /\ Len(f[0]) = 0 + 1 /\ ToSet(f[0]) = {i.sources[1]}
    BY <1>0, <2>1 DEF ToSet
  <2>3. \A j \in 0..0 : \A x \in 1..j + 1 : f[0][x] = f[j][x]
    OBVIOUS
  <2> QED BY <1>3, <1>6, <1>7, <2>2, <2>3
<1>8. CASE m # 0
  <2> DEFINE e == Edge(s, i.joins[m].rel)
             t == Added(f[m - 1], e)
  <2>1. m \in 1..n /\ m - 1 \in 0..n /\ ~(m <= m - 1) /\ (m - 1) + 1 = m
    BY <1>0, <1>6, <1>8
  <2>2. Good(m - 1)
    <3>1. m - 1 \notin Wrong
      <4> HIDE DEF Wrong
      <4> QED BY <1>5, <2>1
    <3> QED BY <2>1, <3>1
  <2>3. f[m] = Append(f[m - 1], t)
    BY <2>1 DEF Listing
  <2>4. t \in {e.source, e.target} /\ t \in S
    BY <1>2, <2>1 DEF Added
  <2>5. /\ f[m] \in Seq(S) /\ Len(f[m]) = m + 1 /\ f[m][m + 1] = t
        /\ \A x \in 1..m : f[m][x] = f[m - 1][x]
    <3> HIDE DEF t
    <3>1. f[m - 1] \in Seq(S) /\ Len(f[m - 1]) = m
      BY <2>1, <2>2
    <3> QED BY <2>3, <2>4, <3>1, AppendProperties
  <2>6. ToSet(f[m]) = ToSet(f[m - 1]) \cup {t}
    <3>1. DOMAIN f[m] = 1..m + 1 /\ DOMAIN f[m - 1] = 1..m
      BY <2>1, <2>2, <2>5, LenProperties
    <3>2. 1..m + 1 = (1..m) \cup {m + 1}
      BY <1>6
    <3>3. ToSet(f[m]) = {f[m][x] : x \in 1..m} \cup {f[m][m + 1]}
      BY <3>1, <3>2 DEF ToSet
    <3>4. ToSet(f[m - 1]) = {f[m][x] : x \in 1..m}
      BY <2>5, <3>1 DEF ToSet
    <3> QED BY <2>5, <3>3, <3>4
  <2>7. ToSet(f[m]) = Involved(i, s, m + 1)
    <3>1. ToSet(f[m - 1]) = Involved(i, s, m)
      BY <2>1, <2>2
    <3>2. Involved(i, s, m + 1) = Involved(i, s, m) \cup {e.source, e.target}
      BY <1>2, <1>4, <2>1
    <3>3. {e.source, e.target} \cap Involved(i, s, m) # {}
      BY <1>2, <2>1
    <3> QED BY <2>6, <3>1, <3>2, <3>3 DEF Added
  <2>8. \A j \in 0..m : \A x \in 1..j + 1 : f[m][x] = f[j][x]
    <3> SUFFICES ASSUME NEW j \in 0..m, NEW x \in 1..j + 1, j # m PROVE f[m][x] = f[j][x]
      OBVIOUS
    <3>1. j \in 0..m - 1 /\ x \in 1..m
      BY <1>6
    <3>2. f[m][x] = f[m - 1][x] /\ f[m - 1][x] = f[j][x]
      BY <2>2, <2>5, <3>1
    <3> QED BY <3>2
  <2> QED BY <1>6, <2>5, <2>7, <2>8
<1> QED BY <1>7, <1>8

\* The FROM clause of an accepted intent, and its ON clauses.
LEMMA StatementJoins ==
    ASSUME NEW i, NEW s, i.joins \in Seq(ToSet(i.joins)), i.sources \in Seq(ToSet(i.sources)),
           i.sources # <<>>, ~Traverses(i), EdgeError(i, s) = "none",
           NEW q, q.sources = i.sources, q.joins = i.joins
    PROVE  LET from == Sql!Tables(q, s)
               on   == Sql!OnClauses(q, s)
           IN  /\ ToSet(from) = ToSet(i.sources)
               /\ DOMAIN on = 1..Len(i.joins)
               /\ \A k \in 1..Len(i.joins) :
                     LET named == {c.table : c \in on[k]}
                     IN  /\ named \subseteq ToSet(SubSeq(from, 1, k + 1))
                         /\ from[k + 1] \in named
                         /\ named \cap ToSet(SubSeq(from, 1, k)) # {}
<1> DEFINE n == Len(i.joins)
           Upto(f) == f = [k \in 0..n |->
                              IF k = 0 THEN <<i.sources[1]>>
                              ELSE Append(f[k - 1], Added(f[k - 1], Edge(s, i.joins[k].rel)))]
           h == CHOOSE f : Upto(f)
<1>0. n \in Nat /\ DOMAIN i.joins = 1..n
  BY LenProperties
<1>1. Sql!Tables(q, s) = h[n]
  BY DEF Sql!Tables, Sql!Edge, Edge, Sql!ToSet, ToSet, Added
<1>2. PICK g : g = [k \in 0..n |-> g[k]] /\ Listing(g, i, s, n)
  <2>1. n \in 0..n
    BY <1>0
  <2> HIDE DEF n
  <2> QED BY <1>0, <2>1, ListingExists
<1>3. Upto(g)
  <2>1. \A k \in 0..n : g[k] = IF k = 0 THEN <<i.sources[1]>>
                               ELSE Append(g[k - 1], Added(g[k - 1], Edge(s, i.joins[k].rel)))
    <3>1. \A k \in 0..n : k # 0 => k \in 1..n
      BY <1>0
    <3> QED BY <1>2, <3>1, Zenon DEF Listing
  <2> QED BY <1>2, <2>1, Zenon
<1>4. Upto(h)
  BY <1>3
<1> HIDE DEF h
<1>5. Listing(h, i, s, n)
  <2>1. h[0] = <<i.sources[1]>>
    BY <1>0, <1>4
  <2>2. \A k \in 1..n : h[k] = Append(h[k - 1], Added(h[k - 1], Edge(s, i.joins[k].rel)))
    <3>1. \A k \in 1..n : k \in 0..n /\ k # 0
      BY <1>0
    <3>2. \A k \in 0..n : h[k] = IF k = 0 THEN <<i.sources[1]>>
                                 ELSE Append(h[k - 1], Added(h[k - 1], Edge(s, i.joins[k].rel)))
      BY <1>4, Zenon
    <3> QED BY <3>1, <3>2, Zenon
  <2> QED BY <2>1, <2>2 DEF Listing
<1>6. \A k \in 0..n : /\ h[k] \in Seq(ToSet(i.sources)) /\ Len(h[k]) = k + 1
                      /\ ToSet(h[k]) = Involved(i, s, k + 1)
                      /\ \A j \in 0..k : \A m \in 1..j + 1 : h[k][m] = h[j][m]
  BY <1>5, TablesListed
<1>7. EdgesWalked(i) = [k \in 1..n |-> i.joins[k].rel]
  BY JoinsWalked
<1>8. EdgesWalked(i) \in Seq({i.joins[k].rel : k \in 1..n}) /\ Len(EdgesWalked(i)) = n
  <2> DEFINE R == {i.joins[k].rel : k \in 1..n}
  <2>1. \A k \in 1..n : i.joins[k].rel \in R
    OBVIOUS
  <2> HIDE DEF R
  <2>2. [k \in 1..n |-> i.joins[k].rel] \in Seq(R) /\ Len([k \in 1..n |-> i.joins[k].rel]) = n
    BY <1>0, <2>1, SeqDef
  <2>3. EdgesWalked(i) \in Seq(R) /\ Len(EdgesWalked(i)) = n
    BY <1>7, <2>2, Zenon
  <2> QED BY <2>3 DEF R
<1>9. ToSet(h[n]) = ToSet(i.sources)
  <2>1. n \in 0..n
    BY <1>0
  <2>2. Involved(i, s, n + 1) = ToSet(i.sources)
    BY <1>8, EdgesAccepted
  <2> QED BY <1>6, <2>1, <2>2
<1>10. DOMAIN Sql!OnClauses(q, s) = 1..n
  BY <1>0 DEF Sql!OnClauses
<1>11. ASSUME NEW k \in 1..n
       PROVE  LET named == {c.table : c \in Sql!OnClauses(q, s)[k]}
              IN  /\ named \subseteq ToSet(SubSeq(h[n], 1, k + 1))
                  /\ h[n][k + 1] \in named
                  /\ named \cap ToSet(SubSeq(h[n], 1, k)) # {}
  <2> DEFINE e == Edge(s, i.joins[k].rel)
  <2>1. {c.table : c \in Sql!OnClauses(q, s)[k]} = {e.source, e.target}
    <3>1. Sql!Edge(s, q.joins[k].rel) = e
      BY DEF Sql!Edge, Edge
    <3> HIDE DEF e
    <3>2. Sql!OnClauses(q, s)[k] = {[table |-> e.source, column |-> e.source_field],
                                    [table |-> e.target, column |-> e.target_field]}
      BY <1>0, <3>1 DEF Sql!OnClauses
    <3> QED BY <3>2
  <2>2. {e.source, e.target} \cap Involved(i, s, k) # {}
    BY <1>7, <1>8, EdgesAccepted DEF Ends
  <2>3. {e.source, e.target} \subseteq Involved(i, s, k + 1)
    BY <1>0, <1>7 DEF Involved, Ends
  <2>4. k \in 0..n /\ k - 1 \in 0..n /\ n \in 0..n /\ (k - 1) + 1 = k
    BY <1>0
  <2>5. h[k][k + 1] \in {e.source, e.target}
    <3>1. h[k] = Append(h[k - 1], Added(h[k - 1], e))
      BY <1>5 DEF Listing
    <3>2. h[k - 1] \in Seq(ToSet(i.sources)) /\ Len(h[k - 1]) = k
      BY <1>6, <2>4
    <3>3. Added(h[k - 1], e) \in {e.source, e.target}
      BY DEF Added
    <3> HIDE DEF e
    <3>4. h[k][k + 1] = Added(h[k - 1], e)
      BY <3>1, <3>2, AppendProperties
    <3> QED BY <3>3, <3>4
  <2>6. \A j \in 0..n : ToSet(SubSeq(h[n], 1, j + 1)) = Involved(i, s, j + 1)
    <3> SUFFICES ASSUME NEW j \in 0..n
                 PROVE  ToSet(SubSeq(h[n], 1, j + 1)) = ToSet(h[j])
      BY <1>6
    <3>1. /\ h[n] \in Seq(ToSet(i.sources)) /\ Len(h[n]) = n + 1
          /\ h[j] \in Seq(ToSet(i.sources)) /\ Len(h[j]) = j + 1
          /\ \A m \in 1..j + 1 : h[n][m] = h[j][m]
      BY <1>6, <2>4
    <3>2. DOMAIN h[j] = 1..j + 1 /\ DOMAIN h[n] = 1..n + 1
      BY <3>1, LenProperties
    <3>3. SubSeq(h[n], 1, j + 1) = h[j]
      <4>1. SubSeq(h[n], 1, j + 1) = [m \in 1..j + 1 |-> h[n][m]]
        BY <1>0, <3>1
      <4>2. h[j] = [m \in 1..j + 1 |-> h[j][m]]
        BY <3>1, SeqDef
      <4> QED BY <3>1, <4>1, <4>2
    <3> QED BY <3>3
  <2>7. h[n][k + 1] = h[k][k + 1]
    <3>1. k + 1 \in 1..k + 1
      BY <1>0
    <3>2. \A m \in 1..k + 1 : h[n][m] = h[k][m]
      BY <1>6, <2>4
    <3> HIDE DEF n
    <3> QED BY <3>1, <3>2
  <2>8. /\ ToSet(SubSeq(h[n], 1, k + 1)) = Involved(i, s, k + 1)
        /\ ToSet(SubSeq(h[n], 1, k)) = Involved(i, s, k)
    BY <2>4, <2>6
  <2> HIDE DEF e
  <2> QED BY <2>1, <2>2, <2>3, <2>5, <2>7, <2>8
<1> QED BY <1>1, <1>9, <1>10, <1>11

-----------------------------------------------------------------------------
(* What is in hand at each step                                            *)

Past == {"planned", "proposed", "replanned", "answered", "failed", "returned"}

\* A plan without an error is the grounding of an intent nothing is wrong with.
PlanMade ==
    plan.error = "none" =>
        /\ PlanError(intent, schema, Capabilities(ask.backend), Policy, catalog, now) = "none"
        /\ plan.ir = Ground(intent, schema, catalog, now)
        /\ plan.reference = now

IInv == /\ ask \in Asks
        /\ phase \in {"asked", "refused"} \cup Past
        /\ PlanMade
        /\ phase \in Past => plan.error = "none"
        /\ phase = "proposed" =>
               query = Compile(ask.backend, plan.ir, schema, Policy) /\ query.error = "none"
        /\ phase = "replanned" =>
               again = BuildPlan(plan.ir, schema, Capabilities(ask.backend), Policy, EmptyCatalog,
                                 plan.reference)

LEMMA AnswersInit == Init => IInv
BY DEF Init, InitGrounding, IInv, PlanMade, NoPlan, Past

LEMMA AnswersStep == IInv /\ [Next]_vars => IInv'
<1> SUFFICES ASSUME IInv, [Next]_vars PROVE IInv'
  OBVIOUS
<1> USE DEF intent, schema, now, catalog
<1>1. CASE Plan /\ UNCHANGED <<answer, result>>
  <2> DEFINE error == PlanError(intent, schema, Capabilities(ask.backend), Policy, catalog, now)
  <2>1. plan' = Planned(error, intent, schema, catalog, now)
    BY <1>1 DEF Plan, BuildPlan
  <2>2. plan'.error = error
    BY <2>1 DEF Planned
  <2>3. error = "none" => plan'.ir = Ground(intent, schema, catalog, now) /\ plan'.reference = now
    BY <2>1 DEF Planned
  <2>4. phase' = IF error = "none" THEN "planned" ELSE "refused"
    BY <1>1, <2>2 DEF Plan
  <2>5. ask' = ask
    BY <1>1 DEF Plan
  <2> QED BY <2>2, <2>3, <2>4, <2>5 DEF IInv, PlanMade, Past
<1>2. CASE Render /\ UNCHANGED <<answer, result>>
  BY <1>2 DEF Render, IInv, PlanMade, Past
<1>3. CASE Replan /\ UNCHANGED <<answer, result>>
  BY <1>3 DEF Replan, IInv, PlanMade, Past
<1>4. CASE Run
  BY <1>4 DEF Run, IInv, PlanMade, Past
<1>5. CASE Normalise
  BY <1>5 DEF Normalise, IInv, PlanMade, Past
<1>6. CASE UNCHANGED vars
  BY <1>6 DEF vars, groundingVars, IInv, PlanMade, Past
<1> QED BY <1>1, <1>2, <1>3, <1>4, <1>5, <1>6 DEF Next, NextGrounding

\* Grounding leaves alone what names no field.
LEMMA GroundKeeps ==
    ASSUME NEW i, NEW s, NEW c, NEW t, Lists \subseteq DOMAIN i
    PROVE  LET ir == Ground(i, s, c, t)
           IN  ir.sources = i.sources /\ ir.joins = i.joins
BY DEF Ground, Lists

LEMMA AnswersInvariance == Spec => []IInv
BY AnswersInit, AnswersStep, PTL DEF Spec

\* Statements of SQL join each table to those before it, and list the selected
\* sources only (planner.py:125-141, sql.py:121-128).
THEOREM StatementsJoinInScope == Spec => []JoinsInScope
<1> SUFFICES ASSUME IInv PROVE JoinsInScope
  BY AnswersInvariance, PTL
<1> SUFFICES ASSUME phase = "proposed", ask.backend \in Relational PROVE JoinsInScope
  BY DEF JoinsInScope
<1> DEFINE caps == Capabilities(ask.backend)
<1>1. /\ ask \in Asks /\ plan.error = "none"
      /\ PlanError(intent, schema, caps, Policy, catalog, now) = "none"
      /\ plan.ir = Ground(intent, schema, catalog, now)
      /\ query = Compile(ask.backend, plan.ir, schema, Policy) /\ query.error = "none"
  BY DEF IInv, PlanMade, Past
<1>2. RequestError(intent, schema, caps, Policy) = "none" /\ EdgeError(intent, schema) = "none"
  BY <1>1 DEF PlanError, OrElse
<1>3. ~caps.graph_traversal
  BY DEF Capabilities, Relational, Modest
<1>4. ~Traverses(intent)
  <2> HIDE DEF caps
  <2> QED BY <1>2, <1>3, RequestAccepted DEF Unsupported
<1>5. /\ Lists \subseteq DOMAIN intent
      /\ intent.sources \in Seq(ToSet(intent.sources)) /\ intent.sources # <<>>
      /\ intent.joins \in Seq(ToSet(intent.joins))
  BY <1>1, AsksAssumption DEF intent, WellFormed, Lists
<1>6. plan.ir.sources = intent.sources /\ plan.ir.joins = intent.joins
  BY <1>1, <1>5, GroundKeeps
<1>7. query = Sql!Compile(plan.ir, schema, ask.backend)
  BY <1>1 DEF Compile, Relational
<1>8. /\ query.statement.from = Sql!Tables(plan.ir, schema)
      /\ query.statement.on = Sql!OnClauses(plan.ir, schema)
  BY <1>1, <1>7 DEF Sql!Compile, Sql!Statement
<1> HIDE DEF caps
<1> QED BY <1>2, <1>4, <1>5, <1>6, <1>8, StatementJoins DEF JoinsInScope

-----------------------------------------------------------------------------
(* Names                                                                   *)

\* What the fields table is keyed by.
LEMMA KeysSpelled ==
    ASSUME NEW i, NEW s, WellNamed(i, s)
    PROVE  /\ DOMAIN FieldTable(i, s) = {p[1] \o p[2].name : p \in FieldPlaces(i, s)}
           /\ IsFiniteSet(DOMAIN FieldTable(i, s))
<1> DEFINE Of(k) == {i.sources[k] \o f.name : f \in Source(s, i.sources[k]).fields}
           keys  == UNION {Of(k) : k \in DOMAIN i.sources}
<1>0. DOMAIN i.sources = 1..Len(i.sources) /\ Len(i.sources) \in Nat
  BY LenProperties DEF WellNamed
<1>1. DOMAIN FieldTable(i, s) = keys
  BY DEF FieldTable
<1>2. keys = {p[1] \o p[2].name : p \in FieldPlaces(i, s)}
  <2>1. ASSUME NEW k \in DOMAIN i.sources, NEW f \in Source(s, i.sources[k]).fields
        PROVE  <<i.sources[k], f>> \in FieldPlaces(i, s)
    BY <2>1 DEF FieldPlaces, ToSet, WellNamed
  <2>2. ASSUME NEW p \in FieldPlaces(i, s)
        PROVE  \E k \in DOMAIN i.sources : p[1] = i.sources[k] /\ p[2] \in Source(s, i.sources[k]).fields
    BY <2>2 DEF FieldPlaces, ToSet
  <2> DEFINE Spelling(p) == p[1] \o p[2].name
             spelled == {Spelling(p) : p \in FieldPlaces(i, s)}
  <2>3. ASSUME NEW key \in keys PROVE key \in spelled
    <3>1. PICK k \in DOMAIN i.sources : \E f \in Source(s, i.sources[k]).fields : key = i.sources[k] \o f.name
      OBVIOUS
    <3>2. PICK f \in Source(s, i.sources[k]).fields : key = i.sources[k] \o f.name
      BY <3>1
    <3>3. key = Spelling(<<i.sources[k], f>>)
      BY <3>2
    <3> HIDE DEF Spelling
    <3> QED BY <2>1, <3>3
  <2>4. ASSUME NEW p \in FieldPlaces(i, s) PROVE Spelling(p) \in keys
    <3>1. PICK k \in DOMAIN i.sources : p[1] = i.sources[k] /\ p[2] \in Source(s, i.sources[k]).fields
      BY <2>2
    <3>2. Spelling(p) \in Of(k)
      BY <3>1
    <3> HIDE DEF Of
    <3> QED BY <3>2
  <2>5. spelled \subseteq keys
    BY <2>4
  <2> QED BY <2>3, <2>5
<1> HIDE DEF keys
<1> QED BY <1>1, <1>2, KeysFinite

\* A name of one field and of no business term stands for one place.
LEMMA OnePlace ==
    ASSUME NEW i, NEW s, WellNamed(i, s), NEW terms, NEW n,
           NameError(n, FieldTable(i, s), terms) = "none", Concepts(terms, n) = {},
           SpelledApart(i, s)
    PROVE  Cardinality(Bearers(i, s, n)) = 1
<1> DEFINE keys   == DOMAIN FieldTable(i, s)
           exact  == {p \in FieldPlaces(i, s) : p[1] \o p[2].name = n}
           longer == {p \in FieldPlaces(i, s) : IsStrictSuffix(n, p[1] \o p[2].name)}
           ending == {k \in keys : IsStrictSuffix(n, k)}
<1>1. keys = {p[1] \o p[2].name : p \in FieldPlaces(i, s)} /\ IsFiniteSet(keys)
  BY KeysSpelled
<1>2. CASE n \in keys
  <2>1. PICK p \in FieldPlaces(i, s) : p[1] \o p[2].name = n
    BY <1>1, <1>2
  <2>2. exact = {p}
    BY <2>1 DEF SpelledApart
  <2> QED BY <2>2, FS_Singleton DEF Bearers
<1>3. CASE n \notin keys
  <2>1. exact = {}
    BY <1>1, <1>3
  <2>2. IsFiniteSet(ending)
    BY <1>1, FS_Subset
  <2>3. Len(SetToSeq(ending)) = 1
    <3>1. Candidates(n, FieldTable(i, s), terms) = SetToSeq(ending)
      BY <1>3 DEF Candidates
    <3> DEFINE len == Len(SetToSeq(ending))
    <3>2. len \in Nat
      BY <2>2, Enumerated
    <3>3. ~(len > 1) /\ len # 0
      BY <3>1 DEF NameError
    <3> HIDE DEF len
    <3>4. len = 1
      BY <3>2, <3>3
    <3> QED BY <3>4 DEF len
  <2>4. Cardinality(ending) = 1
    <3> HIDE DEF ending
    <3> QED BY <2>2, <2>3, Enumerated
  <2>5. PICK k : ending = {k}
    <3> HIDE DEF ending
    <3> QED BY <2>2, <2>4, FS_Singleton
  <2>6. PICK p \in FieldPlaces(i, s) : p[1] \o p[2].name = k
    BY <1>1, <2>5
  <2>7. longer = {p}
    <3>1. \A q \in longer : q[1] \o q[2].name \in ending
      BY <1>1
    <3>2. p \in longer
      BY <2>5, <2>6
    <3>3. \A q \in longer : q = p
      BY <2>5, <2>6, <3>1 DEF SpelledApart
    <3> HIDE DEF longer
    <3> QED BY <3>2, <3>3
  <2> QED BY <2>1, <2>7, FS_Singleton DEF Bearers
<1> QED BY <1>2, <1>3

\* A plan is made only of names that stand for one field of one source, where
\* the selected fields are spelled apart (planner.py:81, 187-192).
THEOREM PlansDoNotGuess == SpellingsApart => (Spec => []NoGuess)
<1> SUFFICES ASSUME SpellingsApart PROVE Spec => []NoGuess
  OBVIOUS
<1>1. IInv => NoGuess
  <2> SUFFICES ASSUME IInv, plan.error = "none", NEW n \in ResolvedNames(intent, schema),
                      Concepts(catalog, n) = {}
               PROVE  Cardinality(Bearers(intent, schema, n)) = 1
    BY DEF NoGuess
  <2>1. /\ ask \in Asks
        /\ PlanError(intent, schema, Capabilities(ask.backend), Policy, catalog, now) = "none"
    BY DEF IInv, PlanMade
  <2>2. /\ RequestError(intent, schema, Capabilities(ask.backend), Policy) = "none"
        /\ GroundingError(intent, schema, catalog) = "none"
    BY <2>1 DEF PlanError, OrElse
  <2>3. /\ WellFormed(intent)
        /\ \A x \in schema.sources : IsFiniteSet(x.fields)
    BY <2>1, AsksAssumption DEF WellFormedSchema, intent, schema
  <2>4. ToSet(intent.sources) \subseteq SourceNames(schema)
    BY <2>2, RequestAccepted
  <2>5. WellNamed(intent, schema)
    <3>1. \A x \in ToSet(intent.sources) : Source(schema, x) \in schema.sources
      BY <2>4 DEF Source, SourceNames
    <3> QED BY <2>3, <3>1 DEF WellNamed, WellFormed, Lists
  <2>6. NameError(n, FieldTable(intent, schema), catalog) = "none"
    BY <2>2, <2>3, NamesResolved
  <2>7. SpelledApart(intent, schema)
    BY <2>1 DEF SpellingsApart, intent, schema
  <2>8. Cardinality(Bearers(intent, schema, n)) = 1
    BY <2>5, <2>6, <2>7, OnePlace, Zenon
  <2> QED BY <2>8
<1> QED BY <1>1, AnswersInvariance, PTL

-----------------------------------------------------------------------------
(* Planning again                                                          *)

\* Every plan is accepted when it is planned again and grounds to itself, where
\* no business term is spelled like a join key and grounding makes no question
\* too long (api.py:146-149, connectors/base.py:28-43).
THEOREM PlansReground == TermsApart /\ PlansFit => (Spec => []RegroundingStable)
<1> SUFFICES ASSUME TermsApart, PlansFit PROVE Spec => []RegroundingStable
  OBVIOUS
<1>1. IInv => RegroundingStable
  <2> SUFFICES ASSUME IInv, phase = "replanned"
               PROVE  again.error = "none" /\ again.ir = plan.ir
    BY DEF RegroundingStable
  <2> DEFINE caps == Capabilities(ask.backend)
  <2>1. /\ ask \in Asks /\ plan.error = "none"
        /\ PlanError(intent, schema, caps, Policy, catalog, now) = "none"
        /\ plan.ir = Ground(intent, schema, catalog, now)
        /\ again = BuildPlan(plan.ir, schema, caps, Policy, {}, plan.reference)
    BY DEF IInv, PlanMade, Past, EmptyCatalog
  <2>2. /\ WellFormed(intent) /\ WellFormedSchema(schema) /\ WellFormedCatalog(catalog)
    BY <2>1, AsksAssumption DEF intent, schema, catalog
  <2>3. KeysApart(schema, catalog)
    BY <2>1 DEF TermsApart, schema, catalog
  <2>4. WithinBounds(plan.ir)
    <3>1. LET p == BuildPlan(intent, schema, caps, Policy, catalog, now)
          IN  p.error = "none" => WithinBounds(p.ir)
      BY <2>1 DEF PlansFit, intent, schema, catalog, now
    <3> HIDE DEF caps
    <3> QED BY <2>1, <3>1 DEF BuildPlan, Planned
  <2> HIDE DEF caps
  <2>5. /\ PlanError(plan.ir, schema, caps, Policy, {}, plan.reference) = "none"
        /\ Ground(plan.ir, schema, {}, plan.reference) = plan.ir
    BY <2>1, <2>2, <2>3, <2>4, PlansAgain
  <2> QED BY <2>1, <2>5 DEF BuildPlan, Planned
<1> QED BY <1>1, AnswersInvariance, PTL

-----------------------------------------------------------------------------
(* What a statement tells of its plan                                      *)

\* What grounding leaves of a question as it was asked.
Told == {"sources", "joins", "traversal", "limit"}

LEMMA GroundTells ==
    ASSUME NEW e, Told \cup {"unwind"} \subseteq DOMAIN e, NEW s, NEW t, NEW at,
           NEW ir, ir = Ground(e, s, t, at)
    PROVE  /\ ir.sources = e.sources /\ ir.joins = e.joins /\ ir.traversal = e.traversal
           /\ ir.limit = e.limit /\ DOMAIN ir.unwind = DOMAIN e.unwind
           /\ ir.unwind = [k \in DOMAIN ir.unwind |-> ir.unwind[k]]
<1> DEFINE names == [k \in DOMAIN e.unwind |-> Resolve(e.unwind[k], FieldTable(e, s), t)]
<1>1. /\ ir.sources = e.sources /\ ir.joins = e.joins /\ ir.traversal = e.traversal
      /\ ir.limit = e.limit
  BY DEF Ground, Told
<1>2. ir.unwind = names
  BY DEF Ground, Told
<1>3. DOMAIN names = DOMAIN e.unwind /\ names = [k \in DOMAIN names |-> names[k]]
  OBVIOUS
<1> HIDE DEF names
<1> QED BY <1>1, <1>2, <1>3

\* Of two lists with one item each that no other item resembles, that item is
\* the same if the lists are.
LEMMA OneOfAKind ==
    ASSUME NEW S, NEW a \in Seq(S), NEW b \in Seq(S), NEW c \in Seq(S), NEW d \in Seq(S),
           NEW x, x \notin S, NEW y, y \notin S, (a \o <<x>>) \o b = (c \o <<y>>) \o d
    PROVE  x = y
<1> DEFINE T == S \cup {x, y}
           P == (a \o <<x>>) \o b
           Q == (c \o <<y>>) \o d
<1>1. /\ a \in Seq(T) /\ b \in Seq(T) /\ c \in Seq(T) /\ d \in Seq(T)
      /\ <<x>> \in Seq(T) /\ <<y>> \in Seq(T)
  <2>1. \A s \in Seq(S) : s \in Seq(T)
    <3>1. S \subseteq T
      OBVIOUS
    <3> HIDE DEF T
    <3> QED BY <3>1, SeqDef
  <2>2. x \in T /\ y \in T
    OBVIOUS
  <2> HIDE DEF T
  <2> QED BY <2>1, <2>2
<1> HIDE DEF T
<1>2. /\ a \o <<x>> \in Seq(T) /\ Len(a \o <<x>>) = Len(a) + 1
      /\ c \o <<y>> \in Seq(T) /\ Len(c \o <<y>>) = Len(c) + 1
      /\ Len(a) \in Nat /\ Len(b) \in Nat /\ Len(c) \in Nat /\ Len(d) \in Nat
      /\ (a \o <<x>>)[Len(a) + 1] = x /\ (c \o <<y>>)[Len(c) + 1] = y
      /\ \A k \in 1..Len(c) : (c \o <<y>>)[k] = c[k]
  BY <1>1, ConcatProperties, LenProperties
<1>3. P[Len(a) + 1] = x /\ Len(P) = Len(a) + 1 + Len(b)
  BY <1>1, <1>2, ConcatProperties
<1>4. /\ Q[Len(c) + 1] = y /\ Len(Q) = Len(c) + 1 + Len(d)
      /\ \A k \in 1..Len(c) : Q[k] = c[k]
      /\ \A k \in Len(c) + 2..Len(Q) : Q[k] = d[k - (Len(c) + 1)]
  <2> DEFINE h == c \o <<y>>
  <2>1. h \in Seq(T) /\ Len(h) = Len(c) + 1
    BY <1>2
  <2>2. /\ Len(h \o d) = Len(h) + Len(d)
        /\ \A k \in 1..Len(h) + Len(d) : (h \o d)[k] = IF k <= Len(h) THEN h[k] ELSE d[k - Len(h)]
    <3> HIDE DEF h
    <3> QED BY <1>1, <2>1, ConcatProperties
  <2> QED BY <1>2, <2>1, <2>2
<1>5. \A k \in 1..Len(Q) : k # Len(c) + 1 => Q[k] \in S
  <2> SUFFICES ASSUME NEW k \in 1..Len(Q), k # Len(c) + 1 PROVE Q[k] \in S
    OBVIOUS
  <2> HIDE DEF Q
  <2>1. CASE k <= Len(c)
    <3>1. k \in 1..Len(c)
      BY <1>2, <1>4, <2>1
    <3> QED BY <1>4, <3>1, ElementOfSeq
  <2>2. CASE ~(k <= Len(c))
    <3>1. k \in Len(c) + 2..Len(Q) /\ k - (Len(c) + 1) \in 1..Len(d)
      BY <1>2, <1>4, <2>2
    <3> QED BY <1>4, <3>1, ElementOfSeq
  <2> QED BY <2>1, <2>2
<1>6. P = Q
  OBVIOUS
<1> HIDE DEF P, Q
<1>7. Len(a) + 1 \in 1..Len(Q)
  BY <1>2, <1>3, <1>6
<1> QED BY <1>3, <1>4, <1>5, <1>6, <1>7

\* What is written in a pipeline beside the limit.
Beyond(q, s) ==
    {Mongo!Path(q, q.unwind[k]) : k \in DOMAIN q.unwind}
    \cup {Mongo!Match(q, s), Mongo!GroupStages(q)[1][2], Mongo!GroupStages(q)[2][2],
          Mongo!SortKeys(q), q.offset, Mongo!Dict(Mongo!OutputEntries(q))}

Stages(V) == {"$unwind", "$match", "$group", "$project", "$sort", "$skip"} \X V

LEMMA PipelineParts ==
    ASSUME NEW q, q.unwind \in Seq(ToSet(q.unwind)), NEW s, NEW V, Beyond(q, s) \subseteq V
    PROVE  \E a \in Seq(Stages(V)), b \in Seq(Stages(V)) :
               Mongo!Pipeline(q, s) = (a \o <<<<"$limit", q.limit>>>>) \o b
<1> DEFINE S == Stages(V)
           unwound == [i \in DOMAIN q.unwind |-> <<"$unwind", Mongo!Path(q, q.unwind[i])>>]
           matched == Mongo!When(q.predicate # <<>>, <<<<"$match", Mongo!Match(q, s)>>>>)
           grouped == Mongo!When(Mongo!Grouped(q), Mongo!GroupStages(q))
           sorted  == Mongo!When(q.sort # <<>>, <<<<"$sort", Mongo!SortKeys(q)>>>>)
           skipped == Mongo!When(q.offset # 0, <<<<"$skip", q.offset>>>>)
           shown   == Mongo!When(q.projections # <<>> /\ ~Mongo!Grouped(q),
                                 <<<<"$project", Mongo!Dict(Mongo!OutputEntries(q))>>>>)
<1>1. unwound \in Seq(S)
  <2>1. DOMAIN q.unwind = 1..Len(q.unwind) /\ Len(q.unwind) \in Nat
    BY LenProperties
  <2>2. \A k \in DOMAIN q.unwind : <<"$unwind", Mongo!Path(q, q.unwind[k])>> \in S
    BY DEF Beyond, Stages
  <2> HIDE DEF S
  <2> QED BY <2>1, <2>2, SeqDef
<1>2. matched \in Seq(S)
  <2>1. <<"$match", Mongo!Match(q, s)>> \in S
    BY DEF Beyond, Stages
  <2> HIDE DEF S
  <2> QED BY <2>1 DEF Mongo!When
<1>3. grouped \in Seq(S)
  <2> DEFINE first  == <<"$group", Mongo!GroupStages(q)[1][2]>>
             second == <<"$project", Mongo!GroupStages(q)[2][2]>>
  <2>1. Mongo!GroupStages(q) = <<first, second>>
    BY DEF Mongo!GroupStages
  <2>2. first \in S /\ second \in S
    BY DEF Beyond, Stages
  <2> HIDE DEF S, first, second
  <2>3. Mongo!GroupStages(q) \in Seq(S)
    <3>1. <<first, second>> \in Seq(S)
      BY <2>2
    <3> QED BY <2>1, <3>1
  <2> QED BY <2>3 DEF Mongo!When
<1>4. sorted \in Seq(S)
  <2>1. <<"$sort", Mongo!SortKeys(q)>> \in S
    BY DEF Beyond, Stages
  <2> HIDE DEF S
  <2> QED BY <2>1 DEF Mongo!When
<1>5. skipped \in Seq(S)
  <2>1. <<"$skip", q.offset>> \in S
    BY DEF Beyond, Stages
  <2> HIDE DEF S
  <2> QED BY <2>1 DEF Mongo!When
<1>6. shown \in Seq(S)
  <2>1. <<"$project", Mongo!Dict(Mongo!OutputEntries(q))>> \in S
    BY DEF Beyond, Stages
  <2> HIDE DEF S
  <2> QED BY <2>1 DEF Mongo!When
<1>7. Mongo!Pipeline(q, s) = ((unwound \o matched \o grouped \o sorted \o skipped)
                              \o <<<<"$limit", q.limit>>>>) \o shown
  BY DEF Mongo!Pipeline
<1> HIDE DEF S, unwound, matched, grouped, sorted, skipped, shown
<1>8. unwound \o matched \o grouped \o sorted \o skipped \in Seq(S)
  BY <1>1, <1>2, <1>3, <1>4, <1>5, ConcatProperties
<1> QED BY <1>6, <1>7, <1>8 DEF S

LEMMA PipelineTells ==
    ASSUME NEW i, i.unwind \in Seq(ToSet(i.unwind)), NEW j, j.unwind \in Seq(ToSet(j.unwind)),
           NEW s, Mongo!Pipeline(i, s) = Mongo!Pipeline(j, s)
    PROVE  i.limit = j.limit
<1> DEFINE V == Beyond(i, s) \cup Beyond(j, s)
           S == Stages(V)
<1>1. PICK a \in Seq(S), b \in Seq(S) :
          Mongo!Pipeline(i, s) = (a \o <<<<"$limit", i.limit>>>>) \o b
  BY PipelineParts
<1>2. PICK c \in Seq(S), d \in Seq(S) :
          Mongo!Pipeline(j, s) = (c \o <<<<"$limit", j.limit>>>>) \o d
  BY PipelineParts
<1> DEFINE x == <<"$limit", i.limit>>
           y == <<"$limit", j.limit>>
<1>3. x \notin S /\ y \notin S
  BY DEF Stages
<1>4. (a \o <<x>>) \o b = (c \o <<y>>) \o d
  BY <1>1, <1>2
<1>5. x = y
  <2> HIDE DEF S, x, y
  <2> QED BY <1>3, <1>4, OneOfAKind
<1> QED BY <1>5

\* What a plan is sure to be.
Sound(q, s) ==
    /\ q.sources \in Seq(ToSet(q.sources)) /\ q.sources # <<>>
    /\ q.joins \in Seq(ToSet(q.joins)) /\ q.unwind \in Seq(ToSet(q.unwind))
    /\ EdgeError(q, s) = "none"

\* Plans with one statement let the connector read as many rows, and of a
\* relational backend the same tables.
LEMMA StatementsTell ==
    ASSUME NEW b \in Supported, NEW s, NEW i, Sound(i, s), NEW j, Sound(j, s), NEW rules,
           Compile(b, i, s, rules) = Compile(b, j, s, rules),
           Compile(b, j, s, rules).error = "none"
    PROVE  /\ b # "redis" => i.limit = j.limit
           /\ b \in Relational => ToSet(i.sources) = ToSet(j.sources)
<1>1. CASE b \in Relational
  <2>1. /\ Sql!Compile(i, s, b) = Sql!Compile(j, s, b) /\ Sql!Compile(j, s, b).error = "none"
        /\ Sql!Compile(i, s, b).error = "none"
    <3>1. b # "mongo" /\ b # "neo4j" /\ b # "influx" /\ b # "redis"
      BY <1>1 DEF Relational
    <3> QED BY <1>1, <3>1 DEF Compile
  <2>2. Sql!CompileError(i, s, b) = "none" /\ Sql!CompileError(j, s, b) = "none"
    BY <2>1 DEF Sql!Compile
  <2>3. Sql!Statement(i, s) = Sql!Statement(j, s)
    BY <2>1, <2>2 DEF Sql!Compile
  <2>4. i.limit = j.limit /\ Sql!Tables(i, s) = Sql!Tables(j, s)
    BY <2>3 DEF Sql!Statement
  <2>5. ~Traverses(i) /\ ~Traverses(j)
    BY <2>2 DEF Sql!CompileError, Sql!Unsupportable, Sql!Traverses, Traverses, Sql!NoName, NoName
  <2>6. ToSet(Sql!Tables(i, s)) = ToSet(i.sources)
    BY <2>5, StatementJoins DEF Sound
  <2>7. ToSet(Sql!Tables(j, s)) = ToSet(j.sources)
    BY <2>5, StatementJoins DEF Sound
  <2> QED BY <2>4, <2>6, <2>7
<1>2. CASE b = "mongo"
  <2>1. /\ Mongo!Compile(i, s) = Mongo!Compile(j, s) /\ Mongo!Compile(j, s).error = "none"
        /\ Mongo!Compile(i, s).error = "none"
    BY <1>2 DEF Compile, Relational
  <2>2. Mongo!Pipeline(i, s) = Mongo!Pipeline(j, s)
    BY <2>1 DEF Mongo!Compile
  <2> QED BY <1>2, <2>2, PipelineTells DEF Sound, Relational
<1>3. CASE b = "neo4j"
  <2>1. /\ Cypher!Compile(i, s, rules) = Cypher!Compile(j, s, rules)
        /\ Cypher!Compile(j, s, rules).error = "none" /\ Cypher!Compile(i, s, rules).error = "none"
    BY <1>3 DEF Compile, Relational
  <2>2. Cypher!Statement(i, s) = Cypher!Statement(j, s)
    BY <2>1 DEF Cypher!Compile
  <2>3. i.limit = j.limit
    BY <2>2 DEF Cypher!Statement
  <2> QED BY <1>3, <2>3 DEF Relational
<1>4. CASE b = "influx"
  <2>1. /\ Flux!Compile(i, s) = Flux!Compile(j, s) /\ Flux!Compile(j, s).error = "none"
        /\ Flux!Compile(i, s).error = "none"
    BY <1>4 DEF Compile, Relational
  <2>2. Flux!Statement(i, Flux!Measurement(i, s)) = Flux!Statement(j, Flux!Measurement(j, s))
    BY <2>1 DEF Flux!Compile
  <2>3. i.limit = j.limit
    BY <2>2 DEF Flux!Statement
  <2> QED BY <1>4, <2>3 DEF Relational
<1>5. CASE b = "redis"
  BY <1>5 DEF Relational
<1> QED BY <1>1, <1>2, <1>3, <1>4, <1>5 DEF Supported

\* An edit leaves the relationships alone, and the sources unless it moves the
\* question.
LEMMA EditsSpare ==
    ASSUME NEW q, WellFormed(q), NEW S, NEW e \in Edits(q) \cup {Moved(q, s) : s \in S}
    PROVE  /\ DOMAIN e = DOMAIN q /\ e.joins = q.joins
           /\ DOMAIN e.unwind = DOMAIN q.unwind
           /\ e.sources = q.sources \/ \E s \in S : e.sources = <<s>>
           /\ e \in Edits(q) => e.sources = q.sources
<1>1. Told \cup {"unwind", "offset", "distinct", "predicate", "sort", "projections", "dimensions",
                 "metrics"} \subseteq DOMAIN q
  BY DEF WellFormed, Lists, Settings, Told
<1>2. CASE e \in Edits(q)
  BY <1>1, <1>2 DEF Edits, Told
<1>3. CASE e \notin Edits(q)
  <2>1. PICK s \in S : e = Moved(q, s)
    BY <1>3
  <2>2. DOMAIN e = DOMAIN q /\ e.joins = q.joins /\ e.sources = <<s>>
    BY <1>1, <2>1 DEF Moved, Told
  <2>3. DOMAIN e.unwind = DOMAIN q.unwind
    BY <1>1, <2>1 DEF Moved, Told
  <2> QED BY <1>3, <2>1, <2>2, <2>3
<1> QED BY <1>2, <1>3

\* What an accepted edit grounds to is sound.
LEMMA EditSound ==
    ASSUME NEW q, WellFormed(q), NEW S, NEW e \in Edits(q) \cup {Moved(q, s) : s \in S},
           NEW s, NEW at, EdgeError(e, s) = "none", NEW ir, ir = Ground(e, s, {}, at)
    PROVE  Sound(ir, s) /\ (e \in Edits(q) => ir.sources = q.sources)
<1>1. /\ DOMAIN e = DOMAIN q /\ e.joins = q.joins
      /\ DOMAIN e.unwind = DOMAIN q.unwind
      /\ e.sources = q.sources \/ \E x \in S : e.sources = <<x>>
      /\ e \in Edits(q) => e.sources = q.sources
  BY EditsSpare
<1>2. /\ q.sources \in Seq(ToSet(q.sources)) /\ q.sources # <<>> /\ q.joins \in Seq(ToSet(q.joins))
      /\ q.unwind \in Seq(ToSet(q.unwind)) /\ Told \cup {"unwind"} \subseteq DOMAIN e
  BY <1>1 DEF WellFormed, Lists, Settings, Told
<1>3. /\ ir.sources = e.sources /\ ir.joins = e.joins /\ ir.traversal = e.traversal
      /\ DOMAIN ir.unwind = DOMAIN q.unwind
      /\ ir.unwind = [k \in DOMAIN ir.unwind |-> ir.unwind[k]]
  BY <1>1, <1>2, GroundTells
<1>4. ir.unwind \in Seq(ToSet(ir.unwind))
  <2>1. DOMAIN q.unwind = 1..Len(q.unwind) /\ Len(q.unwind) \in Nat
    BY <1>2, LenProperties
  <2>2. ir.unwind = [k \in 1..Len(q.unwind) |-> ir.unwind[k]]
    BY <1>3, <2>1
  <2> QED BY <1>3, <2>1, <2>2, ListMade
<1>5. ir.sources \in Seq(ToSet(ir.sources)) /\ ir.sources # <<>>
  <2>1. CASE e.sources = q.sources
    BY <1>2, <1>3, <2>1
  <2>2. CASE \E x \in S : e.sources = <<x>>
    <3>1. PICK x : ir.sources = <<x>>
      BY <1>3, <2>2
    <3>2. ToSet(<<x>>) = {x} /\ <<x>> \in Seq({x}) /\ <<x>> # <<>>
      BY DEF ToSet
    <3> QED BY <3>1, <3>2
  <2> QED BY <1>1, <2>1, <2>2
<1>6. EdgeError(ir, s) = "none"
  BY <1>1, <1>2, <1>3, EdgesAgain
<1> QED BY <1>1, <1>2, <1>3, <1>4, <1>5, <1>6 DEF Sound

\* An accepted plan is sound, and the shape of a question.
LEMMA PlanSound ==
    ASSUME NEW i, WellFormed(i), NEW s, WellFormedSchema(s), NEW caps, NEW rules,
           NEW t, WellFormedCatalog(t), NEW at, PlanError(i, s, caps, rules, t, at) = "none"
    PROVE  WellFormed(Ground(i, s, t, at)) /\ Sound(Ground(i, s, t, at), s)
<1> DEFINE ir == Ground(i, s, t, at)
           predicate == GroundedPredicate(i, s, t, at)
<1>1. /\ RequestError(i, s, caps, rules) = "none" /\ EdgeError(i, s) = "none"
      /\ GroundingError(i, s, t) = "none"
  BY DEF PlanError, OrElse
<1>2. Grounded(predicate, FieldTable(i, s))
  BY <1>1, SourcesThere, PredicateGrounds
<1>3. GroundedFrom(ir, i, FieldTable(i, s), t, predicate)
  BY GroundParts
<1> HIDE DEF ir, predicate
<1>4. WellFormed(ir)
  BY <1>2, <1>3, WellFormedKept
<1>5. ir.sources = i.sources /\ ir.joins = i.joins /\ ir.traversal = i.traversal
  BY <1>3 DEF GroundedFrom, Changed, WellFormed, Lists, Settings
<1>6. EdgeError(ir, s) = "none"
  BY <1>1, <1>5, EdgesAgain DEF WellFormed, Lists
<1>7. Sound(ir, s)
  BY <1>4, <1>6 DEF Sound, WellFormed, Lists
<1> QED BY <1>4, <1>7 DEF ir

\* No edit of a plan's IR that verification accepts leaves the statement as it
\* is and changes what the connector takes beside it: the limit is written in
\* every statement but those of Redis, which are read whole, and the tables of
\* a relational backend in FROM (connectors/base.py:37-42).
THEOREM EditsShowInStatements == Spec => []EditsShow
<1>1. IInv => EditsShow
  <2> DEFINE moves == IF ask.backend = "mongo" THEN {} ELSE Elsewhere(plan.ir)
             caps  == Capabilities(ask.backend)
  <2> SUFFICES ASSUME IInv, phase = "proposed", NEW e \in Edits(plan.ir) \cup moves,
                      NEW p, p = BuildPlan(e, schema, caps, Policy, EmptyCatalog, plan.reference),
                      p.error = "none",
                      Compile(ask.backend, p.ir, schema, Policy) = query
               PROVE  Beside(p.ir) = Beside(plan.ir)
    BY DEF EditsShow, ShowsOrMatters
  <2> HIDE DEF caps
  <2>1. /\ ask \in Asks /\ plan.error = "none"
        /\ PlanError(intent, schema, Capabilities(ask.backend), Policy, catalog, now) = "none"
        /\ plan.ir = Ground(intent, schema, catalog, now)
        /\ query = Compile(ask.backend, plan.ir, schema, Policy) /\ query.error = "none"
    BY DEF IInv, PlanMade, Past
  <2>2. /\ ask.backend \in Supported
        /\ WellFormed(intent) /\ WellFormedSchema(schema) /\ WellFormedCatalog(catalog)
    BY <2>1, AsksAssumption DEF intent, schema, catalog
  <2>3. WellFormed(plan.ir) /\ Sound(plan.ir, schema)
    BY <2>1, <2>2, PlanSound
  <2>4. /\ EdgeError(e, schema) = "none"
        /\ p.ir = Ground(e, schema, {}, plan.reference)
    BY DEF BuildPlan, Planned, PlanError, OrElse, EmptyCatalog
  <2>5. e \in Edits(plan.ir) \cup {Moved(plan.ir, s) : s \in SourceNames(schema)}
    BY DEF Elsewhere
  <2>6. Sound(p.ir, schema) /\ (e \in Edits(plan.ir) => p.ir.sources = plan.ir.sources)
    BY <2>3, <2>4, <2>5, EditSound
  <2>7. /\ ask.backend # "redis" => p.ir.limit = plan.ir.limit
        /\ ask.backend \in Relational => ToSet(p.ir.sources) = ToSet(plan.ir.sources)
    BY <2>1, <2>2, <2>3, <2>6, StatementsTell
  <2>8. ask.backend = "mongo" => p.ir.sources = plan.ir.sources
    BY <2>6
  <2> HIDE DEF moves
  <2> QED BY <2>2, <2>7, <2>8 DEF Beside, Supported, Relational
<1> QED BY <1>1, AnswersInvariance, PTL

-----------------------------------------------------------------------------
(***************************************************************************)
(* MongoDB's call, for every collection, every sample size, any number of  *)
(* changes and any place they come at.                                     *)
(***************************************************************************)

\* A discovery's sample holds every document.
WholeSamples == Cardinality(Documents) <= SampleSize

\* The collection is one of those it has been.
Recorded == collection \in past /\ past \subseteq [Documents -> Kinds]

\* Whether the field held dates was true of a collection of this call, and is
\* what decides the kind of the value sent.
Discovered ==
    /\ pc \in {"verifying", "connected", "converting", "sending", "over"}
    /\ pc \in {"converting", "sending"} /\ WholeSamples =>
           \E c \in past : temporal = (TypeIn(c, Documents) = "datetime")
    /\ pc = "sending" => bound = IF temporal THEN "datetime" ELSE "string"
    /\ outcome = "rows" => pc = "over"

\* The inductive invariant.
MongoInv == Recorded /\ Discovered /\ AnswerComplete

-----------------------------------------------------------------------------

\* When there are no more documents than a sample may have, it has them all.
LEMMA SamplesAreWhole ==
    ASSUME WholeSamples, NEW s \in Samples
    PROVE  s = Documents
<1>1. CASE Cardinality(s) = SampleSize
  <2>1. IsFiniteSet(Documents) /\ s \in SUBSET Documents /\ SampleSize \in Nat
    BY MongoAssumption DEF Samples
  <2>2. Cardinality(s) <= Cardinality(Documents) /\ Cardinality(Documents) \in Nat
    BY <2>1, FS_Subset, FS_CardinalityType
  <2>3. Cardinality(Documents) = Cardinality(s)
    BY <1>1, <2>1, <2>2 DEF WholeSamples
  <2> QED BY <2>1, <2>3, FS_Subset
<1>2. CASE Cardinality(s) # SampleSize
  BY <1>2 DEF Samples
<1> QED BY <1>1, <1>2

\* There are finitely many kinds.
LEMMA KindsFinite == IsFiniteSet(Kinds)
<1>1. IsFiniteSet({"datetime"})
  BY FS_Singleton
<1>2. IsFiniteSet({"datetime"} \cup {"string"})
  BY <1>1, FS_AddElement
<1>3. IsFiniteSet(({"datetime"} \cup {"string"}) \cup {"number"})
  BY <1>2, FS_AddElement
<1>4. IsFiniteSet((({"datetime"} \cup {"string"}) \cup {"number"}) \cup {"none"})
  BY <1>3, FS_AddElement
<1>5. Kinds = (({"datetime"} \cup {"string"}) \cup {"number"}) \cup {"none"}
  BY DEF Kinds
<1> QED BY <1>4, <1>5

\* Where the documents agree on a type, every document with the field has a
\* value of it.
LEMMA SoleKind ==
    ASSUME NEW c \in [Documents -> Kinds], NEW k \in {"datetime", "string"},
           TypeIn(c, Documents) = k
    PROVE  {d \in Documents : c[d] = k} = Bearing(c)
<1> DEFINE kinds == {c[d] : d \in Documents} \ {"none"}
<1>1. IsFiniteSet(kinds)
  <2>1. kinds \in SUBSET Kinds
    OBVIOUS
  <2> QED BY <2>1, KindsFinite, FS_Subset
<1>2. kinds # {} /\ Cardinality(kinds) = 1 /\ (CHOOSE x \in kinds : TRUE) = k
  BY DEF TypeIn
<1>3. \E x : kinds = {x}
  <2> HIDE DEF kinds
  <2> QED BY <1>1, <1>2, FS_Singleton
<1>4. kinds = {k}
  <2> HIDE DEF kinds
  <2> QED BY <1>2, <1>3
<1>5. \A d \in Documents : c[d] # "none" => c[d] = k
  BY <1>4
<1> QED BY <1>5 DEF Bearing

-----------------------------------------------------------------------------

\* The invariant holds when the call begins.
LEMMA MongoInit == InitMongo => MongoInv
BY DEF InitMongo, MongoInv, Recorded, Discovered, AnswerComplete

\* What the server returns, of a collection whose field kept its type.
LEMMA AggregateInv ==
    ASSUME MongoInv, Aggregate
    PROVE  AnswerComplete'
<1> SUFFICES ASSUME WholeSamples, verified \in {"datetime", "string"},
                    \A c \in past : TypeIn(c, Documents) = verified
             PROVE  \/ rows' = Bearing(collection)
                    \/ Cardinality(rows') = limit /\ rows' \subseteq Bearing(collection)
  <2>1. UNCHANGED <<collection, past, limit, verified>>
    BY DEF Aggregate, request
  <2> QED BY <2>1 DEF AnswerComplete, WholeSamples, TypeIn, Bearing
<1>1. bound = verified
  BY DEF MongoInv, Discovered, Aggregate
<1>2. {d \in Documents : collection[d] = bound} = Bearing(collection)
  BY <1>1, SoleKind DEF MongoInv, Recorded
<1> QED BY <1>2 DEF Aggregate

\* Every step keeps the invariant.
LEMMA MongoStep == MongoInv /\ [NextMongo]_mongoVars => MongoInv'
<1> SUFFICES ASSUME MongoInv, [NextMongo]_mongoVars PROVE MongoInv'
  OBVIOUS
<1>0. Recorded /\ Discovered /\ AnswerComplete
  BY DEF MongoInv
<1>1. CASE Verify
  <2>1. UNCHANGED <<collection, past, temporal, bound>> /\ pc' \in {"connected", "over"}
        /\ outcome' \in {outcome, "ValidationError"} /\ pc = "verifying"
    BY <1>1 DEF Verify, End
  <2>2. outcome' # "rows"
    BY <1>0, <2>1 DEF Discovered
  <2> QED BY <1>0, <2>1, <2>2 DEF MongoInv, Recorded, Discovered, AnswerComplete
<1>2. CASE DiscoverAgain
  <2>1. UNCHANGED <<collection, past, bound, outcome>> /\ pc' = "converting" /\ pc = "connected"
    BY <1>2 DEF DiscoverAgain
  <2>2. outcome' # "rows"
    BY <1>0, <2>1 DEF Discovered
  <2>3. WholeSamples => temporal' = (TypeIn(collection, Documents) = "datetime")
    BY <1>2, SamplesAreWhole DEF DiscoverAgain
  <2>4. Discovered'
    BY <1>0, <2>1, <2>2, <2>3 DEF Recorded, Discovered, WholeSamples, TypeIn
  <2> QED BY <1>0, <2>1, <2>2, <2>4 DEF MongoInv, Recorded, AnswerComplete
<1>3. CASE Convert
  <2>1. UNCHANGED <<collection, past, temporal>> /\ pc = "converting"
        /\ \/ pc' = "over" /\ outcome' = "ExecutionError"
           \/ /\ pc' = "sending" /\ outcome' = outcome
              /\ bound' = IF temporal THEN "datetime" ELSE "string"
    BY <1>3 DEF Convert, End
  <2>2. outcome' # "rows"
    BY <1>0, <2>1 DEF Discovered
  <2> QED BY <1>0, <2>1, <2>2 DEF MongoInv, Recorded, Discovered, AnswerComplete
<1>4. CASE Aggregate
  <2>1. UNCHANGED <<collection, past>> /\ pc' = "over"
    BY <1>4 DEF Aggregate, End
  <2> QED BY <1>0, <1>4, <2>1, AggregateInv DEF MongoInv, Recorded, Discovered
<1>5. CASE Breaks
  <2>1. UNCHANGED <<collection, past>> /\ pc' = "over" /\ outcome' # "rows"
    BY <1>5 DEF Breaks, End
  <2> QED BY <1>0, <2>1 DEF MongoInv, Recorded, Discovered, AnswerComplete
<1>6. CASE CollectionChanges
  <2>1. UNCHANGED <<pc, temporal, bound, outcome>> /\ pc # "over"
        /\ collection' \in [Documents -> Kinds] /\ past' = past \cup {collection'}
    BY <1>0, <1>6 DEF CollectionChanges, Recorded
  <2>2. outcome' # "rows"
    BY <1>0, <2>1 DEF Discovered
  <2> QED BY <1>0, <2>1, <2>2 DEF MongoInv, Recorded, Discovered, AnswerComplete
<1>7. CASE UNCHANGED mongoVars
  BY <1>0, <1>7 DEF mongoVars, request, MongoInv, Recorded, Discovered, AnswerComplete, Bearing
<1> QED BY <1>1, <1>2, <1>3, <1>4, <1>5, <1>6, <1>7 DEF NextMongo

-----------------------------------------------------------------------------

\* For every collection, sample size and sequence of changes: while the field
\* keeps the type verification found and samples are whole, an answer has every
\* document with the field, up to the limit (mongodb.py:120-145).
THEOREM MongoAnswersComplete == SpecMongo => []AnswerComplete
<1>1. MongoInv => AnswerComplete
  BY DEF MongoInv
<1> QED BY <1>1, MongoInit, MongoStep, PTL DEF SpecMongo
=============================================================================
