---------------------------- MODULE PlannerProofs ----------------------------
(***************************************************************************)
(* Lemmas about the planner for every intent, schema, catalog and policy:  *)
(* what an intent without an error has passed, and that the IR made of it  *)
(* has no error either and grounds to itself.                              *)
(***************************************************************************)
EXTENDS Planner, FiniteSetTheorems, SequenceTheorems, WellFoundedInduction, TLAPS

-----------------------------------------------------------------------------
(* Errors in order                                                         *)

\* A set of natural numbers that is not empty has a least one.
LEMMA LeastExists ==
    ASSUME NEW T \in SUBSET Nat, T # {}
    PROVE  \E x \in T : \A y \in T : x <= y
<1> DEFINE less == OpToRel(<, Nat)
<1>1. PICK x \in T : \A y \in T : ~(<<y, x>> \in less)
  <2> HIDE DEF less
  <2>1. IsWellFoundedOn(less, Nat)
    BY NatLessThanWellFounded DEF less
  <2> QED BY <2>1, WFMin
<1>2. \A y \in T : ~(y < x)
  BY <1>1 DEF OpToRel
<1> HIDE DEF less
<1>3. \A y \in T : y \in Nat /\ x \in Nat
  OBVIOUS
<1> QED BY <1>2, <1>3

\* What SelectInSeq finds is the place of an error.
LEMMA PlaceFound ==
    ASSUME NEW outcomes, Len(outcomes) \in Nat
    PROVE  LET k == SelectInSeq(outcomes, LAMBDA e : e # "none")
           IN  IF \A i \in 1..Len(outcomes) : outcomes[i] = "none" THEN k = 0
               ELSE k \in 1..Len(outcomes) /\ outcomes[k] # "none"
<1> DEFINE wrong == {i \in 1..Len(outcomes) : outcomes[i] # "none"}
<1>1. CASE wrong = {}
  BY <1>1 DEF SelectInSeq
<1>2. CASE wrong # {}
  <2>1. PICK x \in wrong : \A y \in wrong : x <= y
    <3>1. wrong \in SUBSET Nat
      OBVIOUS
    <3> HIDE DEF wrong
    <3> QED BY <1>2, <3>1, LeastExists
  <2>2. Min(wrong) \in wrong
    BY <2>1 DEF Min
  <2> QED BY <1>2, <2>2 DEF SelectInSeq
<1> QED BY <1>1, <1>2

\* A sequence of outcomes without a first error has none.
LEMMA NoFirstError ==
    ASSUME NEW outcomes, Len(outcomes) \in Nat
    PROVE  FirstError(outcomes) = "none" <=> \A i \in 1..Len(outcomes) : outcomes[i] = "none"
BY PlaceFound DEF FirstError

\* A request nobody refuses.
LEMMA RequestAccepted ==
    ASSUME NEW i, NEW s, NEW caps, NEW rules, RequestError(i, s, caps, rules) = "none"
    PROVE  /\ IsInjective(i.sources)
           /\ ToSet(i.sources) \subseteq SourceNames(s)
           /\ ~Unsupported(i, caps)
<1> DEFINE checks == RequestChecks(i, s, caps, rules)
<1>1. Len(checks) = 13
  BY DEF RequestChecks
<1>2. FirstError(checks) = "none"
  BY DEF RequestError
<1>3. /\ checks[5] = Refuse(~IsInjective(i.sources), "PlanningError")
      /\ checks[6] = Refuse(~(ToSet(i.sources) \subseteq SourceNames(s)), "ValidationError")
      /\ checks[10] = Refuse(Unsupported(i, caps), "UnsupportedCapabilityError")
  BY DEF RequestChecks
<1> HIDE DEF checks
<1>4. \A k \in 1..13 : checks[k] = "none"
  <2>1. Len(checks) \in Nat
    BY <1>1
  <2> QED BY <1>1, <1>2, <2>1, NoFirstError, Zenon
<1> QED BY <1>3, <1>4 DEF Refuse

-----------------------------------------------------------------------------
(* Sequences of sequences                                                  *)

\* The first n of a sequence of sequences, joined one after the other.
Joins(f, n, seqs) == \A i \in 1..n : f[i] = IF i = 1 THEN seqs[i] ELSE f[i - 1] \o seqs[i]

LEMMA JoinsExist ==
    ASSUME NEW T, NEW seqs \in Seq(Seq(T)), NEW n \in 0..Len(seqs)
    PROVE  \E f \in [1..n -> Seq(T)] : Joins(f, n, seqs)
<1> DEFINE Wrong == {k \in 0..Len(seqs) : ~ \E f \in [1..k -> Seq(T)] : Joins(f, k, seqs)}
<1>0. Len(seqs) \in Nat /\ \A i \in 1..Len(seqs) : seqs[i] \in Seq(T)
  BY LenProperties, ElementOfSeq
<1>1. SUFFICES ASSUME Wrong # {} PROVE FALSE
  OBVIOUS
<1>2. PICK m \in Wrong : \A k \in Wrong : m <= k
  <2>1. Wrong \in SUBSET Nat
    BY <1>0
  <2> HIDE DEF Wrong
  <2> QED BY <1>1, <2>1, LeastExists
<1>3. m \in 0..Len(seqs) /\ m \in Nat
  BY <1>0
<1>4. m # 0
  <2>1. [i \in 1..0 |-> <<>>] \in [1..0 -> Seq(T)] /\ Joins([i \in 1..0 |-> <<>>], 0, seqs)
    BY DEF Joins
  <2> QED BY <2>1
<1>5. PICK f \in [1..m - 1 -> Seq(T)] : Joins(f, m - 1, seqs)
  <2>1. m - 1 \in 0..Len(seqs) /\ ~(m <= m - 1)
    BY <1>0, <1>3, <1>4
  <2>2. m - 1 \notin Wrong
    <3> HIDE DEF Wrong
    <3> QED BY <1>2, <2>1
  <2> QED BY <2>1, <2>2
<1> DEFINE last == IF m = 1 THEN seqs[m] ELSE f[m - 1] \o seqs[m]
           g    == [i \in 1..m |-> IF i = m THEN last ELSE f[i]]
<1>6. last \in Seq(T)
  <2>1. m \in 1..Len(seqs) /\ (m # 1 => m - 1 \in 1..m - 1)
    BY <1>0, <1>3, <1>4
  <2>2. seqs[m] \in Seq(T) /\ (m # 1 => f[m - 1] \in Seq(T))
    BY <1>0, <2>1
  <2> QED BY <2>2, ConcatProperties
<1>7. \A i \in 1..m : i # m => i \in 1..m - 1
  BY <1>3
<1>8. g \in [1..m -> Seq(T)]
  <2> HIDE DEF last
  <2> QED BY <1>6, <1>7
<1>9. Joins(g, m, seqs)
  <2> SUFFICES ASSUME NEW i \in 1..m
               PROVE  g[i] = IF i = 1 THEN seqs[i] ELSE g[i - 1] \o seqs[i]
    BY DEF Joins
  <2>1. i # 1 => i - 1 \in 1..m /\ i - 1 # m
    BY <1>3
  <2>2. i # 1 => g[i - 1] = f[i - 1]
    BY <2>1
  <2>3. CASE i = m
    BY <2>2, <2>3
  <2>4. CASE i # m
    BY <1>5, <1>7, <2>2, <2>4 DEF Joins
  <2> QED BY <2>3, <2>4
<1> HIDE DEF g
<1> QED BY <1>2, <1>8, <1>9

LEMMA JoinsAgree ==
    ASSUME NEW n \in Nat, NEW f, NEW g, NEW seqs, Joins(f, n, seqs), Joins(g, n, seqs)
    PROVE  \A i \in 1..n : f[i] = g[i]
<1> DEFINE Wrong == {i \in 1..n : f[i] # g[i]}
<1> SUFFICES ASSUME Wrong # {} PROVE FALSE
  OBVIOUS
<1>1. PICK m \in Wrong : \A k \in Wrong : m <= k
  <2>1. Wrong \in SUBSET Nat
    OBVIOUS
  <2> HIDE DEF Wrong
  <2> QED BY <2>1, LeastExists
<1>2. m \in 1..n /\ f[m] # g[m]
  OBVIOUS
<1>3. m # 1 => m - 1 \in 1..n /\ ~(m <= m - 1)
  BY <1>2
<1>4. m # 1 => f[m - 1] = g[m - 1]
  BY <1>1, <1>3
<1> HIDE DEF Wrong
<1> QED BY <1>2, <1>4 DEF Joins

\* What FlattenSeq does.
LEMMA Flattened ==
    ASSUME NEW T, NEW seqs \in Seq(Seq(T)), Len(seqs) > 0
    PROVE  \E f \in [1..Len(seqs) -> Seq(T)] :
               Joins(f, Len(seqs), seqs) /\ FlattenSeq(seqs) = f[Len(seqs)]
<1> DEFINE n == Len(seqs)
           Joined(f) == f = [i \in 1..n |-> IF i = 1 THEN seqs[i] ELSE f[i - 1] \o seqs[i]]
           h == CHOOSE f : Joined(f)
<1>0. n \in Nat /\ n \in 0..n /\ n # 0
  BY LenProperties
<1>1. PICK f \in [1..n -> Seq(T)] : Joins(f, n, seqs)
  BY <1>0, JoinsExist
<1>2. Joined(f)
  BY <1>1 DEF Joins
<1>3. Joined(h)
  BY <1>2
<1>4. FlattenSeq(seqs) = h[n]
  BY <1>0 DEF FlattenSeq
<1>5. Joins(h, n, seqs)
  BY <1>3 DEF Joins
<1> HIDE DEF h
<1>6. h[n] = f[n]
  <2>1. n \in 1..n
    BY <1>0
  <2> QED BY <1>0, <1>1, <1>5, <2>1, JoinsAgree
<1> QED BY <1>1, <1>4, <1>6

LEMMA FlattenedType ==
    ASSUME NEW T, NEW seqs \in Seq(Seq(T))
    PROVE  FlattenSeq(seqs) \in Seq(T)
<1>0. Len(seqs) \in Nat
  BY LenProperties
<1>1. CASE Len(seqs) = 0
  <2>1. seqs = <<>>
    BY <1>1, EmptySeq
  <2> QED BY <1>1, <2>1, EmptySeq DEF FlattenSeq
<1>2. CASE Len(seqs) > 0
  <2>1. Len(seqs) \in 1..Len(seqs)
    BY <1>0, <1>2
  <2> QED BY <1>2, <2>1, Flattened
<1> QED BY <1>0, <1>1, <1>2

-----------------------------------------------------------------------------
(* Relationships                                                           *)

\* The relationships of an intent without a traversal are those of its joins.
LEMMA JoinsWalked ==
    ASSUME NEW i, i.joins \in Seq(ToSet(i.joins)), ~Traverses(i)
    PROVE  EdgesWalked(i) = [k \in 1..Len(i.joins) |-> i.joins[k].rel]
<1> DEFINE rels == [k \in DOMAIN i.joins |-> i.joins[k].rel]
           T    == {j.rel : j \in ToSet(i.joins)}
<1>1. rels \in Seq(T) /\ DOMAIN i.joins = 1..Len(i.joins)
  <2>1. DOMAIN i.joins = 1..Len(i.joins) /\ Len(i.joins) \in Nat
    BY LenProperties
  <2>2. \A k \in 1..Len(i.joins) : i.joins[k].rel \in T
    BY <2>1 DEF ToSet
  <2> QED BY <2>1, <2>2, SeqDef
<1>2. Present(<<i.traversal.rel>>) = <<>>
  <2> DEFINE none == <<i.traversal.rel>>
             each == [k \in DOMAIN none |->
                         IF none[k] \in ToSet(none) \ {NoName} THEN <<none[k]>> ELSE <<>>]
  <2>1. none = <<NoName>>
    BY DEF Traverses
  <2>2. ToSet(none) \ {NoName} = {}
    BY <2>1 DEF ToSet
  <2>3. DOMAIN none = 1..1
    BY <2>1
  <2>4. each = [k \in 1..1 |-> <<>>]
    BY <2>2, <2>3
  <2> HIDE DEF each
  <2>5. FlattenSeq(each) = <<>>
    <3> DEFINE h == CHOOSE f : f = [k \in 1..1 |->
                        IF k = 1 THEN each[k] ELSE f[k - 1] \o each[k]]
               g == [k \in 1..1 |-> <<>>]
    <3>1. Len(each) = 1 /\ each # <<>>
      BY <2>4
    <3>2. g = [k \in 1..1 |-> IF k = 1 THEN each[k] ELSE g[k - 1] \o each[k]]
      BY <2>4
    <3>3. h = [k \in 1..1 |-> IF k = 1 THEN each[k] ELSE h[k - 1] \o each[k]]
      BY <3>2
    <3>4. h[1] = <<>>
      BY <2>4, <3>3
    <3>5. FlattenSeq(each) = h[1]
      BY <3>1 DEF FlattenSeq
    <3> QED BY <3>4, <3>5
  <2> QED BY <2>5 DEF Present, Among, each
<1>3. rels \o <<>> = rels
  BY <1>1, ConcatEmptySeq
<1> QED BY <1>1, <1>2, <1>3 DEF EdgesWalked

\* What a walk without error has met, one relationship after the other.
LEMMA EdgesAccepted ==
    ASSUME NEW i, NEW s, EdgeError(i, s) = "none", NEW T, EdgesWalked(i) \in Seq(T)
    PROVE  /\ \A k \in 1..Len(EdgesWalked(i)) :
                 /\ EdgesWalked(i)[k] \in EdgeNames(s)
                 /\ Ends(s, EdgesWalked(i)[k]) \cap Involved(i, s, k) # {}
                 /\ Ends(s, EdgesWalked(i)[k]) \subseteq ToSet(i.sources)
           /\ Involved(i, s, Len(EdgesWalked(i)) + 1) = ToSet(i.sources)
<1> DEFINE walked == EdgesWalked(i)
           n      == Len(walked)
           first  == SelectInSeq(walked, LAMBDA rel : rel \notin EdgeNames(s))
           known  == IF first = 0 THEN n ELSE first
           errors == [k \in 1..known |-> EdgeErrorAt(i, s, k)]
<1>0. n \in Nat
  BY LenProperties
<1>1. IF \A k \in 1..n : walked[k] \in EdgeNames(s) THEN first = 0
      ELSE first \in 1..n /\ walked[first] \notin EdgeNames(s)
  <2> DEFINE strange == {k \in 1..n : walked[k] \notin EdgeNames(s)}
  <2> HIDE DEF walked
  <2>1. CASE strange = {}
    BY <2>1 DEF SelectInSeq
  <2>2. CASE strange # {}
    <3>1. PICK x \in strange : \A y \in strange : x <= y
      <4>1. strange \in SUBSET Nat
        BY <1>0
      <4> HIDE DEF strange
      <4> QED BY <2>2, <4>1, LeastExists
    <3>2. Min(strange) \in strange
      BY <3>1 DEF Min
    <3> QED BY <2>2, <3>2 DEF SelectInSeq
  <2> QED BY <2>1, <2>2
<1>2. known \in 0..n /\ Len(errors) = known /\ known \in Nat
  BY <1>0, <1>1
<1>3. FirstError(errors) = "none"
  BY DEF EdgeError
<1>4. \A k \in 1..known : EdgeErrorAt(i, s, k) = "none"
  <2> HIDE DEF known
  <2>1. \A k \in 1..Len(errors) : errors[k] = "none"
    <3> HIDE DEF errors
    <3> QED BY <1>2, <1>3, NoFirstError
  <2> QED BY <1>2, <2>1
<1>5. first = 0 /\ known = n
  <2> SUFFICES ASSUME first # 0 PROVE FALSE
    OBVIOUS
  <2>1. first \in 1..known /\ walked[first] \notin EdgeNames(s)
    BY <1>1
  <2> QED BY <1>4, <2>1 DEF EdgeErrorAt
<1>6. \A k \in 1..n : walked[k] \in EdgeNames(s)
  BY <1>1, <1>5, <1>0
<1>7. \A k \in 1..n : /\ Ends(s, walked[k]) \cap Involved(i, s, k) # {}
                      /\ Ends(s, walked[k]) \subseteq ToSet(i.sources)
  BY <1>4, <1>5, <1>6 DEF EdgeErrorAt, Refuse
<1>8. Involved(i, s, n + 1) = ToSet(i.sources)
  BY <1>3 DEF EdgeError, Refuse
<1> QED BY <1>6, <1>7, <1>8

-----------------------------------------------------------------------------
(* Names                                                                   *)

\* Grounding without error passes every check.
LEMMA ChecksPassed ==
    ASSUME NEW i, NEW s, NEW c, GroundingError(i, s, c) = "none"
    PROVE  \A k \in 1..16 : GroundingCheck(k, i, s, FieldTable(i, s), c) = "none"
<1> DEFINE Check(k) == GroundingCheck(k, i, s, FieldTable(i, s), c)
           Stops(k) == k = Checks + 1 \/ Check(k) # "none"
           First(k) == Stops(k) /\ \A j \in 1..k - 1 : ~Stops(j)
           last     == CHOOSE k \in 1..Checks + 1 : First(k)
           stops    == {k \in 1..17 : Stops(k)}
<1>0. Checks = 16 /\ Checks + 1 = 17
  BY DEF Checks
<1>1. \E k \in 1..Checks + 1 : First(k)
  <2>1. stops \in SUBSET Nat /\ stops # {}
    BY <1>0
  <2>2. PICK k \in stops : \A j \in stops : k <= j
    <3> HIDE DEF stops
    <3> QED BY <2>1, LeastExists
  <2>3. k \in 1..17 /\ Stops(k)
    OBVIOUS
  <2>4. \A j \in 1..k - 1 : j \in 1..17 /\ ~(k <= j)
    BY <2>3
  <2>5. \A j \in 1..k - 1 : j \notin stops
    <3> HIDE DEF stops
    <3> QED BY <2>2, <2>4
  <2> QED BY <1>0, <2>3, <2>4, <2>5
<1>2. last \in 1..Checks + 1 /\ First(last)
  <2> HIDE DEF First
  <2> QED BY <1>1
<1>3. "none" = IF last = Checks + 1 THEN "none" ELSE Check(last)
  BY DEF GroundingError
<1> HIDE DEF last, Check
<1>4. last = 17
  BY <1>0, <1>2, <1>3
<1> QED BY <1>0, <1>2, <1>4 DEF Check

\* When nothing of a list is wrong, no member is.
LEMMA EachFine ==
    ASSUME NEW S, NEW seq \in Seq(S), NEW error,
           FirstError([k \in DOMAIN seq |-> error[seq[k]]]) = "none"
    PROVE  \A x \in ToSet(seq) : error[x] = "none"
<1> DEFINE outcomes == [k \in DOMAIN seq |-> error[seq[k]]]
<1>1. DOMAIN seq = 1..Len(seq) /\ Len(seq) \in Nat
  BY LenProperties
<1>2. Len(outcomes) = Len(seq)
  BY <1>1
<1>3. \A k \in 1..Len(seq) : outcomes[k] = "none"
  <2>1. FirstError(outcomes) = "none"
    OBVIOUS
  <2> HIDE DEF outcomes
  <2> QED BY <1>1, <1>2, <2>1, NoFirstError
<1> QED BY <1>1, <1>3 DEF ToSet

LEMMA PairFine ==
    ASSUME NEW fields, NEW terms, NEW a, NEW b,
           Each(<<a, b>>, LAMBDA n : NameError(n, fields, terms)) = "none"
    PROVE  \A n \in ToSet(<<a, b>>) : NameError(n, fields, terms) = "none"
<1> DEFINE outcomes == [k \in DOMAIN <<a, b>> |-> NameError(<<a, b>>[k], fields, terms)]
<1>1. FirstError(outcomes) = "none"
  BY DEF Each
<1>2. Len(outcomes) = 2 /\ Len(outcomes) \in Nat /\ DOMAIN <<a, b>> = 1..2
  OBVIOUS
<1>3. \A k \in 1..Len(outcomes) : outcomes[k] = "none"
  <2> HIDE DEF outcomes
  <2> QED BY <1>1, <1>2, NoFirstError
<1> QED BY <1>2, <1>3 DEF ToSet

\* Every name an accepted intent has resolved is that of one field.
LEMMA NamesResolved ==
    ASSUME NEW i, NEW s, NEW terms, WellFormed(i), GroundingError(i, s, terms) = "none"
    PROVE  \A n \in ResolvedNames(i, s) : NameError(n, FieldTable(i, s), terms) = "none"
<1> DEFINE fields   == FieldTable(i, s)
           Check(k) == GroundingCheck(k, i, s, fields, terms)
           Fine(n)  == NameError(n, fields, terms) = "none"
<1>0. /\ i.projections \in Seq(ToSet(i.projections)) /\ i.dimensions \in Seq(ToSet(i.dimensions))
      /\ i.metrics \in Seq(ToSet(i.metrics)) /\ i.filters \in Seq(ToSet(i.filters))
      /\ i.predicate \in Seq(ToSet(i.predicate)) /\ i.sort \in Seq(ToSet(i.sort))
      /\ i.unwind \in Seq(ToSet(i.unwind)) /\ i.calculations \in Seq(ToSet(i.calculations))
      /\ i.joins \in Seq(ToSet(i.joins))
  BY DEF WellFormed, Lists
<1>1. \A k \in {2, 3, 4, 6, 7, 8, 10, 11, 13, 14} : Check(k) = "none"
  BY ChecksPassed
<1> HIDE DEF fields, Check
<1>2. ASSUME NEW x \in ToSet(i.projections) PROVE Fine(x.field)
  <2> DEFINE error == [y \in ToSet(i.projections) |->
                          NameError(y.field, fields, terms)]
  <2>1. FirstError([k \in DOMAIN FieldsOf(i.projections) |->
                       NameError(FieldsOf(i.projections)[k], fields, terms)]) = "none"
    BY <1>1 DEF Check, GroundingCheck, Each
  <2>2. [k \in DOMAIN i.projections |-> error[i.projections[k]]]
        = [k \in DOMAIN FieldsOf(i.projections) |->
              NameError(FieldsOf(i.projections)[k], fields, terms)]
    BY DEF ToSet, FieldsOf
  <2>3. FirstError([k \in DOMAIN i.projections |-> error[i.projections[k]]]) = "none"
    BY <2>1, <2>2, Zenon
  <2>4. error[x] = "none"
    <3> HIDE DEF error
    <3> QED BY <1>0, <2>3, EachFine
  <2> QED BY <1>2, <2>4
<1>3. ASSUME NEW x \in ToSet(i.dimensions) PROVE Fine(x)
  <2> DEFINE error == [y \in ToSet(i.dimensions) |->
                          NameError(y, fields, terms)]
  <2>1. FirstError([k \in DOMAIN i.dimensions |->
                       NameError(i.dimensions[k], fields, terms)]) = "none"
    BY <1>1 DEF Check, GroundingCheck, Each
  <2>2. [k \in DOMAIN i.dimensions |-> error[i.dimensions[k]]]
        = [k \in DOMAIN i.dimensions |->
              NameError(i.dimensions[k], fields, terms)]
    BY DEF ToSet
  <2>3. FirstError([k \in DOMAIN i.dimensions |-> error[i.dimensions[k]]]) = "none"
    BY <2>1, <2>2, Zenon
  <2>4. error[x] = "none"
    <3> HIDE DEF error
    <3> QED BY <1>0, <2>3, EachFine
  <2> QED BY <1>3, <2>4
<1>4. ASSUME NEW x \in ToSet(i.metrics), ~IsCountAll(x) PROVE Fine(x.field)
  <2> DEFINE error == [y \in ToSet(i.metrics) |->
                          MetricError(y, fields, terms)]
  <2>1. FirstError([k \in DOMAIN i.metrics |->
                       MetricError(i.metrics[k], fields, terms)]) = "none"
    BY <1>1 DEF Check, GroundingCheck, Each
  <2>2. [k \in DOMAIN i.metrics |-> error[i.metrics[k]]]
        = [k \in DOMAIN i.metrics |->
              MetricError(i.metrics[k], fields, terms)]
    BY DEF ToSet
  <2>3. FirstError([k \in DOMAIN i.metrics |-> error[i.metrics[k]]]) = "none"
    BY <2>1, <2>2, Zenon
  <2>4. error[x] = "none"
    <3> HIDE DEF error
    <3> QED BY <1>0, <2>3, EachFine
  <2> QED BY <1>4, <2>4 DEF MetricError
<1>5. ASSUME NEW x \in ToSet(i.filters) PROVE Fine(x.field)
  <2> DEFINE error == [y \in ToSet(i.filters) |->
                          FilterError(y, fields, terms)]
  <2>1. FirstError([k \in DOMAIN i.filters |->
                       FilterError(i.filters[k], fields, terms)]) = "none"
    BY <1>1 DEF Check, GroundingCheck, Each
  <2>2. [k \in DOMAIN i.filters |-> error[i.filters[k]]]
        = [k \in DOMAIN i.filters |->
              FilterError(i.filters[k], fields, terms)]
    BY DEF ToSet
  <2>3. FirstError([k \in DOMAIN i.filters |-> error[i.filters[k]]]) = "none"
    BY <2>1, <2>2, Zenon
  <2>4. error[x] = "none"
    <3> HIDE DEF error
    <3> QED BY <1>0, <2>3, EachFine
  <2> QED BY <1>5, <2>4 DEF FilterError
<1>6. ASSUME NEW x \in ToSet(i.predicate) PROVE Fine(x.test.field)
  <2> DEFINE error == [y \in ToSet(i.predicate) |->
                          IF Len(y.path) > MaxDepth THEN "PolicyViolation"
                             ELSE FilterError(y.test, fields, terms)]
  <2>1. FirstError([k \in DOMAIN i.predicate |->
                       IF Len(i.predicate[k].path) > MaxDepth THEN "PolicyViolation"
                           ELSE FilterError(i.predicate[k].test, fields, terms)]) = "none"
    BY <1>1 DEF Check, GroundingCheck, Each, PredicateError
  <2>2. [k \in DOMAIN i.predicate |-> error[i.predicate[k]]]
        = [k \in DOMAIN i.predicate |->
              IF Len(i.predicate[k].path) > MaxDepth THEN "PolicyViolation"
                           ELSE FilterError(i.predicate[k].test, fields, terms)]
    BY DEF ToSet
  <2>3. FirstError([k \in DOMAIN i.predicate |-> error[i.predicate[k]]]) = "none"
    BY <2>1, <2>2, Zenon
  <2>4. error[x] = "none"
    <3> HIDE DEF error
    <3> QED BY <1>0, <2>3, EachFine
  <2> QED BY <1>6, <2>4 DEF FilterError
<1>7. ASSUME NEW x \in ToSet(i.sort), x.field \notin ToSet(Aliases(i)) PROVE Fine(x.field)
  <2> DEFINE error == [y \in ToSet(i.sort) |->
                          IF y.field \in ToSet(Aliases(i)) THEN "none"
                             ELSE NameError(y.field, fields, terms)]
  <2>1. FirstError([k \in DOMAIN FieldsOf(i.sort) |->
                       IF FieldsOf(i.sort)[k] \in ToSet(Aliases(i)) THEN "none"
                           ELSE NameError(FieldsOf(i.sort)[k], fields, terms)]) = "none"
    BY <1>1 DEF Check, GroundingCheck, Each
  <2>2. [k \in DOMAIN i.sort |-> error[i.sort[k]]]
        = [k \in DOMAIN FieldsOf(i.sort) |->
              IF FieldsOf(i.sort)[k] \in ToSet(Aliases(i)) THEN "none"
                           ELSE NameError(FieldsOf(i.sort)[k], fields, terms)]
    BY DEF ToSet, FieldsOf
  <2>3. FirstError([k \in DOMAIN i.sort |-> error[i.sort[k]]]) = "none"
    BY <2>1, <2>2, Zenon
  <2>4. error[x] = "none"
    <3> HIDE DEF error
    <3> QED BY <1>0, <2>3, EachFine
  <2> QED BY <1>7, <2>4
<1>8. ASSUME NEW x \in ToSet(i.unwind) PROVE Fine(x)
  <2> DEFINE error == [y \in ToSet(i.unwind) |->
                          NameError(y, fields, terms)]
  <2>1. FirstError([k \in DOMAIN i.unwind |->
                       NameError(i.unwind[k], fields, terms)]) = "none"
    BY <1>1 DEF Check, GroundingCheck, Each, OrElse
  <2>2. [k \in DOMAIN i.unwind |-> error[i.unwind[k]]]
        = [k \in DOMAIN i.unwind |->
              NameError(i.unwind[k], fields, terms)]
    BY DEF ToSet
  <2>3. FirstError([k \in DOMAIN i.unwind |-> error[i.unwind[k]]]) = "none"
    BY <2>1, <2>2, Zenon
  <2>4. error[x] = "none"
    <3> HIDE DEF error
    <3> QED BY <1>0, <2>3, EachFine
  <2> QED BY <1>8, <2>4
<1>9. ASSUME NEW x \in ToSet(i.calculations) PROVE \A n \in ToSet(Operands(x)) : Fine(n)
  <2> DEFINE error == [y \in ToSet(i.calculations) |->
                          Each(Operands(y), LAMBDA n : NameError(n, fields, terms))]
  <2>1. FirstError([k \in DOMAIN i.calculations |->
                       Each(Operands(i.calculations[k]), LAMBDA n : NameError(n, fields, terms))]) = "none"
    BY <1>1 DEF Check, GroundingCheck, Each, OrElse
  <2>2. [k \in DOMAIN i.calculations |-> error[i.calculations[k]]]
        = [k \in DOMAIN i.calculations |->
              Each(Operands(i.calculations[k]), LAMBDA n : NameError(n, fields, terms))]
    BY DEF ToSet, Each
  <2>3. FirstError([k \in DOMAIN i.calculations |-> error[i.calculations[k]]]) = "none"
    BY <2>1, <2>2, Zenon DEF Each
  <2>4. error[x] = "none"
    <3> HIDE DEF error
    <3> QED BY <1>0, <2>3, EachFine
  <2>5. Each(<<x.left, x.right>>, LAMBDA n : NameError(n, fields, terms)) = "none"
    BY <2>4 DEF Operands, Each
  <2> QED BY <2>5, PairFine DEF Operands
<1>10. ASSUME NEW x \in ToSet(i.joins) PROVE \A n \in ToSet(JoinKeys(s, x.rel)) : Fine(n)
  <2> DEFINE error == [y \in ToSet(i.joins) |->
                          JoinError(s, y.rel, fields, terms)]
  <2>1. FirstError([k \in DOMAIN i.joins |->
                       JoinError(s, i.joins[k].rel, fields, terms)]) = "none"
    BY <1>1 DEF Check, GroundingCheck, Each
  <2>2. [k \in DOMAIN i.joins |-> error[i.joins[k]]]
        = [k \in DOMAIN i.joins |->
              JoinError(s, i.joins[k].rel, fields, terms)]
    BY DEF ToSet
  <2>3. FirstError([k \in DOMAIN i.joins |-> error[i.joins[k]]]) = "none"
    BY <2>1, <2>2, Zenon
  <2>4. error[x] = "none"
    <3> HIDE DEF error
    <3> QED BY <1>0, <2>3, EachFine
  <2> DEFINE e == Edge(s, x.rel)
             a == e.source \o e.source_field
             b == e.target \o e.target_field
  <2>5. JoinKeys(s, x.rel) = <<a, b>>
    BY DEF JoinKeys
  <2>6. Each(<<a, b>>, LAMBDA n : NameError(n, fields, terms)) = "none"
    BY <2>4, <2>5 DEF JoinError, Each
  <2> HIDE DEF a, b
  <2>7. \A n \in ToSet(<<a, b>>) : Fine(n)
    BY <2>6, PairFine
  <2> QED BY <2>5, <2>7
<1>11. HasWindow(i) => Fine(i.window.field)
  BY <1>1 DEF Check, GroundingCheck, OrElse, Each
<1> QED BY <1>2, <1>3, <1>4, <1>5, <1>6, <1>7, <1>8, <1>9, <1>10, <1>11 DEF ResolvedNames, fields, HasWindow

\* The image of a finite set is finite.
LEMMA ImageFinite ==
    ASSUME NEW S, IsFiniteSet(S), NEW f
    PROVE  IsFiniteSet({f[x] : x \in S})
<1> DEFINE T == {f[x] : x \in S}
           g == [x \in S |-> f[x]]
<1>1. g \in Surjection(S, T)
  BY DEF Surjection
<1> HIDE DEF g, T
<1>2. IsFiniteSet(T)
  BY <1>1, FS_Surjection
<1> QED BY <1>2 DEF T

\* A finite set is enumerated by a sequence as long as it is large.
LEMMA Enumerated ==
    ASSUME NEW S, IsFiniteSet(S)
    PROVE  /\ SetToSeq(S) \in [1..Cardinality(S) -> S]
           /\ Len(SetToSeq(S)) = Cardinality(S) /\ Cardinality(S) \in Nat
<1>1. Cardinality(S) \in Nat /\ ExistsBijection(1..Cardinality(S), S)
  BY FS_CardinalityType
<1>2. \E f \in [1..Cardinality(S) -> S] : IsInjective(f)
  BY <1>1 DEF ExistsBijection, Bijection, Injection
<1>3. SetToSeq(S) \in [1..Cardinality(S) -> S]
  BY <1>2 DEF SetToSeq
<1> QED BY <1>1, <1>3

\* A schema with sources that are there.
WellNamed(i, s) ==
    /\ i.sources \in Seq(ToSet(i.sources))
    /\ \A x \in ToSet(i.sources) : Source(s, x) \in s.sources
    /\ \A x \in s.sources : IsFiniteSet(x.fields)

\* An accepted request is for sources that are there.
LEMMA SourcesThere ==
    ASSUME NEW i, WellFormed(i), NEW s, WellFormedSchema(s), NEW caps, NEW rules,
           RequestError(i, s, caps, rules) = "none"
    PROVE  WellNamed(i, s)
<1>1. ToSet(i.sources) \subseteq SourceNames(s)
  BY RequestAccepted
<1>2. \A x \in ToSet(i.sources) : Source(s, x) \in s.sources
  BY <1>1 DEF Source, SourceNames
<1> QED BY <1>2 DEF WellNamed, WellFormed, WellFormedSchema, Lists

\* There are finitely many fields to name.
LEMMA KeysFinite ==
    ASSUME NEW i, NEW s, WellNamed(i, s)
    PROVE  IsFiniteSet(DOMAIN FieldTable(i, s))
<1> DEFINE Of(k) == {i.sources[k] \o f.name : f \in Source(s, i.sources[k]).fields}
           keys  == UNION {Of(k) : k \in DOMAIN i.sources}
<1>0. DOMAIN i.sources = 1..Len(i.sources) /\ Len(i.sources) \in Nat
  BY LenProperties DEF WellNamed
<1>1. DOMAIN FieldTable(i, s) = keys
  BY DEF FieldTable
<1>2. \A k \in DOMAIN i.sources : IsFiniteSet(Of(k))
  <2> TAKE k \in DOMAIN i.sources
  <2> DEFINE here   == Source(s, i.sources[k]).fields
             Spell  == [f \in here |-> i.sources[k] \o f.name]
  <2>1. IsFiniteSet(here)
    BY DEF WellNamed, ToSet
  <2>2. Of(k) = {Spell[f] : f \in here}
    OBVIOUS
  <2> HIDE DEF Spell, here
  <2>3. IsFiniteSet({Spell[f] : f \in here})
    BY <2>1, ImageFinite
  <2> QED BY <2>2, <2>3
<1>3. IsFiniteSet({Of(k) : k \in DOMAIN i.sources})
  <2> DEFINE all == [k \in DOMAIN i.sources |-> Of(k)]
  <2>1. IsFiniteSet(DOMAIN i.sources)
    BY <1>0, FS_Interval
  <2>2. {Of(k) : k \in DOMAIN i.sources} = {all[k] : k \in DOMAIN i.sources}
    OBVIOUS
  <2> HIDE DEF all, Of
  <2>3. IsFiniteSet({all[k] : k \in DOMAIN i.sources})
    BY <2>1, ImageFinite
  <2> QED BY <2>2, <2>3
<1>4. IsFiniteSet(keys)
  <2> DEFINE sets == {Of(k) : k \in DOMAIN i.sources}
  <2>1. \A T \in sets : IsFiniteSet(T)
    BY <1>2
  <2> HIDE DEF sets, Of
  <2>2. IsFiniteSet(sets)
    BY <1>3 DEF sets
  <2>3. IsFiniteSet(UNION sets)
    BY <2>1, <2>2, FS_UNION
  <2> QED BY <2>3 DEF sets
<1> HIDE DEF keys
<1> QED BY <1>1, <1>4

\* What is picked from a list is of the set it is picked by.
LEMMA AmongIn ==
    ASSUME NEW names, names \in Seq(ToSet(names)), NEW S
    PROVE  Among(names, S) \in Seq(S)
<1> DEFINE picks == [k \in DOMAIN names |-> IF names[k] \in S THEN <<names[k]>> ELSE <<>>]
<1>1. DOMAIN names = 1..Len(names) /\ Len(names) \in Nat
  BY LenProperties
<1>2. \A k \in 1..Len(names) : picks[k] \in Seq(S)
  BY <1>1, EmptySeq
<1>3. picks \in Seq(Seq(S))
  <2>1. picks = [k \in 1..Len(names) |-> picks[k]]
    BY <1>1
  <2> HIDE DEF picks
  <2>2. picks \in [1..Len(names) -> Seq(S)]
    BY <1>2, <2>1
  <2> QED BY <1>1, <2>2, SeqDef
<1> QED BY <1>3, FlattenedType DEF Among

\* A name that has no error stands for a field there is.
LEMMA ResolvedKnown ==
    ASSUME NEW fields, IsFiniteSet(DOMAIN fields), NEW t, WellFormedCatalog(t), NEW n,
           NameError(n, fields, t) = "none"
    PROVE  Resolve(n, fields, t) \in DOMAIN fields
<1> DEFINE found == Candidates(n, fields, t)
<1>1. found \in Seq(DOMAIN fields)
  <2>1. CASE Concepts(t, n) # {}
    <3> DEFINE c     == CHOOSE c \in Concepts(t, n) : TRUE
               known == Among(c.candidates, DOMAIN fields \ c.deprecated)
    <3>1. c \in t
      BY <2>1 DEF Concepts
    <3>2. c.candidates \in Seq(ToSet(c.candidates))
      BY <3>1 DEF WellFormedCatalog
    <3> HIDE DEF c
    <3>3. known \in Seq(DOMAIN fields \ c.deprecated)
      BY <3>2, AmongIn
    <3> HIDE DEF known
    <3>4. known \in Seq(DOMAIN fields)
      <4>1. \A k \in 1..Len(known) : known[k] \in DOMAIN fields
        BY <3>3, ElementOfSeq
      <4> QED BY <3>3, <4>1, LenProperties, SeqDef
    <3>5. c.preferred \in ToSet(known) => <<c.preferred>> \in Seq(DOMAIN fields)
      <4>1. \A x \in ToSet(known) : x \in DOMAIN fields
        BY <3>4, LenProperties, ElementOfSeq DEF ToSet
      <4> QED BY <4>1
    <3>6. found = IF c.preferred \in ToSet(known) THEN <<c.preferred>> ELSE known
      BY <2>1 DEF Candidates, c, known
    <3> HIDE DEF found
    <3> QED BY <3>4, <3>5, <3>6
  <2>2. CASE Concepts(t, n) = {} /\ n \in DOMAIN fields
    BY <2>2 DEF Candidates
  <2>3. CASE Concepts(t, n) = {} /\ n \notin DOMAIN fields
    <3> DEFINE ending == {k \in DOMAIN fields : IsStrictSuffix(n, k)}
    <3>1. found = SetToSeq(ending)
      BY <2>3 DEF Candidates
    <3>2. IsFiniteSet(ending)
      BY FS_Subset
    <3>3. \A x \in ending : x \in DOMAIN fields
      OBVIOUS
    <3> HIDE DEF ending, found
    <3>4. SetToSeq(ending) \in [1..Cardinality(ending) -> ending] /\ Cardinality(ending) \in Nat
      BY <3>2, Enumerated
    <3>5. SetToSeq(ending) \in [1..Cardinality(ending) -> DOMAIN fields]
      BY <3>3, <3>4
    <3> QED BY <3>1, <3>4, <3>5, SeqDef
  <2> QED BY <2>1, <2>2, <2>3
<1>2. Len(found) # 0
  BY DEF NameError
<1> HIDE DEF found
<1>3. found[1] \in DOMAIN fields
  <2>1. Len(found) \in Nat /\ 1 \in 1..Len(found)
    BY <1>1, <1>2, LenProperties
  <2> QED BY <1>1, <2>1, ElementOfSeq
<1> QED BY <1>3 DEF Resolve, found

\* With no business terms, a field's own key stands for it.
LEMMA KeySettled ==
    ASSUME NEW fields, NEW n \in DOMAIN fields
    PROVE  NameError(n, fields, {}) = "none" /\ Resolve(n, fields, {}) = n
<1>1. Concepts({}, n) = {}
  BY DEF Concepts
<1> DEFINE found == Candidates(n, fields, {})
<1>2. found = <<n>>
  BY <1>1 DEF Candidates
<1>3. ~(Cardinality(Concepts({}, n)) > 1)
  BY <1>1, FS_EmptySet
<1> HIDE DEF found
<1>4. ~(Len(found) > 1) /\ Len(found) # 0 /\ found[1] = n
  BY <1>2
<1>5. NameError(n, fields, {}) = "none"
  BY <1>3, <1>4 DEF NameError, found
<1> QED BY <1>4, <1>5 DEF Resolve, found

-----------------------------------------------------------------------------
(* Predicates that are grounded                                            *)

\* A leaf of an IR: a filter, no relative date, that its field's type allows.
GroundedLeaf(leaf, fields) ==
    /\ leaf = [x \in DOMAIN leaf |-> leaf[x]] /\ {"path", "test"} \subseteq DOMAIN leaf
    /\ leaf.path \in Seq(ToSet(leaf.path))
    /\ leaf.test = [x \in DOMAIN leaf.test |-> leaf.test[x]]
    /\ FilterFields \subseteq DOMAIN leaf.test
    /\ leaf.test.field \in DOMAIN fields
    /\ leaf.test.op # "relative_time"
    /\ TypeError(leaf.test.op, leaf.test.value, fields[leaf.test.field]) = "none"

Grounded(tree, fields) ==
    tree \in Seq(ToSet(tree)) /\ \A leaf \in ToSet(tree) : GroundedLeaf(leaf, fields)

\* A sequence is one of its own items.
LEMMA OwnItems ==
    ASSUME NEW T, NEW seq \in Seq(T)
    PROVE  seq \in Seq(ToSet(seq)) /\ ToSet(seq) \subseteq T
<1>1. DOMAIN seq = 1..Len(seq) /\ Len(seq) \in Nat /\ seq \in [1..Len(seq) -> T]
  BY LenProperties, SeqDef
<1>2. \A k \in 1..Len(seq) : seq[k] \in ToSet(seq)
  BY <1>1 DEF ToSet
<1>3. seq \in [1..Len(seq) -> ToSet(seq)]
  BY <1>1, <1>2
<1>4. \A x \in ToSet(seq) : x \in T
  BY <1>1 DEF ToSet
<1> QED BY <1>1, <1>3, <1>4, SeqDef

\* A list with one more item, and its items.
LEMMA ItemsAppended ==
    ASSUME NEW seq, seq \in Seq(ToSet(seq)), NEW x
    PROVE  Append(seq, x) \in Seq(ToSet(Append(seq, x)))
<1> DEFINE more == Append(seq, x)
           T == ToSet(seq) \cup {x}
<1>1. seq \in Seq(T) /\ x \in T
  <2>1. \A k \in 1..Len(seq) : seq[k] \in T
    BY ElementOfSeq
  <2> QED BY <2>1, LenProperties, SeqDef
<1>2. more \in Seq(T)
  <2> HIDE DEF T
  <2> QED BY <1>1, AppendProperties
<1> HIDE DEF more, T
<1>3. more \in Seq(ToSet(more))
  BY <1>2, OwnItems
<1> QED BY <1>3 DEF more

\* What a leaf that has no error becomes.
LEMMA LeafGrounds ==
    ASSUME NEW fields, IsFiniteSet(DOMAIN fields), NEW t, WellFormedCatalog(t), NEW now,
           NEW leaf, {"path", "test"} \subseteq DOMAIN leaf, leaf.path \in Seq(ToSet(leaf.path)),
           FilterFields \subseteq DOMAIN leaf.test, FilterError(leaf.test, fields, t) = "none"
    PROVE  Grounded(GroundLeaf(leaf, fields, t, now), fields)
<1> DEFINE f     == leaf.test
           field == Resolve(f.field, fields, t)
           out   == GroundLeaf(leaf, fields, t, now)
<1>1. /\ NameError(f.field, fields, t) = "none"
      /\ TypeError(f.op, f.value, fields[field]) = "none"
  BY DEF FilterError
<1>2. field \in DOMAIN fields
  BY <1>1, ResolvedKnown
<1>3. {"field", "op", "value"} \subseteq DOMAIN f
  BY DEF FilterFields
<1> HIDE DEF field
<1>4. CASE f.op = "relative_time"
  <2> DEFINE w == TimeInterval(f.value.items[1].val, now)
             Bound(k, op, instant) ==
                 [path |-> Append(leaf.path, [op |-> "and", at |-> k]),
                  test |-> [field |-> field, op |-> op, value |-> One("time", instant)]]
  <2>1. out = <<Bound(1, ">=", w.start), Bound(2, "<", w.end)>>
    BY <1>4 DEF GroundLeaf, field
  <2>2. fields[field] \in {"datetime", "unknown"}
    BY <1>1, <1>4 DEF TypeError, RelativeError
  <2>3. ASSUME NEW k \in {1, 2}, NEW op \in {">=", "<"}, NEW instant
        PROVE  GroundedLeaf(Bound(k, op, instant), fields)
    <3>1. TypeError(op, One("time", instant), fields[field]) = "none"
      BY <2>2 DEF TypeError, One, Scalar, IsKind, Comparable, TextKinds, Refuse
    <3>2. Append(leaf.path, [op |-> "and", at |-> k])
          \in Seq(ToSet(Append(leaf.path, [op |-> "and", at |-> k])))
      BY ItemsAppended
    <3> QED BY <1>2, <3>1, <3>2 DEF GroundedLeaf, FilterFields
  <2> HIDE DEF Bound, w
  <2> DEFINE a == Bound(1, ">=", w.start)
             b == Bound(2, "<", w.end)
  <2>4. GroundedLeaf(a, fields) /\ GroundedLeaf(b, fields)
    BY <2>3
  <2>5. out = <<a, b>>
    BY <2>1
  <2> HIDE DEF a, b, out
  <2>6. out \in Seq({a, b}) /\ ToSet(out) = {a, b}
    BY <2>5 DEF ToSet
  <2> QED BY <2>4, <2>6 DEF Grounded, out
<1>5. CASE f.op # "relative_time"
  <2> DEFINE g == [leaf EXCEPT !.test.field = field]
  <2>1. out = <<g>>
    BY <1>5 DEF GroundLeaf, field
  <2>2. /\ g = [x \in DOMAIN g |-> g[x]] /\ DOMAIN g = DOMAIN leaf
        /\ g.path = leaf.path
        /\ g.test = [f EXCEPT !.field = field]
    OBVIOUS
  <2>3. /\ DOMAIN g.test = DOMAIN f /\ g.test = [x \in DOMAIN g.test |-> g.test[x]]
        /\ g.test.field = field /\ g.test.op = f.op /\ g.test.value = f.value
    BY <1>3, <2>2
  <2> HIDE DEF g
  <2>4. GroundedLeaf(g, fields)
    BY <1>1, <1>2, <1>5, <2>2, <2>3 DEF GroundedLeaf
  <2> HIDE DEF out
  <2>5. out \in Seq({g}) /\ ToSet(out) = {g}
    BY <2>1 DEF ToSet
  <2> QED BY <2>4, <2>5 DEF Grounded, out
<1> QED BY <1>4, <1>5

\* Grounded predicates one after the other.
LEMMA GroundedTogether ==
    ASSUME NEW fields, NEW n \in Nat, NEW trees, DOMAIN trees = 1..n,
           trees = [k \in 1..n |-> trees[k]], \A k \in 1..n : Grounded(trees[k], fields)
    PROVE  /\ Grounded(FlattenSeq(trees), fields)
           /\ \A leaf \in ToSet(FlattenSeq(trees)) : \E k \in 1..n : leaf \in ToSet(trees[k])
<1> DEFINE T == UNION {ToSet(trees[k]) : k \in 1..n}
<1>1. \A k \in 1..n : trees[k] \in Seq(T)
  <2> SUFFICES ASSUME NEW k \in 1..n PROVE trees[k] \in Seq(T)
    OBVIOUS
  <2>1. trees[k] \in Seq(ToSet(trees[k]))
    BY DEF Grounded
  <2>2. \A j \in 1..Len(trees[k]) : trees[k][j] \in T
    BY <2>1, ElementOfSeq
  <2> QED BY <2>1, <2>2, LenProperties, SeqDef
<1>2. trees \in Seq(Seq(T))
  <2> HIDE DEF T
  <2>1. trees \in [1..n -> Seq(T)]
    BY <1>1
  <2> QED BY <2>1, SeqDef
<1>3. FlattenSeq(trees) \in Seq(T)
  BY <1>2, FlattenedType
<1>4. /\ FlattenSeq(trees) \in Seq(ToSet(FlattenSeq(trees)))
      /\ \A leaf \in ToSet(FlattenSeq(trees)) : leaf \in T
  <2> HIDE DEF T
  <2> QED BY <1>3, OwnItems
<1>5. \A leaf \in T : \E k \in 1..n : leaf \in ToSet(trees[k])
  OBVIOUS
<1>6. \A leaf \in T : GroundedLeaf(leaf, fields)
  BY DEF Grounded
<1> QED BY <1>4, <1>5, <1>6 DEF Grounded

\* Predicates in which every filter is below an operator.
Compounds(tree) == \A leaf \in ToSet(tree) : leaf.path # <<>>

\* Grounded predicates below one operator.
LEMMA CombineGrounds ==
    ASSUME NEW fields, NEW op, NEW n \in Nat, NEW trees, DOMAIN trees = 1..n,
           \A k \in 1..n : Grounded(trees[k], fields)
    PROVE  Grounded(Combine(op, trees), fields) /\ Compounds(Combine(op, trees))
<1> DEFINE below == [k \in DOMAIN trees |-> Under(op, k, trees[k])]
<1>1. ASSUME NEW k \in 1..n
      PROVE  Grounded(below[k], fields) /\ Compounds(below[k])
  <2> DEFINE tree == trees[k]
             step == [op |-> op, at |-> k]
             out  == [j \in DOMAIN tree |-> [tree[j] EXCEPT !.path = <<step>> \o @]]
  <2>1. below[k] = out
    BY DEF Under
  <2>2. DOMAIN tree = 1..Len(tree) /\ Len(tree) \in Nat
    BY LenProperties DEF Grounded
  <2>3. ASSUME NEW j \in DOMAIN tree PROVE GroundedLeaf(out[j], fields) /\ out[j].path # <<>>
    <3> DEFINE leaf == tree[j]
               new  == [leaf EXCEPT !.path = <<step>> \o @]
    <3>1. GroundedLeaf(leaf, fields)
      BY DEF Grounded, ToSet
    <3>2. leaf.path \in Seq(ToSet(leaf.path)) /\ {"path", "test"} \subseteq DOMAIN leaf
      BY <3>1 DEF GroundedLeaf
    <3> HIDE DEF leaf, step
    <3>3. /\ new.path = <<step>> \o leaf.path /\ new.test = leaf.test
          /\ DOMAIN new = DOMAIN leaf /\ new = [x \in DOMAIN new |-> new[x]]
      BY <3>2
    <3>4. <<step>> \o leaf.path \in Seq(ToSet(leaf.path) \cup {step})
      <4> DEFINE T == ToSet(leaf.path) \cup {step}
      <4>1. leaf.path \in Seq(T)
        <5>1. \A m \in 1..Len(leaf.path) : leaf.path[m] \in T
          BY <3>2, ElementOfSeq
        <5> QED BY <3>2, <5>1, LenProperties, SeqDef
      <4>2. <<step>> \in Seq(T)
        OBVIOUS
      <4> HIDE DEF T
      <4>3. <<step>> \o leaf.path \in Seq(T)
        BY <4>1, <4>2, ConcatProperties
      <4> QED BY <4>3 DEF T
    <3>5. Len(<<step>> \o leaf.path) = 1 + Len(leaf.path) /\ Len(leaf.path) \in Nat
      BY <3>2, LenProperties
    <3>6. <<step>> \o leaf.path # <<>>
      BY <3>4, <3>5, EmptySeq
    <3>7. <<step>> \o leaf.path \in Seq(ToSet(<<step>> \o leaf.path))
      BY <3>4, OwnItems
    <3> HIDE DEF new
    <3>8. GroundedLeaf(new, fields) /\ new.path # <<>>
      BY <3>1, <3>3, <3>6, <3>7 DEF GroundedLeaf
    <3> QED BY <3>8 DEF new, leaf
  <2>4. DOMAIN out = 1..Len(tree) /\ out = [j \in 1..Len(tree) |-> out[j]]
    BY <2>2
  <2>5. \A j \in 1..Len(tree) : out[j] \in ToSet(out)
    BY <2>4 DEF ToSet
  <2>6. \A leaf \in ToSet(out) : \E j \in DOMAIN tree : leaf = out[j]
    BY <2>2, <2>4 DEF ToSet
  <2> HIDE DEF out
  <2>7. out \in Seq(ToSet(out))
    <3>1. out \in [1..Len(tree) -> ToSet(out)]
      BY <2>4, <2>5
    <3> QED BY <2>2, <3>1, SeqDef
  <2> HIDE DEF below
  <2> QED BY <2>1, <2>3, <2>6, <2>7 DEF Grounded, Compounds
<1>2. DOMAIN below = 1..n /\ below = [k \in 1..n |-> below[k]]
  OBVIOUS
<1> HIDE DEF below
<1>3. /\ Grounded(FlattenSeq(below), fields)
      /\ \A leaf \in ToSet(FlattenSeq(below)) : \E k \in 1..n : leaf \in ToSet(below[k])
  BY <1>1, <1>2, GroundedTogether
<1>4. Compounds(FlattenSeq(below))
  BY <1>1, <1>3 DEF Compounds
<1> QED BY <1>3, <1>4 DEF Combine, below

\* A predicate whose filters have no error is grounded.
LEMMA TreeGrounds ==
    ASSUME NEW fields, IsFiniteSet(DOMAIN fields), NEW t, WellFormedCatalog(t), NEW now,
           NEW tree, tree \in Seq(ToSet(tree)),
           \A leaf \in ToSet(tree) :
               /\ {"path", "test"} \subseteq DOMAIN leaf /\ leaf.path \in Seq(ToSet(leaf.path))
               /\ FilterFields \subseteq DOMAIN leaf.test
               /\ FilterError(leaf.test, fields, t) = "none"
    PROVE  Grounded(GroundTree(tree, fields, t, now), fields)
<1> DEFINE trees == [k \in DOMAIN tree |-> GroundLeaf(tree[k], fields, t, now)]
<1>1. DOMAIN tree = 1..Len(tree) /\ Len(tree) \in Nat
  BY LenProperties
<1>2. ASSUME NEW k \in 1..Len(tree) PROVE Grounded(trees[k], fields)
  <2>1. tree[k] \in ToSet(tree)
    BY <1>1 DEF ToSet
  <2>2. Grounded(GroundLeaf(tree[k], fields, t, now), fields)
    BY <2>1, LeafGrounds
  <2> QED BY <1>1, <2>2
<1>3. DOMAIN trees = 1..Len(tree) /\ trees = [k \in 1..Len(tree) |-> trees[k]]
  BY <1>1
<1> HIDE DEF trees
<1>4. Grounded(FlattenSeq(trees), fields)
  BY <1>1, <1>2, <1>3, GroundedTogether
<1> QED BY <1>4 DEF GroundTree, trees

\* The same of a filter by itself.
LEMMA FilterGrounds ==
    ASSUME NEW fields, IsFiniteSet(DOMAIN fields), NEW t, WellFormedCatalog(t), NEW now,
           NEW f, FilterFields \subseteq DOMAIN f, FilterError(f, fields, t) = "none"
    PROVE  Grounded(GroundTree(<<Leaf(f)>>, fields, t, now), fields)
<1> DEFINE leaf == Leaf(f)
<1>1. /\ {"path", "test"} \subseteq DOMAIN leaf /\ leaf.path = <<>> /\ leaf.test = f
  BY DEF Leaf
<1>2. leaf.path \in Seq(ToSet(leaf.path))
  BY <1>1, EmptySeq
<1> HIDE DEF leaf
<1>3. <<leaf>> \in Seq(ToSet(<<leaf>>)) /\ ToSet(<<leaf>>) = {leaf}
  BY DEF ToSet
<1>4. Grounded(GroundTree(<<leaf>>, fields, t, now), fields)
  BY <1>1, <1>2, <1>3, TreeGrounds
<1> QED BY <1>4 DEF leaf

\* Nothing, or a predicate that is one operator.
Whole(tree) == tree = <<>> \/ IsCompound(tree)

LEMMA CompoundsWhole ==
    ASSUME NEW fields, NEW tree, Grounded(tree, fields), Compounds(tree)
    PROVE  Whole(tree)
<1>1. DOMAIN tree = 1..Len(tree) /\ Len(tree) \in Nat /\ (Len(tree) = 0 => tree = <<>>)
  BY LenProperties, EmptySeq DEF Grounded
<1>2. tree # <<>> => tree[1] \in ToSet(tree)
  BY <1>1 DEF ToSet
<1> QED BY <1>2 DEF Whole, Compounds, IsCompound

\* The terms of a question become one grounded operator.
LEMMA ConjunctionGrounds ==
    ASSUME NEW fields, NEW terms, NEW n \in Nat, DOMAIN terms = 1..n,
           terms = [k \in 1..n |-> terms[k]], \A k \in 1..n : Grounded(terms[k], fields)
    PROVE  Grounded(Conjunction(terms), fields) /\ Whole(Conjunction(terms))
<1>1. CASE terms = <<>>
  <2>1. Conjunction(terms) = <<>> /\ ToSet(<<>>) = {} /\ <<>> \in Seq({})
    BY <1>1, EmptySeq DEF Conjunction, ToSet
  <2> QED BY <2>1 DEF Grounded, Whole
<1>2. CASE terms # <<>> /\ Len(terms) = 1 /\ IsCompound(terms[1])
  <2>1. 1 \in 1..n
    <3>1. terms \in Seq({terms[k] : k \in 1..n})
      BY SeqDef
    <3> QED BY <1>2, <3>1, LenProperties
  <2>2. Conjunction(terms) = terms[1]
    BY <1>2 DEF Conjunction
  <2> QED BY <1>2, <2>1, <2>2 DEF Whole
<1>3. CASE terms # <<>> /\ ~(Len(terms) = 1 /\ IsCompound(terms[1]))
  <2>1. Conjunction(terms) = Combine("and", terms)
    BY <1>3 DEF Conjunction
  <2>2. Grounded(Combine("and", terms), fields) /\ Compounds(Combine("and", terms))
    BY CombineGrounds
  <2> QED BY <2>1, <2>2, CompoundsWhole
<1> QED BY <1>1, <1>2, <1>3

\* And so do they with the conditions of business terms.
LEMMA ConditionsGround ==
    ASSUME NEW fields, NEW original, Grounded(original, fields), Whole(original),
           NEW extra, NEW n \in Nat, DOMAIN extra = 1..n,
           extra = [k \in 1..n |-> extra[k]], \A k \in 1..n : Grounded(extra[k], fields)
    PROVE  LET out == WithConditions(original, extra) IN Grounded(out, fields) /\ Whole(out)
<1> DEFINE first == IF original = <<>> THEN <<>> ELSE <<original>>
           terms == first \o extra
           T == {original} \cup {extra[k] : k \in 1..n}
<1>1. extra \in Seq(T) /\ Len(extra) = n
  <2>1. \A k \in 1..n : extra[k] \in T
    OBVIOUS
  <2> HIDE DEF T
  <2>2. extra \in [1..n -> T]
    BY <2>1
  <2> QED BY <2>2, SeqDef, LenProperties
<1>2. first \in Seq(T)
  <2>1. original \in T
    OBVIOUS
  <2> HIDE DEF T
  <2>2. CASE original = <<>>
    BY <2>2, EmptySeq
  <2>3. CASE original # <<>>
    BY <2>1, <2>3
  <2> QED BY <2>2, <2>3
<1>3. \A x \in T : Grounded(x, fields)
  OBVIOUS
<1> HIDE DEF first, T
<1>4. terms \in Seq(T)
  BY <1>1, <1>2, ConcatProperties
<1> HIDE DEF terms
<1>5. /\ DOMAIN terms = 1..Len(terms) /\ Len(terms) \in Nat
      /\ \A k \in 1..Len(terms) : Grounded(terms[k], fields)
  BY <1>3, <1>4, LenProperties, ElementOfSeq
<1>6. Grounded(Combine("and", terms), fields) /\ Compounds(Combine("and", terms))
  BY <1>5, CombineGrounds
<1>7. Whole(Combine("and", terms))
  BY <1>6, CompoundsWhole
<1>8. WithConditions(original, extra) = IF extra = <<>> THEN original ELSE Combine("and", terms)
  BY DEF WithConditions, terms, first
<1> QED BY <1>6, <1>7, <1>8

-----------------------------------------------------------------------------
(* Grounding what is grounded                                              *)

\* A list of lists of one item each, flattened, is the list of the items.
LEMMA SinglesFlattened ==
    ASSUME NEW seq, seq \in Seq(ToSet(seq))
    PROVE  FlattenSeq([k \in DOMAIN seq |-> <<seq[k]>>]) = seq
<1> DEFINE T == ToSet(seq)
           n == Len(seq)
           singles == [k \in DOMAIN seq |-> <<seq[k]>>]
           Start(k) == [j \in 1..k |-> seq[j]]
<1>1. DOMAIN seq = 1..n /\ n \in Nat /\ seq = [j \in 1..n |-> seq[j]] /\ \A k \in 1..n : seq[k] \in T
  <2>1. DOMAIN seq = 1..n /\ n \in Nat /\ seq \in [1..n -> T]
    BY LenProperties
  <2> QED BY <2>1
<1> HIDE DEF T
<1>2. singles \in Seq(Seq(T)) /\ Len(singles) = n /\ DOMAIN singles = 1..n
      /\ \A k \in 1..n : singles[k] = <<seq[k]>>
  <2>1. \A k \in 1..n : <<seq[k]>> \in Seq(T)
    BY <1>1
  <2>2. singles \in [1..n -> Seq(T)]
    BY <1>1, <2>1
  <2> QED BY <1>1, <2>2, SeqDef, LenProperties
<1> HIDE DEF singles
<1>3. CASE n = 0
  <2>1. seq = <<>> /\ singles = <<>>
    BY <1>2, <1>3, EmptySeq
  <2> QED BY <2>1 DEF FlattenSeq, singles
<1>4. CASE n # 0
  <2>1. PICK f \in [1..n -> Seq(T)] : Joins(f, n, singles) /\ FlattenSeq(singles) = f[n]
    BY <1>1, <1>2, <1>4, Flattened
  <2> DEFINE Wrong == {k \in 1..n : f[k] # Start(k)}
  <2>2. Wrong = {}
    <3> SUFFICES ASSUME Wrong # {} PROVE FALSE
      OBVIOUS
    <3>1. PICK m \in Wrong : \A k \in Wrong : m <= k
      <4>1. Wrong \in SUBSET Nat
        OBVIOUS
      <4> HIDE DEF Wrong
      <4> QED BY <4>1, LeastExists
    <3>2. m \in 1..n /\ f[m] # Start(m)
      OBVIOUS
    <3>3. m # 1 => m - 1 \in 1..n /\ ~(m <= m - 1)
      BY <3>2
    <3>4. m # 1 => f[m - 1] = Start(m - 1)
      BY <3>1, <3>3
    <3>5. CASE m = 1
      <4>1. f[1] = <<seq[1]>>
        BY <1>2, <2>1, <3>2, <3>5 DEF Joins
      <4>2. Start(1) = <<seq[1]>>
        OBVIOUS
      <4> QED BY <3>2, <3>5, <4>1, <4>2
    <3>6. CASE m # 1
      <4>1. f[m] = f[m - 1] \o <<seq[m]>>
        BY <1>2, <2>1, <3>2, <3>6 DEF Joins
      <4>2. f[m] = Start(m - 1) \o <<seq[m]>>
        BY <3>4, <3>6, <4>1
      <4>3. Start(m - 1) \in Seq(T) /\ Len(Start(m - 1)) = m - 1 /\ m - 1 \in Nat
        <5>1. m - 1 \in Nat /\ \A j \in 1..m - 1 : seq[j] \in T
          BY <1>1, <3>2, <3>6
        <5>2. [j \in 1..m - 1 |-> seq[j]] \in [1..m - 1 -> T]
          BY <5>1
        <5> QED BY <5>1, <5>2, SeqDef, LenProperties
      <4>4. \A j \in 1..m - 1 : Start(m - 1)[j] = seq[j]
        OBVIOUS
      <4> DEFINE start == Start(m - 1)
                 both  == start \o <<seq[m]>>
      <4>5. start \in Seq(T) /\ Len(start) = m - 1
        BY <4>3
      <4> HIDE DEF start
      <4>6. Len(both) = m /\ DOMAIN both = 1..m /\ both = [j \in 1..m |-> both[j]]
            /\ \A j \in 1..m : both[j] = IF j <= m - 1 THEN start[j] ELSE seq[m]
        BY <4>3, <4>5
      <4> HIDE DEF both
      <4>7. \A j \in 1..m : both[j] = seq[j]
        <5> TAKE j \in 1..m
        <5>1. CASE j <= m - 1
          <6>1. j \in 1..m - 1
            BY <5>1, <3>2
          <6> QED BY <4>4, <4>6, <5>1, <6>1 DEF start
        <5>2. CASE ~(j <= m - 1)
          <6>1. j = m
            BY <5>2, <3>2
          <6> QED BY <4>6, <5>2, <6>1
        <5> QED BY <5>1, <5>2
      <4>8. both = Start(m)
        BY <4>6, <4>7
      <4> QED BY <3>2, <4>2, <4>8 DEF both, start
    <3> QED BY <3>5, <3>6
  <2>3. n \in 1..n
    BY <1>1, <1>4
  <2>4. f[n] = Start(n)
    BY <2>2, <2>3
  <2> QED BY <1>1, <2>1, <2>4 DEF singles
<1> QED BY <1>1, <1>3, <1>4

\* A grounded predicate grounds to itself, at any time.
LEMMA GroundedFixed ==
    ASSUME NEW fields, NEW tree, Grounded(tree, fields), NEW now
    PROVE  GroundTree(tree, fields, {}, now) = tree
<1>1. ASSUME NEW leaf \in ToSet(tree) PROVE GroundLeaf(leaf, fields, {}, now) = <<leaf>>
  <2>1. GroundedLeaf(leaf, fields)
    BY DEF Grounded
  <2>2. Resolve(leaf.test.field, fields, {}) = leaf.test.field
    BY <2>1, KeySettled DEF GroundedLeaf
  <2> DEFINE test == [leaf.test EXCEPT !.field = leaf.test.field]
             same == [leaf EXCEPT !.test = test]
  <2>3. test = leaf.test
    BY <2>1 DEF GroundedLeaf
  <2>4. same = leaf
    <3> HIDE DEF test
    <3> QED BY <2>1, <2>3 DEF GroundedLeaf
  <2>5. [leaf EXCEPT !.test.field = leaf.test.field] = leaf
    BY <2>4
  <2> QED BY <2>1, <2>2, <2>5 DEF GroundLeaf, GroundedLeaf
<1>2. [k \in DOMAIN tree |-> GroundLeaf(tree[k], fields, {}, now)] = [k \in DOMAIN tree |-> <<tree[k]>>]
  BY <1>1 DEF ToSet
<1>3. FlattenSeq([k \in DOMAIN tree |-> <<tree[k]>>]) = tree
  BY SinglesFlattened DEF Grounded
<1> QED BY <1>2, <1>3 DEF GroundTree

\* The business conditions collected are conditions of business terms.
LEMMA ConditionsKnown ==
    ASSUME NEW i, NEW s, NEW t, IsFiniteSet(t)
    PROVE  Conditions(i, s, t) \subseteq {c.condition : c \in t}
<1> DEFINE D        == {c.condition : c \in t}
           first    == ConditionsOf(ResolvedNames(i, s), t)
           More(S)  == ConditionsOf({c.field : c \in S}, t)
           N        == Cardinality(t)
           Builds(g, m) == \A n \in 0..m : g[n] = IF n = 0 THEN first ELSE g[n - 1] \cup More(g[n - 1])
           Wrong    == {m \in 0..N : ~ \E g \in [0..m -> SUBSET D] : Builds(g, m)}
<1>1. N \in Nat
  BY FS_CardinalityType
<1>2. first \in SUBSET D /\ \A S : More(S) \in SUBSET D
  BY DEF ConditionsOf, Concepts
<1> HIDE DEF first, More, D
<1>3. Wrong = {}
  <2> SUFFICES ASSUME Wrong # {} PROVE FALSE
    OBVIOUS
  <2>1. PICK m \in Wrong : \A k \in Wrong : m <= k
    <3>1. Wrong \in SUBSET Nat
      BY <1>1
    <3> HIDE DEF Wrong
    <3> QED BY <3>1, LeastExists
  <2>2. m \in 0..N /\ ~ \E g \in [0..m -> SUBSET D] : Builds(g, m)
    OBVIOUS
  <2>3. CASE m = 0
    <3> DEFINE g == [n \in 0..0 |-> first]
    <3>1. g \in [0..0 -> SUBSET D] /\ Builds(g, 0)
      BY <1>2
    <3> QED BY <2>2, <2>3, <3>1
  <2>4. CASE m # 0
    <3>1. m - 1 \in 0..N /\ ~(m <= m - 1)
      BY <1>1, <2>2, <2>4
    <3>2. m - 1 \notin Wrong
      <4> HIDE DEF Wrong
      <4> QED BY <2>1, <3>1
    <3>3. PICK f \in [0..m - 1 -> SUBSET D] : Builds(f, m - 1)
      BY <3>1, <3>2
    <3> DEFINE last == f[m - 1] \cup More(f[m - 1])
               g    == [n \in 0..m |-> IF n = m THEN last ELSE f[n]]
    <3>4. \A n \in 0..m : n # m => n \in 0..m - 1
      BY <2>2
    <3>5. last \in SUBSET D
      <4>1. m - 1 \in 0..m - 1
        BY <3>1
      <4>2. f[m - 1] \in SUBSET D
        BY <4>1
      <4> QED BY <1>2, <4>2
    <3>6. g \in [0..m -> SUBSET D]
      <4> HIDE DEF last
      <4> QED BY <3>4, <3>5
    <3>7. Builds(g, m)
      <4> SUFFICES ASSUME NEW n \in 0..m
                   PROVE  g[n] = IF n = 0 THEN first ELSE g[n - 1] \cup More(g[n - 1])
        OBVIOUS
      <4>1. n # 0 => n - 1 \in 0..m /\ n - 1 # m /\ g[n - 1] = f[n - 1]
        BY <2>2
      <4>2. CASE n = m
        BY <2>4, <4>1, <4>2
      <4>3. CASE n # m
        <5>1. n \in 0..m - 1 /\ g[n] = f[n]
          BY <3>4, <4>3
        <5> QED BY <3>3, <4>1, <5>1
      <4> QED BY <4>2, <4>3
    <3> HIDE DEF g
    <3> QED BY <2>2, <3>6, <3>7
  <2> QED BY <2>3, <2>4
<1>4. PICK g \in [0..N -> SUBSET D] : Builds(g, N)
  <2>1. N \in 0..N
    BY <1>1
  <2> QED BY <1>3, <2>1
<1> DEFINE Closes(f) == f = [n \in 0..N |-> IF n = 0 THEN first ELSE f[n - 1] \cup More(f[n - 1])]
           h == CHOOSE f : Closes(f)
<1>5. Closes(g)
  BY <1>4
<1>6. Closes(h)
  BY <1>5
<1>7. Conditions(i, s, t) = h[N]
  BY DEF Conditions, first, More
<1>8. \A n \in 0..N : h[n] = g[n]
  <2> DEFINE Apart == {n \in 0..N : h[n] # g[n]}
  <2> SUFFICES ASSUME Apart # {} PROVE FALSE
    OBVIOUS
  <2>1. PICK m \in Apart : \A k \in Apart : m <= k
    <3>1. Apart \in SUBSET Nat
      BY <1>1
    <3> HIDE DEF Apart
    <3> QED BY <3>1, LeastExists
  <2>2. m \in 0..N /\ h[m] # g[m]
    OBVIOUS
  <2>3. m # 0 => m - 1 \in 0..N /\ ~(m <= m - 1)
    BY <1>1, <2>2
  <2>4. m # 0 => h[m - 1] = g[m - 1]
    BY <2>1, <2>3
  <2>5. /\ h[m] = IF m = 0 THEN first ELSE h[m - 1] \cup More(h[m - 1])
        /\ g[m] = IF m = 0 THEN first ELSE g[m - 1] \cup More(g[m - 1])
    <3> HIDE DEF h, Apart
    <3> QED BY <1>5, <1>6, <2>2
  <2> HIDE DEF h
  <2> QED BY <2>2, <2>4, <2>5
<1>9. N \in 0..N
  BY <1>1
<1> QED BY <1>4, <1>7, <1>8, <1>9 DEF D

LEMMA ConditionsFinite ==
    ASSUME NEW i, NEW s, NEW t, IsFiniteSet(t)
    PROVE  IsFiniteSet(Conditions(i, s, t)) /\ SetToSeq(Conditions(i, s, {})) = <<>>
<1> DEFINE f == [c \in t |-> c.condition]
<1>1. {c.condition : c \in t} = {f[c] : c \in t}
  OBVIOUS
<1>2. IsFiniteSet({f[c] : c \in t})
  <2> HIDE DEF f
  <2> QED BY ImageFinite
<1>3. IsFiniteSet(Conditions(i, s, t))
  BY <1>1, <1>2, ConditionsKnown, FS_Subset
<1>4. Conditions(i, s, {}) = {}
  <2>1. IsFiniteSet({})
    BY FS_EmptySet
  <2>2. Conditions(i, s, {}) \subseteq {c.condition : c \in {}}
    BY <2>1, ConditionsKnown
  <2> QED BY <2>2
<1>5. SetToSeq({}) = <<>>
  <2>1. IsFiniteSet({}) /\ Cardinality({}) = 0
    BY FS_EmptySet
  <2>2. SetToSeq({}) \in [1..0 -> {}]
    BY <2>1, Enumerated
  <2>3. Len(SetToSeq({})) = 0 /\ SetToSeq({}) \in Seq({})
    BY <2>2, SeqDef, LenProperties
  <2> QED BY <2>3, EmptySeq
<1> QED BY <1>3, <1>4, <1>5

\* What an accepted intent has for a predicate is grounded.
LEMMA PredicateGrounds ==
    ASSUME NEW i, WellFormed(i), NEW s, WellNamed(i, s), NEW t, WellFormedCatalog(t), NEW now,
           GroundingError(i, s, t) = "none"
    PROVE  LET P == GroundedPredicate(i, s, t, now)
           IN  Grounded(P, FieldTable(i, s)) /\ Whole(P)
<1> DEFINE fields   == FieldTable(i, s)
           Check(k) == GroundingCheck(k, i, s, fields, t)
           conditions == SetToSeq(Conditions(i, s, t))
<1>0. /\ i.filters \in Seq(ToSet(i.filters)) /\ i.predicate \in Seq(ToSet(i.predicate))
      /\ \A f \in ToSet(i.filters) : FilterFields \subseteq DOMAIN f
      /\ \A leaf \in ToSet(i.predicate) :
            /\ {"path", "test"} \subseteq DOMAIN leaf /\ leaf.path \in Seq(ToSet(leaf.path))
            /\ FilterFields \subseteq DOMAIN leaf.test
  BY DEF WellFormed, Lists, Fielded
<1>1. IsFiniteSet(DOMAIN fields)
  BY KeysFinite
<1>2. Check(6) = "none" /\ Check(7) = "none" /\ Check(15) = "none"
  BY ChecksPassed
<1>3. /\ conditions \in Seq(Conditions(i, s, t)) /\ Len(conditions) \in Nat
      /\ \A f \in Conditions(i, s, t) : FilterFields \subseteq DOMAIN f
  <2>1. IsFiniteSet(t) /\ IsFiniteSet(Conditions(i, s, t))
    BY ConditionsFinite DEF WellFormedCatalog
  <2>2. conditions \in Seq(Conditions(i, s, t))
    BY <2>1, Enumerated, SeqDef
  <2>3. \A f \in Conditions(i, s, t) : FilterFields \subseteq DOMAIN f
    BY <2>1, ConditionsKnown DEF WellFormedCatalog
  <2> QED BY <2>2, <2>3, LenProperties
<1> HIDE DEF fields, Check
<1>4. \A f \in ToSet(i.filters) : FilterError(f, fields, t) = "none"
  <2> DEFINE error == [f \in ToSet(i.filters) |-> FilterError(f, fields, t)]
  <2>1. FirstError([k \in DOMAIN i.filters |-> FilterError(i.filters[k], fields, t)]) = "none"
    BY <1>2 DEF Check, GroundingCheck, Each
  <2>2. [k \in DOMAIN i.filters |-> error[i.filters[k]]]
        = [k \in DOMAIN i.filters |-> FilterError(i.filters[k], fields, t)]
    BY DEF ToSet
  <2>3. FirstError([k \in DOMAIN i.filters |-> error[i.filters[k]]]) = "none"
    BY <2>1, <2>2, Zenon
  <2>4. \A f \in ToSet(i.filters) : error[f] = "none"
    <3> HIDE DEF error
    <3> QED BY <1>0, <2>3, EachFine
  <2> QED BY <2>4
<1>5. \A leaf \in ToSet(i.predicate) : FilterError(leaf.test, fields, t) = "none"
  <2> DEFINE error == [leaf \in ToSet(i.predicate) |->
                          IF Len(leaf.path) > MaxDepth THEN "PolicyViolation"
                          ELSE FilterError(leaf.test, fields, t)]
  <2>1. FirstError([k \in DOMAIN i.predicate |->
                       IF Len(i.predicate[k].path) > MaxDepth THEN "PolicyViolation"
                       ELSE FilterError(i.predicate[k].test, fields, t)]) = "none"
    BY <1>2 DEF Check, GroundingCheck, Each, PredicateError
  <2>2. [k \in DOMAIN i.predicate |-> error[i.predicate[k]]]
        = [k \in DOMAIN i.predicate |->
              IF Len(i.predicate[k].path) > MaxDepth THEN "PolicyViolation"
              ELSE FilterError(i.predicate[k].test, fields, t)]
    BY DEF ToSet
  <2>3. FirstError([k \in DOMAIN i.predicate |-> error[i.predicate[k]]]) = "none"
    BY <2>1, <2>2, Zenon
  <2>4. \A leaf \in ToSet(i.predicate) : error[leaf] = "none"
    <3> HIDE DEF error
    <3> QED BY <1>0, <2>3, EachFine
  <2> QED BY <2>4
<1>6. \A f \in ToSet(conditions) : FilterError(f, fields, t) = "none"
  <2> DEFINE error == [f \in ToSet(conditions) |-> FilterError(f, fields, t)]
  <2>1. FirstError([k \in DOMAIN conditions |-> FilterError(conditions[k], fields, t)]) = "none"
    BY <1>2 DEF Check, GroundingCheck, Each
  <2> HIDE DEF conditions
  <2>2. [k \in DOMAIN conditions |-> error[conditions[k]]]
        = [k \in DOMAIN conditions |-> FilterError(conditions[k], fields, t)]
    BY DEF ToSet
  <2>3. FirstError([k \in DOMAIN conditions |-> error[conditions[k]]]) = "none"
    BY <2>1, <2>2, Zenon
  <2>4. \A f \in ToSet(conditions) : error[f] = "none"
    <3> HIDE DEF error
    <3> QED BY <1>3, <2>3, EachFine
  <2> QED BY <2>4
<1> DEFINE tests == [k \in DOMAIN i.filters |-> GroundTree(<<Leaf(i.filters[k])>>, fields, t, now)]
           whole == GroundTree(i.predicate, fields, t, now)
           extra == [k \in DOMAIN conditions |-> GroundTree(<<Leaf(conditions[k])>>, fields, t, now)]
           G     == {tests[k] : k \in 1..Len(i.filters)} \cup {whole}
           terms == GroundedTerms(i, fields, t, now)
           last  == IF i.predicate = <<>> THEN <<>> ELSE <<whole>>
<1>7. DOMAIN i.filters = 1..Len(i.filters) /\ Len(i.filters) \in Nat
  BY <1>0, LenProperties
<1>8. \A k \in 1..Len(i.filters) : Grounded(tests[k], fields)
  <2> TAKE k \in 1..Len(i.filters)
  <2>1. i.filters[k] \in ToSet(i.filters)
    BY <1>7 DEF ToSet
  <2>2. Grounded(GroundTree(<<Leaf(i.filters[k])>>, fields, t, now), fields)
    BY <1>0, <1>1, <1>4, <2>1, FilterGrounds
  <2> QED BY <1>7, <2>2
<1>9. Grounded(whole, fields)
  BY <1>0, <1>1, <1>5, TreeGrounds
<1>10. DOMAIN tests = 1..Len(i.filters) /\ tests = [k \in 1..Len(i.filters) |-> tests[k]]
  BY <1>7
<1>11. terms = tests \o last
  BY DEF GroundedTerms
<1> HIDE DEF tests, whole, terms, conditions
<1>12. \A x \in G : Grounded(x, fields)
  BY <1>8, <1>9
<1>13. terms \in Seq(G)
  <2>1. \A k \in 1..Len(i.filters) : tests[k] \in G
    OBVIOUS
  <2>2. whole \in G
    OBVIOUS
  <2> HIDE DEF G
  <2>3. tests \in Seq(G)
    <3>1. tests \in [1..Len(i.filters) -> G]
      BY <1>10, <2>1
    <3> QED BY <1>7, <3>1, SeqDef
  <2>4. last \in Seq(G)
    <3>1. CASE i.predicate = <<>>
      BY <3>1, EmptySeq
    <3>2. CASE i.predicate # <<>>
      BY <2>2, <3>2
    <3> QED BY <3>1, <3>2
  <2> HIDE DEF last
  <2> QED BY <1>11, <2>3, <2>4, ConcatProperties
<1> HIDE DEF G, last
<1>14. /\ DOMAIN terms = 1..Len(terms) /\ Len(terms) \in Nat
       /\ terms = [k \in 1..Len(terms) |-> terms[k]]
       /\ \A k \in 1..Len(terms) : Grounded(terms[k], fields)
  <2>1. DOMAIN terms = 1..Len(terms) /\ Len(terms) \in Nat /\ terms \in [1..Len(terms) -> G]
    BY <1>13, LenProperties
  <2> QED BY <1>12, <2>1
<1>15. Grounded(Conjunction(terms), fields) /\ Whole(Conjunction(terms))
  BY <1>14, ConjunctionGrounds
<1>16. DOMAIN conditions = 1..Len(conditions)
  BY <1>3, LenProperties
<1>17. \A k \in 1..Len(conditions) : Grounded(extra[k], fields)
  <2> TAKE k \in 1..Len(conditions)
  <2>1. conditions[k] \in ToSet(conditions) /\ FilterFields \subseteq DOMAIN conditions[k]
    BY <1>3, <1>16, ElementOfSeq DEF ToSet
  <2>2. Grounded(GroundTree(<<Leaf(conditions[k])>>, fields, t, now), fields)
    BY <1>1, <1>6, <2>1, FilterGrounds
  <2> QED BY <1>16, <2>2
<1>18. DOMAIN extra = 1..Len(conditions) /\ extra = [k \in 1..Len(conditions) |-> extra[k]]
  BY <1>16
<1>19. GroundedPredicate(i, s, t, now) = WithConditions(Conjunction(terms), extra)
  BY DEF GroundedPredicate, terms, conditions, fields
<1> HIDE DEF extra
<1>20. LET out == WithConditions(Conjunction(terms), extra) IN Grounded(out, fields) /\ Whole(out)
  BY <1>3, <1>15, <1>17, <1>18, ConditionsGround
<1> QED BY <1>19, <1>20 DEF fields

-----------------------------------------------------------------------------
(* Accepting what is grounded                                              *)

\* Nothing is wrong with a list none of whose items is wrong.
LEMMA NoneWrong ==
    ASSUME NEW n \in Nat, NEW outcomes, DOMAIN outcomes = 1..n,
           outcomes = [k \in 1..n |-> outcomes[k]], \A k \in 1..n : outcomes[k] = "none"
    PROVE  FirstError(outcomes) = "none"
<1>1. Len(outcomes) = n
  BY SMT
<1> QED BY <1>1, NoFirstError

\* A walk whose steps are fine has no error.
LEMMA EdgesFine ==
    ASSUME NEW i, NEW s, NEW T, EdgesWalked(i) \in Seq(T),
           \A k \in 1..Len(EdgesWalked(i)) :
              /\ EdgesWalked(i)[k] \in EdgeNames(s)
              /\ Ends(s, EdgesWalked(i)[k]) \cap Involved(i, s, k) # {}
              /\ Ends(s, EdgesWalked(i)[k]) \subseteq ToSet(i.sources),
           Involved(i, s, Len(EdgesWalked(i)) + 1) = ToSet(i.sources)
    PROVE  EdgeError(i, s) = "none"
<1> DEFINE walked == EdgesWalked(i)
           n      == Len(walked)
           first  == SelectInSeq(walked, LAMBDA rel : rel \notin EdgeNames(s))
           errors == [k \in 1..n |-> EdgeErrorAt(i, s, k)]
<1>1. n \in Nat
  BY LenProperties
<1>2. first = 0
  <2>1. {k \in 1..n : walked[k] \notin EdgeNames(s)} = {}
    OBVIOUS
  <2> HIDE DEF walked
  <2> QED BY <2>1 DEF SelectInSeq
<1>3. \A k \in 1..n : EdgeErrorAt(i, s, k) = "none"
  BY DEF EdgeErrorAt, Refuse
<1>4. FirstError(errors) = "none"
  <2>1. DOMAIN errors = 1..n /\ errors = [k \in 1..n |-> errors[k]]
        /\ \A k \in 1..n : errors[k] = "none"
    BY <1>3
  <2> HIDE DEF errors
  <2> QED BY <1>1, <2>1, NoneWrong
<1> QED BY <1>2, <1>4 DEF EdgeError, Refuse

\* What grounding makes of a question, part by part and item by item.
Changed == {"projections", "dimensions", "metrics", "filters", "predicate", "sort", "unwind",
            "calculations", "window"}

GroundItem(x, fields, t)   == [x EXCEPT !.field = Resolve(x.field, fields, t)]
GroundMetric(x, fields, t) == IF IsCountAll(x) THEN x ELSE GroundItem(x, fields, t)
GroundSort(x, aliases, fields, t) ==
    [x EXCEPT !.field = IF x.field \in aliases THEN x.field ELSE Resolve(x.field, fields, t)]
GroundCalculation(x, fields, t) ==
    [x EXCEPT !.left = Resolve(x.left, fields, t), !.right = Resolve(x.right, fields, t)]

GroundedFrom(ir, i, fields, t, predicate) ==
    /\ DOMAIN ir = DOMAIN i /\ ir = [x \in DOMAIN ir |-> ir[x]]
    /\ \A x \in DOMAIN i \ Changed : ir[x] = i[x]
    /\ ir.projections = [k \in DOMAIN i.projections |-> GroundItem(i.projections[k], fields, t)]
    /\ ir.dimensions = [k \in DOMAIN i.dimensions |-> Resolve(i.dimensions[k], fields, t)]
    /\ ir.metrics = [k \in DOMAIN i.metrics |-> GroundMetric(i.metrics[k], fields, t)]
    /\ ir.filters = <<>>
    /\ ir.predicate = predicate
    /\ ir.sort = [k \in DOMAIN i.sort |-> GroundSort(i.sort[k], ToSet(Aliases(i)), fields, t)]
    /\ ir.unwind = [k \in DOMAIN i.unwind |-> Resolve(i.unwind[k], fields, t)]
    /\ ir.calculations = [k \in DOMAIN i.calculations |->
                             GroundCalculation(i.calculations[k], fields, t)]
    /\ ir.window = IF HasWindow(i) THEN GroundItem(i.window, fields, t) ELSE i.window

LEMMA GroundParts ==
    ASSUME NEW i, WellFormed(i), NEW s, NEW t, NEW now
    PROVE  GroundedFrom(Ground(i, s, t, now), i, FieldTable(i, s), t, GroundedPredicate(i, s, t, now))
<1>1. Changed \subseteq DOMAIN i
  BY DEF Changed, WellFormed, Lists, Settings
<1> QED BY <1>1 DEF Ground, Respelled, Changed, GroundedFrom, GroundItem, GroundMetric, GroundSort,
                    GroundCalculation

\* The fields there are depend on the sources alone.
LEMMA SameTable ==
    ASSUME NEW i, NEW j, NEW s, i.sources = j.sources
    PROVE  FieldTable(i, s) = FieldTable(j, s)
<1> DEFINE Of(names, key) == {k \in DOMAIN names :
                                \E f \in Source(s, names[k]).fields : names[k] \o f.name = key}
           Table(names) ==
               LET keys == UNION {{names[k] \o f.name : f \in Source(s, names[k]).fields} :
                                  k \in DOMAIN names}
                   TypeOf(key) ==
                       LET k == CHOOSE k \in Of(names, key) : \A m \in Of(names, key) : m <= k
                       IN  (CHOOSE f \in Source(s, names[k]).fields : names[k] \o f.name = key).type
               IN  [key \in keys |-> TypeOf(key)]
<1>1. FieldTable(i, s) = Table(i.sources)
  BY DEF FieldTable, Owners
<1>2. FieldTable(j, s) = Table(j.sources)
  BY DEF FieldTable, Owners
<1> HIDE DEF Table
<1> QED BY <1>1, <1>2

\* Grounding keeps every alias.
LEMMA AliasesKept ==
    ASSUME NEW i, WellFormed(i), NEW ir, NEW fields, NEW t, NEW predicate,
           GroundedFrom(ir, i, fields, t, predicate)
    PROVE  Aliases(ir) = Aliases(i)
<1> DEFINE Named(items) == [k \in DOMAIN items |-> items[k].alias]
           All(metrics, calculations, projections, alias) ==
               metrics \o calculations \o Present(projections) \o Present(<<alias>>)
<1>1. /\ \A k \in DOMAIN i.projections : "alias" \in DOMAIN i.projections[k]
      /\ \A k \in DOMAIN i.metrics : "alias" \in DOMAIN i.metrics[k]
      /\ \A k \in DOMAIN i.calculations : "alias" \in DOMAIN i.calculations[k]
      /\ "alias" \in DOMAIN i.window
  BY DEF WellFormed, Fielded, ToSet
<1>2. /\ DOMAIN ir.projections = DOMAIN i.projections
      /\ \A k \in DOMAIN i.projections : ir.projections[k] = GroundItem(i.projections[k], fields, t)
  BY DEF GroundedFrom
<1>3. /\ DOMAIN ir.metrics = DOMAIN i.metrics
      /\ \A k \in DOMAIN i.metrics : ir.metrics[k] = GroundMetric(i.metrics[k], fields, t)
  BY DEF GroundedFrom
<1>4. /\ DOMAIN ir.calculations = DOMAIN i.calculations
      /\ \A k \in DOMAIN i.calculations :
            ir.calculations[k] = GroundCalculation(i.calculations[k], fields, t)
  BY DEF GroundedFrom
<1>5. /\ \A x : "alias" \in DOMAIN x => GroundItem(x, fields, t).alias = x.alias
      /\ \A x : "alias" \in DOMAIN x => GroundMetric(x, fields, t).alias = x.alias
      /\ \A x : "alias" \in DOMAIN x => GroundCalculation(x, fields, t).alias = x.alias
  BY DEF GroundItem, GroundMetric, GroundCalculation
<1>6. Named(ir.projections) = Named(i.projections)
  BY <1>1, <1>2, <1>5
<1>7. Named(ir.metrics) = Named(i.metrics)
  BY <1>1, <1>3, <1>5
<1>8. Named(ir.calculations) = Named(i.calculations)
  BY <1>1, <1>4, <1>5
<1>9. ir.window.alias = i.window.alias
  BY <1>1, <1>5 DEF GroundedFrom
<1>10. /\ Aliases(i) = All(Named(i.metrics), Named(i.calculations), Named(i.projections), i.window.alias)
       /\ Aliases(ir) = All(Named(ir.metrics), Named(ir.calculations), Named(ir.projections), ir.window.alias)
  BY DEF Aliases
<1> HIDE DEF Named, All
<1> QED BY <1>6, <1>7, <1>8, <1>9, <1>10

\* A function on 1..n is a list of its own items.
LEMMA ListMade ==
    ASSUME NEW n \in Nat, NEW seq, DOMAIN seq = 1..n, seq = [k \in 1..n |-> seq[k]]
    PROVE  seq \in Seq(ToSet(seq))
<1>1. \A k \in 1..n : seq[k] \in ToSet(seq)
  BY DEF ToSet
<1>2. seq \in [1..n -> ToSet(seq)]
  BY <1>1
<1> QED BY <1>2, SeqDef

\* A question whose names are all fields' own, of types that will do.
KeyedItem(x, fields) ==
    x = [y \in DOMAIN x |-> x[y]] /\ "field" \in DOMAIN x /\ x.field \in DOMAIN fields

GroundedIR(ir, fields) ==
    /\ ir = [x \in DOMAIN ir |-> ir[x]] /\ Lists \cup Settings \subseteq DOMAIN ir
    /\ \A list \in Lists : ir[list] \in Seq(ToSet(ir[list]))
    /\ ir.filters = <<>> /\ Grounded(ir.predicate, fields) /\ Whole(ir.predicate)
    /\ \A x \in ToSet(ir.projections) : KeyedItem(x, fields)
    /\ \A n \in ToSet(ir.dimensions) : n \in DOMAIN fields
    /\ \A x \in ToSet(ir.metrics) :
          \/ IsCountAll(x)
          \/ /\ KeyedItem(x, fields)
             /\ x.agg \in {"sum", "avg"} => fields[x.field] \in NumericTypes
    /\ \A x \in ToSet(ir.sort) :
          /\ x = [y \in DOMAIN x |-> x[y]] /\ "field" \in DOMAIN x
          /\ x.field \in DOMAIN fields \cup ToSet(Aliases(ir))
    /\ \A n \in ToSet(ir.unwind) : n \in DOMAIN fields /\ fields[n] \in {"array"}
    /\ \A x \in ToSet(ir.calculations) :
          /\ x = [y \in DOMAIN x |-> x[y]] /\ {"left", "right"} \subseteq DOMAIN x
          /\ \A n \in ToSet(Operands(x)) : n \in DOMAIN fields /\ fields[n] \in NumericTypes
    /\ HasWindow(ir) => /\ KeyedItem(ir.window, fields)
                        /\ fields[ir.window.field] \in {"datetime", "unknown"}

\* What the planner asks of aliases, groups and calculations.
Orderly(ir) ==
    LET aliases == ToSet(Aliases(ir))
    IN  /\ IsInjective(Aliases(ir)) /\ \A a \in aliases : ~(Len(a) > 1)
        /\ IsAggregate(ir) => /\ \A x \in ToSet(ir.projections) : x.field \in ToSet(ir.dimensions)
                              /\ \A x \in ToSet(ir.sort) : x.field \in ToSet(ir.dimensions) \cup aliases
        /\ ir.calculations # <<>> => ~IsAggregate(ir) /\ ir.dimensions = <<>>

\* The lists of a grounded question are as long as those of the question.
LEMMA ListsKept ==
    ASSUME NEW i, WellFormed(i), NEW ir, NEW fields, NEW t, NEW predicate,
           GroundedFrom(ir, i, fields, t, predicate), predicate \in Seq(ToSet(predicate))
    PROVE  /\ \A list \in Lists : ir[list] \in Seq(ToSet(ir[list]))
           /\ \A list \in Lists \ {"filters", "predicate"} :
                 DOMAIN ir[list] = DOMAIN i[list] /\ (ir[list] = <<>> <=> i[list] = <<>>)
           /\ \A list \in Lists \ {"filters", "predicate"} : Len(ir[list]) = Len(i[list])
<1>1. \A list \in Lists : /\ DOMAIN i[list] = 1..Len(i[list]) /\ Len(i[list]) \in Nat
                          /\ i[list] \in Seq(ToSet(i[list]))
  BY LenProperties DEF WellFormed
<1>2. \A list \in Lists \ Changed : ir[list] = i[list]
  BY DEF GroundedFrom, WellFormed
<1>3. \A list \in (Lists \cap Changed) \ {"filters", "predicate"} :
          DOMAIN ir[list] = DOMAIN i[list] /\ ir[list] = [k \in DOMAIN i[list] |-> ir[list][k]]
  BY DEF GroundedFrom, Lists, Changed
<1>4. ir.filters = <<>> /\ ir.predicate = predicate
  BY DEF GroundedFrom
<1>5. \A list \in Lists \ {"filters", "predicate"} : ir[list] \in Seq(ToSet(ir[list]))
  <2> TAKE list \in Lists \ {"filters", "predicate"}
  <2>1. CASE list \in Changed
    <3> DEFINE made == ir[list]
    <3>1. DOMAIN made = 1..Len(i[list]) /\ made = [k \in 1..Len(i[list]) |-> made[k]]
      BY <1>1, <1>3, <2>1
    <3> HIDE DEF made
    <3>2. made \in Seq(ToSet(made))
      BY <1>1, <3>1, ListMade
    <3> QED BY <3>2 DEF made
  <2>2. CASE list \notin Changed
    BY <1>1, <1>2, <2>2
  <2> QED BY <2>1, <2>2
<1>6. <<>> \in Seq(ToSet(<<>>))
  BY EmptySeq
<1>7. \A list \in Lists \ {"filters", "predicate"} : DOMAIN ir[list] = DOMAIN i[list]
  BY <1>2, <1>3
<1>8. \A list \in Lists \ {"filters", "predicate"} :
          Len(ir[list]) = Len(i[list]) /\ (ir[list] = <<>> <=> i[list] = <<>>)
  <2> TAKE list \in Lists \ {"filters", "predicate"}
  <2>1. /\ DOMAIN ir[list] = 1..Len(ir[list]) /\ Len(ir[list]) \in Nat
        /\ DOMAIN i[list] = 1..Len(i[list]) /\ Len(i[list]) \in Nat
    BY <1>1, <1>5, LenProperties
  <2>2. Len(ir[list]) = Len(i[list])
    BY <1>7, <2>1
  <2>3. (ir[list] = <<>> <=> Len(ir[list]) = 0) /\ (i[list] = <<>> <=> Len(i[list]) = 0)
    BY <1>1, <1>5, EmptySeq
  <2> QED BY <2>2, <2>3
<1>9. \A list \in Lists : ir[list] \in Seq(ToSet(ir[list]))
  BY <1>4, <1>5, <1>6
<1> QED BY <1>7, <1>8, <1>9

\* What the planner has looked at, of a question it accepts.
LEMMA TypesAccepted ==
    ASSUME NEW i, WellFormed(i), NEW s, NEW t, GroundingError(i, s, t) = "none"
    PROVE  LET fields   == FieldTable(i, s)
               R(n)     == Resolve(n, fields, t)
               aliases  == ToSet(Aliases(i))
               groups   == {R(n) : n \in ToSet(i.dimensions)}
           IN  /\ IsInjective(Aliases(i)) /\ \A a \in aliases : ~(Len(a) > 1)
               /\ \A x \in ToSet(i.metrics) :
                     ~IsCountAll(x) /\ x.agg \in {"sum", "avg"} => fields[R(x.field)] \in NumericTypes
               /\ IsAggregate(i) =>
                     /\ \A x \in ToSet(i.projections) : R(x.field) \in groups
                     /\ \A x \in ToSet(i.sort) : x.field \in aliases \/ R(x.field) \in groups \cup aliases
               /\ \A n \in ToSet(i.unwind) : fields[R(n)] \in {"array"}
               /\ \A x \in ToSet(i.calculations) : \A n \in ToSet(Operands(x)) : fields[R(n)] \in NumericTypes
               /\ i.calculations # <<>> => ~IsAggregate(i) /\ i.dimensions = <<>>
               /\ HasWindow(i) => fields[R(i.window.field)] \in {"datetime", "unknown"}
<1> DEFINE fields   == FieldTable(i, s)
           R(n)     == Resolve(n, fields, t)
           aliases  == ToSet(Aliases(i))
           groups   == {R(n) : n \in ToSet(i.dimensions)}
           Check(k) == GroundingCheck(k, i, s, fields, t)
<1>1. \A k \in 1..16 : Check(k) = "none"
  BY ChecksPassed
<1> HIDE DEF fields, Check
<1>2. IsInjective(Aliases(i)) /\ \A a \in aliases : ~(Len(a) > 1)
  <2>1. Check(1) = "none"
    BY <1>1
  <2> QED BY <2>1 DEF Check, GroundingCheck, Each, Refuse
<1>3. ASSUME NEW x \in ToSet(i.metrics), ~IsCountAll(x), x.agg \in {"sum", "avg"}
      PROVE  fields[R(x.field)] \in NumericTypes
  <2> DEFINE error == [y \in ToSet(i.metrics) |-> MetricError(y, fields, t)]
  <2>1. Check(4) = "none" /\ i.metrics \in Seq(ToSet(i.metrics))
    BY <1>1 DEF WellFormed, Lists
  <2>2. FirstError([k \in DOMAIN i.metrics |-> MetricError(i.metrics[k], fields, t)]) = "none"
    BY <2>1 DEF Check, GroundingCheck, Each
  <2>3. [k \in DOMAIN i.metrics |-> error[i.metrics[k]]]
        = [k \in DOMAIN i.metrics |-> MetricError(i.metrics[k], fields, t)]
    BY DEF ToSet
  <2>4. FirstError([k \in DOMAIN i.metrics |-> error[i.metrics[k]]]) = "none"
    BY <2>2, <2>3, Zenon
  <2>5. error[x] = "none"
    <3> HIDE DEF error
    <3> QED BY <1>3, <2>1, <2>4, EachFine
  <2>6. MetricError(x, fields, t) = "none"
    BY <1>3, <2>5
  <2> QED BY <1>3, <2>6 DEF MetricError, Refuse
<1>4. ASSUME IsAggregate(i)
      PROVE  /\ \A x \in ToSet(i.projections) : R(x.field) \in groups
             /\ \A x \in ToSet(i.sort) : x.field \in aliases \/ R(x.field) \in groups \cup aliases
  <2>1. Check(5) = "none" /\ Check(9) = "none"
    BY <1>1
  <2>2. \A n \in ToSet(FieldsOf(i.projections)) : R(n) \in groups
    BY <1>4, <2>1 DEF Check, GroundingCheck, Each, Refuse
  <2>3. \A n \in ToSet(FieldsOf(i.sort)) \ aliases : R(n) \in groups \cup aliases
    BY <1>4, <2>1 DEF Check, GroundingCheck, Each, Refuse
  <2>4. /\ \A x \in ToSet(i.projections) : x.field \in ToSet(FieldsOf(i.projections))
        /\ \A x \in ToSet(i.sort) : x.field \in ToSet(FieldsOf(i.sort))
    BY DEF ToSet, FieldsOf
  <2> HIDE DEF groups, R, aliases
  <2> QED BY <2>2, <2>3, <2>4
<1>5. \A n \in ToSet(i.unwind) : fields[R(n)] \in {"array"}
  <2>1. Check(10) = "none"
    BY <1>1
  <2> QED BY <2>1 DEF Check, GroundingCheck, Each, OrElse, WrongType, Refuse
<1>6. \A x \in ToSet(i.calculations) : \A n \in ToSet(Operands(x)) : fields[R(n)] \in NumericTypes
  <2>1. Check(11) = "none"
    BY <1>1
  <2>2. WrongType(UNION {ToSet(Operands(x)) : x \in ToSet(i.calculations)}, NumericTypes, fields, t) = "none"
    BY <2>1 DEF Check, GroundingCheck, Each, OrElse
  <2> QED BY <2>2 DEF WrongType, Refuse
<1>7. i.calculations # <<>> => ~IsAggregate(i) /\ i.dimensions = <<>>
  <2>1. Check(12) = "none"
    BY <1>1
  <2> QED BY <2>1 DEF Check, GroundingCheck, Each, Refuse
<1>8. HasWindow(i) => fields[R(i.window.field)] \in {"datetime", "unknown"}
  <2>1. Check(13) = "none"
    BY <1>1
  <2> QED BY <2>1 DEF Check, GroundingCheck, Each, OrElse, WrongType, Refuse
<1> QED BY <1>2, <1>3, <1>4, <1>5, <1>6, <1>7, <1>8 DEF fields

\* An accepted question grounds to one whose names are all fields' own.
LEMMA GroundsFully ==
    ASSUME NEW i, WellFormed(i), NEW s, WellNamed(i, s), NEW t, WellFormedCatalog(t), NEW now,
           GroundingError(i, s, t) = "none"
    PROVE  GroundedIR(Ground(i, s, t, now), FieldTable(i, s)) /\ Orderly(Ground(i, s, t, now))
<1> DEFINE ir        == Ground(i, s, t, now)
           fields    == FieldTable(i, s)
           R(n)      == Resolve(n, fields, t)
           predicate == GroundedPredicate(i, s, t, now)
           aliases   == ToSet(Aliases(i))
<1>1. GroundedFrom(ir, i, fields, t, predicate)
  BY GroundParts
<1>2. Grounded(predicate, fields) /\ Whole(predicate)
  BY PredicateGrounds
<1>3. predicate \in Seq(ToSet(predicate))
  BY <1>2 DEF Grounded
<1>4. IsFiniteSet(DOMAIN fields)
  BY KeysFinite
<1>5. \A n \in ResolvedNames(i, s) : NameError(n, fields, t) = "none"
  BY NamesResolved
<1>6. /\ IsInjective(Aliases(i)) /\ \A a \in aliases : ~(Len(a) > 1)
      /\ \A x \in ToSet(i.metrics) :
            ~IsCountAll(x) /\ x.agg \in {"sum", "avg"} => fields[R(x.field)] \in NumericTypes
      /\ IsAggregate(i) =>
            /\ \A x \in ToSet(i.projections) : R(x.field) \in {R(n) : n \in ToSet(i.dimensions)}
            /\ \A x \in ToSet(i.sort) :
                  x.field \in aliases \/ R(x.field) \in {R(n) : n \in ToSet(i.dimensions)} \cup aliases
      /\ \A n \in ToSet(i.unwind) : fields[R(n)] \in {"array"}
      /\ \A x \in ToSet(i.calculations) : \A n \in ToSet(Operands(x)) : fields[R(n)] \in NumericTypes
      /\ i.calculations # <<>> => ~IsAggregate(i) /\ i.dimensions = <<>>
      /\ HasWindow(i) => fields[R(i.window.field)] \in {"datetime", "unknown"}
  BY TypesAccepted
<1> HIDE DEF ir, fields, predicate
<1>7. /\ \A list \in Lists : ir[list] \in Seq(ToSet(ir[list]))
      /\ \A list \in Lists \ {"filters", "predicate"} :
            DOMAIN ir[list] = DOMAIN i[list] /\ (ir[list] = <<>> <=> i[list] = <<>>)
  BY <1>1, <1>3, ListsKept
<1>8. Aliases(ir) = Aliases(i)
  BY <1>1, AliasesKept
<1>9. \A n \in ResolvedNames(i, s) : R(n) \in DOMAIN fields
  BY <1>4, <1>5, ResolvedKnown
<1>10. /\ \A x \in ToSet(i.projections) : x.field \in ResolvedNames(i, s)
       /\ \A n \in ToSet(i.dimensions) : n \in ResolvedNames(i, s)
       /\ \A x \in ToSet(i.metrics) : ~IsCountAll(x) => x.field \in ResolvedNames(i, s)
       /\ \A x \in ToSet(i.sort) : x.field \notin aliases => x.field \in ResolvedNames(i, s)
       /\ \A n \in ToSet(i.unwind) : n \in ResolvedNames(i, s)
       /\ \A x \in ToSet(i.calculations) : \A n \in ToSet(Operands(x)) : n \in ResolvedNames(i, s)
       /\ HasWindow(i) => i.window.field \in ResolvedNames(i, s)
  BY DEF ResolvedNames, HasWindow
<1> HIDE DEF R, aliases
<1>11. /\ \A x \in ToSet(i.projections) : "field" \in DOMAIN x
       /\ \A x \in ToSet(i.metrics) : "field" \in DOMAIN x /\ "agg" \in DOMAIN x
       /\ \A x \in ToSet(i.sort) : "field" \in DOMAIN x
       /\ \A x \in ToSet(i.calculations) : {"left", "right"} \subseteq DOMAIN x
       /\ "field" \in DOMAIN i.window
  BY DEF WellFormed, Fielded
<1>12. \A x \in ToSet(ir.projections) :
          /\ KeyedItem(x, fields)
          /\ IsAggregate(i) => x.field \in {R(n) : n \in ToSet(i.dimensions)}
  <2> TAKE x \in ToSet(ir.projections)
  <2>1. PICK k \in DOMAIN i.projections : x = GroundItem(i.projections[k], fields, t)
    BY <1>1 DEF GroundedFrom, ToSet
  <2>2. i.projections[k] \in ToSet(i.projections)
    BY DEF ToSet
  <2>3. x = [i.projections[k] EXCEPT !.field = R(i.projections[k].field)]
    BY <2>1 DEF GroundItem, R
  <2>4. x = [y \in DOMAIN x |-> x[y]] /\ "field" \in DOMAIN x /\ x.field = R(i.projections[k].field)
    BY <1>11, <2>2, <2>3
  <2> QED BY <1>6, <1>9, <1>10, <2>2, <2>4 DEF KeyedItem
<1>13. ToSet(ir.dimensions) = {R(n) : n \in ToSet(i.dimensions)}
  <2>1. ir.dimensions = [k \in DOMAIN i.dimensions |-> R(i.dimensions[k])]
    BY <1>1 DEF GroundedFrom, R
  <2>2. DOMAIN ir.dimensions = DOMAIN i.dimensions
        /\ \A k \in DOMAIN i.dimensions : ir.dimensions[k] = R(i.dimensions[k])
    BY <2>1
  <2> QED BY <2>2 DEF ToSet
<1>14. \A n \in ToSet(ir.dimensions) : n \in DOMAIN fields
  BY <1>9, <1>10, <1>13
<1>15. \A x \in ToSet(ir.metrics) :
          \/ IsCountAll(x)
          \/ /\ KeyedItem(x, fields)
             /\ x.agg \in {"sum", "avg"} => fields[x.field] \in NumericTypes
  <2> TAKE x \in ToSet(ir.metrics)
  <2>1. PICK k \in DOMAIN i.metrics : x = GroundMetric(i.metrics[k], fields, t)
    BY <1>1 DEF GroundedFrom, ToSet
  <2>2. i.metrics[k] \in ToSet(i.metrics)
    BY DEF ToSet
  <2>3. CASE IsCountAll(i.metrics[k])
    BY <2>1, <2>3 DEF GroundMetric
  <2>4. CASE ~IsCountAll(i.metrics[k])
    <3>1. x = [i.metrics[k] EXCEPT !.field = R(i.metrics[k].field)]
      BY <2>1, <2>4 DEF GroundMetric, GroundItem, R
    <3>2. /\ x = [y \in DOMAIN x |-> x[y]] /\ "field" \in DOMAIN x
          /\ x.field = R(i.metrics[k].field) /\ x.agg = i.metrics[k].agg
      BY <1>11, <2>2, <3>1
    <3> QED BY <1>6, <1>9, <1>10, <2>2, <2>4, <3>2 DEF KeyedItem
  <2> QED BY <2>3, <2>4
<1>16. \A x \in ToSet(ir.sort) :
          /\ x = [y \in DOMAIN x |-> x[y]] /\ "field" \in DOMAIN x
          /\ x.field \in DOMAIN fields \cup aliases
          /\ IsAggregate(i) => x.field \in {R(n) : n \in ToSet(i.dimensions)} \cup aliases
  <2> TAKE x \in ToSet(ir.sort)
  <2>0. ir.sort = [k \in DOMAIN i.sort |-> GroundSort(i.sort[k], aliases, fields, t)]
    BY <1>1 DEF GroundedFrom, aliases
  <2>1. PICK k \in DOMAIN i.sort : x = GroundSort(i.sort[k], aliases, fields, t)
    BY <2>0 DEF ToSet
  <2>2. i.sort[k] \in ToSet(i.sort)
    BY DEF ToSet
  <2>3. x = [i.sort[k] EXCEPT !.field = IF i.sort[k].field \in aliases THEN i.sort[k].field
                                        ELSE R(i.sort[k].field)]
    BY <2>1 DEF GroundSort, R
  <2>4. /\ x = [y \in DOMAIN x |-> x[y]] /\ "field" \in DOMAIN x
        /\ x.field = IF i.sort[k].field \in aliases THEN i.sort[k].field ELSE R(i.sort[k].field)
    BY <1>11, <2>2, <2>3
  <2> QED BY <1>6, <1>9, <1>10, <2>2, <2>4
<1>17. \A n \in ToSet(ir.unwind) : n \in DOMAIN fields /\ fields[n] \in {"array"}
  <2> TAKE n \in ToSet(ir.unwind)
  <2>1. PICK k \in DOMAIN i.unwind : n = R(i.unwind[k])
    BY <1>1 DEF GroundedFrom, ToSet, R
  <2>2. i.unwind[k] \in ToSet(i.unwind)
    BY DEF ToSet
  <2> QED BY <1>6, <1>9, <1>10, <2>1, <2>2
<1>18. \A x \in ToSet(ir.calculations) :
          /\ x = [y \in DOMAIN x |-> x[y]] /\ {"left", "right"} \subseteq DOMAIN x
          /\ \A n \in ToSet(Operands(x)) : n \in DOMAIN fields /\ fields[n] \in NumericTypes
  <2> TAKE x \in ToSet(ir.calculations)
  <2>1. PICK k \in DOMAIN i.calculations : x = GroundCalculation(i.calculations[k], fields, t)
    BY <1>1 DEF GroundedFrom, ToSet
  <2> DEFINE c == i.calculations[k]
  <2>2. c \in ToSet(i.calculations)
    BY DEF ToSet
  <2> HIDE DEF c
  <2>3. x = [c EXCEPT !.left = R(c.left), !.right = R(c.right)]
    BY <2>1 DEF GroundCalculation, R, c
  <2>4. /\ x = [y \in DOMAIN x |-> x[y]] /\ {"left", "right"} \subseteq DOMAIN x
        /\ x.left = R(c.left) /\ x.right = R(c.right)
    BY <1>11, <2>2, <2>3
  <2>5. ToSet(Operands(c)) = {c.left, c.right} /\ ToSet(Operands(x)) = {x.left, x.right}
    BY DEF Operands, ToSet
  <2>6. /\ R(c.left) \in DOMAIN fields /\ R(c.right) \in DOMAIN fields
        /\ fields[R(c.left)] \in NumericTypes /\ fields[R(c.right)] \in NumericTypes
    BY <1>6, <1>9, <1>10, <2>2, <2>5
  <2> QED BY <2>4, <2>5, <2>6
<1>19. HasWindow(ir) => /\ KeyedItem(ir.window, fields)
                        /\ fields[ir.window.field] \in {"datetime", "unknown"}
  <2> SUFFICES ASSUME HasWindow(ir)
               PROVE  KeyedItem(ir.window, fields) /\ fields[ir.window.field] \in {"datetime", "unknown"}
    OBVIOUS
  <2>1. HasWindow(i)
    BY <1>1 DEF GroundedFrom, HasWindow
  <2>2. ir.window = [i.window EXCEPT !.field = R(i.window.field)]
    BY <1>1, <2>1 DEF GroundedFrom, GroundItem, R
  <2>3. /\ ir.window = [y \in DOMAIN ir.window |-> ir.window[y]] /\ "field" \in DOMAIN ir.window
        /\ ir.window.field = R(i.window.field)
    BY <1>11, <2>2
  <2> QED BY <1>6, <1>9, <1>10, <2>1, <2>3 DEF KeyedItem
<1>20. ir = [x \in DOMAIN ir |-> ir[x]] /\ Lists \cup Settings \subseteq DOMAIN ir
  BY <1>1 DEF GroundedFrom, WellFormed
<1>21. ir.filters = <<>> /\ ir.predicate = predicate
  BY <1>1 DEF GroundedFrom
<1>22. (IsAggregate(ir) <=> IsAggregate(i)) /\ (ir.calculations = <<>> <=> i.calculations = <<>>)
       /\ (ir.dimensions = <<>> <=> i.dimensions = <<>>)
  BY <1>7 DEF Lists, IsAggregate
<1>23. GroundedIR(ir, fields)
  BY <1>2, <1>7, <1>8, <1>12, <1>14, <1>15, <1>16, <1>17, <1>18, <1>19, <1>20, <1>21 DEF GroundedIR, aliases
<1>24. Orderly(ir)
  BY <1>6, <1>8, <1>12, <1>13, <1>16, <1>22 DEF Orderly, aliases
<1> QED BY <1>23, <1>24 DEF ir, fields

\* With no business terms, a field's own key is what an item keeps.
LEMMA ItemFixed ==
    ASSUME NEW fields, NEW x, KeyedItem(x, fields)
    PROVE  GroundItem(x, fields, {}) = x
<1>1. Resolve(x.field, fields, {}) = x.field
  BY KeySettled DEF KeyedItem
<1>2. [x EXCEPT !.field = x.field] = x
  BY DEF KeyedItem
<1> QED BY <1>1, <1>2 DEF GroundItem

\* A predicate of its own fields is kept as it is.
LEMMA PredicateKept ==
    ASSUME NEW ir, NEW s, GroundedIR(ir, FieldTable(ir, s)), NEW now
    PROVE  GroundedPredicate(ir, s, {}, now) = ir.predicate
<1> DEFINE fields == FieldTable(ir, s)
           tree   == ir.predicate
           terms  == GroundedTerms(ir, fields, {}, now)
           none   == SetToSeq(Conditions(ir, s, {}))
           extra  == [k \in DOMAIN none |-> GroundTree(<<Leaf(none[k])>>, fields, {}, now)]
           tests  == [k \in DOMAIN ir.filters |-> GroundTree(<<Leaf(ir.filters[k])>>, fields, {}, now)]
           last   == IF tree = <<>> THEN <<>> ELSE <<GroundTree(tree, fields, {}, now)>>
<1>1. none = <<>>
  <2>1. IsFiniteSet({})
    BY FS_EmptySet
  <2> QED BY <2>1, ConditionsFinite
<1>2. GroundTree(tree, fields, {}, now) = tree
  BY GroundedFixed DEF GroundedIR
<1>3. GroundedPredicate(ir, s, {}, now) = WithConditions(Conjunction(terms), extra)
  BY DEF GroundedPredicate
<1>4. terms = tests \o last
  BY DEF GroundedTerms
<1>5. tests = <<>>
  BY DEF GroundedIR
<1>6. extra = <<>>
  <2> HIDE DEF none, fields
  <2> QED BY <1>1
<1>7. Whole(tree)
  BY DEF GroundedIR
<1> HIDE DEF terms, extra, tests
<1>8. WithConditions(Conjunction(terms), extra) = Conjunction(terms)
  BY <1>6 DEF WithConditions
<1>9. CASE tree = <<>>
  <2>1. last = <<>>
    BY <1>9
  <2>2. terms = <<>>
    BY <1>4, <1>5, <2>1
  <2> QED BY <1>3, <1>8, <1>9, <2>2 DEF Conjunction
<1>10. CASE tree # <<>>
  <2>1. last = <<tree>>
    BY <1>2, <1>10
  <2>2. terms = <<tree>>
    <3> HIDE DEF tree, last
    <3> QED BY <1>4, <1>5, <2>1
  <2>3. IsCompound(tree)
    BY <1>7, <1>10 DEF Whole
  <2>4. Conjunction(terms) = tree
    <3> HIDE DEF tree
    <3> QED BY <2>2, <2>3 DEF Conjunction
  <2> QED BY <1>3, <1>8, <2>4
<1> QED BY <1>9, <1>10

\* A question of its own fields grounds to itself, at any time.
LEMMA GroundsToItself ==
    ASSUME NEW ir, WellFormed(ir), NEW s, GroundedIR(ir, FieldTable(ir, s)), NEW now
    PROVE  Ground(ir, s, {}, now) = ir
<1> DEFINE g       == Ground(ir, s, {}, now)
           fields  == FieldTable(ir, s)
           aliases == ToSet(Aliases(ir))
<1>1. GroundedFrom(g, ir, fields, {}, GroundedPredicate(ir, s, {}, now))
  BY GroundParts
<1>2. g.predicate = ir.predicate
  BY <1>1, PredicateKept DEF GroundedFrom
<1> HIDE DEF g, fields, aliases
<1>0. GroundedIR(ir, fields)
  BY DEF fields
<1>3. \A list \in Lists : ir[list] = [k \in DOMAIN ir[list] |-> ir[list][k]]
  <2> TAKE list \in Lists
  <2> DEFINE seq == ir[list]
  <2>1. seq \in Seq(ToSet(seq))
    BY DEF GroundedIR
  <2> HIDE DEF seq
  <2>2. seq \in [1..Len(seq) -> ToSet(seq)]
    BY <2>1, LenProperties
  <2>3. seq = [k \in DOMAIN seq |-> seq[k]]
    BY <2>2
  <2> QED BY <2>3 DEF seq
<1>4. g.projections = ir.projections
  <2>1. \A k \in DOMAIN ir.projections : GroundItem(ir.projections[k], fields, {}) = ir.projections[k]
    BY <1>0, ItemFixed DEF GroundedIR, ToSet
  <2> QED BY <1>1, <1>3, <2>1 DEF GroundedFrom, Lists
<1>5. g.dimensions = ir.dimensions
  <2>1. \A k \in DOMAIN ir.dimensions : Resolve(ir.dimensions[k], fields, {}) = ir.dimensions[k]
    BY <1>0, KeySettled DEF GroundedIR, ToSet
  <2> QED BY <1>1, <1>3, <2>1 DEF GroundedFrom, Lists
<1>6. g.metrics = ir.metrics
  <2>1. \A k \in DOMAIN ir.metrics : GroundMetric(ir.metrics[k], fields, {}) = ir.metrics[k]
    BY <1>0, ItemFixed DEF GroundedIR, ToSet, GroundMetric
  <2> QED BY <1>1, <1>3, <2>1 DEF GroundedFrom, Lists
<1>7. g.filters = ir.filters
  BY <1>0, <1>1 DEF GroundedFrom, GroundedIR
<1>8. g.sort = ir.sort
  <2>1. \A k \in DOMAIN ir.sort : GroundSort(ir.sort[k], aliases, fields, {}) = ir.sort[k]
    <3> TAKE k \in DOMAIN ir.sort
    <3> DEFINE x == ir.sort[k]
    <3>1. /\ x = [y \in DOMAIN x |-> x[y]] /\ "field" \in DOMAIN x
          /\ x.field \in DOMAIN fields \cup aliases
      BY <1>0 DEF GroundedIR, ToSet, aliases
    <3>2. x.field \notin aliases => Resolve(x.field, fields, {}) = x.field
      BY <3>1, KeySettled
    <3> HIDE DEF x
    <3>3. GroundSort(x, aliases, fields, {}) = [x EXCEPT !.field = x.field]
      BY <3>2 DEF GroundSort
    <3>4. [x EXCEPT !.field = x.field] = x
      BY <3>1
    <3> QED BY <3>3, <3>4 DEF x
  <2>2. g.sort = [k \in DOMAIN ir.sort |-> GroundSort(ir.sort[k], aliases, fields, {})]
    BY <1>1 DEF GroundedFrom, aliases
  <2> QED BY <1>3, <2>1, <2>2 DEF Lists
<1>9. g.unwind = ir.unwind
  <2>1. \A k \in DOMAIN ir.unwind : Resolve(ir.unwind[k], fields, {}) = ir.unwind[k]
    BY <1>0, KeySettled DEF GroundedIR, ToSet
  <2> QED BY <1>1, <1>3, <2>1 DEF GroundedFrom, Lists
<1>10. g.calculations = ir.calculations
  <2>1. \A k \in DOMAIN ir.calculations :
           GroundCalculation(ir.calculations[k], fields, {}) = ir.calculations[k]
    <3> TAKE k \in DOMAIN ir.calculations
    <3> DEFINE x == ir.calculations[k]
    <3>1. /\ x = [y \in DOMAIN x |-> x[y]] /\ {"left", "right"} \subseteq DOMAIN x
          /\ \A n \in ToSet(Operands(x)) : n \in DOMAIN fields
      BY <1>0 DEF GroundedIR, ToSet
    <3> HIDE DEF x
    <3>2. x.left \in DOMAIN fields /\ x.right \in DOMAIN fields
      BY <3>1 DEF Operands, ToSet
    <3>3. Resolve(x.left, fields, {}) = x.left /\ Resolve(x.right, fields, {}) = x.right
      BY <3>2, KeySettled
    <3>4. GroundCalculation(x, fields, {}) = [x EXCEPT !.left = x.left, !.right = x.right]
      BY <3>3 DEF GroundCalculation
    <3>5. [x EXCEPT !.left = x.left, !.right = x.right] = x
      BY <3>1
    <3> QED BY <3>4, <3>5 DEF x
  <2> QED BY <1>1, <1>3, <2>1 DEF GroundedFrom, Lists
<1>11. g.window = ir.window
  BY <1>0, <1>1, ItemFixed DEF GroundedFrom, GroundedIR
<1>12. \A x \in DOMAIN ir : g[x] = ir[x]
  BY <1>1, <1>2, <1>4, <1>5, <1>6, <1>7, <1>8, <1>9, <1>10, <1>11 DEF GroundedFrom, Changed
<1>13. /\ g = [x \in DOMAIN g |-> g[x]] /\ DOMAIN g = DOMAIN ir
       /\ ir = [x \in DOMAIN ir |-> ir[x]]
  BY <1>0, <1>1 DEF GroundedFrom, GroundedIR
<1>14. g = ir
  BY <1>12, <1>13
<1> QED BY <1>14 DEF g

\* The shape of a question is kept.
LEMMA WellFormedKept ==
    ASSUME NEW i, WellFormed(i), NEW ir, NEW fields, NEW t, NEW predicate,
           GroundedFrom(ir, i, fields, t, predicate), Grounded(predicate, fields)
    PROVE  WellFormed(ir)
<1>1. predicate \in Seq(ToSet(predicate))
  BY DEF Grounded
<1>2. /\ \A list \in Lists : ir[list] \in Seq(ToSet(ir[list]))
      /\ \A list \in Lists \ {"filters", "predicate"} :
            DOMAIN ir[list] = DOMAIN i[list] /\ (ir[list] = <<>> <=> i[list] = <<>>)
  BY <1>1, ListsKept
<1>3. /\ Lists \cup Settings \subseteq DOMAIN ir
      /\ ir.sources # <<>>
  BY <1>2 DEF GroundedFrom, WellFormed, Lists
<1>4. Fielded(ir.projections, {"field", "alias"})
  <2> SUFFICES ASSUME NEW x \in ToSet(ir.projections) PROVE {"field", "alias"} \subseteq DOMAIN x
    BY DEF Fielded
  <2>1. PICK k \in DOMAIN i.projections : x = GroundItem(i.projections[k], fields, t)
    BY DEF GroundedFrom, ToSet
  <2>2. {"field", "alias"} \subseteq DOMAIN i.projections[k]
    BY DEF WellFormed, Fielded, ToSet
  <2> QED BY <2>1, <2>2 DEF GroundItem
<1>5. Fielded(ir.metrics, {"field", "agg", "alias"})
  <2> SUFFICES ASSUME NEW x \in ToSet(ir.metrics) PROVE {"field", "agg", "alias"} \subseteq DOMAIN x
    BY DEF Fielded
  <2>1. PICK k \in DOMAIN i.metrics : x = GroundMetric(i.metrics[k], fields, t)
    BY DEF GroundedFrom, ToSet
  <2>2. {"field", "agg", "alias"} \subseteq DOMAIN i.metrics[k]
    BY DEF WellFormed, Fielded, ToSet
  <2> QED BY <2>1, <2>2 DEF GroundItem, GroundMetric
<1>6. Fielded(ir.filters, FilterFields)
  BY DEF GroundedFrom, Fielded, ToSet
<1>7. \A leaf \in ToSet(ir.predicate) :
          /\ {"path", "test"} \subseteq DOMAIN leaf /\ leaf.path \in Seq(ToSet(leaf.path))
          /\ FilterFields \subseteq DOMAIN leaf.test
  BY DEF GroundedFrom, Grounded, GroundedLeaf
<1>8. Fielded(ir.sort, {"field"})
  <2> SUFFICES ASSUME NEW x \in ToSet(ir.sort) PROVE {"field"} \subseteq DOMAIN x
    BY DEF Fielded
  <2> DEFINE aliases == ToSet(Aliases(i))
  <2>0. ir.sort = [k \in DOMAIN i.sort |-> GroundSort(i.sort[k], aliases, fields, t)]
    BY DEF GroundedFrom
  <2> HIDE DEF aliases
  <2>1. PICK k \in DOMAIN i.sort : x = GroundSort(i.sort[k], aliases, fields, t)
    BY <2>0 DEF ToSet
  <2>2. {"field"} \subseteq DOMAIN i.sort[k]
    BY DEF WellFormed, Fielded, ToSet
  <2> QED BY <2>1, <2>2 DEF GroundSort
<1>9. Fielded(ir.calculations, {"left", "right", "alias"})
  <2> SUFFICES ASSUME NEW x \in ToSet(ir.calculations) PROVE {"left", "right", "alias"} \subseteq DOMAIN x
    BY DEF Fielded
  <2>1. PICK k \in DOMAIN i.calculations : x = GroundCalculation(i.calculations[k], fields, t)
    BY DEF GroundedFrom, ToSet
  <2>2. {"left", "right", "alias"} \subseteq DOMAIN i.calculations[k]
    BY DEF WellFormed, Fielded, ToSet
  <2> QED BY <2>1, <2>2 DEF GroundCalculation
<1>10. {"field", "alias"} \subseteq DOMAIN ir.window
  BY DEF GroundedFrom, WellFormed, GroundItem
<1> QED BY <1>2, <1>3, <1>4, <1>5, <1>6, <1>7, <1>8, <1>9, <1>10 DEF WellFormed

\* Grounding in which no check fails has no error.
LEMMA ChecksFine ==
    ASSUME NEW i, NEW s, NEW c, \A k \in 1..16 : GroundingCheck(k, i, s, FieldTable(i, s), c) = "none"
    PROVE  GroundingError(i, s, c) = "none"
<1> DEFINE Check(k) == GroundingCheck(k, i, s, FieldTable(i, s), c)
           Stops(k) == k = Checks + 1 \/ Check(k) # "none"
           last     == CHOOSE k \in 1..Checks + 1 : Stops(k) /\ \A j \in 1..k - 1 : ~Stops(j)
<1>0. Checks + 1 = 17
  BY DEF Checks
<1> HIDE DEF Check
<1>1. \A k \in 1..16 : Check(k) = "none"
  BY DEF Check
<1>2. \A k \in 1..17 : Stops(k) <=> k = 17
  BY <1>0, <1>1
<1>3. last = 17
  <2>1. 17 \in 1..Checks + 1 /\ Stops(17) /\ \A j \in 1..17 - 1 : ~Stops(j)
    BY <1>0, <1>2
  <2>2. \A k \in 1..Checks + 1 : Stops(k) => k = 17
    BY <1>0, <1>2
  <2> HIDE DEF Stops
  <2> QED BY <2>1, <2>2
<1>4. GroundingError(i, s, c) = IF last = Checks + 1 THEN "none" ELSE Check(last)
  BY DEF GroundingError, Check
<1> QED BY <1>0, <1>3, <1>4

\* The same of the outcomes of a list's items.
LEMMA ItemsFine ==
    ASSUME NEW seq, seq \in Seq(ToSet(seq)), NEW outcomes, DOMAIN outcomes = DOMAIN seq,
           outcomes = [k \in DOMAIN seq |-> outcomes[k]],
           \A k \in DOMAIN seq : outcomes[k] = "none"
    PROVE  FirstError(outcomes) = "none"
<1>1. DOMAIN seq = 1..Len(seq) /\ Len(seq) \in Nat
  BY LenProperties
<1> QED BY <1>1, NoneWrong

\* A question of its own fields is grounded without error under no business
\* terms, as long as its relationships' keys are names of fields and its
\* predicate is not too deep.
LEMMA GroundingFine ==
    ASSUME NEW ir, WellFormed(ir), NEW s, GroundedIR(ir, FieldTable(ir, s)), Orderly(ir),
           \A j \in ToSet(ir.joins) : JoinError(s, j.rel, FieldTable(ir, s), {}) = "none",
           \A leaf \in ToSet(ir.predicate) : ~(Len(leaf.path) > MaxDepth)
    PROVE  GroundingError(ir, s, {}) = "none"
<1> DEFINE fields   == FieldTable(ir, s)
           Check(k) == GroundingCheck(k, ir, s, fields, {})
           aliases  == ToSet(Aliases(ir))
           groups   == {Resolve(n, fields, {}) : n \in ToSet(ir.dimensions)}
           none     == SetToSeq(Conditions(ir, s, {}))
<1>1. /\ ir.projections \in Seq(ToSet(ir.projections)) /\ ir.dimensions \in Seq(ToSet(ir.dimensions))
      /\ ir.metrics \in Seq(ToSet(ir.metrics)) /\ ir.filters \in Seq(ToSet(ir.filters))
      /\ ir.predicate \in Seq(ToSet(ir.predicate)) /\ ir.sort \in Seq(ToSet(ir.sort))
      /\ ir.unwind \in Seq(ToSet(ir.unwind)) /\ ir.calculations \in Seq(ToSet(ir.calculations))
      /\ ir.joins \in Seq(ToSet(ir.joins))
  BY DEF WellFormed, Lists
<1>2. none = <<>>
  <2>1. IsFiniteSet({})
    BY FS_EmptySet
  <2> QED BY <2>1, ConditionsFinite
<1>3. GroundedIR(ir, fields) /\ \A j \in ToSet(ir.joins) : JoinError(s, j.rel, fields, {}) = "none"
  OBVIOUS
<1> HIDE DEF fields
<1>4. \A n \in DOMAIN fields : NameError(n, fields, {}) = "none" /\ Resolve(n, fields, {}) = n
  BY KeySettled
<1>5. Check(1) = "none"
  BY DEF GroundingCheck, Each, Refuse, Orderly
<1>6. Check(2) = "none"
  <2> DEFINE outcomes == [k \in DOMAIN FieldsOf(ir.projections) |-> NameError(FieldsOf(ir.projections)[k], fields, {})]
  <2>1. \A k \in DOMAIN FieldsOf(ir.projections) :
             NameError(FieldsOf(ir.projections)[k], fields, {}) = "none"
      BY <1>3, <1>4 DEF GroundedIR, KeyedItem, FieldsOf, ToSet
  <2>8. DOMAIN FieldsOf(ir.projections) = DOMAIN ir.projections
    BY DEF FieldsOf
  <2>9. FirstError(outcomes) = "none"
    <3>1. DOMAIN outcomes = DOMAIN ir.projections /\ outcomes = [k \in DOMAIN ir.projections |-> outcomes[k]]
          /\ \A k \in DOMAIN ir.projections : outcomes[k] = "none"
      BY <2>1, <2>8
    <3> HIDE DEF outcomes
    <3> QED BY <1>1, <3>1, ItemsFine
  <2> QED BY <2>9 DEF GroundingCheck, Each
<1>7. Check(3) = "none"
  <2> DEFINE outcomes == [k \in DOMAIN ir.dimensions |-> NameError(ir.dimensions[k], fields, {})]
  <2>1. \A k \in DOMAIN ir.dimensions : NameError(ir.dimensions[k], fields, {}) = "none"
      BY <1>3, <1>4 DEF GroundedIR, ToSet
  <2>8. DOMAIN ir.dimensions = DOMAIN ir.dimensions
    BY DEF FieldsOf
  <2>9. FirstError(outcomes) = "none"
    <3>1. DOMAIN outcomes = DOMAIN ir.dimensions /\ outcomes = [k \in DOMAIN ir.dimensions |-> outcomes[k]]
          /\ \A k \in DOMAIN ir.dimensions : outcomes[k] = "none"
      BY <2>1, <2>8
    <3> HIDE DEF outcomes
    <3> QED BY <1>1, <3>1, ItemsFine
  <2> QED BY <2>9 DEF GroundingCheck, Each
<1>8. Check(4) = "none"
  <2> DEFINE outcomes == [k \in DOMAIN ir.metrics |-> MetricError(ir.metrics[k], fields, {})]
  <2>1. \A k \in DOMAIN ir.metrics : MetricError(ir.metrics[k], fields, {}) = "none"
      BY <1>3, <1>4 DEF GroundedIR, KeyedItem, ToSet, MetricError, Refuse
  <2>8. DOMAIN ir.metrics = DOMAIN ir.metrics
    BY DEF FieldsOf
  <2>9. FirstError(outcomes) = "none"
    <3>1. DOMAIN outcomes = DOMAIN ir.metrics /\ outcomes = [k \in DOMAIN ir.metrics |-> outcomes[k]]
          /\ \A k \in DOMAIN ir.metrics : outcomes[k] = "none"
      BY <2>1, <2>8
    <3> HIDE DEF outcomes
    <3> QED BY <1>1, <3>1, ItemsFine
  <2> QED BY <2>9 DEF GroundingCheck, Each
<1>9. groups = ToSet(ir.dimensions)
  BY <1>3, <1>4 DEF GroundedIR
<1>10. /\ \A x \in ToSet(ir.projections) : Resolve(x.field, fields, {}) = x.field
       /\ \A x \in ToSet(ir.sort) : x.field \notin aliases => Resolve(x.field, fields, {}) = x.field
  BY <1>3, <1>4 DEF GroundedIR, KeyedItem
<1>11. Check(5) = "none"
  <2>1. IsAggregate(ir) =>
            \A n \in ToSet(FieldsOf(ir.projections)) : Resolve(n, fields, {}) \in groups
    <3> HIDE DEF groups
    <3> QED BY <1>9, <1>10 DEF Orderly, FieldsOf, ToSet
  <2> QED BY <2>1 DEF GroundingCheck, Each, Refuse
<1>12. Check(9) = "none"
  <2>1. IsAggregate(ir) =>
            \A n \in ToSet(FieldsOf(ir.sort)) \ aliases : Resolve(n, fields, {}) \in groups \cup aliases
    <3>1. \A n \in ToSet(FieldsOf(ir.sort)) : \E x \in ToSet(ir.sort) : n = x.field
      BY DEF FieldsOf, ToSet
    <3>2. IsAggregate(ir) => \A x \in ToSet(ir.sort) : x.field \in ToSet(ir.dimensions) \cup aliases
      BY DEF Orderly
    <3> HIDE DEF groups, aliases
    <3> QED BY <1>9, <1>10, <3>1, <3>2
  <2> QED BY <2>1 DEF GroundingCheck, Each, Refuse
<1>13. Check(6) = "none"
  <2> DEFINE outcomes == [k \in DOMAIN ir.filters |-> FilterError(ir.filters[k], fields, {})]
  <2>1. \A k \in DOMAIN ir.filters : FilterError(ir.filters[k], fields, {}) = "none"
      BY <1>3 DEF GroundedIR
  <2>8. DOMAIN ir.filters = DOMAIN ir.filters
    BY DEF FieldsOf
  <2>9. FirstError(outcomes) = "none"
    <3>1. DOMAIN outcomes = DOMAIN ir.filters /\ outcomes = [k \in DOMAIN ir.filters |-> outcomes[k]]
          /\ \A k \in DOMAIN ir.filters : outcomes[k] = "none"
      BY <2>1, <2>8
    <3> HIDE DEF outcomes
    <3> QED BY <1>1, <3>1, ItemsFine
  <2> QED BY <2>9 DEF GroundingCheck, Each
<1>14. Check(7) = "none"
  <2> DEFINE outcomes == [k \in DOMAIN ir.predicate |-> IF Len(ir.predicate[k].path) > MaxDepth THEN "PolicyViolation"
                                               ELSE FilterError(ir.predicate[k].test, fields, {})]
  <2>1. \A k \in DOMAIN ir.predicate :
             (IF Len(ir.predicate[k].path) > MaxDepth THEN "PolicyViolation"
              ELSE FilterError(ir.predicate[k].test, fields, {})) = "none"
      <3> TAKE k \in DOMAIN ir.predicate
      <3> DEFINE leaf == ir.predicate[k]
      <3>1. leaf \in ToSet(ir.predicate)
        BY DEF ToSet
      <3> HIDE DEF leaf
      <3>2. GroundedLeaf(leaf, fields) /\ ~(Len(leaf.path) > MaxDepth)
        BY <1>3, <3>1 DEF GroundedIR, Grounded
      <3>3. FilterError(leaf.test, fields, {}) = "none"
        BY <1>4, <3>2 DEF GroundedLeaf, FilterError
      <3> QED BY <3>2, <3>3 DEF leaf
  <2>8. DOMAIN ir.predicate = DOMAIN ir.predicate
    BY DEF FieldsOf
  <2>9. FirstError(outcomes) = "none"
    <3>1. DOMAIN outcomes = DOMAIN ir.predicate /\ outcomes = [k \in DOMAIN ir.predicate |-> outcomes[k]]
          /\ \A k \in DOMAIN ir.predicate : outcomes[k] = "none"
      BY <2>1, <2>8
    <3> HIDE DEF outcomes
    <3> QED BY <1>1, <3>1, ItemsFine
  <2> QED BY <2>9 DEF GroundingCheck, Each, PredicateError
<1>15. Check(8) = "none"
  <2> DEFINE outcomes == [k \in DOMAIN FieldsOf(ir.sort) |-> IF FieldsOf(ir.sort)[k] \in aliases THEN "none"
                                               ELSE NameError(FieldsOf(ir.sort)[k], fields, {})]
  <2>1. \A k \in DOMAIN FieldsOf(ir.sort) :
             (IF FieldsOf(ir.sort)[k] \in aliases THEN "none"
              ELSE NameError(FieldsOf(ir.sort)[k], fields, {})) = "none"
      <3> HIDE DEF aliases
      <3>1. \A x \in ToSet(ir.sort) : x.field \in DOMAIN fields \cup aliases
        BY <1>3 DEF GroundedIR, aliases
      <3> QED BY <1>4, <3>1 DEF FieldsOf, ToSet
  <2>8. DOMAIN FieldsOf(ir.sort) = DOMAIN ir.sort
    BY DEF FieldsOf
  <2>9. FirstError(outcomes) = "none"
    <3>1. DOMAIN outcomes = DOMAIN ir.sort /\ outcomes = [k \in DOMAIN ir.sort |-> outcomes[k]]
          /\ \A k \in DOMAIN ir.sort : outcomes[k] = "none"
      BY <2>1, <2>8
    <3> HIDE DEF outcomes
    <3> QED BY <1>1, <3>1, ItemsFine
  <2> QED BY <2>9 DEF GroundingCheck, Each
<1>16. Check(10) = "none"
  <2> DEFINE outcomes == [k \in DOMAIN ir.unwind |-> NameError(ir.unwind[k], fields, {})]
  <2>1. \A n \in ToSet(ir.unwind) : n \in DOMAIN fields /\ fields[n] \in {"array"}
    BY <1>3 DEF GroundedIR
  <2>2. \A k \in DOMAIN ir.unwind : NameError(ir.unwind[k], fields, {}) = "none"
    BY <1>4, <2>1 DEF ToSet
  <2>3. FirstError(outcomes) = "none"
    <3>1. DOMAIN outcomes = DOMAIN ir.unwind /\ outcomes = [k \in DOMAIN ir.unwind |-> outcomes[k]]
          /\ \A k \in DOMAIN ir.unwind : outcomes[k] = "none"
      BY <2>2
    <3> HIDE DEF outcomes
    <3> QED BY <1>1, <3>1, ItemsFine
  <2>4. WrongType(ToSet(ir.unwind), {"array"}, fields, {}) = "none"
    BY <1>4, <2>1 DEF WrongType, Refuse
  <2> QED BY <2>3, <2>4 DEF GroundingCheck, Each, OrElse
<1>17. Check(11) = "none"
  <2> DEFINE outcomes == [k \in DOMAIN ir.calculations |->
                             Each(Operands(ir.calculations[k]), LAMBDA n : NameError(n, fields, {}))]
             operands == UNION {ToSet(Operands(x)) : x \in ToSet(ir.calculations)}
  <2>1. \A n \in operands : n \in DOMAIN fields /\ fields[n] \in NumericTypes
    BY <1>3 DEF GroundedIR
  <2>2. \A k \in DOMAIN ir.calculations : outcomes[k] = "none"
    <3> TAKE k \in DOMAIN ir.calculations
    <3> DEFINE pair == Operands(ir.calculations[k])
               each == [j \in DOMAIN pair |-> NameError(pair[j], fields, {})]
    <3>1. DOMAIN pair = 1..2 /\ \A j \in 1..2 : pair[j] \in operands
      BY DEF ToSet, Operands
    <3> HIDE DEF pair, operands
    <3>2. DOMAIN each = 1..2 /\ each = [j \in 1..2 |-> each[j]] /\ \A j \in 1..2 : each[j] = "none"
      BY <1>4, <2>1, <3>1
    <3> HIDE DEF each
    <3>3. FirstError(each) = "none"
      BY <3>2, NoneWrong
    <3> QED BY <3>3 DEF each, pair, Each
  <2>3. FirstError(outcomes) = "none"
    <3>1. DOMAIN outcomes = DOMAIN ir.calculations
          /\ outcomes = [k \in DOMAIN ir.calculations |-> outcomes[k]]
      BY DEF Each
    <3> HIDE DEF outcomes
    <3> QED BY <1>1, <2>2, <3>1, ItemsFine
  <2>4. WrongType(operands, NumericTypes, fields, {}) = "none"
    <3> HIDE DEF operands
    <3> QED BY <1>4, <2>1 DEF WrongType, Refuse
  <2> QED BY <2>3, <2>4 DEF GroundingCheck, Each, OrElse
<1>18. Check(12) = "none"
  BY DEF GroundingCheck, Each, Refuse, Orderly
<1>19. Check(13) = "none"
  <2>1. HasWindow(ir) => /\ ir.window.field \in DOMAIN fields
                         /\ fields[ir.window.field] \in {"datetime", "unknown"}
    BY <1>3 DEF GroundedIR, KeyedItem
  <2>2. HasWindow(ir) => /\ NameError(ir.window.field, fields, {}) = "none"
                         /\ WrongType({ir.window.field}, {"datetime", "unknown"}, fields, {}) = "none"
    BY <1>4, <2>1 DEF WrongType, Refuse
  <2> QED BY <2>2 DEF GroundingCheck, Each, OrElse
<1>20. Check(14) = "none"
  <2> DEFINE outcomes == [k \in DOMAIN ir.joins |-> JoinError(s, ir.joins[k].rel, fields, {})]
  <2>1. \A k \in DOMAIN ir.joins : JoinError(s, ir.joins[k].rel, fields, {}) = "none"
      BY <1>3 DEF ToSet
  <2>8. DOMAIN ir.joins = DOMAIN ir.joins
    BY DEF FieldsOf
  <2>9. FirstError(outcomes) = "none"
    <3>1. DOMAIN outcomes = DOMAIN ir.joins /\ outcomes = [k \in DOMAIN ir.joins |-> outcomes[k]]
          /\ \A k \in DOMAIN ir.joins : outcomes[k] = "none"
      BY <2>1, <2>8
    <3> HIDE DEF outcomes
    <3> QED BY <1>1, <3>1, ItemsFine
  <2> QED BY <2>9 DEF GroundingCheck, Each
<1>21. Check(15) = "none"
  <2> DEFINE outcomes == [k \in DOMAIN none |-> FilterError(none[k], fields, {})]
  <2>1. DOMAIN none = 1..0
    <3> HIDE DEF none
    <3> QED BY <1>2
  <2>2. FirstError(outcomes) = "none"
    <3>1. 0 \in Nat /\ DOMAIN outcomes = 1..0 /\ outcomes = [k \in 1..0 |-> outcomes[k]]
          /\ \A k \in 1..0 : outcomes[k] = "none"
      BY <2>1
    <3> HIDE DEF outcomes
    <3> QED BY <3>1, NoneWrong
  <2> QED BY <2>2 DEF GroundingCheck, Each
<1>22. Check(16) = "none"
  <2> DEFINE terms == Len(ir.filters) + (IF ir.predicate = <<>> THEN 0 ELSE 1)
  <2>1. ir.filters = <<>> /\ Len(<<>>) = 0
    BY <1>3 DEF GroundedIR
  <2>2. terms \in 0..1
    BY <2>1
  <2>3. Len(none) = 0
    <3> HIDE DEF none
    <3> QED BY <1>2
  <2>4. MaxTerms \in Nat \ {0}
    BY BoundsAssumption
  <2>5. ~(terms > MaxTerms) /\ ~((IF terms = 0 THEN 0 ELSE 1) + Len(none) > MaxTerms)
    <3> HIDE DEF terms, none
    <3> QED BY <2>2, <2>3, <2>4
  <2>6. Check(16) = Refuse(\/ terms > MaxTerms
                           \/ (IF terms = 0 THEN 0 ELSE 1) + Len(none) > MaxTerms,
                           "ModelValidationError")
    BY DEF GroundingCheck, Each
  <2> HIDE DEF terms, none, Check
  <2> QED BY <2>5, <2>6 DEF Refuse
<1>23. \A k \in 1..16 : Check(k) = "none"
  <2> HIDE DEF Check
  <2> QED BY <1>5, <1>6, <1>7, <1>8, <1>11, <1>12, <1>13, <1>14, <1>15, <1>16, <1>17, <1>18, <1>19,
             <1>20, <1>21, <1>22
<1> QED BY <1>23, ChecksFine DEF fields

-----------------------------------------------------------------------------
(* Planning a plan again                                                   *)

\* What a request nobody refuses keeps to.
Acceptable(i, s, caps, rules) ==
    /\ ~(Weight(i) > MaxWeight)
    /\ ~i.ambiguous /\ ~i.unresolved /\ ~i.hinted
    /\ IsInjective(i.sources)
    /\ ToSet(i.sources) \subseteq SourceNames(s) /\ ToSet(i.sources) \subseteq rules.allowed
    /\ ~(i.limit > rules.max_rows \/ i.offset > rules.max_offset)
    /\ ~(Len(i.joins) > rules.max_joins)
    /\ ~Unsupported(i, caps)
    /\ ~(Traverses(i) /\ i.traversal.max_depth > rules.max_graph_depth)
    /\ ~(i.operation = "aggregate" /\ ~IsAggregate(i))
    /\ ~(i.operation = "traverse" /\ ~Traverses(i))

LEMMA RequestMeans ==
    ASSUME NEW i, NEW s, NEW caps, NEW rules
    PROVE  RequestError(i, s, caps, rules) = "none" <=> Acceptable(i, s, caps, rules)
<1> DEFINE checks == RequestChecks(i, s, caps, rules)
<1>1. Len(checks) = 13 /\ Len(checks) \in Nat
  BY DEF RequestChecks
<1>2. RequestError(i, s, caps, rules) = "none" <=> \A k \in 1..13 : checks[k] = "none"
  <2>1. RequestError(i, s, caps, rules) = FirstError(checks)
    BY DEF RequestError
  <2> HIDE DEF checks
  <2>2. FirstError(checks) = "none" <=> \A k \in 1..Len(checks) : checks[k] = "none"
    BY <1>1, NoFirstError
  <2> QED BY <1>1, <2>1, <2>2
<1>3. /\ checks[1] = Refuse(Weight(i) > MaxWeight, "PolicyViolation")
      /\ checks[2] = Refuse(i.ambiguous, "AmbiguityError")
      /\ checks[3] = Refuse(i.unresolved, "ValidationError")
      /\ checks[4] = Refuse(i.hinted, "UnsupportedCapabilityError")
      /\ checks[5] = Refuse(~IsInjective(i.sources), "PlanningError")
      /\ checks[6] = Refuse(~(ToSet(i.sources) \subseteq SourceNames(s)), "ValidationError")
      /\ checks[7] = Refuse(~(ToSet(i.sources) \subseteq rules.allowed), "PolicyViolation")
      /\ checks[8] = Refuse(i.limit > rules.max_rows \/ i.offset > rules.max_offset, "PolicyViolation")
      /\ checks[9] = Refuse(Len(i.joins) > rules.max_joins, "PolicyViolation")
      /\ checks[10] = Refuse(Unsupported(i, caps), "UnsupportedCapabilityError")
      /\ checks[11] = Refuse(Traverses(i) /\ i.traversal.max_depth > rules.max_graph_depth,
                             "PolicyViolation")
      /\ checks[12] = Refuse(i.operation = "aggregate" /\ ~IsAggregate(i), "PlanningError")
      /\ checks[13] = Refuse(i.operation = "traverse" /\ ~Traverses(i), "PlanningError")
  BY DEF RequestChecks
<1> HIDE DEF checks
<1>4. (\A k \in 1..13 : checks[k] = "none") <=>
        /\ checks[1] = "none" /\ checks[2] = "none" /\ checks[3] = "none" /\ checks[4] = "none"
        /\ checks[5] = "none" /\ checks[6] = "none" /\ checks[7] = "none" /\ checks[8] = "none"
        /\ checks[9] = "none" /\ checks[10] = "none" /\ checks[11] = "none" /\ checks[12] = "none"
        /\ checks[13] = "none"
  BY SMT
<1> QED BY <1>2, <1>3, <1>4 DEF Acceptable, Refuse

\* A grounded question is acceptable if the question was, as long as it is not
\* too long.
LEMMA AcceptableAgain ==
    ASSUME NEW i, WellFormed(i), NEW ir, NEW fields, NEW t, NEW predicate,
           GroundedFrom(ir, i, fields, t, predicate), predicate \in Seq(ToSet(predicate)),
           NEW s, NEW caps, NEW rules, Acceptable(i, s, caps, rules), ~(Weight(ir) > MaxWeight)
    PROVE  Acceptable(ir, s, caps, rules)
<1>1. /\ ir.ambiguous = i.ambiguous /\ ir.unresolved = i.unresolved /\ ir.hinted = i.hinted
      /\ ir.sources = i.sources /\ ir.limit = i.limit /\ ir.offset = i.offset /\ ir.joins = i.joins
      /\ ir.distinct = i.distinct /\ ir.operation = i.operation /\ ir.traversal = i.traversal
  BY DEF GroundedFrom, Changed, WellFormed, Lists, Settings
<1>2. \A list \in Lists \ {"filters", "predicate"} : ir[list] = <<>> <=> i[list] = <<>>
  BY ListsKept
<1>3. /\ (ir.metrics = <<>> <=> i.metrics = <<>>) /\ (ir.dimensions = <<>> <=> i.dimensions = <<>>)
      /\ (ir.unwind = <<>> <=> i.unwind = <<>>) /\ (ir.calculations = <<>> <=> i.calculations = <<>>)
      /\ (ir.projections = <<>> <=> i.projections = <<>>) /\ (ir.sort = <<>> <=> i.sort = <<>>)
  BY <1>2 DEF Lists
<1>4. HasWindow(ir) => HasWindow(i)
  BY DEF GroundedFrom, HasWindow
<1>5. (Traverses(ir) <=> Traverses(i)) /\ (IsAggregate(ir) <=> IsAggregate(i))
  BY <1>1, <1>3 DEF Traverses, IsAggregate
<1>6. ~Unsupported(ir, caps)
  BY <1>1, <1>3, <1>4, <1>5 DEF Acceptable, Unsupported
<1> QED BY <1>1, <1>5, <1>6 DEF Acceptable

\* The relationships walked are names of a set, the joins' first.
LEMMA WalkedTyped ==
    ASSUME NEW i, i.joins \in Seq(ToSet(i.joins))
    PROVE  /\ \E T : EdgesWalked(i) \in Seq(T)
           /\ Len(i.joins) <= Len(EdgesWalked(i))
           /\ \A k \in 1..Len(i.joins) : EdgesWalked(i)[k] = i.joins[k].rel
<1> DEFINE rels  == [k \in DOMAIN i.joins |-> i.joins[k].rel]
           start == <<i.traversal.rel>>
           S     == ToSet(start) \ {NoName}
           T     == {rels[k] : k \in 1..Len(i.joins)} \cup S
           rest  == Present(start)
<1>1. DOMAIN i.joins = 1..Len(i.joins) /\ Len(i.joins) \in Nat
  BY LenProperties
<1>2. rels \in Seq(T) /\ Len(rels) = Len(i.joins) /\ \A k \in 1..Len(i.joins) : rels[k] = i.joins[k].rel
  <2>1. DOMAIN rels = 1..Len(i.joins) /\ rels = [k \in 1..Len(i.joins) |-> rels[k]]
        /\ \A k \in 1..Len(i.joins) : rels[k] = i.joins[k].rel
    BY <1>1
  <2>2. \A k \in 1..Len(i.joins) : rels[k] \in T
    OBVIOUS
  <2> HIDE DEF rels, T
  <2>3. rels \in [1..Len(i.joins) -> T]
    BY <2>1, <2>2
  <2>4. rels \in Seq(T)
    BY <1>1, <2>3, SeqDef
  <2>5. DOMAIN rels = 1..Len(rels) /\ Len(rels) \in Nat
    BY <2>4, LenProperties
  <2>6. Len(rels) = Len(i.joins)
    BY <1>1, <2>1, <2>5
  <2> QED BY <2>1, <2>4, <2>6
<1>3. rest \in Seq(S)
  <2>1. start \in Seq(ToSet(start))
    BY DEF ToSet
  <2> HIDE DEF start
  <2>2. Among(start, S) \in Seq(S)
    BY <2>1, AmongIn
  <2> QED BY <2>2 DEF Present
<1>4. rest \in Seq(T)
  <2>1. \A x \in S : x \in T
    OBVIOUS
  <2> HIDE DEF S, T, rest
  <2>2. \A k \in 1..Len(rest) : rest[k] \in T
    BY <1>3, <2>1, ElementOfSeq
  <2> QED BY <1>3, <2>2, LenProperties, SeqDef
<1>5. EdgesWalked(i) = rels \o rest
  BY DEF EdgesWalked
<1> HIDE DEF rels, rest, T
<1>6. /\ rels \o rest \in Seq(T) /\ Len(rels \o rest) = Len(rels) + Len(rest)
      /\ \A k \in 1..Len(rels) : (rels \o rest)[k] = rels[k]
      /\ Len(rest) \in Nat
  <2>1. Len(rest) \in Nat /\ Len(rels) \in Nat
    BY <1>2, <1>4, LenProperties
  <2>2. rels \o rest \in Seq(T) /\ Len(rels \o rest) = Len(rels) + Len(rest)
    BY <1>2, <1>4, ConcatProperties
  <2>3. \A k \in 1..Len(rels) : k \in 1..Len(rels) + Len(rest)
    BY <2>1
  <2>4. \A k \in 1..Len(rels) : (rels \o rest)[k] = rels[k]
    BY <1>2, <1>4, <2>1, <2>3, ConcatProperties
  <2> QED BY <2>1, <2>2, <2>4
<1> QED BY <1>1, <1>2, <1>5, <1>6

\* A name that is no business term is looked up in the schema alone.
LEMMA PlainName ==
    ASSUME NEW fields, NEW t, NEW n, Concepts(t, n) = {}
    PROVE  NameError(n, fields, t) = NameError(n, fields, {})
<1>1. Concepts({}, n) = {}
  BY DEF Concepts
<1>2. Candidates(n, fields, t) = Candidates(n, fields, {})
  BY <1>1 DEF Candidates
<1> QED BY <1>1, <1>2 DEF NameError

\* The keys of an accepted question's joins are names of fields without
\* business terms too.
LEMMA KeysKept ==
    ASSUME NEW i, WellFormed(i), NEW s, NEW t, KeysApart(s, t),
           EdgeError(i, s) = "none", GroundingError(i, s, t) = "none"
    PROVE  \A j \in ToSet(i.joins) : JoinError(s, j.rel, FieldTable(i, s), {}) = "none"
<1> DEFINE fields == FieldTable(i, s)
<1>0. i.joins \in Seq(ToSet(i.joins))
  BY DEF WellFormed, Lists
<1>1. PICK T : EdgesWalked(i) \in Seq(T)
  BY <1>0, WalkedTyped
<1>2. \A k \in 1..Len(EdgesWalked(i)) : EdgesWalked(i)[k] \in EdgeNames(s)
  BY <1>1, EdgesAccepted
<1>3. \A j \in ToSet(i.joins) : j.rel \in EdgeNames(s)
  <2> TAKE j \in ToSet(i.joins)
  <2>1. PICK k \in 1..Len(i.joins) : j = i.joins[k]
    BY <1>0, LenProperties DEF ToSet
  <2>2. /\ Len(i.joins) <= Len(EdgesWalked(i)) /\ EdgesWalked(i)[k] = j.rel
        /\ Len(i.joins) \in Nat /\ Len(EdgesWalked(i)) \in Nat
    BY <1>0, <1>1, <2>1, WalkedTyped, LenProperties
  <2>3. k \in 1..Len(EdgesWalked(i))
    BY <2>2
  <2> QED BY <1>2, <2>2, <2>3
<1>4. \A j \in ToSet(i.joins) : JoinError(s, j.rel, fields, t) = "none"
  <2> DEFINE error == [j \in ToSet(i.joins) |-> JoinError(s, j.rel, fields, t)]
  <2>1. GroundingCheck(14, i, s, fields, t) = "none"
    BY ChecksPassed
  <2> HIDE DEF fields
  <2>2. FirstError([k \in DOMAIN i.joins |-> JoinError(s, i.joins[k].rel, fields, t)]) = "none"
    BY <2>1 DEF GroundingCheck, Each
  <2>3. [k \in DOMAIN i.joins |-> error[i.joins[k]]]
        = [k \in DOMAIN i.joins |-> JoinError(s, i.joins[k].rel, fields, t)]
    BY DEF ToSet
  <2>4. FirstError([k \in DOMAIN i.joins |-> error[i.joins[k]]]) = "none"
    BY <2>2, <2>3, Zenon
  <2>5. \A j \in ToSet(i.joins) : error[j] = "none"
    <3> HIDE DEF error
    <3> QED BY <1>0, <2>4, EachFine
  <2> QED BY <2>5
<1> HIDE DEF fields
<1> SUFFICES ASSUME NEW j \in ToSet(i.joins) PROVE JoinError(s, j.rel, fields, {}) = "none"
  BY DEF fields
<1> DEFINE e == Edge(s, j.rel)
           a == e.source \o e.source_field
           b == e.target \o e.target_field
<1>5. e \in s.edges
  BY <1>3 DEF Edge, EdgeNames
<1>6. Concepts(t, a) = {} /\ Concepts(t, b) = {}
  <2> HIDE DEF e
  <2> QED BY <1>5 DEF KeysApart
<1>7. /\ NameError(a, fields, t) = NameError(a, fields, {})
      /\ NameError(b, fields, t) = NameError(b, fields, {})
  <2> HIDE DEF a, b
  <2> QED BY <1>6, PlainName
<1>8. JoinKeys(s, j.rel) = <<a, b>>
  BY DEF JoinKeys
<1>9. /\ NoName \notin {e.source_field, e.target_field}
      /\ Each(<<a, b>>, LAMBDA n : NameError(n, fields, t)) = "none"
  BY <1>4, <1>8 DEF JoinError, Each
<1>10. NameError(a, fields, t) = "none" /\ NameError(b, fields, t) = "none"
  <2> HIDE DEF a, b, e
  <2>1. \A n \in ToSet(<<a, b>>) : NameError(n, fields, t) = "none"
    BY <1>9, PairFine
  <2> QED BY <2>1 DEF ToSet
<1>11. Each(<<a, b>>, LAMBDA n : NameError(n, fields, {})) = "none"
  <2> HIDE DEF a, b, e
  <2> DEFINE pair     == <<a, b>>
             outcomes == [k \in DOMAIN pair |-> NameError(pair[k], fields, {})]
  <2>1. DOMAIN outcomes = 1..2 /\ outcomes = [k \in 1..2 |-> outcomes[k]]
        /\ \A k \in 1..2 : outcomes[k] = "none"
    BY <1>7, <1>10
  <2>2. FirstError(outcomes) = "none"
    <3> HIDE DEF outcomes
    <3> QED BY <2>1, NoneWrong
  <2> QED BY <2>2 DEF Each
<1> QED BY <1>8, <1>9, <1>11 DEF JoinError, Each

\* The walk over relationships is that of the question.
LEMMA EdgesAgain ==
    ASSUME NEW i, i.joins \in Seq(ToSet(i.joins)), NEW s, EdgeError(i, s) = "none",
           NEW ir, ir.sources = i.sources, ir.joins = i.joins, ir.traversal = i.traversal
    PROVE  EdgeError(ir, s) = "none"
<1> DEFINE Walk(joins, way) == [k \in DOMAIN joins |-> joins[k].rel] \o Present(<<way.rel>>)
<1>1. EdgesWalked(i) = Walk(i.joins, i.traversal) /\ EdgesWalked(ir) = Walk(ir.joins, ir.traversal)
  BY DEF EdgesWalked
<1>2. EdgesWalked(ir) = EdgesWalked(i)
  <2> HIDE DEF Walk
  <2> QED BY <1>1
<1>3. \A k : Involved(ir, s, k) = Involved(i, s, k)
  BY <1>2 DEF Involved
<1>4. PICK T : EdgesWalked(i) \in Seq(T)
  BY WalkedTyped
<1>5. /\ \A k \in 1..Len(EdgesWalked(i)) :
            /\ EdgesWalked(i)[k] \in EdgeNames(s)
            /\ Ends(s, EdgesWalked(i)[k]) \cap Involved(i, s, k) # {}
            /\ Ends(s, EdgesWalked(i)[k]) \subseteq ToSet(i.sources)
      /\ Involved(i, s, Len(EdgesWalked(i)) + 1) = ToSet(i.sources)
  BY <1>4, EdgesAccepted
<1>6. /\ EdgesWalked(ir) \in Seq(T)
      /\ \A k \in 1..Len(EdgesWalked(ir)) :
            /\ EdgesWalked(ir)[k] \in EdgeNames(s)
            /\ Ends(s, EdgesWalked(ir)[k]) \cap Involved(ir, s, k) # {}
            /\ Ends(s, EdgesWalked(ir)[k]) \subseteq ToSet(ir.sources)
      /\ Involved(ir, s, Len(EdgesWalked(ir)) + 1) = ToSet(ir.sources)
  BY <1>2, <1>3, <1>4, <1>5
<1> QED BY <1>6, EdgesFine

\* A plan is planned again: what is accepted grounds to a question that is
\* accepted without business terms, at any later time, and that grounds to
\* itself.
LEMMA PlansAgain ==
    ASSUME NEW i, WellFormed(i), NEW s, WellFormedSchema(s), NEW caps, NEW rules,
           NEW t, WellFormedCatalog(t), KeysApart(s, t), NEW now, NEW later,
           PlanError(i, s, caps, rules, t, now) = "none", WithinBounds(Ground(i, s, t, now))
    PROVE  LET ir == Ground(i, s, t, now)
           IN  /\ WellFormed(ir)
               /\ PlanError(ir, s, caps, rules, {}, later) = "none"
               /\ Ground(ir, s, {}, later) = ir
<1> DEFINE ir        == Ground(i, s, t, now)
           fields    == FieldTable(i, s)
           predicate == GroundedPredicate(i, s, t, now)
<1>1. /\ RequestError(i, s, caps, rules) = "none" /\ EdgeError(i, s) = "none"
      /\ GroundingError(i, s, t) = "none"
  BY DEF PlanError, OrElse
<1>2. WellNamed(i, s)
  BY <1>1, SourcesThere
<1>3. GroundedFrom(ir, i, fields, t, predicate)
  BY GroundParts
<1>4. GroundedIR(ir, fields) /\ Orderly(ir)
  BY <1>1, <1>2, GroundsFully
<1>5. Grounded(predicate, fields) /\ predicate \in Seq(ToSet(predicate))
  BY <1>1, <1>2, PredicateGrounds DEF Grounded
<1>6. \A j \in ToSet(i.joins) : JoinError(s, j.rel, fields, {}) = "none"
  BY <1>1, KeysKept
<1>7. ~(Weight(ir) > MaxWeight) /\ \A leaf \in ToSet(ir.predicate) : ~(Len(leaf.path) > MaxDepth)
  BY DEF WithinBounds
<1> HIDE DEF ir, fields, predicate
<1>8. ir.sources = i.sources /\ ir.joins = i.joins /\ ir.traversal = i.traversal
  BY <1>3 DEF GroundedFrom, Changed, WellFormed, Lists, Settings
<1>9. WellFormed(ir)
  BY <1>3, <1>5, WellFormedKept
<1>10. FieldTable(ir, s) = fields
  BY <1>8, SameTable DEF fields
<1>11. RequestError(ir, s, caps, rules) = "none"
  <2>1. Acceptable(i, s, caps, rules)
    BY <1>1, RequestMeans
  <2>2. Acceptable(ir, s, caps, rules)
    BY <1>3, <1>5, <1>7, <2>1, AcceptableAgain
  <2> QED BY <2>2, RequestMeans
<1>12. EdgeError(ir, s) = "none"
  BY <1>1, <1>8, EdgesAgain DEF WellFormed, Lists
<1>13. GroundingError(ir, s, {}) = "none"
  BY <1>4, <1>6, <1>7, <1>8, <1>9, <1>10, GroundingFine
<1>14. Ground(ir, s, {}, later) = ir
  BY <1>4, <1>9, <1>10, GroundsToItself
<1> QED BY <1>9, <1>11, <1>12, <1>13, <1>14 DEF PlanError, OrElse, ir
=============================================================================
