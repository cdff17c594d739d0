------------------------ MODULE InterpretationProofs ------------------------
(***************************************************************************)
(* Proofs about Interpretation for every schema, catalog, question,        *)
(* provider and number of attempts.                                        *)
(***************************************************************************)
EXTENDS Interpretation, FiniteSetTheorems, SequenceTheorems, WellFoundedInduction, TLAPS

-----------------------------------------------------------------------------
(* Sequences of sequences                                                  *)

\* A set of natural numbers that is not empty has a least one.
LEMMA LeastExists ==
    ASSUME NEW T \in SUBSET Nat, T # {}
    PROVE  \E x \in T : \A y \in T : x <= y
<1> DEFINE less == OpToRel(<, Nat)
<1>1. PICK x \in T : \A y \in T : ~(<<y, x>> \in less)
  <2> HIDE DEF less
  <2>1. IsWellFoundedOn(less, Nat)
    BY NatLessThanWellFounded DEF less
  <2> QED BY <2>1, WFMin
<1>2. \A y \in T : ~(y < x)
  BY <1>1 DEF OpToRel
<1> HIDE DEF less
<1>3. \A y \in T : y \in Nat /\ x \in Nat
  OBVIOUS
<1> QED BY <1>2, <1>3

\* The first n of a sequence of sequences, joined one after the other.
Joins(f, n, seqs) == \A i \in 1..n : f[i] = IF i = 1 THEN seqs[i] ELSE f[i - 1] \o seqs[i]

LEMMA JoinsExist ==
    ASSUME NEW T, NEW seqs \in Seq(Seq(T)), NEW n \in 0..Len(seqs)
    PROVE  \E f \in [1..n -> Seq(T)] : Joins(f, n, seqs)
<1> DEFINE Wrong == {k \in 0..Len(seqs) : ~ \E f \in [1..k -> Seq(T)] : Joins(f, k, seqs)}
<1>0. Len(seqs) \in Nat /\ \A i \in 1..Len(seqs) : seqs[i] \in Seq(T)
  BY LenProperties, ElementOfSeq
<1>1. SUFFICES ASSUME Wrong # {} PROVE FALSE
  OBVIOUS
<1>2. PICK m \in Wrong : \A k \in Wrong : m <= k
  <2>1. Wrong \in SUBSET Nat
    BY <1>0
  <2> HIDE DEF Wrong
  <2> QED BY <1>1, <2>1, LeastExists
<1>3. m \in 0..Len(seqs) /\ m \in Nat
  BY <1>0
<1>4. m # 0
  <2>1. [i \in 1..0 |-> <<>>] \in [1..0 -> Seq(T)] /\ Joins([i \in 1..0 |-> <<>>], 0, seqs)
    BY DEF Joins
  <2> QED BY <2>1
<1>5. PICK f \in [1..m - 1 -> Seq(T)] : Joins(f, m - 1, seqs)
  <2>1. m - 1 \in 0..Len(seqs) /\ ~(m <= m - 1)
    BY <1>0, <1>3, <1>4
  <2>2. m - 1 \notin Wrong
    <3> HIDE DEF Wrong
    <3> QED BY <1>2, <2>1
  <2> QED BY <2>1, <2>2
<1> DEFINE last == IF m = 1 THEN seqs[m] ELSE f[m - 1] \o seqs[m]
           g    == [i \in 1..m |-> IF i = m THEN last ELSE f[i]]
<1>6. last \in Seq(T)
  <2>1. m \in 1..Len(seqs) /\ (m # 1 => m - 1 \in 1..m - 1)
    BY <1>0, <1>3, <1>4
  <2>2. seqs[m] \in Seq(T) /\ (m # 1 => f[m - 1] \in Seq(T))
    BY <1>0, <2>1
  <2> QED BY <2>2, ConcatProperties
<1>7. \A i \in 1..m : i # m => i \in 1..m - 1
  BY <1>3
<1>8. g \in [1..m -> Seq(T)]
  <2> HIDE DEF last
  <2> QED BY <1>6, <1>7
<1>9. Joins(g, m, seqs)
  <2> SUFFICES ASSUME NEW i \in 1..m
               PROVE  g[i] = IF i = 1 THEN seqs[i] ELSE g[i - 1] \o seqs[i]
    BY DEF Joins
  <2>1. i # 1 => i - 1 \in 1..m /\ i - 1 # m
    BY <1>3
  <2>2. i # 1 => g[i - 1] = f[i - 1]
    BY <2>1
  <2>3. CASE i = m
    BY <2>2, <2>3
  <2>4. CASE i # m
    BY <1>5, <1>7, <2>2, <2>4 DEF Joins
  <2> QED BY <2>3, <2>4
<1> HIDE DEF g
<1> QED BY <1>2, <1>8, <1>9

LEMMA JoinsAgree ==
    ASSUME NEW n \in Nat, NEW f, NEW g, NEW seqs, Joins(f, n, seqs), Joins(g, n, seqs)
    PROVE  \A i \in 1..n : f[i] = g[i]
<1> DEFINE Wrong == {i \in 1..n : f[i] # g[i]}
<1> SUFFICES ASSUME Wrong # {} PROVE FALSE
  OBVIOUS
<1>1. PICK m \in Wrong : \A k \in Wrong : m <= k
  <2>1. Wrong \in SUBSET Nat
    OBVIOUS
  <2> HIDE DEF Wrong
  <2> QED BY <2>1, LeastExists
<1>2. m \in 1..n /\ f[m] # g[m]
  OBVIOUS
<1>3. m # 1 => m - 1 \in 1..n /\ ~(m <= m - 1)
  BY <1>2
<1>4. m # 1 => f[m - 1] = g[m - 1]
  BY <1>1, <1>3
<1> HIDE DEF Wrong
<1> QED BY <1>2, <1>4 DEF Joins

\* What FlattenSeq does.
LEMMA Flattened ==
    ASSUME NEW T, NEW seqs \in Seq(Seq(T)), Len(seqs) > 0
    PROVE  \E f \in [1..Len(seqs) -> Seq(T)] :
               Joins(f, Len(seqs), seqs) /\ FlattenSeq(seqs) = f[Len(seqs)]
<1> DEFINE n == Len(seqs)
           Joined(f) == f = [i \in 1..n |-> IF i = 1 THEN seqs[i] ELSE f[i - 1] \o seqs[i]]
           h == CHOOSE f : Joined(f)
<1>0. n \in Nat /\ n \in 0..n /\ n # 0
  BY LenProperties
<1>1. PICK f \in [1..n -> Seq(T)] : Joins(f, n, seqs)
  BY <1>0, JoinsExist
<1>2. Joined(f)
  BY <1>1 DEF Joins
<1>3. Joined(h)
  BY <1>2
<1>4. FlattenSeq(seqs) = h[n]
  BY <1>0 DEF FlattenSeq
<1>5. Joins(h, n, seqs)
  BY <1>3 DEF Joins
<1> HIDE DEF h
<1>6. h[n] = f[n]
  <2>1. n \in 1..n
    BY <1>0
  <2> QED BY <1>0, <1>1, <1>5, <2>1, JoinsAgree
<1> QED BY <1>1, <1>4, <1>6

LEMMA FlattenedType ==
    ASSUME NEW T, NEW seqs \in Seq(Seq(T))
    PROVE  FlattenSeq(seqs) \in Seq(T)
<1>0. Len(seqs) \in Nat
  BY LenProperties
<1>1. CASE Len(seqs) = 0
  <2>1. seqs = <<>>
    BY <1>1, EmptySeq
  <2> QED BY <1>1, <2>1, EmptySeq DEF FlattenSeq
<1>2. CASE Len(seqs) > 0
  <2>1. Len(seqs) \in 1..Len(seqs)
    BY <1>0, <1>2
  <2> QED BY <1>2, <2>1, Flattened
<1> QED BY <1>0, <1>1, <1>2

LEMMA FlattenedAppend ==
    ASSUME NEW T, NEW seqs \in Seq(Seq(T)), NEW t \in Seq(T)
    PROVE  FlattenSeq(Append(seqs, t)) = FlattenSeq(seqs) \o t
<1> DEFINE n == Len(seqs)
           more == Append(seqs, t)
<1>0. n \in Nat
  BY LenProperties
<1>1. /\ more \in Seq(Seq(T)) /\ Len(more) = n + 1 /\ more[n + 1] = t
      /\ \A i \in 1..n : more[i] = seqs[i]
  BY AppendProperties
<1> HIDE DEF more
<1>2. PICK g \in [1..n + 1 -> Seq(T)] : Joins(g, n + 1, more) /\ FlattenSeq(more) = g[n + 1]
  BY <1>0, <1>1, Flattened
<1>3. g[n + 1] = IF n = 0 THEN t ELSE g[n] \o t
  <2>1. n + 1 \in 1..n + 1 /\ (n + 1 = 1 <=> n = 0) /\ (n + 1) - 1 = n
    BY <1>0
  <2>2. g[n + 1] = IF n + 1 = 1 THEN more[n + 1] ELSE g[(n + 1) - 1] \o more[n + 1]
    BY <1>2, <2>1 DEF Joins
  <2> QED BY <1>1, <2>1, <2>2
<1>4. CASE n = 0
  <2>1. seqs = <<>> /\ FlattenSeq(seqs) = <<>>
    BY <1>4, EmptySeq DEF FlattenSeq
  <2> QED BY <1>2, <1>3, <1>4, <2>1, ConcatEmptySeq DEF more
<1>5. CASE n > 0
  <2>1. PICK f \in [1..n -> Seq(T)] : Joins(f, n, seqs) /\ FlattenSeq(seqs) = f[n]
    BY <1>5, Flattened
  <2>2. Joins(g, n, seqs)
    <3>1. \A i \in 1..n : i \in 1..n + 1
      BY <1>0
    <3> QED BY <1>1, <1>2, <3>1 DEF Joins
  <2>3. n \in 1..n
    BY <1>0, <1>5
  <2>4. g[n] = f[n]
    BY <1>0, <2>1, <2>2, <2>3, JoinsAgree
  <2> QED BY <1>2, <1>3, <1>5, <2>1, <2>4 DEF more
<1> QED BY <1>0, <1>4, <1>5

-----------------------------------------------------------------------------
(* Ranking                                                                 *)

LEMMA ScoreType ==
    ASSUME NEW q, NEW source, IsFiniteSet(q.words)
    PROVE  /\ Cardinality(q.words \cap source.words) \in Nat
           /\ Score(q, source) \in Nat
<1>1. Cardinality(q.words \cap source.words) \in Nat
  BY FS_Intersection, FS_CardinalityType
<1> QED BY <1>1 DEF Score

\* Of two sources one is ahead, and never both.
LEMMA AheadOrders ==
    ASSUME NEW q, NEW sources, IsFiniteSet(q.words), NEW i \in Nat, NEW j \in Nat
    PROVE  /\ ~Ahead(q, sources, i, i)
           /\ i # j => Ahead(q, sources, i, j) \/ Ahead(q, sources, j, i)
           /\ Ahead(q, sources, i, j) =>
                  \A k \in Nat : Ahead(q, sources, k, i) => Ahead(q, sources, k, j)
<1>1. \A k \in Nat : Score(q, sources[k]) \in Nat
  BY ScoreType
<1> QED BY <1>1 DEF Ahead

\* The places of n sources are the numbers from 1 to n, each taken once, and who
\* is ahead has the lower one.
LEMMA PlacesTaken ==
    ASSUME NEW q, NEW sources, IsFiniteSet(q.words),
           NEW n \in Nat, DOMAIN sources = 1..n
    PROVE  /\ \A j \in 1..n : Place(q, sources, j) \in 1..n
           /\ \A k \in 1..n : \E j \in 1..n : Place(q, sources, j) = k
           /\ \A i, j \in 1..n : Ahead(q, sources, i, j) =>
                                     Place(q, sources, i) < Place(q, sources, j)
<1> DEFINE Leaders(j) == {i \in 1..n : Ahead(q, sources, i, j)}
           places == [j \in 1..n |-> Place(q, sources, j)]
<1>0. /\ \A j \in 1..n : j \in Nat
      /\ \A j \in 1..n : Place(q, sources, j) = Cardinality(Leaders(j)) + 1
  BY DEF Place
<1>1. IsFiniteSet(1..n) /\ Cardinality(1..n) = n
  BY FS_Interval
<1>2. ASSUME NEW j \in 1..n
      PROVE  /\ IsFiniteSet(Leaders(j)) /\ Cardinality(Leaders(j)) \in Nat
             /\ Cardinality(Leaders(j)) <= n - 1
  <2>1. Leaders(j) \in SUBSET (1..n \ {j})
    BY <1>0, AheadOrders
  <2>2. IsFiniteSet(1..n \ {j}) /\ Cardinality(1..n \ {j}) = n - 1
    BY <1>1, FS_RemoveElement
  <2> HIDE DEF Leaders
  <2> QED BY <2>1, <2>2, FS_Subset, FS_CardinalityType
<1>3. ASSUME NEW j \in 1..n
      PROVE  Place(q, sources, j) \in 1..n
  <2> HIDE DEF Leaders
  <2>1. Cardinality(Leaders(j)) \in Nat /\ Cardinality(Leaders(j)) <= n - 1
    BY <1>2
  <2>2. Place(q, sources, j) = Cardinality(Leaders(j)) + 1
    BY <1>0
  <2> QED BY <2>1, <2>2
<1>4. ASSUME NEW i \in 1..n, NEW j \in 1..n, Ahead(q, sources, i, j)
      PROVE  Place(q, sources, i) < Place(q, sources, j)
  <2>1. Leaders(i) \subseteq Leaders(j)
    BY <1>0, <1>4, AheadOrders
  <2>2. i \in Leaders(j) /\ i \notin Leaders(i)
    BY <1>0, <1>4, AheadOrders
  <2> HIDE DEF Leaders
  <2>3. Cardinality(Leaders(i)) < Cardinality(Leaders(j))
    BY <1>2, <2>1, <2>2, FS_Subset
  <2> QED BY <1>0, <1>2, <2>3
<1>5. \A i, j \in 1..n : i # j => Place(q, sources, i) # Place(q, sources, j)
  BY <1>0, <1>3, <1>4, AheadOrders
<1>6. places \in Injection(1..n, 1..n)
  BY <1>3, <1>5 DEF Injection, IsInjective
<1>7. places \in Surjection(1..n, 1..n)
  <2> HIDE DEF places
  <2> QED BY <1>1, <1>6, FS_Injection
<1>8. \A k \in 1..n : \E j \in 1..n : places[j] = k
  <2> HIDE DEF places
  <2> QED BY <1>7 DEF Surjection
<1> QED BY <1>3, <1>4, <1>8

\* The ranking holds the same sources, and none below one with a lower score.
LEMMA RankedSources ==
    ASSUME NEW q, IsFiniteSet(q.words), NEW T, NEW sources \in Seq(T)
    PROVE  /\ Ranked(q, sources) \in Seq(T)
           /\ Len(Ranked(q, sources)) = Len(sources)
           /\ \A i \in 1..Len(sources) :
                  \E k \in 1..Len(sources) : Ranked(q, sources)[k] = sources[i]
           /\ \A k, l \in 1..Len(sources) : k < l =>
                  Score(q, Ranked(q, sources)[k]) >= Score(q, Ranked(q, sources)[l])
<1> DEFINE n == Len(sources)
           At(k) == CHOOSE j \in DOMAIN sources : Place(q, sources, j) = k
<1>0. n \in Nat /\ DOMAIN sources = 1..n /\ \A j \in 1..n : j \in Nat /\ sources[j] \in T
  BY LenProperties, ElementOfSeq
<1>1. \A k \in 1..n : At(k) \in 1..n /\ Place(q, sources, At(k)) = k
  BY <1>0, PlacesTaken
<1>2. \A k \in 1..n : Ranked(q, sources)[k] = sources[At(k)]
  BY <1>0 DEF Ranked
<1>3. Ranked(q, sources) \in [1..n -> T]
  BY <1>0, <1>1 DEF Ranked
<1> HIDE DEF At
<1>4. Ranked(q, sources) \in Seq(T) /\ Len(Ranked(q, sources)) = n
  BY <1>0, <1>3
<1>5. \A i, j \in 1..n : Place(q, sources, i) < Place(q, sources, j) =>
          Ahead(q, sources, i, j)
  <2>1. \A i, j \in 1..n : /\ Place(q, sources, i) \in Nat
                           /\ Ahead(q, sources, j, i) =>
                                  Place(q, sources, j) < Place(q, sources, i)
    BY <1>0, PlacesTaken
  <2> QED BY <1>0, <2>1, AheadOrders
<1>6. ASSUME NEW i \in 1..n
      PROVE  \E k \in 1..n : Ranked(q, sources)[k] = sources[i]
  <2> DEFINE k == Place(q, sources, i)
  <2>1. k \in 1..n
    BY <1>0, PlacesTaken
  <2>2. At(k) = i
    <3>1. At(k) \in 1..n /\ Place(q, sources, At(k)) = k
      BY <1>1, <2>1
    <3>2. \A a, b \in 1..n : Place(q, sources, a) = Place(q, sources, b) => a = b
      <4>1. \A a, b \in 1..n : /\ Place(q, sources, a) \in Nat
                               /\ Ahead(q, sources, a, b) =>
                                      Place(q, sources, a) < Place(q, sources, b)
        BY <1>0, PlacesTaken
      <4> QED BY <1>0, <4>1, AheadOrders
    <3> QED BY <3>1, <3>2
  <2> QED BY <1>2, <2>1, <2>2
<1>7. ASSUME NEW k \in 1..n, NEW l \in 1..n, k < l
      PROVE  Score(q, Ranked(q, sources)[k]) >= Score(q, Ranked(q, sources)[l])
  <2>1. Ahead(q, sources, At(k), At(l))
    BY <1>1, <1>5, <1>7
  <2>2. Score(q, sources[At(k)]) \in Nat /\ Score(q, sources[At(l)]) \in Nat
    BY ScoreType
  <2> QED BY <1>2, <2>1, <2>2 DEF Ahead
<1> QED BY <1>4, <1>6, <1>7

\* What is retrieved: sources of the schema, no more than may be shown, between
\* which every relationship runs, and none left out that scores higher.
LEMMA RetrievedSources ==
    ASSUME NEW q, IsFiniteSet(q.words), NEW s, NEW T, s.sources \in Seq(T)
    PROVE  LET r == Retrieved(q, s)
               names == {r.sources[i].name : i \in DOMAIN r.sources}
           IN  /\ r.sources \in Seq(T)
               /\ Len(r.sources) <= MaxShown
               /\ \A e \in r.edges : {e.source, e.target} \subseteq names
               /\ \A x \in ToSet(s.sources) \ ToSet(r.sources), y \in ToSet(r.sources) :
                      Score(q, y) >= Score(q, x)
<1> DEFINE ranked == Ranked(q, s.sources)
           n == Len(s.sources)
           m == IF Len(ranked) < MaxShown THEN Len(ranked) ELSE MaxShown
           best == SubSeq(ranked, 1, m)
<1>0. /\ n \in Nat /\ MaxShown \in Nat \ {0}
      /\ ranked \in Seq(T) /\ Len(ranked) = n
  BY LenProperties, RankedSources, InterpretationAssumption
<1>1. m \in Nat /\ m <= n /\ m <= MaxShown
  BY <1>0
<1>2. Retrieved(q, s).sources = best
  BY DEF Retrieved
<1>3. \A e \in Retrieved(q, s).edges :
          {e.source, e.target} \subseteq {best[i].name : i \in DOMAIN best}
  BY DEF Retrieved
<1>4. best \in Seq(T) /\ Len(best) = m /\ \A k \in 1..m : best[k] = ranked[k]
  <2> HIDE DEF ranked, m
  <2>1. 1 \in Int /\ m \in Int
    BY <1>1
  <2>2. \A k \in 1..m : k \in 1..Len(ranked)
    BY <1>0, <1>1
  <2> QED BY <1>0, <1>1, <2>1, <2>2, SubSeqProperties
<1> HIDE DEF m, best
<1>5. DOMAIN best = 1..m
  BY <1>4, LenProperties
<1>6. ASSUME NEW x \in ToSet(s.sources) \ ToSet(best), NEW y \in ToSet(best)
      PROVE  Score(q, y) >= Score(q, x)
  <2>1. PICK k \in 1..m : y = ranked[k]
    BY <1>4, <1>5 DEF ToSet
  <2>2. PICK i \in 1..n : x = s.sources[i]
    BY LenProperties DEF ToSet
  <2>3. PICK l \in 1..n : ranked[l] = x
    BY <2>2, RankedSources
  <2>4. l \notin 1..m
    BY <1>4, <1>5, <2>3 DEF ToSet
  <2>5. k \in 1..n /\ k < l
    BY <1>0, <1>1, <2>4
  <2> QED BY <2>1, <2>3, <2>5, RankedSources
<1> QED BY <1>1, <1>2, <1>3, <1>4, <1>6

-----------------------------------------------------------------------------
(* List comprehensions                                                     *)

\* The members of a sequence that are in a set: what Those returns for a test
\* that holds of the members of the set.
Chosen(seq, S) == FlattenSeq([i \in DOMAIN seq |-> IF seq[i] \in S THEN <<seq[i]>> ELSE <<>>])

LEMMA ChosenType ==
    ASSUME NEW T, NEW S, NEW seq \in Seq(T)
    PROVE  Chosen(seq, S) \in Seq(T \cap S)
<1> DEFINE parts == [i \in DOMAIN seq |-> IF seq[i] \in S THEN <<seq[i]>> ELSE <<>>]
<1>1. Len(seq) \in Nat /\ DOMAIN seq = 1..Len(seq) /\ \A i \in 1..Len(seq) : seq[i] \in T
  BY LenProperties, ElementOfSeq
<1>2. \A i \in DOMAIN seq : parts[i] \in Seq(T \cap S)
  <2>1. \A x \in T : x \in S => <<x>> \in Seq(T \cap S)
    OBVIOUS
  <2>2. <<>> \in Seq(T \cap S)
    OBVIOUS
  <2> QED BY <1>1, <2>1, <2>2
<1>3. parts \in Seq(Seq(T \cap S))
  <2>1. parts \in [1..Len(seq) -> Seq(T \cap S)]
    BY <1>1, <1>2
  <2> HIDE DEF parts
  <2> QED BY <1>1, <2>1
<1> HIDE DEF parts
<1>4. FlattenSeq(parts) \in Seq(T \cap S)
  BY ONLY <1>3, FlattenedType
<1>5. Chosen(seq, S) = FlattenSeq(parts)
  BY DEF Chosen, parts
<1> QED BY <1>4, <1>5

LEMMA ChosenAppend ==
    ASSUME NEW T, NEW S, NEW seq \in Seq(T), NEW x \in T
    PROVE  Chosen(Append(seq, x), S) =
               Chosen(seq, S) \o (IF x \in S THEN <<x>> ELSE <<>>)
<1> DEFINE Part(y) == IF y \in S THEN <<y>> ELSE <<>>
           parts == [i \in DOMAIN seq |-> Part(seq[i])]
           more  == Append(seq, x)
<1>1. Len(seq) \in Nat /\ DOMAIN seq = 1..Len(seq) /\ \A i \in 1..Len(seq) : seq[i] \in T
  BY LenProperties, ElementOfSeq
<1>2. /\ DOMAIN more = 1..Len(seq) + 1 /\ more[Len(seq) + 1] = x
      /\ \A i \in 1..Len(seq) : more[i] = seq[i]
  BY AppendProperties, LenProperties
<1>3. \A y \in T : Part(y) \in Seq(T)
  OBVIOUS
<1>4. parts \in Seq(Seq(T)) /\ Len(parts) = Len(seq)
  <2>1. parts \in [1..Len(seq) -> Seq(T)]
    BY <1>1, <1>3
  <2> HIDE DEF parts
  <2> QED BY <1>1, <2>1
<1> HIDE DEF more, Part
<1>5. [i \in DOMAIN more |-> Part(more[i])] = Append(parts, Part(x))
  <2>1. Append(parts, Part(x)) \in Seq(Seq(T))
    BY <1>3, <1>4, AppendProperties
  <2>2. /\ DOMAIN Append(parts, Part(x)) = 1..Len(seq) + 1
        /\ Append(parts, Part(x))[Len(seq) + 1] = Part(x)
        /\ \A i \in 1..Len(seq) : Append(parts, Part(x))[i] = parts[i]
    <3>1. Part(x) \in Seq(T)
      BY <1>3
    <3>2. /\ Len(Append(parts, Part(x))) = Len(parts) + 1
          /\ Append(parts, Part(x))[Len(parts) + 1] = Part(x)
          /\ \A i \in 1..Len(parts) : Append(parts, Part(x))[i] = parts[i]
      <4> HIDE DEF parts
      <4> QED BY <3>1, <1>4, AppendProperties
    <3>3. DOMAIN Append(parts, Part(x)) = 1..Len(Append(parts, Part(x)))
      BY <2>1, LenProperties
    <3> HIDE DEF parts
    <3> QED BY <1>4, <3>2, <3>3
  <2>3. \A i \in 1..Len(seq) : parts[i] = Part(seq[i])
    BY <1>1
  <2>4. \A i \in 1..Len(seq) + 1 : i \in 1..Len(seq) \/ i = Len(seq) + 1
    BY <1>1
  <2> HIDE DEF parts
  <2>5. \A i \in 1..Len(seq) + 1 : Part(more[i]) = Append(parts, Part(x))[i]
    BY <1>2, <2>2, <2>3, <2>4
  <2> DEFINE longer == Append(parts, Part(x))
  <2>6. longer = [i \in DOMAIN longer |-> longer[i]]
    <3>1. longer \in [1..Len(longer) -> Seq(T)]
      BY <2>1, LenProperties
    <3> HIDE DEF longer
    <3> QED BY <3>1
  <2>7. DOMAIN longer = DOMAIN more
    BY <1>2, <2>2
  <2>8. \A i \in DOMAIN more : Part(more[i]) = longer[i]
    BY <1>2, <2>5
  <2> HIDE DEF longer
  <2>9. [i \in DOMAIN more |-> Part(more[i])] = longer
    BY ONLY <2>6, <2>7, <2>8
  <2> QED BY <2>9 DEF longer
<1>6. FlattenSeq(Append(parts, Part(x))) = FlattenSeq(parts) \o Part(x)
  <2> HIDE DEF parts
  <2> QED BY <1>3, <1>4, FlattenedAppend
<1> QED BY <1>5, <1>6 DEF Chosen, more, Part

LEMMA NothingFlattened == FlattenSeq(<<>>) = <<>>
BY DEF FlattenSeq

LEMMA NoneChosen ==
    ASSUME NEW S
    PROVE  Chosen(<<>>, S) = <<>>
<1>1. [i \in DOMAIN <<>> |-> IF <<>>[i] \in S THEN <<<<>>[i]>> ELSE <<>>] = <<>>
  OBVIOUS
<1> QED BY <1>1, NothingFlattened DEF Chosen
-----------------------------------------------------------------------------
(* The inductive invariant                                                 *)

\* The sources schema() may offer under a policy.
Offered(policy) ==
    {x \in UNION {ToSet(s.sources) : s \in Schemas} : policy # Anything => x.name \in policy}

\* What is ranked is known, and so is how often the provider was asked.
Counted == /\ IsFiniteSet(question.words)
           /\ calls \in Nat
           /\ pc \in {"asked", "retrieving"} => calls = 0

\* While a question is under way the schema holds what the policy offers.
CutToPolicy ==
    pc \in {"retrieving", "generating", "compiling"} => schema.sources \in Seq(Offered(allowed))

\* What is shown is part of it, within the budgets, and the best of it.
ShownBest ==
    pc \in {"generating", "compiling"} =>
        LET names == {shown.sources[i].name : i \in DOMAIN shown.sources}
        IN  /\ shown.sources \in Seq(Offered(allowed))
            /\ \A e \in shown.edges : {e.source, e.target} \subseteq names
            /\ Len(shown.sources) <= MaxShown /\ Size(shown.sources) <= MaxSize
            /\ \A x \in ToSet(schema.sources) \ ToSet(shown.sources), y \in ToSet(shown.sources) :
                   Score(question, y) >= Score(question, x)

Words == {"rules", "format", "payload", "repair"}
Sayings == [role : {"system", "user"}, texts : Seq(Words)]

Repairs(n) == [i \in 1..n |-> "repair"]
Form(p) == IF p = "ollama" THEN <<"format">> ELSE <<>>

\* A request that says certain texts, the user's in the user's messages.
Says(r, texts) ==
    /\ r.system \in Seq(Words) /\ r.messages \in Seq(Sayings)
    /\ r.system \o Texts(r.messages) = texts
    /\ \A m \in ToSet(r.messages) :
           m.role = "user" <=> ToSet(m.texts) \subseteq {"payload", "repair"}

\* What ToldOnce says of a request when the provider has been asked n times.
Tells(r, p, n) == Says(r, <<"rules">> \o Form(p) \o <<"payload">> \o Repairs(n - 1))

\* The messages that wait for the next call are the ones it takes.
Prepared ==
    /\ provider \in Providers
    /\ pc = "generating" => /\ messages \in Seq(Sayings)
                            /\ messages # <<>> /\ messages[1].role = "system"
                            /\ Tells(Request(messages), provider, calls + 1)

Told == calls > 0 => Tells(request, provider, calls)

IInv == Counted /\ CutToPolicy /\ ShownBest /\ SessionConsistent /\ Prepared /\ Told

-----------------------------------------------------------------------------
(* What the provider is told                                               *)

LEMMA MessageType ==
    ASSUME NEW role \in {"system", "user"}, NEW text \in Words
    PROVE  /\ Message(role, text) \in Sayings
           /\ Message(role, text).role = role /\ Message(role, text).texts = <<text>>
BY DEF Message, Sayings

\* One more message adds its texts to the texts.
LEMMA TextsAppend ==
    ASSUME NEW ms \in Seq(Sayings), NEW m \in Sayings
    PROVE  /\ Texts(ms) \in Seq(Words)
           /\ Texts(Append(ms, m)) = Texts(ms) \o m.texts
<1> DEFINE texts  == [i \in DOMAIN ms |-> ms[i].texts]
           more   == Append(ms, m)
           longer == Append(texts, m.texts)
<1>1. Len(ms) \in Nat /\ DOMAIN ms = 1..Len(ms) /\ \A i \in 1..Len(ms) : ms[i] \in Sayings
  BY LenProperties, ElementOfSeq
<1>2. /\ DOMAIN more = 1..Len(ms) + 1 /\ more[Len(ms) + 1] = m
      /\ \A i \in 1..Len(ms) : more[i] = ms[i]
  BY AppendProperties, LenProperties
<1>3. \A x \in Sayings : x.texts \in Seq(Words)
  BY DEF Sayings
<1>4. texts \in Seq(Seq(Words)) /\ Len(texts) = Len(ms)
  <2>1. texts \in [1..Len(ms) -> Seq(Words)]
    BY <1>1, <1>3
  <2> HIDE DEF texts
  <2> QED BY <1>1, <2>1
<1>5. \A i \in 1..Len(ms) : texts[i] = ms[i].texts
  BY <1>1
<1> HIDE DEF texts, more
<1>6. /\ longer \in Seq(Seq(Words)) /\ Len(longer) = Len(ms) + 1
      /\ longer[Len(ms) + 1] = m.texts
      /\ \A i \in 1..Len(ms) : longer[i] = texts[i]
  BY <1>3, <1>4, AppendProperties
<1> HIDE DEF longer
<1>7. [i \in DOMAIN more |-> more[i].texts] = longer
  <2>1. longer = [i \in DOMAIN longer |-> longer[i]]
    BY <1>6, LenProperties
  <2>2. DOMAIN longer = DOMAIN more
    BY <1>2, <1>6, LenProperties
  <2>3. \A i \in 1..Len(ms) + 1 : i \in 1..Len(ms) \/ i = Len(ms) + 1
    BY <1>1
  <2>4. \A i \in DOMAIN more : more[i].texts = longer[i]
    BY <1>2, <1>5, <1>6, <2>3
  <2> QED BY ONLY <2>1, <2>2, <2>4
<1>8. FlattenSeq(longer) = FlattenSeq(texts) \o m.texts
  BY <1>3, <1>4, FlattenedAppend DEF longer
<1>9. FlattenSeq(texts) \in Seq(Words)
  BY <1>4, FlattenedType
<1> QED BY <1>7, <1>8, <1>9 DEF Texts, texts, more

LEMMA NothingSaid == Texts(<<>>) = <<>>
<1>1. [i \in DOMAIN <<>> |-> <<>>[i].texts] = <<>>
  OBVIOUS
<1> QED BY <1>1, NothingFlattened DEF Texts

\* What Anthropic is sent apart and what it is sent as messages.
LEMMA SystemChosen ==
    ASSUME NEW ms \in Seq(Sayings)
    PROVE  /\ Those(ms, LAMBDA m : m.role = "system") =
                  Chosen(ms, {m \in Sayings : m.role = "system"})
           /\ Those(ms, LAMBDA m : m.role # "system") =
                  Chosen(ms, {m \in Sayings : m.role # "system"})
<1>1. \A i \in DOMAIN ms : ms[i] \in Sayings
  BY LenProperties, ElementOfSeq
<1>2. [i \in DOMAIN ms |-> IF ms[i].role = "system" THEN <<ms[i]>> ELSE <<>>] =
          [i \in DOMAIN ms |-> IF ms[i] \in {m \in Sayings : m.role = "system"}
                               THEN <<ms[i]>> ELSE <<>>]
  BY <1>1
<1>3. [i \in DOMAIN ms |-> IF ms[i].role # "system" THEN <<ms[i]>> ELSE <<>>] =
          [i \in DOMAIN ms |-> IF ms[i] \in {m \in Sayings : m.role # "system"}
                               THEN <<ms[i]>> ELSE <<>>]
  BY <1>1
<1> QED BY <1>2, <1>3 DEF Those, Chosen

\* A message of the user's that is appended is the last that every provider is sent.
LEMMA RequestAppend ==
    ASSUME NEW ms \in Seq(Sayings), ms # <<>>, ms[1].role = "system",
           NEW m \in Sayings, m.role = "user", provider \in Providers,
           Request(ms).messages \in Seq(Sayings)
    PROVE  Request(Append(ms, m)) =
               [system |-> Request(ms).system, messages |-> Append(Request(ms).messages, m)]
<1> DEFINE more == Append(ms, m)
<1>0. /\ more \in Seq(Sayings) /\ Len(more) = Len(ms) + 1
      /\ \A i \in 1..Len(ms) : more[i] = ms[i]
      /\ more[Len(ms) + 1] = m
  BY AppendProperties
<1>1. CASE provider = "openai"
  BY <1>1 DEF Request
<1>2. CASE provider = "anthropic"
  <2> DEFINE System == {x \in Sayings : x.role = "system"}
             Others == {x \in Sayings : x.role # "system"}
  <2>1. Chosen(more, System) = Chosen(ms, System)
    <3>1. Chosen(ms, System) \in Seq(Sayings \cap System)
      BY ChosenType
    <3>2. m \notin System
      OBVIOUS
    <3>3. Chosen(more, System) = Chosen(ms, System) \o <<>>
      <4> HIDE DEF System
      <4>1. Chosen(more, System) = Chosen(ms, System) \o (IF m \in System THEN <<m>> ELSE <<>>)
        BY ChosenAppend
      <4> QED BY <3>2, <4>1
    <3> HIDE DEF System, more
    <3> QED BY <3>1, <3>3, ConcatEmptySeq
  <2>2. Chosen(more, Others) = Append(Chosen(ms, Others), m)
    <3>1. Chosen(ms, Others) \in Seq(Sayings \cap Others)
      BY ChosenType
    <3>2. m \in Others
      OBVIOUS
    <3>3. Chosen(more, Others) = Chosen(ms, Others) \o <<m>>
      <4> HIDE DEF Others
      <4> QED BY <3>2, ChosenAppend
    <3>4. m \in Sayings \cap Others
      BY <3>2
    <3> HIDE DEF Others, more
    <3> QED BY <3>1, <3>3, <3>4, AppendIsConcat
  <2>3. /\ Request(more) = [system |-> Texts(Chosen(more, System)), messages |-> Chosen(more, Others)]
        /\ Request(ms) = [system |-> Texts(Chosen(ms, System)), messages |-> Chosen(ms, Others)]
    <3> HIDE DEF more
    <3> QED BY <1>0, <1>2, SystemChosen DEF Request
  <2> HIDE DEF System, Others, more
  <2>4. Request(more) = [system |-> Texts(Chosen(ms, System)), messages |-> Append(Chosen(ms, Others), m)]
    BY <2>1, <2>2, <2>3
  <2> QED BY <2>3, <2>4 DEF more
<1>3. CASE provider = "ollama"
  <2>1. /\ Len(ms) \in Nat /\ Len(ms) >= 1
        /\ \A i \in 1..Len(ms) : ms[i] \in Sayings
    BY LenProperties, ElementOfSeq, EmptySeq
  <2> DEFINE first == [ms[1] EXCEPT !.texts = Append(@, "format")]
  <2>2. Grounded(ms) = [ms EXCEPT ![1] = first]
    BY <2>1 DEF Grounded
  <2>3. Grounded(more) = [more EXCEPT ![1] = first]
    <3>1. more[1] = ms[1] /\ Head(more) = more[1] /\ more # <<>>
      BY <1>0, <2>1
    <3> HIDE DEF more
    <3> QED BY <3>1 DEF Grounded
  <2>4. first \in Sayings
    <3>1. ms[1] \in Sayings
      BY <2>1
    <3>2. "format" \in Words
      BY DEF Words
    <3>3. Append(ms[1].texts, "format") \in Seq(Words)
      BY <3>1, <3>2, AppendProperties DEF Sayings
    <3> QED BY <3>1, <3>3 DEF Sayings
  <2> HIDE DEF first
  <2>5. [more EXCEPT ![1] = first] = Append([ms EXCEPT ![1] = first], m)
    <3> DEFINE changed == [ms EXCEPT ![1] = first]
               left  == [more EXCEPT ![1] = first]
               right == Append(changed, m)
    <3>1. /\ changed \in Seq(Sayings) /\ Len(changed) = Len(ms)
          /\ \A i \in 1..Len(ms) : changed[i] = IF i = 1 THEN first ELSE ms[i]
      BY <2>1, <2>4
    <3>2. left \in Seq(Sayings) /\ Len(left) = Len(ms) + 1
      <4>1. more \in [1..Len(ms) + 1 -> Sayings]
        BY <1>0, LenProperties
      <4> HIDE DEF more
      <4>2. left \in [1..Len(ms) + 1 -> Sayings]
        BY <2>4, <4>1
      <4> HIDE DEF left
      <4> QED BY <2>1, <4>2
    <3>3. \A i \in 1..Len(ms) + 1 : left[i] = IF i = 1 THEN first ELSE more[i]
      <4>1. more \in [1..Len(ms) + 1 -> Sayings]
        BY <1>0, LenProperties
      <4> HIDE DEF more
      <4> QED BY <4>1
    <3> HIDE DEF changed, left
    <3>4. /\ right \in Seq(Sayings) /\ Len(right) = Len(ms) + 1
          /\ \A i \in 1..Len(ms) : right[i] = changed[i]
          /\ right[Len(ms) + 1] = m
      BY <3>1, AppendProperties
    <3> HIDE DEF right, more
    <3>5. \A i \in 1..Len(ms) + 1 : left[i] = right[i]
      <4> TAKE i \in 1..Len(ms) + 1
      <4>1. CASE i \in 1..Len(ms)
        BY <1>0, <3>1, <3>3, <3>4, <4>1
      <4>2. CASE i = Len(ms) + 1
        BY <1>0, <2>1, <3>3, <3>4, <4>2
      <4> QED BY <2>1, <4>1, <4>2
    <3>6. left = right
      BY <3>2, <3>4, <3>5, SeqEqual
    <3> QED BY <3>6 DEF left, right, changed
  <2>6. Request(more) = [system |-> <<>>, messages |-> Append(Grounded(ms), m)]
    <3> HIDE DEF more
    <3> QED BY <1>3, <2>2, <2>3, <2>5 DEF Request, more
  <2>7. Request(ms) = [system |-> <<>>, messages |-> Grounded(ms)]
    BY <1>3 DEF Request
  <2> QED BY <2>6, <2>7
<1> QED BY <1>1, <1>2, <1>3, InterpretationAssumption

LEMMA RepairsGrow ==
    ASSUME NEW n \in Nat
    PROVE  Repairs(n) \in Seq(Words) /\ Repairs(n + 1) = Repairs(n) \o <<"repair">>
<1>1. "repair" \in Words
  BY DEF Words
<1>2. /\ Repairs(n) \in Seq(Words) /\ Len(Repairs(n)) = n
      /\ Repairs(n + 1) \in Seq(Words) /\ Len(Repairs(n + 1)) = n + 1
      /\ \A i \in 1..n : Repairs(n)[i] = "repair"
      /\ \A i \in 1..n + 1 : Repairs(n + 1)[i] = "repair"
  BY <1>1 DEF Repairs
<1> DEFINE more == Append(Repairs(n), "repair")
<1>3. /\ more \in Seq(Words) /\ Len(more) = n + 1
      /\ \A i \in 1..n : more[i] = Repairs(n)[i]
      /\ more[n + 1] = "repair"
  BY <1>1, <1>2, AppendProperties
<1> HIDE DEF more
<1>4. \A i \in 1..n + 1 : more[i] = Repairs(n + 1)[i]
  BY <1>2, <1>3
<1>5. more = Repairs(n + 1)
  BY <1>2, <1>3, <1>4, SeqEqual
<1> QED BY <1>1, <1>2, <1>5, AppendIsConcat DEF more

LEMMA FormType ==
    ASSUME NEW p
    PROVE  Form(p) \in Seq(Words)
<1>1. <<"format">> \in Seq(Words) /\ <<>> \in Seq(Words)
  BY DEF Words
<1> QED BY <1>1 DEF Form

\* A message of the user's that is told after what a request tells.
LEMMA ToldAfter ==
    ASSUME NEW r, NEW told, Says(r, told), NEW text \in {"payload", "repair"},
           NEW s, s = [system |-> r.system,
                       messages |-> Append(r.messages, Message("user", text))]
    PROVE  Says(s, told \o <<text>>)
<1> DEFINE x == Message("user", text)
<1>0. /\ r.system \in Seq(Words) /\ r.messages \in Seq(Sayings)
      /\ r.system \o Texts(r.messages) = told
      /\ \A m \in ToSet(r.messages) :
             m.role = "user" <=> ToSet(m.texts) \subseteq {"payload", "repair"}
  BY DEF Says
<1>1. x \in Sayings /\ x.role = "user" /\ x.texts = <<text>> /\ <<text>> \in Seq(Words)
  BY MessageType DEF Words
<1> HIDE DEF x
<1>2. s.system = r.system /\ s.messages = Append(r.messages, x)
  BY DEF x
<1>3. /\ s.messages \in Seq(Sayings) /\ Len(s.messages) = Len(r.messages) + 1
      /\ \A i \in 1..Len(r.messages) : s.messages[i] = r.messages[i]
      /\ s.messages[Len(r.messages) + 1] = x
  BY <1>0, <1>1, <1>2, AppendProperties
<1>4. /\ Texts(r.messages) \in Seq(Words)
      /\ Texts(s.messages) = Texts(r.messages) \o <<text>>
  BY <1>0, <1>1, <1>2, TextsAppend
<1>5. r.system \o (Texts(r.messages) \o <<text>>) = (r.system \o Texts(r.messages)) \o <<text>>
  <2> DEFINE a == r.system
             b == Texts(r.messages)
             c == <<text>>
  <2>1. a \in Seq(Words) /\ b \in Seq(Words) /\ c \in Seq(Words)
    BY <1>0, <1>1, <1>4
  <2> HIDE DEF a, b, c
  <2>2. a \o (b \o c) = (a \o b) \o c
    BY ONLY <2>1, ConcatAssociative
  <2> QED BY <2>2 DEF a, b, c
<1>6. ToSet(x.texts) \subseteq {"payload", "repair"}
  BY <1>1 DEF ToSet
<1>7. ASSUME NEW m \in ToSet(s.messages)
      PROVE  m.role = "user" <=> ToSet(m.texts) \subseteq {"payload", "repair"}
  <2>1. Len(r.messages) \in Nat /\ DOMAIN r.messages = 1..Len(r.messages)
    BY <1>0, LenProperties
  <2>2. PICK i \in 1..Len(r.messages) + 1 : m = s.messages[i]
    BY <1>3, LenProperties DEF ToSet
  <2>3. CASE i \in 1..Len(r.messages)
    <3>1. m \in ToSet(r.messages)
      BY <1>3, <2>1, <2>2, <2>3 DEF ToSet
    <3> QED BY <1>0, <3>1
  <2>4. CASE i = Len(r.messages) + 1
    BY <1>1, <1>3, <1>6, <2>2, <2>4
  <2> QED BY <2>1, <2>3, <2>4
<1> QED BY <1>0, <1>2, <1>3, <1>4, <1>5, <1>7 DEF Says

\* One more correction tells one repair more.
LEMMA TellsMore ==
    ASSUME NEW p, NEW n \in Nat, NEW r, Tells(r, p, n + 1),
           NEW s, s = [system |-> r.system,
                       messages |-> Append(r.messages, Message("user", "repair"))]
    PROVE  Tells(s, p, n + 2)
<1> DEFINE start == <<"rules">> \o Form(p) \o <<"payload">>
<1>1. Says(r, start \o Repairs(n))
  <2>1. (n + 1) - 1 = n
    OBVIOUS
  <2> QED BY <2>1 DEF Tells
<1>2. start \in Seq(Words) /\ <<"repair">> \in Seq(Words)
  <2>1. {<<"rules">>, <<"payload">>, <<"repair">>} \subseteq Seq(Words)
    BY DEF Words
  <2> QED BY <2>1, FormType, ConcatProperties
<1> HIDE DEF start
<1>3. Says(s, (start \o Repairs(n)) \o <<"repair">>)
  BY <1>1, ToldAfter
<1>4. (start \o Repairs(n)) \o <<"repair">> = start \o Repairs(n + 1)
  <2> DEFINE some == Repairs(n)
             one  == <<"repair">>
  <2>1. some \in Seq(Words) /\ one \in Seq(Words) /\ Repairs(n + 1) = some \o one
    BY <1>2, RepairsGrow
  <2> HIDE DEF some, one
  <2>2. (start \o some) \o one = start \o (some \o one)
    BY ONLY <1>2, <2>1, ConcatAssociative
  <2> QED BY <2>1, <2>2 DEF some, one
<1>5. (n + 2) - 1 = n + 1
  OBVIOUS
<1> QED BY <1>3, <1>4, <1>5 DEF Tells, start

LEMMA OneChosen ==
    ASSUME NEW T, NEW S, NEW x \in T
    PROVE  Chosen(<<x>>, S) = IF x \in S THEN <<x>> ELSE <<>>
<1> DEFINE none == <<>>
           part == IF x \in S THEN <<x>> ELSE <<>>
<1>1. none \in Seq(T) /\ Append(none, x) = <<x>> /\ Chosen(none, S) = none /\ none \o part = part
  BY NoneChosen
<1>2. none \in Seq(T)
  OBVIOUS
<1> HIDE DEF none
<1>3. Chosen(Append(none, x), S) = Chosen(none, S) \o (IF x \in S THEN <<x>> ELSE <<>>)
  BY ONLY <1>2, x \in T, ChosenAppend
<1> QED BY <1>1, <1>3

LEMMA PairAppended ==
    ASSUME NEW a, NEW b
    PROVE  Append(<<a>>, b) = <<a, b>>
<1> DEFINE one  == <<a>>
           pair == <<a, b>>
           T    == {a, b}
<1>1. /\ one \in Seq(T) /\ Len(one) = 1 /\ one[1] = a
      /\ pair \in Seq(T) /\ Len(pair) = 2 /\ pair[1] = a /\ pair[2] = b
      /\ b \in T
  OBVIOUS
<1> HIDE DEF one, pair, T
<1>2. /\ Append(one, b) \in Seq(T) /\ Len(Append(one, b)) = 2
      /\ Append(one, b)[1] = a /\ Append(one, b)[2] = b
  <2>1. /\ Append(one, b) \in Seq(T) /\ Len(Append(one, b)) = Len(one) + 1
        /\ \A i \in 1..Len(one) : Append(one, b)[i] = one[i]
        /\ Append(one, b)[Len(one) + 1] = b
    <3>1. one \in Seq(T) /\ b \in T
      BY <1>1
    <3> QED BY ONLY <3>1, AppendProperties
  <2>2. 1 \in 1..Len(one) /\ Len(one) + 1 = 2
    BY <1>1
  <2> QED BY <1>1, <2>1, <2>2
<1>3. \A i \in 1..Len(Append(one, b)) : Append(one, b)[i] = pair[i]
  <2>1. \A i \in 1..2 : i = 1 \/ i = 2
    OBVIOUS
  <2> QED BY <1>1, <1>2, <2>1
<1>4. Append(one, b) = pair
  BY <1>1, <1>2, <1>3, SeqEqual
<1> QED BY <1>4 DEF one, pair

LEMMA OneSaid ==
    ASSUME NEW m \in Sayings
    PROVE  <<m>> \in Seq(Sayings) /\ Texts(<<m>>) = m.texts
<1>1. <<>> \in Seq(Sayings) /\ Append(<<>>, m) = <<m>> /\ m.texts \in Seq(Words)
  BY DEF Sayings
<1>2. Texts(Append(<<>>, m)) = Texts(<<>>) \o m.texts
  BY ONLY <1>1, m \in Sayings, TextsAppend
<1>3. Texts(<<m>>) = <<>> \o m.texts
  BY <1>1, <1>2, NothingSaid
<1> QED BY <1>1, <1>3, ConcatEmptySeq

\* What every provider makes of the rules alone.
LEMMA FirstTold ==
    ASSUME provider \in Providers
    PROVE  Says(Request(<<Message("system", "rules")>>), <<"rules">> \o Form(provider))
<1> DEFINE a == Message("system", "rules")
           r == Request(<<a>>)
<1>0. /\ <<"rules">> \in Seq(Words) /\ <<>> \in Seq(Words) /\ <<>> \in Seq(Sayings)
      /\ "format" \in Words
  BY DEF Words
<1>1. a \in Sayings /\ a.role = "system" /\ a.texts = <<"rules">>
  BY MessageType DEF Words
<1> HIDE DEF a
<1>2. <<a>> \in Seq(Sayings) /\ Texts(<<a>>) = <<"rules">>
  BY <1>1, OneSaid
<1>3. ASSUME NEW m, m.role = "system", "rules" \in ToSet(m.texts)
      PROVE  \A x \in ToSet(<<m>>) :
                 x.role = "user" <=> ToSet(x.texts) \subseteq {"payload", "repair"}
  <2>1. ToSet(<<m>>) = {m}
    BY DEF ToSet
  <2> QED BY <1>3, <2>1
<1>4. "rules" \in ToSet(<<"rules">>) /\ "rules" \in ToSet(<<"rules", "format">>)
  BY DEF ToSet
<1>5. CASE provider = "openai"
  <2>1. r.system = <<>> /\ r.messages = <<a>> /\ Form(provider) = <<>>
    BY <1>5 DEF Request, Form
  <2>2. <<>> \o <<"rules">> = <<"rules">> \o <<>>
    OBVIOUS
  <2>3. \A x \in ToSet(<<a>>) :
            x.role = "user" <=> ToSet(x.texts) \subseteq {"payload", "repair"}
    BY <1>1, <1>3, <1>4
  <2> HIDE DEF r
  <2>4. Says(r, <<"rules">> \o Form(provider))
    BY <1>0, <1>2, <2>1, <2>2, <2>3 DEF Says
  <2> QED BY <2>4 DEF r, a
<1>6. CASE provider = "anthropic"
  <2> DEFINE System == {x \in Sayings : x.role = "system"}
             Others == {x \in Sayings : x.role # "system"}
  <2>1. a \in System /\ a \notin Others
    BY <1>1
  <2>2. r = [system |-> Texts(Chosen(<<a>>, System)), messages |-> Chosen(<<a>>, Others)]
    BY <1>2, <1>6, SystemChosen DEF Request
  <2> HIDE DEF System, Others
  <2>3. Chosen(<<a>>, System) = <<a>> /\ Chosen(<<a>>, Others) = <<>>
    BY <1>1, <2>1, OneChosen
  <2> HIDE DEF r
  <2>4. r.system = <<"rules">> /\ r.messages = <<>> /\ Form(provider) = <<>>
    BY <1>2, <1>6, <2>2, <2>3 DEF Form
  <2>5. ToSet(<<>>) = {}
    BY DEF ToSet
  <2>6. Says(r, <<"rules">> \o Form(provider))
    BY <1>0, <2>4, <2>5, NothingSaid DEF Says
  <2> QED BY <2>6 DEF r, a
<1>7. CASE provider = "ollama"
  <2> DEFINE b == [a EXCEPT !.texts = Append(@, "format")]
  <2>1. Append(<<"rules">>, "format") = <<"rules", "format">>
    BY PairAppended
  <2>2. <<"rules", "format">> \in Seq(Words)
    BY <1>0, <2>1, AppendProperties
  <2>3. b.role = "system" /\ b.texts = <<"rules", "format">> /\ b \in Sayings
    BY <1>1, <2>1, <2>2 DEF Sayings
  <2>4. Grounded(<<a>>) = <<b>>
    <3>1. <<a>> # <<>> /\ Head(<<a>>) = a
      OBVIOUS
    <3>2. [<<a>> EXCEPT ![1].texts = Append(@, "format")] = <<b>>
      OBVIOUS
    <3> QED BY <1>1, <3>1, <3>2 DEF Grounded
  <2>5. r.system = <<>> /\ r.messages = <<b>> /\ Form(provider) = <<"format">>
    BY <1>7, <2>4 DEF Request, Form
  <2> HIDE DEF b, r
  <2>6. <<b>> \in Seq(Sayings) /\ Texts(<<b>>) = <<"rules", "format">>
    BY <2>3, OneSaid
  <2>7. <<>> \o <<"rules", "format">> = <<"rules">> \o <<"format">>
    OBVIOUS
  <2>8. \A x \in ToSet(<<b>>) :
            x.role = "user" <=> ToSet(x.texts) \subseteq {"payload", "repair"}
    BY <1>3, <1>4, <2>3
  <2>9. Says(r, <<"rules">> \o Form(provider))
    BY <1>0, <2>5, <2>6, <2>7, <2>8 DEF Says
  <2> QED BY <2>9 DEF r, a
<1> QED BY <1>5, <1>6, <1>7, InterpretationAssumption

LEMMA OpeningTells ==
    ASSUME provider \in Providers
    PROVE  /\ Opening \in Seq(Sayings) /\ Opening # <<>> /\ Opening[1].role = "system"
           /\ Tells(Request(Opening), provider, 1)
<1> DEFINE a == Message("system", "rules")
           b == Message("user", "payload")
           first == <<a>>
           r == Request(first)
<1>1. a \in Sayings /\ a.role = "system" /\ b \in Sayings /\ b.role = "user"
  BY MessageType DEF Words
<1>2. Opening = Append(first, b) /\ Opening \in Seq(Sayings) /\ Opening # <<>> /\ Opening[1] = a
  BY <1>1 DEF Opening
<1>3. first \in Seq(Sayings) /\ first # <<>> /\ first[1].role = "system"
  BY <1>1
<1>4. Says(r, <<"rules">> \o Form(provider)) /\ r.messages \in Seq(Sayings)
  BY FirstTold DEF Says
<1> HIDE DEF a, first
<1>5. Request(Opening) = [system |-> r.system, messages |-> Append(r.messages, b)]
  <2> HIDE DEF b
  <2> QED BY <1>1, <1>2, <1>3, <1>4, RequestAppend
<1> HIDE DEF r
<1>6. Says(Request(Opening), (<<"rules">> \o Form(provider)) \o <<"payload">>)
  BY <1>4, <1>5, ToldAfter
<1>7. <<"rules">> \o Form(provider) \o <<"payload">> \o Repairs(1 - 1) =
          (<<"rules">> \o Form(provider)) \o <<"payload">>
  <2> DEFINE start == <<"rules">> \o Form(provider) \o <<"payload">>
  <2>1. {<<"rules">>, <<"payload">>} \subseteq Seq(Words)
    BY DEF Words
  <2>2. start \in Seq(Words)
    BY <2>1, FormType, ConcatProperties
  <2>3. Repairs(1 - 1) = <<>>
    BY DEF Repairs
  <2> HIDE DEF start
  <2>4. start \o Repairs(1 - 1) = start
    BY <2>2, <2>3, ConcatEmptySeq
  <2> QED BY <2>4 DEF start
<1> QED BY <1>1, <1>2, <1>6, <1>7 DEF Tells

-----------------------------------------------------------------------------
(* Every step keeps the invariant                                          *)

LEMMA PermittedOffered ==
    ASSUME NEW s \in Schemas
    PROVE  Permitted(s).sources \in Seq(Offered(allowed))
<1> DEFINE T == ToSet(s.sources)
<1>1. s.sources \in Seq(T)
  BY InterpretationAssumption
<1>2. CASE allowed = Anything
  <2>1. T \subseteq Offered(allowed)
    BY <1>2 DEF Offered
  <2>2. Permitted(s) = s
    BY <1>2 DEF Permitted
  <2> HIDE DEF T
  <2> QED BY <1>1, <2>1, <2>2, SeqMonotonic
<1>3. CASE allowed # Anything
  <2> DEFINE S == {x \in T : x.name \in allowed}
  <2>1. T \cap S \subseteq Offered(allowed)
    BY DEF Offered
  <2>2. \A i \in DOMAIN s.sources : s.sources[i] \in T
    BY DEF ToSet
  <2>3. Permitted(s).sources = Those(s.sources, LAMBDA x : x.name \in allowed)
    BY <1>3 DEF Permitted
  <2>4. [i \in DOMAIN s.sources |-> IF s.sources[i].name \in allowed
                                    THEN <<s.sources[i]>> ELSE <<>>] =
            [i \in DOMAIN s.sources |-> IF s.sources[i] \in S THEN <<s.sources[i]>> ELSE <<>>]
    <3> HIDE DEF T
    <3> QED BY <2>2
  <2>5. Permitted(s).sources = Chosen(s.sources, S)
    BY <2>3, <2>4 DEF Those, Chosen
  <2> HIDE DEF S, T
  <2>6. Chosen(s.sources, S) \in Seq(T \cap S)
    BY <1>1, ChosenType
  <2> QED BY <2>1, <2>5, <2>6, SeqMonotonic
<1> QED BY <1>2, <1>3

\* A question that ends, whatever it ends in.
LEMMA EndKeeps ==
    ASSUME IInv, pc' \in {"idle", "compiled"}, UNCHANGED <<provider, question>>, previous' = planned',
           calls' \in Nat, Told'
    PROVE  IInv'
<1>1. Counted'
  BY DEF IInv, Counted
<1>2. CutToPolicy' /\ ShownBest'
  BY DEF CutToPolicy, ShownBest
<1>3. SessionConsistent'
  BY DEF SessionConsistent
<1>4. Prepared'
  BY DEF IInv, Prepared
<1> QED BY <1>1, <1>2, <1>3, <1>4 DEF IInv

LEMMA ToldKept ==
    ASSUME Told, UNCHANGED <<provider, calls, request>>
    PROVE  Told'
BY DEF Told

\* Asking the provider keeps the count and what it says of the request.
LEMMA PutKeeps ==
    ASSUME IInv, pc = "generating", Put, UNCHANGED provider
    PROVE  Told' /\ calls' \in Nat
BY DEF IInv, Counted, Prepared, Told, Put

LEMMA InterpretationInit == Init => IInv
<1> SUFFICES ASSUME Init PROVE IInv
  OBVIOUS
<1>1. Counted
  BY FS_EmptySet DEF Init, Counted, NoQuestion
<1>2. CutToPolicy /\ ShownBest /\ SessionConsistent /\ Prepared /\ Told
  BY DEF Init, CutToPolicy, ShownBest, SessionConsistent, Prepared, Told
<1> QED BY <1>1, <1>2 DEF IInv

LEMMA AskKeeps ==
    ASSUME IInv, NEW q \in Questions, Ask(q)
    PROVE  IInv'
<1>1. Counted'
  BY InterpretationAssumption DEF Ask, Counted
<1>2. CutToPolicy' /\ ShownBest'
  BY DEF Ask, CutToPolicy, ShownBest
<1>3. SessionConsistent'
  BY DEF IInv, Ask, SessionConsistent, session
<1>4. Prepared' /\ Told'
  BY DEF IInv, Ask, Stay, Prepared, Told
<1> QED BY <1>1, <1>2, <1>3, <1>4 DEF IInv

LEMMA ReadSchemaKeeps ==
    ASSUME IInv, ReadSchema
    PROVE  IInv'
<1>1. Counted'
  BY DEF IInv, ReadSchema, Counted, talk
<1>2. CutToPolicy'
  BY PermittedOffered DEF ReadSchema, Stay, CutToPolicy
<1>3. ShownBest'
  BY DEF ReadSchema, ShownBest
<1>4. SessionConsistent'
  BY DEF IInv, ReadSchema, SessionConsistent, session
<1>5. Prepared' /\ Told'
  BY DEF IInv, ReadSchema, Stay, Prepared, Told, talk
<1> QED BY <1>1, <1>2, <1>3, <1>4, <1>5 DEF IInv

LEMMA RetrieveKeeps ==
    ASSUME IInv, Retrieve
    PROVE  IInv'
<1> DEFINE best == Retrieved(question, schema)
<1>1. /\ pc = "retrieving" /\ messages' = Opening
      /\ UNCHANGED <<previous, planned, question, schema, calls, request>>
      /\ \/ Size(best.sources) <= MaxSize /\ shown' = Payload(best) /\ pc' = "generating" /\ Stay
         \/ End("PlanningError")
  BY DEF Retrieve, session
<1>2. Told'
  BY <1>1, ToldKept DEF IInv, Stay, End
<1>3. CASE End("PlanningError")
  <2>1. pc' = "idle" /\ provider' = provider
    BY <1>3 DEF End
  <2> QED BY <1>1, <1>2, <2>1, EndKeeps DEF IInv, SessionConsistent, Counted
<1>4. CASE Size(best.sources) <= MaxSize /\ shown' = Payload(best) /\ pc' = "generating" /\ Stay
  <2>1. Counted'
    BY <1>1, <1>4 DEF IInv, Counted
  <2>2. CutToPolicy'
    BY <1>1, <1>4 DEF IInv, CutToPolicy, Stay
  <2>3. IsFiniteSet(question.words) /\ schema.sources \in Seq(Offered(allowed))
    BY <1>1 DEF IInv, Counted, CutToPolicy
  <2>4. LET names == {best.sources[i].name : i \in DOMAIN best.sources}
        IN  /\ best.sources \in Seq(Offered(allowed))
            /\ Len(best.sources) <= MaxShown
            /\ \A e \in best.edges : {e.source, e.target} \subseteq names
            /\ \A x \in ToSet(schema.sources) \ ToSet(best.sources), y \in ToSet(best.sources) :
                   Score(question, y) >= Score(question, x)
    BY <2>3, RetrievedSources
  <2> HIDE DEF best
  <2>5. ShownBest'
    <3>1. shown'.sources = best.sources /\ shown'.edges = best.edges
      BY <1>4 DEF Payload
    <3>2. LET names == {shown'.sources[i].name : i \in DOMAIN shown'.sources}
          IN  /\ shown'.sources \in Seq(Offered(allowed))
              /\ \A e \in shown'.edges : {e.source, e.target} \subseteq names
              /\ Len(shown'.sources) <= MaxShown /\ Size(shown'.sources) <= MaxSize
              /\ \A x \in ToSet(schema.sources) \ ToSet(shown'.sources), y \in ToSet(shown'.sources) :
                     Score(question, y) >= Score(question, x)
      BY <1>4, <2>4, <3>1
    <3>3. UNCHANGED <<allowed, schema, question>>
      BY <1>1, <1>4 DEF Stay
    <3> QED BY <3>2, <3>3 DEF ShownBest
  <2>6. SessionConsistent'
    BY <1>1 DEF IInv, SessionConsistent
  <2>7. Prepared'
    <3>1. provider \in Providers /\ provider' = provider /\ calls' = 0
      BY <1>1, <1>4 DEF IInv, Prepared, Counted, Stay
    <3>2. Request(messages)' = Request(Opening)
      BY <1>1, <3>1 DEF Request, Grounded
    <3> QED BY <1>1, <3>1, <3>2, OpeningTells DEF Prepared
  <2> QED BY <1>2, <2>1, <2>2, <2>5, <2>6, <2>7 DEF IInv
<1> QED BY <1>1, <1>3, <1>4

LEMMA GenerateKeeps ==
    ASSUME IInv, Generate
    PROVE  IInv'
<1>1. /\ pc = "generating" /\ pc' = "compiling" /\ Put
      /\ UNCHANGED <<allowed, provider, previous, planned, question, schema, shown>>
  BY DEF Generate, Stay, session
<1>2. Told' /\ calls' \in Nat
  BY <1>1, PutKeeps
<1>3. Counted'
  BY <1>1, <1>2 DEF IInv, Counted
<1>4. CutToPolicy' /\ ShownBest'
  BY <1>1 DEF IInv, CutToPolicy, ShownBest
<1>5. SessionConsistent'
  BY <1>1 DEF IInv, SessionConsistent
<1>6. Prepared'
  BY <1>1 DEF IInv, Prepared
<1> QED BY <1>2, <1>3, <1>4, <1>5, <1>6 DEF IInv

LEMMA MisunderstoodKeeps ==
    ASSUME IInv, Misunderstood
    PROVE  IInv'
<1>1. /\ pc = "generating" /\ Put
      /\ UNCHANGED <<allowed, provider, previous, planned, question, schema, shown>>
      /\ \/ End("IntentError")
         \/ pc' = pc /\ messages' = Append(messages, Message("user", "repair"))
  BY DEF Misunderstood, Stay, End, session, Left
<1>2. Told' /\ calls' \in Nat
  BY <1>1, PutKeeps
<1>3. SessionConsistent'
  BY <1>1 DEF IInv, SessionConsistent
<1>4. CASE End("IntentError")
  BY <1>1, <1>2, <1>3, <1>4, EndKeeps DEF End, SessionConsistent
<1>5. CASE pc' = pc /\ messages' = Append(messages, Message("user", "repair"))
  <2>1. Counted'
    BY <1>1, <1>2, <1>5 DEF IInv, Counted
  <2>2. CutToPolicy' /\ ShownBest'
    BY <1>1, <1>5 DEF IInv, CutToPolicy, ShownBest
  <2>3. /\ calls \in Nat /\ calls' = calls + 1 /\ provider \in Providers
        /\ messages \in Seq(Sayings) /\ messages # <<>> /\ messages[1].role = "system"
        /\ Tells(Request(messages), provider, calls + 1)
    BY <1>1 DEF IInv, Counted, Prepared, Put
  <2> DEFINE m == Message("user", "repair")
  <2>4. m \in Sayings /\ m.role = "user"
    BY MessageType DEF Words
  <2>5. Request(messages).messages \in Seq(Sayings)
    BY <2>3 DEF Tells, Says
  <2>6. Request(Append(messages, m)) =
            [system |-> Request(messages).system, messages |-> Append(Request(messages).messages, m)]
    <3> HIDE DEF m
    <3> QED BY <2>3, <2>4, <2>5, RequestAppend
  <2>7. Tells(Request(Append(messages, m)), provider, calls + 2)
    BY <2>3, <2>6, TellsMore
  <2>8. Request(messages)' = Request(Append(messages, m))
    BY <1>1, <1>5 DEF Request, Grounded
  <2>9. /\ messages' \in Seq(Sayings) /\ messages' # <<>> /\ messages'[1].role = "system"
    <3>1. /\ Len(messages) \in Nat \ {0}
          /\ messages' \in Seq(Sayings) /\ messages' # <<>>
          /\ \A i \in 1..Len(messages) : messages'[i] = messages[i]
      <4> HIDE DEF m
      <4> QED BY <1>5, <2>3, <2>4, AppendProperties, EmptySeq DEF m
    <3> QED BY <2>3, <3>1
  <2>10. calls' + 1 = calls + 2
    BY <2>3
  <2>11. Prepared'
    <3> HIDE DEF m
    <3> QED BY <1>1, <2>3, <2>7, <2>8, <2>9, <2>10 DEF Prepared
  <2> QED BY <1>2, <1>3, <2>1, <2>2, <2>11 DEF IInv
<1> QED BY <1>1, <1>4, <1>5

LEMMA ProviderUnusableKeeps ==
    ASSUME IInv, ProviderUnusable
    PROVE  IInv'
<1>1. /\ pc = "generating" /\ pc' = "idle"
      /\ UNCHANGED <<provider, previous, planned, question>>
      /\ Put \/ UNCHANGED <<calls, request>>
  BY DEF ProviderUnusable, End, session
<1>2. Told' /\ calls' \in Nat
  BY <1>1, PutKeeps, ToldKept DEF IInv, Counted
<1> QED BY <1>1, <1>2, EndKeeps DEF IInv, SessionConsistent

LEMMA CompileKeeps ==
    ASSUME IInv, Compile
    PROVE  IInv'
<1>1. /\ pc' \in {"idle", "compiled"} /\ previous' = planned'
      /\ UNCHANGED <<provider, question, calls, request>>
  BY DEF IInv, SessionConsistent, Compile, End, Stay, session, work, talk
<1>2. Told' /\ calls' \in Nat
  BY <1>1, ToldKept DEF IInv, Counted
<1> QED BY <1>1, <1>2, EndKeeps

LEMMA InterpretationStep == IInv /\ [Next]_vars => IInv'
<1> SUFFICES ASSUME IInv, [Next]_vars PROVE IInv'
  OBVIOUS
<1>1. ASSUME NEW q \in Questions, Ask(q)
      PROVE  IInv'
  BY <1>1, AskKeeps
<1>2. CASE RefuseQuestion \/ SchemaFails \/ RefuseContext \/ Finish
  <2>1. pc' = "idle" /\ UNCHANGED <<provider, previous, planned, question, calls, request>>
    BY <1>2 DEF RefuseQuestion, SchemaFails, RefuseContext, Finish, End, session, work, talk
  <2>2. Told' /\ calls' \in Nat
    BY <2>1, ToldKept DEF IInv, Counted
  <2> QED BY <2>1, <2>2, EndKeeps DEF IInv, SessionConsistent
<1>3. CASE PolicyChange
  <2>1. pc = "idle" /\ pc' = "idle"
        /\ UNCHANGED <<provider, previous, planned, question, calls, request>>
    BY <1>3 DEF PolicyChange, session, work, talk
  <2>2. Told' /\ calls' \in Nat
    BY <2>1, ToldKept DEF IInv, Counted
  <2> QED BY <2>1, <2>2, EndKeeps DEF IInv, SessionConsistent
<1>4. CASE UNCHANGED vars
  <2>1. Counted' /\ CutToPolicy' /\ ShownBest' /\ SessionConsistent' /\ Told'
    BY <1>4 DEF IInv, Counted, CutToPolicy, ShownBest, SessionConsistent, Told,
                vars, session, work, talk
  <2>2. Prepared'
    <3>1. UNCHANGED <<provider, pc, messages, calls>>
      BY <1>4 DEF vars, work, talk
    <3>2. Request(messages)' = Request(messages)
      BY <3>1 DEF Request, Grounded
    <3> QED BY <3>1, <3>2 DEF IInv, Prepared
  <2> QED BY <2>1, <2>2 DEF IInv
<1> QED
  BY <1>1, <1>2, <1>3, <1>4, ReadSchemaKeeps, RetrieveKeeps, GenerateKeeps, MisunderstoodKeeps,
     ProviderUnusableKeeps, CompileKeeps DEF Next, Steps

LEMMA InterpretationInvariance == Spec => []IInv
BY InterpretationInit, InterpretationStep, PTL DEF Spec

-----------------------------------------------------------------------------
(* What the invariant says                                                 *)

\* Under any catalog, ranking and budget the provider is shown allowed sources
\* only, with the relationships between them (api.py:95-104, retrieval.py:36-50).
THEOREM ProviderShownAllowed == Spec => []ShownAllowed
<1>1. IInv => ShownAllowed
  <2> SUFFICES ASSUME IInv, pc \in {"generating", "compiling"} PROVE ShownAllowed
    BY DEF ShownAllowed
  <2> DEFINE names == {shown.sources[i].name : i \in DOMAIN shown.sources}
  <2>1. /\ shown.sources \in Seq(Offered(allowed))
        /\ \A e \in shown.edges : {e.source, e.target} \subseteq names
        /\ Len(shown.sources) <= MaxShown /\ Size(shown.sources) <= MaxSize
    BY DEF IInv, ShownBest
  <2>2. allowed # Anything => names \subseteq allowed
    <3>1. \A i \in DOMAIN shown.sources : shown.sources[i] \in Offered(allowed)
      BY <2>1, LenProperties, ElementOfSeq
    <3> QED BY <3>1 DEF Offered
  <2> QED BY <2>1, <2>2 DEF ShownAllowed
<1> QED BY <1>1, InterpretationInvariance, PTL

\* What the session remembers was allowed when it compiled, and is what the
\* payload of a question under way holds.
GrantedInv ==
    /\ previous # NoIntent => Admits(granted, previous)
    /\ pc \in {"generating", "compiling"} => shown.previous = previous

LEMMA GrantedStep == GrantedInv /\ [Next]_vars => GrantedInv'
<1> SUFFICES ASSUME GrantedInv, [Next]_vars PROVE GrantedInv'
  OBVIOUS
<1>1. CASE Retrieve
  <2>1. UNCHANGED <<previous, granted>>
    BY <1>1 DEF Retrieve, session
  <2>2. pc' = "idle" \/ shown'.previous = previous
    BY <1>1 DEF Retrieve, Payload, End
  <2> QED BY <2>1, <2>2 DEF GrantedInv, Admits
<1>2. CASE Generate \/ Misunderstood
  <2>1. pc = "generating" /\ UNCHANGED <<previous, granted, shown>>
    BY <1>2 DEF Generate, Misunderstood, session
  <2> QED BY <2>1 DEF GrantedInv, Admits
<1>3. CASE Compile
  <2>1. CASE End("PlanningError") /\ UNCHANGED session
    BY <2>1 DEF GrantedInv, Admits, End, session
  <2>2. CASE Admitted(intent) /\ previous' = intent /\ granted' = allowed /\ pc' = "compiled"
    BY <2>2 DEF GrantedInv, Admitted, Admits
  <2> QED BY <1>3, <2>1, <2>2 DEF Compile
<1>4. CASE \/ \E q \in Questions : Ask(q)
           \/ RefuseQuestion \/ ReadSchema \/ SchemaFails \/ RefuseContext
           \/ ProviderUnusable \/ Finish \/ PolicyChange
  <2>1. UNCHANGED <<previous, granted>> /\ pc' \in {"asked", "retrieving", "idle"}
    BY <1>4 DEF Ask, RefuseQuestion, ReadSchema, SchemaFails, RefuseContext, ProviderUnusable,
                Finish, PolicyChange, End, session
  <2> QED BY <2>1 DEF GrantedInv, Admits
<1>5. CASE UNCHANGED vars
  BY <1>5 DEF GrantedInv, Admits, vars, session, work
<1> QED BY <1>1, <1>2, <1>3, <1>4, <1>5 DEF Next, Steps

\* What the provider is asked to refine named only sources that were allowed when
\* it compiled, for every schema, policy and answer, however questions fail
\* between (api.py:110, 245-250, planner.py:96-99).
THEOREM ProviderRefinesGranted == Spec => []RefinesGranted
<1>1. Init => GrantedInv
  BY DEF Init, GrantedInv
<1>2. GrantedInv => RefinesGranted
  BY DEF GrantedInv, RefinesGranted
<1> QED BY <1>1, <1>2, GrantedStep, PTL DEF Spec

\* The intent a session refines next and the plan it shows are of one question,
\* whatever the questions between ended in (api.py:245-250).
THEOREM SessionKeepsTogether == Spec => []SessionConsistent
<1>1. IInv => SessionConsistent
  BY DEF IInv
<1> QED BY <1>1, InterpretationInvariance, PTL

\* However many attempts a provider is given, each call tells it the rules, the
\* form and the payload once and every correction so far
\* (api.py:115-137, providers.py:34-48, 75-92, 131-151).
THEOREM ProviderToldOnce == Spec => []ToldOnce
<1>1. IInv => ToldOnce
  <2> SUFFICES ASSUME IInv, calls > 0 PROVE ToldOnce
    BY DEF ToldOnce
  <2>1. Tells(request, provider, calls)
    BY DEF IInv, Told
  <2> QED BY <2>1 DEF Tells, Says, Form, Repairs, ToldOnce
<1> QED BY <1>1, InterpretationInvariance, PTL

\* Every source has an undotted name, and a business term's candidate that begins
\* with a source's name stands for one of its fields.
PlainNames ==
    \A s \in Schemas : \A x \in ToSet(s.sources) :
        /\ x.name = <<x.name[1]>>
        /\ \A f \in x.fields : (x.name \o f)[1] = x.name[1]
        /\ \A c \in Catalog : \A n \in ToSet(c.candidates) :
               <<n[1]>> = x.name => \E f \in x.fields : n = x.name \o f

\* Where no source has a dotted name and the business terms stand for fields the
\* sources have, they strengthen the relevance of sources as the architecture
\* says (retrieval.py:20-38); MCInterpretationDotted shows that the first of these
\* conditions is needed.
THEOREM PlainTermsStrengthen == PlainNames => (Spec => []TermsStrengthen)
<1>1. ASSUME PlainNames, IInv
      PROVE  TermsStrengthen
  <2> SUFFICES ASSUME pc \in {"generating", "compiling"},
                      NEW x \in ToSet(schema.sources) \ ToSet(shown.sources),
                      NEW y \in ToSet(shown.sources),
                      Meant(x), ~Meant(y)
               PROVE  Cardinality(question.words \cap y.words) >
                          Cardinality(question.words \cap x.words)
    BY DEF TermsStrengthen
  <2> DEFINE Known == UNION {ToSet(s.sources) : s \in Schemas}
  <2>1. x \in Known /\ y \in Known
    <3>1. schema.sources \in Seq(Offered(allowed)) /\ shown.sources \in Seq(Offered(allowed))
      BY <1>1 DEF IInv, CutToPolicy, ShownBest
    <3>2. x \in Offered(allowed) /\ y \in Offered(allowed)
      BY <3>1, LenProperties, ElementOfSeq DEF ToSet
    <3> QED BY <3>2 DEF Offered
  <2>2. Score(question, y) >= Score(question, x)
    BY <1>1 DEF IInv, ShownBest
  <2>3. x.name \in Relevant(question)
    <3>1. PICK c \in Catalog, f \in x.fields :
              /\ ({c.name} \cup c.aliases) \cap question.mentions # {}
              /\ x.name \o f \in ToSet(c.candidates)
      BY DEF Meant
    <3>2. x.name = <<(x.name \o f)[1]>>
      BY <1>1, <2>1 DEF PlainNames
    <3> QED BY <3>1, <3>2 DEF Relevant
  <2>4. y.name \notin Relevant(question)
    <3> SUFFICES ASSUME y.name \in Relevant(question) PROVE FALSE
      OBVIOUS
    <3>1. PICK c \in Catalog : /\ ({c.name} \cup c.aliases) \cap question.mentions # {}
                              /\ \E n \in ToSet(c.candidates) : y.name = <<n[1]>>
      BY DEF Relevant
    <3>2. PICK n \in ToSet(c.candidates) : y.name = <<n[1]>>
      BY <3>1
    <3>3. \E f \in y.fields : n = y.name \o f
      BY <1>1, <2>1, <3>2 DEF PlainNames
    <3> QED BY <3>1, <3>3 DEF Meant
  <2>5. /\ Cardinality(question.words \cap x.words) \in Nat
        /\ Cardinality(question.words \cap y.words) \in Nat
    BY <1>1, ScoreType DEF IInv, Counted
  <2> QED BY <2>2, <2>3, <2>4, <2>5 DEF Score
<1>2. ASSUME PlainNames PROVE Spec => []TermsStrengthen
  <2>1. IInv => TermsStrengthen
    BY <1>1, <1>2
  <2> QED BY <2>1, InterpretationInvariance, PTL
<1> QED BY <1>2
=============================================================================
