--------------------------- MODULE SamplingProofs ---------------------------
(***************************************************************************)
(* Proofs about Sampling for every database, every budget and sample size, *)
(* documents handed over in any order and changes at any moment.           *)
(***************************************************************************)
EXTENDS Sampling, FiniteSetTheorems, SequenceTheorems, TLAPS

AllSources == UNION {DOMAIN db.documents : db \in UNION {Databases[b] : b \in Backends}}
Paths      == {e.path : e \in Entries}
Kinds      == {e.kind : e \in Entries} \cup {"unknown"}
FieldMaps  == UNION {[P -> Kinds] : P \in SUBSET Paths}
Source     == [name : AllSources, fields : FieldMaps]

-----------------------------------------------------------------------------

\* The kind that a set of kinds agrees on.
Agreed(kinds) == IF \E k \in kinds : kinds = {k} THEN CHOOSE k \in kinds : TRUE ELSE "unknown"

KindsMet(met, p) == {e.kind : e \in {x \in met : x.path = p}}

\* The fields sum up the entries met.
Summary(b, fields, met) ==
    /\ DOMAIN fields = {e.path : e \in met}
    /\ b = "mongo" => \A p \in DOMAIN fields : fields[p] = Agreed(KindsMet(met, p))

\* What was handed over of a source, and one entry of it.
Of(handed, s) == {x \in handed : x.source = s}
Given(s, e) == [source |-> s, path |-> e.path, kind |-> e.kind]

-----------------------------------------------------------------------------
(* The inductive invariant                                                 *)

Types ==
    /\ backend \in Backends /\ live \in Databases[backend]
    /\ names \in Seq(AllSources) /\ IsInjective(names)
    /\ sources \in Seq(Source)
    /\ pending \in Seq(Entries) /\ found \in FieldMaps

\* Sources are made in the order of the names, and nothing is handed over before
\* its source's turn.
InTurn ==
    /\ pc \in {"sources", "documents", "edges", "assembling", "over"}
    /\ outcome = "schema" => pc = "over"
    /\ pc = "sources" => /\ names = <<>> /\ sampled = {}
                         /\ pending = <<>> /\ found = NoFields
    /\ pc = "documents" => Len(sources) < Len(names)
    /\ Len(sources) <= Len(names)
    /\ \A i \in 1..Len(sources) : sources[i].name = names[i]
    /\ \A x \in sampled : \E i \in 1..Len(names) : i <= Len(sources) + 1 /\ x.source = names[i]

\* Each source made sums up what was handed over of it.
Made == \A i \in 1..Len(sources) : Summary(backend, sources[i].fields, Of(sampled, names[i]))

\* The fields found sum up the entries met so far, which with the ones pending
\* are all that was handed over.
Meeting ==
    pc = "documents" =>
        \E met \in SUBSET sampled :
            /\ Summary(backend, found, met)
            /\ Of(sampled, Current) = met \cup {Given(Current, pending[i]) : i \in 1..Len(pending)}

\* The edges kept speak for all the edges walked.
Unambiguous ==
    \A r \in walked : \A a \in r.from \cap ToSet(names), b \in r.to \cap ToSet(names) :
        {e \in edges : e.name = r.type} = {[name |-> r.type, source |-> a, target |-> b]}

Walking ==
    /\ pc \in {"sources", "documents", "edges"} => walked = {}
    /\ pc = "assembling" \/ outcome = "schema" => Unambiguous

IInv == Types /\ InTurn /\ Made /\ Meeting /\ Walking

-----------------------------------------------------------------------------
(* Lemmas about the operators                                              *)

\* A finite set is enumerated without repetition.
LEMMA Enumeration ==
    ASSUME NEW S, IsFiniteSet(S)
    PROVE  /\ Cardinality(S) \in Nat
           /\ SetToSeq(S) \in [1..Cardinality(S) -> S]
           /\ IsInjective(SetToSeq(S))
<1>1. Cardinality(S) \in Nat /\ ExistsBijection(1..Cardinality(S), S)
  BY FS_CardinalityType
<1>2. \E f \in [1..Cardinality(S) -> S] : IsInjective(f)
  BY <1>1 DEF ExistsBijection, Bijection, Injection
<1> QED BY <1>1, <1>2 DEF SetToSeq

\* The first of a list of distinct things are distinct.
LEMMA FirstDistinct ==
    ASSUME NEW S, NEW s \in Seq(S), IsInjective(s), NEW n \in 0..Len(s)
    PROVE  SubSeq(s, 1, n) \in Seq(S) /\ Len(SubSeq(s, 1, n)) = n /\ IsInjective(SubSeq(s, 1, n))
<1>0. n \in Nat /\ Len(s) \in Nat /\ DOMAIN s = 1..Len(s)
  BY LenProperties
<1>1. \A i \in 1..n : s[i] \in S
  BY <1>0, ElementOfSeq
<1> DEFINE t == SubSeq(s, 1, n)
<1>2. t \in Seq(S) /\ Len(t) = n /\ \A i \in 1..n : t[i] = s[i]
  <2>1. /\ t \in Seq(S) /\ Len(t) = IF 1 <= n THEN n - 1 + 1 ELSE 0
        /\ \A i \in 1..n - 1 + 1 : t[i] = s[1 + i - 1]
    <3>1. \A i \in 1..n : s[i] \in S
      BY <1>1
    <3>2. 1 \in Int /\ n \in Int
      BY <1>0
    <3>3. /\ SubSeq(s, 1, n) \in Seq(S)
          /\ Len(SubSeq(s, 1, n)) = IF 1 <= n THEN n - 1 + 1 ELSE 0
          /\ \A i \in 1..n - 1 + 1 : SubSeq(s, 1, n)[i] = s[1 + i - 1]
      BY ONLY <3>1, <3>2, SubSeqProperties
    <3> QED BY <3>3
  <2> HIDE DEF t
  <2>2. \A i \in 1..n : i \in 1..n - 1 + 1 /\ 1 + i - 1 = i
    BY <1>0
  <2>3. Len(t) = n
    BY <1>0, <2>1
  <2> QED BY <2>1, <2>2, <2>3
<1> HIDE DEF t
<1>3. DOMAIN t = 1..n
  BY <1>2, LenProperties
<1>4. IsInjective(t)
  BY <1>0, <1>2, <1>3 DEF IsInjective
<1> QED BY <1>2, <1>4 DEF t

\* Meeting one more entry keeps the fields a summary.
LEMMA LearntSums ==
    ASSUME NEW known \in FieldMaps, NEW met, Summary(backend, known, met),
           NEW s, NEW e \in Entries
    PROVE  /\ Learnt(known, e) \in FieldMaps
           /\ Summary(backend, Learnt(known, e), met \cup {Given(s, e)})
<1> DEFINE more   == met \cup {Given(s, e)}
           learnt == Learnt(known, e)
<1>1. e.path \in Paths /\ e.kind \in Kinds /\ "unknown" \in Kinds
  BY DEF Paths, Kinds
<1>2. PICK P \in SUBSET Paths : known \in [P -> Kinds]
  BY DEF FieldMaps
<1>3. learnt \in [P \cup {e.path} -> Kinds]
  BY <1>1, <1>2 DEF Learnt
<1>4. learnt \in FieldMaps
  BY <1>1, <1>3 DEF FieldMaps
<1>5. Given(s, e).path = e.path /\ Given(s, e).kind = e.kind
  BY DEF Given
<1>6. DOMAIN learnt = {x.path : x \in more}
  BY <1>2, <1>3, <1>5 DEF Summary
<1>7. ASSUME backend = "mongo", NEW p \in DOMAIN learnt
      PROVE  learnt[p] = Agreed(KindsMet(more, p))
  <2>1. CASE p # e.path
    <3>1. KindsMet(more, p) = KindsMet(met, p)
      BY <1>5, <2>1 DEF KindsMet
    <3>2. p \in DOMAIN known /\ learnt[p] = known[p]
      BY <1>2, <1>3, <1>7, <2>1 DEF Learnt
    <3> QED BY <1>7, <3>1, <3>2 DEF Summary
  <2>2. CASE p = e.path
    <3> DEFINE kinds == KindsMet(met, p)
    <3>1. KindsMet(more, p) = kinds \cup {e.kind}
      BY <1>5, <2>2 DEF KindsMet
    <3>2. CASE p \notin DOMAIN known
      <4>1. kinds = {}
        BY <3>2 DEF Summary, KindsMet
      <4>2. learnt[p] = e.kind
        BY <1>2, <1>3, <2>2, <3>2 DEF Learnt
      <4> QED BY <3>1, <4>1, <4>2 DEF Agreed
    <3>3. CASE p \in DOMAIN known
      <4>1. kinds # {}
        BY <3>3 DEF Summary, KindsMet
      <4>2. known[p] = Agreed(kinds)
        BY <1>7, <3>3 DEF Summary
      <4>3. learnt[p] = IF known[p] # e.kind THEN "unknown" ELSE e.kind
        BY <1>2, <1>3, <1>7, <2>2, <3>3 DEF Learnt
      <4> HIDE DEF kinds, learnt, more
      <4> QED BY <3>1, <4>1, <4>2, <4>3 DEF Agreed
    <3> QED BY <3>2, <3>3
  <2> QED BY <2>1, <2>2
<1> QED BY <1>4, <1>6, <1>7 DEF Summary

-----------------------------------------------------------------------------
(* The steps                                                               *)

\* The invariant holds when the call begins.
LEMMA InitInv == Init => IInv
<1> SUFFICES ASSUME Init PROVE IInv
  OBVIOUS
<1>1. <<>> \in Seq(AllSources) /\ <<>> \in Seq(Source) /\ <<>> \in Seq(Entries)
      /\ Len(<<>>) = 0
  BY EmptySeq
<1>2. NoFields \in FieldMaps
  BY DEF NoFields, FieldMaps
<1>3. IsInjective(<<>>)
  BY DEF IsInjective
<1>4. Types
  BY <1>1, <1>2, <1>3 DEF Init, Types
<1> QED BY <1>1, <1>4 DEF Init, IInv, InTurn, Made, Meeting, Walking

\* A step that makes and hands over nothing keeps the invariant where it keeps
\* the call's place or ends it without a schema.
LEMMA NothingMade ==
    ASSUME IInv, UNCHANGED <<backend, made, given, pending, found>>,
           live' \in Databases[backend],
           \/ pc' = pc /\ outcome' = outcome
           \/ pc' = "over" /\ outcome' # "schema"
    PROVE  IInv'
BY DEF IInv, Types, InTurn, Made, Meeting, Walking, Unambiguous, Current, made, given

LEMMA ListSourcesInv ==
    ASSUME IInv, ListSources
    PROVE  IInv'
<1> DEFINE S   == DOMAIN live.documents
           all == SetToSeq(S)
           n   == IF Len(all) <= MaxSources THEN Len(all) ELSE MaxSources + 1
<1>1. /\ UNCHANGED <<backend, live, pending, found, sources, edges, sampled, walked>>
      /\ pc = "sources" /\ names' = SubSeq(all, 1, n)
  BY DEF ListSources, world, given, scan
<1>2. IsFiniteSet(S) /\ S \subseteq AllSources
  BY SamplingAssumption DEF IInv, Types, AllSources
<1>3. /\ all \in Seq(AllSources) /\ IsInjective(all) /\ n \in 0..Len(all)
  <2>1. /\ Cardinality(S) \in Nat /\ all \in [1..Cardinality(S) -> S] /\ IsInjective(all)
    BY <1>2, Enumeration
  <2>2. all \in Seq(S)
    BY <2>1, SeqDef
  <2>3. all \in Seq(AllSources) /\ Len(all) \in Nat
    BY <1>2, <2>2, SeqMonotonic, LenProperties
  <2>4. MaxSources \in Nat
    BY SamplingAssumption
  <2> HIDE DEF all
  <2> QED BY <2>1, <2>3, <2>4
<1> HIDE DEF S, all, n
<1>4. names' \in Seq(AllSources) /\ IsInjective(names') /\ Len(names') \in Nat
  BY <1>1, <1>3, FirstDistinct, LenProperties
<1>5. sources = <<>> /\ sampled = {} /\ walked = {}
  <2>1. Len(names) = 0
    BY <1>1, EmptySeq DEF IInv, InTurn
  <2> QED BY <1>1, <2>1, LenProperties, EmptySeq DEF IInv, InTurn, Types, Walking
<1>6. Types'
  BY <1>1, <1>4 DEF IInv, Types
<1>7. Made'
  BY <1>1, <1>5, EmptySeq DEF Made
<1>8. CASE pc' = "over" /\ outcome' = "refused"
  BY <1>1, <1>4, <1>5, <1>6, <1>7, <1>8, EmptySeq DEF IInv, InTurn, Meeting, Walking
<1>9. CASE pc' = After(0) /\ outcome' = outcome
  <2>1. InTurn'
    BY <1>1, <1>4, <1>5, <1>9, EmptySeq DEF IInv, InTurn, After
  <2>2. pending' = <<>> /\ found' = NoFields
    BY <1>1 DEF IInv, InTurn
  <2>3. Summary(backend', found', {}) /\ Of(sampled', Current') = {}
    BY <1>1, <1>5, <2>2 DEF Summary, NoFields, Of
  <2>4. Meeting'
    BY <2>2, <2>3, EmptySeq DEF Meeting
  <2>5. Walking'
    BY <1>1, <1>5, <1>9 DEF IInv, InTurn, Walking, Unambiguous
  <2> QED BY <1>6, <1>7, <2>1, <2>4, <2>5 DEF IInv
<1> QED BY <1>8, <1>9 DEF ListSources, End

\* The source whose turn it is, and the ones made before it.
LEMMA Turns ==
    ASSUME IInv, pc = "documents"
    PROVE  /\ Len(sources) \in Nat /\ Len(names) \in Nat /\ Len(sources) + 1 \in 1..Len(names)
           /\ Current \in AllSources
           /\ \A i \in 1..Len(sources) : names[i] # Current
           /\ UNCHANGED <<names, sources>> => Current' = Current
<1>1. /\ Len(sources) \in Nat /\ Len(names) \in Nat /\ DOMAIN names = 1..Len(names)
      /\ Len(sources) < Len(names)
  BY LenProperties DEF IInv, Types, InTurn
<1>2. Len(sources) + 1 \in 1..Len(names) /\ \A i \in 1..Len(sources) : i \in 1..Len(names)
                                                                    /\ i # Len(sources) + 1
  BY <1>1
<1>3. Current \in AllSources
  BY <1>2, ElementOfSeq DEF IInv, Types, Current
<1>4. \A i \in 1..Len(sources) : names[i] # Current
  BY <1>1, <1>2 DEF IInv, Types, IsInjective, Current
<1> QED BY <1>1, <1>2, <1>3, <1>4 DEF Current

\* A document handed over is pending in full.
LEMMA ReadDocumentInv ==
    ASSUME IInv, ReadDocument
    PROVE  IInv'
<1>1. /\ UNCHANGED <<backend, live, names, sources, edges, walked, pc, found, outcome>>
      /\ pc = "documents" /\ pending = <<>>
  BY DEF ReadDocument, world, made
<1>2. PICK id \in DOMAIN Documents(live, Current) :
         LET document == Documents(live, Current)[id]
         IN  /\ pending' = document
             /\ sampled' = sampled \cup {[source |-> Current, path |-> document[i].path,
                                          kind |-> document[i].kind] : i \in DOMAIN document}
  BY DEF ReadDocument
<1> DEFINE document == Documents(live, Current)[id]
           more     == {Given(Current, document[i]) : i \in 1..Len(document)}
<1>3. document \in Seq(Entries) /\ DOMAIN document = 1..Len(document)
  <2>1. Current \in DOMAIN live.documents => live.documents[Current] \in Seq(Seq(Entries))
    BY SamplingAssumption DEF IInv, Types
  <2>2. Documents(live, Current) \in Seq(Seq(Entries))
    BY <2>1, EmptySeq DEF Documents
  <2>3. document \in Seq(Entries)
    BY <1>2, <2>2, LenProperties, ElementOfSeq
  <2> QED BY <2>3, LenProperties
<1>4. pending' = document /\ sampled' = sampled \cup more
  BY <1>2, <1>3 DEF Given
<1>5. \A x \in more : x.source = Current
  BY DEF Given
<1> HIDE DEF document, more
<1>6. Current' = Current
  BY <1>1, Turns
<1>7. Types'
  BY <1>1, <1>3, <1>4 DEF IInv, Types
<1>8. InTurn'
  BY <1>1, <1>4, <1>5, Turns DEF IInv, InTurn, Current
<1>9. Made'
  <2>1. \A i \in 1..Len(sources) : Of(sampled', names[i]) = Of(sampled, names[i])
    BY <1>1, <1>4, <1>5, Turns DEF Of
  <2> QED BY <1>1, <2>1 DEF IInv, Made
<1>10. Meeting'
  <2>1. PICK met \in SUBSET sampled :
           /\ Summary(backend, found, met)
           /\ Of(sampled, Current) = met \cup {Given(Current, pending[i]) : i \in 1..Len(pending)}
    BY <1>1 DEF IInv, Meeting
  <2>2. Of(sampled, Current) = met
    BY <1>1, <2>1, EmptySeq
  <2>3. Of(sampled', Current) = met \cup more
    BY <1>4, <1>5, <2>2 DEF Of
  <2> QED BY <1>1, <1>4, <1>6, <2>1, <2>3 DEF Meeting, more
<1>11. Walking'
  BY <1>1 DEF IInv, InTurn, Walking
<1> QED BY <1>7, <1>8, <1>9, <1>10, <1>11 DEF IInv

\* An entry met joins those the fields sum up.
LEMMA MeetEntryInv ==
    ASSUME IInv, MeetEntry
    PROVE  IInv'
<1>1. /\ UNCHANGED <<backend, live, names, sources, edges, sampled, walked>>
      /\ pc = "documents" /\ pending # <<>>
      /\ found' = Learnt(found, Head(pending)) /\ pending' = Tail(pending)
      /\ \/ pc' = "over" /\ outcome' = "refused"
         \/ pc' = pc /\ outcome' = outcome
  BY DEF MeetEntry, world, made, given, End
<1> DEFINE e == Head(pending)
<1>2. /\ e \in Entries /\ Tail(pending) \in Seq(Entries) /\ Len(pending) \in Nat \ {0}
      /\ Len(Tail(pending)) = Len(pending) - 1 /\ e = pending[1]
      /\ \A i \in 1..Len(Tail(pending)) : Tail(pending)[i] = pending[i + 1]
  BY <1>1, HeadTailProperties, LenProperties, EmptySeq DEF IInv, Types
<1> HIDE DEF e
<1>3. PICK met \in SUBSET sampled :
         /\ Summary(backend, found, met)
         /\ Of(sampled, Current) = met \cup {Given(Current, pending[i]) : i \in 1..Len(pending)}
  BY <1>1 DEF IInv, Meeting
<1> DEFINE more == met \cup {Given(Current, e)}
<1>4. found' \in FieldMaps /\ Summary(backend, found', more)
  BY <1>1, <1>2, <1>3, LearntSums DEF IInv, Types, e
<1>5. Of(sampled, Current) = more \cup {Given(Current, Tail(pending)[i]) : i \in 1..Len(Tail(pending))}
  <2>1. \A i \in 1..Len(pending) : i = 1 \/ i - 1 \in 1..Len(Tail(pending))
    BY <1>2
  <2>2. \A i \in 1..Len(Tail(pending)) : i + 1 \in 1..Len(pending) /\ i + 1 - 1 = i
    BY <1>2
  <2>3. \A i \in 1..Len(pending) : pending[i] = e \/ pending[i] = Tail(pending)[i - 1]
    BY <1>2, <2>1
  <2>4. 1 \in 1..Len(pending)
    BY <1>2
  <2>5. {Given(Current, pending[i]) : i \in 1..Len(pending)} =
            {Given(Current, e)} \cup {Given(Current, Tail(pending)[i]) : i \in 1..Len(Tail(pending))}
    BY <1>2, <2>1, <2>2, <2>3, <2>4
  <2> QED BY <1>3, <2>5
<1>6. more \in SUBSET sampled
  BY <1>5 DEF Of
<1> HIDE DEF more
<1>7. Current' = Current
  BY <1>1, Turns
<1>8. Types'
  BY <1>1, <1>2, <1>4 DEF IInv, Types
<1>9. InTurn' /\ Made' /\ Walking'
  BY <1>1 DEF IInv, InTurn, Made, Walking
<1>10. Meeting'
  <2>1. Summary(backend', found', more) /\ more \in SUBSET sampled'
    BY <1>1, <1>4, <1>6
  <2>2. Of(sampled', Current')
            = more \cup {Given(Current', pending'[i]) : i \in 1..Len(pending')}
    BY <1>1, <1>5, <1>7
  <2> QED BY <2>1, <2>2 DEF Meeting
<1> QED BY <1>8, <1>9, <1>10 DEF IInv

\* The source made has the fields found, and the next one starts from none.
LEMMA EndOfSampleInv ==
    ASSUME IInv, EndOfSample
    PROVE  IInv'
<1> DEFINE made_ == [name |-> Current, fields |-> found]
           n     == Len(sources)
<1>1. /\ UNCHANGED <<backend, live, names, edges, sampled, walked, pending, outcome>>
      /\ pc = "documents" /\ pending = <<>> /\ found' = NoFields
      /\ sources' = Append(sources, made_) /\ pc' = After(Len(sources'))
  BY DEF EndOfSample, world, given
<1>2. n \in Nat /\ Len(names) \in Nat /\ n + 1 \in 1..Len(names) /\ made_ \in Source
  BY <1>1, Turns DEF IInv, Types, Source
<1> HIDE DEF made_
<1>3. /\ sources' \in Seq(Source) /\ Len(sources') = n + 1 /\ sources'[n + 1] = made_
      /\ \A i \in 1..n : sources'[i] = sources[i]
  BY <1>1, <1>2, AppendProperties DEF IInv, Types
<1>4. pc' \in {"documents", "edges", "assembling"} /\ (pc' = "documents" <=> n + 1 < Len(names))
  BY <1>1, <1>3 DEF After
<1>5. made_.name = names[n + 1] /\ made_.fields = found
  BY DEF Current, made_
<1>6. \A i \in 1..Len(sources') : i \in 1..n \/ i = n + 1
  BY <1>2, <1>3
<1>7. Types'
  <2>1. NoFields \in FieldMaps
    BY DEF NoFields, FieldMaps
  <2> QED BY <1>1, <1>3, <2>1 DEF IInv, Types
<1>8. InTurn'
  <2>1. \A i \in 1..Len(sources') : sources'[i].name = names[i]
    BY <1>1, <1>3, <1>5, <1>6 DEF IInv, InTurn
  <2>2. \A x \in sampled : \E i \in 1..Len(names) : i <= Len(sources') + 1 /\ x.source = names[i]
    BY <1>2, <1>3 DEF IInv, InTurn
  <2> QED BY <1>1, <1>2, <1>3, <1>4, <2>1, <2>2 DEF IInv, InTurn
<1>9. Made'
  <2>1. Summary(backend, found, Of(sampled, names[n + 1]))
    <3>1. PICK met \in SUBSET sampled :
             /\ Summary(backend, found, met)
             /\ Of(sampled, Current) = met \cup {Given(Current, pending[i]) : i \in 1..Len(pending)}
      BY <1>1 DEF IInv, Meeting
    <3>2. Of(sampled, Current) = met
      BY <1>1, <3>1, EmptySeq
    <3> QED BY <3>1, <3>2 DEF Current
  <2>2. \A i \in 1..Len(sources') : Summary(backend, sources'[i].fields, Of(sampled, names[i]))
    BY <1>3, <1>5, <1>6, <2>1 DEF IInv, Made
  <2> QED BY <1>1, <2>2 DEF Made
<1>10. Meeting'
  <2> SUFFICES ASSUME pc' = "documents" PROVE Meeting'
    BY DEF Meeting
  <2>1. n + 2 \in 1..Len(names) /\ Current' = names[n + 2]
    <3>1. Current' = names'[Len(sources') + 1]
      BY DEF Current
    <3>2. n + 1 + 1 = n + 2 /\ n + 2 \in 1..Len(names)
      BY <1>2, <1>4
    <3> QED BY <1>1, <1>3, <3>1, <3>2
  <2>2. \A i \in 1..Len(names) : i <= n + 1 => names[i] # names[n + 2]
    BY <1>2, <2>1, LenProperties DEF IInv, Types, IsInjective
  <2>3. Of(sampled', Current') = {}
    BY <1>1, <2>1, <2>2 DEF IInv, InTurn, Of
  <2>4. Summary(backend', found', {})
    BY <1>1 DEF Summary, NoFields
  <2>5. {Given(Current', pending'[i]) : i \in 1..Len(pending')} = {}
    BY <1>1, EmptySeq
  <2> QED BY <2>3, <2>4, <2>5 DEF Meeting
<1>11. Walking'
  BY <1>1, <1>4 DEF IInv, InTurn, Walking, Unambiguous
<1> QED BY <1>7, <1>8, <1>9, <1>10, <1>11 DEF IInv

\* One relationship kept for each name.
Kept(relations) == {CHOOSE e \in relations : e.name = n : n \in {e.name : e \in relations}}

\* Of relationships that are not ambiguous the one kept for a type is the only one.
LEMMA KeptSpeaks ==
    ASSUME NEW relations, ~Ambiguous(relations), NEW x \in relations
    PROVE  {e \in Kept(relations) : e.name = x.name} = {x}
<1>1. \A e \in relations : e.name = x.name => e = x
  BY DEF Ambiguous
<1>2. x \in Kept(relations)
  <2>1. (CHOOSE e \in relations : e.name = x.name) = x
    BY <1>1
  <2> QED BY <2>1 DEF Kept
<1>3. Kept(relations) \subseteq relations
  BY DEF Kept
<1> QED BY <1>1, <1>2, <1>3

LEMMA ReadEdgesInv ==
    ASSUME IInv, ReadEdges
    PROVE  IInv'
<1>1. /\ UNCHANGED <<backend, live, names, sources, sampled, pending, found>> /\ pc = "edges"
      /\ \/ pc' = "over" /\ outcome' = "refused"
         \/ /\ pc' = "assembling" /\ outcome' = outcome /\ ~Ambiguous(Related(walked'))
            /\ edges' = {CHOOSE e \in Related(walked') : e.name = n :
                            n \in {e.name : e \in Related(walked')}}
  BY DEF ReadEdges, world, scan, End
<1>2. Types' /\ InTurn' /\ Made' /\ Meeting'
  BY <1>1 DEF IInv, Types, InTurn, Made, Meeting
<1>3. CASE pc' = "over" /\ outcome' = "refused"
  BY <1>1, <1>2, <1>3 DEF IInv, Walking
<1>4. CASE pc' = "assembling"
  <2> DEFINE related == Related(walked')
  <2>1. ASSUME NEW r \in walked', NEW a \in r.from \cap ToSet(names),
               NEW b \in r.to \cap ToSet(names)
        PROVE  {e \in edges' : e.name = r.type} = {[name |-> r.type, source |-> a, target |-> b]}
    <3> DEFINE x == [name |-> r.type, source |-> a, target |-> b]
    <3>1. x \in related
      BY <2>1 DEF Related
    <3>2. x.name = r.type
      OBVIOUS
    <3>3. ~Ambiguous(related) /\ edges' = Kept(related)
      BY <1>1, <1>4 DEF Kept
    <3> HIDE DEF x, related
    <3>4. {e \in edges' : e.name = x.name} = {x}
      BY <3>1, <3>3, KeptSpeaks
    <3> QED BY <3>2, <3>4 DEF x
  <2>2. Unambiguous'
    BY <1>1, <2>1 DEF Unambiguous
  <2> QED BY <1>2, <1>4, <2>2 DEF IInv, Walking
<1> QED BY <1>1, <1>3, <1>4

LEMMA AssembleInv ==
    ASSUME IInv, Assemble
    PROVE  IInv'
BY DEF Assemble, End, world, made, given, scan,
       IInv, Types, InTurn, Made, Meeting, Walking, Unambiguous

\* Every step keeps the invariant.
LEMMA StepInv == IInv /\ [Next]_vars => IInv'
<1> SUFFICES ASSUME IInv, [Next]_vars PROVE IInv'
  OBVIOUS
<1>1. CASE ListSources
  BY <1>1, ListSourcesInv
<1>2. CASE ReadDocument
  BY <1>2, ReadDocumentInv
<1>3. CASE MeetEntry
  BY <1>3, MeetEntryInv
<1>4. CASE EndOfSample
  BY <1>4, EndOfSampleInv
<1>5. CASE ReadEdges
  BY <1>5, ReadEdgesInv
<1>6. CASE Assemble
  BY <1>6, AssembleInv
<1>7. CASE Breaks
  BY <1>7, NothingMade DEF Breaks, End, world, scan, IInv, Types
<1>8. CASE DatabaseChanges
  BY <1>8, NothingMade DEF DatabaseChanges, scan
<1>9. CASE UNCHANGED vars
  BY <1>9, NothingMade DEF vars, world, scan, IInv, Types
<1> QED BY <1>1, <1>2, <1>3, <1>4, <1>5, <1>6, <1>7, <1>8, <1>9 DEF Next

-----------------------------------------------------------------------------
(* The theorems                                                            *)

LEMMA Invariance == Spec => []IInv
<1> QED BY InitInv, StepInv, PTL DEF Spec

\* Each source of a schema has the fields its own sample had and no others,
\* though one closure and one counter scan all of them (mongodb.py:58-109,
\* neo4j.py:81-95).
THEOREM SampledFieldsOwned == Spec => []FieldsOwned
<1>1. IInv => FieldsOwned
  <2> SUFFICES ASSUME IInv, outcome = "schema", NEW i \in DOMAIN sources
               PROVE  DOMAIN sources[i].fields =
                          {e.path : e \in {x \in sampled : x.source = sources[i].name}}
    BY DEF FieldsOwned
  <2>1. i \in 1..Len(sources)
    BY LenProperties DEF IInv, Types
  <2> QED BY <2>1 DEF IInv, InTurn, Made, Summary, Of
<1> QED BY <1>1, Invariance, PTL

\* The type of a field is what all the sampled documents that have it agree on,
\* in whatever order the cursor handed them over (mongodb.py:87-90).
THEOREM SampledTypesAgreed == Spec => []TypesAgreed
<1>1. IInv => TypesAgreed
  <2> SUFFICES ASSUME IInv, outcome = "schema", backend = "mongo", NEW i \in DOMAIN sources,
                      NEW p \in DOMAIN sources[i].fields
               PROVE  sources[i].fields[p] = Agreed(KindsOf(sources[i].name, p))
    BY DEF TypesAgreed, Agreed
  <2>1. i \in 1..Len(sources)
    BY LenProperties DEF IInv, Types
  <2>2. sources[i].fields[p] = Agreed(KindsMet(Of(sampled, sources[i].name), p))
    BY <2>1 DEF IInv, InTurn, Made, Summary
  <2>3. KindsMet(Of(sampled, sources[i].name), p) = KindsOf(sources[i].name, p)
    BY DEF KindsMet, KindsOf, Of
  <2> QED BY <2>2, <2>3
<1> QED BY <1>1, Invariance, PTL

\* The relationship of a type goes the way every sampled edge of the type goes
\* between listed labels, however many labels a node has (neo4j.py:103-113).
THEOREM SampledEdgesUnambiguous == Spec => []EdgesUnambiguous
<1>1. IInv => EdgesUnambiguous
  BY DEF IInv, Walking, Unambiguous, EdgesUnambiguous
<1> QED BY <1>1, Invariance, PTL
=============================================================================
