------------------------------ MODULE Sampling ------------------------------
(***************************************************************************)
(* The discover methods of the MongoDB and Neo4j connectors, which infer a *)
(* schema from samples: the collections or labels, then a sample of each,  *)
(* one document or node after another, and for Neo4j a sample of the       *)
(* edges.  Nothing holds the database still meanwhile.                     *)
(*                                                                         *)
(* A document is the sequence of its entries in the order they are met, an *)
(* entry having a path and the kind of its value; a node's properties are  *)
(* entries with paths of one segment.                                      *)
(***************************************************************************)
EXTENDS Naturals, Sequences, FiniteSets, SequencesExt

CONSTANTS Backends,   \* connectors discovering
          Entries,    \* entries a document may have: [path, kind]
          Databases,  \* what each one's database may be: the documents of each
                      \* source, by identifier, and the edges
          MaxSources, \* discovery.max_sources
          MaxFields,  \* discovery.max_fields
          SampleSize, \* discovery.sample_size
          MaxNesting, \* 8: deepest document scanned (mongodb.py:66)
          MaxChanges  \* bound on the changes of the database during a call

ASSUME SamplingAssumption ==
    /\ Backends \subseteq {"mongo", "neo4j"}
    /\ {MaxSources, MaxFields, SampleSize} \subseteq Nat \ {0}
    /\ {MaxNesting, MaxChanges} \subseteq Nat
    /\ \A b \in Backends : \A db \in Databases[b] :
          /\ IsFiniteSet(DOMAIN db.documents)
          /\ \A s \in DOMAIN db.documents : db.documents[s] \in Seq(Seq(Entries))

VARIABLES backend,
          live,    \* the database now
          changes,
          pc,
          names,   \* the sources listed
          read,    \* the documents of the current source handed over
          pending, \* the entries of the last of them not met yet
          found,   \* the fields of the current source: path to type
          sources, \* the sources made so far
          edges,   \* the relationships found
          sampled, \* what was handed over: [source, path, kind]
          walked,  \* the edges handed over
          outcome  \* "pending", "schema", "refused" or "broken"

world == <<backend, live, changes>>
made  == <<names, sources, edges>>
given == <<sampled, walked>>
scan  == <<read, pending, found>>
vars  == <<world, made, given, scan, pc, outcome>>

NoFields == [p \in {} |-> "unknown"]

Init == /\ backend \in Backends
        /\ live \in Databases[backend]
        /\ changes = 0
        /\ pc = "sources"
        /\ names = <<>> /\ sources = <<>> /\ edges = {}
        /\ read = {} /\ pending = <<>> /\ found = NoFields
        /\ sampled = {} /\ walked = {}
        /\ outcome = "pending"

DatabaseChanges ==
    /\ pc # "over"
    /\ changes < MaxChanges
    /\ live' \in Databases[backend] \ {live}
    /\ changes' = changes + 1
    /\ UNCHANGED <<backend, made, given, scan, pc, outcome>>

-----------------------------------------------------------------------------

Documents(db, s) == IF s \in DOMAIN db.documents THEN db.documents[s] ELSE <<>>

Current == names[Len(sources) + 1]

End(result) == pc' = "over" /\ outcome' = result

\* Where the call goes on once n sources are made.
After(n) == IF n < Len(names') THEN "documents"
            ELSE IF backend = "neo4j" THEN "edges" ELSE "assembling"

ListSources ==
    /\ pc = "sources"
    /\ LET all == SetToSeq(DOMAIN live.documents)
       IN  names' = SubSeq(all, 1, IF Len(all) <= MaxSources THEN Len(all) ELSE MaxSources + 1)
    /\ IF Len(names') > MaxSources THEN End("refused")
       ELSE pc' = After(0) /\ UNCHANGED outcome
    /\ UNCHANGED <<world, given, scan, sources, edges>>

\* Faulty form: MongoDB's documents are read as Neo4j's nodes are.
LearntLast(known, entry) ==
    [p \in DOMAIN known \cup {entry.path} |-> IF p = entry.path THEN entry.kind ELSE known[p]]

\* A path met with another kind than before has no known type in MongoDB; in
\* Neo4j it has the type met last.
Learnt(known, entry) ==
    [p \in DOMAIN known \cup {entry.path} |->
        IF p # entry.path THEN known[p]
        ELSE IF backend = "mongo" /\ p \in DOMAIN known /\ known[p] # entry.kind THEN "unknown"
        ELSE entry.kind]

TooDeep(entry) == entry.kind = "object" /\ Len(entry.path) > MaxNesting

\* The cursor hands over one more document, in no order the code can rely on.
ReadDocument ==
    /\ pc = "documents"
    /\ pending = <<>>
    /\ Cardinality(read) < SampleSize
    /\ \E id \in DOMAIN Documents(live, Current) \ read :
          LET document == Documents(live, Current)[id]
          IN  /\ pending' = document
              /\ read' = read \cup {id}
              /\ sampled' = sampled \cup {[source |-> Current, path |-> document[i].path,
                                           kind |-> document[i].kind] : i \in DOMAIN document}
    /\ UNCHANGED <<world, made, walked, pc, found, outcome>>

\* Its next entry is met, and those inside it follow unless they lie too deep.
MeetEntry ==
    /\ pc = "documents"
    /\ pending # <<>>
    /\ found' = Learnt(found, Head(pending))
    /\ pending' = Tail(pending)
    /\ IF Cardinality(DOMAIN found') > MaxFields \/ TooDeep(Head(pending))
       THEN End("refused") ELSE UNCHANGED <<pc, outcome>>
    /\ UNCHANGED <<world, made, given, read>>

\* Faulty form: one dict of fields for all collections.
EndOfSampleShared ==
    /\ pc = "documents"
    /\ pending = <<>>
    /\ Cardinality(read) = SampleSize \/ DOMAIN Documents(live, Current) \subseteq read
    /\ sources' = Append(sources, [name |-> Current, fields |-> found])
    /\ read' = {} /\ found' = found
    /\ names' = names
    /\ pc' = After(Len(sources'))
    /\ UNCHANGED <<world, given, edges, pending, outcome>>

\* The sample is full or the cursor at its end: the source is made.
EndOfSample ==
    /\ pc = "documents"
    /\ pending = <<>>
    /\ Cardinality(read) = SampleSize \/ DOMAIN Documents(live, Current) \subseteq read
    /\ sources' = Append(sources, [name |-> Current, fields |-> found])
    /\ read' = {} /\ found' = NoFields
    /\ names' = names
    /\ pc' = After(Len(sources'))
    /\ UNCHANGED <<world, given, edges, pending, outcome>>

\* An edge relates every listed label of its start to every listed one of its end.
Related(rows) ==
    UNION {{[name |-> r.type, source |-> a, target |-> b] :
               a \in r.from \cap ToSet(names), b \in r.to \cap ToSet(names)} : r \in rows}

\* Faulty form: of several relationships of one type any will do.
AmbiguousNever(relations) == relations # relations

Ambiguous(relations) == \E e, f \in relations : e.name = f.name /\ e # f

ReadEdges ==
    /\ pc = "edges"
    /\ \E rows \in SUBSET live.edges :
          /\ \/ rows = live.edges /\ Cardinality(rows) <= SampleSize
             \/ Cardinality(rows) = SampleSize
          /\ walked' = rows
          /\ IF Ambiguous(Related(rows)) THEN End("refused") /\ UNCHANGED edges
             ELSE /\ edges' = {CHOOSE e \in Related(rows) : e.name = n :
                                  n \in {e.name : e \in Related(rows)}}
                  /\ pc' = "assembling" /\ UNCHANGED outcome
    /\ UNCHANGED <<world, names, sources, sampled, scan>>

Assemble ==
    /\ pc = "assembling"
    /\ End("schema")
    /\ UNCHANGED <<world, made, given, scan>>

\* The connection, a statement or a name fails.
Breaks ==
    /\ pc # "over"
    /\ End("broken")
    /\ UNCHANGED <<world, made, given, scan>>

Next == \/ ListSources \/ ReadDocument \/ MeetEntry \/ EndOfSample \/ ReadEdges
        \/ Assemble \/ Breaks \/ DatabaseChanges

Spec == Init /\ [][Next]_vars
-----------------------------------------------------------------------------

KindsOf(s, p) == {e.kind : e \in {x \in sampled : x.source = s /\ x.path = p}}

\* Each source has the fields its own sample had, all of them and no other
\* collection's, though one closure scans them all (mongodb.py:58-109,
\* neo4j.py:81-95).
FieldsOwned ==
    outcome = "schema" =>
        \A i \in DOMAIN sources :
            DOMAIN sources[i].fields = {e.path : e \in {x \in sampled : x.source = sources[i].name}}

\* The type of a MongoDB field is what all sampled documents agree on, and
\* unknown otherwise: it does not depend on the order the cursor hands them over
\* in, so that two discoveries of the same sample give the same schema, as
\* re-validation needs (mongodb.py:87-90).
TypesAgreed ==
    outcome = "schema" /\ backend = "mongo" =>
        \A i \in DOMAIN sources : \A p \in DOMAIN sources[i].fields :
            LET kinds == KindsOf(sources[i].name, p)
            IN  sources[i].fields[p] = IF \E k \in kinds : kinds = {k}
                                       THEN CHOOSE k \in kinds : TRUE ELSE "unknown"

\* A relationship of a Neo4j schema holds for every sampled edge of its type: no
\* sampled edge between listed labels goes another way (neo4j.py:103-113).
EdgesUnambiguous ==
    outcome = "schema" =>
        \A r \in walked : \A a \in r.from \cap ToSet(names), b \in r.to \cap ToSet(names) :
            {e \in edges : e.name = r.type} = {[name |-> r.type, source |-> a, target |-> b]}
=============================================================================
