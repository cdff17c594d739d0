---------------------------- MODULE MongoSession ----------------------------
(***************************************************************************)
(* MongoDBConnector.execute: a query that compares one field with a moment *)
(* written as text.  Verification discovers the schema; execute discovers  *)
(* it again to learn which fields hold dates, turns the text into a date   *)
(* where they do, and aggregates.  Each discovery is one step here         *)
(* (module Sampling takes it apart); the collection changes in between.    *)
(*                                                                         *)
(* A document is the kind of its value in that field: a date, a text,      *)
(* another kind, or none.  Dates compare with dates only, texts with texts *)
(* only; the values themselves are all within the bound.                   *)
(***************************************************************************)
EXTENDS Naturals, FiniteSets

CONSTANTS Documents,  \* identifiers of documents
          SampleSize, \* discovery.sample_size
          Limits,     \* row limits a plan may have
          MaxChanges  \* bound on the changes of the collection

ASSUME MongoAssumption ==
    /\ IsFiniteSet(Documents)
    /\ SampleSize \in Nat \ {0} /\ Limits \subseteq Nat \ {0} /\ MaxChanges \in Nat

Kinds == {"datetime", "string", "number", "none"}

VARIABLES collection, \* each document's kind
          past,       \* what the collection has been since the call began
          changes,
          iso,        \* whether the text is a moment written in ISO 8601
          limit,
          pc,
          verified,   \* the field's type as verification discovered it
          temporal,   \* whether the second discovery found dates
          bound,      \* the kind of the value sent
          rows,       \* the documents returned
          outcome     \* "pending", "rows", or the error raised

request   == <<iso, limit>>
mongoVars == <<collection, past, changes, request, pc, verified, temporal, bound, rows, outcome>>

InitMongo ==
    /\ collection \in [Documents -> Kinds]
    /\ past = {collection}
    /\ changes = 0
    /\ iso \in BOOLEAN
    /\ limit \in Limits
    /\ pc = "verifying"
    /\ verified = "pending"
    /\ temporal = FALSE
    /\ bound = "string"
    /\ rows = {}
    /\ outcome = "pending"

CollectionChanges ==
    /\ pc # "over"
    /\ changes < MaxChanges
    /\ \E d \in Documents, kind \in Kinds :
          /\ kind # collection[d]
          /\ collection' = [collection EXCEPT ![d] = kind]
    /\ past' = past \cup {collection'}
    /\ changes' = changes + 1
    /\ UNCHANGED <<request, pc, verified, temporal, bound, rows, outcome>>

-----------------------------------------------------------------------------

Bearing(c) == {d \in Documents : c[d] # "none"}

\* The type a sample gives the field, "absent" if no document of it has it.
TypeIn(c, sample) ==
    LET kinds == {c[d] : d \in sample} \ {"none"}
    IN  IF kinds = {} THEN "absent"
        ELSE IF Cardinality(kinds) = 1 THEN CHOOSE k \in kinds : TRUE
        ELSE "unknown"

Samples == {s \in SUBSET Documents :
               \/ Cardinality(s) = SampleSize
               \/ s = Documents /\ Cardinality(s) < SampleSize}

End(result) == pc' = "over" /\ outcome' = result

\* verified(): the plan is made again under the schema as it is now; the field
\* must be there with a type that compares with text.
Verify ==
    /\ pc = "verifying"
    /\ \E sample \in Samples :
          /\ verified' = TypeIn(collection, sample)
          /\ IF verified' \in {"absent", "number"} THEN End("ValidationError")
             ELSE pc' = "connected" /\ UNCHANGED outcome
    /\ UNCHANGED <<collection, past, changes, request, temporal, bound, rows>>

DiscoverAgain ==
    /\ pc = "connected"
    /\ \E sample \in Samples : temporal' = (TypeIn(collection, sample) = "datetime")
    /\ pc' = "converting"
    /\ UNCHANGED <<collection, past, changes, request, verified, bound, rows, outcome>>

\* Faulty form: values reach the server as the compiler wrote them.
ConvertNothing ==
    /\ pc = "converting"
    /\ bound' = "string" /\ pc' = "sending"
    /\ UNCHANGED <<collection, past, changes, request, verified, temporal, rows, outcome>>

\* convert: text in a place of a field of dates must be a moment.
Convert ==
    /\ pc = "converting"
    /\ IF temporal /\ ~iso THEN End("ExecutionError") /\ UNCHANGED bound
       ELSE /\ bound' = IF temporal THEN "datetime" ELSE "string"
            /\ pc' = "sending" /\ UNCHANGED outcome
    /\ UNCHANGED <<collection, past, changes, request, verified, temporal, rows>>

\* The server's pipeline matches, then limits.
Aggregate ==
    /\ pc = "sending"
    /\ LET matching == {d \in Documents : collection[d] = bound}
       IN  \E answer \in SUBSET matching :
              /\ \/ Cardinality(answer) = limit
                 \/ Cardinality(answer) < limit /\ answer = matching
              /\ rows' = answer
    /\ End("rows")
    /\ UNCHANGED <<collection, past, changes, request, verified, temporal, bound>>

\* A discovery, the connection or the aggregation fails.
Breaks ==
    /\ pc # "over"
    /\ End(IF pc = "verifying" THEN "SchemaDiscoveryError" ELSE "ExecutionError")
    /\ UNCHANGED <<collection, past, changes, request, verified, temporal, bound, rows>>

NextMongo == Verify \/ DiscoverAgain \/ Convert \/ Aggregate \/ Breaks \/ CollectionChanges

SpecMongo == InitMongo /\ [][NextMongo]_mongoVars
-----------------------------------------------------------------------------

\* While every document that has the field has it with the type verification
\* found, though documents come and go and the samples are whole, an answer has
\* every document with the field, up to the limit: none is lost because its
\* value met a bound of the other type (mongodb.py:120-145).
AnswerComplete ==
    /\ outcome = "rows" /\ Cardinality(Documents) <= SampleSize
    /\ verified \in {"datetime", "string"}
    /\ \A c \in past : TypeIn(c, Documents) = verified
    => \/ rows = Bearing(collection)
       \/ Cardinality(rows) = limit /\ rows \subseteq Bearing(collection)

\* docs/user_manual.md:141: date predicates become dates for fields discovered
\* as dates, and drift of the schema fails safely at execution.  So what
\* verification took for a field of dates is compared with a date, or the call
\* fails.
DriftFailsSafely ==
    outcome = "rows" /\ verified = "datetime" => bound = "datetime"
=============================================================================
