--------------------------- MODULE Interpretation ---------------------------
(***************************************************************************)
(* api.py, QuerySession.ask over NLQuery.interpret: choosing what of the   *)
(* schema a provider is shown, asking it for a typed intent with bounded   *)
(* repair, and what a session remembers of the questions that compiled.    *)
(* llm/providers.py: the request each provider makes of the messages.      *)
(*                                                                         *)
(* A question is the set of its words and the set of business terms it     *)
(* contains; a source has a name (a sequence of dot-separated segments),   *)
(* its fields' names, the words of all these and of its description, and a *)
(* size.                                                                   *)
(***************************************************************************)
EXTENDS Naturals, Sequences, FiniteSets, SequencesExt

CONSTANTS Schemas,    \* what schema() may return: [sources, edges]
          Policies,   \* allowed sources, or Anything
          Anything,   \* allowed_sources = None
          Questions,
          Intents,    \* what a provider may answer, with the sources it names
          Catalog,    \* business terms: [name, aliases, candidates]
          MaxShown,   \* discovery.max_context_sources
          MaxSize,    \* discovery.max_context_chars
          Providers,  \* among "openai", "anthropic" and "ollama"
          Attempts,   \* 3 (api.py:122)
          NoIntent,   \* Python's None
          MaxChanges  \* bound on the changes of policy

ASSUME InterpretationAssumption ==
    /\ {MaxShown, Attempts} \subseteq Nat \ {0}
    /\ {MaxSize, MaxChanges} \subseteq Nat
    /\ NoIntent \notin Intents
    /\ Providers \subseteq {"openai", "anthropic", "ollama"}
    /\ \A s \in Schemas : s.sources \in Seq(ToSet(s.sources))
    /\ \A q \in Questions : IsFiniteSet(q.words)
    /\ \A i \in Intents : "sources" \in DOMAIN i

VARIABLES allowed,  \* policy.allowed_sources
          changes,
          previous, \* session.previous_intent
          planned,  \* session.previous_plan, by the intent it plans
          granted,  \* history: what was allowed when the previous intent compiled
          pc,
          question,
          schema,   \* what schema() returned, cut to the policy
          shown,    \* the payload: [sources, edges] of the schema retrieved, the
                    \* catalog's semantics and the session's previous intent
          calls,    \* how often the provider was asked
          provider, \* the client's llm
          messages, \* interpret's list of messages: [role, texts]
          request,  \* what was last put to the provider: [system, messages]
          intent,   \* what it answered
          outcome   \* what the last question ended in

session == <<previous, planned, granted>>
talk    == <<messages, request>>
work    == <<question, schema, shown, calls, intent, talk>>
vars    == <<allowed, changes, provider, session, work, pc, outcome>>

NoQuestion == [words |-> {}, mentions |-> {}]
NoSchema   == [sources |-> <<>>, edges |-> {}]
NoPayload  == [sources |-> <<>>, edges |-> {}, semantics |-> {}, previous |-> NoIntent]
NoRequest  == [system |-> <<>>, messages |-> <<>>]

Init == /\ allowed \in Policies
        /\ changes = 0
        /\ previous = NoIntent /\ planned = NoIntent /\ granted = allowed
        /\ pc = "idle"
        /\ question = NoQuestion /\ schema = NoSchema /\ shown = NoPayload
        /\ calls = 0 /\ intent = NoIntent
        /\ provider \in Providers
        /\ messages = <<>> /\ request = NoRequest
        /\ outcome = "none"

PolicyChange ==
    /\ pc = "idle"
    /\ changes < MaxChanges
    /\ allowed' \in Policies \ {allowed}
    /\ changes' = changes + 1
    /\ UNCHANGED <<provider, session, work, pc, outcome>>

End(result) == /\ pc' = "idle"
               /\ outcome' = result
               /\ UNCHANGED <<allowed, changes, provider>>

Stay == UNCHANGED <<allowed, changes, provider, outcome>>

-----------------------------------------------------------------------------
(* What the provider is shown                                              *)

\* A list comprehension: the members that pass the test, in order.
Those(seq, Test(_)) == FlattenSeq([i \in DOMAIN seq |-> IF Test(seq[i]) THEN <<seq[i]>> ELSE <<>>])

\* interpret: sources the policy does not allow are taken out, with every
\* relationship that touches one.
Permitted(s) ==
    IF allowed = Anything THEN s
    ELSE [sources |-> Those(s.sources, LAMBDA x : x.name \in allowed),
          edges   |-> {e \in s.edges : {e.source, e.target} \subseteq allowed}]

\* The first segments of the candidates of the terms in the question.
Relevant(q) ==
    {<<n[1]>> : n \in UNION {ToSet(c.candidates) :
                                c \in {d \in Catalog : ({d.name} \cup d.aliases) \cap q.mentions # {}}}}

Score(q, source) ==
    Cardinality(q.words \cap source.words)
    + (IF source.name \in Relevant(q) THEN 10 ELSE 0)

\* Best score first, earlier source first among equals.
Ahead(q, sources, i, j) ==
    \/ Score(q, sources[i]) > Score(q, sources[j])
    \/ Score(q, sources[i]) = Score(q, sources[j]) /\ i < j

Place(q, sources, j) == Cardinality({i \in DOMAIN sources : Ahead(q, sources, i, j)}) + 1

Ranked(q, sources) ==
    [k \in DOMAIN sources |-> sources[CHOOSE j \in DOMAIN sources : Place(q, sources, j) = k]]

\* Faulty form: the best of the first sources, instead of the first of the best.
RetrievedEarly(q, s) ==
    LET best == Ranked(q, SubSeq(s.sources, 1, IF Len(s.sources) < MaxShown THEN Len(s.sources)
                                               ELSE MaxShown))
        names == {best[i].name : i \in DOMAIN best}
    IN  [sources |-> best, edges |-> {e \in s.edges : {e.source, e.target} \subseteq names}]

\* LexicalRetriever.retrieve.
Retrieved(q, s) ==
    LET ranked == Ranked(q, s.sources)
        best   == SubSeq(ranked, 1, IF Len(ranked) < MaxShown THEN Len(ranked) ELSE MaxShown)
        names  == {best[i].name : i \in DOMAIN best}
    IN  [sources |-> best, edges |-> {e \in s.edges : {e.source, e.target} \subseteq names}]

Size(sources) == FoldLeft(LAMBDA sum, x : sum + x.size, 0, sources)

\* The policy is consulted for the schema only: the catalog is shown as it was
\* configured, the previous intent as the session holds it.
Payload(retrieved) ==
    [sources |-> retrieved.sources, edges |-> retrieved.edges,
     semantics |-> Catalog, previous |-> previous]

-----------------------------------------------------------------------------
(* What the provider is told                                               *)

Message(role, text) == [role |-> role, texts |-> <<text>>]

Texts(ms) == FlattenSeq([i \in DOMAIN ms |-> ms[i].texts])

\* The rules of interpretation, then what is asked: "payload" stands for the
\* text of the payload, which is one throughout a question.
Opening == <<Message("system", "rules"), Message("user", "payload")>>

\* OllamaProvider adds the form of the answer to the first system message.
Grounded(ms) ==
    IF ms # <<>> /\ Head(ms).role = "system"
    THEN [ms EXCEPT ![1].texts = Append(@, "format")]
    ELSE <<Message("system", "format")>> \o ms

\* structured_generate: OpenAI takes the messages as they are; Anthropic takes
\* those of the system apart.
Request(ms) ==
    CASE provider = "openai"    -> [system |-> <<>>, messages |-> ms]
      [] provider = "anthropic" ->
            [system   |-> Texts(Those(ms, LAMBDA m : m.role = "system")),
             messages |-> Those(ms, LAMBDA m : m.role # "system")]
      [] provider = "ollama"    -> [system |-> <<>>, messages |-> Grounded(ms)]

\* Faulty form: the form of the answer is added to the caller's own message.
LeftGrounded(ms) == IF provider = "ollama" THEN Grounded(ms) ELSE ms

\* The caller's messages after the call: the providers work on copies.
Left(ms) == ms

\* The provider is asked once more.
Put == /\ calls' = calls + 1
       /\ request' = Request(messages)

-----------------------------------------------------------------------------

Ask(q) ==
    /\ pc = "idle"
    /\ question' = q
    /\ schema' = NoSchema /\ shown' = NoPayload /\ calls' = 0 /\ intent' = NoIntent
    /\ messages' = <<>> /\ request' = NoRequest
    /\ pc' = "asked"
    /\ Stay
    /\ UNCHANGED session

\* An empty or overlong question, a credential in it, or no provider.
RefuseQuestion ==
    /\ pc = "asked"
    /\ \E error \in {"IntentError", "PolicyViolation", "ConfigurationError"} : End(error)
    /\ UNCHANGED <<session, work>>

\* Faulty form: the policy is not consulted.
ReadSchemaWhole ==
    /\ pc = "asked"
    /\ schema' \in Schemas
    /\ pc' = "retrieving"
    /\ Stay
    /\ UNCHANGED <<session, question, shown, calls, intent, talk>>

ReadSchema ==
    /\ pc = "asked"
    /\ \E s \in Schemas : schema' = Permitted(s)
    /\ pc' = "retrieving"
    /\ Stay
    /\ UNCHANGED <<session, question, shown, calls, intent, talk>>

SchemaFails ==
    /\ pc = "asked"
    /\ End("SchemaDiscoveryError")
    /\ UNCHANGED <<session, work>>

Retrieve ==
    /\ pc = "retrieving"
    /\ LET best == Retrieved(question, schema)
       IN  IF Size(best.sources) <= MaxSize
           THEN shown' = Payload(best) /\ pc' = "generating" /\ Stay
           ELSE End("PlanningError") /\ UNCHANGED shown
    /\ messages' = Opening
    /\ UNCHANGED <<session, question, schema, calls, intent, request>>

\* The whole context exceeds its budget, or a credential is in it.
RefuseContext ==
    /\ pc = "generating" /\ calls = 0
    /\ \E error \in {"IntentError", "PolicyViolation"} : End(error)
    /\ UNCHANGED <<session, work>>

\* The provider answers with a well-formed intent.
Generate ==
    /\ pc = "generating"
    /\ Put
    /\ messages' = Left(messages)
    /\ intent' \in Intents
    /\ pc' = "compiling"
    /\ Stay
    /\ UNCHANGED <<session, question, schema, shown>>

\* Faulty form: it is asked again without end, the count starting over.
MisunderstoodForever ==
    /\ pc = "generating"
    /\ calls' = (calls + 1) % Attempts
    /\ pc' = pc
    /\ Stay
    /\ UNCHANGED <<session, question, schema, shown, intent, talk>>

\* It fails or answers something else: it is told so and asked again, up to the
\* last attempt.
Misunderstood ==
    /\ pc = "generating"
    /\ Put
    /\ IF calls' = Attempts
       THEN messages' = Left(messages) /\ End("IntentError")
       ELSE /\ messages' = Append(Left(messages), Message("user", "repair"))
            /\ pc' = pc /\ Stay
    /\ UNCHANGED <<session, question, schema, shown, intent>>

\* Errors that are no misunderstanding end the question: a missing SDK, or a
\* credential in the intent.
ProviderUnusable ==
    /\ pc = "generating"
    /\ \/ End("ConfigurationError") /\ UNCHANGED <<calls, request>>
       \/ End("PolicyViolation") /\ Put
    /\ UNCHANGED <<session, question, schema, shown, intent, messages>>

Admits(policy, i) == policy # Anything => i.sources \subseteq policy

\* Faulty form: the policy is left to the provider's schema.
AdmittedIfKnown(i) ==
    \E s \in Schemas : i.sources \subseteq {x.name : x \in ToSet(s.sources)}

\* build_plan takes sources of the schema then current, if the policy allows them.
Admitted(i) ==
    /\ Admits(allowed, i)
    /\ \E s \in Schemas : i.sources \subseteq {x.name : x \in ToSet(s.sources)}

\* Faulty form: the session remembers the intent before it has compiled.
RememberEarly ==
    /\ pc = "compiling"
    /\ previous' = intent /\ granted' = allowed
    /\ \/ planned' = intent /\ pc' = "compiled" /\ Stay
       \/ End("PlanningError") /\ UNCHANGED planned
    /\ UNCHANGED work

\* compile() accepts the intent and the session moves on to it, or the question
\* ends in compile's error and the session stays where it was.
Compile ==
    /\ pc = "compiling"
    /\ \/ /\ Admitted(intent)
          /\ previous' = intent
          /\ planned' = intent
          /\ granted' = allowed
          /\ pc' = "compiled" /\ Stay
       \/ End("PlanningError") /\ UNCHANGED session
    /\ UNCHANGED work

\* The proposal is returned, or executed if asked; the session keeps the
\* question either way.
Finish ==
    /\ pc = "compiled"
    /\ \E result \in {"proposal", "rows", "ExecutionError"} : End(result)
    /\ UNCHANGED <<session, work>>

Steps == \/ RefuseQuestion \/ ReadSchema \/ SchemaFails \/ Retrieve \/ RefuseContext
         \/ Generate \/ Misunderstood \/ ProviderUnusable \/ Compile \/ Finish

Next == (\E q \in Questions : Ask(q)) \/ Steps \/ PolicyChange

\* A question under way goes on: every provider and every driver call has a
\* timeout of its own.
Spec == Init /\ [][Next]_vars /\ WF_vars(Steps)
-----------------------------------------------------------------------------

\* Of the schema the provider is shown allowed sources only, no relationship that
\* names another, and no more than the budgets allow, however the policy changes
\* between a session's questions (api.py:95-104, retrieval.py:36-50).  What else
\* the payload holds is not cut to the policy: RefinesGranted, NothingWithheld.
ShownAllowed ==
    LET names == {shown.sources[i].name : i \in DOMAIN shown.sources}
    IN  pc \in {"generating", "compiling"} =>
            /\ allowed # Anything => names \subseteq allowed
            /\ \A e \in shown.edges : {e.source, e.target} \subseteq names
            /\ Len(shown.sources) <= MaxShown /\ Size(shown.sources) <= MaxSize

\* The intent the provider is asked to refine names no source but those the
\* policy allowed when it compiled, whatever providers answered and whichever
\* questions failed since: until the policy changes, it tells of nothing the
\* policy withholds (api.py:110, 245-250, planner.py:96-99).
RefinesGranted ==
    pc \in {"generating", "compiling"} /\ shown.previous # NoIntent =>
        Admits(granted, shown.previous)

\* Not so once it has: a policy that is narrowed between two questions does not
\* reach the previous intent, nor any policy the catalog's candidates
\* (api.py:106-111).
NothingWithheld ==
    pc \in {"generating", "compiling"} /\ allowed # Anything =>
        /\ shown.previous # NoIntent => Admits(allowed, shown.previous)
        /\ \A c \in shown.semantics : \A n \in ToSet(c.candidates) :
               \E s \in allowed : IsPrefix(s, n)

\* Whether a source has a field that a business term of the question stands for.
Meant(source) ==
    \E c \in Catalog : /\ ({c.name} \cup c.aliases) \cap question.mentions # {}
                      /\ \E f \in source.fields : source.name \o f \in ToSet(c.candidates)

\* docs/architecture.md:5 has business terms strengthen the relevance of sources:
\* a source a term of the question stands for is not left out for one no term
\* stands for unless that one shares more words with the question
\* (retrieval.py:20-38).
TermsStrengthen ==
    pc \in {"generating", "compiling"} =>
        \A x \in ToSet(schema.sources) \ ToSet(shown.sources), y \in ToSet(shown.sources) :
            Meant(x) /\ ~Meant(y) =>
                Cardinality(question.words \cap y.words) > Cardinality(question.words \cap x.words)

\* The intent a session refines next and the plan it shows belong to the same
\* question, one that compiled, though later questions fail half-way
\* (api.py:245-250).
SessionConsistent == previous = planned

\* Whichever provider is asked, and for the how-manieth time, it is told the rules
\* of interpretation first and once, the form of the answer once where the
\* provider's interface does not take it, the payload once, as the user's, and
\* one correction for every answer it got wrong
\* (api.py:115-137, providers.py:34-48, 75-92, 131-151).
ToldOnce ==
    calls > 0 =>
        LET told == request.system \o Texts(request.messages)
            form == IF provider = "ollama" THEN <<"format">> ELSE <<>>
        IN  /\ told = <<"rules">> \o form \o <<"payload">> \o [i \in 1..(calls - 1) |-> "repair"]
            /\ \A m \in ToSet(request.messages) :
                   m.role = "user" <=> ToSet(m.texts) \subseteq {"payload", "repair"}

\* Every question comes to an end, however often the provider misunderstands
\* (api.py:122-137).
Answered == pc # "idle" ~> pc = "idle"
=============================================================================
