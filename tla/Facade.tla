------------------------------- MODULE Facade -------------------------------
(***************************************************************************)
(* api.py, NLQuery over any connector: schema, compile, validate and       *)
(* execute as the steps in which they read the cache, the backend's        *)
(* metadata and the policy, with the backend's schema changing and time    *)
(* passing in between.  The connector's compiler is a parameter.           *)
(*                                                                         *)
(* A client object serves one call at a time; its policy attribute changes *)
(* only between calls.  Proposals are plain values their holder may edit.  *)
(***************************************************************************)
EXTENDS Planner

CONSTANTS Schemas,       \* what the backend's metadata may be
          NoSchema,      \* Python's None
          Supplies,      \* the schema argument of NLQuery: schemas or NoSchema
          Questions,     \* typed intents
          Catalog, Caps,
          Translate(_, _), \* connector.compiler.compile: IR and schema to
                         \* [error, statement]
          Policies,      \* policies the client may be given
          Limits,        \* row limits somebody may write into a proposal
          TTL,           \* discovery.ttl_seconds
          MaxEntries,    \* capacity of the schema cache
          Horizon,       \* bound on the clock
          MaxDiscovery,  \* the longest a discovery takes
          MaxProposals,  \* bound on the proposals at hand
          MaxChanges,    \* bound on schema and policy changes
          Reference      \* the instant of each clock value

ASSUME FacadeAssumption ==
    /\ {TTL, Horizon, MaxDiscovery, MaxProposals, MaxChanges} \subseteq Nat
    /\ MaxEntries \in Nat \ {0}
    /\ NoSchema \notin Schemas
    /\ Supplies \subseteq Schemas \cup {NoSchema}
    /\ Limits \subseteq Nat
    /\ \A q \in Questions : WellFormed(q) /\ q.limit \in Nat
    /\ \A s \in Schemas : WellFormedSchema(s)
    /\ WellFormedCatalog(Catalog)
    /\ \A p \in Policies : p.max_rows \in Nat

VARIABLES supplied,  \* client._schema
          live,      \* the backend's metadata now
          clock,     \* time.monotonic()
          cache,     \* client._cache
          policy,    \* client.policy
          proposals, \* the CompiledQuery values at hand
          pc,        \* where the call in flight is
          job,       \* its arguments
          view,      \* the schema it read last
          plan,      \* the plan it built
          outcome,   \* what the last call returned or raised
          sent,      \* what the last call sent to the backend
          changes,   \* changes of schema and policy so far
          lastLive   \* when each schema was last the backend's

client  == <<supplied, cache, policy>>
call    == <<pc, job, view, plan>>
results == <<proposals, outcome, sent>>
backend == <<live, lastLive, changes>>
vars    == <<client, call, results, backend, clock>>

Store == INSTANCE TTLCache WITH
    Keys <- {"schema"}, Values <- Schemas, Nothing <- NoSchema,
    entries <- cache, now <- clock, reply <- view

Idle   == [op |-> "none", start |-> 0]
NoPlan == [schema |-> NoSchema]
Quiet  == [op |-> "none", error |-> "none"]

Init == /\ supplied \in Supplies
        /\ live \in Schemas
        /\ clock = 0
        /\ cache = <<>>
        /\ policy \in Policies
        /\ proposals = {}
        /\ pc = "idle"
        /\ job = Idle
        /\ view = NoSchema
        /\ plan = NoPlan
        /\ outcome = Quiet
        /\ sent = Idle
        /\ changes = 0
        /\ lastLive = [s \in Schemas |-> IF s = live THEN 0 ELSE -1]

-----------------------------------------------------------------------------
(* The world outside the client                                            *)

SchemaChange ==
    /\ changes < MaxChanges
    /\ live' \in Schemas \ {live}
    /\ lastLive' = [lastLive EXCEPT ![live'] = clock]
    /\ changes' = changes + 1
    /\ UNCHANGED <<client, call, results, clock>>

\* A discovery under way ends within MaxDiscovery (sqlite.py:56-57).
Tick ==
    /\ clock < Horizon
    /\ pc = "storing" => clock - job.read < MaxDiscovery
    /\ clock' = clock + 1
    /\ lastLive' = [lastLive EXCEPT ![live] = clock + 1]
    /\ UNCHANGED <<client, call, results, live, changes>>

PolicyChange ==
    /\ pc = "idle"
    /\ changes < MaxChanges
    /\ policy' \in Policies \ {policy}
    /\ changes' = changes + 1
    /\ UNCHANGED <<supplied, cache, call, results, live, lastLive, clock>>

\* The holder of proposals gives one another's statement or IR, or another
\* row limit.
Edit ==
    /\ pc = "idle"
    /\ \E p, q \in proposals :
          \E edited \in {[p EXCEPT !.statement = q.statement], [p EXCEPT !.ir = q.ir]}
                        \cup {[p EXCEPT !.ir.limit = n] : n \in Limits} :
             /\ edited # p
             /\ proposals' = (proposals \ {p})
                             \cup {[edited EXCEPT !.issued = p.issued \cup q.issued]}
    /\ UNCHANGED <<client, call, outcome, sent, backend, clock>>

-----------------------------------------------------------------------------
(* Ends of a call                                                          *)

Return(result) ==
    /\ outcome' = result
    /\ pc' = "idle"
    /\ job' = Idle
    /\ view' = NoSchema
    /\ plan' = NoPlan

Raise(error) == Return([op |-> job.op, error |-> error])

-----------------------------------------------------------------------------
(* schema()                                                                *)

Begin(call0, at) ==
    /\ pc = "idle"
    /\ job' = call0
    /\ pc' = at
    /\ outcome' = Quiet
    /\ sent' = Idle
    /\ UNCHANGED <<supplied, view, plan, policy, proposals, backend, clock>>

\* schema(refresh=True) drops what is cached first.
StartSchema(refresh) ==
    /\ Begin([op |-> "schema", start |-> clock, read |-> clock, then |-> "shown"], "lookup")
    /\ cache' = IF refresh /\ supplied = NoSchema THEN <<>> ELSE cache

\* A schema given to the constructor is never looked up nor refreshed.
Lookup ==
    /\ pc = "lookup"
    /\ IF supplied # NoSchema
       THEN view' = supplied /\ cache' = cache
       ELSE /\ view' = Store!Found(cache, "schema", clock)
            /\ cache' = Store!AfterGet(cache, "schema", clock)
    /\ pc' = IF view' = NoSchema THEN "discovering" ELSE job.then
    /\ UNCHANGED <<supplied, job, plan, policy, results, backend, clock>>

\* connector.discover() reads the metadata at some moment, or fails.
Discover ==
    /\ pc = "discovering"
    /\ view' = live
    /\ pc' = "storing"
    /\ job' = [job EXCEPT !.read = clock]
    /\ UNCHANGED <<plan, client, results, backend, clock>>

DiscoveryFails ==
    /\ pc \in {"discovering", "rediscovering"}
    /\ Raise("SchemaDiscoveryError")
    /\ UNCHANGED <<client, proposals, sent, backend, clock>>

\* The entry's lifetime starts when discovery has ended.
StoreSchema ==
    /\ pc = "storing"
    /\ cache' = Store!AfterPut(cache, "schema", view, clock)
    /\ pc' = job.then
    /\ UNCHANGED <<supplied, job, view, plan, policy, results, backend, clock>>

ShowSchema ==
    /\ pc = "shown"
    /\ Return([op |-> "schema", error |-> "none", schema |-> view])
    /\ UNCHANGED <<client, proposals, sent, backend, clock>>

-----------------------------------------------------------------------------
(* compile(): two reads of the schema, one to plan and one to render       *)

StartCompile(q) ==
    /\ Cardinality(proposals) < MaxProposals
    /\ Begin([op |-> "compile", start |-> clock, read |-> clock, then |-> "plan", intent |-> q,
              catalog |-> Catalog, reference |-> Reference[clock]], "lookup")
    /\ UNCHANGED cache

\* A QueryPlan is compiled from its IR alone, at its own reference time.
StartRecompile(p) ==
    /\ Cardinality(proposals) < MaxProposals
    /\ Begin([op |-> "compile", start |-> clock, read |-> clock, then |-> "plan", intent |-> p.ir,
              catalog |-> EmptyCatalog, reference |-> p.reference], "lookup")
    /\ UNCHANGED cache

AfterPlanning(built) ==
    IF built.error = "none"
    THEN /\ plan' = [ir |-> built.ir, schema |-> view]
         /\ job' = [job EXCEPT !.then = "render"]
         /\ pc' = "lookup"
         /\ UNCHANGED <<view, outcome>>
    ELSE Raise(built.error)

BuildsPlan ==
    /\ pc = "plan"
    /\ AfterPlanning(BuildPlan(job.intent, view, Caps, policy, job.catalog, job.reference))
    /\ UNCHANGED <<client, proposals, sent, backend, clock>>

\* Faulty form: the proposal keeps the intent, whose terms and relative dates
\* verification cannot resolve again.
ProposalUngrounded(statement) ==
    [statement |-> statement, ir |-> job.intent, reference |-> job.reference,
     issued |-> {[statement |-> statement, ir |-> job.intent]},
     schema |-> plan.schema, rendered |-> view, policy |-> policy]

\* A statement and what it was made from, as somebody may come to hold it.
Proposal(statement) ==
    [statement |-> statement, ir |-> plan.ir, reference |-> job.reference,
     issued |-> {[statement |-> statement, ir |-> plan.ir]},
     schema |-> plan.schema, rendered |-> view, policy |-> policy]

AfterRendering(made) ==
    IF made.error = "none"
    THEN /\ proposals' = proposals \cup {Proposal(made.statement)}
         /\ Return([op |-> "compile", error |-> "none", proposal |-> Proposal(made.statement)])
    ELSE Raise(made.error) /\ UNCHANGED proposals

Render ==
    /\ pc = "render"
    /\ AfterRendering(Translate(plan.ir, view))
    /\ UNCHANGED <<client, sent, backend, clock>>

-----------------------------------------------------------------------------
(* verified(): plan the IR again, render it, compare                       *)

\* Faulty form: the proposal is planned again but not compared.
VerdictUncompared(p, schema, rules) ==
    LET again == BuildPlan(p.ir, schema, Caps, rules, EmptyCatalog, p.reference)
    IN  OrElse(again.error, Translate(again.ir, schema).error)

\* A statement rendered anew is compared with the proposal's.
Compared(p, made) ==
    OrElse(made.error, Refuse(p.statement # made.statement, "ValidationError"))

Judged(p, schema, again) ==
    OrElse(again.error, Compared(p, Translate(again.ir, schema)))

Verdict(p, schema, rules) ==
    Judged(p, schema, BuildPlan(p.ir, schema, Caps, rules, EmptyCatalog, p.reference))

StartValidate(p) ==
    /\ Begin([op |-> "validate", start |-> clock, read |-> clock, then |-> "verify",
              proposal |-> p], "lookup")
    /\ UNCHANGED cache

\* validate() turns project errors into a denial.
Verify ==
    /\ pc = "verify"
    /\ Return([op |-> "validate", error |-> Verdict(job.proposal, view, policy),
               proposal |-> job.proposal, schema |-> view, policy |-> policy])
    /\ UNCHANGED <<client, proposals, sent, backend, clock>>

StartExecute(p) ==
    /\ Begin([op |-> "execute", start |-> clock, proposal |-> p], "rediscovering")
    /\ UNCHANGED cache

\* Faulty form: execution trusts the cache when it has an answer.
RediscoverFromCache ==
    /\ pc = "rediscovering"
    /\ view' = IF Store!Found(cache, "schema", clock) # NoSchema
               THEN Store!Found(cache, "schema", clock) ELSE live
    /\ pc' = "verified"
    /\ UNCHANGED <<job, plan, client, results, backend, clock>>

\* verified() without a schema discovers a fresh one; the cache plays no part.
Rediscover ==
    /\ pc = "rediscovering"
    /\ view' = live
    /\ pc' = "verified"
    /\ UNCHANGED <<job, plan, client, results, backend, clock>>

AfterVerdict(verdict) ==
    IF verdict = "none"
    THEN /\ pc' = "dispatch"
         /\ plan' = [ir |-> Ground(job.proposal.ir, view, EmptyCatalog, job.proposal.reference),
                     schema |-> view]
         /\ UNCHANGED <<job, view, outcome>>
    ELSE Return([op |-> "execute", error |-> verdict, proposal |-> job.proposal,
                 schema |-> view, policy |-> policy])

Reverify ==
    /\ pc = "verified"
    /\ AfterVerdict(Verdict(job.proposal, view, policy))
    /\ UNCHANGED <<client, proposals, sent, backend, clock>>

\* The rederived statement is what is sent, never the caller's; the backend
\* may refuse it, as when its metadata has changed since.
Dispatch ==
    /\ pc = "dispatch"
    /\ sent' = [op |-> "query", start |-> job.start, ir |-> plan.ir, proposal |-> job.proposal,
                statement |-> Translate(plan.ir, plan.schema).statement,
                schema |-> plan.schema, policy |-> policy]
    /\ \E error \in {"none", "ExecutionError"} :
          Return([op |-> "execute", error |-> error, proposal |-> job.proposal,
                  schema |-> plan.schema, policy |-> policy])
    /\ UNCHANGED <<client, proposals, backend, clock>>

-----------------------------------------------------------------------------

Steps == \/ Lookup \/ Discover \/ DiscoveryFails \/ StoreSchema \/ ShowSchema
         \/ BuildsPlan \/ Render \/ Verify \/ Rediscover \/ Reverify \/ Dispatch

Calls == \/ \E refresh \in BOOLEAN : StartSchema(refresh)
         \/ \E q \in Questions : StartCompile(q)
         \/ \E p \in proposals : StartRecompile(p) \/ StartValidate(p) \/ StartExecute(p)

World == SchemaChange \/ Tick \/ PolicyChange \/ Edit

Next == Steps \/ Calls \/ World

Spec == Init /\ [][Next]_vars
-----------------------------------------------------------------------------

\* Types of the client's and the environment's state.
TypeOK ==
    /\ supplied \in Supplies
    /\ live \in Schemas
    /\ clock \in 0..Horizon
    /\ policy \in Policies
    /\ view \in Schemas \cup {NoSchema}
    /\ changes \in 0..MaxChanges
    /\ lastLive \in [Schemas -> -1..Horizon]
    /\ cache \in Seq(Store!Entries)
    /\ pc \in {"idle", "lookup", "discovering", "storing", "shown", "plan", "render",
              "verify", "rediscovering", "verified", "dispatch"}

\* Whatever the cache holds, the schema execution relies on was the backend's
\* own at some moment of that very call (base.py:27, user_manual: execution
\* rediscovers).
ExecutionFresh ==
    /\ pc \in {"verified", "dispatch"} => lastLive[view] >= job.start
    /\ sent # Idle => lastLive[sent.schema] >= sent.start

\* What reaches the backend is the statement the caller holds, derived again
\* under the policy in force: an edited statement, a source no longer allowed
\* or a tightened row limit never gets there (base.py:28-44, api.py:205-208).
SentAsReviewed ==
    sent # Idle =>
        /\ sent.statement = sent.proposal.statement
        /\ ToSet(sent.ir.sources) \subseteq sent.policy.allowed
        /\ sent.ir.limit <= sent.policy.max_rows

\* What of a proposal its holder can edit, as far as statements depend on it.
Content(p) == [statement |-> p.statement, ir |-> p.ir]

\* base.py:24 promises to reject edited SQL, parameters or IR: what runs is a
\* statement with the IR it was once issued with.
EditsRejected ==
    sent # Idle =>
        Content(sent.proposal) \in sent.proposal.issued

\* Between calls the cache answers only with a schema that was the backend's
\* less than a lifetime and a discovery ago: the lifetime counts from the end
\* of the discovery, so the two add up (cache.py:27, api.py:75-78).
StaleBounded ==
    pc \in {"plan", "render", "verify", "shown"} /\ supplied = NoSchema =>
        lastLive[view] >= job.start - TTL - MaxDiscovery

\* exceptions.py:1 calls the project's errors the stable ones and README.md says
\* ambiguity and unsupported features raise them: no call ends in a bare lookup
\* error.
ProjectErrorsOnly == outcome.error \notin {"KeyError", "StopIteration"}

\* A fresh proposal nobody edited passes validation as long as the schema and
\* the policy are those it was made under: the IR and the reference time carry
\* all that the catalog and the clock contributed.
UneditedAllowed ==
    /\ outcome.op \in {"validate", "execute"}
    /\ outcome.error # "SchemaDiscoveryError"
    /\ outcome.proposal.issued = {Content(outcome.proposal)}
    /\ {outcome.proposal.schema, outcome.proposal.rendered} = {outcome.schema}
    /\ outcome.proposal.policy = outcome.policy
    => outcome.error \in {"none", "ExecutionError"}

\* No business term is spelled like a key some schema joins by.
TermsApart == \A s \in Schemas : KeysApart(s, Catalog)

\* The proposal judged is no longer or deeper than the planner takes.
ProposalFits ==
    outcome.op \in {"validate", "execute"} /\ outcome.error # "SchemaDiscoveryError" =>
        WithinBounds(outcome.proposal.ir)

\* The IRs that come up: what the planner makes of the questions, and those with
\* another limit.  Planned again, each is itself.
Closed(irs) ==
    /\ \A s \in Schemas, rules \in Policies, k \in 0..Horizon :
          /\ \A q \in Questions :
                LET p == BuildPlan(q, s, Caps, rules, Catalog, Reference[k])
                IN  p.error = "none" => p.ir \in irs
          /\ \A q \in irs :
                LET p == BuildPlan(q, s, Caps, rules, EmptyCatalog, Reference[k])
                IN  p.error = "none" => p.ir = q
    /\ \A q \in irs, n \in Limits : [q EXCEPT !.limit = n] \in irs

\* No two IRs have a statement in common.
Telling(irs) ==
    \A q, r \in irs, s, t \in Schemas :
        /\ Translate(q, s).error = "none" /\ Translate(r, t).error = "none"
        /\ Translate(q, s).statement = Translate(r, t).statement
        => q = r
=============================================================================
