---------------------------- MODULE FacadeProofs ----------------------------
(***************************************************************************)
(* Proofs about Facade for every compiler, every set of schemas, questions *)
(* and policies, and whatever the cache does.                              *)
(***************************************************************************)
EXTENDS Facade, PlannerProofs

\* What of an IR the proofs are about.
Shaped(ir) == {"sources", "limit"} \subseteq DOMAIN ir /\ ir.limit \in Nat

-----------------------------------------------------------------------------
(* The planner                                                             *)

\* A request nobody refuses names allowed sources and stays within the row limit.
LEMMA RequestWithinPolicy ==
    ASSUME NEW intent, NEW schema, NEW caps, NEW rules,
           RequestError(intent, schema, caps, rules) = "none",
           intent.limit \in Nat, rules.max_rows \in Nat
    PROVE  ToSet(intent.sources) \subseteq rules.allowed /\ intent.limit <= rules.max_rows
<1> DEFINE checks == RequestChecks(intent, schema, caps, rules)
<1>1. Len(checks) = 13
  BY DEF RequestChecks
<1>2. FirstError(checks) = "none"
  BY DEF RequestError
<1>3. /\ checks[7] = Refuse(~(ToSet(intent.sources) \subseteq rules.allowed), "PolicyViolation")
      /\ checks[8] = Refuse(intent.limit > rules.max_rows \/ intent.offset > rules.max_offset,
                            "PolicyViolation")
  BY DEF RequestChecks
<1> HIDE DEF checks
<1>4. \A i \in 1..13 : checks[i] = "none"
  <2>1. Len(checks) \in Nat
    BY <1>1
  <2>2. \A i \in 1..Len(checks) : checks[i] = "none"
    BY <1>2, <2>1, NoFirstError, Zenon
  <2> QED BY <1>1, <2>2
<1> QED BY <1>3, <1>4 DEF Refuse

\* Grounding keeps the sources and the limit.
LEMMA GroundKeeps ==
    ASSUME NEW intent, NEW schema, NEW catalog, NEW now, Shaped(intent)
    PROVE  LET ir == Ground(intent, schema, catalog, now)
           IN  Shaped(ir) /\ ir.sources = intent.sources /\ ir.limit = intent.limit
BY DEF Ground, Shaped

\* What a verdict of no objection establishes: the statement is the one the
\* proposal's IR gives, and the IR keeps to the policy.
LEMMA VerdictMeans ==
    ASSUME NEW p, NEW schema, NEW rules, Verdict(p, schema, rules) = "none",
           Shaped(p.ir), rules.max_rows \in Nat
    PROVE  LET ir == Ground(p.ir, schema, EmptyCatalog, p.reference)
           IN  /\ Translate(ir, schema).statement = p.statement
               /\ ToSet(ir.sources) \subseteq rules.allowed
               /\ ir.limit <= rules.max_rows
               /\ Shaped(ir)
<1> DEFINE again == BuildPlan(p.ir, schema, Caps, rules, EmptyCatalog, p.reference)
           ir    == Ground(p.ir, schema, EmptyCatalog, p.reference)
<1>1. /\ again.error = "none"
      /\ Refuse(p.statement # Translate(again.ir, schema).statement, "ValidationError") = "none"
  <2> HIDE DEF again
  <2> QED BY DEF Verdict, Judged, Compared, OrElse, again
<1>2. PlanError(p.ir, schema, Caps, rules, EmptyCatalog, p.reference) = "none"
  BY <1>1 DEF BuildPlan, Planned
<1>3. again.ir = ir
  BY <1>2 DEF BuildPlan, Planned
<1>4. RequestError(p.ir, schema, Caps, rules) = "none"
  BY <1>2 DEF PlanError, OrElse
<1>5. ToSet(p.ir.sources) \subseteq rules.allowed /\ p.ir.limit <= rules.max_rows
  BY <1>4, RequestWithinPolicy DEF Shaped
<1>6. Shaped(ir) /\ ir.sources = p.ir.sources /\ ir.limit = p.ir.limit
  BY GroundKeeps
<1>7. Translate(ir, schema).statement = p.statement
  <2> HIDE DEF again, ir
  <2> QED BY <1>1, <1>3 DEF Refuse
<1> HIDE DEF ir
<1> QED BY <1>5, <1>6, <1>7 DEF ir

-----------------------------------------------------------------------------
(* The inductive invariant                                                 *)

\* The backend's schema is its own as of now, and no schema is so later.
Timeline ==
    /\ live \in Schemas /\ clock \in Nat
    /\ lastLive \in [Schemas -> Int]
    /\ \A s \in Schemas : lastLive[s] <= clock
    /\ lastLive[live] = clock

ProposalOK(p) == {"statement", "ir", "issued"} \subseteq DOMAIN p /\ Shaped(p.ir)

Held == policy \in Policies /\ \A p \in proposals : ProposalOK(p)

\* A call that reads the schema goes on as its kind of call does, never into
\* the middle of an execution.
Reading ==
    LET Towards(stage) == pc = stage \/ (pc \in {"lookup", "discovering", "storing"} /\ job.then = stage)
    IN  /\ pc \in {"lookup", "discovering", "storing"} =>
               {"then", "read"} \subseteq DOMAIN job /\ job.then \in {"shown", "plan", "render", "verify"}
        /\ Towards("plan") => {"then", "read", "intent"} \subseteq DOMAIN job /\ Shaped(job.intent)
        /\ Towards("render") => Shaped(plan.ir)

\* What an execution has established by the stage it is in.
Executing ==
    /\ pc \in {"rediscovering", "verified", "dispatch"} => job.start \in Int
    /\ pc \in {"rediscovering", "verified"} => ProposalOK(job.proposal)
    /\ pc = "rediscovering" => job.start <= clock
    /\ pc \in {"verified", "dispatch"} => view \in Schemas /\ lastLive[view] >= job.start
    /\ pc = "dispatch" =>
           /\ plan.schema = view
           /\ Translate(plan.ir, view).statement = job.proposal.statement
           /\ ToSet(plan.ir.sources) \subseteq policy.allowed
           /\ plan.ir.limit <= policy.max_rows

Sending ==
    /\ sent # Idle => /\ sent.schema \in Schemas /\ sent.start \in Int
                      /\ lastLive[sent.schema] >= sent.start
    /\ SentAsReviewed

IInv == Timeline /\ Held /\ Reading /\ Executing /\ Sending

\* An entry of the cache expires within a lifetime and a discovery of when its
\* schema was last the backend's.
Timely == {e \in Store!Entries : e.expires <= lastLive[e.value] + MaxDiscovery + TTL}

\* A call that reads the schema, and what it has found out by the stage it is in.
Fetching ==
    /\ pc \in {"lookup", "discovering", "storing", "shown", "plan", "render", "verify"} =>
           job.start \in Nat /\ job.start <= clock
    /\ pc = "storing" =>
           /\ view \in Schemas /\ job.read \in Nat
           /\ job.start <= job.read /\ clock <= job.read + MaxDiscovery
           /\ job.read <= lastLive[view]
    /\ pc \in {"plan", "render", "verify", "shown"} => view \in Schemas

\* The inductive invariant of what is cached and how old it may be.
CacheInv == TypeOK /\ cache \in Seq(Timely) /\ Fetching /\ StaleBounded

-----------------------------------------------------------------------------

\* The invariant holds of a client nobody has called.
LEMMA InitInv == Init => IInv
<1> SUFFICES ASSUME Init PROVE IInv
  OBVIOUS
<1>1. Timeline
  <2>1. lastLive = [s \in Schemas |-> IF s = live THEN 0 ELSE -1] /\ live \in Schemas /\ clock = 0
    BY DEF Init
  <2> QED BY <2>1 DEF Timeline
<1>2. Held
  BY DEF Init, Held
<1>3. Reading
  BY DEF Init, Reading
<1>4. Executing
  BY DEF Init, Executing
<1>5. Sending
  BY DEF Init, Sending, SentAsReviewed
<1> QED BY <1>1, <1>2, <1>3, <1>4, <1>5 DEF IInv

\* Time only passes, and a schema that was the backend's stays one that was.
LEMMA TimePasses ==
    ASSUME Timeline, [Next]_vars
    PROVE  /\ Timeline'
           /\ \A s \in Schemas : lastLive'[s] >= lastLive[s]
<1>1. CASE SchemaChange
  <2>1. /\ live' \in Schemas /\ lastLive' = [lastLive EXCEPT ![live'] = clock] /\ clock' = clock
    BY <1>1 DEF SchemaChange
  <2> QED BY <2>1 DEF Timeline
<1>2. CASE Tick
  <2>1. /\ live' = live /\ lastLive' = [lastLive EXCEPT ![live] = clock + 1] /\ clock' = clock + 1
    BY <1>2 DEF Tick
  <2> QED BY <2>1 DEF Timeline
<1>3. CASE UNCHANGED <<live, clock, lastLive>>
  BY <1>3 DEF Timeline
<1>4. ASSUME ~SchemaChange, ~Tick PROVE UNCHANGED <<live, clock, lastLive>>
  <2>1. CASE Steps
    BY <2>1 DEF Steps, Lookup, Discover, DiscoveryFails, StoreSchema, ShowSchema, BuildsPlan,
       AfterPlanning, Render, AfterRendering, Verify, Rediscover, Reverify, AfterVerdict, Dispatch, backend
  <2>2. CASE Calls
    BY <2>2 DEF Calls, StartSchema, StartCompile, StartRecompile, StartValidate, StartExecute,
       Begin, backend
  <2>3. CASE World
    BY <1>4, <2>3 DEF World, PolicyChange, Edit, backend
  <2>4. CASE UNCHANGED vars
    BY <2>4 DEF vars, backend
  <2> QED BY <2>1, <2>2, <2>3, <2>4 DEF Next
<1> QED BY <1>1, <1>2, <1>3, <1>4

\* What is sent stays in order while nothing is sent.
LEMMA SendingKept ==
    ASSUME IInv, [Next]_vars, sent' = sent \/ sent' = Idle
    PROVE  Sending'
<1>1. \A s \in Schemas : lastLive'[s] \in Int /\ lastLive[s] \in Int /\ lastLive'[s] >= lastLive[s]
  BY TimePasses DEF IInv, Timeline
<1>2. CASE sent' = Idle
  BY <1>2 DEF Sending, SentAsReviewed
<1>3. CASE sent' = sent
  <2>1. SentAsReviewed'
    BY <1>3 DEF IInv, Sending, SentAsReviewed
  <2>2. ASSUME sent # Idle
        PROVE  sent.schema \in Schemas /\ sent.start \in Int /\ lastLive'[sent.schema] >= sent.start
    BY <1>1, <2>2 DEF IInv, Sending
  <2> QED BY <1>3, <2>1, <2>2 DEF Sending
<1> QED BY <1>2, <1>3

\* Between calls there is nothing to establish.
LEMMA IdleIsFine == pc' = "idle" => Reading' /\ Executing'
BY DEF Reading, Executing

\* The steps of the world outside.
LEMMA WorldInv ==
    ASSUME IInv, World
    PROVE  IInv'
<1>0. [Next]_vars
  BY DEF Next
<1>1. Timeline' /\ \A s \in Schemas : lastLive'[s] >= lastLive[s]
  BY <1>0, TimePasses DEF IInv
<1>2. Sending'
  <2>1. sent' = sent
    BY DEF World, SchemaChange, Tick, PolicyChange, Edit, results
  <2> QED BY <1>0, <2>1, SendingKept
<1>3. CASE SchemaChange \/ Tick
  <2>1. /\ UNCHANGED <<pc, job, view, plan, policy, proposals>> /\ clock' >= clock
        /\ clock \in Nat /\ clock' \in Nat
    BY <1>1, <1>3 DEF IInv, Timeline, SchemaChange, Tick, client, call, results
  <2>2. Held' /\ Reading'
    BY <2>1 DEF IInv, Held, Reading
  <2>3. Executing'
    <3>1. \A s \in Schemas : lastLive'[s] \in Int /\ lastLive[s] \in Int
      BY <1>1 DEF IInv, Timeline
    <3> QED BY <1>1, <2>1, <3>1 DEF IInv, Executing
  <2> QED BY <1>1, <1>2, <2>2, <2>3 DEF IInv
<1>4. CASE PolicyChange
  <2>1. pc' = "idle" /\ policy' \in Policies /\ proposals' = proposals
    BY <1>4 DEF PolicyChange, call, results
  <2>2. Held'
    BY <2>1 DEF IInv, Held
  <2> QED BY <1>1, <1>2, <2>1, <2>2, IdleIsFine DEF IInv
<1>5. CASE Edit
  <2>1. pc' = "idle" /\ policy' = policy
    BY <1>5 DEF Edit, client, call
  <2>2. PICK p \in proposals, q \in proposals :
          \E edited \in {[p EXCEPT !.statement = q.statement], [p EXCEPT !.ir = q.ir]}
                        \cup {[p EXCEPT !.ir.limit = n] : n \in Limits} :
             proposals' = (proposals \ {p})
                          \cup {[edited EXCEPT !.issued = p.issued \cup q.issued]}
    BY <1>5 DEF Edit
  <2>3. ProposalOK(p) /\ ProposalOK(q)
    BY DEF IInv, Held
  <2>4. PICK edited \in {[p EXCEPT !.statement = q.statement], [p EXCEPT !.ir = q.ir]}
                        \cup {[p EXCEPT !.ir.limit = n] : n \in Limits} :
             proposals' = (proposals \ {p})
                          \cup {[edited EXCEPT !.issued = p.issued \cup q.issued]}
    BY <2>2
  <2>5. ProposalOK(edited)
    <3>1. CASE edited = [p EXCEPT !.statement = q.statement]
      BY <2>3, <3>1 DEF ProposalOK
    <3>2. CASE edited = [p EXCEPT !.ir = q.ir]
      BY <2>3, <3>2 DEF ProposalOK
    <3>3. CASE edited \in {[p EXCEPT !.ir.limit = n] : n \in Limits}
      <4>1. PICK n \in Limits : edited = [p EXCEPT !.ir.limit = n]
        BY <3>3
      <4>2. n \in Nat
        BY FacadeAssumption
      <4> QED BY <2>3, <4>1, <4>2 DEF ProposalOK, Shaped
    <3> QED BY <2>4, <3>1, <3>2, <3>3
  <2>6. ProposalOK([edited EXCEPT !.issued = p.issued \cup q.issued])
    BY <2>5 DEF ProposalOK
  <2>7. Held'
    BY <2>1, <2>4, <2>6 DEF IInv, Held
  <2> QED BY <1>1, <1>2, <2>1, <2>7, IdleIsFine DEF IInv
<1> QED BY <1>3, <1>4, <1>5 DEF World

\* The steps that take a call up.
LEMMA CallsInv ==
    ASSUME IInv, Calls
    PROVE  IInv'
<1>0. [Next]_vars
  BY DEF Next
<1>1. Timeline' /\ clock \in Nat
  BY <1>0, TimePasses DEF IInv, Timeline
<1>2. /\ sent' = Idle /\ UNCHANGED <<policy, proposals, plan, clock, view>>
  BY DEF Calls, StartSchema, StartCompile, StartRecompile, StartValidate, StartExecute, Begin
<1>3. Sending' /\ Held'
  BY <1>0, <1>2, SendingKept DEF IInv, Held
<1>4. ASSUME NEW refresh \in BOOLEAN, StartSchema(refresh) PROVE Reading' /\ Executing'
  <2>1. pc' = "lookup" /\ {"then", "read"} \subseteq DOMAIN job' /\ job'.then = "shown"
    BY <1>4 DEF StartSchema, Begin
  <2> QED BY <2>1 DEF Reading, Executing
<1>5. ASSUME NEW q \in Questions, StartCompile(q) PROVE Reading' /\ Executing'
  <2>1. /\ pc' = "lookup" /\ {"then", "read", "intent"} \subseteq DOMAIN job'
        /\ job'.then = "plan" /\ job'.intent = q
    BY <1>5 DEF StartCompile, Begin
  <2>2. Shaped(q)
    BY FacadeAssumption DEF Shaped, WellFormed, Lists, Settings
  <2> QED BY <2>1, <2>2 DEF Reading, Executing
<1>6. ASSUME NEW p \in proposals, StartRecompile(p) PROVE Reading' /\ Executing'
  <2>1. /\ pc' = "lookup" /\ {"then", "read", "intent"} \subseteq DOMAIN job'
        /\ job'.then = "plan" /\ job'.intent = p.ir
    BY <1>6 DEF StartRecompile, Begin
  <2>2. Shaped(p.ir)
    BY DEF IInv, Held, ProposalOK
  <2> QED BY <2>1, <2>2 DEF Reading, Executing
<1>7. ASSUME NEW p \in proposals, StartValidate(p) PROVE Reading' /\ Executing'
  <2>1. pc' = "lookup" /\ {"then", "read"} \subseteq DOMAIN job' /\ job'.then = "verify"
    BY <1>7 DEF StartValidate, Begin
  <2> QED BY <2>1 DEF Reading, Executing
<1>8. ASSUME NEW p \in proposals, StartExecute(p) PROVE Reading' /\ Executing'
  <2>1. pc' = "rediscovering" /\ job'.start = clock /\ job'.proposal = p
    BY <1>8 DEF StartExecute, Begin
  <2>2. ProposalOK(p)
    BY DEF IInv, Held
  <2> QED BY <1>1, <1>2, <2>1, <2>2 DEF Reading, Executing
<1>9. Reading' /\ Executing'
  BY <1>4, <1>5, <1>6, <1>7, <1>8 DEF Calls
<1> QED BY <1>1, <1>3, <1>9 DEF IInv

\* The steps of a call under way.
LEMMA StepsInv ==
    ASSUME IInv, Steps
    PROVE  IInv'
<1>0. [Next]_vars
  BY DEF Next
<1>1. Timeline' /\ lastLive' = lastLive /\ clock' = clock /\ policy' = policy
  BY <1>0, TimePasses DEF IInv, Steps, Lookup, Discover, DiscoveryFails, StoreSchema, ShowSchema,
     BuildsPlan, AfterPlanning, Render, AfterRendering, Verify, Rediscover, Reverify,
     AfterVerdict, Dispatch, backend, client
<1>2. ASSUME sent' = sent PROVE Sending'
  BY <1>0, <1>2, SendingKept
<1>3. ASSUME proposals' = proposals PROVE Held'
  BY <1>1, <1>3 DEF IInv, Held
<1>4. CASE Lookup
  <2>1. /\ UNCHANGED <<job, plan, proposals, sent>> /\ pc = "lookup"
        /\ pc' \in {"discovering", job.then}
    BY <1>4 DEF Lookup, results
  <2>2. Reading' /\ Executing'
    BY <2>1 DEF IInv, Reading, Executing
  <2> QED BY <1>1, <1>2, <1>3, <2>1, <2>2 DEF IInv
<1>5. CASE Discover
  <2>1. /\ UNCHANGED <<plan, proposals, sent>> /\ pc = "discovering" /\ pc' = "storing"
        /\ job' = [job EXCEPT !.read = clock]
    BY <1>5 DEF Discover, results
  <2>2. Reading' /\ Executing'
    BY <2>1 DEF IInv, Reading, Executing
  <2> QED BY <1>1, <1>2, <1>3, <2>1, <2>2 DEF IInv
<1>6. CASE DiscoveryFails \/ ShowSchema \/ Verify
  <2>1. pc' = "idle" /\ UNCHANGED <<proposals, sent>>
    BY <1>6 DEF DiscoveryFails, ShowSchema, Verify, Raise, Return
  <2> QED BY <1>1, <1>2, <1>3, <2>1, IdleIsFine DEF IInv
<1>7. CASE StoreSchema
  <2>1. /\ UNCHANGED <<job, plan, proposals, sent>> /\ pc = "storing" /\ pc' = job.then
    BY <1>7 DEF StoreSchema, results
  <2>2. Reading' /\ Executing'
    BY <2>1 DEF IInv, Reading, Executing
  <2> QED BY <1>1, <1>2, <1>3, <2>1, <2>2 DEF IInv
<1>8. CASE BuildsPlan
  <2> DEFINE built == BuildPlan(job.intent, view, Caps, policy, job.catalog, job.reference)
  <2>1. UNCHANGED <<proposals, sent>> /\ pc = "plan"
    BY <1>8 DEF BuildsPlan, AfterPlanning
  <2>2. CASE built.error = "none"
    <3>1. /\ plan' = [ir |-> built.ir, schema |-> view] /\ pc' = "lookup"
          /\ job' = [job EXCEPT !.then = "render"]
      BY <1>8, <2>2 DEF BuildsPlan, AfterPlanning
    <3>2. PlanError(job.intent, view, Caps, policy, job.catalog, job.reference) = "none"
      BY <2>2 DEF BuildPlan, Planned
    <3>3. built.ir = Ground(job.intent, view, job.catalog, job.reference)
      BY <3>2 DEF BuildPlan, Planned
    <3>4. {"then", "read"} \subseteq DOMAIN job /\ Shaped(job.intent)
      BY <2>1 DEF IInv, Reading
    <3>5. Shaped(built.ir)
      <4> HIDE DEF built
      <4> QED BY <3>3, <3>4, GroundKeeps
    <3> HIDE DEF built
    <3>6. Shaped(plan'.ir) /\ job'.then = "render" /\ {"then", "read"} \subseteq DOMAIN job'
      BY <3>1, <3>4, <3>5
    <3>7. Reading' /\ Executing'
      BY <3>1, <3>6 DEF Reading, Executing
    <3> QED BY <1>1, <1>2, <1>3, <2>1, <3>7 DEF IInv
  <2>3. CASE built.error # "none"
    <3>1. pc' = "idle"
      BY <1>8, <2>3 DEF BuildsPlan, AfterPlanning, Raise, Return
    <3> QED BY <1>1, <1>2, <1>3, <2>1, <3>1, IdleIsFine DEF IInv
  <2> QED BY <2>2, <2>3
<1>9. CASE Render
  <2>1. pc = "render" /\ pc' = "idle" /\ sent' = sent
    BY <1>9 DEF Render, AfterRendering, Proposal, Raise, Return
  <2>2. Shaped(plan.ir)
    BY <2>1 DEF IInv, Reading
  <2>3. ASSUME NEW p \in proposals' \ proposals PROVE ProposalOK(p)
    <3>1. p = [statement |-> Translate(plan.ir, view).statement, ir |-> plan.ir,
               reference |-> job.reference,
               issued |-> {[statement |-> Translate(plan.ir, view).statement, ir |-> plan.ir]},
               schema |-> plan.schema, rendered |-> view, policy |-> policy]
      BY <1>9, <2>3 DEF Render, AfterRendering, Proposal, Raise, Return
    <3> QED BY <2>2, <3>1 DEF ProposalOK
  <2>4. Held'
    BY <1>1, <2>3 DEF IInv, Held
  <2> QED BY <1>1, <1>2, <2>1, <2>4, IdleIsFine DEF IInv
<1>10. CASE Rediscover
  <2>1. /\ UNCHANGED <<job, plan, proposals, sent>> /\ pc = "rediscovering" /\ pc' = "verified"
        /\ view' = live
    BY <1>10 DEF Rediscover, results
  <2>2. view' \in Schemas /\ lastLive'[view'] >= job'.start
    BY <1>1, <2>1 DEF IInv, Timeline, Executing
  <2>3. Reading' /\ Executing'
    BY <2>1, <2>2 DEF IInv, Reading, Executing
  <2> QED BY <1>1, <1>2, <1>3, <2>1, <2>3 DEF IInv
<1>11. CASE Reverify
  <2>1. UNCHANGED <<proposals, sent>> /\ pc = "verified"
    BY <1>11 DEF Reverify, AfterVerdict
  <2>2. CASE Verdict(job.proposal, view, policy) = "none"
    <3>1. /\ pc' = "dispatch" /\ job' = job /\ view' = view /\ plan'.schema = view
          /\ plan'.ir = Ground(job.proposal.ir, view, EmptyCatalog, job.proposal.reference)
      BY <1>11, <2>2 DEF Reverify, AfterVerdict
    <3>2. Shaped(job.proposal.ir) /\ policy.max_rows \in Nat
      BY <2>1, FacadeAssumption DEF IInv, Executing, ProposalOK, Held
    <3>3. /\ Translate(plan'.ir, view).statement = job.proposal.statement
          /\ ToSet(plan'.ir.sources) \subseteq policy.allowed
          /\ plan'.ir.limit <= policy.max_rows
      BY <2>2, <3>1, <3>2, VerdictMeans
    <3>4. Reading' /\ Executing'
      BY <1>1, <2>1, <3>1, <3>3 DEF IInv, Reading, Executing
    <3> QED BY <1>1, <1>2, <1>3, <2>1, <3>4 DEF IInv
  <2>3. CASE Verdict(job.proposal, view, policy) # "none"
    <3>1. pc' = "idle"
      BY <1>11, <2>3 DEF Reverify, AfterVerdict, Return
    <3> QED BY <1>1, <1>2, <1>3, <2>1, <3>1, IdleIsFine DEF IInv
  <2> QED BY <2>2, <2>3
<1>12. CASE Dispatch
  <2>1. /\ pc = "dispatch" /\ pc' = "idle" /\ proposals' = proposals
        /\ sent' = [op |-> "query", start |-> job.start, ir |-> plan.ir,
                    proposal |-> job.proposal,
                    statement |-> Translate(plan.ir, plan.schema).statement,
                    schema |-> plan.schema, policy |-> policy]
    BY <1>12 DEF Dispatch, Return
  <2>2. /\ sent'.schema \in Schemas /\ sent'.start \in Int
        /\ lastLive'[sent'.schema] >= sent'.start
    BY <1>1, <2>1 DEF IInv, Executing
  <2>3. SentAsReviewed'
    BY <2>1 DEF IInv, Executing, SentAsReviewed
  <2>4. Sending'
    BY <2>2, <2>3 DEF Sending
  <2> QED BY <1>1, <1>3, <2>1, <2>4, IdleIsFine DEF IInv
<1> QED BY <1>4, <1>5, <1>6, <1>7, <1>8, <1>9, <1>10, <1>11, <1>12 DEF Steps

\* Every step keeps the invariant.
LEMMA StepInv == IInv /\ [Next]_vars => IInv'
<1> SUFFICES ASSUME IInv, [Next]_vars PROVE IInv'
  OBVIOUS
<1>1. CASE Next
  BY <1>1, StepsInv, CallsInv, WorldInv DEF Next
<1>2. CASE UNCHANGED vars
  <2>1. UNCHANGED <<live, clock, lastLive, policy, proposals, pc, job, view, plan, sent>>
    BY <1>2 DEF vars, client, call, results, backend
  <2>2. Timeline' /\ Held' /\ Reading' /\ Executing'
    BY <2>1 DEF IInv, Timeline, Held, Reading, Executing
  <2>3. Sending'
    BY <2>1, SendingKept
  <2> QED BY <2>2, <2>3 DEF IInv
<1> QED BY <1>1, <1>2

-----------------------------------------------------------------------------

\* For every compiler, schema, question and policy: the schema an execution
\* relies on was the backend's own at some moment of that call, whatever the
\* cache holds and however the metadata changes (base.py:27).
THEOREM ExecutesOnFreshSchema == Spec => []ExecutionFresh
<1>1. IInv => ExecutionFresh
  BY DEF IInv, Executing, Sending, ExecutionFresh
<1> QED BY <1>1, InitInv, StepInv, PTL DEF Spec

\* For every compiler, schema, question and policy: what reaches the backend is
\* the statement its holder saw, over allowed sources and within the row limit
\* of the policy then in force, however proposals were edited
\* (base.py:28-44).
THEOREM SendsAsReviewed == Spec => []SentAsReviewed
<1>1. IInv => SentAsReviewed
  BY DEF IInv, Sending
<1> QED BY <1>1, InitInv, StepInv, PTL DEF Spec

-----------------------------------------------------------------------------
(* What the cache holds                                                    *)

\* Removing an entry leaves a list of entries of the same kind.
LEMMA RemoveAtClosed ==
    ASSUME NEW T, NEW es \in Seq(T), NEW p \in 1..Len(es)
    PROVE  Store!RemoveAt(es, p) \in Seq(T)
<1>1. Len(es) \in Nat /\ \A i \in 1..Len(es) : es[i] \in T
  BY LenProperties, ElementOfSeq
<1>2. SubSeq(es, 1, p - 1) \in Seq(T)
  <2>1. 1 \in Int /\ p - 1 \in Int /\ \A i \in 1..p - 1 : es[i] \in T
    BY <1>1
  <2> QED BY ONLY <2>1, SubSeqProperties
<1>3. SubSeq(es, p + 1, Len(es)) \in Seq(T)
  <2>1. p + 1 \in Int /\ Len(es) \in Int /\ \A i \in p + 1..Len(es) : es[i] \in T
    BY <1>1
  <2> QED BY ONLY <2>1, SubSeqProperties
<1> QED BY <1>2, <1>3, ConcatProperties DEF Store!RemoveAt

\* A read of the cache keeps no entry that was not there, and finds one that is
\* there and live.
LEMMA ReadsCache ==
    ASSUME NEW T \in SUBSET Store!Entries, NEW es \in Seq(T), NEW k, NEW t
    PROVE  /\ Store!AfterGet(es, k, t) \in Seq(T)
           /\ \/ Store!Found(es, k, t) = NoSchema
              \/ \E e \in T : Store!Found(es, k, t) = e.value /\ t < e.expires
<1>1. Store!Places(es, k) # {} => Store!Place(es, k) \in 1..Len(es)
  BY DEF Store!Places, Store!Place
<1>2. Store!AfterGet(es, k, t) \in Seq(T)
  BY <1>1, RemoveAtClosed DEF Store!AfterGet
<1>3. Store!Places(es, k) # {} => es[Store!Place(es, k)] \in T
  BY <1>1, ElementOfSeq
<1> QED BY <1>2, <1>3 DEF Store!Found, Store!Live

\* A store adds one entry and keeps no other that was not there.
LEMMA StoresInCache ==
    ASSUME NEW T \in SUBSET Store!Entries, NEW es \in Seq(T), NEW k, NEW v, NEW t,
           [key |-> k, expires |-> t + TTL, value |-> v] \in T
    PROVE  Store!AfterPut(es, k, v, t) \in Seq(T)
<1> DEFINE e  == [key |-> k, expires |-> t + TTL, value |-> v]
           ev == Store!Evicted(es)
<1>1. ev \in Seq(T)
  <2>1. Len(es) >= MaxEntries => es # <<>>
    BY FacadeAssumption, EmptySeq
  <2> QED BY <2>1, HeadTailProperties DEF Store!Evicted
<1>2. Store!AfterPut(es, k, v, t) = Store!Assigned(ev, e)
  BY DEF Store!AfterPut
<1>3. e \in T
  OBVIOUS
<1> HIDE DEF e, ev
<1>4. CASE Store!Places(ev, e.key) # {}
  <2>1. Store!Place(ev, e.key) \in 1..Len(ev)
    BY <1>4 DEF Store!Places, Store!Place
  <2>2. [ev EXCEPT ![Store!Place(ev, e.key)] = e] \in Seq(T)
    BY <1>1, <1>3, <2>1, ExceptSeq
  <2> QED BY <1>2, <1>4, <2>2 DEF Store!Assigned
<1>5. CASE Store!Places(ev, e.key) = {}
  BY <1>1, <1>2, <1>3, <1>5, AppendProperties DEF Store!Assigned
<1> QED BY <1>4, <1>5

\* What the cache holds stays timely while time passes.
LEMMA TimelyKept ==
    ASSUME Timeline, [Next]_vars, NEW es \in Seq(Timely)
    PROVE  es \in Seq(Timely')
<1>1. \A s \in Schemas : lastLive'[s] \in Int /\ lastLive[s] \in Int /\ lastLive'[s] >= lastLive[s]
  BY TimePasses DEF Timeline
<1>2. TTL \in Nat /\ MaxDiscovery \in Nat
  BY FacadeAssumption
<1>3. \A e \in Store!Entries : e.value \in Schemas /\ e.expires \in Nat
  BY DEF Store!Entries
<1>4. Timely \subseteq Timely'
  BY <1>1, <1>2, <1>3 DEF Timely, Store!Entries
<1> QED BY <1>4, SeqMonotonic

\* Nothing is claimed of the schema read last between calls, nor in an execution.
LEMMA ElsewhereIsFine ==
    pc' \in {"idle", "rediscovering", "verified", "dispatch"} => Fetching' /\ StaleBounded'
BY DEF Fetching, StaleBounded

LEMMA CacheInit == Init => CacheInv
<1> SUFFICES ASSUME Init PROVE CacheInv
  OBVIOUS
<1>1. <<>> \in Seq(Timely) /\ <<>> \in Seq(Store!Entries)
  BY EmptySeq
<1>2. lastLive \in [Schemas -> -1..Horizon]
  <2>1. Horizon \in Nat
    BY FacadeAssumption
  <2>2. lastLive = [s \in Schemas |-> IF s = live THEN 0 ELSE -1]
    BY DEF Init
  <2> QED BY <2>1, <2>2
<1>3. TypeOK
  <2>1. 0 \in 0..Horizon /\ 0 \in 0..MaxChanges
    BY FacadeAssumption
  <2> QED BY <1>1, <1>2, <2>1 DEF Init, TypeOK
<1> QED BY <1>1, <1>3 DEF Init, CacheInv, Fetching, StaleBounded

LEMMA CacheWorld ==
    ASSUME IInv, CacheInv, World
    PROVE  CacheInv'
<1>0. [Next]_vars
  BY DEF Next
<1>1. cache' = cache /\ cache' \in Seq(Timely') /\ UNCHANGED <<supplied, pc, job, view>>
  <2>1. cache' = cache /\ UNCHANGED <<supplied, pc, job, view>>
    BY DEF World, SchemaChange, Tick, PolicyChange, Edit, client, call
  <2> QED BY <1>0, <2>1, TimelyKept DEF IInv, CacheInv
<1>2. /\ {TTL, MaxDiscovery, Horizon, MaxChanges} \subseteq Nat
      /\ clock \in 0..Horizon /\ changes \in 0..MaxChanges /\ live \in Schemas
      /\ lastLive \in [Schemas -> -1..Horizon]
  BY FacadeAssumption DEF CacheInv, TypeOK
<1>3. \A s \in Schemas : lastLive'[s] \in Int /\ lastLive[s] \in Int /\ lastLive'[s] >= lastLive[s]
  BY <1>0, TimePasses DEF IInv, Timeline
<1>4. TypeOK'
  <2>1. CASE SchemaChange
    <3>1. live' \in Schemas /\ clock' = clock /\ changes' \in 0..MaxChanges /\ policy' = policy
      BY <1>2, <2>1 DEF SchemaChange, client
    <3>2. lastLive' \in [Schemas -> -1..Horizon]
      BY <1>2, <2>1 DEF SchemaChange
    <3> QED BY <1>1, <3>1, <3>2 DEF CacheInv, TypeOK
  <2>2. CASE Tick
    <3>1. live' = live /\ clock' \in 0..Horizon /\ changes' = changes /\ policy' = policy
      BY <1>2, <2>2 DEF Tick, client
    <3>2. lastLive' \in [Schemas -> -1..Horizon]
      BY <1>2, <2>2 DEF Tick
    <3> QED BY <1>1, <3>1, <3>2 DEF CacheInv, TypeOK
  <2>3. CASE PolicyChange
    <3>1. /\ UNCHANGED <<live, clock, lastLive>> /\ changes' \in 0..MaxChanges
          /\ policy' \in Policies
      BY <1>2, <2>3 DEF PolicyChange
    <3> QED BY <1>1, <3>1 DEF CacheInv, TypeOK
  <2>4. CASE Edit
    BY <1>1, <2>4 DEF Edit, client, backend, CacheInv, TypeOK
  <2> QED BY <2>1, <2>2, <2>3, <2>4 DEF World
<1>5. clock' \in Nat /\ clock' >= clock /\ (pc = "storing" => clock' <= job.read + MaxDiscovery)
  <2>1. CASE Tick
    <3>1. clock' = clock + 1 /\ (pc = "storing" => clock - job.read < MaxDiscovery)
      BY <2>1 DEF Tick
    <3>2. pc = "storing" => job.read \in Nat
      BY DEF CacheInv, Fetching
    <3> QED BY <1>2, <3>1, <3>2
  <2>2. CASE ~Tick
    <3>1. clock' = clock
      BY <2>2 DEF World, SchemaChange, PolicyChange, Edit
    <3> QED BY <1>2, <3>1 DEF CacheInv, Fetching
  <2> QED BY <2>1, <2>2
<1>6. Fetching'
  BY <1>1, <1>2, <1>3, <1>5 DEF CacheInv, Fetching
<1>7. StaleBounded'
  <2> SUFFICES ASSUME pc \in {"plan", "render", "verify", "shown"}, supplied = NoSchema
               PROVE  lastLive'[view] >= job.start - TTL - MaxDiscovery
    BY <1>1 DEF StaleBounded
  <2>1. /\ view \in Schemas /\ job.start \in Nat
        /\ lastLive[view] >= job.start - TTL - MaxDiscovery
    BY DEF CacheInv, Fetching, StaleBounded
  <2> QED BY <1>2, <1>3, <2>1
<1> QED BY <1>1, <1>4, <1>6, <1>7 DEF CacheInv

\* A step of the client leaves the world as it is.
LEMMA WorldKept ==
    ASSUME TypeOK, Steps \/ Calls, view' \in Schemas \cup {NoSchema}, cache' \in Seq(Store!Entries),
           pc' \in {"idle", "lookup", "discovering", "storing", "shown", "plan", "render",
                    "verify", "rediscovering", "verified", "dispatch"}
    PROVE  TypeOK' /\ UNCHANGED <<supplied, live, clock, lastLive>>
<1>1. UNCHANGED <<supplied, live, clock, policy, changes, lastLive>>
  BY DEF Steps, Lookup, Discover, DiscoveryFails, StoreSchema, ShowSchema, BuildsPlan,
     AfterPlanning, Render, AfterRendering, Verify, Rediscover, Reverify, AfterVerdict, Dispatch,
     Calls, StartSchema, StartCompile, StartRecompile, StartValidate, StartExecute, Begin,
     backend, client
<1> QED BY <1>1 DEF TypeOK

LEMMA CacheCalls ==
    ASSUME IInv, CacheInv, Calls
    PROVE  CacheInv'
<1>0. [Next]_vars
  BY DEF Next
<1>1. /\ cache' \in {cache, <<>>} /\ view' = view /\ job'.start = clock
      /\ pc' \in {"lookup", "rediscovering"}
  BY DEF Calls, StartSchema, StartCompile, StartRecompile, StartValidate, StartExecute, Begin
<1>2. cache' \in Seq(Timely')
  BY <1>0, <1>1, TimelyKept, EmptySeq DEF IInv, CacheInv
<1>3. TypeOK' /\ clock' = clock /\ clock \in Nat
  <2>1. cache' \in Seq(Store!Entries)
    BY <1>1, EmptySeq DEF CacheInv, TypeOK
  <2> QED BY <1>1, <2>1, WorldKept DEF CacheInv, TypeOK
<1>4. Fetching' /\ StaleBounded'
  BY <1>1, <1>3 DEF Fetching, StaleBounded
<1> QED BY <1>2, <1>3, <1>4 DEF CacheInv

LEMMA CacheSteps ==
    ASSUME IInv, CacheInv, Steps
    PROVE  CacheInv'
<1>0. [Next]_vars
  BY DEF Next
<1>1. /\ {TTL, MaxDiscovery} \subseteq Nat /\ clock \in Nat /\ NoSchema \notin Schemas
      /\ \A s \in Schemas : lastLive[s] \in Int /\ lastLive[s] <= clock
      /\ live \in Schemas /\ lastLive[live] = clock
      /\ cache \in Seq(Timely) /\ Timely \subseteq Store!Entries
  BY FacadeAssumption DEF IInv, Timeline, CacheInv, Timely
<1>2. UNCHANGED <<supplied, clock, lastLive>>
  BY DEF Steps, Lookup, Discover, DiscoveryFails, StoreSchema, ShowSchema, BuildsPlan,
     AfterPlanning, Render, AfterRendering, Verify, Rediscover, Reverify, AfterVerdict, Dispatch,
     backend, client
<1>3. ASSUME cache' \in Seq(Timely), view' \in Schemas \cup {NoSchema},
             pc' \in {"idle", "lookup", "discovering", "storing", "shown", "plan", "render",
                      "verify", "rediscovering", "verified", "dispatch"},
             Fetching' /\ StaleBounded'
      PROVE  CacheInv'
  <2>1. cache' \in Seq(Store!Entries)
    BY <1>1, <1>3, SeqMonotonic
  <2>2. Timely' = Timely
    BY <1>2 DEF Timely
  <2> QED BY <1>3, <2>1, <2>2, WorldKept DEF CacheInv
<1>4. CASE Lookup
  <2>1. /\ pc = "lookup" /\ job' = job /\ job.then \in {"shown", "plan", "render", "verify"}
        /\ job.start \in Nat /\ job.start <= clock
        /\ pc' = IF view' = NoSchema THEN "discovering" ELSE job.then
    BY <1>4 DEF Lookup, IInv, Reading, CacheInv, Fetching
  <2>2. CASE supplied # NoSchema
    <3>1. view' = supplied /\ cache' = cache
      BY <1>4, <2>2 DEF Lookup
    <3>2. view' \in Schemas
      BY <2>2, <3>1, FacadeAssumption DEF CacheInv, TypeOK
    <3>3. Fetching' /\ StaleBounded'
      BY <1>1, <1>2, <2>1, <2>2, <3>2 DEF Fetching, StaleBounded
    <3> QED BY <1>1, <1>3, <2>1, <3>1, <3>2, <3>3
  <2>3. CASE supplied = NoSchema
    <3>1. /\ view' = Store!Found(cache, "schema", clock)
          /\ cache' = Store!AfterGet(cache, "schema", clock)
      BY <1>4, <2>3 DEF Lookup
    <3>2. /\ cache' \in Seq(Timely)
          /\ view' = NoSchema \/ \E e \in Timely : view' = e.value /\ clock < e.expires
      BY <1>1, <3>1, ReadsCache
    <3>3. CASE view' = NoSchema
      <4>1. Fetching' /\ StaleBounded'
        BY <1>1, <1>2, <2>1, <3>3 DEF Fetching, StaleBounded
      <4> QED BY <1>3, <2>1, <3>2, <3>3, <4>1
    <3>4. CASE view' # NoSchema
      <4>1. PICK e \in Timely : view' = e.value /\ clock < e.expires
        BY <3>2, <3>4
      <4>2. /\ view' \in Schemas /\ e.expires \in Nat
            /\ e.expires <= lastLive[view'] + MaxDiscovery + TTL
        BY <4>1 DEF Timely, Store!Entries
      <4>3. lastLive[view'] >= job.start - TTL - MaxDiscovery
        BY <1>1, <2>1, <4>1, <4>2
      <4>4. Fetching' /\ StaleBounded'
        BY <1>1, <1>2, <2>1, <3>4, <4>2, <4>3 DEF Fetching, StaleBounded
      <4> QED BY <1>3, <2>1, <3>2, <4>2, <4>4
    <3> QED BY <3>3, <3>4
  <2> QED BY <2>2, <2>3
<1>5. CASE Discover
  <2>1. /\ pc = "discovering" /\ pc' = "storing" /\ view' = live /\ cache' = cache
        /\ job' = [job EXCEPT !.read = clock] /\ "read" \in DOMAIN job
    BY <1>5 DEF Discover, IInv, Reading, client
  <2>2. job.start \in Nat /\ job.start <= clock
    BY <2>1 DEF CacheInv, Fetching
  <2>3. job'.read = clock /\ job'.start = job.start
    BY <2>1
  <2>4. Fetching' /\ StaleBounded'
    BY <1>1, <1>2, <2>1, <2>2, <2>3 DEF Fetching, StaleBounded
  <2> QED BY <1>1, <1>3, <2>1, <2>4
<1>6. CASE DiscoveryFails \/ ShowSchema \/ Verify \/ Render \/ Dispatch
  <2>1. pc' = "idle" /\ view' = NoSchema /\ cache' = cache
    BY <1>6 DEF DiscoveryFails, ShowSchema, Verify, Render, AfterRendering, Dispatch, Raise,
       Return, client
  <2> QED BY <1>1, <1>3, <2>1, ElsewhereIsFine
<1>7. CASE StoreSchema
  <2>1. /\ pc = "storing" /\ pc' = job.then /\ UNCHANGED <<job, view>>
        /\ cache' = Store!AfterPut(cache, "schema", view, clock)
        /\ job.then \in {"shown", "plan", "render", "verify"}
    BY <1>7 DEF StoreSchema, IInv, Reading
  <2>2. /\ view \in Schemas /\ job.read \in Nat /\ job.start \in Nat /\ job.start <= clock
        /\ job.start <= job.read /\ clock <= job.read + MaxDiscovery /\ job.read <= lastLive[view]
    BY <2>1 DEF CacheInv, Fetching
  <2>3. [key |-> "schema", expires |-> clock + TTL, value |-> view] \in Timely
    BY <1>1, <2>2 DEF Timely, Store!Entries
  <2>4. cache' \in Seq(Timely)
    BY <1>1, <2>1, <2>3, StoresInCache
  <2>5. Fetching' /\ StaleBounded'
    BY <1>1, <1>2, <2>1, <2>2 DEF Fetching, StaleBounded
  <2> QED BY <1>3, <2>1, <2>2, <2>4, <2>5
<1>8. CASE BuildsPlan
  <2>1. /\ pc = "plan" /\ cache' = cache
        /\ \/ pc' = "idle" /\ view' = NoSchema
           \/ pc' = "lookup" /\ view' = view /\ job' = [job EXCEPT !.then = "render"]
    BY <1>8 DEF BuildsPlan, AfterPlanning, Raise, Return, client
  <2>2. CASE pc' = "idle" /\ view' = NoSchema
    BY <1>1, <1>3, <2>1, <2>2, ElsewhereIsFine
  <2>3. CASE pc' = "lookup" /\ view' = view /\ job' = [job EXCEPT !.then = "render"]
    <3>1. job'.start = job.start /\ job.start \in Nat /\ job.start <= clock
      BY <2>1, <2>3 DEF CacheInv, Fetching
    <3>2. Fetching' /\ StaleBounded'
      BY <1>2, <2>3, <3>1 DEF Fetching, StaleBounded
    <3> QED BY <1>1, <1>3, <2>1, <2>3, <3>2 DEF CacheInv, TypeOK
  <2> QED BY <2>1, <2>2, <2>3
<1>9. CASE Rediscover \/ Reverify
  <2>1. /\ pc' \in {"idle", "verified", "dispatch"} /\ cache' = cache
        /\ view' \in {view, live, NoSchema}
    BY <1>9 DEF Rediscover, Reverify, AfterVerdict, Return, client
  <2>2. view' \in Schemas \cup {NoSchema}
    BY <1>1, <2>1 DEF CacheInv, TypeOK
  <2> QED BY <1>1, <1>3, <2>1, <2>2, ElsewhereIsFine
<1> QED BY <1>4, <1>5, <1>6, <1>7, <1>8, <1>9 DEF Steps

LEMMA CacheStep == IInv /\ CacheInv /\ [Next]_vars => CacheInv'
<1> SUFFICES ASSUME IInv, CacheInv, [Next]_vars PROVE CacheInv'
  OBVIOUS
<1>1. CASE Next
  BY <1>1, CacheSteps, CacheCalls, CacheWorld DEF Next
<1>2. CASE UNCHANGED vars
  <2>1. /\ UNCHANGED <<supplied, live, clock, policy, view, changes, lastLive, cache, pc, job>>
    BY <1>2 DEF vars, client, call, backend
  <2>2. cache' \in Seq(Timely')
    BY <1>2, <2>1, TimelyKept DEF IInv, CacheInv
  <2> QED BY <2>1, <2>2 DEF CacheInv, TypeOK, Fetching, StaleBounded
<1> QED BY <1>1, <1>2

LEMMA CacheInvariance == Spec => []CacheInv
<1> QED BY InitInv, CacheInit, StepInv, CacheStep, PTL DEF Spec

-----------------------------------------------------------------------------

\* For every lifetime, duration of a discovery and pattern of changes: the schema
\* a compilation or a validation plans against was the backend's less than a
\* lifetime and a discovery before the call, the lifetime counting from the end
\* of the discovery (cache.py:27, api.py:75-78).
THEOREM StalenessBounded == Spec => []StaleBounded
<1>1. CacheInv => StaleBounded
  BY DEF CacheInv
<1> QED BY <1>1, CacheInvariance, PTL

\* For every planner input, cache and pattern of changes: the client's state and
\* the stage of the call under way are well typed, and what the cache answers
\* with is a schema (api.py:60-80).
THEOREM FacadeTyped == Spec => []TypeOK
<1>1. CacheInv => TypeOK
  BY DEF CacheInv
<1> QED BY <1>1, CacheInvariance, PTL

-----------------------------------------------------------------------------
(* Proposals nobody edited                                                 *)

\* The planner made the IR, of some question and at some time.
PlanOf(ir, schema, rules) ==
    \E intent, catalog, now :
        /\ WellFormed(intent) /\ catalog \in {Catalog, EmptyCatalog}
        /\ PlanError(intent, schema, Caps, rules, catalog, now) = "none"
        /\ ir = Ground(intent, schema, catalog, now)

\* A statement was made with its IR as the proposal says.
MadeAs(c, p) ==
    /\ p.schema \in Schemas /\ PlanOf(c.ir, p.schema, p.policy)
    /\ Translate(c.ir, p.rendered).error = "none"
    /\ c.statement = Translate(c.ir, p.rendered).statement

\* A proposal issued once was made as it says.
Genuine(p) ==
    /\ {"statement", "ir", "issued", "schema", "rendered", "policy"} \subseteq DOMAIN p
    /\ WellFormed(p.ir)
    /\ p.issued # {}
    /\ \A c : p.issued = {c} => MadeAs(c, p)

Toward(stage) == pc = stage \/ (pc \in {"lookup", "discovering", "storing"} /\ job.then = stage)

\* What a compilation has in hand by the stage it is in.
Compiling ==
    /\ Toward("plan") => /\ {"op", "then", "read", "intent", "catalog"} \subseteq DOMAIN job
                         /\ job.op = "compile" /\ WellFormed(job.intent)
                         /\ job.catalog \in {Catalog, EmptyCatalog}
    /\ Toward("render") => /\ {"op", "then", "read"} \subseteq DOMAIN job /\ job.op = "compile"
                           /\ plan.schema \in Schemas /\ PlanOf(plan.ir, plan.schema, policy)

\* What a validation or an execution has in hand.
Judging ==
    /\ Toward("verify") => {"then", "read", "proposal"} \subseteq DOMAIN job /\ Genuine(job.proposal)
    /\ pc \in {"rediscovering", "verified", "dispatch"} => Genuine(job.proposal)

\* What the last validation or execution returned.
Told ==
    outcome.op \in {"validate", "execute"} /\ outcome.error # "SchemaDiscoveryError" =>
        /\ Genuine(outcome.proposal)
        /\ \/ outcome.error \in {"none", "ExecutionError"}
           \/ outcome.error = Verdict(outcome.proposal, outcome.schema, outcome.policy)

GenuineInv == (\A p \in proposals : Genuine(p)) /\ Compiling /\ Judging /\ Told

LEMMA CatalogsWellFormed == \A c \in {Catalog, EmptyCatalog} : WellFormedCatalog(c)
<1>1. WellFormedCatalog(EmptyCatalog)
  BY FS_EmptySet DEF EmptyCatalog, WellFormedCatalog
<1> QED BY <1>1, FacadeAssumption

\* What is planned is well formed.
LEMMA PlansWellFormed ==
    ASSUME NEW ir, NEW schema \in Schemas, NEW rules, PlanOf(ir, schema, rules)
    PROVE  WellFormed(ir)
<1>1. PICK i, c, t : /\ WellFormed(i) /\ c \in {Catalog, EmptyCatalog}
                     /\ PlanError(i, schema, Caps, rules, c, t) = "none"
                     /\ ir = Ground(i, schema, c, t)
  BY DEF PlanOf
<1>2. /\ RequestError(i, schema, Caps, rules) = "none" /\ EdgeError(i, schema) = "none"
      /\ GroundingError(i, schema, c) = "none"
  BY <1>1 DEF PlanError, OrElse
<1>3. WellFormedSchema(schema) /\ WellFormedCatalog(c)
  BY <1>1, CatalogsWellFormed, FacadeAssumption
<1>4. WellNamed(i, schema)
  BY <1>1, <1>2, <1>3, SourcesThere
<1> DEFINE fields    == FieldTable(i, schema)
           predicate == GroundedPredicate(i, schema, c, t)
<1>5. GroundedFrom(ir, i, fields, c, predicate)
  BY <1>1, GroundParts
<1>6. Grounded(predicate, fields) /\ predicate \in Seq(ToSet(predicate))
  BY <1>1, <1>2, <1>3, <1>4, PredicateGrounds DEF Grounded
<1> HIDE DEF fields, predicate
<1> QED BY <1>1, <1>5, <1>6, WellFormedKept

\* A proposal is allowed under the schema and the policy it was made under.
LEMMA GenuineAllowed ==
    ASSUME NEW p, Genuine(p), p.issued = {Content(p)}, p.rendered = p.schema,
           KeysApart(p.schema, Catalog), WithinBounds(p.ir)
    PROVE  Verdict(p, p.schema, p.policy) = "none"
<1> DEFINE s == p.schema
           rules == p.policy
<1>1. /\ s \in Schemas /\ PlanOf(p.ir, s, rules)
      /\ Translate(p.ir, s).error = "none" /\ p.statement = Translate(p.ir, s).statement
  <2>1. MadeAs(Content(p), p)
    BY DEF Genuine
  <2>2. Content(p).ir = p.ir /\ Content(p).statement = p.statement
    BY DEF Content
  <2> QED BY <2>1, <2>2 DEF MadeAs
<1>2. PICK i, c, t : /\ WellFormed(i) /\ c \in {Catalog, EmptyCatalog}
                     /\ PlanError(i, s, Caps, rules, c, t) = "none"
                     /\ p.ir = Ground(i, s, c, t)
  BY <1>1 DEF PlanOf
<1>3. WellFormedSchema(s) /\ WellFormedCatalog(c)
  BY <1>1, <1>2, CatalogsWellFormed, FacadeAssumption
<1>4. KeysApart(s, c)
  BY <1>2 DEF KeysApart, EmptyCatalog, Concepts
<1> HIDE DEF s, rules
<1>5. /\ PlanError(p.ir, s, Caps, rules, {}, p.reference) = "none"
      /\ Ground(p.ir, s, {}, p.reference) = p.ir
  BY <1>2, <1>3, <1>4, PlansAgain
<1>6. BuildPlan(p.ir, s, Caps, rules, EmptyCatalog, p.reference)
          = [error |-> "none", ir |-> p.ir, reference |-> p.reference]
  BY <1>5 DEF BuildPlan, Planned, EmptyCatalog
<1>7. Verdict(p, s, rules) = "none"
  BY <1>1, <1>6 DEF Verdict, Judged, Compared, OrElse, Refuse
<1> QED BY <1>7 DEF s, rules

\* Another limit leaves an intent well formed.
LEMMA LimitChanged ==
    ASSUME NEW ir, WellFormed(ir), NEW n
    PROVE  WellFormed([ir EXCEPT !.limit = n])
<1> DEFINE new == [ir EXCEPT !.limit = n]
<1>1. DOMAIN new = DOMAIN ir /\ \A x \in DOMAIN ir : x # "limit" => new[x] = ir[x]
  OBVIOUS
<1> HIDE DEF new
<1>2. /\ Lists \cup Settings \subseteq DOMAIN ir
      /\ \A list \in Lists \cup {"window"} : new[list] = ir[list]
  BY <1>1 DEF WellFormed, Lists, Settings
<1>3. WellFormed(new)
  BY <1>1, <1>2 DEF WellFormed, Lists
<1> QED BY <1>3 DEF new

LEMMA GenuineInit == Init => GenuineInv
BY DEF Init, Idle, Quiet, GenuineInv, Compiling, Judging, Toward, Told

\* Edits leave what a proposal issued once was made as.
LEMMA EditsGenuine ==
    ASSUME NEW p, Genuine(p), NEW q, Genuine(q),
           NEW edited \in {[p EXCEPT !.statement = q.statement], [p EXCEPT !.ir = q.ir]}
                          \cup {[p EXCEPT !.ir.limit = n] : n \in Limits}
    PROVE  Genuine([edited EXCEPT !.issued = p.issued \cup q.issued])
<1> DEFINE new == [edited EXCEPT !.issued = p.issued \cup q.issued]
<1>1. /\ {"statement", "ir", "issued", "schema", "rendered", "policy"} \subseteq DOMAIN p
      /\ WellFormed(p.ir) /\ WellFormed(q.ir) /\ p.issued # {}
  BY DEF Genuine
<1>2. /\ DOMAIN edited = DOMAIN p /\ WellFormed(edited.ir)
      /\ edited.schema = p.schema /\ edited.rendered = p.rendered /\ edited.policy = p.policy
  <2>1. CASE edited = [p EXCEPT !.statement = q.statement]
    BY <1>1, <2>1
  <2>2. CASE edited = [p EXCEPT !.ir = q.ir]
    BY <1>1, <2>2
  <2>3. ASSUME NEW n \in Limits, edited = [p EXCEPT !.ir.limit = n]
        PROVE  DOMAIN edited = DOMAIN p /\ WellFormed(edited.ir)
               /\ edited.schema = p.schema /\ edited.rendered = p.rendered /\ edited.policy = p.policy
    <3>1. WellFormed([p.ir EXCEPT !.limit = n])
      BY <1>1, LimitChanged
    <3>2. edited.ir = [p.ir EXCEPT !.limit = n]
      BY <1>1, <2>3
    <3>3. DOMAIN edited = DOMAIN p /\ edited.schema = p.schema
          /\ edited.rendered = p.rendered /\ edited.policy = p.policy
      BY <1>1, <2>3
    <3> QED BY <3>1, <3>2, <3>3
  <2> QED BY <2>1, <2>2, <2>3
<1>3. /\ DOMAIN new = DOMAIN p /\ new.ir = edited.ir /\ new.issued = p.issued \cup q.issued
      /\ new.schema = p.schema /\ new.rendered = p.rendered /\ new.policy = p.policy
  BY <1>1, <1>2
<1> HIDE DEF new
<1>4. ASSUME NEW c, new.issued = {c} PROVE MadeAs(c, new)
  <2>1. p.issued = {c}
    BY <1>1, <1>3, <1>4
  <2>2. MadeAs(c, p)
    BY <2>1 DEF Genuine
  <2> QED BY <1>3, <2>2 DEF MadeAs
<1>5. Genuine(new)
  BY <1>1, <1>2, <1>3, <1>4 DEF Genuine
<1> QED BY <1>5 DEF new

\* The steps of the world outside.
LEMMA GenuineWorld ==
    ASSUME GenuineInv, World
    PROVE  GenuineInv'
<1>1. UNCHANGED <<pc, job, view, plan, outcome>>
  BY DEF World, SchemaChange, Tick, PolicyChange, Edit, call, results
<1>2. Told' /\ Judging'
  BY <1>1 DEF GenuineInv, Told, Judging, Toward
<1>3. policy' # policy => pc = "idle"
  BY DEF World, SchemaChange, Tick, PolicyChange, Edit, client
<1>4. Compiling'
  BY <1>1, <1>3 DEF GenuineInv, Compiling, Toward
<1>5. ASSUME NEW r \in proposals' PROVE Genuine(r)
  <2>1. CASE proposals' = proposals
    BY <1>5, <2>1 DEF GenuineInv
  <2>2. CASE Edit
    <3>1. PICK p \in proposals, q \in proposals :
            \E edited \in {[p EXCEPT !.statement = q.statement], [p EXCEPT !.ir = q.ir]}
                          \cup {[p EXCEPT !.ir.limit = n] : n \in Limits} :
               proposals' = (proposals \ {p})
                            \cup {[edited EXCEPT !.issued = p.issued \cup q.issued]}
      BY <2>2 DEF Edit
    <3>2. Genuine(p) /\ Genuine(q) /\ (r \in proposals => Genuine(r))
      BY DEF GenuineInv
    <3> QED BY <1>5, <3>1, <3>2, EditsGenuine
  <2> QED BY <2>1, <2>2 DEF World, SchemaChange, Tick, PolicyChange, results
<1> QED BY <1>2, <1>4, <1>5 DEF GenuineInv

\* The steps that take a call up.
LEMMA GenuineCalls ==
    ASSUME GenuineInv, Calls
    PROVE  GenuineInv'
<1>1. /\ UNCHANGED <<policy, proposals>> /\ outcome' = Quiet
      /\ pc' \in {"lookup", "rediscovering"}
  BY DEF Calls, StartSchema, StartCompile, StartRecompile, StartValidate, StartExecute, Begin
<1>2. Told' /\ \A p \in proposals' : Genuine(p)
  BY <1>1 DEF GenuineInv, Told, Quiet
<1>3. ASSUME NEW refresh \in BOOLEAN, StartSchema(refresh) PROVE Compiling' /\ Judging'
  <2>1. pc' = "lookup" /\ job'.then = "shown"
    BY <1>3 DEF StartSchema, Begin
  <2> QED BY <2>1 DEF Compiling, Judging, Toward
<1>4. ASSUME NEW q \in Questions, StartCompile(q) PROVE Compiling' /\ Judging'
  <2>1. /\ pc' = "lookup" /\ {"op", "then", "read", "intent", "catalog"} \subseteq DOMAIN job'
        /\ job'.op = "compile" /\ job'.then = "plan" /\ job'.intent = q /\ job'.catalog = Catalog
    BY <1>4 DEF StartCompile, Begin
  <2>2. WellFormed(q)
    BY FacadeAssumption
  <2> QED BY <2>1, <2>2 DEF Compiling, Judging, Toward
<1>5. ASSUME NEW p \in proposals, StartRecompile(p) PROVE Compiling' /\ Judging'
  <2>1. /\ pc' = "lookup" /\ {"op", "then", "read", "intent", "catalog"} \subseteq DOMAIN job'
        /\ job'.op = "compile" /\ job'.then = "plan" /\ job'.intent = p.ir
        /\ job'.catalog = EmptyCatalog
    BY <1>5 DEF StartRecompile, Begin
  <2>2. WellFormed(p.ir)
    BY DEF GenuineInv, Genuine
  <2> QED BY <2>1, <2>2 DEF Compiling, Judging, Toward
<1>6. ASSUME NEW p \in proposals, StartValidate(p) PROVE Compiling' /\ Judging'
  <2>1. /\ pc' = "lookup" /\ {"then", "read", "proposal"} \subseteq DOMAIN job'
        /\ job'.then = "verify" /\ job'.proposal = p
    BY <1>6 DEF StartValidate, Begin
  <2> QED BY <2>1 DEF GenuineInv, Compiling, Judging, Toward
<1>7. ASSUME NEW p \in proposals, StartExecute(p) PROVE Compiling' /\ Judging'
  <2>1. pc' = "rediscovering" /\ job'.proposal = p
    BY <1>7 DEF StartExecute, Begin
  <2> QED BY <2>1 DEF GenuineInv, Compiling, Judging, Toward
<1> QED BY <1>2, <1>3, <1>4, <1>5, <1>6, <1>7 DEF Calls, GenuineInv

LEMMA CallsAreOver == pc' = "idle" => Compiling' /\ Judging'
BY DEF Compiling, Judging, Toward

\* The steps of a call under way.
LEMMA GenuineSteps ==
    ASSUME IInv, CacheInv, GenuineInv, Steps
    PROVE  GenuineInv'
<1>1. policy' = policy
  BY DEF Steps, Lookup, Discover, DiscoveryFails, StoreSchema, ShowSchema, BuildsPlan,
     AfterPlanning, Render, AfterRendering, Verify, Rediscover, Reverify, AfterVerdict, Dispatch,
     client
<1>2. ASSUME proposals' = proposals PROVE \A p \in proposals' : Genuine(p)
  BY <1>2 DEF GenuineInv
<1>3. ASSUME outcome' = outcome PROVE Told'
  BY <1>3 DEF GenuineInv, Told
<1>4. CASE Lookup \/ StoreSchema
  <2>1. /\ UNCHANGED <<job, plan, proposals, outcome>> /\ pc \in {"lookup", "storing"}
        /\ pc' \in {"discovering", job.then} /\ job.then \in {"shown", "plan", "render", "verify"}
    BY <1>4 DEF Lookup, StoreSchema, results, IInv, Reading
  <2>2. Compiling' /\ Judging'
    BY <1>1, <2>1 DEF GenuineInv, Compiling, Judging, Toward
  <2> QED BY <1>2, <1>3, <2>1, <2>2 DEF GenuineInv
<1>5. CASE Discover
  <2>1. /\ UNCHANGED <<plan, proposals, outcome>> /\ pc = "discovering" /\ pc' = "storing"
        /\ job' = [job EXCEPT !.read = clock]
    BY <1>5 DEF Discover, results
  <2>2. Compiling' /\ Judging'
    BY <1>1, <2>1 DEF GenuineInv, Compiling, Judging, Toward
  <2> QED BY <1>2, <1>3, <2>1, <2>2 DEF GenuineInv
<1>6. CASE DiscoveryFails \/ ShowSchema
  <2>1. /\ pc' = "idle" /\ proposals' = proposals
        /\ outcome'.op = "schema" \/ outcome'.error = "SchemaDiscoveryError"
    BY <1>6 DEF DiscoveryFails, ShowSchema, Raise, Return
  <2>2. Told'
    BY <2>1 DEF Told
  <2> QED BY <1>2, <2>1, <2>2, CallsAreOver DEF GenuineInv
<1>7. CASE BuildsPlan
  <2>1. /\ pc = "plan" /\ proposals' = proposals
        /\ AfterPlanning(BuildPlan(job.intent, view, Caps, policy, job.catalog, job.reference))
    BY <1>7 DEF BuildsPlan
  <2>2. /\ {"op", "then", "read", "intent", "catalog"} \subseteq DOMAIN job /\ job.op = "compile"
        /\ WellFormed(job.intent) /\ job.catalog \in {Catalog, EmptyCatalog} /\ view \in Schemas
    BY <2>1 DEF GenuineInv, Compiling, Toward, CacheInv, Fetching
  <2> DEFINE error == PlanError(job.intent, view, Caps, policy, job.catalog, job.reference)
             built == BuildPlan(job.intent, view, Caps, policy, job.catalog, job.reference)
  <2>3. built.error = error /\ (error = "none" => built.ir = Ground(job.intent, view, job.catalog, job.reference))
    BY DEF BuildPlan, Planned
  <2>4. error = "none" => PlanOf(built.ir, view, policy)
    BY <2>2, <2>3 DEF PlanOf
  <2> HIDE DEF error, built
  <2>5. CASE error = "none"
    <3>1. /\ plan' = [ir |-> built.ir, schema |-> view] /\ job' = [job EXCEPT !.then = "render"]
          /\ pc' = "lookup" /\ outcome' = outcome
      BY <2>1, <2>3, <2>5 DEF AfterPlanning, built
    <3>2. Compiling' /\ Judging'
      BY <1>1, <2>2, <2>4, <2>5, <3>1 DEF Compiling, Judging, Toward
    <3> QED BY <1>2, <1>3, <2>1, <3>1, <3>2 DEF GenuineInv
  <2>6. CASE error # "none"
    <3>1. pc' = "idle" /\ outcome'.op = "compile"
      BY <2>1, <2>2, <2>3, <2>6 DEF AfterPlanning, Raise, Return, built
    <3>2. Told'
      BY <3>1 DEF Told
    <3> QED BY <1>2, <2>1, <3>1, <3>2, CallsAreOver DEF GenuineInv
  <2> QED BY <2>5, <2>6
<1>8. CASE Render
  <2>1. pc = "render" /\ AfterRendering(Translate(plan.ir, view))
    BY <1>8 DEF Render
  <2>2. job.op = "compile" /\ plan.schema \in Schemas /\ PlanOf(plan.ir, plan.schema, policy)
    BY <2>1 DEF GenuineInv, Compiling, Toward
  <2>3. pc' = "idle" /\ outcome'.op = "compile"
    BY <2>1, <2>2 DEF AfterRendering, Raise, Return
  <2>4. Told'
    BY <2>3 DEF Told
  <2> DEFINE made == Translate(plan.ir, view)
             new  == Proposal(made.statement)
  <2>5. made.error = "none" => Genuine(new)
    <3>1. /\ {"statement", "ir", "issued", "schema", "rendered", "policy"} \subseteq DOMAIN new
          /\ new.ir = plan.ir /\ new.statement = made.statement
          /\ new.issued = {[statement |-> made.statement, ir |-> plan.ir]}
          /\ new.schema = plan.schema /\ new.rendered = view /\ new.policy = policy
      BY DEF Proposal
    <3>2. WellFormed(plan.ir)
      BY <2>2, PlansWellFormed
    <3> HIDE DEF new
    <3>3. ASSUME made.error = "none", NEW c, new.issued = {c} PROVE MadeAs(c, new)
      <4>1. c = [statement |-> made.statement, ir |-> plan.ir]
        BY <3>1, <3>3
      <4>2. c.ir = plan.ir /\ c.statement = made.statement
        BY <4>1
      <4> QED BY <2>2, <3>1, <3>3, <4>2 DEF MadeAs
    <3> QED BY <3>1, <3>2, <3>3 DEF Genuine
  <2>6. proposals' = proposals \/ (made.error = "none" /\ proposals' = proposals \cup {new})
    BY <2>1 DEF AfterRendering
  <2> HIDE DEF new, made
  <2>7. \A p \in proposals' : Genuine(p)
    BY <2>5, <2>6 DEF GenuineInv
  <2> QED BY <2>3, <2>4, <2>7, CallsAreOver DEF GenuineInv
<1>9. CASE Verify
  <2>1. /\ pc = "verify" /\ pc' = "idle" /\ proposals' = proposals
        /\ outcome' = [op |-> "validate", error |-> Verdict(job.proposal, view, policy),
                       proposal |-> job.proposal, schema |-> view, policy |-> policy]
    BY <1>9 DEF Verify, Return
  <2>2. Genuine(job.proposal)
    BY <2>1 DEF GenuineInv, Judging, Toward
  <2>3. Told'
    BY <2>1, <2>2 DEF Told
  <2> QED BY <1>2, <2>1, <2>3, CallsAreOver DEF GenuineInv
<1>10. CASE Rediscover
  <2>1. /\ pc = "rediscovering" /\ pc' = "verified" /\ UNCHANGED <<job, plan, proposals, outcome>>
    BY <1>10 DEF Rediscover, results
  <2>2. Compiling' /\ Judging'
    BY <2>1 DEF GenuineInv, Compiling, Judging, Toward
  <2> QED BY <1>2, <1>3, <2>1, <2>2 DEF GenuineInv
<1>11. CASE Reverify
  <2>1. /\ pc = "verified" /\ proposals' = proposals
        /\ AfterVerdict(Verdict(job.proposal, view, policy))
    BY <1>11 DEF Reverify
  <2>2. Genuine(job.proposal)
    BY <2>1 DEF GenuineInv, Judging
  <2> DEFINE verdict == Verdict(job.proposal, view, policy)
  <2>3. CASE verdict = "none"
    <3>1. pc' = "dispatch" /\ job' = job /\ outcome' = outcome
      BY <2>1, <2>3 DEF AfterVerdict
    <3>2. Compiling' /\ Judging'
      BY <2>2, <3>1 DEF Compiling, Judging, Toward
    <3> QED BY <1>2, <1>3, <2>1, <3>1, <3>2 DEF GenuineInv
  <2>4. CASE verdict # "none"
    <3>1. /\ pc' = "idle"
          /\ outcome' = [op |-> "execute", error |-> verdict, proposal |-> job.proposal,
                         schema |-> view, policy |-> policy]
      BY <2>1, <2>4 DEF AfterVerdict, Return
    <3>2. Told'
      BY <2>2, <3>1 DEF Told
    <3> QED BY <1>2, <2>1, <3>1, <3>2, CallsAreOver DEF GenuineInv
  <2> QED BY <2>3, <2>4
<1>12. CASE Dispatch
  <2>1. pc = "dispatch" /\ proposals' = proposals
    BY <1>12 DEF Dispatch
  <2>2. PICK error \in {"none", "ExecutionError"} :
           Return([op |-> "execute", error |-> error, proposal |-> job.proposal,
                   schema |-> plan.schema, policy |-> policy])
    BY <1>12 DEF Dispatch
  <2>3. pc' = "idle" /\ outcome'.proposal = job.proposal /\ outcome'.error \in {"none", "ExecutionError"}
    BY <2>2 DEF Return
  <2>4. Genuine(job.proposal)
    BY <2>1 DEF GenuineInv, Judging
  <2>5. Told'
    BY <2>3, <2>4 DEF Told
  <2> QED BY <1>2, <2>1, <2>3, <2>5, CallsAreOver DEF GenuineInv
<1> QED BY <1>4, <1>5, <1>6, <1>7, <1>8, <1>9, <1>10, <1>11, <1>12 DEF Steps

LEMMA GenuineStep == IInv /\ CacheInv /\ GenuineInv /\ [Next]_vars => GenuineInv'
<1> SUFFICES ASSUME IInv, CacheInv, GenuineInv, [Next]_vars PROVE GenuineInv'
  OBVIOUS
<1>1. CASE UNCHANGED vars
  BY <1>1 DEF vars, client, call, results, GenuineInv, Compiling, Judging, Told, Toward
<1> QED BY <1>1, GenuineSteps, GenuineCalls, GenuineWorld DEF Next

LEMMA GenuineInvariance == Spec => []GenuineInv
BY InitInv, StepInv, GenuineInit, GenuineStep, CacheInvariance, PTL DEF Spec

\* A proposal nobody edited is allowed under the schema and the policy it was
\* made under, whatever has happened since, where no business term is spelled
\* like a join key and the proposal is no longer than the planner takes
\* (api.py:146-149, connectors/base.py:28-43).
THEOREM UneditedPass == TermsApart => (Spec => [](ProposalFits => UneditedAllowed))
<1> SUFFICES ASSUME TermsApart PROVE Spec => [](ProposalFits => UneditedAllowed)
  OBVIOUS
<1>1. GenuineInv /\ ProposalFits => UneditedAllowed
  <2> SUFFICES ASSUME GenuineInv, ProposalFits,
                      outcome.op \in {"validate", "execute"}, outcome.error # "SchemaDiscoveryError",
                      outcome.proposal.issued = {Content(outcome.proposal)},
                      {outcome.proposal.schema, outcome.proposal.rendered} = {outcome.schema},
                      outcome.proposal.policy = outcome.policy
               PROVE  outcome.error \in {"none", "ExecutionError"}
    BY DEF UneditedAllowed
  <2> DEFINE p == outcome.proposal
  <2>1. Genuine(p) /\ WithinBounds(p.ir) /\ p.schema = outcome.schema /\ p.rendered = p.schema
    BY DEF GenuineInv, Told, ProposalFits
  <2>2. MadeAs(Content(p), p)
    BY <2>1 DEF Genuine
  <2>3. KeysApart(p.schema, Catalog)
    BY <2>2 DEF MadeAs, TermsApart
  <2>4. Verdict(p, outcome.schema, outcome.policy) = "none"
    <3>1. p.policy = outcome.policy /\ p.issued = {Content(p)}
      OBVIOUS
    <3> HIDE DEF p
    <3> QED BY <2>1, <2>3, <3>1, GenuineAllowed
  <2> QED BY <2>4 DEF GenuineInv, Told
<1> QED BY <1>1, GenuineInvariance, PTL

-----------------------------------------------------------------------------
(* Edited proposals                                                        *)

\* A statement is one an IR that comes up gives.
From(c, irs) ==
    /\ c.ir \in irs
    /\ \E s \in Schemas : /\ Translate(c.ir, s).error = "none"
                          /\ c.statement = Translate(c.ir, s).statement

\* However it was edited, a proposal's statement was issued, and its IR is one
\* that comes up.
Issued(p, irs) ==
    /\ {"statement", "ir", "issued", "reference"} \subseteq DOMAIN p
    /\ p.ir \in irs
    /\ \E k \in 0..Horizon : p.reference = Reference[k]
    /\ \A c \in p.issued : c = [statement |-> c.statement, ir |-> c.ir] /\ From(c, irs)
    /\ \E c \in p.issued : c.statement = p.statement

\* What a call has in hand by the stage it is in.
Handling(irs) ==
    /\ Toward("plan") =>
           /\ {"then", "read", "intent", "catalog", "reference"} \subseteq DOMAIN job
           /\ \/ job.intent \in Questions /\ job.catalog = Catalog
              \/ job.intent \in irs /\ job.catalog = EmptyCatalog
    /\ Toward("plan") \/ Toward("render") =>
           /\ {"then", "read", "reference"} \subseteq DOMAIN job
           /\ \E k \in 0..Horizon : job.reference = Reference[k]
    /\ Toward("render") => plan.ir \in irs
    /\ pc \in {"rediscovering", "verified"} => Issued(job.proposal, irs)
    /\ pc = "dispatch" => Content(job.proposal) \in job.proposal.issued

EditsInv(irs) == (\A p \in proposals : Issued(p, irs)) /\ Handling(irs) /\ EditsRejected

LEMMA EditsInit == ASSUME NEW irs PROVE Init => EditsInv(irs)
BY DEF Init, Idle, EditsInv, Handling, Toward, EditsRejected

\* Edits keep to what was issued and to the IRs that come up.
LEMMA EditsIssued ==
    ASSUME NEW irs, Closed(irs), NEW p, Issued(p, irs), NEW q, Issued(q, irs),
           NEW edited \in {[p EXCEPT !.statement = q.statement], [p EXCEPT !.ir = q.ir]}
                          \cup {[p EXCEPT !.ir.limit = n] : n \in Limits}
    PROVE  Issued([edited EXCEPT !.issued = p.issued \cup q.issued], irs)
<1> DEFINE new == [edited EXCEPT !.issued = p.issued \cup q.issued]
<1>1. /\ {"statement", "ir", "issued", "reference"} \subseteq DOMAIN p
      /\ p.ir \in irs /\ q.ir \in irs
  BY DEF Issued
<1>2. /\ DOMAIN edited = DOMAIN p /\ edited.ir \in irs /\ edited.reference = p.reference
      /\ edited.statement \in {p.statement, q.statement}
  <2>1. CASE edited = [p EXCEPT !.statement = q.statement]
    BY <1>1, <2>1
  <2>2. CASE edited = [p EXCEPT !.ir = q.ir]
    BY <1>1, <2>2
  <2>3. ASSUME NEW n \in Limits, edited = [p EXCEPT !.ir.limit = n]
        PROVE  /\ DOMAIN edited = DOMAIN p /\ edited.ir \in irs /\ edited.reference = p.reference
               /\ edited.statement \in {p.statement, q.statement}
    <3>1. [p.ir EXCEPT !.limit = n] \in irs
      BY <1>1 DEF Closed
    <3>2. edited.ir = [p.ir EXCEPT !.limit = n]
      BY <1>1, <2>3
    <3>3. DOMAIN edited = DOMAIN p /\ edited.reference = p.reference /\ edited.statement = p.statement
      BY <1>1, <2>3
    <3> QED BY <3>1, <3>2, <3>3
  <2> QED BY <2>1, <2>2, <2>3
<1>3. /\ DOMAIN new = DOMAIN p /\ new.ir = edited.ir /\ new.issued = p.issued \cup q.issued
      /\ new.statement = edited.statement /\ new.reference = p.reference
  BY <1>1, <1>2
<1> HIDE DEF new
<1>4. \A c \in new.issued : c = [statement |-> c.statement, ir |-> c.ir] /\ From(c, irs)
  BY <1>3 DEF Issued
<1>5. \E c \in new.issued : c.statement = new.statement
  <2>1. (\E c \in p.issued : c.statement = p.statement) /\ (\E c \in q.issued : c.statement = q.statement)
    BY DEF Issued
  <2> QED BY <1>2, <1>3, <2>1
<1>6. \E k \in 0..Horizon : new.reference = Reference[k]
  BY <1>3 DEF Issued
<1>7. Issued(new, irs)
  BY <1>1, <1>2, <1>3, <1>4, <1>5, <1>6 DEF Issued
<1> QED BY <1>7 DEF new

\* No edit of a proposal gets past verification where statements tell IRs apart.
LEMMA VerdictTells ==
    ASSUME NEW irs, Closed(irs), Telling(irs), NEW p, Issued(p, irs), NEW schema \in Schemas,
           NEW rules \in Policies, Verdict(p, schema, rules) = "none"
    PROVE  Content(p) \in p.issued
<1>1. PICK k \in 0..Horizon : p.reference = Reference[k]
  BY DEF Issued
<1> DEFINE again == BuildPlan(p.ir, schema, Caps, rules, EmptyCatalog, p.reference)
           made  == Translate(again.ir, schema)
<1>2. again.error = "none" /\ made.error = "none" /\ p.statement = made.statement
  <2> HIDE DEF again
  <2>1. OrElse(again.error, OrElse(made.error, Refuse(p.statement # made.statement, "ValidationError"))) = "none"
    BY DEF Verdict, Judged, Compared, again
  <2> HIDE DEF made
  <2> QED BY <2>1 DEF OrElse, Refuse
<1>3. again.ir = p.ir
  <2>1. p.ir \in irs
    BY DEF Issued
  <2>2. LET b == BuildPlan(p.ir, schema, Caps, rules, EmptyCatalog, Reference[k])
        IN  b.error = "none" => b.ir = p.ir
    BY <2>1 DEF Closed
  <2>3. again = BuildPlan(p.ir, schema, Caps, rules, EmptyCatalog, Reference[k])
    BY <1>1
  <2> HIDE DEF again
  <2> QED BY <1>2, <2>2, <2>3
<1> HIDE DEF again
<1>4. PICK c \in p.issued : c.statement = p.statement
  BY DEF Issued
<1>5. c = [statement |-> c.statement, ir |-> c.ir] /\ From(c, irs)
  BY DEF Issued
<1>6. PICK s \in Schemas : /\ Translate(c.ir, s).error = "none"
                           /\ c.statement = Translate(c.ir, s).statement
  BY <1>5 DEF From
<1>7. c.ir = p.ir
  <2>1. p.ir \in irs /\ c.ir \in irs
    BY <1>5 DEF Issued, From
  <2> QED BY <1>2, <1>3, <1>4, <1>6, <2>1 DEF Telling
<1> QED BY <1>4, <1>5, <1>7 DEF Content

LEMMA EditsWorld ==
    ASSUME NEW irs, Closed(irs), EditsInv(irs), World
    PROVE  EditsInv(irs)'
<1>1. UNCHANGED <<pc, job, view, plan, sent>>
  BY DEF World, SchemaChange, Tick, PolicyChange, Edit, call, results
<1>2. Handling(irs)' /\ EditsRejected'
  BY <1>1 DEF EditsInv, Handling, Toward, EditsRejected
<1>3. ASSUME NEW r \in proposals' PROVE Issued(r, irs)
  <2>1. CASE proposals' = proposals
    BY <1>3, <2>1 DEF EditsInv
  <2>2. CASE Edit
    <3>1. PICK p \in proposals, q \in proposals :
            \E edited \in {[p EXCEPT !.statement = q.statement], [p EXCEPT !.ir = q.ir]}
                          \cup {[p EXCEPT !.ir.limit = n] : n \in Limits} :
               proposals' = (proposals \ {p})
                            \cup {[edited EXCEPT !.issued = p.issued \cup q.issued]}
      BY <2>2 DEF Edit
    <3>2. Issued(p, irs) /\ Issued(q, irs) /\ (r \in proposals => Issued(r, irs))
      BY DEF EditsInv
    <3> QED BY <1>3, <3>1, <3>2, EditsIssued
  <2> QED BY <2>1, <2>2 DEF World, SchemaChange, Tick, PolicyChange, results
<1> QED BY <1>2, <1>3 DEF EditsInv

LEMMA EditsCalls ==
    ASSUME NEW irs, TypeOK, EditsInv(irs), Calls
    PROVE  EditsInv(irs)'
<1>1. /\ proposals' = proposals /\ sent' = Idle /\ clock \in 0..Horizon
      /\ pc' \in {"lookup", "rediscovering"}
  BY DEF Calls, StartSchema, StartCompile, StartRecompile, StartValidate, StartExecute, Begin, TypeOK
<1>2. EditsRejected' /\ \A p \in proposals' : Issued(p, irs)
  BY <1>1 DEF EditsInv, EditsRejected
<1>3. ASSUME NEW refresh \in BOOLEAN, StartSchema(refresh) PROVE Handling(irs)'
  <2>1. pc' = "lookup" /\ job'.then = "shown"
    BY <1>3 DEF StartSchema, Begin
  <2> QED BY <2>1 DEF Handling, Toward
<1>4. ASSUME NEW q \in Questions, StartCompile(q) PROVE Handling(irs)'
  <2>1. /\ pc' = "lookup" /\ {"then", "read", "intent", "catalog", "reference"} \subseteq DOMAIN job'
        /\ job'.then = "plan" /\ job'.intent = q /\ job'.catalog = Catalog
        /\ job'.reference = Reference[clock]
    BY <1>4 DEF StartCompile, Begin
  <2> QED BY <1>1, <2>1 DEF Handling, Toward
<1>5. ASSUME NEW p \in proposals, StartRecompile(p) PROVE Handling(irs)'
  <2>1. /\ pc' = "lookup" /\ {"then", "read", "intent", "catalog", "reference"} \subseteq DOMAIN job'
        /\ job'.then = "plan" /\ job'.intent = p.ir /\ job'.catalog = EmptyCatalog
        /\ job'.reference = p.reference
    BY <1>5 DEF StartRecompile, Begin
  <2>2. p.ir \in irs /\ \E k \in 0..Horizon : p.reference = Reference[k]
    BY DEF EditsInv, Issued
  <2> QED BY <2>1, <2>2 DEF Handling, Toward
<1>6. ASSUME NEW p \in proposals, StartValidate(p) PROVE Handling(irs)'
  <2>1. pc' = "lookup" /\ job'.then = "verify"
    BY <1>6 DEF StartValidate, Begin
  <2> QED BY <2>1 DEF Handling, Toward
<1>7. ASSUME NEW p \in proposals, StartExecute(p) PROVE Handling(irs)'
  <2>1. pc' = "rediscovering" /\ job'.proposal = p
    BY <1>7 DEF StartExecute, Begin
  <2> QED BY <2>1 DEF EditsInv, Handling, Toward
<1> QED BY <1>2, <1>3, <1>4, <1>5, <1>6, <1>7 DEF Calls, EditsInv

LEMMA EditsSteps ==
    ASSUME NEW irs, Closed(irs), Telling(irs), IInv, CacheInv, EditsInv(irs), Steps
    PROVE  EditsInv(irs)'
<1>1. ASSUME proposals' = proposals PROVE \A p \in proposals' : Issued(p, irs)
  BY <1>1 DEF EditsInv
<1>2. ASSUME sent' = sent PROVE EditsRejected'
  BY <1>2 DEF EditsInv, EditsRejected
<1>3. ASSUME pc' \in {"idle", "shown", "verify"} PROVE Handling(irs)'
  BY <1>3 DEF Handling, Toward
<1>4. CASE Lookup \/ StoreSchema
  <2>1. /\ UNCHANGED <<job, plan, proposals, sent>> /\ pc \in {"lookup", "storing"}
        /\ pc' \in {"discovering", job.then} /\ job.then \in {"shown", "plan", "render", "verify"}
    BY <1>4 DEF Lookup, StoreSchema, results, IInv, Reading
  <2>2. Handling(irs)'
    BY <2>1 DEF EditsInv, Handling, Toward
  <2> QED BY <1>1, <1>2, <2>1, <2>2 DEF EditsInv
<1>5. CASE Discover
  <2>1. /\ UNCHANGED <<plan, proposals, sent>> /\ pc = "discovering" /\ pc' = "storing"
        /\ job' = [job EXCEPT !.read = clock]
    BY <1>5 DEF Discover, results
  <2>2. Handling(irs)'
    BY <2>1 DEF EditsInv, Handling, Toward
  <2> QED BY <1>1, <1>2, <2>1, <2>2 DEF EditsInv
<1>6. CASE DiscoveryFails \/ ShowSchema \/ Verify
  <2>1. pc' = "idle" /\ UNCHANGED <<proposals, sent>>
    BY <1>6 DEF DiscoveryFails, ShowSchema, Verify, Raise, Return
  <2> QED BY <1>1, <1>2, <1>3, <2>1 DEF EditsInv
<1>7. CASE BuildsPlan
  <2>1. /\ pc = "plan" /\ UNCHANGED <<proposals, sent>>
        /\ AfterPlanning(BuildPlan(job.intent, view, Caps, policy, job.catalog, job.reference))
    BY <1>7 DEF BuildsPlan
  <2>2. /\ {"then", "read", "intent", "catalog", "reference"} \subseteq DOMAIN job
        /\ view \in Schemas /\ policy \in Policies
        /\ \/ job.intent \in Questions /\ job.catalog = Catalog
           \/ job.intent \in irs /\ job.catalog = EmptyCatalog
    BY <2>1 DEF EditsInv, Handling, Toward, CacheInv, Fetching, TypeOK
  <2>3. PICK k \in 0..Horizon : job.reference = Reference[k]
    BY <2>1 DEF EditsInv, Handling, Toward
  <2> DEFINE built == BuildPlan(job.intent, view, Caps, policy, job.catalog, job.reference)
  <2>4. built.error = "none" => built.ir \in irs
    <3>1. built = BuildPlan(job.intent, view, Caps, policy, job.catalog, Reference[k])
      BY <2>3
    <3> HIDE DEF built
    <3>2. CASE job.intent \in Questions /\ job.catalog = Catalog
      BY <2>2, <3>1, <3>2 DEF Closed
    <3>3. CASE job.intent \in irs /\ job.catalog = EmptyCatalog
      BY <2>2, <3>1, <3>3 DEF Closed
    <3> QED BY <2>2, <3>2, <3>3
  <2> HIDE DEF built
  <2>5. CASE built.error = "none"
    <3>1. /\ plan' = [ir |-> built.ir, schema |-> view] /\ job' = [job EXCEPT !.then = "render"]
          /\ pc' = "lookup"
      BY <2>1, <2>5 DEF AfterPlanning, built
    <3>2. Handling(irs)'
      BY <2>2, <2>3, <2>4, <2>5, <3>1 DEF Handling, Toward
    <3> QED BY <1>1, <1>2, <2>1, <3>2 DEF EditsInv
  <2>6. CASE built.error # "none"
    <3>1. pc' = "idle"
      BY <2>1, <2>6 DEF AfterPlanning, Raise, Return, built
    <3> QED BY <1>1, <1>2, <1>3, <2>1, <3>1 DEF EditsInv
  <2> QED BY <2>5, <2>6
<1>8. CASE Render
  <2>1. pc = "render" /\ sent' = sent /\ AfterRendering(Translate(plan.ir, view))
    BY <1>8 DEF Render
  <2>2. plan.ir \in irs /\ view \in Schemas /\ \E k \in 0..Horizon : job.reference = Reference[k]
    BY <2>1 DEF EditsInv, Handling, Toward, CacheInv, Fetching
  <2>3. pc' = "idle"
    BY <2>1 DEF AfterRendering, Raise, Return
  <2> DEFINE made == Translate(plan.ir, view)
             new  == Proposal(made.statement)
             pair == [statement |-> made.statement, ir |-> plan.ir]
  <2>4. made.error = "none" => Issued(new, irs)
    <3>1. /\ {"statement", "ir", "issued", "reference"} \subseteq DOMAIN new
          /\ new.ir = plan.ir /\ new.statement = made.statement /\ new.reference = job.reference
          /\ new.issued = {pair}
      BY DEF Proposal
    <3>2. pair.statement = made.statement /\ pair.ir = plan.ir
      OBVIOUS
    <3> HIDE DEF new
    <3>3. made.error = "none" => From(pair, irs)
      <4> HIDE DEF pair
      <4> QED BY <2>2, <3>2 DEF From
    <3>4. pair = [statement |-> pair.statement, ir |-> pair.ir]
      OBVIOUS
    <3> HIDE DEF pair
    <3> QED BY <2>2, <3>1, <3>2, <3>3, <3>4 DEF Issued
  <2>5. proposals' = proposals \/ (made.error = "none" /\ proposals' = proposals \cup {new})
    BY <2>1 DEF AfterRendering
  <2> HIDE DEF new, made
  <2>6. \A p \in proposals' : Issued(p, irs)
    BY <2>4, <2>5 DEF EditsInv
  <2> QED BY <1>2, <1>3, <2>1, <2>3, <2>6 DEF EditsInv
<1>9. CASE Rediscover
  <2>1. /\ pc = "rediscovering" /\ pc' = "verified" /\ UNCHANGED <<job, plan, proposals, sent>>
    BY <1>9 DEF Rediscover, results
  <2>2. Handling(irs)'
    BY <2>1 DEF EditsInv, Handling, Toward
  <2> QED BY <1>1, <1>2, <2>1, <2>2 DEF EditsInv
<1>10. CASE Reverify
  <2>1. /\ pc = "verified" /\ UNCHANGED <<proposals, sent>>
        /\ AfterVerdict(Verdict(job.proposal, view, policy))
    BY <1>10 DEF Reverify
  <2>2. Issued(job.proposal, irs) /\ view \in Schemas /\ policy \in Policies
    BY <2>1 DEF EditsInv, Handling, IInv, Executing, Held
  <2> DEFINE verdict == Verdict(job.proposal, view, policy)
  <2>3. CASE verdict = "none"
    <3>1. pc' = "dispatch" /\ job' = job
      BY <2>1, <2>3 DEF AfterVerdict
    <3>2. Content(job.proposal) \in job.proposal.issued
      BY <2>2, <2>3, VerdictTells
    <3>3. Handling(irs)'
      BY <3>1, <3>2 DEF Handling, Toward
    <3> QED BY <1>1, <1>2, <2>1, <3>3 DEF EditsInv
  <2>4. CASE verdict # "none"
    <3>1. pc' = "idle"
      BY <2>1, <2>4 DEF AfterVerdict, Return
    <3> QED BY <1>1, <1>2, <1>3, <2>1, <3>1 DEF EditsInv
  <2> QED BY <2>3, <2>4
<1>11. CASE Dispatch
  <2>1. /\ pc = "dispatch" /\ pc' = "idle" /\ proposals' = proposals
        /\ sent'.proposal = job.proposal
    BY <1>11 DEF Dispatch, Return
  <2>2. EditsRejected'
    BY <2>1 DEF EditsInv, Handling, EditsRejected
  <2> QED BY <1>1, <1>3, <2>1, <2>2 DEF EditsInv
<1> QED BY <1>4, <1>5, <1>6, <1>7, <1>8, <1>9, <1>10, <1>11 DEF Steps

\* What runs is a statement with the IR it was issued with, however proposals
\* are edited, where no two plans of the questions asked have a statement in
\* common (connectors/base.py:24-43).
THEOREM EditsCannotPass ==
    ASSUME NEW CONSTANT irs, Closed(irs), Telling(irs)
    PROVE  Spec => []EditsRejected
<1>1. Init => EditsInv(irs)
  BY EditsInit
<1>2. IInv /\ CacheInv /\ EditsInv(irs) /\ [Next]_vars => EditsInv(irs)'
  <2> SUFFICES ASSUME IInv, CacheInv, EditsInv(irs), [Next]_vars PROVE EditsInv(irs)'
    OBVIOUS
  <2>1. CASE UNCHANGED vars
    BY <2>1 DEF vars, client, call, results, EditsInv, Handling, Toward, EditsRejected
  <2>2. TypeOK
    BY DEF CacheInv
  <2> QED BY <2>1, <2>2, EditsSteps, EditsCalls, EditsWorld DEF Next
<1>3. EditsInv(irs) => EditsRejected
  BY DEF EditsInv
<1> QED BY <1>1, <1>2, <1>3, InitInv, StepInv, CacheInvariance, PTL DEF Spec
=============================================================================
