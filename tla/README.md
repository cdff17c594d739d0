# nlquery in TLA+

A verification development kept beside `nlquery`, the library that turns a
question in natural language into a typed intent, the intent into a grounded
plan, the plan into a backend's own query language, and runs the result
read-only. The modules are translated from the source (paths below are under
`src/src/nlquery/`); TLC checks them on small instances and TLAPS proves the
listed theorems for every value of the constants.

## 1. The system

A call goes through these parts:

    question --interpret--> TypedIntent --build_plan--> QueryPlan (IR)
       ^   provider, retrieval               |
       |                                     v  compiler
    QuerySession                      CompiledQuery (a "proposal")
                                             |
             validate / execute: verified() discovers again, plans the IR again,
             renders again, compares with the proposal, then one session runs it

The safety argument of the library is that nothing a model or a caller wrote is
executed: what runs was produced by the planner and the compiler under the
schema and policy in force, and everything else is refused. Most properties
below are parts of that argument, or what it depends on.

### Inventory

| component | state | operations | interacts with | what is hard | what makes it correct |
|---|---|---|---|---|---|
| schema cache `core/cache.py` | ordered dict of entries with expiry | get, put, invalidate | client; monotonic clock | expiry at the boundary, eviction of an unrelated key, overwriting when full | answers are fresh, capacity is kept, losses have a cause |
| relative dates `core/planner.py:32-63` | none | time_interval | planner | month, quarter, year and leap day boundaries | windows are exactly what the words say |
| planner `core/planner.py` | none | build_plan | schema, policy, catalog | ambiguous names, order of joins, IRs planned again, conditions added while walking | meaning kept, nothing guessed, stable when repeated |
| SQL, JQL compilers `compilers/` | none | compile | plan, schema | a schema other than the planned one | statement is a function of IR and schema; only project errors |
| MongoDB, Neo4j, InfluxDB, Redis compilers `compilers/` | none | compile | plan, schema | order of stages, names between stages, a range taken out of a predicate, the two ends of a relationship | what the backend answers is what the plan says |
| client `api.py` | policy, cache, supplied schema | schema, plan, compile, validate, explain, execute | connector, cache | several reads of schema, policy and time in one call; proposals held for long; limits of plan and policy | freshness, review binding, staleness bounded, a limit that cut rows is told |
| re-verification `connectors/base.py` | none | verified | discovery, planner, compiler | edits that survive comparison | edited proposals are refused, unedited ones are not |
| interpretation and session `api.py:95-255` | previous intent and plan, the messages of a question | interpret, ask | provider, retrieval, client | repair after misunderstandings, failures half-way | of the schema the provider sees what is allowed; what it refines was allowed; memory is consistent; it ends |
| providers `llm/providers.py` | none | structured_generate | interpretation, a vendor's service | messages shared between attempts | each request says everything once |
| retrieval `discovery/retrieval.py` | none | retrieve | schema, catalog | ranking, cut and size limit | allowed sources only, terms bring their source in |
| catalog discovery (SQLite, PostgreSQL, TimescaleDB, MySQL, HANA, Jira, Redis) | lists built up over several statements | discover | the database, which changes | torn reads, name collisions, budgets | genuine sources and relationships; budgets refuse, never cut |
| sampled discovery (MongoDB, Neo4j) | types merged over samples | discover | the database | order and disagreement of samples | types agree with samples; no ambiguous edge |
| sessions (SQLite, PostgreSQL, MySQL, MongoDB, Neo4j, InfluxDB, Redis) | one connection | execute | driver | failure at any step, clean-up included | connection given up, errors translated, rows whole |
| Jira search | rows, token, seen tokens, deadline | execute | search service | repeated, missing tokens; short pages; time | the first rows up to the limit; ends |
| MongoDB date conversion | second discovery | execute | collection | types drift between two discoveries | no document silently missed |

Not modelled yet or not to be modelled, with reasons, are listed in section 7
and, part by part, in `PROJECT.json`.

The hazards (`PROJECT.json`, `hazards`) are the places where these parts can go
wrong in ways a unit test hardly reaches. The package has no threads or tasks
of its own: concurrency comes from the backend changing between the calls of
one operation, time passing, failing services, and holders of proposals and
sessions who call in any legal order.

## 2. Modules

| module | models | state and actions |
|---|---|---|
| `FreshStore` | what a cache with a lifetime promises, without mechanism | `content`; lookup, store, forget |
| `TTLCache` | `core/cache.py` | the dict as a sequence of entries; `Get`, `Put`, `Invalidate`, `Tick` |
| `Calendar` | `time_interval` | operators only: instants, day numbers, windows |
| `Planner` | `build_plan` | `BuildPlan`: a plan or the first of the refusals, in the order of the code |
| `SqlCompiler`, `JqlCompiler`, `MongoCompiler`, `CypherCompiler`, `FluxCompiler`, `RedisCompiler` | the compilers | `Compile`, `CompileError`: the clauses, stages or words of a statement |
| `Compilers` | which compiler a backend has, and its capabilities | operators only |
| `Rows` | tables, and what a test, an aggregate, an order or a page is, in the words all backends share | operators only |
| `Backends` | what SQL, MongoDB, Neo4j, InfluxDB and Redis answer to the statements above; external | operators only |
| `Grounding` | planning an intent, compiling it, then planning its IR again | `Plan`, `Render`, `Replan` of one intent |
| `Answers` | `Grounding`, then `execute` of the connectors and of the client | `Run`, `Normalise`; the reference meaning of a plan |
| `Facade` | `NLQuery` over any compiler, with `verified` | proposals, cache, the backend's live schema, policy, clock; the steps between reads of each |
| `Interpretation` | `interpret`, retrieval, the providers and `QuerySession.ask` | policy, session memory, the question in progress, its payload, its messages and the last request |
| `Discovery` | catalog discovery of seven connectors | one action per statement, and `DatabaseChanges` |
| `Sampling` | sampled discovery of two connectors | one action per document, node or edge handed over, and one per entry met in it |
| `ReadSession` | `execute` of seven connectors | one action per driver call, each of which may fail |
| `JiraSearch` | the paging loop | request, response, deadline checks, clock |
| `MongoSession` | second discovery, conversion, aggregation | four steps and a changing collection |
| `MC...` | instances for TLC | definitions of constants only |
| `PlannerProofs` | lemmas about the planner, for any intent and schema, that `FacadeProofs` and `AnswersProofs` use | - |
| `SchemaProofs`, `JiraSearchProofs`, `FacadeProofs`, `SessionProofs`, `SamplingProofs`, `InterpretationProofs`, `AnswersProofs` | lemmas and theorems about the components, for all values of the constants | - |

How they compose: `Planner` extends `Calendar`; the compilers and `Rows` extend
`Planner`; `Compilers` instantiates the compilers under names of their own and
`Backends` extends it and `Rows`. `Grounding` extends `Compilers`, and `Answers`
extends `Grounding` and `Backends`: a question is planned, compiled, planned
again as verification does, run by the backend and normalised by the client.
`Facade` has the compiler as a parameter (`MCFacade` gives it SQL,
`MCFacadeJira` JQL) and follows what `Answers` leaves alone: the schema, the
policy, the cache and the proposals changing around the calls. `ReadSession`
follows what both leave alone: a driver that fails. `TTLCache` implements
`FreshStore` by the refinement mapping `AnswersFresh`. The client's cache inside
`Facade` is `TTLCache` with a single key, by `INSTANCE`. In `Facade` a discovery is one read
of the schema at some instant of the call; `Discovery` and `Sampling` take that
read apart and show what a torn one may return.

### Conventions

- **Names** are sequences of segments: `orders.total` is `<<"orders", "total">>`
  and `endswith("." + name)` is a strict suffix. Sources with dots in their own
  name are exercised in the runs about them and left out of the run
  `answers`, since two of them can spell the same field (section 4).
- **Predicates** are sequences of filters in document order, each with the path
  of operators above it: the JSON tree without recursion, so that every module
  can be proved about.
- **Errors** are values: a step ends in a plan, a statement or the name of the
  exception the code raises, and where several would apply the first in the
  code's order is the one.
- **Faulty forms.** Operators commented "Faulty form" are plausible bugs of the
  operator they stand beside, used by no specification. `PROJECT.json`
  (`mutants`) pairs each property with one of them: with the operator replaced
  by its faulty form, TLC finds the property violated.
- No module uses a recursive operator.

### Abstractions

- The limit on the size of an intent's JSON (100,000 characters) is
  `MaxWeight`, counted in name segments.
- Quoting, placeholder names and dialect spellings are functions of the clauses
  and left out; two statements are equal exactly when their clauses are.
- The secrets guard (a regular expression over serialised values) may refuse at
  the points where it is called; it is one of the errors a step may end in and
  has no states of its own.
- In `ReadSession` PostgreSQL's commit fails only when the connection is lost, and
  what psycopg's own exit then does is taken to be its close.
- The Jira search's result set is fixed while it is paged; what the service
  does with pages and tokens is free. The page size the client suggests is a
  hint the service may ignore. In `MCDiscovery` the page of Jira's fields is as
  large as the budget (`PageSize = MaxFields`), where the code reads all of
  them or refuses; `MCDiscoveryLapses` has the smaller page.
- Neo4j gives a property the type of the last node sampled, in no particular
  order. The model does so too; `TypesAgreed` is stated of MongoDB.
- Databases in `Answers` are small: a text contains no text but itself
  (`contains`, `$regex`), values that are ordered or added are there, sorting is
  stable and "any" rows are the first ones (`SRANDMEMBER` included), so that an
  answer is one sequence. What a backend makes of comparisons with absent values
  is left out, since the languages differ; tests of absence itself are in.
- Joins are evaluated with the conditions the SQL compiler writes. Walks from a
  node to one with the same label are not evaluated: Cypher's pattern would
  name both ends alike, and `LIMITATIONS.md:8` names graph self-traversals as
  unsupported, though the planner accepts them.
- A MongoDB `$project` of a field and of a path inside it, which the server
  refuses, does not occur in the instance. The time-out of `FT.SEARCH` is left
  out. Flux's columns of a window's own are not compared, and the text in which
  InfluxDB sends a value is not told apart from the value.
- A discovered hypertable has one time dimension, and a Redis source a key:
  sources without one are refused before anything is asked (`Answers` has one
  such source, for the compiler's own refusal).

## 3. Runs that pass

| run | what it shows | bounds, and why they are enough |
|---|---|---|
| `cache` | capacity, expiry, causes of loss, refinement of `FreshStore` | 3 keys for 2 places (eviction of another key and overwriting when full), lifetime 2 within 5 ticks (expiry, renewal and expiry again) |
| `answers` | `RegroundingStable`, `MeaningKept`, `NoGuess`, `JoinsInScope`, `AnswerAsPlanned`, `LimitTold`, `EditsShow` | six worlds. The shop: two tables and three relationships with and without a catalog, an ambiguous suffix, aliases, business terms whose conditions use other terms, predicates, aggregates, calculations, every wrong order of joins; and every relative date asked at midnight and noon around the ends of months for 200 days from three starts, among them a century year that is a leap year and one that is not; depth limit 12 as in the code. Sales, documents with an array, a nested path and an absent field; people and cities, a graph with walks of three relationships; loads, five points with two tags at the edges of hours, days and months, in InfluxDB and in TimescaleDB; six keys, one of each Redis type, and one source without key. Limits of one to three for one to five rows, so that pages, limits and the policy's bound all bite; 35,540 states |
| `client` | what reaches the backend, staleness of caches, edits | three schemas (a column renamed, a table dropped), two policies, two questions, two proposals at hand, one change, lifetime 1 within 3 ticks: enough for a proposal made before a change to be executed after it, for a cache to expire between the two reads of one call, and for proposals to be mixed. The questions' predicates stay below the depth limit (section 4) |
| `jira_search` | rows, tokens, termination | three issues, four tokens leading to any place, limits to one above the number of issues, two seconds |
| `read_session` | clean-up, translation, whole rows | seven backends, two columns with equal or different names, up to two rows, a driver that fails at every step, a connection lost on the way out, a stream that breaks off |
| `catalog_discovery` | genuine metadata, budgets that refuse | seven backends, a set of databases for each to migrate between, and up to two changes between any two statements; budgets of two sources and two fields, with databases below, at and above each |
| `sampled_discovery` | fields, types, edges | two documents of nested and conflicting entries in any order, two labels, one change |
| `mongo_session` | `AnswerComplete` | two documents, two changes of the collection around the two discoveries |
| `interpretation` | `ShownAllowed`, `RefinesGranted`, `TermsStrengthen`, `SessionConsistent`, `ToldOnce`, `Answered` | three providers, schemas of two and three sources with two shown at most, three attempts as in the code, three intents, one with a source the narrow policy withholds and one with a source there is not, policy changing twice: enough to compile under one policy, narrow it and ask again |

Where deadlock checking is off the system stops by design: a single call that
has returned.

The properties, in words:

- `LossHasCause`: an entry leaves the cache only expired, evicted from a full
  dict, or with all others. `AnswersFresh`: the cache implements `FreshStore`.
- `RegroundingStable`: planning a plan's IR again, under an empty catalog, gives
  the same IR. Everything `validate` and `execute` accept rests on it.
  `MeaningKept`: a row satisfies the grounded predicate exactly when it
  satisfies the asked one and the conditions of the business terms it uses,
  evaluated on rows. A relative date is evaluated by what its words mean (the
  month before the one of now, and so on, by calendar parts), while the plan has
  the two bounds that `time_interval` computed, so the property also says that
  every window is exact. `NoGuess`: a name is replaced only when it has a single
  reading. `JoinsInScope`: every ON clause joins a new table to those before it.
- `AnswerAsPlanned`: what the client returns is what the plan says, evaluated by
  itself on the rows of the database: related or walked to, unwound, filtered,
  grouped, aggregated, sorted, cut to the page, each output in a column of its
  name. It is the promise that "unsupported requests fail rather than becoming
  plausible but incorrect backend operations" (`docs/user_manual.md:11`), checked
  of five backends. Plans whose rows the plan does not settle (ungrouped fields
  of groups) are left out (`Settled`), and so are the places where the code is
  known to answer otherwise, `KnownToDiffer`, each named with its lines: the
  property says that there are no others. They are, for MongoDB, sorting by an
  alias before renaming (`SortsByRename`), a field sorted by twice
  (`SortsTwice`), outputs of one name (`NamesCollide`); for Neo4j and InfluxDB,
  dimensions that do not group (`GroupsLost`); for InfluxDB, points with several
  values (`ValuesApart`) and orders by columns Flux calls otherwise
  (`SortsByNoColumn`); and aggregates of nothing (`Empty`).
- `LimitTold`: a result that does not say `limit_reached` leaves no row out, and
  none is longer than its limit.
- `EditsShow`: every edit of a proposal's plan either changes the statement,
  which verification compares, or nothing the connector takes from the plan. A
  MongoDB plan moved to another collection is excepted (section 4).
- `ExecutionFresh`: the schema execution verifies against was the backend's own
  at some instant of that call. `SentAsReviewed`: what is sent is the statement
  of the proposal, within the policy in force. `EditsRejected`: a proposal whose
  IR or text was edited is never sent. `StaleBounded`: a schema planned against
  was the backend's no longer ago than a lifetime and a discovery.
  `UneditedAllowed`: while schema and policy stay, an unedited proposal is
  allowed.
- `FirstRows`: with a service whose responses continue where their page ended,
  the rows returned are the first of the result, up to the limit.
  `PagesReadOnce`: no token is carried by two requests. `Ends`: the search ends.
- `ConnectionsClosed`, `ErrorsTranslated`, `AnswersWhole`: no session leaves a
  connection open, lets an error of the driver's own through, or returns rows
  that lack a column. MySQL is excepted where its code differs: its rollback on
  a lost connection, and repeated column names, which it does not look for;
  InfluxDB's rows are excepted once its stream has broken off.
- `SourcesGenuine`, `RelationshipsGenuine`: every source, field and relationship
  of a discovered schema was in the database at some instant of the call.
  `NothingCut`: a schema of a database that stood still is all of it; budgets
  refuse and never cut.
- `FieldsOwned`, `TypesAgreed`, `EdgesUnambiguous`: what is inferred from samples
  belongs to the source sampled, holds of every document handed over in whatever
  order, and no relationship type sampled between several pairs of labels is
  taken for one of them.
- `AnswerComplete`: as long as the field keeps one type, a comparison with a
  moment misses no document, though documents come and go.
- `ShownAllowed`: of the schema the provider is shown allowed sources only, no
  relationship to another, within the budgets. `RefinesGranted`: the session's
  previous intent, which is in the payload too, names only sources that were
  allowed when it compiled. More cannot be said of the payload, and no document
  of the repository says more: the policy is consulted for the schema alone
  (`api.py:95-104`), while the catalog is shown as configured and the previous
  intent as remembered (`api.py:108-110`), so that a policy narrowed between two
  questions withholds nothing of either. `MCInterpretationNarrowed` (with
  `NothingWithheld`) shows it. Execution is not affected: the planner refuses
  what the policy in force withholds. `TermsStrengthen`: a source a business term of the
  question stands for is left out for one without only if that one shares more
  words with the question. `SessionConsistent`: the intent a session refines next
  and the plan it shows belong to one question that compiled. `ToldOnce`: the
  request of an attempt has each instruction once, though one list of messages
  serves all attempts and a provider adds to it. `Answered`: every question
  comes to an end.

## 4. Disagreements

Each of these checks one statement of the repository's documents or comments,
and TLC refutes it by the behaviour of the code. Three are runs of the project,
with the statements quoted in `PROJECT.json` (`findings`):

| run | statement | what happens |
|---|---|---|
| `schema_drift` | errors are the project's (`exceptions.py:1`) | `compile` plans against one read of the schema and renders against another; in between the cache may expire, and rendering ends in a bare `KeyError` or `StopIteration` |
| `jira_edits` | edited IRs are rejected (`connectors/base.py:24`) | only language, text and parameters are compared, and a JQL text contains no limit |
| `mongo_drift` | drift of the schema fails safely (`docs/user_manual.md:141`) | the second discovery's types decide how a bound is sent, and are not compared with the verified ones |

The others are instances kept beside the runs, to be checked when the code they
are about changes (with `-continue` where a configuration has several, so that
TLC goes on after the first violation):

| configuration, of module | statement | what happens |
|---|---|---|
| `MCAnswersLapses`, `MCAnswers` | unsupported constructs are refused, not discarded (`docs/user_manual.md:11`, `docs/adding_compilers.md:5`) | two outputs of one name are one key of a dict, and one is lost (`mongo.py:80-81`, `98`, `120`); with that excepted, the other cases of `KnownToDiffer` follow |
| `MCAnswersLapses`, `MCAnswers` | edited IRs are rejected (`connectors/base.py:24`) | a MongoDB pipeline does not name its collection, so that a plan moved to another one with the same fields has the same statement |
| `MCFacadeDeep`, `MCFacade` | a compiled proposal validates (`README.md:44`) | the depth of a predicate is checked before it is wrapped in further conjunctions (`planner.py:198`, `259-271`); at the limit its own validation refuses it |
| `MCGroundingLapses`, `MCGrounding` | self-joins are unsupported and fail before execution (`docs/maturity.md:19-23`) | a relationship from a table to itself passes `planner.py:125-141` and names the table twice |
| `MCGroundingLapses`, `MCGrounding` | grounding does not guess (`planner.py:81`) | two sources that spell one qualified field are one key of a dict (`planner.py:162`) |
| `ReadSessionLapses`, `ReadSession` | driver failures are translated (`docs/adding_connectors.md:31`) | the rollback in `finally` raises on a lost connection, past the handlers (`mysql.py:124`) |
| `ReadSessionLapses`, `ReadSession` | driver failures are translated (`docs/adding_connectors.md:31`) | an error after the first rows arrives as one more table of the CSV stream, and the reader takes it for rows (`influxdb.py:60-71`) |
| `MCDiscoveryLapses`, `MCDiscovery` | foreign keys are discovered (`docs/maturity.md:7-8`) | made-up names (`sqlite.py:88`) or names unique per table only (`postgres.py:106`) collide and refuse the whole schema |
| `MCDiscoveryLapses`, `MCDiscovery` | "Paginated bounded field metadata" (`docs/maturity.md:12`) | one page is read (`jira.py:57`) |
| `MCInterpretationDotted`, `MCInterpretation` | aliases strengthen relevance (`docs/architecture.md:5`) | the source of a candidate is taken to be its first segment (`retrieval.py:24`) |

## 5. Fairness

Two specifications state fairness.

- `JiraSearch`: weak fairness of the loop's own steps and of a request ending.
  Each request is made with a timeout (`httpx`), so it ends in a response or
  in a failure. Nothing is assumed of the clock or of the service's answers.
  `Ends` then rests on the tokens seen, of which there are finitely many.
- `Interpretation`: weak fairness of the steps of a question. Every call of a
  provider or a driver has a timeout. Questions being asked and policies being
  changed are not fair.

The other modules state safety only.

## 6. Proofs

Eight modules are checked by TLAPS with no omitted step. `PlannerProofs` is a
library of lemmas about `build_plan`, and `FacadeProofs` and `AnswersProofs`
extend it; `SchemaProofs` is about `TTLCache` and `Discovery`, `SessionProofs`
about `ReadSession`, and `AnswersProofs` about `Answers` and `MongoSession`. Each
follows the same course: an inductive invariant, a lemma for each action or group
of actions, and theorems that draw the checked property from the invariant.
Where a loop of the code runs over a list, what holds after each turn is shown
for the turn of a least counterexample (`LeastExists`): induction itself is out of
the provers' reach.

Nothing is assumed but the named `ASSUME`s of the modules they extend, which TLC
evaluates in the runs, and what the theorems themselves suppose. Where the
library relies on something it does not ensure, the theorem says so:

| hypothesis | of | why it is needed | where it is checked |
|---|---|---|---|
| `PlainNames` | `PlainTermsStrengthen` | retrieval takes a candidate's first segment for its source; `MCInterpretationDotted` refutes the property without it | the run's names are plain |
| `SpellingsApart` | `PlansDoNotGuess` | two sources may spell one qualified field; `MCGroundingLapses` | `ASSUME` of `MCAnswers` |
| `TermsApart` | `PlansReground`, `UneditedPass` | the planner looks up the columns joined by like any name (`planner.py:296-301`): with the catalog when it plans, without when it plans again | `ASSUME` of `MCAnswers` and of `MCFacade` |
| `PlansFit`, `ProposalFits` | `PlansReground`, `UneditedPass` | grounding may lengthen a question past the limits it was checked against; `MCFacadeDeep` | `ASSUME` of `MCAnswers`; the questions of `client` stay below |
| `Closed`, `Telling` (of a set of IRs) | `EditsCannotPass` | the plans that come up must have different statements; JQL's do not, and the run `jira_edits` refutes the property | `ASSUME` of `MCFacade`, for SQL |
| `WholePages` | `SourcesDiscovered`, `DiscoveredWhole` | one page of Jira's fields is read; `MCDiscoveryLapses` | `PageSize = MaxFields` in `MCDiscovery` |
| `KeysFit` | `RelationshipsDiscovered`, `DiscoveredWhole` | PostgreSQL's relationships are read up to a limit the rows are not compared with (`postgres.py:111`), so the key that decides between two of one name may be cut | `ASSUME` of `MCDiscovery` |

- **TTLCache** (`CacheInvariant`, `CacheTyped`, `CacheExpiryBounded`,
  `CacheImplementsFreshStore`, `CacheLossHasCause`). The inductive invariant is
  `TypeOK /\ BoundedDict /\ ExpiryBounded`. Distinctness of keys is what makes
  "the entry of a key" a function, and the bound on expiry is what makes the
  store time in the refinement mapping, `expires - TTL`, a time that has passed.
  Lemmas say what removing expired entries, evicting and assigning do to a
  well-formed sequence; refinement is then shown action by action.
- **Discovery** (`SourcesDiscovered`, `RelationshipsDiscovered`,
  `DiscoveredWhole`). The database may change between any two statements, so the
  invariants say of each list in hand which of the databases since the call began
  it was read from. `GenuineInv`: a source was listed from one of them, and
  its columns are all the columns its table had in one of them. Most connectors
  read the columns of a table by themselves and refuse too many; HANA reads the
  columns of all tables at once, up to a limit. There it takes counting
  (`Fibres`): rows that fill the limit are more than the allowed tables may have
  together, so that either a table has too many and the schema is refused, or the
  limit cut nothing.
  `EdgesInv`: a relationship that is no foreign key of one pair of columns, made
  of a composite key or of two constraints of one name, shares its name with
  another (`Apart`), so that relationships which are acceptable together are all
  declared keys (`Sound`). `WholeInv`, of a call during which the database stands
  still: the tables listed, the columns, the keys and the time dimensions read so
  far are all there are (`Complete`), none dropped by a budget.
- **JiraSearch** (`SearchTyped`, `SearchReturnsFirstRows`,
  `SearchReadsPagesOnce`). `FirstRows` is not inductive: it needs that, between
  requests, the rows in hand are the issues before the place of the token
  (`InStep`), and `PagesReadOnce` needs that the tokens carried by requests are
  the seen ones, less the one in hand (`TokensSpent`).
- **Facade** (`FacadeTyped`, `ExecutesOnFreshSchema`, `SendsAsReviewed`,
  `StalenessBounded`, `UneditedPass`, `EditsCannotPass`). The invariant says of the
  call in progress what has been read: after discovery in an execution, the
  schema is one the backend had since the call began, and the statement about to
  be sent is the proposal's, of an IR the planner grounded within the policy. The
  planner enters through lemmas: a plan without an error names allowed sources
  only and has a limit no larger than the policy's, whatever the schema, the
  catalog and the intent are. Execution does not use the cache; staleness does:
  each entry's schema was the backend's within a discovery before the entry was
  made, and an entry that is answered has not expired.
  For `UneditedPass`, `GenuineInv` adds that a proposal with the content it was
  issued with was made as it says: its IR is a plan of some question under its
  schema and policy, and its statement the compilation of that. Verification
  then plans a plan again, and `PlansAgain` says what comes of it. For
  `EditsCannotPass`, `EditsInv(irs)` says that however proposals are edited or
  mixed, their text was issued with one of the IRs `irs`, and the planner, given
  an edited IR that is one of them, returns it or refuses; where statements tell
  the IRs apart, the comparison of statements then compares the IRs.
- **ReadSession** (`SessionsGiveUpConnections`, `SessionsTranslateErrors`,
  `SessionsAnswerWhole`). One invariant relates the step a session is at to the
  connection, to the error in hand and to the rows fetched so far: the rows are
  a prefix of the statement's, each with every column, and whatever step fails,
  the way out passes the close.
- **MongoSession** (`MongoAnswersComplete`). What matters is said of the two
  discoveries: a type is recorded only if a sample had it, and while the field
  keeps one type no document has another, so that the bound is sent as the type
  the documents have.
- **Sampling** (`SampledFieldsOwned`, `SampledTypesAgreed`,
  `SampledEdgesUnambiguous`). The fields made so far are those of the entries
  met so far, and the type of each is the merge of the types met, however many
  were met and in whatever order; a relationship kept speaks for all the edges
  walked of its type.
- **Interpretation** (`ProviderShownAllowed`, `SessionKeepsTogether`,
  `ProviderToldOnce`, `PlainTermsStrengthen`, `ProviderRefinesGranted`). The schema
  shown is a cut of the ranking; the lemmas say what sorting and cutting keep.
  `RefinesGranted` needs a history variable, `granted`, the policy the previous
  intent compiled under, and that the payload holds what the session remembers
  while a question is under way (`GrantedInv`). `ToldOnce` rests on the
  messages in hand being the opening ones and one repair for each attempt made,
  and on what each provider's way of making its request does with one more.
  `PlainTermsStrengthen` supposes names of one segment (`PlainNames`), since
  retrieval takes a candidate's first segment for its source: with dotted names
  the property is false (section 4). The run's names are plain.
- **Answers** (`StatementsJoinInScope`, `PlansDoNotGuess`, `PlansReground`,
  `EditsShowInStatements`). The invariant keeps that an accepted plan is the
  grounding of an intent nothing is wrong with, and a statement the compilation
  of that. `JoinsInScope` then compares two loops over the relationships: the
  planner's walk, which keeps a set of sources reached, and the compiler's, which
  appends the end of each relationship that is not listed yet. After k joins the
  list holds exactly the sources reached after k relationships (`TablesListed`).
  `PlansDoNotGuess` goes through every list of names the planner checks
  (`NamesResolved`): a name that passes has one candidate, so one key of the
  fields table; and a key is one field of one source where the selected fields
  are spelled apart.
  `PlansReground` is `PlansAgain` (`PlannerProofs`), of any intent and schema: a
  plan is accepted when it is planned again, with no catalog and at any later
  time, and grounds to itself. A grounded name is a key of the fields table, and
  keys resolve to themselves; a grounded predicate is one operator whose parts
  are grounded, dates already bounds, so that nothing is expanded, computed or
  wrapped a second time; and each of the planner's checks, which passed on the
  question, passes on the plan: those on names because grounding is the identity
  on what it made, those on relationships because the walk is the same, those on
  aggregates and orders because outputs keep their names.
  `EditsShowInStatements` is about what the connector takes from a plan beside
  its statement: the limit, and the tables of a relational one. A statement tells
  the limit (of MongoDB's stages, `$limit` is the only one of its kind) and, where
  relational, the tables in FROM in their order; and replanning an edited IR
  spares its sources and relationships, so that they are what the statement says.

The shapes `WellFormed`, `WellFormedSchema` and `WellFormedCatalog` (`Planner`),
supposed by `AsksAssumption` and `FacadeAssumption`, are what pydantic validates:
lists are lists, at least one source is named, a schema's sources and fields have
names of their own. `DiscoveryAssumption` says what a catalog ensures: tables have
different names, and so have the columns of one.

Model-checked only:

- liveness (`Ends`, `Answered`), which is beyond the prover under fairness;
- `MeaningKept`, `AnswerAsPlanned` and `LimitTold`, which compare with reference
  definitions that fold over a tree or a table: what a fold computes for every
  input cannot be proved here.

## 7. What is not modelled

- Jira's answers: a JQL text is compared with nothing but itself; the search is
  modelled as paging over a result.
- Quoting, escaping and placeholder names of all compilers, which are functions
  of what is modelled.
- Plan nodes, confidences and provenance describe a plan and decide nothing.
- Keys, endpoints and the vendors' clients of the providers, and the mock:
  `Interpretation` takes any outcome of a request.
- The static connector, protocols and plug-ins have no state; InfluxDB's discovery
  returns its configuration.
- Serialisation, field patterns and coercion are pydantic's. Types and
  validators are modelled where a modelled part depends on them.
- Configuration, command line and evaluation read files, call the client once,
  and print or count.
- HANA verifies and then refuses to execute.
- How the worlds compose further: a client asked through a session while its
  cache expires is two modules, `Interpretation` and `Facade`, which share no
  state but the policy.

## 8. Plan

Written so far, in this order: cache and its abstract store; dates; planner, SQL
compiler and grounding; client; Jira; sessions; discovery; interpretation;
proofs of the cache, the search and the client's two main properties; the
compilers of documents, graphs, series and keys with their backends and answers;
normalisation; the remaining sessions and discoveries; providers; proofs of the
sessions, the sampled discoveries, interpretation, staleness, and the planner's
joins and names; proofs of planning again, of edits and of the catalog
discoveries.

What could still be modelled: Jira's answers beside the JQL compiler, and a
session's questions running into the client's cache and changing schema.

What could still be proved: the limit's half of `LimitTold`, that no result is
longer than its limit; and `EditsRejected` up to IRs that mean the same, without
`Telling`, which holds of the plans that come up but not of all: dimensions that
are shown by default and dimensions that are asked for make one SELECT list.

## 9. Running it

    tlc -workers 2 -config MCTTLCache.cfg MCTTLCache      # any run of PROJECT.json
    tlapm SchemaProofs.tla                                # any proof module
