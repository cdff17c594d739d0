----------------------------- MODULE Grounding ------------------------------
(***************************************************************************)
(* What grounding must preserve.  An intent is planned under a catalog;    *)
(* later the plan's IR is planned again under the same schema with an      *)
(* empty catalog, as validate, execute and compile(QueryPlan) do           *)
(* (connectors/base.py:28-35, api.py:160-167).                             *)
(***************************************************************************)
EXTENDS Rows, Compilers

CONSTANTS Asks,      \* what a provider or a caller may ask, when, and of what
          Policy,
          ValuesOf(_, _) \* the values a field of a type may hold in a row, of
                     \* those that matter at an instant

\* What is asked has the shape the models are validated for.
ASSUME AsksAssumption ==
    \A a \in Asks : /\ a.backend \in Supported
                    /\ WellFormed(a.intent) /\ WellFormedSchema(a.schema)
                    /\ WellFormedCatalog(a.catalog)

VARIABLES ask,     \* [backend, intent, schema, store, catalog, now]: the question,
                   \* what it is asked of and when, and the business terms configured
          plan,    \* the first plan
          again,   \* the plan of the IR
          query,   \* the statement of the first plan
          phase

groundingVars == <<ask, plan, again, query, phase>>

intent  == ask.intent
schema  == ask.schema
now     == ask.now
catalog == ask.catalog

NoPlan == [error |-> "pending"]

InitGrounding ==
    /\ ask \in Asks
    /\ plan = NoPlan
    /\ again = NoPlan
    /\ query = NoPlan
    /\ phase = "asked"

Plan == /\ phase = "asked"
        /\ plan' = BuildPlan(intent, schema, Capabilities(ask.backend), Policy, catalog, now)
        /\ phase' = IF plan'.error = "none" THEN "planned" ELSE "refused"
        /\ UNCHANGED <<ask, again, query>>

Render == /\ phase = "planned"
          /\ query' = Compile(ask.backend, plan.ir, schema, Policy)
          /\ phase' = IF query'.error = "none" THEN "proposed" ELSE "refused"
          /\ UNCHANGED <<ask, plan, again>>

\* The IR is an intent of its own, with its reference time.
Replan == /\ phase = "proposed"
          /\ again' = BuildPlan(plan.ir, schema, Capabilities(ask.backend), Policy, EmptyCatalog,
                                plan.reference)
          /\ phase' = "replanned"
          /\ UNCHANGED <<ask, plan, query>>

NextGrounding == Plan \/ Render \/ Replan

-----------------------------------------------------------------------------

\* A plan that was accepted is accepted again and grounds to itself: without
\* this, an unedited proposal fails its own validation.  The code relies on it
\* without saying so (connectors/base.py:28-43).
RegroundingStable ==
    phase = "replanned" => again.error = "none" /\ again.ir = plan.ir

\* No business term is spelled like a key some schema joins by.
TermsApart == \A a \in Asks : KeysApart(a.schema, a.catalog)

\* Grounding makes no accepted question longer or deeper than the planner takes.
PlansFit ==
    \A a \in Asks :
        LET p == BuildPlan(a.intent, a.schema, Capabilities(a.backend), Policy, a.catalog, a.now)
        IN  p.error = "none" => WithinBounds(p.ir)

\* The fields of an intent's sources, each with its source.
FieldPlaces(i, s) ==
    {p \in {<<x, f>> : x \in ToSet(i.sources), f \in UNION {y.fields : y \in s.sources}} :
        p[2] \in Source(s, p[1]).fields}

\* The places a written name can stand for: the fields spelled exactly so, or
\* failing that the fields whose spelling ends so.
Bearers(i, s, name) ==
    LET exact == {p \in FieldPlaces(i, s) : p[1] \o p[2].name = name}
    IN  IF exact # {} THEN exact
        ELSE {p \in FieldPlaces(i, s) : IsStrictSuffix(name, p[1] \o p[2].name)}

\* Two fields of one question are never spelled the same.  The planner does not
\* see to it: its table keeps the later field (planner.py:162).
SpelledApart(i, s) ==
    \A p, q \in FieldPlaces(i, s) : p[1] \o p[2].name = q[1] \o q[2].name => p = q

SpellingsApart == \A a \in Asks : SpelledApart(a.intent, a.schema)

\* Grounding does not guess: in an accepted plan every written name that is not
\* a business term stood for one field of one source (planner.py:81, 187-192).
NoGuess ==
    plan.error = "none" =>
        \A n \in ResolvedNames(intent, schema) :
            Concepts(catalog, n) = {} => Cardinality(Bearers(intent, schema, n)) = 1

\* Every table of FROM is a selected source and every selected source is there;
\* each ON clause speaks of tables already joined, the new one among them: no
\* Cartesian product and no table out of scope, though the planner walks the
\* relationships as a set and the compiler as a list
\* (planner.py:125-141, sql.py:121-128).
JoinsInScope ==
    phase = "proposed" /\ ask.backend \in Relational =>
        LET q == query.statement
        IN  /\ ToSet(q.from) = ToSet(intent.sources)
            /\ \A k \in DOMAIN q.on :
                  LET named == {c.table : c \in q.on[k]}
                  IN  /\ named \subseteq ToSet(SubSeq(q.from, 1, k + 1))
                      /\ q.from[k + 1] \in named
                      /\ named \cap ToSet(SubSeq(q.from, 1, k)) # {}

\* docs/maturity.md:19-23 lists self-joins as unsupported and says unsupported
\* capabilities fail before execution: no statement lists a table twice.
NoSelfJoin ==
    phase = "proposed" /\ ask.backend \in Relational => IsInjective(query.statement.from)

-----------------------------------------------------------------------------
(* Meaning: the rows a predicate selects, evaluated over the operator tree *)

MonthIndex(i)   == i.year * 12 + i.month
QuarterIndex(i) == i.year * 4 + (i.month + 2) \div 3
WeekIndex(i)    == (DayNumber(i) + 3) \div 7

\* What a relative date means, said of an instant i, by the calendar parts of
\* the instant and with no boundary computed.
Means(value, i) ==
    CASE value \in {"last_quarter", "previous_quarter"} ->
             QuarterIndex(i) = QuarterIndex(now) - 1
      [] value = "this_quarter" -> QuarterIndex(i) = QuarterIndex(now) /\ Before(i, now)
      [] value = "this_month"   -> MonthIndex(i) = MonthIndex(now) /\ Before(i, now)
      [] value = "last_month"   -> MonthIndex(i) = MonthIndex(now) - 1
      [] value = "this_year"    -> i.year = now.year /\ Before(i, now)
      [] value = "last_year"    -> i.year = now.year - 1
      [] value = "this_week"    -> WeekIndex(i) = WeekIndex(now) /\ Before(i, now)
      [] value \in DOMAIN TrailingDays ->
             LET age == Minutes(now) - Minutes(i)
             IN  0 < age /\ age <= 1440 * TrailingDays[value]

Satisfies(actual, op, value) ==
    IF op = "relative_time" THEN Means(value.items[1].val, actual.val)
    ELSE Holds(actual, op, value)

\* What a row holds in a field of a type.
KindOf(type) == CASE type = "string"   -> "str"
                  [] type = "datetime" -> "time"
                  [] type = "array"    -> "array"
                  [] OTHER             -> "int"

\* A filter on a row, column[n] being the field the name n stands for.
Selects(f, row, column) == Satisfies(row[column[f.field]], f.op, f.value)

Selected(tree, row, column) ==
    Truth(tree, [i \in DOMAIN tree |-> Selects(tree[i].test, row, column)])

\* The business terms a question rests on: the smallest part of the catalog
\* holding every term it names and every term their conditions name.
TermsUsed ==
    LET Named(n) == Concepts(catalog, n)
        direct == UNION {Named(n) : n \in ResolvedNames(intent, schema)}
        Closed(S) == /\ direct \subseteq S
                     /\ \A c \in S : c.condition # NoFilter => Named(c.condition.field) \subseteq S
    IN  {c \in catalog : \A S \in SUBSET catalog : Closed(S) => c \in S}

\* The plan selects exactly the rows the question means: every filter, the
\* whole predicate, and the condition of every business term used, even when
\* it is reached only through another term's condition or only sorts the
\* result; and every relative date covers exactly the instants its words mean,
\* across year ends, quarters and leap days
\* (planner.py:32-63, 178-179, 205-215, 259-271, 305-308).
MeaningKept ==
    phase = "planned" =>
        LET fields     == FieldTable(intent, schema)
            conditions == {c.condition : c \in TermsUsed} \ {NoFilter}
            tests      == ToSet(intent.filters) \cup conditions
                          \cup {intent.predicate[i].test : i \in DOMAIN intent.predicate}
            column     == [n \in {t.field : t \in tests} |-> Resolve(n, fields, catalog)]
            grounded   == [n \in DOMAIN fields |-> n]
            looked     == {column[n] : n \in DOMAIN column}
                          \cup {plan.ir.predicate[i].test.field : i \in DOMAIN plan.ir.predicate}
            rows       == {r \in [looked -> UNION {ValuesOf(fields[k], now) : k \in looked}] :
                              \A k \in looked : r[k].kind = KindOf(fields[k])}
        IN  \A row \in rows :
                Selected(plan.ir.predicate, row, grounded) <=>
                    /\ \A f \in ToSet(intent.filters) \cup conditions : Selects(f, row, column)
                    /\ Selected(intent.predicate, row, column)
=============================================================================
