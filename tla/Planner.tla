------------------------------ MODULE Planner -------------------------------
(***************************************************************************)
(* core/planner.py, build_plan: grounding a typed intent in a schema, a    *)
(* policy, a catalog and a reference time, or refusing it.                 *)
(*                                                                         *)
(* A name is the sequence of its dot-separated segments, so a field of     *)
(* source s is s \o f, and k.endswith("." + name) is a strict suffix.  A   *)
(* predicate is the sequence of its filters in document order, each with   *)
(* the path of operators above it: the JSON tree without recursion.        *)
(***************************************************************************)
EXTENDS Calendar, Sequences, FiniteSets, SequencesExt

CONSTANTS MaxDepth,   \* 12: deepest predicate the planner walks (planner.py:198)
          MaxTerms,   \* 100: terms of one predicate (models.py:112)
          MaxMembers, \* 1000: values of a membership test (planner.py:218)
          MaxWeight   \* 100000 characters of JSON, counted in name segments here

ASSUME BoundsAssumption ==
    {MaxDepth, MaxTerms, MaxMembers, MaxWeight} \subseteq Nat \ {0}

NoName   == <<>>      \* Python's None where a name is optional
Star     == <<"*">>
NoFilter == [field |-> NoName, op |-> "=", value |-> [list |-> FALSE, items |-> <<>>]]

Scalar(kind, val) == [kind |-> kind, val |-> val]
One(kind, val)    == [list |-> FALSE, items |-> <<Scalar(kind, val)>>]
Many(items)       == [list |-> TRUE, items |-> items]
Null              == One("none", 0)

IsKind(value, kind) == ~value.list /\ value.items[1].kind = kind

\* The catalog of a re-validation.
EmptyCatalog == {}

-----------------------------------------------------------------------------
(* Predicates                                                              *)

Leaf(f) == [path |-> <<>>, test |-> f]

\* The terms of an operator: term k goes below step <<op, k>>.
Under(op, k, tree) ==
    [i \in DOMAIN tree |-> [tree[i] EXCEPT !.path = <<[op |-> op, at |-> k]>> \o @]]

Combine(op, trees) == FlattenSeq([k \in DOMAIN trees |-> Under(op, k, trees[k])])

IsCompound(tree) == tree[1].path # <<>>

-----------------------------------------------------------------------------
(* What the data models are validated for: lists are lists, their items    *)
(* have the fields of their class, names in a schema are unique.           *)

Lists == {"sources", "projections", "dimensions", "metrics", "filters", "predicate", "sort",
          "joins", "unwind", "calculations"}

Fielded(items, fields) == \A x \in ToSet(items) : fields \subseteq DOMAIN x

Settings == {"operation", "limit", "offset", "distinct", "traversal", "window",
             "unresolved", "ambiguous", "hinted"}

FilterFields == {"field", "op", "value"}

WellFormed(intent) ==
    /\ Lists \cup Settings \subseteq DOMAIN intent
    /\ \A list \in Lists : intent[list] \in Seq(ToSet(intent[list]))
    /\ intent.sources # <<>>
    /\ Fielded(intent.projections, {"field", "alias"})
    /\ Fielded(intent.metrics, {"field", "agg", "alias"})
    /\ Fielded(intent.filters, FilterFields)
    /\ \A leaf \in ToSet(intent.predicate) :
          /\ {"path", "test"} \subseteq DOMAIN leaf /\ leaf.path \in Seq(ToSet(leaf.path))
          /\ FilterFields \subseteq DOMAIN leaf.test
    /\ Fielded(intent.sort, {"field"})
    /\ Fielded(intent.calculations, {"left", "right", "alias"})
    /\ {"field", "alias"} \subseteq DOMAIN intent.window

WellFormedSchema(schema) ==
    /\ IsFiniteSet(schema.sources)
    /\ \A s \in schema.sources :
          /\ IsFiniteSet(s.fields)
          /\ \A t \in schema.sources : t.name = s.name => t = s
          /\ \A f, g \in s.fields : f.name = g.name => f = g

WellFormedCatalog(catalog) ==
    /\ IsFiniteSet(catalog)
    /\ \A c \in catalog : /\ c.candidates \in Seq(ToSet(c.candidates))
                          /\ FilterFields \subseteq DOMAIN c.condition

-----------------------------------------------------------------------------
(* What an intent may refer to                                             *)

SourceNames(schema) == {s.name : s \in schema.sources}
Source(schema, n)   == CHOOSE s \in schema.sources : s.name = n
EdgeNames(schema)   == {e.name : e \in schema.edges}
Edge(schema, n)     == CHOOSE e \in schema.edges : e.name = n

\* fields: every qualified field of the selected sources with its type.  Two
\* sources can spell the same qualified name; the dict keeps the later one's.
Owners(intent, schema, key) ==
    {i \in DOMAIN intent.sources :
        \E f \in Source(schema, intent.sources[i]).fields : intent.sources[i] \o f.name = key}

FieldTable(intent, schema) ==
    LET keys == UNION {{intent.sources[i] \o f.name :
                           f \in Source(schema, intent.sources[i]).fields} :
                       i \in DOMAIN intent.sources}
        TypeOf(key) ==
            LET i == CHOOSE i \in Owners(intent, schema, key) :
                         \A j \in Owners(intent, schema, key) : j <= i
            IN (CHOOSE f \in Source(schema, intent.sources[i]).fields :
                    intent.sources[i] \o f.name = key).type
    IN  [key \in keys |-> TypeOf(key)]

\* List comprehensions: the names among those of a set, the names there are.
Among(names, S) == FlattenSeq([i \in DOMAIN names |-> IF names[i] \in S THEN <<names[i]>> ELSE <<>>])
Present(names)  == Among(names, ToSet(names) \ {NoName})

Aliases(intent) ==
    [i \in DOMAIN intent.metrics |-> intent.metrics[i].alias]
    \o [i \in DOMAIN intent.calculations |-> intent.calculations[i].alias]
    \o Present([i \in DOMAIN intent.projections |-> intent.projections[i].alias])
    \o Present(<<intent.window.alias>>)

Concepts(catalog, name) == {c \in catalog : name = c.name \/ name \in c.aliases}

\* Faulty form: the first of several fields that end in the name will do.
CandidatesFirstMatch(name, fields, catalog) ==
    LET matches == {k \in DOMAIN fields : IsStrictSuffix(name, k)}
    IN  IF name \in DOMAIN fields THEN <<name>>
        ELSE IF matches = {} THEN <<>>
        ELSE <<CHOOSE k \in matches : TRUE>>

\* The candidates a name has: the catalog's for a business term, the schema's
\* otherwise (exactly that key, or every key ending in it).
Candidates(name, fields, catalog) ==
    IF Concepts(catalog, name) # {}
    THEN LET c == CHOOSE c \in Concepts(catalog, name) : TRUE
             known == Among(c.candidates, DOMAIN fields \ c.deprecated)
         IN  IF c.preferred \in ToSet(known) THEN <<c.preferred>> ELSE known
    ELSE IF name \in DOMAIN fields THEN <<name>>
    ELSE SetToSeq({k \in DOMAIN fields : IsStrictSuffix(name, k)})

NameError(name, fields, catalog) ==
    LET n == Len(Candidates(name, fields, catalog))
    IN  CASE Cardinality(Concepts(catalog, name)) > 1 -> "AmbiguityError"
          [] n > 1 -> "AmbiguityError"
          [] n = 0 -> "ValidationError"
          [] OTHER -> "none"

\* resolve, for a name that has no error.
Resolve(name, fields, catalog) == Candidates(name, fields, catalog)[1]

-----------------------------------------------------------------------------
(* Refusals, in the order the code finds them                              *)

\* The first error of a sequence of outcomes.
FirstError(outcomes) ==
    LET k == SelectInSeq(outcomes, LAMBDA e : e # "none")
    IN  IF k = 0 THEN "none" ELSE outcomes[k]

OrElse(error, next) == IF error # "none" THEN error ELSE next

Refuse(condition, error) == IF condition THEN error ELSE "none"

IsAggregate(intent) == intent.metrics # <<>>
HasWindow(intent)   == intent.window.field # NoName
Traverses(intent)   == intent.traversal.rel # NoName

\* Capabilities the intent needs and the connector lacks.
Unsupported(intent, caps) ==
    \/ intent.joins # <<>> /\ ~caps.joins
    \/ (intent.metrics # <<>> \/ intent.dimensions # <<>>) /\ ~caps.aggregation
    \/ Traverses(intent) /\ ~caps.graph_traversal
    \/ HasWindow(intent) /\ ~caps.time_series
    \/ intent.unwind # <<>> /\ ~caps.arrays
    \/ intent.calculations # <<>> /\ ~caps.calculations
    \/ intent.distinct /\ ~caps.distinct
    \/ intent.projections # <<>> /\ ~caps.projection
    \/ intent.sort # <<>> /\ ~caps.sorting
    \/ intent.offset # 0 /\ ~caps.offsets

FieldsOf(items) == [i \in DOMAIN items |-> items[i].field]

\* Every name an intent writes down, the stand-in for its JSON.
Mentions(intent) ==
    intent.sources \o FieldsOf(intent.projections) \o intent.dimensions
    \o FieldsOf(intent.metrics) \o FieldsOf(intent.filters)
    \o [i \in DOMAIN intent.predicate |-> intent.predicate[i].test.field]
    \o FieldsOf(intent.sort) \o intent.unwind \o <<intent.window.field>>
    \o [i \in DOMAIN intent.calculations |-> intent.calculations[i].left]
    \o [i \in DOMAIN intent.calculations |-> intent.calculations[i].right]

Weight(intent) == FoldLeft(LAMBDA sum, n : sum + Len(n), 0, Mentions(intent))

\* Size, completeness, sources, policy bounds and capabilities, in order.
RequestChecks(intent, schema, caps, policy) == <<
    Refuse(Weight(intent) > MaxWeight, "PolicyViolation"),
    Refuse(intent.ambiguous, "AmbiguityError"),
    Refuse(intent.unresolved, "ValidationError"),
    Refuse(intent.hinted, "UnsupportedCapabilityError"),
    Refuse(~IsInjective(intent.sources), "PlanningError"),
    Refuse(~(ToSet(intent.sources) \subseteq SourceNames(schema)), "ValidationError"),
    Refuse(~(ToSet(intent.sources) \subseteq policy.allowed), "PolicyViolation"),
    Refuse(intent.limit > policy.max_rows \/ intent.offset > policy.max_offset,
           "PolicyViolation"),
    Refuse(Len(intent.joins) > policy.max_joins, "PolicyViolation"),
    Refuse(Unsupported(intent, caps), "UnsupportedCapabilityError"),
    Refuse(Traverses(intent) /\ intent.traversal.max_depth > policy.max_graph_depth,
           "PolicyViolation"),
    Refuse(intent.operation = "aggregate" /\ ~IsAggregate(intent), "PlanningError"),
    Refuse(intent.operation = "traverse" /\ ~Traverses(intent), "PlanningError") >>

RequestError(intent, schema, caps, policy) ==
    FirstError(RequestChecks(intent, schema, caps, policy))

\* The relationships in the order the loop visits them.
EdgesWalked(intent) ==
    [i \in DOMAIN intent.joins |-> intent.joins[i].rel]
    \o Present(<<intent.traversal.rel>>)

Ends(schema, rel) == {Edge(schema, rel).source, Edge(schema, rel).target}

\* Sources reached before the k-th relationship.
Involved(intent, schema, k) ==
    {intent.sources[1]} \cup UNION {Ends(schema, EdgesWalked(intent)[i]) : i \in 1..k - 1}

\* Faulty form: a relationship may start anywhere.
EdgeErrorAtUnanchored(intent, schema, k) ==
    IF EdgesWalked(intent)[k] \notin EdgeNames(schema) THEN "ValidationError"
    ELSE Refuse(~(Ends(schema, EdgesWalked(intent)[k]) \subseteq ToSet(intent.sources)),
                "PlanningError")

\* Each relationship must touch what is already reached and end in selected
\* sources.
EdgeErrorAt(intent, schema, k) ==
    IF EdgesWalked(intent)[k] \notin EdgeNames(schema) THEN "ValidationError"
    ELSE LET ends == Ends(schema, EdgesWalked(intent)[k])
         IN  Refuse(\/ ends \cap Involved(intent, schema, k) = {}
                    \/ ~(ends \subseteq ToSet(intent.sources)), "PlanningError")

EdgeError(intent, schema) ==
    LET walked == EdgesWalked(intent)
        first  == SelectInSeq(walked, LAMBDA rel : rel \notin EdgeNames(schema))
        known  == IF first = 0 THEN Len(walked) ELSE first
        loop   == FirstError([k \in 1..known |-> EdgeErrorAt(intent, schema, k)])
    IN  IF loop # "none" THEN loop
        ELSE Refuse(Involved(intent, schema, Len(walked) + 1) # ToSet(intent.sources),
                    "UnsupportedCapabilityError")
-----------------------------------------------------------------------------
(* Filters                                                                 *)

TextKinds    == {"str", "time"}
NumericKinds == {"int", "float"}
IsText(value) == ~value.list /\ value.items[1].kind \in TextKinds

\* The scalar types a field of some type compares with.
Comparable(type, scalar) ==
    \/ scalar.kind = "none"
    \/ type \in {"array", "object", "unknown"}
    \/ type \in {"integer", "number"} /\ scalar.kind \in NumericKinds
    \/ type = "boolean" /\ scalar.kind = "bool"
    \/ type \in {"string", "datetime"} /\ scalar.kind \in TextKinds

RelativeError(type, value) ==
    IF type \notin {"datetime", "unknown"} \/ ~IsText(value) THEN "ValidationError"
    ELSE Refuse(value.items[1].val \notin Expressions, "PlanningError")

\* The type rules of one filter on a field of the given type.
TypeError(op, value, type) ==
    IF op = "relative_time" THEN RelativeError(type, value)
    ELSE Refuse(
        \/ op \in {"in", "not_in"} /\ ( \/ ~value.list
                                       \/ value.items = <<>>
                                       \/ Len(value.items) > MaxMembers
                                       \/ \E i \in DOMAIN value.items : value.items[i].kind = "none")
        \/ op \notin {"in", "not_in"} /\ value.list
        \/ op \in {"exists", "is_null"} /\ ~IsKind(value, "bool")
        \/ ~value.list /\ IsKind(value, "none") /\ op \notin {"=", "!="}
        \/ op = "contains" /\ (type \notin {"string", "array", "unknown"} \/ ~IsText(value))
        \/ /\ op \notin {"exists", "is_null"}
           /\ \E i \in DOMAIN value.items : ~Comparable(type, value.items[i]),
        "ValidationError")

FilterError(f, fields, catalog) ==
    LET e == NameError(f.field, fields, catalog)
    IN  IF e # "none" THEN e
        ELSE TypeError(f.op, f.value, fields[Resolve(f.field, fields, catalog)])

\* The walk over a predicate refuses the first leaf that is too deep or wrong.
PredicateError(tree, fields, catalog) ==
    FirstError([i \in DOMAIN tree |->
        IF Len(tree[i].path) > MaxDepth THEN "PolicyViolation"
        ELSE FilterError(tree[i].test, fields, catalog)])

\* A relative date becomes an and-node of its two bounds.
GroundLeaf(leaf, fields, catalog, now) ==
    LET f     == leaf.test
        field == Resolve(f.field, fields, catalog)
        Bound(k, op, instant) ==
            [path |-> Append(leaf.path, [op |-> "and", at |-> k]),
             test |-> [field |-> field, op |-> op, value |-> One("time", instant)]]
    IN  IF f.op = "relative_time"
        THEN LET w == TimeInterval(f.value.items[1].val, now)
             IN  <<Bound(1, ">=", w.start), Bound(2, "<", w.end)>>
        ELSE <<[leaf EXCEPT !.test.field = field]>>

GroundTree(tree, fields, catalog, now) ==
    FlattenSeq([i \in DOMAIN tree |-> GroundLeaf(tree[i], fields, catalog, now)])

\* Faulty form: the terms are wrapped even when they are one operator already.
ConjunctionRewrapped(terms) == IF terms = <<>> THEN <<>> ELSE Combine("and", terms)

\* Lines 259-271: the filters and the predicate under one conjunction, unless
\* there is only one term and it is an operator already.
Conjunction(terms) ==
    IF terms = <<>> THEN <<>>
    ELSE IF Len(terms) = 1 /\ IsCompound(terms[1]) THEN terms[1]
    ELSE Combine("and", terms)

GroundedTerms(intent, fields, catalog, now) ==
    [i \in DOMAIN intent.filters |->
        GroundTree(<<Leaf(intent.filters[i])>>, fields, catalog, now)]
    \o IF intent.predicate = <<>> THEN <<>>
       ELSE <<GroundTree(intent.predicate, fields, catalog, now)>>

-----------------------------------------------------------------------------
(* Business conditions                                                     *)

IsCountAll(m) == m.field = Star /\ m.agg = "count"

\* The two fields a relationship equates.
JoinKeys(schema, rel) ==
    LET e == Edge(schema, rel)
    IN  <<e.source \o e.source_field, e.target \o e.target_field>>

Operands(calculation) == <<calculation.left, calculation.right>>

\* Every name passed to resolve, the conditions' own fields aside.
ResolvedNames(intent, schema) ==
    LET Written(items) == {x.field : x \in ToSet(items)}
    IN  UNION {
            Written(intent.projections), ToSet(intent.dimensions),
            {m.field : m \in {x \in ToSet(intent.metrics) : ~IsCountAll(x)}},
            Written(intent.filters), {x.test.field : x \in ToSet(intent.predicate)},
            Written(intent.sort) \ ToSet(Aliases(intent)), ToSet(intent.unwind),
            UNION {ToSet(Operands(c)) : c \in ToSet(intent.calculations)},
            {intent.window.field} \ {NoName},
            UNION {ToSet(JoinKeys(schema, j.rel)) : j \in ToSet(intent.joins)} }

ConditionsOf(names, catalog) ==
    {c.condition : c \in {d \in catalog : /\ d.condition # NoFilter
                                         /\ \E n \in names : d \in Concepts(catalog, n)}}

\* Faulty form: conditions reached through other conditions are not collected.
ConditionsDirect(intent, schema, catalog) ==
    ConditionsOf(ResolvedNames(intent, schema), catalog)

\* The list comprehension of line 307 runs over semantic_conditions while its
\* own resolve calls extend it, so a condition stated over another business
\* term brings that term's condition along.
Conditions(intent, schema, catalog) ==
    LET closure[n \in 0..Cardinality(catalog)] ==
            IF n = 0 THEN ConditionsOf(ResolvedNames(intent, schema), catalog)
            ELSE closure[n - 1] \cup ConditionsOf({c.field : c \in closure[n - 1]}, catalog)
    IN  closure[Cardinality(catalog)]

\* Lines 305-308.
WithConditions(original, extra) ==
    IF extra = <<>> THEN original
    ELSE Combine("and", (IF original = <<>> THEN <<>> ELSE <<original>>) \o extra)
-----------------------------------------------------------------------------
(* The plan                                                                *)

NumericTypes == {"integer", "number"}

\* Line 252: an aggregate's field must exist, and be numeric to be summed.
MetricError(m, fields, catalog) ==
    IF IsCountAll(m) THEN "none"
    ELSE IF NameError(m.field, fields, catalog) # "none"
    THEN NameError(m.field, fields, catalog)
    ELSE Refuse(/\ m.agg \in {"sum", "avg"}
                /\ fields[Resolve(m.field, fields, catalog)] \notin NumericTypes,
                "ValidationError")

Each(seq, Error(_)) == FirstError([i \in DOMAIN seq |-> Error(seq[i])])

\* Names whose fields do not have one of the given types.  All names of a kind
\* are resolved before any type is looked at.
WrongType(names, types, fields, catalog) ==
    Refuse(\E n \in names : fields[Resolve(n, fields, catalog)] \notin types, "ValidationError")

\* A join is on keys the schema gives, which are names to resolve.
JoinError(schema, rel, fields, catalog) ==
    IF NoName \in {Edge(schema, rel).source_field, Edge(schema, rel).target_field}
    THEN "ValidationError"
    ELSE Each(JoinKeys(schema, rel), LAMBDA n : NameError(n, fields, catalog))

\* Names, types and keys, lines 162-309: the k-th thing that may be wrong.
Checks == 16

GroundingCheck(k, intent, schema, fields, catalog) ==
    LET aliases    == ToSet(Aliases(intent))
        groups     == {Resolve(n, fields, catalog) : n \in ToSet(intent.dimensions)}
        terms      == Len(intent.filters) + (IF intent.predicate = <<>> THEN 0 ELSE 1)
        conditions == SetToSeq(Conditions(intent, schema, catalog))
        Named(n)   == NameError(n, fields, catalog)
    IN  CASE k = 1 -> Refuse(~IsInjective(Aliases(intent)) \/ \E a \in aliases : Len(a) > 1,
                             "PlanningError")
          [] k = 2 -> Each(FieldsOf(intent.projections), Named)
          [] k = 3 -> Each(intent.dimensions, Named)
          [] k = 4 -> Each(intent.metrics, LAMBDA m : MetricError(m, fields, catalog))
          [] k = 5 -> Refuse(/\ IsAggregate(intent)
                             /\ \E n \in ToSet(FieldsOf(intent.projections)) :
                                    Resolve(n, fields, catalog) \notin groups,
                             "PlanningError")
          [] k = 6 -> Each(intent.filters, LAMBDA f : FilterError(f, fields, catalog))
          [] k = 7 -> PredicateError(intent.predicate, fields, catalog)
          [] k = 8 -> Each(FieldsOf(intent.sort),
                           LAMBDA n : IF n \in aliases THEN "none" ELSE Named(n))
          [] k = 9 -> Refuse(/\ IsAggregate(intent)
                             /\ \E n \in ToSet(FieldsOf(intent.sort)) \ aliases :
                                    Resolve(n, fields, catalog) \notin groups \cup aliases,
                             "PlanningError")
          [] k = 10 -> OrElse(Each(intent.unwind, Named),
                              WrongType(ToSet(intent.unwind), {"array"}, fields, catalog))
          [] k = 11 -> OrElse(Each(intent.calculations, LAMBDA x : Each(Operands(x), Named)),
                              WrongType(UNION {ToSet(Operands(x)) : x \in ToSet(intent.calculations)},
                                        NumericTypes, fields, catalog))
          [] k = 12 -> Refuse(/\ intent.calculations # <<>>
                              /\ IsAggregate(intent) \/ intent.dimensions # <<>>,
                              "UnsupportedCapabilityError")
          [] k = 13 -> IF HasWindow(intent)
                       THEN OrElse(Named(intent.window.field),
                                   WrongType({intent.window.field}, {"datetime", "unknown"},
                                             fields, catalog))
                       ELSE "none"
          [] k = 14 -> Each(intent.joins, LAMBDA j : JoinError(schema, j.rel, fields, catalog))
          [] k = 15 -> Each(conditions, LAMBDA f : FilterError(f, fields, catalog))
          \* QueryIR.model_validate: pydantic's own error, not a project error.
          [] k = 16 -> Refuse(\/ terms > MaxTerms
                              \/ (IF terms = 0 THEN 0 ELSE 1) + Len(conditions) > MaxTerms,
                              "ModelValidationError")

\* The first of them that is wrong.
GroundingError(intent, schema, catalog) ==
    LET fields   == FieldTable(intent, schema)
        Check(k) == GroundingCheck(k, intent, schema, fields, catalog)
        Stops(k) == k = Checks + 1 \/ Check(k) # "none"
        last == CHOOSE k \in 1..Checks + 1 : Stops(k) /\ \A j \in 1..k - 1 : ~Stops(j)
    IN  IF last = Checks + 1 THEN "none" ELSE Check(last)

GroundedPredicate(intent, schema, catalog, now) ==
    LET fields == FieldTable(intent, schema)
        conditions == SetToSeq(Conditions(intent, schema, catalog))
    IN  WithConditions(
            Conjunction(GroundedTerms(intent, fields, catalog, now)),
            [i \in DOMAIN conditions |-> GroundTree(<<Leaf(conditions[i])>>, fields, catalog, now)])

\* Items with the fields their names stand for.
Respelled(items, Name(_)) == [i \in DOMAIN items |-> [items[i] EXCEPT !.field = Name(items[i].field)]]

\* The IR: the intent with every name replaced by its field.
Ground(intent, schema, catalog, now) ==
    LET fields  == FieldTable(intent, schema)
        aliases == ToSet(Aliases(intent))
        R(n)    == Resolve(n, fields, catalog)
        Metric(m)      == IF IsCountAll(m) THEN m ELSE [m EXCEPT !.field = R(m.field)]
        Calculation(c) == [c EXCEPT !.left = R(c.left), !.right = R(c.right)]
    IN  [intent EXCEPT
            !.projections  = Respelled(intent.projections, R),
            !.dimensions   = [i \in DOMAIN intent.dimensions |-> R(intent.dimensions[i])],
            !.metrics      = [i \in DOMAIN intent.metrics |-> Metric(intent.metrics[i])],
            !.filters      = <<>>,
            !.predicate    = GroundedPredicate(intent, schema, catalog, now),
            !.sort         = Respelled(intent.sort, LAMBDA n : IF n \in aliases THEN n ELSE R(n)),
            !.unwind       = [i \in DOMAIN intent.unwind |-> R(intent.unwind[i])],
            !.calculations = [i \in DOMAIN intent.calculations |->
                                 Calculation(intent.calculations[i])],
            !.window       = IF HasWindow(intent)
                             THEN [intent.window EXCEPT !.field = R(intent.window.field)]
                             ELSE intent.window]

\* A plan, or the error met instead.
Planned(error, intent, schema, catalog, now) ==
    IF error = "none"
    THEN [error |-> "none", ir |-> Ground(intent, schema, catalog, now), reference |-> now]
    ELSE [error |-> error, ir |-> intent, reference |-> now]

\* The first error of build_plan, "none" when it returns a plan.
PlanError(intent, schema, caps, policy, catalog, now) ==
    OrElse(RequestError(intent, schema, caps, policy),
           OrElse(EdgeError(intent, schema), GroundingError(intent, schema, catalog)))

BuildPlan(intent, schema, caps, policy, catalog, now) ==
    Planned(PlanError(intent, schema, caps, policy, catalog, now), intent, schema, catalog, now)

-----------------------------------------------------------------------------
(* What a plan that is to be planned again must keep to                    *)

\* No business term is spelled like a key the schema joins by: the keys are
\* looked up like names (planner.py:296-301), but the plan does not hold them.
KeysApart(schema, catalog) ==
    \A e \in schema.edges :
        /\ Concepts(catalog, e.source \o e.source_field) = {}
        /\ Concepts(catalog, e.target \o e.target_field) = {}

\* Grounding has not made the question longer or its predicate deeper than the
\* planner takes: it spells names out and puts filters below operators.
WithinBounds(ir) ==
    /\ ~(Weight(ir) > MaxWeight)
    /\ \A leaf \in ToSet(ir.predicate) : ~(Len(leaf.path) > MaxDepth)
=============================================================================
