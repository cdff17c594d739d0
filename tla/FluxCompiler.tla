---------------------------- MODULE FluxCompiler -----------------------------
(***************************************************************************)
(* compilers/influx.py, InfluxCompiler.compile: the Flux pipeline of a     *)
(* plan.  The time range is not a filter in Flux but a stage of its own,   *)
(* so it is taken out of the plan's conjunction.                           *)
(***************************************************************************)
EXTENDS Planner

Unsupportable(q) ==
    \/ q.joins # <<>> \/ Traverses(q) \/ q.unwind # <<>> \/ q.calculations # <<>>
    \/ q.distinct \/ q.offset # 0 \/ q.projections # <<>> \/ Len(q.metrics) > 1

Measurement(q, schema) == Source(schema, q.sources[1])
Time(source)           == source.name \o source.time_field

Column(source, name) ==
    IF IsStrictPrefix(source.name, name) THEN SubSeq(name, Len(source.name) + 1, Len(name))
    ELSE name

\* flatten: the tests of a predicate that is nothing but conjunctions.
Conjoined(q) == [i \in DOMAIN q.predicate |-> q.predicate[i].test]
Conjunctive(q) ==
    \A i \in DOMAIN q.predicate :
        \A k \in DOMAIN q.predicate[i].path : q.predicate[i].path[k].op = "and"

Starts(q, source) ==
    SelectSeq(Conjoined(q), LAMBDA f : f.field = Time(source) /\ f.op = ">=")
Stops(q, source)  ==
    SelectSeq(Conjoined(q), LAMBDA f : f.field = Time(source) /\ f.op = "<")

\* Faulty form: any number of bounds will do, and the first of them is taken.
RangeErrorAnyBounds(q, source) ==
    Refuse(Starts(q, source) = <<>> \/ Stops(q, source) = <<>>, "PolicyViolation")

\* A measurement is never read without one start and one end.
RangeError(q, source) ==
    Refuse(Len(Starts(q, source)) # 1 \/ Len(Stops(q, source)) # 1, "PolicyViolation")

\* What is left to filter by once the range is taken out.
Others(q, source) ==
    SelectSeq(Conjoined(q), LAMBDA f : f \notin ToSet(Starts(q, source) \o Stops(q, source)))

Roles(source, name) == {f.role : f \in {g \in source.fields : source.name \o g.name = name}}

TagError(source, name) ==
    IF Roles(source, name) = {} THEN "StopIteration"
    ELSE Refuse(Roles(source, name) # {"tag"}, "UnsupportedCapabilityError")

FilterFault(source, f) ==
    IF f.op \notin {"=", "!=", ">", ">=", "<", "<="} THEN "UnsupportedCapabilityError"
    ELSE OrElse(TagError(source, f.field),
                Refuse(f.value.list \/ IsKind(f.value, "none"), "UnsupportedCapabilityError"))

\* Everything after the shape and the source of the question, in order.
Faults(q, source) ==
    <<Refuse(~Conjunctive(q), "UnsupportedCapabilityError"), RangeError(q, source)>>
    \o [i \in DOMAIN Others(q, source) |-> FilterFault(source, Others(q, source)[i])]
    \o <<Refuse(HasWindow(q) /\ q.window.field # Time(source), "UnsupportedCapabilityError")>>
    \o [i \in DOMAIN q.dimensions |-> TagError(source, q.dimensions[i])]
    \o <<Refuse(Star \in ToSet(FieldsOf(q.metrics)), "UnsupportedCapabilityError"),
         Refuse(HasWindow(q) /\ q.metrics = <<>>, "UnsupportedCapabilityError"),
         Refuse(\E i, j \in DOMAIN q.sort : q.sort[i].desc # q.sort[j].desc,
                "UnsupportedCapabilityError")>>

CompileError(q, schema) ==
    IF Unsupportable(q) THEN "UnsupportedCapabilityError"
    ELSE IF q.sources[1] \notin SourceNames(schema) THEN "StopIteration"
    ELSE LET source == Measurement(q, schema)
         IN  IF \/ source.kind # "measurement"
                \/ NoName \in {source.bucket, source.time_field} THEN "UnsupportedCapabilityError"
             ELSE FirstError(Faults(q, source))

NoMetric == [field |-> NoName, agg |-> "", alias |-> NoName]

Statement(q, source) ==
    [bucket      |-> source.bucket,
     start       |-> Starts(q, source)[1].value,
     stop        |-> Stops(q, source)[1].value,
     measurement |-> source.name,
     filters     |-> [i \in DOMAIN Others(q, source) |->
                         [Others(q, source)[i] EXCEPT !.field = Column(source, @)]],
     group       |-> [i \in DOMAIN q.dimensions |-> Column(source, q.dimensions[i])],
     metric      |-> IF q.metrics = <<>> THEN NoMetric
                     ELSE [q.metrics[1] EXCEPT !.field = Column(source, @)],
     every       |-> IF HasWindow(q) THEN q.window.every ELSE "",
     sort        |-> [i \in DOMAIN q.sort |-> Column(source, q.sort[i].field)],
     desc        |-> q.sort # <<>> /\ q.sort[1].desc,
     limit       |-> q.limit]

Compile(q, schema) ==
    LET error == CompileError(q, schema)
    IN  [error |-> error,
         statement |-> IF error = "none" THEN Statement(q, Measurement(q, schema))
                       ELSE [bucket |-> NoName]]
=============================================================================
