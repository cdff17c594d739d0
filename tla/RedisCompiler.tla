---------------------------- MODULE RedisCompiler ----------------------------
(***************************************************************************)
(* compilers/redis.py, RedisCompiler.compile: the one command that reads   *)
(* an explicitly configured key.                                           *)
(***************************************************************************)
EXTENDS Planner

Unsupportable(q) ==
    \/ q.predicate # <<>> \/ q.sort # <<>> \/ q.metrics # <<>> \/ q.dimensions # <<>>
    \/ q.joins # <<>> \/ Traverses(q) \/ HasWindow(q) \/ q.unwind # <<>>
    \/ q.calculations # <<>> \/ q.distinct

Asked(q, source) ==
    [i \in DOMAIN q.projections |->
        LET name == q.projections[i].field
        IN  IF IsStrictPrefix(source.name, name)
            THEN SubSeq(name, Len(source.name) + 1, Len(name)) ELSE name]

\* Types whose values are told apart by fields, and the one that can be paged.
ByField == {"hash", "json"}
Paged   == {"zset"}

\* A read that cannot show the fields or the page asked for is refused.
ShapeError(q, source) ==
    Refuse(\/ (Asked(q, source) # <<>>) # (source.key_type \in ByField)
           \/ q.offset # 0 /\ source.key_type \notin Paged, "UnsupportedCapabilityError")

CompileError(q, schema) ==
    IF Unsupportable(q) THEN "UnsupportedCapabilityError"
    ELSE IF q.sources[1] \notin SourceNames(schema) THEN "StopIteration"
    ELSE LET source == Source(schema, q.sources[1])
         IN  IF \/ Len(q.sources) # 1 \/ source.key = NoName \/ source.key_type = ""
                \/ \E i \in DOMAIN q.projections : q.projections[i].alias # NoName
             THEN "UnsupportedCapabilityError"
             ELSE ShapeError(q, source)

\* Faulty form: the end is counted from the start of the page.
EndOfPageCounted(q) == q.limit - 1

\* The place of the last entry asked for, which ZRANGE includes.
EndOfPage(q) == q.offset + q.limit - 1

Command(q, source) ==
    CASE source.key_type = "hash"   -> <<"HMGET", source.key>> \o Asked(q, source)
      [] source.key_type = "set"    -> <<"SRANDMEMBER", source.key, q.limit>>
      [] source.key_type = "zset"   -> <<"ZRANGE", source.key, q.offset, EndOfPage(q)>>
      [] source.key_type = "stream" -> <<"XRANGE", source.key, q.limit>>
      [] source.key_type = "json"   -> <<"JSON.GET", source.key>> \o Asked(q, source)
      [] source.key_type = "search" -> <<"FT.SEARCH", source.key, 0, q.limit>>

Compile(q, schema) ==
    LET error == CompileError(q, schema)
    IN  [error |-> error,
         statement |-> IF error = "none" THEN Command(q, Source(schema, q.sources[1])) ELSE <<>>]
=============================================================================
