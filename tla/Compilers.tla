------------------------------ MODULE Compilers ------------------------------
(***************************************************************************)
(* The compilers by backend, with what each backend's connector says it    *)
(* can do.                                                                 *)
(***************************************************************************)
EXTENDS Planner

Sql    == INSTANCE SqlCompiler
Mongo  == INSTANCE MongoCompiler
Cypher == INSTANCE CypherCompiler
Flux   == INSTANCE FluxCompiler
Redis  == INSTANCE RedisCompiler

Relational == {"sqlite", "timescaledb"}

Supported == Relational \cup {"mongo", "neo4j", "influx", "redis"}

\* ConnectorCapabilities where a connector says nothing.
Modest == [joins |-> FALSE, aggregation |-> FALSE, graph_traversal |-> FALSE,
           time_series |-> FALSE, arrays |-> FALSE, calculations |-> FALSE, distinct |-> FALSE,
           projection |-> TRUE, sorting |-> TRUE, offsets |-> TRUE]

Capabilities(backend) ==
    CASE backend = "sqlite" -> [Modest EXCEPT !.joins = TRUE, !.aggregation = TRUE,
                                              !.calculations = TRUE, !.distinct = TRUE]
      [] backend = "timescaledb" -> [Modest EXCEPT !.joins = TRUE, !.aggregation = TRUE,
                                              !.calculations = TRUE, !.distinct = TRUE,
                                              !.time_series = TRUE]
      [] backend = "mongo" -> [Modest EXCEPT !.aggregation = TRUE, !.arrays = TRUE,
                                             !.distinct = TRUE]
      [] backend = "neo4j" -> [Modest EXCEPT !.aggregation = TRUE, !.graph_traversal = TRUE,
                                             !.distinct = TRUE]
      [] backend = "influx" -> [Modest EXCEPT !.aggregation = TRUE, !.time_series = TRUE,
                                              !.projection = FALSE, !.offsets = FALSE]
      [] backend = "redis" -> [Modest EXCEPT !.sorting = FALSE]

Compile(backend, q, schema, policy) ==
    CASE backend \in Relational -> Sql!Compile(q, schema, backend)
      [] backend = "mongo"      -> Mongo!Compile(q, schema)
      [] backend = "neo4j"      -> Cypher!Compile(q, schema, policy)
      [] backend = "influx"     -> Flux!Compile(q, schema)
      [] backend = "redis"      -> Redis!Compile(q, schema)
=============================================================================
