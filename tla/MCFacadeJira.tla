---------------------------- MODULE MCFacadeJira ----------------------------
(***************************************************************************)
(* Facade over Jira: the statement of a proposal is a JQL text, one        *)
(* question asks for two open issues.                                      *)
(***************************************************************************)
EXTENDS Facade

Jql == INSTANCE JqlCompiler

Issues == <<"issues">>
Status == [name |-> <<"status">>, type |-> "string"]

Tracker     == [sources |-> {[name |-> Issues, fields |-> {Status}]}, edges |-> {}]
OneTracker  == {Tracker}
Unsupplied  == {NoSchema}

Ask(n) == [operation |-> "select", sources |-> <<Issues>>, projections |-> <<>>,
           dimensions |-> <<>>, metrics |-> <<>>, filters |-> <<>>,
           predicate |-> <<Leaf([field |-> <<"status">>, op |-> "=", value |-> One("str", "open")])>>,
           sort |-> <<>>, limit |-> n, offset |-> 0, distinct |-> FALSE, joins |-> <<>>,
           traversal |-> [rel |-> NoName, max_depth |-> 1],
           window |-> [field |-> NoName, alias |-> NoName], unwind |-> <<>>,
           calculations |-> <<>>, unresolved |-> FALSE, ambiguous |-> FALSE, hinted |-> FALSE]

Asked == {Ask(2)}

JiraCaps == [joins |-> FALSE, aggregation |-> FALSE, graph_traversal |-> FALSE,
             time_series |-> FALSE, arrays |-> FALSE, calculations |-> FALSE, distinct |-> FALSE,
             projection |-> TRUE, sorting |-> TRUE, offsets |-> FALSE]

JqlText(q, schema) == Jql!Compile(q, schema)

OnePolicy == {[allowed |-> {Issues}, max_rows |-> 2, max_offset |-> 0, max_joins |-> 0,
               max_graph_depth |-> 0]}

At[t \in 0..9] == Instant(2024, 3, 1, 0)
=============================================================================
