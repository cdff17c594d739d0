----------------------------- MODULE Discovery -----------------------------
(***************************************************************************)
(* The discover methods of the connectors that read a catalog.  SQLite,    *)
(* PostgreSQL and MySQL: one statement for the tables, one per table for   *)
(* its columns, and for the foreign keys one per table (SQLite) or one for *)
(* all (PostgreSQL).  No transaction spans them, so the database may       *)
(* change in between.  HANA: one statement for every column of every       *)
(* table.  Jira: one request for the fields of its only source.            *)
(* TimescaleDB: PostgreSQL's, then the time columns of its hypertables.    *)
(* Redis: the type of each configured key.                                 *)
(*                                                                         *)
(* A table's name is the sequence of its parts between underscores.        *)
(***************************************************************************)
EXTENDS Naturals, Sequences, FiniteSets, SequencesExt

CONSTANTS Backends,   \* connectors discovering
          Databases,  \* what each connector's database may be: its tables'
                      \* columns and its foreign keys
          MaxSources, \* discovery.max_sources
          MaxFields,  \* discovery.max_fields
          PageSize,   \* the most fields Jira puts in one response
          Configured, \* the keys a schema given to Redis may list:
                      \* sequences of [name, type, width]
          MaxChanges  \* bound on the changes of the database during a call

-----------------------------------------------------------------------------
(* Databases                                                               *)

Tables(db)     == DOMAIN db.columns
Columns(db, t) == IF t \in Tables(db) THEN db.columns[t] ELSE <<>>

\* What a catalog can say of a database: every key is of a table of it and
\* matches columns; a hypertable is a table and has one time column.
WellFormedDatabase(db) ==
    /\ IsFiniteSet(Tables(db))
    /\ \A t \in Tables(db) : db.columns[t] \in Seq(ToSet(db.columns[t]))
    /\ db.keys \in Seq(ToSet(db.keys))
    /\ \A k \in ToSet(db.keys) : /\ k.source \in Tables(db)
                                 /\ k.pairs \in Seq(ToSet(k.pairs)) \ {<<>>}
                                 /\ \A pair \in ToSet(k.pairs) : pair = <<pair[1], pair[2]>>
    /\ db.times \in Seq(ToSet(db.times))
    /\ \A time \in ToSet(db.times) : time \in Tables(db) \X {time[2]}
    /\ \A i, j \in DOMAIN db.times : db.times[i][1] = db.times[j][1] => i = j

\* A table of HANA has columns, and Jira's connector has one source.
ASSUME DiscoveryAssumption ==
    /\ Backends \subseteq {"sqlite", "postgres", "timescaledb", "mysql", "hana", "jira", "redis"}
    /\ \A b \in Backends : \A db \in Databases[b] :
          /\ WellFormedDatabase(db)
          /\ b = "hana" => \A t \in Tables(db) : db.columns[t] # <<>>
          /\ b = "jira" => \E t \in Tables(db) : Tables(db) = {t}
    /\ {MaxSources, MaxFields, PageSize} \subseteq Nat \ {0}
    /\ MaxChanges \in Nat

-----------------------------------------------------------------------------

VARIABLES backend,
          live,     \* the database now
          past,     \* what the database has been since the call began
          changes,
          pc,
          names,    \* the tables listed, or the keys configured
          sources,  \* the sources made so far
          edges,    \* the relationships found so far
          times,    \* the time column of each source that has one
          outcome   \* "pending", "schema", "refused" or "broken"

world == <<backend, live, past, changes>>
found == <<names, sources, edges, times>>
discoveryVars == <<world, found, pc, outcome>>

InitDiscovery ==
    /\ backend \in Backends
    /\ live \in Databases[backend]
    /\ past = {live}
    /\ changes = 0
    /\ names \in IF backend = "redis" THEN Configured ELSE {<<>>}
    /\ sources = <<>> /\ edges = <<>> /\ times = <<>>
    /\ pc = CASE backend = "hana" -> "catalog"
              [] backend = "jira" -> "fields"
              [] backend = "redis" -> IF names = <<>> THEN "assembling" ELSE "types"
              [] OTHER            -> "tables"
    /\ outcome = "pending"

DatabaseChanges ==
    /\ pc # "over"
    /\ changes < MaxChanges
    /\ live' \in Databases[backend] \ {live}
    /\ past' = past \cup {live'}
    /\ changes' = changes + 1
    /\ UNCHANGED <<backend, found, pc, outcome>>

-----------------------------------------------------------------------------

AtMost(n, seq) == IF Len(seq) <= n THEN seq ELSE SubSeq(seq, 1, n)

\* Faulty form: as many rows are read as the budget allows.
ReadUpToBudget(budget, seq) == AtMost(budget, seq)

\* LIMIT budget + 1: one row more than allowed shows that there are too many.
ReadUpTo(budget, seq) == AtMost(budget + 1, seq)

End(result) == pc' = "over" /\ outcome' = result

\* TimescaleDB's discovery starts with PostgreSQL's.
Postgres == {"postgres", "timescaledb"}

\* Where a call goes on once a table's columns are in.
AfterColumns(made) ==
    IF Len(made) < Len(names) THEN "columns"
    ELSE IF backend \in Postgres THEN "keys" ELSE "assembling"

ListTables ==
    /\ pc = "tables"
    /\ names' = ReadUpTo(MaxSources, SetToSeq(Tables(live)))
    /\ IF Len(names') > MaxSources THEN End("refused")
       ELSE /\ pc' = IF names' # <<>> THEN "columns"
                     ELSE IF backend \in Postgres THEN "keys" ELSE "assembling"
            /\ UNCHANGED outcome
    /\ UNCHANGED <<world, sources, edges, times>>

\* Faulty form: the list of fields is not emptied from one table to the next.
FieldsCarried(t) ==
    (IF sources = <<>> THEN <<>> ELSE Last(sources).fields)
    \o ReadUpTo(MaxFields, Columns(live, t))

Fields(t) == ReadUpTo(MaxFields, Columns(live, t))

ReadColumns ==
    /\ pc = "columns"
    /\ LET t == names[Len(sources) + 1]
       IN  IF Len(Fields(t)) > MaxFields THEN End("refused") /\ UNCHANGED sources
           ELSE /\ sources' = Append(sources, [name |-> t, fields |-> Fields(t)])
                /\ pc' = IF backend = "sqlite" THEN "keys" ELSE AfterColumns(sources')
                /\ UNCHANGED outcome
    /\ UNCHANGED <<world, names, edges, times>>

\* SYS.TABLE_COLUMNS: a row per column, table by table.
ColumnRows ==
    FlattenSeq([i \in 1..Cardinality(Tables(live)) |->
        LET t == SetToSeq(Tables(live))[i]
        IN  [j \in DOMAIN live.columns[t] |-> [table |-> t, column |-> live.columns[t][j]]]])

FieldsIn(rows, t) ==
    FlattenSeq([i \in DOMAIN rows |->
        IF rows[i].table = t THEN <<rows[i].column>> ELSE <<>>])

\* sources: each table's columns among the rows read.
Grouped ==
    LET rows == ReadUpTo(MaxSources * MaxFields, ColumnRows)
    IN  [t \in {rows[i].table : i \in DOMAIN rows} |-> FieldsIn(rows, t)]

\* The budgets bound the tables and each table's columns; no check is needed on
\* the rows, since one more than their product breaks one of these.
ReadCatalog ==
    /\ pc = "catalog"
    /\ LET catalog == Grouped
           order  == SetToSeq(DOMAIN catalog)
       IN  IF \/ Cardinality(DOMAIN catalog) > MaxSources
              \/ \E t \in DOMAIN catalog : Len(catalog[t]) > MaxFields
           THEN End("refused") /\ UNCHANGED sources
           ELSE /\ sources' = [i \in DOMAIN order |-> [name |-> order[i], fields |-> catalog[order[i]]]]
                /\ pc' = "assembling"
                /\ UNCHANGED outcome
    /\ UNCHANGED <<world, names, edges, times>>

\* One page of at most max_fields fields is asked for, and the total is compared
\* with the budget; a page the server cuts shorter is not followed by another.
ReadFields ==
    /\ pc = "fields"
    /\ \E t \in Tables(live) :
          IF Len(live.columns[t]) > MaxFields THEN End("refused") /\ UNCHANGED sources
          ELSE /\ sources' = <<[name |-> t, fields |-> AtMost(PageSize, live.columns[t])]>>
               /\ pc' = "assembling"
               /\ UNCHANGED outcome
    /\ UNCHANGED <<world, names, edges, times>>

\* The type of the next key has to be the one configured; an index that is asked
\* for and is not there is an error of the server's.
ReadType ==
    /\ pc = "types"
    /\ LET k    == names[Len(sources) + 1]
           here == Columns(live, k.name)
       IN  IF Len(names) > MaxSources \/ k.width > MaxFields
              \/ (here # <<k.type>> /\ k.type # "search")
           THEN End("refused") /\ UNCHANGED sources
           ELSE IF here # <<k.type>> THEN End("broken") /\ UNCHANGED sources
           ELSE /\ sources' = Append(sources, [name |-> k.name, fields |-> here])
                /\ pc' = IF Len(sources') < Len(names) THEN "types" ELSE "assembling"
                /\ UNCHANGED outcome
    /\ UNCHANGED <<world, names, edges, times>>

-----------------------------------------------------------------------------
(* Foreign keys: a sequence of [name, source, target, pairs], pairs being  *)
(* the columns a key matches                                               *)

Relation(name, source, from, target, to) ==
    [name |-> name, source |-> source, from |-> from, target |-> target, to |-> to]

Ordinals == <<"0", "1", "2", "3">>

\* pragma_foreign_key_list: a row per pair of columns, numbered by key; the
\* relationship's name joins the table's, the target's and the number.
PragmaRows(db, t) ==
    LET Number(i) == Ordinals[Cardinality({n \in 1..i : db.keys[n].source = t})]
    IN  FlattenSeq([i \in DOMAIN db.keys |->
            IF db.keys[i].source # t THEN <<>>
            ELSE [j \in DOMAIN db.keys[i].pairs |->
                    Relation(t \o db.keys[i].target \o <<Number(i)>>, t, db.keys[i].pairs[j][1],
                             db.keys[i].target, db.keys[i].pairs[j][2])]])

\* The keys of some name, once for each pair of columns.
Named(db, name) ==
    FlattenSeq([i \in DOMAIN db.keys |->
        IF db.keys[i].name # name THEN <<>>
        ELSE [j \in DOMAIN db.keys[i].pairs |-> [key |-> db.keys[i], pair |-> db.keys[i].pairs[j]]]])

\* The catalog's views of constraints, of their columns and of the columns they
\* refer to are joined by the constraint's name and schema only.
JoinedRows(db, name) ==
    LET ends == Named(db, name)
    IN  FlattenSeq([f \in DOMAIN ends |-> [t \in DOMAIN ends |->
            Relation(name, ends[f].key.source, ends[f].pair[1],
                     ends[t].key.target, ends[t].pair[2])]])

CatalogRows(db) == FlattenSeq([i \in DOMAIN db.keys |-> JoinedRows(db, db.keys[i].name)])

ReadKeys ==
    /\ pc = "keys"
    /\ IF backend = "sqlite"
       THEN /\ edges' = edges \o PragmaRows(live, Last(sources).name)
            /\ pc' = AfterColumns(sources)
       ELSE /\ edges' = ReadUpTo(MaxSources * MaxFields, CatalogRows(live))
            /\ pc' = "assembling"
    /\ UNCHANGED <<world, names, sources, times, outcome>>

\* Faulty form: relationships may share a name.
AcceptableAnyway(rels) == rels = rels

\* SchemaModel takes no two relationships of one name (models.py:80-83).
Acceptable(rels) == IsInjective([i \in DOMAIN rels |-> rels[i].name])

Assemble ==
    /\ pc = "assembling"
    /\ IF Acceptable(edges) /\ backend = "timescaledb"
       THEN pc' = "labelling" /\ UNCHANGED outcome
       ELSE End(IF Acceptable(edges) THEN "schema" ELSE "refused")
    /\ UNCHANGED <<world, found>>

\* A statement of its own reads the hypertables' time columns, which go to the
\* sources of the same name.
ReadTimes ==
    /\ pc = "labelling"
    /\ LET rows  == ReadUpTo(MaxSources, live.times)
           Of(t) == {i \in DOMAIN rows : rows[i][1] = t}
       IN  times' = [t \in {s \in {sources[i].name : i \in DOMAIN sources} : Of(s) # {}} |->
                        rows[Max(Of(t))][2]]
    /\ End("schema")
    /\ UNCHANGED <<world, names, sources, edges>>

\* The connection, a statement or the deadline fails.
Breaks ==
    /\ pc # "over"
    /\ End("broken")
    /\ UNCHANGED <<world, found>>

NextDiscovery ==
    \/ ListTables \/ ReadColumns \/ ReadCatalog \/ ReadFields \/ ReadType \/ ReadKeys
    \/ Assemble \/ ReadTimes \/ Breaks \/ DatabaseChanges

SpecDiscovery == InitDiscovery /\ [][NextDiscovery]_discoveryVars
-----------------------------------------------------------------------------

\* Jira puts all the fields that are allowed in one page.
WholePages == "jira" \in Backends => MaxFields <= PageSize

\* The limit on the rows of relationships leaves room for one of each key.
KeysFit == \A b \in Backends \cap Postgres : \A db \in Databases[b] :
               Len(db.keys) <= MaxSources * MaxFields

\* Every source of a schema was a table at some moment of the call and has the
\* columns it had at some moment: however the reads are torn, columns of two
\* tables or two moments never mix.  A table dropped between the two reads is
\* left with no columns.  The same of the time column of a hypertable, and of
\* the type of a key (sqlite.py:66-84, postgres.py:78-104, mysql.py:66-91,
\* timescaledb.py:15-42, redis.py:53-64).
SourcesGenuine ==
    outcome = "schema" =>
        \A i \in DOMAIN sources :
            LET s == sources[i] IN
            /\ \E db \in past : s.name \in Tables(db)
            /\ \E db \in past : Columns(db, s.name) = s.fields
            /\ s.name \in DOMAIN times =>
                  \E db \in past : <<s.name, times[s.name]>> \in ToSet(db.times)

\* Every relationship of a schema is a foreign key the database had at some
\* moment, and a simple one: composite keys and constraints of one name in two
\* tables never come apart into pairs of columns nobody declared
\* (sqlite.py:85-94, postgres.py:105-122, models.py:80-83).
RelationshipsGenuine ==
    outcome = "schema" =>
        \A i \in DOMAIN edges : \E db \in past : \E k \in ToSet(db.keys) :
            /\ k.source = edges[i].source /\ k.target = edges[i].target
            /\ k.pairs = <<<<edges[i].from, edges[i].to>>>>

\* A schema of a database that stood still is all of it: budgets refuse, they
\* never cut (sqlite.py:58-71, postgres.py:70-85, mysql.py:58-73, hana.py:52-73,
\* timescaledb.py:20-24).
\* docs/maturity.md:12 says the same of Jira's fields, "Paginated bounded field
\* metadata" (jira.py:57-67).
NothingCut ==
    outcome = "schema" /\ past = {live} /\ backend # "redis" =>
        /\ {sources[i].name : i \in DOMAIN sources} = Tables(live)
        /\ \A i \in DOMAIN sources : sources[i].fields = live.columns[sources[i].name]
        /\ backend \in {"sqlite"} \cup Postgres => Len(edges) = Len(live.keys)
        /\ backend = "timescaledb" => DOMAIN times = {live.times[i][1] : i \in DOMAIN live.times}

Simple(db) == \A i \in DOMAIN db.keys : Len(db.keys[i].pairs) = 1

Affordable(db) == /\ Cardinality(Tables(db)) <= MaxSources
                  /\ \A t \in Tables(db) : Len(db.columns[t]) <= MaxFields

\* docs/maturity.md:7-8 gives SQLite's foreign keys and PostgreSQL's simple ones
\* as discovered: a database within the budgets whose keys are all simple is
\* refused by nothing but a failure of the backend.
SimpleKeysDiscovered ==
    outcome = "refused" /\ past = {live} => ~(Simple(live) /\ Affordable(live))
=============================================================================
