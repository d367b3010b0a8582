------------------------------- MODULE LiveData -------------------------------
(***************************************************************************)
(* A question put to the database tool of one SQL connector: what the      *)
(* prompt is told of the values its columns hold                           *)
(* (connectors/sql/semantic_layer.py), which statement is run, reviewed or *)
(* drafted (tools/builtin.py, tools/query_structured_data.py), with which  *)
(* limit (connectors/sql/safety.py, connectors/sql/connector.py), and what *)
(* is said of its rows (api/v1/agent.py).                                  *)
(*                                                                         *)
(* The database is one view of devices, whose rows come and go meanwhile.  *)
(* A statement is the rows it selects and its LIMIT; no value is blank.    *)
(***************************************************************************)
EXTENDS Integers, FiniteSets

CONSTANTS
  Devices,
  Named,      \* those with a name
  Online,     \* those whose status is online
  MaxValues,  \* MAX_HINTED_VALUES
  RowCaps,    \* what the connector's max_rows may be set to
  Preview     \* rows of a result that are rendered

ASSUME LiveAssumption ==
  /\ IsFiniteSet(Devices) /\ Named \subseteq Devices /\ Online \subseteq Devices
  /\ MaxValues \in Nat \ {0} /\ Preview \in Nat \ {0} /\ RowCaps \subseteq Nat \ {0}

VARIABLES
  maxRows,  \* the connector's
  columns,  \* of the view
  trained,  \* a reviewed term maps to the view, and to another one of metrics
  table,    \* the devices in the view now
  unread,   \* columns to be hinted, in any order
  hints,    \* of each column that has one: the values the prompt lists
  query,    \* the question's, and what came of it
  \* history
  held      \* of each column that has a hint: its values when it was read

liveVars == <<maxRows, columns, trained, table, unread, hints, query, held>>

NoHints == [c \in {} |-> {}]
NoQuery == [at |-> "hinting", sql |-> "", rows |-> 0, cut |-> FALSE, wanted |-> 0, told |-> 0]

\* describe_schema and from_discovered_schema: the columns the role may read, by
\* view.  A view of devices may lack any but its identifiers.
LiveInit ==
  /\ maxRows \in RowCaps
  /\ columns \in {{"device_id"} \cup s : s \in SUBSET {"device_name", "status", "shift"}}
  /\ trained \in BOOLEAN
  /\ table \in SUBSET Devices
  /\ unread = columns \cup {"pairing"}
  /\ hints = NoHints /\ held = NoHints
  /\ query = NoQuery

RowComes(d) ==
  /\ table' = (table \cup {d})
  /\ UNCHANGED <<maxRows, columns, trained, unread, hints, query, held>>

RowGoes(d) ==
  /\ table' = table \ {d}
  /\ UNCHANGED <<maxRows, columns, trained, unread, hints, query, held>>

-------------------------------------------------------------------------------
(* SQLConnector.query, with its limit. *)

NoLimit == -1

\* _apply_limit: a LIMIT that is missing, not a literal or larger becomes max_rows.
Applied(limit, literal) ==
  IF limit = NoLimit \/ ~literal \/ limit > maxRows THEN maxRows ELSE limit

Fewer(a, b) == IF a < b THEN a ELSE b

\* A bug: a full page would be taken for a whole answer.
MutantTruncated(rows) == rows > maxRows
\* QueryResult.truncated
Truncated(rows) == rows >= maxRows

-------------------------------------------------------------------------------
(* discover_value_hints *)

Hintable == {"device_name", "status"}

Status(d) == IF d \in Online THEN "online" ELSE "offline"
\* What SELECT DISTINCT finds in a column; the pairing is of a name with its id.
Values(c) == IF c = "status" THEN {Status(d) : d \in table} ELSE table \cap Named

\* A bug: LIMIT would be the cap itself.
MutantHintLimit == MaxValues
\* One above the cap, so that "more than allowed" is detectable.
HintLimit == MaxValues + 1

\* The columns that are read, and the pairing where the view has both of its.
Read(c) == IF c = "pairing" THEN "device_name" \in columns ELSE c \in Hintable

\* A column is read, and kept as a hint if it is small enough.
Hint(c, got) ==
  /\ query.at = "hinting" /\ c \in unread
  /\ c = "pairing" => unread = {c}
  /\ Read(c) /\ got \subseteq Values(c)
  /\ Cardinality(got) = Fewer(Cardinality(Values(c)), Applied(HintLimit, TRUE))
  /\ unread' = unread \ {c}
  /\ IF Cardinality(got) \in 1..MaxValues
     THEN /\ hints' = [b \in DOMAIN hints \cup {c} |-> IF b = c THEN got ELSE hints[b]]
          /\ held' = [b \in DOMAIN held \cup {c} |-> IF b = c THEN Values(c) ELSE held[b]]
     ELSE UNCHANGED <<hints, held>>
  /\ UNCHANGED <<maxRows, columns, trained, table, query>>

\* One that is not read, or whose query fails, has no hint.
NoHint(c) ==
  /\ query.at = "hinting" /\ c \in unread
  /\ c = "pairing" => unread = {c}
  /\ unread' = unread \ {c}
  /\ UNCHANGED <<maxRows, columns, trained, table, hints, query, held>>

-------------------------------------------------------------------------------
(* QueryDatabaseTool.run *)

Asking(q) ==
  /\ query' = q
  /\ UNCHANGED <<maxRows, columns, trained, table, unread, hints, held>>

\* _run_device_status_template, for a question of devices by status and no more,
\* or else _run_reviewed_metric_template, for an aggregate of a reviewed term.
StatusTemplate(q) == q.status /\ ~q.more /\ {"device_name", "status"} \subseteq columns
MetricTemplate(q) == q.aggregate /\ trained /\ "device_name" \in columns

\* Both are statements without a LIMIT; one of an aggregate has one row.
Templated(q) ==
  /\ query.at = "hinting" /\ unread = {}
  /\ StatusTemplate(q) \/ MetricTemplate(q)
  /\ Asking([query EXCEPT !.at = "querying",
                          !.sql = IF StatusTemplate(q) /\ q.list THEN "list" ELSE "aggregate"])

\* _draft_sql: the model is asked, and may be out of reach, decline, or draft.
Drafts(q, sql) ==
  /\ query.at = "hinting" /\ unread = {}
  /\ ~StatusTemplate(q) /\ ~MetricTemplate(q)
  /\ Asking([query EXCEPT !.at = IF sql \in {"", "unanswerable"} THEN "refused" ELSE "querying",
                          !.sql = sql])

\* validate: not one statement, not a SELECT, a write or an unknown construct
\* within it, a function that is forbidden, or a table outside the schema.
Unsafe == query.at = "querying" /\ query.sql = "drafted" /\ Asking([query EXCEPT !.at = "refused"])

\* The database times out, cannot be reached, or refuses: a ConnectorError.
DatabaseFails == query.at = "querying" /\ Asking([query EXCEPT !.at = "refused"])

\* _summarize_direct_database_result counts the rows that are rendered.
Told(rows) == Fewer(rows, Preview)

\* It runs, over so many rows.
Returns(all, limit, literal) ==
  /\ query.at = "querying"
  /\ query.sql = "list" => all = Cardinality(table \cap Online) /\ limit = NoLimit
  /\ query.sql = "aggregate" => all = 1 /\ limit = NoLimit
  /\ LET rows == Fewer(all, Applied(limit, literal)) IN
     Asking([query EXCEPT !.at = "answered", !.rows = rows, !.cut = Truncated(rows),
               !.wanted = IF limit = NoLimit THEN all ELSE Fewer(all, limit),
               !.told = Told(rows)])

\* The next request builds its tools, and reads the columns, anew.
AskedAgain ==
  /\ query.at \in {"refused", "answered"}
  /\ query' = NoQuery /\ unread' = columns \cup {"pairing"}
  /\ hints' = NoHints /\ held' = NoHints
  /\ UNCHANGED <<maxRows, columns, trained, table>>

QuestionsOfData == [status : BOOLEAN, more : BOOLEAN, list : BOOLEAN, aggregate : BOOLEAN]

LiveNext ==
  \/ \E d \in Devices : RowComes(d) \/ RowGoes(d)
  \/ \E c \in unread : NoHint(c) \/ \E got \in SUBSET Values(c) : Hint(c, got)
  \/ \E q \in QuestionsOfData :
       Templated(q) \/ \E sql \in {"", "unanswerable", "drafted"} : Drafts(q, sql)
  \/ Unsafe \/ DatabaseFails
  \/ \E all \in 0..Cardinality(table), limit \in NoLimit..Cardinality(Devices), literal \in BOOLEAN :
       Returns(all, limit, literal)
  \/ AskedAgain

LiveSpec == LiveInit /\ [][LiveNext]_liveVars

-------------------------------------------------------------------------------
LiveTypeOK ==
  /\ maxRows \in RowCaps /\ table \subseteq Devices
  /\ columns \subseteq {"device_id", "device_name", "status", "shift"}
  /\ unread \subseteq columns \cup {"pairing"}
  /\ DOMAIN hints \subseteq Hintable \cup {"pairing"} /\ DOMAIN held = DOMAIN hints
  /\ query.at \in {"hinting", "querying", "refused", "answered"}
  /\ query.rows <= maxRows /\ query.told <= query.rows

\* A value the prompt does not list is a value the model will not match: where a
\* connector may return more rows than a hint may have values, each hint lists
\* every value its column held when it was read.
HintsComplete == maxRows > MaxValues => hints = held

\* semantic_layer.py: a column with too many values "is dropped rather than
\* truncated" - whatever the connector's max_rows.
HintsNeverCut == hints = held

\* Whatever the LIMIT of a statement, however many rows it selects, an answer not
\* flagged as truncated has all the rows that were asked for.
CutIsFlagged == query.at = "answered" /\ ~query.cut => query.rows >= query.wanted
===============================================================================
