------------------------------ MODULE PathProofs ------------------------------
(***************************************************************************)
(* What is answered from live data, what a request is offered and charged, *)
(* what retention leaves of a run, what edits leave of a registered        *)
(* connector, whom the breaker refuses, how long a withdrawn key of the    *)
(* identity provider verifies tokens and that good ones are not refused,   *)
(* for every value of the constants.                                       *)
(***************************************************************************)
EXTENDS Ask, LiveData, Retention, Integrations, Breaker, KeyCache, FiniteSetTheorems,
        SequenceTheorems, TLAPS

-------------------------------------------------------------------------------
(* LiveData *)

Query ==
  [at : {"hinting", "querying", "refused", "answered"},
   sql : {"", "unanswerable", "drafted", "list", "aggregate"},
   rows : Int, cut : BOOLEAN, wanted : Int, told : Int]

LiveTypes ==
  /\ maxRows \in Nat \ {0} /\ table \subseteq Devices
  /\ query \in Query

LiveInv == LiveTypes /\ HintsComplete /\ CutIsFlagged

LEMMA LiveStart == LiveInit => LiveInv
<1> SUFFICES ASSUME LiveInit PROVE LiveInv
  OBVIOUS
<1>1. maxRows \in Nat \ {0} /\ table \subseteq Devices
  BY LiveAssumption DEF LiveInit
<1>2. query = NoQuery /\ hints = held
  BY DEF LiveInit
<1>3. query \in Query /\ query.at = "hinting"
  <2>1. NoQuery \in Query /\ NoQuery.at = "hinting"
    BY DEF NoQuery, Query
  <2> QED BY <1>2, <2>1, Zenon
<1>4. LiveTypes
  BY <1>1, <1>3, Zenon DEF LiveTypes
<1>5. HintsComplete /\ CutIsFlagged
  BY <1>2, <1>3, Zenon DEF HintsComplete, CutIsFlagged
<1> QED BY <1>4, <1>5 DEF LiveInv

\* Where a connector may return more rows than a hint may have values, a column
\* found small was read to its end.
LEMMA ReadToItsEnd ==
  ASSUME LiveTypes, maxRows > MaxValues, NEW c, NEW got \in SUBSET Values(c),
         Cardinality(got) = Fewer(Cardinality(Values(c)), Applied(HintLimit, TRUE)),
         Cardinality(got) \in 1..MaxValues
  PROVE  got = Values(c)
<1>1. IsFiniteSet(Values(c))
  <2>1. IsFiniteSet(table)
    BY LiveAssumption, FS_Subset DEF LiveTypes
  <2>2. CASE c = "status"
    <3>1. Values(c) = {Status(d) : d \in table}
      BY <2>2 DEF Values
    <3>2. IsFiniteSet({Status(d) : d \in table})
      <4> DEFINE f == [d \in table |-> Status(d)]
      <4>1. IsFiniteSet({"online", "offline"})
        <5>1. IsFiniteSet({} \cup {"online"})
          BY FS_EmptySet, FS_AddElement, Zenon
        <5>2. IsFiniteSet(({} \cup {"online"}) \cup {"offline"})
          BY <5>1, FS_AddElement, Zenon
        <5>3. ({} \cup {"online"}) \cup {"offline"} = {"online", "offline"}
          OBVIOUS
        <5> QED BY <5>2, <5>3
      <4>2. {Status(d) : d \in table} \subseteq {"online", "offline"}
        BY DEF Status
      <4> QED BY <4>1, <4>2, FS_Subset
    <3> QED BY <3>1, <3>2
  <2>3. CASE c # "status"
    BY <2>1, <2>3, FS_Subset DEF Values
  <2> QED BY <2>2, <2>3
<1>2. Cardinality(Values(c)) \in Nat
  BY <1>1, FS_CardinalityType
<1>3. Applied(HintLimit, TRUE) = MaxValues + 1
  BY LiveAssumption DEF Applied, HintLimit, NoLimit, LiveTypes
<1>4. Cardinality(Values(c)) = Cardinality(got)
  <2> DEFINE all == Cardinality(Values(c))
             read == Cardinality(got)
  <2>1. read = Fewer(all, MaxValues + 1)
    BY <1>3, Zenon
  <2>2. all \in Nat /\ read \in 1..MaxValues /\ MaxValues \in Nat
    BY <1>2, LiveAssumption
  <2> HIDE DEF all, read
  <2>3. all = read
    BY <2>1, <2>2 DEF Fewer
  <2> QED BY <2>3 DEF all, read
<1>5. Values(c) = got
  BY <1>1, <1>4, FS_Subset
<1> QED BY <1>5

LEMMA HintKeeps ==
  ASSUME LiveInv, NEW c \in unread, NEW got \in SUBSET Values(c), Hint(c, got) PROVE LiveInv'
<1>1. LiveTypes /\ HintsComplete /\ CutIsFlagged
  BY DEF LiveInv
<1>2. UNCHANGED <<maxRows, table, query>>
  BY DEF Hint
<1>3. LiveTypes' /\ CutIsFlagged'
  BY <1>1, <1>2 DEF LiveTypes, CutIsFlagged
<1>4. HintsComplete'
  <2> SUFFICES ASSUME maxRows > MaxValues PROVE hints' = held'
    BY <1>2 DEF HintsComplete
  <2>1. hints = held
    BY <1>1 DEF HintsComplete
  <2>2. CASE Cardinality(got) \in 1..MaxValues
    <3>1. got = Values(c)
      BY <1>1, <2>2, ReadToItsEnd DEF Hint
    <3> QED BY <2>1, <2>2, <3>1 DEF Hint
  <2>3. CASE Cardinality(got) \notin 1..MaxValues
    BY <2>1, <2>3 DEF Hint
  <2> QED BY <2>2, <2>3
<1> QED BY <1>3, <1>4 DEF LiveInv

LEMMA ReturnsKeeps ==
  ASSUME LiveInv, NEW all \in 0..Cardinality(table), NEW limit \in NoLimit..Cardinality(Devices),
         NEW literal \in BOOLEAN, Returns(all, limit, literal)
  PROVE  LiveInv'
<1> DEFINE rows == Fewer(all, Applied(limit, literal))
           wanted == IF limit = NoLimit THEN all ELSE Fewer(all, limit)
<1>1. UNCHANGED <<maxRows, table, hints, held>>
  BY DEF Returns, Asking
<1>2. query' = [query EXCEPT !.at = "answered", !.rows = rows, !.cut = Truncated(rows),
                             !.wanted = wanted, !.told = Told(rows)]
  BY Zenon DEF Returns, Asking
<1>3. LiveTypes /\ HintsComplete
  BY DEF LiveInv
<1>4. maxRows \in Nat /\ all \in Nat /\ limit \in Int /\ (limit = NoLimit \/ limit \in Nat)
  BY <1>3 DEF LiveTypes, NoLimit
<1>5. rows \in Int /\ wanted \in Int
  BY <1>4 DEF Fewer, Applied
<1>6. Truncated(rows) \in BOOLEAN /\ Told(rows) \in Int
  BY <1>5, LiveAssumption DEF Truncated, Told, Fewer
<1>7. ~Truncated(rows) => rows >= wanted
  BY <1>4 DEF Truncated, Fewer, Applied, NoLimit
<1> HIDE DEF rows, wanted
<1>8. query' \in Query /\ query'.cut = Truncated(rows) /\ query'.rows = rows /\ query'.wanted = wanted
  BY <1>2, <1>3, <1>5, <1>6 DEF LiveTypes, Query
<1>9. LiveTypes'
  BY <1>1, <1>3, <1>8 DEF LiveTypes
<1>10. HintsComplete' /\ CutIsFlagged'
  BY <1>1, <1>3, <1>7, <1>8 DEF HintsComplete, CutIsFlagged
<1> QED BY <1>9, <1>10 DEF LiveInv

\* A question that goes on, but has no answer yet.
LEMMA GoesOn ==
  ASSUME LiveInv, UNCHANGED <<maxRows, table, hints, held>>, query' \in Query, query'.at # "answered"
  PROVE  LiveInv'
BY DEF LiveInv, LiveTypes, HintsComplete, CutIsFlagged

LEMMA LiveStep == LiveInv /\ [LiveNext]_liveVars => LiveInv'
<1> SUFFICES ASSUME LiveInv, [LiveNext]_liveVars PROVE LiveInv'
  OBVIOUS
<1>1. LiveTypes /\ query \in Query
  BY DEF LiveInv, LiveTypes
<1>2. CASE UNCHANGED liveVars
  BY <1>2 DEF liveVars, LiveInv, LiveTypes, HintsComplete, CutIsFlagged
<1>3. CASE \E d \in Devices : RowComes(d) \/ RowGoes(d)
  BY <1>3 DEF RowComes, RowGoes, LiveInv, LiveTypes, HintsComplete, CutIsFlagged
<1>4. CASE \E c \in unread : NoHint(c)
  BY <1>4 DEF NoHint, LiveInv, LiveTypes, HintsComplete, CutIsFlagged
<1>5. ASSUME NEW q \in QuestionsOfData, Templated(q) PROVE LiveInv'
  <2>1. query' \in Query /\ query'.at = "querying"
    BY <1>1, <1>5 DEF Templated, Asking, Query
  <2> QED BY <1>5, <2>1, GoesOn DEF Templated, Asking
<1>6. ASSUME NEW q \in QuestionsOfData, NEW sql \in {"", "unanswerable", "drafted"}, Drafts(q, sql)
      PROVE  LiveInv'
  <2>1. query' \in Query /\ query'.at # "answered"
    BY <1>1, <1>6 DEF Drafts, Asking, Query
  <2> QED BY <1>6, <2>1, GoesOn DEF Drafts, Asking
<1>7. CASE Unsafe \/ DatabaseFails
  <2>1. query' \in Query /\ query'.at = "refused"
    BY <1>1, <1>7 DEF Unsafe, DatabaseFails, Asking, Query
  <2> QED BY <1>7, <2>1, GoesOn DEF Unsafe, DatabaseFails, Asking
<1>8. CASE AskedAgain
  <2>1. query' = NoQuery /\ hints' = held' /\ UNCHANGED <<maxRows, table>>
    BY <1>8 DEF AskedAgain
  <2>2. NoQuery \in Query /\ NoQuery.at = "hinting"
    BY DEF NoQuery, Query
  <2>3. LiveTypes'
    BY <1>1, <2>1, <2>2 DEF LiveTypes
  <2> QED BY <2>1, <2>2, <2>3, Zenon DEF LiveInv, HintsComplete, CutIsFlagged
<1> QED
  BY <1>2, <1>3, <1>4, <1>5, <1>6, <1>7, <1>8, HintKeeps, ReturnsKeeps DEF LiveNext

THEOREM LiveInvariance == LiveSpec => []LiveInv
<1> QED BY LiveStart, LiveStep, PTL DEF LiveSpec

\* For any devices, values and limits: where a connector may return more rows
\* than a hint may have values, no hint leaves out a value of its column.
THEOREM HintsAreComplete == LiveSpec => []HintsComplete
<1>1. LiveInv => HintsComplete
  BY DEF LiveInv
<1> QED BY <1>1, LiveInvariance, PTL

\* For any limit and any number of rows: an answer that is not flagged has all the
\* rows that were asked for.
THEOREM NoSilentCut == LiveSpec => []CutIsFlagged
<1>1. LiveInv => CutIsFlagged
  BY DEF LiveInv
<1> QED BY <1>1, LiveInvariance, PTL

\* The hints, the table and the question under way keep within the schema.
LEMMA LiveTypesStart == LiveInit => LiveTypeOK
<1> SUFFICES ASSUME LiveInit PROVE LiveTypeOK
  OBVIOUS
<1>1. /\ maxRows \in RowCaps /\ table \subseteq Devices /\ unread = columns \cup {"pairing"}
      /\ columns \subseteq {"device_id", "device_name", "status", "shift"}
      /\ hints = NoHints /\ held = NoHints /\ query = NoQuery
  BY DEF LiveInit
<1>2. DOMAIN NoHints = {}
  BY DEF NoHints
<1>3. NoQuery.at = "hinting" /\ NoQuery.rows = 0 /\ NoQuery.told = 0
  BY DEF NoQuery
<1>4. 0 <= maxRows
  BY <1>1, LiveAssumption
<1> QED BY <1>1, <1>2, <1>3, <1>4 DEF LiveTypeOK

LEMMA HintTypes ==
  ASSUME LiveTypeOK, NEW c \in unread, NEW got, Hint(c, got) PROVE LiveTypeOK'
<1>1. /\ Read(c) /\ unread' = unread \ {c}
      /\ \/ UNCHANGED <<hints, held>>
         \/ /\ hints' = [b \in DOMAIN hints \cup {c} |-> IF b = c THEN got ELSE hints[b]]
            /\ held' = [b \in DOMAIN held \cup {c} |-> IF b = c THEN Values(c) ELSE held[b]]
      /\ UNCHANGED <<maxRows, columns, table, query>>
  BY DEF Hint
<1>2. c \in Hintable \cup {"pairing"}
  BY <1>1 DEF Read
<1>3. DOMAIN hints' \subseteq Hintable \cup {"pairing"} /\ DOMAIN held' = DOMAIN hints'
  BY <1>1, <1>2 DEF LiveTypeOK
<1> QED BY <1>1, <1>3 DEF LiveTypeOK

LEMMA ReturnsTypes ==
  ASSUME LiveInv, LiveTypeOK, NEW all \in 0..Cardinality(table),
         NEW limit \in NoLimit..Cardinality(Devices), NEW literal \in BOOLEAN,
         Returns(all, limit, literal)
  PROVE  LiveTypeOK'
<1> DEFINE rows == Fewer(all, Applied(limit, literal))
           wanted == IF limit = NoLimit THEN all ELSE Fewer(all, limit)
<1>1. UNCHANGED <<maxRows, columns, table, unread, hints, held>>
  BY DEF Returns, Asking
<1>2. query' = [query EXCEPT !.at = "answered", !.rows = rows, !.cut = Truncated(rows),
                             !.wanted = wanted, !.told = Told(rows)]
  BY Zenon DEF Returns, Asking
<1>3. query \in Query /\ maxRows \in Nat
  BY DEF LiveInv, LiveTypes
<1>4. all \in Int /\ limit \in Int
  BY DEF NoLimit
<1>5. Applied(limit, literal) \in Int /\ Applied(limit, literal) <= maxRows
  BY <1>3, <1>4 DEF Applied
<1> HIDE DEF wanted
<1>6. rows \in Int /\ rows <= maxRows
  BY <1>3, <1>4, <1>5 DEF Fewer
<1> HIDE DEF rows
<1>7. Told(rows) <= rows
  BY <1>6, LiveAssumption DEF Told, Fewer
<1>8. query'.at = "answered" /\ query'.rows = rows /\ query'.told = Told(rows)
  BY <1>2, <1>3 DEF Query
<1> QED BY <1>1, <1>6, <1>7, <1>8 DEF LiveTypeOK

LEMMA LiveTypesStep == LiveInv /\ LiveTypeOK /\ [LiveNext]_liveVars => LiveTypeOK'
<1> SUFFICES ASSUME LiveInv, LiveTypeOK, [LiveNext]_liveVars PROVE LiveTypeOK'
  OBVIOUS
<1>1. query \in Query /\ maxRows \in Nat
  BY DEF LiveInv, LiveTypes
<1>2. CASE UNCHANGED liveVars
  BY <1>2 DEF liveVars, LiveTypeOK
<1>3. CASE \E d \in Devices : RowComes(d) \/ RowGoes(d)
  BY <1>3 DEF RowComes, RowGoes, LiveTypeOK
<1>4. CASE \E c \in unread : NoHint(c)
  BY <1>4 DEF NoHint, LiveTypeOK
<1>5. ASSUME UNCHANGED <<maxRows, columns, table, unread, hints, held>>,
             query'.at \in {"querying", "refused"}, query'.rows = query.rows, query'.told = query.told
      PROVE  LiveTypeOK'
  BY <1>5 DEF LiveTypeOK
<1>6. ASSUME NEW q \in QuestionsOfData, Templated(q) PROVE LiveTypeOK'
  BY <1>1, <1>5, <1>6 DEF Templated, Asking, Query
<1>7. ASSUME NEW q \in QuestionsOfData, NEW sql \in {"", "unanswerable", "drafted"}, Drafts(q, sql)
      PROVE  LiveTypeOK'
  BY <1>1, <1>5, <1>7 DEF Drafts, Asking, Query
<1>8. CASE Unsafe \/ DatabaseFails
  BY <1>1, <1>5, <1>8 DEF Unsafe, DatabaseFails, Asking, Query
<1>9. CASE AskedAgain
  <2>1. /\ query' = NoQuery /\ unread' = columns \cup {"pairing"}
        /\ hints' = NoHints /\ held' = NoHints
        /\ UNCHANGED <<maxRows, columns, table>>
    BY <1>9 DEF AskedAgain
  <2>2. DOMAIN NoHints = {} /\ NoQuery.at = "hinting" /\ NoQuery.rows = 0 /\ NoQuery.told = 0
    BY DEF NoHints, NoQuery
  <2> QED BY <1>1, <2>1, <2>2 DEF LiveTypeOK
<1> QED
  BY <1>2, <1>3, <1>4, <1>6, <1>7, <1>8, <1>9, HintTypes, ReturnsTypes DEF LiveNext

\* The hints are of columns whose values may be shown, and neither more rows than
\* the connector's cap come back nor more than came back are told the model.
THEOREM LiveTypesHold == LiveSpec => []LiveTypeOK
<1> QED BY LiveInvariance, LiveTypesStart, LiveTypesStep, PTL DEF LiveSpec
-------------------------------------------------------------------------------
(* Retention *)

HasCheckpoint(u) == \E x \in kept : x.table = "checkpoints" /\ x.key = u

\* A run in flight has its checkpoints, unless it kept none or has lost them, and
\* so has a run's row, for as long as it is there.
RetentionInv ==
  /\ \A u \in Runs : run[u] = "running" /\ u \notin early => HasCheckpoint(u)
  /\ \A u \in Runs : run[u] = "unkept" => u \in early
  /\ \A x \in kept : x.table = "agent_run" /\ x.key \notin early => HasCheckpoint(x.key)
  /\ run \in [Runs -> {"none", "running", "unkept", "ended", "failed"}]

LEMMA RetentionStart == RetentionInit => RetentionInv
BY DEF RetentionInit, RetentionInv

\* What is kept grows, by no run's row.
LEMMA MoreKept ==
  ASSUME RetentionInv, UNCHANGED <<run, early>>, kept \subseteq kept',
         \A x \in kept' : x \in kept \/ x.table # "agent_run"
  PROVE  RetentionInv'
BY DEF RetentionInv, HasCheckpoint

LEMMA CheckpointKeeps ==
  ASSUME RetentionInv, NEW u \in Runs, Checkpoint(u) PROVE RetentionInv'
<1> DEFINE new == Row("checkpoints", u, u)
<1>1. new.table = "checkpoints" /\ new.key = u
  BY DEF Row
<1> HIDE DEF new
<1>2. kept' = kept \cup {new} /\ run' = [run EXCEPT ![u] = "running"] /\ early' = early
  BY DEF Checkpoint, new
<1>3. \A v \in Runs : run'[v] = IF v = u THEN "running" ELSE run[v]
  BY <1>2 DEF RetentionInv
<1>4. HasCheckpoint(u)' /\ \A v : HasCheckpoint(v) => HasCheckpoint(v)'
  BY <1>1, <1>2 DEF HasCheckpoint
<1>5. \A x \in kept' : x.table = "agent_run" => x \in kept
  BY <1>1, <1>2
<1> QED BY <1>2, <1>3, <1>4, <1>5 DEF RetentionInv

LEMMA RunEndsKeeps ==
  ASSUME RetentionInv, NEW u \in Runs, RunEnds(u) PROVE RetentionInv'
<1> DEFINE new == Row("agent_run", u, u)
<1>1. new.table = "agent_run" /\ new.key = u
  BY DEF Row
<1> HIDE DEF new
<1>2. kept' = kept \cup {new} /\ run' = [run EXCEPT ![u] = "ended"] /\ early' = early
  BY DEF RunEnds, new
<1>3. \A v \in Runs : run'[v] = IF v = u THEN "ended" ELSE run[v]
  BY <1>2 DEF RetentionInv
<1>4. \A v : HasCheckpoint(v) => HasCheckpoint(v)'
  BY <1>2 DEF HasCheckpoint
<1>5. u \in early \/ HasCheckpoint(u)
  BY DEF RunEnds, RetentionInv
<1>6. \A x \in kept' : x \in kept \/ (x.table = "agent_run" /\ x.key = u)
  BY <1>1, <1>2
<1> QED BY <1>2, <1>3, <1>4, <1>5, <1>6 DEF RetentionInv

\* A run that keeps no checkpoints from here on, or that fails, has no row.
LEMMA NoRowKeeps ==
  ASSUME RetentionInv, NEW u \in Runs, Unkept(u) \/ RunFails(u) PROVE RetentionInv'
<1>1. kept' = kept /\ early \subseteq early'
  BY DEF Unkept, RunFails
<1>2. run' \in [Runs -> {"none", "running", "unkept", "ended", "failed"}]
  BY DEF Unkept, RunFails, RetentionInv
<1>3. \A v \in Runs : run'[v] = "running" => run[v] = "running"
  BY DEF Unkept, RunFails, RetentionInv
<1>4. \A v \in Runs : run'[v] = "unkept" => v \in early'
  BY DEF Unkept, RunFails, RetentionInv
<1> QED BY <1>1, <1>2, <1>3, <1>4 DEF RetentionInv, HasCheckpoint

LEMMA SweepKeeps == ASSUME RetentionInv, Retention PROVE RetentionInv'
<1>1. PICK m \in Batches({x \in In("conversation_message") : Past(x)}),
           c \in Batches({x \in In("conversation") : Past(x)}),
           a \in Batches({x \in In("agent_run") : Past(x)}) :
        \E k \in Batches(Orphans(Remaining(m \cup c \cup a \cup Cascaded(c)))) :
          /\ kept' = (kept \ (m \cup c \cup a \cup Cascaded(c))) \ k
          /\ early' = early \cup {u \in Runs : run[u] = "running" /\ \E x \in k : x.key = u}
          /\ run' = run
  BY Zenon DEF Retention
<1> DEFINE gone == m \cup c \cup a \cup Cascaded(c)
<1>2. PICK k \in Batches(Orphans(Remaining(gone))) :
          /\ kept' = (kept \ gone) \ k
          /\ early' = early \cup {u \in Runs : run[u] = "running" /\ \E x \in k : x.key = u}
          /\ run' = run
  BY <1>1
<1>3. \A S : \A B \in Batches(S) : B \subseteq S
  BY Zenon DEF Batches
<1>4. \A x \in gone : x.table # "checkpoints"
  <2>1. /\ m \subseteq {x \in In("conversation_message") : Past(x)}
        /\ c \subseteq {x \in In("conversation") : Past(x)}
        /\ a \subseteq {x \in In("agent_run") : Past(x)}
    BY <1>3, Zenon
  <2> QED BY <2>1 DEF In, Cascaded
<1> HIDE DEF gone
<1>5. \A x \in k : ~ \E y \in kept \ gone : y.table = "agent_run" /\ y.key = x.key
  <2>1. k \subseteq Orphans(Remaining(gone))
    BY <1>3, Zenon
  <2> QED BY <2>1 DEF Orphans, Remaining
<1>6. ASSUME NEW u, HasCheckpoint(u), \A x \in k : x.key # u PROVE HasCheckpoint(u)'
  BY <1>2, <1>4, <1>6 DEF HasCheckpoint
<1>7. ASSUME NEW u \in Runs, run'[u] = "running", u \notin early' PROVE HasCheckpoint(u)'
  <2>1. run[u] = "running" /\ u \notin early /\ \A x \in k : x.key # u
    BY <1>2, <1>7
  <2> QED BY <1>6, <2>1 DEF RetentionInv
<1>8. ASSUME NEW x \in kept', x.table = "agent_run", x.key \notin early' PROVE HasCheckpoint(x.key)'
  <2>1. x \in kept \ gone /\ x.key \notin early
    BY <1>2, <1>8
  <2>2. \A y \in k : y.key # x.key
    BY <1>5, <1>8, <2>1
  <2> QED BY <1>6, <1>8, <2>1, <2>2 DEF RetentionInv
<1> QED BY <1>2, <1>7, <1>8 DEF RetentionInv

LEMMA ChatKeeps ==
  ASSUME RetentionInv, NEW c \in Chats,
         \/ ChatAnswered(c) \/ ChatFails(c) \/ NewConversation(c) \/ KeepTurn(c)
         \/ \E whole \in BOOLEAN : StreamEnds(c, whole)
         \/ \E k \in Chats : FindConversation(c, k)
  PROVE  RetentionInv'
<1>1. CASE \/ ChatAnswered(c) \/ ChatFails(c)
           \/ \E whole \in BOOLEAN : StreamEnds(c, whole)
           \/ \E k \in Chats : FindConversation(c, k)
  BY <1>1, MoreKept DEF ChatAnswered, ChatFails, StreamEnds, FindConversation
<1>2. CASE NewConversation(c)
  <2> DEFINE conversation == Row("conversation", c, c)
             turn == Row("conversation_message", c, c)
  <2>1. conversation.table = "conversation" /\ turn.table = "conversation_message"
    BY DEF Row
  <2> HIDE DEF conversation, turn
  <2>2. kept' = kept \cup {conversation, turn} /\ UNCHANGED <<run, early>>
    BY <1>2 DEF NewConversation, conversation, turn
  <2> QED BY <2>1, <2>2, MoreKept
<1>3. CASE KeepTurn(c)
  BY <1>3, MoreKept DEF KeepTurn, Row
<1> QED BY <1>1, <1>2, <1>3

LEMMA RetentionStep == RetentionInv /\ [RetentionNext]_retentionVars => RetentionInv'
<1> SUFFICES ASSUME RetentionInv, [RetentionNext]_retentionVars PROVE RetentionInv'
  OBVIOUS
<1>1. CASE UNCHANGED retentionVars \/ NextDay
  BY <1>1, MoreKept DEF retentionVars, NextDay
<1> QED
  BY <1>1, CheckpointKeeps, RunEndsKeeps, NoRowKeeps, SweepKeeps, ChatKeeps DEF RetentionNext

THEOREM RetentionInvariance == RetentionSpec => []RetentionInv
<1> QED BY RetentionStart, RetentionStep, PTL DEF RetentionSpec

\* For any runs and chats, periods and batches: retention takes the checkpoints
\* of no run whose row is there, unless it took them before the row was.
THEOREM CheckpointsAreKept == RetentionSpec => []CheckpointsStay
<1>1. RetentionInv => CheckpointsStay
  BY DEF RetentionInv, HasCheckpoint, CheckpointsStay, In, Keyed
<1> QED BY <1>1, RetentionInvariance, PTL

KeptRow == [table : Tables, key : Chats \cup Runs, of : Chats \cup Runs, born : 0..LastDay]
ChatKind ==
  [at : {"new", "answered", "found", "done", "left", "failed"}, on : SUBSET Chats]

RetentionTypes == RetentionTypeOK /\ chat \in [Chats -> ChatKind]

LEMMA RetentionTypesStart == RetentionInit => RetentionTypes
<1> SUFFICES ASSUME RetentionInit PROVE RetentionTypes
  OBVIOUS
<1>1. 0 \in 0..LastDay
  BY RetentionAssumption
<1>2. Fresh \in ChatKind
  BY DEF Fresh, ChatKind
<1> QED BY <1>1, <1>2 DEF RetentionInit, RetentionTypes, RetentionTypeOK, ChatKind

LEMMA RetentionTypesStep == RetentionTypes /\ [RetentionNext]_retentionVars => RetentionTypes'
<1> SUFFICES ASSUME RetentionTypes, [RetentionNext]_retentionVars PROVE RetentionTypes'
  OBVIOUS
<1>1. /\ day \in 0..LastDay /\ kept \subseteq KeptRow /\ early \subseteq Runs
      /\ run \in [Runs -> {"none", "running", "unkept", "ended", "failed"}]
      /\ chat \in [Chats -> ChatKind]
  BY DEF RetentionTypes, RetentionTypeOK, KeptRow
<1>2. ASSUME day' \in 0..LastDay, kept' \subseteq KeptRow, early' \subseteq Runs,
             run' \in [Runs -> {"none", "running", "unkept", "ended", "failed"}],
             chat' \in [Chats -> ChatKind]
      PROVE  RetentionTypes'
  <2>1. \A c \in Chats :
          /\ chat'[c].at \in {"new", "answered", "found", "done", "left", "failed"}
          /\ chat'[c].on \subseteq Chats
    BY <1>2 DEF ChatKind
  <2> QED BY <1>2, <2>1 DEF RetentionTypes, RetentionTypeOK, KeptRow
<1>3. \A t \in Tables, k, o \in Chats \cup Runs : Row(t, k, o) \in KeptRow
  BY <1>1 DEF Row, KeptRow
<1>4. {"conversation", "conversation_message", "agent_run", "checkpoints"} \subseteq Tables
  BY DEF Tables, Policed
<1>5. CASE UNCHANGED retentionVars
  BY <1>1, <1>2, <1>5 DEF retentionVars
<1>6. CASE NextDay
  <2>1. day' \in 0..LastDay
    BY <1>1, <1>6, RetentionAssumption DEF NextDay
  <2> QED BY <1>1, <1>2, <1>6, <2>1 DEF NextDay
<1>7. CASE Retention
  BY <1>1, <1>2, <1>7 DEF Retention
<1>8. ASSUME NEW c \in Chats, NEW k \in Chats
      PROVE  [chat EXCEPT ![c].at = "found", ![c].on = {k}] \in [Chats -> ChatKind]
  <2> DEFINE first == [chat EXCEPT ![c].at = "found"]
             both == [first EXCEPT ![c].on = {k}]
  <2>1. first \in [Chats -> ChatKind]
    BY <1>1 DEF ChatKind
  <2>2. {k} \in SUBSET Chats
    OBVIOUS
  <2> HIDE DEF first
  <2>3. both \in [Chats -> ChatKind]
    BY <2>1, <2>2 DEF ChatKind
  <2>4. both = [chat EXCEPT ![c].at = "found", ![c].on = {k}]
    BY DEF first
  <2> HIDE DEF both
  <2> QED BY <2>3, <2>4
<1>9. ASSUME NEW c \in Chats, NEW at, at \in {"answered", "found", "done", "left", "failed"}
      PROVE  [chat EXCEPT ![c].at = at] \in [Chats -> ChatKind]
  BY <1>1, <1>9 DEF ChatKind
<1>10. ASSUME NEW c \in Chats, ChatAnswered(c) \/ ChatFails(c) PROVE RetentionTypes'
  BY <1>1, <1>2, <1>9, <1>10 DEF ChatAnswered, ChatFails
<1>11. ASSUME NEW c \in Chats, NEW whole \in BOOLEAN, StreamEnds(c, whole) PROVE RetentionTypes'
  BY <1>1, <1>2, <1>9, <1>11 DEF StreamEnds
<1>12. ASSUME NEW c \in Chats, NEW k \in Chats, FindConversation(c, k) PROVE RetentionTypes'
  <2>1. chat' \in [Chats -> ChatKind]
    BY <1>8, <1>12 DEF FindConversation
  <2> QED BY <1>1, <1>2, <1>12, <2>1 DEF FindConversation
<1>13. ASSUME NEW c \in Chats, NewConversation(c) PROVE RetentionTypes'
  <2>1. kept' \subseteq KeptRow
    BY <1>1, <1>3, <1>4, <1>13 DEF NewConversation
  <2>2. chat' \in [Chats -> ChatKind]
    BY <1>9, <1>13 DEF NewConversation, Done
  <2> QED BY <1>1, <1>2, <1>13, <2>1, <2>2 DEF NewConversation
<1>14. ASSUME NEW c \in Chats, KeepTurn(c) PROVE RetentionTypes'
  <2>1. chat[c].on \subseteq Chats
    BY <1>1 DEF ChatKind
  <2>2. kept' \subseteq KeptRow
    <3>1. \A k \in chat[c].on : Row("conversation_message", c, k) \in KeptRow
      BY <1>3, <1>4, <2>1
    <3> QED BY <1>1, <1>14, <3>1 DEF KeepTurn
  <2>3. chat' \in [Chats -> ChatKind]
    BY <1>9, <1>14 DEF KeepTurn, Done
  <2> QED BY <1>1, <1>2, <1>14, <2>2, <2>3 DEF KeepTurn
<1>15. ASSUME NEW u \in Runs, Checkpoint(u) \/ Unkept(u) \/ RunEnds(u) \/ RunFails(u)
       PROVE  RetentionTypes'
  <2>1. kept' \subseteq KeptRow
    BY <1>1, <1>3, <1>4, <1>15 DEF Checkpoint, Unkept, RunEnds, RunFails
  <2>2. run' \in [Runs -> {"none", "running", "unkept", "ended", "failed"}]
    BY <1>1, <1>15 DEF Checkpoint, Unkept, RunEnds, RunFails
  <2>3. early' \subseteq Runs
    BY <1>1, <1>15 DEF Checkpoint, Unkept, RunEnds, RunFails
  <2>4. chat' = chat /\ day' = day
    BY <1>15 DEF Checkpoint, Unkept, RunEnds, RunFails
  <2> QED BY <1>1, <1>2, <2>1, <2>2, <2>3, <2>4
<1> QED
  BY <1>5, <1>6, <1>7, <1>10, <1>11, <1>12, <1>13, <1>14, <1>15 DEF RetentionNext

\* Only rows of the tables there are, of chats and runs there are, are ever kept.
THEOREM RetentionTypesHold == RetentionSpec => []RetentionTypeOK
<1>1. RetentionTypes => RetentionTypeOK
  BY DEF RetentionTypes
<1> QED BY <1>1, RetentionTypesStart, RetentionTypesStep, PTL DEF RetentionSpec
-------------------------------------------------------------------------------
(* What a run of retention leaves over *)

\* There are only so many rows, and a request is on one conversation at most.
RowsInv ==
  /\ IsFiniteSet(kept)
  /\ chat \in [Chats -> [at : {"new", "answered", "found", "done", "left", "failed"},
                         on : {{}} \cup {{k} : k \in Chats}]]

LEMMA RowsStart == RetentionInit => RowsInv
BY FS_EmptySet DEF RetentionInit, RowsInv, Fresh

LEMMA RowsStep == RowsInv /\ [RetentionNext]_retentionVars => RowsInv'
<1> SUFFICES ASSUME RowsInv, [RetentionNext]_retentionVars PROVE RowsInv'
  OBVIOUS
<1>1. CASE UNCHANGED retentionVars \/ NextDay
  BY <1>1 DEF retentionVars, NextDay, RowsInv
<1>2. CASE Retention
  <2>1. kept' \subseteq kept /\ chat' = chat
    BY <1>2 DEF Retention
  <2> QED BY <2>1, FS_Subset DEF RowsInv
<1>3. ASSUME NEW c \in Chats,
             \/ ChatAnswered(c) \/ ChatFails(c)
             \/ \E whole \in BOOLEAN : StreamEnds(c, whole)
             \/ \E k \in Chats : FindConversation(c, k)
      PROVE  RowsInv'
  BY <1>3 DEF ChatAnswered, ChatFails, StreamEnds, FindConversation, RowsInv
<1>4. ASSUME NEW c \in Chats, NewConversation(c) PROVE RowsInv'
  <2> DEFINE conversation == Row("conversation", c, c)
             turn == Row("conversation_message", c, c)
  <2>1. kept' = (kept \cup {conversation}) \cup {turn} /\ Done(c)
    BY <1>4 DEF NewConversation
  <2> HIDE DEF conversation, turn
  <2>2. IsFiniteSet(kept')
    BY <2>1, FS_AddElement DEF RowsInv
  <2> QED BY <2>1, <2>2 DEF Done, RowsInv
<1>5. ASSUME NEW c \in Chats, KeepTurn(c) PROVE RowsInv'
  <2>1. CASE kept' = kept
    BY <1>5, <2>1 DEF KeepTurn, Done, RowsInv
  <2>2. CASE kept' = kept \cup {Row("conversation_message", c, k) : k \in chat[c].on}
    <3>1. PICK k : chat[c].on \in {{}, {k}}
      <4>1. chat[c].on \in {{}} \cup {{k} : k \in Chats}
        BY DEF RowsInv
      <4> QED BY <4>1, Zenon
    <3> DEFINE turn == Row("conversation_message", c, k)
    <3>2. kept' \in {kept, kept \cup {turn}}
      BY <2>2, <3>1
    <3> HIDE DEF turn
    <3>3. IsFiniteSet(kept')
      BY <3>2, FS_AddElement DEF RowsInv
    <3> QED BY <1>5, <3>3 DEF KeepTurn, Done, RowsInv
  <2> QED BY <1>5, <2>1, <2>2 DEF KeepTurn
<1>6. ASSUME NEW u \in Runs, Checkpoint(u) \/ RunEnds(u) PROVE RowsInv'
  <2>1. PICK x : kept' = kept \cup {x}
    BY <1>6 DEF Checkpoint, RunEnds
  <2> QED BY <1>6, <2>1, FS_AddElement DEF Checkpoint, RunEnds, RowsInv
<1>7. ASSUME NEW u \in Runs, Unkept(u) \/ RunFails(u) PROVE RowsInv'
  BY <1>7 DEF Unkept, RunFails, RowsInv
<1> QED BY <1>1, <1>2, <1>3, <1>4, <1>5, <1>6, <1>7 DEF RetentionNext

\* One statement on rows S of a table: it takes a batch, or all of them.
LEMMA BatchTakes ==
  ASSUME IsFiniteSet(kept), kept' \subseteq kept, NEW t, NEW S, S \subseteq In(t),
         NEW m \in Batches(S), m \cap kept' = {}
  PROVE  Cardinality(In(t) \ In(t)') >= Batch \/ S \cap kept' = {}
<1>1. In(t) \subseteq kept
  BY DEF In
<1>2. IsFiniteSet(S) /\ m \subseteq S
  BY <1>1, FS_Subset DEF Batches
<1>3. Cardinality(S) \in Nat /\ Batch \in Nat
  BY <1>2, FS_CardinalityType, RetentionAssumption
<1>4. CASE Cardinality(S) < Batch
  <2>1. Cardinality(m) = Cardinality(S)
    BY <1>4 DEF Batches
  <2>2. m = S
    BY <1>2, <2>1, FS_Subset
  <2> QED BY <2>2
<1>5. CASE ~(Cardinality(S) < Batch)
  <2> DEFINE taken == In(t) \ In(t)'
  <2>1. Cardinality(m) = Batch
    BY <1>5 DEF Batches
  <2>2. m \subseteq taken
    BY <1>2 DEF In
  <2>3. IsFiniteSet(taken)
    BY <1>1, FS_Subset
  <2>4. Cardinality(m) <= Cardinality(taken)
    BY <2>2, <2>3, FS_Subset
  <2>5. Cardinality(taken) \in Nat
    BY <2>3, FS_CardinalityType
  <2> HIDE DEF taken
  <2>6. Cardinality(taken) >= Batch
    BY <1>3, <2>1, <2>4, <2>5
  <2> QED BY <2>6 DEF taken
<1> QED BY <1>4, <1>5

\* A table by its age.
LEMMA PolicySweeps ==
  ASSUME IsFiniteSet(kept), kept' \subseteq kept, NEW t,
         NEW m \in Batches({x \in In(t) : Past(x)}), m \cap kept' = {}
  PROVE  Cardinality(In(t) \ In(t)') >= Batch \/ \A x \in In(t)' : ~Past(x)
<1> DEFINE S == {x \in In(t) : Past(x)}
<1>1. S \subseteq In(t)
  OBVIOUS
<1>2. S \cap kept' = {} => \A x \in In(t)' : ~Past(x)
  BY DEF In
<1> HIDE DEF S
<1>3. Cardinality(In(t) \ In(t)') >= Batch \/ S \cap kept' = {}
  BY <1>1, BatchTakes DEF S
<1> QED BY <1>2, <1>3

LEMMA Sweeps ==
  ASSUME RowsInv, Retention
  PROVE  /\ \A t \in Policed :
              \/ Cardinality(In(t) \ In(t)') >= Batch
              \/ \A x \in In(t)' : ~Past(x)
         /\ \/ Cardinality(In("checkpoints") \ In("checkpoints")') >= Batch
            \/ Orphans(kept') = {}
<1>1. PICK m \in Batches({x \in In("conversation_message") : Past(x)}),
           c \in Batches({x \in In("conversation") : Past(x)}),
           a \in Batches({x \in In("agent_run") : Past(x)}) :
        \E k \in Batches(Orphans(Remaining(m \cup c \cup a \cup Cascaded(c)))) :
          kept' = (kept \ (m \cup c \cup a \cup Cascaded(c))) \ k
  BY Zenon DEF Retention
<1> DEFINE gone == m \cup c \cup a \cup Cascaded(c)
           left == kept \ gone
<1>2. PICK k \in Batches(Orphans(left)) : kept' = left \ k
  BY <1>1 DEF Remaining
<1>3. IsFiniteSet(kept) /\ kept' \subseteq kept
  BY <1>2 DEF RowsInv
<1>4. m \cap kept' = {} /\ c \cap kept' = {} /\ a \cap kept' = {}
  BY <1>2
<1>5. left \subseteq kept
  OBVIOUS
<1> HIDE DEF gone, left
<1>6. ASSUME NEW t \in Policed
      PROVE  Cardinality(In(t) \ In(t)') >= Batch \/ \A x \in In(t)' : ~Past(x)
  <2>1. CASE t = "conversation_message"
    <3>1. m \in Batches({x \in In(t) : Past(x)})
      BY <2>1
    <3> QED BY <1>3, <1>4, <3>1, PolicySweeps
  <2>2. CASE t = "conversation"
    <3>1. c \in Batches({x \in In(t) : Past(x)})
      BY <2>2
    <3> QED BY <1>3, <1>4, <3>1, PolicySweeps
  <2>3. CASE t = "agent_run"
    <3>1. a \in Batches({x \in In(t) : Past(x)})
      BY <2>3
    <3> QED BY <1>3, <1>4, <3>1, PolicySweeps
  <2> QED BY <2>1, <2>2, <2>3 DEF Policed
<1>7. \/ Cardinality(In("checkpoints") \ In("checkpoints")') >= Batch
      \/ Orphans(kept') = {}
  <2> DEFINE S == Orphans(left)
  <2>1. S \subseteq In("checkpoints")
    BY <1>5 DEF Orphans, In
  <2>2. k \subseteq S /\ k \cap kept' = {}
    BY <1>2 DEF Batches
\* The purge takes no run's row, so what is an orphan after it was one before.
  <2>3. S \cap kept' = {} => Orphans(kept') = {}
    <3>1. \A y \in left : y.table = "agent_run" => y \in kept'
      BY <1>2, <2>2 DEF Orphans
    <3> QED BY <1>2, <3>1 DEF Orphans
  <2> HIDE DEF S
  <2>4. Cardinality(In("checkpoints") \ In("checkpoints")') >= Batch \/ S \cap kept' = {}
    BY <1>2, <1>3, <2>1, <2>2, BatchTakes DEF S
  <2> QED BY <2>3, <2>4
<1> QED BY <1>6, <1>7

\* For any rows, periods and batches: a run of retention that took less than a
\* batch of a table leaves nothing there that is past its time, whatever the
\* cascade and the purge of checkpoints took besides.
THEOREM RetentionSweeps == RetentionSpec => SweptOrFull
<1>1. RowsInv /\ [RetentionNext]_retentionVars =>
        [Retention =>
           /\ \A t \in Policed :
                \/ Cardinality(In(t) \ In(t)') >= Batch
                \/ \A x \in In(t)' : ~Past(x)
           /\ \/ Cardinality(In("checkpoints") \ In("checkpoints")') >= Batch
              \/ Orphans(kept') = {}]_retentionVars
  BY Sweeps
<1> QED BY <1>1, RowsStart, RowsStep, PTL DEF RetentionSpec, SweptOrFull

-------------------------------------------------------------------------------
(* Ask *)

Fields == {"at", "tools", "up", "meant", "pending", "made", "cost", "spent", "row", "billed", "lost",
           "unaudited"}
OnBooks == {"direct", "one database", "loop", "acting", "ending"}

\* While a request is under way, the books and what they can never know of are the
\* bill; then the books are what is charged.
BooksKept ==
  /\ visit.at \in OnBooks \cup {"recording"} => visit.cost + visit.lost = visit.billed
  /\ visit.at \in OnBooks \cup {"recording", "mcp"} => visit.row = {}
  /\ visit.at = "recording" => visit.spent = visit.cost

\* Whatever is asked, the caller's door, labels and listing stay in their domains.
CallerTyped ==
  /\ safeSlug \in [Numbers -> SafeSlugs] /\ allowed \subseteq Numbers \cup {Warehouse}
  /\ condition \in [Numbers -> Conditions] /\ door \in {"agent", "mcp"} /\ IsTools(listing)

VisitTyped ==
  /\ DOMAIN visit = Fields /\ IsTools(visit.tools)
  /\ visit.billed \in Nat /\ visit.cost \in Nat /\ visit.lost \in Nat /\ visit.spent \in Nat
  /\ visit.at \in OnBooks \cup {"recording", "mcp", "none", "answered", "failed"}

AskInv == CallerTyped /\ VisitTyped /\ BooksKept /\ EachIsOffered /\ BilledIsRecorded

\* No two connectors that can be reached have one tool's name.
LEMMA NamesDiffer ==
  ASSUME NEW s \in Built, NEW t \in Built, ToolName(s) = ToolName(t) PROVE s = t
<1>1. s \in Nat \ {0} /\ t \in Nat \ {0}
  BY AskAssumption DEF Built, Numbers
<1>2. safeSlug[s] = safeSlug[t]
  BY DEF ToolName
<1>3. ~(t < s)
  <2> SUFFICES ASSUME t < s PROVE FALSE
    OBVIOUS
  <2>1. ToolName(s)[2] = s
    BY <1>2 DEF ToolName
  <2>2. ToolName(t)[2] \in {t, 0}
    BY DEF ToolName, Warehouse
  <2> QED BY <1>1, <2>1, <2>2
<1>4. ~(s < t)
  <2> SUFFICES ASSUME s < t PROVE FALSE
    OBVIOUS
  <2>1. ToolName(t)[2] = t
    BY <1>2 DEF ToolName
  <2>2. ToolName(s)[2] \in {s, 0}
    BY DEF ToolName, Warehouse
  <2> QED BY <1>1, <2>1, <2>2
<1> QED BY <1>1, <1>3, <1>4

\* So a tool that is not the warehouse's is behind its own name.
LEMMA ToolsHave ==
  ASSUME NEW warehouse \in BOOLEAN, NEW s \in Built, safeSlug[s] # Database
  PROVE  s \in Range(Offered(Tools(warehouse)))
<1> DEFINE n == ToolName(s)
           tools == Tools(warehouse)
<1>1. s \in allowed /\ s \in Nat
  BY AskAssumption DEF Built, Numbers
<1>2. n # <<Database, Warehouse>>
  BY DEF ToolName
<1>3. /\ n \in DOMAIN tools
      /\ tools[n] =
           CHOOSE t \in Built : ToolName(t) = n /\ \A u \in Built : ToolName(u) = n => u <= t
  BY <1>2 DEF Tools
<1>4. ToolName(s) = n /\ \A u \in Built : ToolName(u) = n => u <= s
  BY <1>1, NamesDiffer
<1>5. \A t \in Built : ToolName(t) = n => t = s
  BY NamesDiffer
<1>6. tools[n] = s
  BY <1>3, <1>4, <1>5
<1> HIDE DEF n, tools
<1>7. n \in {x \in DOMAIN tools : tools[x] \in allowed}
  BY <1>1, <1>3, <1>6
<1>8. Offered(tools)[n] = s /\ n \in DOMAIN Offered(tools)
  BY <1>6, <1>7 DEF Offered, Restrict
<1> QED BY <1>8 DEF Range, tools

LEMMA NoToolsAreTools == IsTools(NoTools)
BY DEF NoTools, IsTools

\* What a request may be offered are tools, each of a source that is stored.
LEMMA OfferedAreTools ==
  ASSUME CallerTyped, NEW warehouse \in BOOLEAN PROVE IsTools(Offered(Tools(warehouse)))
<1> DEFINE tools == Tools(warehouse)
           names == {ToolName(s) : s \in Built} \cup
                    IF warehouse THEN {<<Database, Warehouse>>} ELSE {}
           Source(n) == CHOOSE s \in Built :
                          ToolName(s) = n /\ \A t \in Built : ToolName(t) = n => t <= s
<1>1. \A s \in Built : s \in Numbers /\ s \in Nat
  BY AskAssumption DEF Built, Numbers
<1>2. \A s \in Built : ToolName(s) \in Names
  BY <1>1 DEF ToolName, Names, CallerTyped
<1>3. <<Database, Warehouse>> \in Names
  BY AskAssumption DEF Names
<1>4. names \subseteq Names
  BY <1>2, <1>3
<1>5. tools = [n \in names |->
                 IF warehouse /\ n = <<Database, Warehouse>> THEN Warehouse ELSE Source(n)]
  BY Zenon DEF Tools
<1>6. ASSUME NEW n \in names, ~(warehouse /\ n = <<Database, Warehouse>>) PROVE Source(n) \in Numbers
  <2>1. PICK s \in Built : ToolName(s) = n
    BY <1>6
  <2>2. \A t \in Built : ToolName(t) = n => t <= s
    BY <1>1, <2>1, NamesDiffer
  <2>3. Source(n) \in Built
    BY <2>1, <2>2
  <2> QED BY <1>1, <2>3
<1> HIDE DEF names, Source
<1>7. DOMAIN tools = names /\ \A n \in names : tools[n] \in Numbers \cup {Warehouse}
  BY <1>5, <1>6
<1> HIDE DEF tools
<1>8. \A n \in DOMAIN Offered(tools) : n \in DOMAIN tools /\ Offered(tools)[n] = tools[n]
  BY DEF Offered, Restrict
<1> QED BY <1>4, <1>7, <1>8 DEF IsTools, tools

LEMMA NoVisitIs ==
  /\ DOMAIN NoVisit = Fields /\ NoVisit.tools = NoTools /\ NoVisit.up = {} /\ NoVisit.at = "none"
  /\ NoVisit.billed = 0 /\ NoVisit.cost = 0 /\ NoVisit.lost = 0 /\ NoVisit.spent = 0
BY DEF NoVisit, Fields

LEMMA AskStart == AskInit => AskInv
<1> SUFFICES ASSUME AskInit PROVE AskInv
  OBVIOUS
<1>1. condition \in [Numbers -> Conditions]
  BY DEF AskInit, Conditions
<1>2. CallerTyped
  BY <1>1, NoToolsAreTools DEF AskInit, CallerTyped
<1>3. visit = NoVisit
  BY DEF AskInit
<1>4. VisitTyped
  BY <1>3, NoVisitIs, NoToolsAreTools DEF VisitTyped
<1>5. BooksKept /\ BilledIsRecorded
  BY <1>3, NoVisitIs DEF BooksKept, BilledIsRecorded, OnBooks
<1>6. EachIsOffered
  BY <1>3, NoVisitIs DEF EachIsOffered
<1> QED BY <1>2, <1>4, <1>5, <1>6 DEF AskInv

LEMMA CallerTypedStep == CallerTyped /\ [AskNext]_askVars => CallerTyped'
<1> SUFFICES ASSUME CallerTyped, [AskNext]_askVars PROVE CallerTyped'
  OBVIOUS
<1>1. CASE UNCHANGED <<door, safeSlug, allowed, condition, listing>>
  BY <1>1 DEF CallerTyped, IsTools
<1>2. ASSUME NEW s \in Numbers, NEW how \in Conditions, ConditionChanges(s, how) PROVE CallerTyped'
  <2>1. condition' \in [Numbers -> Conditions]
    BY <1>2 DEF ConditionChanges, CallerTyped
  <2> QED BY <1>2, <2>1 DEF ConditionChanges, CallerTyped, IsTools
<1>3. ASSUME NEW warehouse \in BOOLEAN, ListTools(warehouse) PROVE CallerTyped'
  <2>1. /\ listing' = Offered(Tools(warehouse))
        /\ UNCHANGED <<door, safeSlug, allowed, condition>>
    BY <1>3 DEF ListTools
  <2>2. IsTools(listing')
    BY <2>1, OfferedAreTools
  <2> QED BY <2>1, <2>2 DEF CallerTyped, IsTools
<1>4. CASE UNCHANGED askVars
  BY <1>1, <1>4 DEF askVars
<1>5. ASSUME NEW v, Going(v) PROVE CallerTyped'
  BY <1>1, <1>5 DEF Going
<1> QED
  BY <1>2, <1>3, <1>4, <1>5
     DEF AskNext, AskAgent, CallTool, CallEnds, AnswerDirectly, PlannerChooses, LoopBreaks,
         AnswerFromOne, ToolRun, RunsNothing, PlannerEnds, BudgetHalts, RecordSpend, RecordRun,
         Fails500, Leaves

LEMMA BeginsHas ==
  ASSUME NEW warehouse, NEW at
  PROVE  /\ DOMAIN Begins(warehouse, at) = Fields
         /\ Begins(warehouse, at).tools = Offered(Tools(warehouse))
         /\ Begins(warehouse, at).up = Built
         /\ Begins(warehouse, at).at = at
         /\ \A f \in Fields \ {"at", "tools", "up"} : Begins(warehouse, at)[f] = NoVisit[f]
<1> DEFINE tools == Offered(Tools(warehouse))
<1>1. DOMAIN NoVisit = Fields
  BY DEF NoVisit, Fields
<1>2. Begins(warehouse, at) = [NoVisit EXCEPT !.at = at, !.tools = tools, !.up = Built]
  BY Zenon DEF Begins
<1> HIDE DEF tools
<1>3. /\ DOMAIN Begins(warehouse, at) = Fields
      /\ Begins(warehouse, at).tools = tools
      /\ Begins(warehouse, at).up = Built
      /\ Begins(warehouse, at).at = at
      /\ \A f \in Fields \ {"at", "tools", "up"} : Begins(warehouse, at)[f] = NoVisit[f]
  BY <1>1, <1>2 DEF Fields
<1> QED BY <1>3 DEF tools

\* A request begins with every connector that could be reached.
LEMMA Begun ==
  ASSUME AskInv, CallerTyped', NEW warehouse \in BOOLEAN, UNCHANGED safeSlug,
         DOMAIN visit' = Fields, visit'.at \in OnBooks \cup {"mcp"},
         visit'.tools = Offered(Tools(warehouse)), visit'.up = Built,
         \A f \in Fields \ {"at", "tools", "up", "meant"} : visit'[f] = NoVisit[f]
  PROVE  AskInv'
<1> DEFINE tools == Offered(Tools(warehouse))
<1>1. \A s \in Built : s \in Range(tools) \/ safeSlug[s] = Database
  BY ToolsHave
<1>2. IsTools(tools)
  BY OfferedAreTools DEF AskInv
<1>3. visit'.tools = tools
  OBVIOUS
<1> HIDE DEF tools
<1>4. NoVisit.row = {} /\ NoVisit.billed = 0 /\ NoVisit.cost = 0 /\ NoVisit.lost = 0 /\ NoVisit.spent = 0
  BY DEF NoVisit
<1>5. /\ visit'.row = {} /\ visit'.billed = 0 /\ visit'.cost = 0 /\ visit'.lost = 0
      /\ visit'.spent = 0
  BY <1>4 DEF Fields
<1>6. EachIsOffered'
  BY <1>1, <1>3 DEF EachIsOffered
<1>7. VisitTyped'
  BY <1>2, <1>3, <1>5 DEF VisitTyped, IsTools
<1>8. visit'.cost + visit'.lost = visit'.billed
  BY <1>5
<1>9. visit'.at # "recording" /\ visit'.at # "answered"
  BY DEF OnBooks
<1>10. BooksKept' /\ BilledIsRecorded'
  BY <1>5, <1>8, <1>9, Zenon DEF BooksKept, BilledIsRecorded
<1> QED BY <1>6, <1>7, <1>10 DEF AskInv

LEMMA AskAgentKeeps ==
  ASSUME AskInv, CallerTyped', NEW warehouse \in BOOLEAN, NEW q \in Features, AskAgent(q, warehouse)
  PROVE  AskInv'
<1> DEFINE v == Begins(warehouse, "asked")
           route == Route(q, v.tools)
<1>1. visit' = [v EXCEPT !.at = route] /\ UNCHANGED safeSlug
  BY Zenon DEF AskAgent, Going
<1>2. route \in OnBooks
  BY DEF Route, OnBooks
<1>3. /\ DOMAIN v = Fields /\ v.tools = Offered(Tools(warehouse)) /\ v.up = Built
      /\ \A f \in Fields \ {"at", "tools", "up"} : v[f] = NoVisit[f]
  BY BeginsHas
<1> HIDE DEF route, v
<1>4. /\ DOMAIN visit' = Fields /\ visit'.at = route
      /\ \A f \in Fields \ {"at"} : visit'[f] = v[f]
  BY <1>1, <1>3 DEF Fields
<1>5. /\ visit'.tools = v.tools /\ visit'.up = v.up
      /\ \A f \in Fields \ {"at", "tools", "up", "meant"} : visit'[f] = NoVisit[f]
  BY <1>3, <1>4 DEF Fields
<1> QED BY <1>1, <1>2, <1>3, <1>4, <1>5, Begun

LEMMA CallToolKeeps ==
  ASSUME AskInv, CallerTyped', NEW warehouse \in BOOLEAN, NEW n, CallTool(n, warehouse) PROVE AskInv'
<1> DEFINE v == Begins(warehouse, "mcp")
<1>1. visit' = [v EXCEPT !.meant = {n}] /\ UNCHANGED safeSlug
  BY Zenon DEF CallTool, Going
<1>2. /\ DOMAIN v = Fields /\ v.tools = Offered(Tools(warehouse)) /\ v.up = Built /\ v.at = "mcp"
      /\ \A f \in Fields \ {"at", "tools", "up"} : v[f] = NoVisit[f]
  BY BeginsHas
<1> HIDE DEF v
<1>3. DOMAIN visit' = Fields /\ \A f \in Fields \ {"meant"} : visit'[f] = v[f]
  BY <1>1, <1>2 DEF Fields
<1>4. /\ visit'.tools = v.tools /\ visit'.up = v.up /\ visit'.at = v.at
      /\ \A f \in Fields \ {"at", "tools", "up", "meant"} : visit'[f] = NoVisit[f]
  BY <1>2, <1>3 DEF Fields
<1> QED BY <1>1, <1>2, <1>3, <1>4, Begun

\* A request under way goes on, with the tools it has.
LEMMA Goes ==
  ASSUME AskInv, CallerTyped', UNCHANGED safeSlug, DOMAIN visit' = Fields,
         visit'.tools = visit.tools, visit'.up = visit.up,
         visit'.billed \in Nat, visit'.cost \in Nat, visit'.lost \in Nat, visit'.spent \in Nat,
         visit'.at \in OnBooks \cup {"recording", "answered", "failed"},
         BooksKept', BilledIsRecorded'
  PROVE  AskInv'
<1>1. EachIsOffered'
  BY DEF AskInv, EachIsOffered
<1>2. VisitTyped'
  BY DEF AskInv, VisitTyped, IsTools
<1> QED BY <1>1, <1>2 DEF AskInv

\* What is billed is on the books, or lost.
LEMMA BilledGoes ==
  ASSUME AskInv, CallerTyped', UNCHANGED safeSlug, visit.at \in OnBooks,
         NEW a \in OnBooks, NEW b \in Nat, NEW c \in Nat, NEW l \in Nat, b = c + l,
         DOMAIN visit' = Fields, visit'.tools = visit.tools, visit'.up = visit.up, visit'.at = a,
         visit'.billed = visit.billed + b, visit'.cost = visit.cost + c,
         visit'.lost = visit.lost + l, visit'.spent = visit.spent, visit'.row = visit.row
  PROVE  AskInv'
<1>1. /\ visit.billed \in Nat /\ visit.cost \in Nat /\ visit.lost \in Nat /\ visit.spent \in Nat
      /\ visit.cost + visit.lost = visit.billed /\ visit.row = {}
  BY DEF AskInv, VisitTyped, BooksKept
<1>2. /\ visit'.billed \in Nat /\ visit'.cost \in Nat /\ visit'.lost \in Nat
      /\ visit'.spent \in Nat /\ visit'.cost + visit'.lost = visit'.billed
  BY <1>1
<1>3. BooksKept' /\ BilledIsRecorded'
  BY <1>1, <1>2 DEF BooksKept, BilledIsRecorded, OnBooks
<1> QED BY <1>2, <1>3, Goes

\* A tool is run: what its result carries, and what it does not, is its bill.
LEMMA RanHas ==
  ASSUME AskInv, NEW how, NEW bill \in {0, 1}
  PROVE  \E b \in Nat, c \in Nat, l \in Nat :
           /\ b = c + l
           /\ DOMAIN Ran(visit, how, bill) = Fields
           /\ Ran(visit, how, bill).billed = visit.billed + b
           /\ Ran(visit, how, bill).cost = visit.cost + c
           /\ Ran(visit, how, bill).lost = visit.lost + l
           /\ \A f \in Fields \ {"unaudited", "billed", "cost", "lost"} :
                Ran(visit, how, bill)[f] = visit[f]
<1> DEFINE b == IF how \in Drafting THEN bill ELSE 0
           c == Carried(how, bill)
           l == IF how = "undrafted" THEN bill ELSE 0
           u == visit.unaudited \/ how \in Queries \ Audits
<1>1. b \in Nat /\ c \in Nat /\ l \in Nat /\ b = c + l
  BY DEF Carried, Drafting
<1>2. DOMAIN visit = Fields
  BY DEF AskInv, VisitTyped
<1>3. Ran(visit, how, bill) = [visit EXCEPT !.unaudited = u, !.billed = visit.billed + b,
                                            !.cost = visit.cost + c, !.lost = visit.lost + l]
  BY <1>2 DEF Ran, Fields
<1> HIDE DEF b, c, l, u
<1>4. /\ DOMAIN Ran(visit, how, bill) = Fields
      /\ Ran(visit, how, bill).billed = visit.billed + b
      /\ Ran(visit, how, bill).cost = visit.cost + c
      /\ Ran(visit, how, bill).lost = visit.lost + l
      /\ \A f \in Fields \ {"unaudited", "billed", "cost", "lost"} :
           Ran(visit, how, bill)[f] = visit[f]
  BY <1>2, <1>3 DEF Fields
<1> QED BY <1>1, <1>4

LEMMA RanGoes ==
  ASSUME AskInv, CallerTyped', UNCHANGED safeSlug, visit.at \in OnBooks, NEW a \in OnBooks,
         NEW how, NEW bill \in {0, 1}, DOMAIN visit' = Fields, visit'.at = a,
         \A f \in Fields \ {"at", "pending", "made"} : visit'[f] = Ran(visit, how, bill)[f]
  PROVE  AskInv'
<1> DEFINE v == Ran(visit, how, bill)
<1>1. PICK b \in Nat, c \in Nat, l \in Nat :
        /\ b = c + l /\ DOMAIN v = Fields
        /\ v.billed = visit.billed + b /\ v.cost = visit.cost + c /\ v.lost = visit.lost + l
        /\ \A f \in Fields \ {"unaudited", "billed", "cost", "lost"} : v[f] = visit[f]
  BY RanHas
<1> HIDE DEF v
<1>2. /\ v.tools = visit.tools /\ v.up = visit.up /\ v.spent = visit.spent /\ v.row = visit.row
  BY <1>1 DEF Fields
<1>3. \A f \in {"tools", "up", "spent", "row", "billed", "cost", "lost"} : visit'[f] = v[f]
  BY DEF Fields, v
<1>4. /\ visit'.tools = visit.tools /\ visit'.up = visit.up /\ visit'.spent = visit.spent
      /\ visit'.row = visit.row /\ visit'.billed = visit.billed + b
      /\ visit'.cost = visit.cost + c /\ visit'.lost = visit.lost + l
  BY <1>1, <1>2, <1>3
<1> QED BY <1>1, <1>4, BilledGoes

LEMMA AskStep == AskInv /\ [AskNext]_askVars => AskInv'
<1> SUFFICES ASSUME AskInv, [AskNext]_askVars PROVE AskInv'
  OBVIOUS
<1>1. /\ DOMAIN visit = Fields
      /\ visit.billed \in Nat /\ visit.cost \in Nat /\ visit.lost \in Nat /\ visit.spent \in Nat
  BY DEF AskInv, VisitTyped
<1>0. CallerTyped'
  BY CallerTypedStep DEF AskInv
<1>2. CASE UNCHANGED <<visit, safeSlug>>
  BY <1>0, <1>2 DEF AskInv, VisitTyped, IsTools, BooksKept, EachIsOffered, BilledIsRecorded
<1>3. CASE Leaves
  <2>1. visit' = NoVisit
    BY <1>3 DEF Leaves, Going
  <2>2. VisitTyped'
    BY <2>1, NoVisitIs, NoToolsAreTools DEF VisitTyped, IsTools
  <2>3. BooksKept' /\ BilledIsRecorded'
    BY <2>1, NoVisitIs DEF BooksKept, BilledIsRecorded, OnBooks
  <2>4. EachIsOffered'
    BY <2>1, NoVisitIs DEF EachIsOffered
  <2> QED BY <1>0, <2>2, <2>3, <2>4 DEF AskInv
<1>4. ASSUME NEW bill \in {0, 1}, AnswerDirectly(bill) PROVE AskInv'
  <2>1. /\ visit' = [visit EXCEPT !.at = "ending", !.billed = @ + bill, !.cost = @ + bill]
        /\ UNCHANGED safeSlug /\ visit.at \in OnBooks
    BY <1>4 DEF AnswerDirectly, Going, OnBooks
  <2>2. /\ DOMAIN visit' = Fields /\ visit'.at = "ending" /\ visit'.tools = visit.tools
        /\ visit'.up = visit.up /\ visit'.spent = visit.spent /\ visit'.row = visit.row
    BY <1>1, <2>1 DEF Fields
  <2>3. /\ visit'.billed = visit.billed + bill /\ visit'.cost = visit.cost + bill
        /\ visit'.lost = visit.lost + 0
    BY <1>1, <2>1 DEF Fields
  <2>4. "ending" \in OnBooks /\ bill \in Nat /\ 0 \in Nat /\ bill = bill + 0
    BY DEF OnBooks
  <2> QED BY <1>0, <2>1, <2>2, <2>3, <2>4, BilledGoes
<1>5. ASSUME NEW named, NEW bill \in {0, 1}, PlannerChooses(named, bill) PROVE AskInv'
  <2>1. /\ visit' = [visit EXCEPT !.at = "acting", !.pending = named, !.billed = @ + bill,
                              !.cost = @ + bill]
        /\ UNCHANGED safeSlug /\ visit.at \in OnBooks
    BY <1>5 DEF PlannerChooses, Going, OnBooks
  <2>2. /\ DOMAIN visit' = Fields /\ visit'.at = "acting" /\ visit'.tools = visit.tools
        /\ visit'.up = visit.up /\ visit'.spent = visit.spent /\ visit'.row = visit.row
    BY <1>1, <2>1 DEF Fields
  <2>3. /\ visit'.billed = visit.billed + bill /\ visit'.cost = visit.cost + bill
        /\ visit'.lost = visit.lost + 0
    BY <1>1, <2>1 DEF Fields
  <2>4. "acting" \in OnBooks /\ bill \in Nat /\ 0 \in Nat /\ bill = bill + 0
    BY DEF OnBooks
  <2> QED BY <1>0, <2>1, <2>2, <2>3, <2>4, BilledGoes
<1>6. ASSUME NEW bill \in {0, 1}, PlannerEnds(bill) PROVE AskInv'
  <2>1. /\ visit' = [visit EXCEPT !.at = "ending", !.billed = @ + bill, !.cost = @ + bill]
        /\ UNCHANGED safeSlug /\ visit.at \in OnBooks
    BY <1>6 DEF PlannerEnds, Going, OnBooks
  <2>2. /\ DOMAIN visit' = Fields /\ visit'.at = "ending" /\ visit'.tools = visit.tools
        /\ visit'.up = visit.up /\ visit'.spent = visit.spent /\ visit'.row = visit.row
    BY <1>1, <2>1 DEF Fields
  <2>3. /\ visit'.billed = visit.billed + bill /\ visit'.cost = visit.cost + bill
        /\ visit'.lost = visit.lost + 0
    BY <1>1, <2>1 DEF Fields
  <2>4. "ending" \in OnBooks /\ bill \in Nat /\ 0 \in Nat /\ bill = bill + 0
    BY DEF OnBooks
  <2> QED BY <1>0, <2>1, <2>2, <2>3, <2>4, BilledGoes
<1>7. ASSUME NEW bill \in {0, 1}, LoopBreaks(bill) PROVE AskInv'
  <2>1. /\ visit' = [visit EXCEPT !.at = "ending", !.billed = @ + bill, !.lost = @ + bill]
        /\ UNCHANGED safeSlug /\ visit.at \in OnBooks
    BY <1>7 DEF LoopBreaks, Going, OnBooks
  <2>2. /\ DOMAIN visit' = Fields /\ visit'.at = "ending" /\ visit'.tools = visit.tools
        /\ visit'.up = visit.up /\ visit'.spent = visit.spent /\ visit'.row = visit.row
    BY <1>1, <2>1 DEF Fields
  <2>3. /\ visit'.billed = visit.billed + bill /\ visit'.cost = visit.cost + 0
        /\ visit'.lost = visit.lost + bill
    BY <1>1, <2>1 DEF Fields
  <2>4. "ending" \in OnBooks /\ bill \in Nat /\ 0 \in Nat /\ bill = 0 + bill
    BY DEF OnBooks
  <2> QED BY <1>0, <2>1, <2>2, <2>3, <2>4, BilledGoes
<1>8. CASE RunsNothing \/ BudgetHalts
  <2>1. PICK a \in OnBooks :
          /\ DOMAIN visit' = Fields /\ visit'.at = a
          /\ \A f \in Fields \ {"at", "pending"} : visit'[f] = visit[f]
          /\ UNCHANGED safeSlug /\ visit.at \in OnBooks
    BY <1>1, <1>8 DEF RunsNothing, BudgetHalts, Going, OnBooks, Fields
  <2>2. /\ visit'.tools = visit.tools /\ visit'.up = visit.up /\ visit'.spent = visit.spent
        /\ visit'.row = visit.row /\ visit'.billed = visit.billed + 0
        /\ visit'.cost = visit.cost + 0 /\ visit'.lost = visit.lost + 0
    BY <1>1, <2>1 DEF Fields
  <2>3. 0 \in Nat /\ 0 = 0 + 0
    OBVIOUS
  <2> QED BY <1>0, <2>1, <2>2, <2>3, BilledGoes
<1>9. ASSUME NEW n, NEW how, NEW bill \in {0, 1}, AnswerFromOne(n, how, bill) PROVE AskInv'
  <2> DEFINE v == Ran(visit, how, bill)
  <2>1. visit' = [v EXCEPT !.at = "ending"] /\ UNCHANGED safeSlug
    BY <1>9, Zenon DEF AnswerFromOne, Going
  <2>2. visit.at \in OnBooks /\ "ending" \in OnBooks
    BY <1>9 DEF AnswerFromOne, OnBooks
  <2>3. DOMAIN v = Fields
    BY RanHas
  <2> HIDE DEF v
  <2>4. /\ DOMAIN visit' = Fields /\ visit'.at = "ending"
        /\ \A f \in Fields \ {"at", "pending", "made"} : visit'[f] = v[f]
    BY <2>1, <2>3 DEF Fields
  <2> QED BY <1>0, <2>1, <2>2, <2>4, RanGoes DEF v
<1>10. ASSUME NEW how, NEW bill \in {0, 1}, ToolRun(how, bill) PROVE AskInv'
  <2> DEFINE v == Ran(visit, how, bill)
  <2>1. visit' = [v EXCEPT !.at = "loop", !.pending = {}, !.made = @ \cup visit.pending]
        /\ UNCHANGED safeSlug
    BY <1>10, Zenon DEF ToolRun, Going
  <2>2. visit.at \in OnBooks /\ "loop" \in OnBooks
    BY <1>10 DEF ToolRun, OnBooks
  <2>3. DOMAIN v = Fields
    BY RanHas
  <2> HIDE DEF v
  <2>4. /\ DOMAIN visit' = Fields /\ visit'.at = "loop"
        /\ \A f \in Fields \ {"at", "pending", "made"} : visit'[f] = v[f]
    BY <2>1, <2>3 DEF Fields
  <2> QED BY <1>0, <2>1, <2>2, <2>4, RanGoes DEF v
<1>11. CASE RecordSpend
  <2>1. /\ visit' = [visit EXCEPT !.at = "recording", !.spent = visit.cost] /\ UNCHANGED safeSlug
        /\ visit.at = "ending"
    BY <1>11 DEF RecordSpend, Going
  <2>2. /\ DOMAIN visit' = Fields /\ visit'.at = "recording" /\ visit'.spent = visit.cost
        /\ \A f \in Fields \ {"at", "spent"} : visit'[f] = visit[f]
    BY <1>1, <2>1 DEF Fields
  <2>3. /\ visit'.tools = visit.tools /\ visit'.up = visit.up /\ visit'.billed = visit.billed
        /\ visit'.cost = visit.cost /\ visit'.lost = visit.lost /\ visit'.row = visit.row
    BY <2>2 DEF Fields
  <2>4. visit.cost + visit.lost = visit.billed /\ visit.row = {}
    BY <2>1 DEF AskInv, BooksKept, OnBooks
  <2>5. BooksKept' /\ BilledIsRecorded'
    BY <2>2, <2>3, <2>4 DEF BooksKept, BilledIsRecorded, OnBooks
  <2> QED BY <1>0, <1>1, <2>1, <2>2, <2>3, <2>5, Goes
<1>12. CASE RecordRun
  <2>1. /\ visit' = [visit EXCEPT !.at = "answered", !.row = {visit.cost}] /\ UNCHANGED safeSlug
        /\ visit.at = "recording"
    BY <1>12 DEF RecordRun, Going
  <2>2. /\ DOMAIN visit' = Fields /\ visit'.at = "answered" /\ visit'.row = {visit.cost}
        /\ \A f \in Fields \ {"at", "row"} : visit'[f] = visit[f]
    BY <1>1, <2>1 DEF Fields
  <2>3. /\ visit'.tools = visit.tools /\ visit'.up = visit.up /\ visit'.billed = visit.billed
        /\ visit'.cost = visit.cost /\ visit'.lost = visit.lost /\ visit'.spent = visit.spent
    BY <2>2 DEF Fields
  <2>4. visit.cost + visit.lost = visit.billed /\ visit.spent = visit.cost
    BY <2>1 DEF AskInv, BooksKept
  <2>5. BooksKept' /\ BilledIsRecorded'
    BY <2>2, <2>3, <2>4 DEF BooksKept, BilledIsRecorded, OnBooks
  <2> QED BY <1>0, <1>1, <2>1, <2>2, <2>3, <2>5, Goes
<1>13. CASE Fails500
  <2>1. visit' = [visit EXCEPT !.at = "failed"] /\ UNCHANGED safeSlug
    BY <1>13 DEF Fails500, Going
  <2>2. /\ DOMAIN visit' = Fields /\ visit'.at = "failed"
        /\ \A f \in Fields \ {"at"} : visit'[f] = visit[f]
    BY <1>1, <2>1 DEF Fields
  <2>3. /\ visit'.tools = visit.tools /\ visit'.up = visit.up /\ visit'.billed = visit.billed
        /\ visit'.cost = visit.cost /\ visit'.lost = visit.lost /\ visit'.spent = visit.spent
    BY <2>2 DEF Fields
  <2>4. BooksKept' /\ BilledIsRecorded'
    BY <2>2 DEF BooksKept, BilledIsRecorded, OnBooks
  <2> QED BY <1>0, <1>1, <2>1, <2>2, <2>3, <2>4, Goes
<1>14. ASSUME NEW how, CallEnds(how) PROVE AskInv'
  <2> DEFINE v == Ran(visit, how, 0)
  <2>1. visit' = [v EXCEPT !.at = "answered", !.spent = 1] /\ UNCHANGED safeSlug
    BY <1>14, Zenon DEF CallEnds, Going
  <2>2. PICK b \in Nat, c \in Nat, l \in Nat :
          /\ DOMAIN v = Fields
          /\ v.billed = visit.billed + b /\ v.cost = visit.cost + c /\ v.lost = visit.lost + l
          /\ \A f \in Fields \ {"unaudited", "billed", "cost", "lost"} : v[f] = visit[f]
    BY RanHas
  <2> HIDE DEF v
  <2>3. /\ DOMAIN visit' = Fields /\ visit'.at = "answered" /\ visit'.spent = 1
        /\ \A f \in Fields \ {"at", "spent"} : visit'[f] = v[f]
    BY <2>1, <2>2 DEF Fields
  <2>4. /\ visit'.tools = visit.tools /\ visit'.up = visit.up /\ visit'.row = visit.row
        /\ visit'.billed = visit.billed + b /\ visit'.cost = visit.cost + c
        /\ visit'.lost = visit.lost + l
    BY <2>2, <2>3 DEF Fields
  <2>5. visit.row = {}
    BY <1>14 DEF CallEnds, AskInv, BooksKept
  <2>6. BooksKept' /\ BilledIsRecorded'
    BY <2>3, <2>4, <2>5 DEF BooksKept, BilledIsRecorded, OnBooks
  <2>7. visit'.billed \in Nat /\ visit'.cost \in Nat /\ visit'.lost \in Nat /\ visit'.spent \in Nat
    BY <1>1, <2>3, <2>4
  <2> QED BY <1>0, <2>1, <2>3, <2>4, <2>6, <2>7, Goes
<1>15. ASSUME NEW s, NEW how, ConditionChanges(s, how) PROVE AskInv'
  BY <1>2, <1>15 DEF ConditionChanges
<1>16. ASSUME NEW warehouse, ListTools(warehouse) PROVE AskInv'
  BY <1>2, <1>16 DEF ListTools
<1>17. CASE UNCHANGED askVars
  BY <1>2, <1>17 DEF askVars
<1> QED
  BY <1>0, <1>3, <1>4, <1>5, <1>6, <1>7, <1>8, <1>9, <1>10, <1>11, <1>12, <1>13, <1>14, <1>15, <1>16,
     <1>17, AskAgentKeeps, CallToolKeeps DEF AskNext

\* The inductive invariant of the two front doors.
THEOREM AskInvariance == AskSpec => []AskInv
<1> QED BY AskStart, AskStep, PTL DEF AskSpec

\* For any stored connectors, slugs and labels: none that could be reached is
\* missing from what the caller is offered, unless it is called as the warehouse.
THEOREM NoneIsMissing == AskSpec => []EachIsOffered
<1>1. AskInv => EachIsOffered
  BY DEF AskInv
<1> QED BY <1>1, AskInvariance, PTL

\* For any number of model calls, tool runs and bills: the run's row is what the
\* budget was charged with, and with what no result told of it is what was billed.
THEOREM NothingIsFree == AskSpec => []BilledIsRecorded
<1>1. AskInv => BilledIsRecorded
  BY DEF AskInv
<1> QED BY <1>1, AskInvariance, PTL

\* The caller's door and labels, the connectors, what was listed and the request
\* under way stay in their domains; every tool is one of a source that is stored.
THEOREM AskTypesHold == AskSpec => []AskTypeOK
<1>1. AskInv => AskTypeOK
  BY DEF AskInv, CallerTyped, VisitTyped, OnBooks, AskTypeOK
<1> QED BY <1>1, AskInvariance, PTL
-------------------------------------------------------------------------------
(* Integrations *)

\* A request, and of a test, what it may write.
Change ==
  {c \in [at : {"new", "create", "update", "probe", "delete", "refused", "failed", "done"},
          on : Ids, names : SUBSET Columns, row : RowType] :
     c.at = "probe" => c.names = {"test"}}

\* The table is as it is owed, and what will be written is what was asked for.
ConnInv == ConnTypeOK /\ NothingTakenBack /\ change \in [Changes -> Change]

LEMMA RowTypes ==
  ASSUME NEW s \in Slugs, NEW kind \in {"sql", "rest"}, NEW r \in Ids
  PROVE  New(s, kind, r) \in RowType /\ New(s, kind, r) # NoConnector
<1>1. [c \in Columns |-> IF c = "test" THEN {} ELSE {r}] \in [Columns -> SUBSET Ids]
  OBVIOUS
<1>2. New(s, kind, r).slug = {s} /\ NoConnector.slug = {}
  BY DEF New, NoConnector
<1> QED BY <1>1, <1>2 DEF New, RowType

LEMMA ConnStart == ConnInit => ConnInv
<1> SUFFICES ASSUME ConnInit PROVE ConnInv
  OBVIOUS
<1>1. FirstRow \in Ids /\ NoConnector \in RowType
  BY DEF Ids, RowType
<1>2. connector \in [Ids -> RowType]
  BY <1>1, RowTypes DEF ConnInit
<1>3. Waiting \in Change
  BY <1>1 DEF Waiting, Change
<1>4. change \in [Changes -> Change]
  BY <1>3 DEF ConnInit
<1>5. owed = connector /\ upstream \in BOOLEAN
  BY DEF ConnInit
<1> QED BY <1>2, <1>4, <1>5 DEF ConnInv, ConnTypeOK, Change, NothingTakenBack

\* A request that is answered keeps nothing of what it read.
LEMMA CloseTypes ==
  ASSUME ConnInv, NEW r \in Changes, NEW how \in {"refused", "failed", "done"}, Close(r, how)
  PROVE  change' \in [Changes -> Change]
<1>1. [Waiting EXCEPT !.at = how] \in Change
  BY DEF Waiting, Change, Ids, RowType
<1> QED BY <1>1 DEF Close, ConnInv

LEMMA ByTypes ==
  ASSUME NEW row \in RowType, row # NoConnector, NEW names \in SUBSET Columns, NEW r \in Changes
  PROVE  By(row, names, r) \in [Columns -> SUBSET Ids]
BY DEF By, RowType, Ids

\* What a request does to the table it does to what is owed.
LEMMA ConnStep == ConnInv /\ [ConnNext]_connVars => ConnInv'
<1> SUFFICES ASSUME ConnInv, [ConnNext]_connVars PROVE ConnInv'
  OBVIOUS
<1>1. /\ connector \in [Ids -> RowType] /\ owed = connector /\ upstream \in BOOLEAN
      /\ change \in [Changes -> Change]
  BY DEF ConnInv, ConnTypeOK, NothingTakenBack
\* It is enough that the table keeps its type and the requests theirs.
<1>2. ASSUME connector' \in [Ids -> RowType], owed' = connector', upstream' \in BOOLEAN,
             change' \in [Changes -> Change]
      PROVE  ConnInv'
  BY <1>2 DEF ConnInv, ConnTypeOK, NothingTakenBack, Change
<1>3. CASE UNCHANGED connVars \/ UpstreamChanges
  BY <1>1, <1>2, <1>3 DEF connVars, UpstreamChanges
<1>4. ASSUME NEW r \in Changes, Refuse(r) PROVE ConnInv'
  BY <1>1, <1>2, <1>4, CloseTypes DEF Refuse, Unwritten
<1>5. ASSUME NEW r \in Changes, NEW s \in Slugs, NEW kind \in {"sql", "rest"}, CreateRead(r, s, kind)
      PROVE  ConnInv'
  <2> DEFINE row == New(s, kind, r)
  <2>1. row \in RowType
    BY RowTypes DEF Ids
  <2> HIDE DEF row
  <2>2. CASE Close(r, "refused")
    BY <1>1, <1>2, <1>5, <2>2, CloseTypes DEF CreateRead, Unwritten
  <2>3. CASE change' = [change EXCEPT ![r].at = "create", ![r].row = row]
    <3>1. change' \in [Changes -> Change]
      <4>1. [change[r] EXCEPT !.at = "create", !.row = row] \in Change
        BY <1>1, <2>1 DEF Change
      <4> QED BY <1>1, <2>3, <4>1
    <3> QED BY <1>1, <1>2, <1>5, <3>1 DEF CreateRead, Unwritten
  <2> QED BY <1>5, <2>2, <2>3 DEF CreateRead, row
<1>6. ASSUME NEW r \in Changes, NEW i \in Ids, NEW at \in {"update", "probe", "delete"},
             NEW names \in SUBSET Columns, at = "probe" => names = {"test"},
             ReadRow(r, i, at, names)
      PROVE  ConnInv'
  <2>1. CASE Close(r, "refused")
    BY <1>1, <1>2, <1>6, <2>1, CloseTypes DEF ReadRow, Unwritten
  <2>2. CASE change' = [change EXCEPT ![r] = [at |-> at, on |-> i, names |-> names, row |-> connector[i]]]
    <3> DEFINE new == [at |-> at, on |-> i, names |-> names, row |-> connector[i]]
    <3>1. connector[i] \in RowType
      BY <1>1
    <3>2. new \in Change
      BY <1>6, <3>1 DEF Change
    <3> HIDE DEF new
    <3>3. change' \in [Changes -> Change]
      BY <1>1, <2>2, <3>2 DEF new
    <3> QED BY <1>1, <1>2, <1>6, <3>3 DEF ReadRow, Unwritten
  <2> QED BY <1>6, <2>1, <2>2 DEF ReadRow
<1>7. ASSUME NEW r \in Changes, CreateWrite(r) PROVE ConnInv'
  <2>1. change' \in [Changes -> Change]
    BY <1>7, CloseTypes DEF CreateWrite
  <2>2. change[r].row \in RowType /\ r \in Ids
    BY <1>1 DEF Change, Ids
  <2>3. CASE Unwritten
    BY <1>1, <1>2, <2>1, <2>3 DEF Unwritten
  <2>4. CASE connector' = [connector EXCEPT ![r] = change[r].row] /\ owed' = [owed EXCEPT ![r] = change[r].row]
             /\ UNCHANGED upstream
    BY <1>1, <1>2, <2>1, <2>2, <2>4
  <2> QED BY <1>7, <2>3, <2>4, Zenon DEF CreateWrite
<1>8. ASSUME NEW r \in Changes, UpdateWrite(r) PROVE ConnInv'
  <2> DEFINE i == change[r].on
             by == By(connector[i], change[r].names, r)
  <2>1. change' \in [Changes -> Change]
    BY <1>8, CloseTypes DEF UpdateWrite
  <2>2. i \in Ids /\ change[r].names \in SUBSET Columns /\ connector[i] \in RowType
    BY <1>1 DEF Change
  <2>3. CASE ~Stored(i)
    BY <1>1, <1>2, <1>8, <2>1, <2>3 DEF UpdateWrite, Unwritten
  <2>4. CASE Stored(i)
    <3>1. by \in [Columns -> SUBSET Ids]
      BY <2>2, <2>4, ByTypes DEF Stored
    <3>2. connector' = [connector EXCEPT ![i].by = by] /\ owed' = [owed EXCEPT ![i].by = by]
          /\ UNCHANGED upstream
      BY <1>1, <1>8, <2>4, Zenon DEF UpdateWrite, Written, AskedFor
    <3> HIDE DEF by
    <3>3. [connector[i] EXCEPT !.by = by] \in RowType
      BY <2>2, <2>4, <3>1 DEF RowType, Stored
    <3>4. connector' \in [Ids -> RowType]
      BY <1>1, <2>2, <3>2, <3>3
    <3> QED BY <1>1, <1>2, <2>1, <3>2, <3>4
  <2> QED BY <2>3, <2>4
<1>9. ASSUME NEW r \in Changes, NEW buildable \in BOOLEAN, TestWrite(r, buildable)
      PROVE  ConnInv'
  <2> DEFINE i == change[r].on
             by == By(connector[i], {"test"}, r)
             ok == buildable /\ Healthy(change[r].row)
  <2>1. change' \in [Changes -> Change]
    BY <1>9, CloseTypes DEF TestWrite
  <2>2. i \in Ids /\ change[r].names = {"test"} /\ connector[i] \in RowType /\ {"test"} \subseteq Columns
    BY <1>1, <1>9 DEF Change, TestWrite, Columns
  <2>3. CASE ~Stored(i)
    BY <1>1, <1>2, <1>9, <2>1, <2>3 DEF TestWrite
  <2>4. CASE Stored(i)
    <3>1. by \in [Columns -> SUBSET Ids]
      BY <2>2, <2>4, ByTypes DEF Stored
    <3>2. connector' = [connector EXCEPT ![i].by = by, ![i].ok = ok]
      BY <1>9, <2>2, <2>4, Zenon DEF TestWrite, Written
    <3>3. owed' = [owed EXCEPT ![i].by = by, ![i].ok = ok] /\ UNCHANGED upstream
      BY <1>1, <1>9, <2>4, Zenon DEF TestWrite
    <3>4. ok \in BOOLEAN
      BY DEF Healthy
    <3> HIDE DEF by, ok
    <3>5. [connector[i] EXCEPT !.by = by, !.ok = ok] \in RowType
      BY <2>2, <2>4, <3>1, <3>4 DEF RowType, Stored
    <3>6. connector' = [connector EXCEPT ![i] = [connector[i] EXCEPT !.by = by, !.ok = ok]]
      BY <1>1, <2>2, <3>2
    <3>7. connector' \in [Ids -> RowType]
      BY <1>1, <2>2, <3>5, <3>6
    <3> QED BY <1>1, <1>2, <2>1, <3>2, <3>3, <3>7
  <2> QED BY <2>3, <2>4
<1>10. ASSUME NEW r \in Changes, DeleteWrite(r) PROVE ConnInv'
  <2>1. change' \in [Changes -> Change]
    BY <1>10, CloseTypes DEF DeleteWrite
  <2>2. change[r].on \in Ids /\ NoConnector \in RowType
    BY <1>1 DEF Change, RowType
  <2> QED BY <1>1, <1>2, <1>10, <2>1, <2>2 DEF DeleteWrite
<1>11. ASSUME NEW r \in Changes, NEW i \in Ids, UpdateRead(r, i) \/ TestRead(r, i) \/ DeleteRead(r, i)
       PROVE  ConnInv'
  <2>1. \A names \in SUBSET Settable : names \in SUBSET Columns
    BY DEF Columns
  <2>2. {"test"} \in SUBSET Columns /\ {} \in SUBSET Columns
    BY DEF Columns
  <2> QED BY <1>6, <1>11, <2>1, <2>2 DEF UpdateRead, TestRead, DeleteRead
<1> QED BY <1>3, <1>4, <1>5, <1>7, <1>8, <1>9, <1>10, <1>11 DEF ConnNext, Builds

\* The inductive invariant of the registered connectors: a test writes the column
\* of tests, whatever the row has become.
THEOREM ConnectorsInvariance == ConnSpec => []ConnInv
<1> QED BY ConnStart, ConnStep, PTL DEF ConnSpec

\* For any requests, columns and slugs: each column is as the last request that
\* named it left it, and nothing comes back.
THEOREM NoSettingIsLost == ConnSpec => []NothingTakenBack
<1>1. ConnInv => NothingTakenBack
  BY DEF ConnInv
<1> QED BY <1>1, ConnectorsInvariance, PTL

-------------------------------------------------------------------------------
(* Breaker *)

ThreadPlaces ==
  {"idle", "looking", "glancing", "trying", "tripping", "timing", "refused", "raised",
   "answered", "failed"}
Thread == [at : ThreadPlaces, tries : Nat, time : Int]

BreakerTypes ==
  /\ now \in Int /\ failedAt \in Int /\ streak \in Nat /\ raced \in BOOLEAN
  /\ breaker \in [state : {"closed", "open", "half open"}, failures : Nat, opened : SUBSET Int]
  /\ thread \in [Threads -> Thread]

\* In the middle of a trip.
Amid(t) == thread[t].at \in {"tripping", "timing"}

\* What the breaker knows of the calls, when no trip is under way.
Settled ==
  /\ breaker.state = "closed" =>
       breaker.failures = streak /\ streak < Threshold /\ breaker.opened = {}
  /\ breaker.state # "closed" =>
       streak >= Threshold /\ breaker.failures >= Threshold /\ breaker.opened = {failedAt}
  /\ breaker.state = "half open" => now - failedAt >= Recovery

\* One trip at a time, for enough failures, and until it ends nothing else.
BreakerInv ==
  /\ BreakerTypes
  /\ ~raced =>
       /\ \A t, u \in Threads : Amid(t) /\ Amid(u) => t = u
       /\ \A t \in Threads : Amid(t) => streak + 1 >= Threshold
       /\ \A t \in Threads : thread[t].at = "timing" => breaker.state = "open"
       /\ (\A t \in Threads : ~Amid(t)) => Settled

LEMMA BreakerNumbers ==
  Threshold \in Nat /\ Threshold > 0 /\ Recovery \in Nat /\ Attempts \in Nat
<1>1. \A n \in Nat \ {0} : n \in Nat /\ n > 0
  OBVIOUS
<1>2. Threshold \in Nat \ {0} /\ Recovery \in Nat \ {0} /\ Attempts \in Nat \ {0}
  BY BreakerAssumption, Zenon
<1> QED BY <1>1, <1>2

LEMMA Elapsed ==
  ASSUME NEW a \in Int, NEW b \in Int, NEW c \in Int, NEW r \in Nat, a - b >= r
  PROVE  ~(a - b < r) /\ (a <= c => c - b >= r)
OBVIOUS

LEMMA OneMore ==
  ASSUME NEW n \in Nat PROVE n + 1 \in Nat /\ \A r \in Nat : n >= r => n + 1 >= r
OBVIOUS

\* A look, and a trip, has a time that is past.
Clocked == now \in Nat /\ thread \in [Threads -> [at : ThreadPlaces, tries : Nat, time : 0..now]]

LEMMA ClockedStart == BreakerInit => Clocked
<1> SUFFICES ASSUME BreakerInit PROVE Clocked
  OBVIOUS
<1>1. now = 0 /\ thread = [t \in Threads |-> Idle]
  BY DEF BreakerInit
<1>2. Idle \in [at : ThreadPlaces, tries : Nat, time : 0..0]
  BY DEF Idle, ThreadPlaces
<1> QED BY <1>1, <1>2 DEF Clocked

LEMMA ClockedStep == Clocked /\ [BreakerNext]_breakerVars => Clocked'
<1> SUFFICES ASSUME Clocked, [BreakerNext]_breakerVars PROVE Clocked'
  OBVIOUS
<1> DEFINE Calls == [at : ThreadPlaces, tries : Nat, time : 0..now]
<1>1. now \in Nat /\ thread \in [Threads -> Calls] /\ Attempts \in Nat
  BY BreakerNumbers DEF Clocked
<1>2. CASE UNCHANGED breakerVars
  BY <1>2 DEF breakerVars, Clocked
<1>3. CASE Later
  <2>1. now' \in Nat /\ 0..now \subseteq 0..now'
    BY <1>1, <1>3 DEF Later
  <2>2. thread' \in [Threads -> Calls]
    BY <1>1, <1>3 DEF Later
  <2>3. Calls \subseteq [at : ThreadPlaces, tries : Nat, time : 0..now']
    BY <2>1
  <2> HIDE DEF Calls
  <2> QED BY <2>1, <2>2, <2>3 DEF Clocked
<1>4. ASSUME NEW t \in Threads, NEW after \in Calls, thread' = [thread EXCEPT ![t] = after],
             UNCHANGED now
      PROVE  Clocked'
  <2>1. thread' \in [Threads -> Calls]
    BY <1>1, <1>4
  <2> QED BY <1>1, <1>4, <2>1 DEF Clocked
<1>5. ASSUME NEW at \in ThreadPlaces, NEW t \in Threads
      PROVE  /\ [Idle EXCEPT !.at = at] \in Calls /\ Idle \in Calls
             /\ [thread[t] EXCEPT !.at = at] \in Calls
             /\ [thread[t] EXCEPT !.at = at, !.time = now] \in Calls
             /\ [thread[t] EXCEPT !.tries = @ + 1] \in Calls
  <2>1. 0 \in 0..now /\ now \in 0..now /\ thread[t] \in Calls
    BY <1>1
  <2>2. thread[t].tries + 1 \in Nat
    <3>1. thread[t].tries \in Nat
      BY <2>1
    <3> QED BY <3>1, OneMore, Zenon
  <2>3. [thread[t] EXCEPT !.tries = @ + 1] \in Calls
    BY <2>1, <2>2
  <2>4. [Idle EXCEPT !.at = at] \in Calls /\ Idle \in Calls
    BY <2>1 DEF Idle, ThreadPlaces
  <2>5. [thread[t] EXCEPT !.at = at] \in Calls /\ [thread[t] EXCEPT !.at = at, !.time = now] \in Calls
    BY <2>1
  <2> QED BY <2>3, <2>4, <2>5
<1>6. ASSUME NEW b PROVE Verdict(b) \in ThreadPlaces
  BY DEF Verdict, ThreadPlaces
<1>7. ASSUME NEW t \in Threads, Call(t) PROVE Clocked'
  <2>1. "looking" \in ThreadPlaces /\ UNCHANGED now
    BY <1>7 DEF Call, ThreadPlaces
  <2>2. \E at \in ThreadPlaces :
          \/ thread' = [thread EXCEPT ![t] = [thread[t] EXCEPT !.at = at]]
          \/ thread' = [thread EXCEPT ![t] = [thread[t] EXCEPT !.at = at, !.time = now]]
    BY <1>1, <1>6, <1>7, <2>1 DEF Call
  <2> HIDE DEF Calls
  <2> QED BY <1>4, <1>5, <2>1, <2>2
<1>8. ASSUME NEW t \in Threads, Health(t) \/ TripOpens(t) PROVE Clocked'
  <2>1. {"glancing", "timing"} \subseteq ThreadPlaces /\ UNCHANGED now
    BY <1>8 DEF Health, TripOpens, ThreadPlaces
  <2>2. \E at \in ThreadPlaces :
          thread' = [thread EXCEPT ![t] = [thread[t] EXCEPT !.at = at, !.time = now]]
    BY <1>1, <1>8, <2>1 DEF Health, TripOpens
  <2> HIDE DEF Calls
  <2> QED BY <1>4, <1>5, <2>1, <2>2
<1>9. ASSUME NEW t \in Threads, Decides(t) \/ TripEnds(t) PROVE Clocked'
  <2>1. {"raised", "failed"} \subseteq ThreadPlaces /\ UNCHANGED now
    BY <1>9 DEF Decides, TripEnds, ThreadPlaces
  <2>2. \E at \in ThreadPlaces : thread' = [thread EXCEPT ![t] = [Idle EXCEPT !.at = at]]
    BY <1>6, <1>9, <2>1, Zenon DEF Decides, TripEnds
  <2> HIDE DEF Calls
  <2> QED BY <1>4, <1>5, <2>1, <2>2
<1>10. ASSUME NEW t \in Threads, Hear(t) \/ HealthEnds(t) PROVE Clocked'
  <2>1. thread' = [thread EXCEPT ![t] = Idle] /\ UNCHANGED now
    BY <1>10 DEF Hear, HealthEnds
  <2>2. Idle \in Calls
    BY <1>5 DEF ThreadPlaces
  <2> HIDE DEF Calls
  <2> QED BY <1>4, <2>1, <2>2
<1>11. ASSUME NEW t \in Threads, Retries(t) PROVE Clocked'
  <2>1. thread' = [thread EXCEPT ![t] = [thread[t] EXCEPT !.tries = @ + 1]] /\ UNCHANGED now
    BY <1>1, <1>11 DEF Retries
  <2>2. "idle" \in ThreadPlaces
    BY DEF ThreadPlaces
  <2> HIDE DEF Calls
  <2>3. [thread[t] EXCEPT !.tries = @ + 1] \in Calls
    BY <1>5, <2>2
  <2> QED BY <1>4, <2>1, <2>3
<1>12. ASSUME NEW t \in Threads, NEW retryable, Succeeds(t) \/ Fails(t, retryable) PROVE Clocked'
  <2>1. {"answered", "tripping", "failed"} \subseteq ThreadPlaces /\ UNCHANGED now
    BY <1>12 DEF Succeeds, Fails, ThreadPlaces
  <2>2. \E at \in ThreadPlaces : thread' = [thread EXCEPT ![t] = [thread[t] EXCEPT !.at = at]]
    BY <1>1, <1>12, <2>1 DEF Succeeds, Fails
  <2> HIDE DEF Calls
  <2> QED BY <1>4, <1>5, <2>1, <2>2
<1> QED BY <1>2, <1>3, <1>7, <1>8, <1>9, <1>10, <1>11, <1>12 DEF BreakerNext

\* Whoever has been told a time has been told a past one.
THEOREM BreakerClocked == BreakerSpec => []Clocked
<1> QED BY ClockedStart, ClockedStep, PTL DEF BreakerSpec

LEMMA BreakerStart == BreakerInit => BreakerInv
<1> SUFFICES ASSUME BreakerInit PROVE BreakerInv
  OBVIOUS
<1>1. breaker = Closed /\ thread = [t \in Threads |-> Idle] /\ streak = 0 /\ ~raced
  BY DEF BreakerInit
<1>2. Idle \in Thread /\ Idle.at = "idle"
  BY DEF Idle, Thread, ThreadPlaces
<1>3. /\ Closed \in [state : {"closed", "open", "half open"}, failures : Nat, opened : SUBSET Int]
      /\ Closed.state = "closed" /\ Closed.failures = 0 /\ Closed.opened = {}
  BY DEF Closed
<1>4. BreakerTypes
  <2>1. thread \in [Threads -> Thread]
    BY <1>1, <1>2
  <2>2. now \in Int /\ failedAt \in Int /\ streak \in Nat
    BY DEF BreakerInit
  <2>3. breaker \in [state : {"closed", "open", "half open"}, failures : Nat, opened : SUBSET Int]
    BY <1>1, <1>3, Zenon
  <2>4. raced \in BOOLEAN
    BY DEF BreakerInit
  <2> QED BY <2>1, <2>2, <2>3, <2>4, Zenon DEF BreakerTypes
<1>5. \A t \in Threads : ~Amid(t) /\ thread[t].at # "timing"
  BY <1>1, <1>2 DEF Amid
<1>6. Settled
  <2>1. /\ breaker.state = "closed" /\ breaker.failures = streak /\ streak < Threshold
        /\ breaker.opened = {}
    BY <1>1, <1>3, BreakerNumbers
  <2> QED BY <2>1 DEF Settled
<1> QED BY <1>4, <1>5, <1>6 DEF BreakerInv

\* Steps that leave the breaker, and the trips under way, alone.
LEMMA LeftAlone ==
  ASSUME BreakerInv, BreakerTypes', UNCHANGED <<breaker, streak, failedAt, raced>>, now <= now',
         \A t \in Threads : thread'[t].at = thread[t].at \/ ~(Amid(t) \/ Amid(t)')
  PROVE  BreakerInv'
<1> SUFFICES ASSUME ~raced'
             PROVE  /\ \A t, u \in Threads : Amid(t)' /\ Amid(u)' => t = u
                    /\ \A t \in Threads : Amid(t)' => streak' + 1 >= Threshold
                    /\ \A t \in Threads : thread'[t].at = "timing" => breaker'.state = "open"
                    /\ (\A t \in Threads : ~Amid(t)') => Settled'
  BY DEF BreakerInv
<1>1. \A t \in Threads : (Amid(t)' <=> Amid(t)) /\ (thread'[t].at = "timing" <=> thread[t].at = "timing")
  BY DEF Amid
<1>2. /\ \A t, u \in Threads : Amid(t) /\ Amid(u) => t = u
      /\ \A t \in Threads : Amid(t) => streak + 1 >= Threshold
      /\ \A t \in Threads : thread[t].at = "timing" => breaker.state = "open"
      /\ (\A t \in Threads : ~Amid(t)) => Settled
  BY DEF BreakerInv
<1>3. Settled => Settled'
  <2>1. now \in Int /\ failedAt \in Int /\ now' \in Int
    BY Zenon DEF BreakerInv, BreakerTypes
  <2>2. now - failedAt >= Recovery => now' - failedAt' >= Recovery
    BY <2>1, BreakerNumbers, Elapsed, Zenon
  <2> QED BY <2>2 DEF Settled
<1> QED BY <1>1, <1>2, <1>3

\* A thread that uses the breaker is alone with it, or has raced.
LEMMA UsedAlone ==
  ASSUME BreakerInv, NEW by, Used(by), ~raced'
  PROVE  ~raced /\ \A u \in Threads \ by : ~Amid(u)
BY DEF Used, Amid, BreakerInv, BreakerTypes

\* What its step leaves is settled, or its own trip.
LEMMA Uses ==
  ASSUME BreakerInv, BreakerTypes', NEW t \in Threads, Used({t}),
         \A u \in Threads \ {t} : thread'[u] = thread[u],
         ~raced' => \/ Settled' /\ ~Amid(t)'
                    \/ /\ streak' + 1 >= Threshold
                       /\ thread'[t].at = "tripping" \/ (thread'[t].at = "timing" /\ breaker'.state = "open")
  PROVE  BreakerInv'
<1> SUFFICES ASSUME ~raced'
             PROVE  /\ \A u, v \in Threads : Amid(u)' /\ Amid(v)' => u = v
                    /\ \A u \in Threads : Amid(u)' => streak' + 1 >= Threshold
                    /\ \A u \in Threads : thread'[u].at = "timing" => breaker'.state = "open"
                    /\ (\A u \in Threads : ~Amid(u)') => Settled'
  BY DEF BreakerInv
<1>1. \A u \in Threads \ {t} : ~Amid(u)
  BY UsedAlone
<1>2. \A u \in Threads \ {t} : ~Amid(u)'
  BY <1>1 DEF Amid
<1>3. \A u \in Threads : Amid(u)' => u = t
  BY <1>2
<1> QED BY <1>3 DEF Amid

\* When no trip is under way, what a thread finds is settled.
LEMMA FoundSettled ==
  ASSUME BreakerInv, NEW t \in Threads, Used({t}), ~raced', ~Amid(t) PROVE Settled
<1>1. ~raced /\ \A u \in Threads : ~Amid(u)
  BY UsedAlone
<1> QED BY <1>1 DEF BreakerInv

\* With the time of a look that began before now, a settled breaker is opened half
\* when its time was up by then, and only then.
LEMMA SeenSettled ==
  ASSUME BreakerTypes, Settled, NEW time \in Int, time <= now,
         breaker' = Seen(time), UNCHANGED <<now, streak, failedAt>>
  PROVE  /\ Settled'
         /\ breaker'.state = "open" => streak >= Threshold /\ time - failedAt < Recovery
<1>1. breaker \in [state : {"closed", "open", "half open"}, failures : Nat, opened : SUBSET Int]
  BY DEF BreakerTypes
<1>2. now \in Int /\ failedAt \in Int /\ streak \in Nat /\ Threshold \in Nat /\ Recovery \in Nat
  BY BreakerNumbers, Zenon DEF BreakerTypes
<1>3. CASE breaker.state # "closed" /\ time - failedAt >= Recovery
  <2>1. breaker.opened = {failedAt} /\ streak >= Threshold /\ breaker.failures >= Threshold
    BY <1>3 DEF Settled
  <2>2. Seen(time) = [breaker EXCEPT !.state = "half open"]
    BY <1>3, <2>1 DEF Seen
  <2>3. /\ breaker'.state = "half open" /\ breaker'.failures = breaker.failures
        /\ breaker'.opened = breaker.opened
    BY <1>1, <2>2
  <2>4. now - failedAt >= Recovery
    BY <1>2, <1>3, Elapsed, Zenon
  <2>5. Settled'
    BY <2>1, <2>3, <2>4 DEF Settled
  <2> QED BY <2>3, <2>5
<1>4. CASE ~(breaker.state # "closed" /\ time - failedAt >= Recovery)
  <2>1. /\ breaker.state # "closed" => breaker.opened = {failedAt}
        /\ breaker.state = "closed" => breaker.opened = {}
    BY DEF Settled
  <2>2. Seen(time) = breaker
    BY <1>4, <2>1 DEF Seen
  <2>3. Settled'
    BY <2>2 DEF Settled
  <2>4. breaker.state = "open" => streak >= Threshold /\ time - failedAt < Recovery
    BY <1>2, <1>4 DEF Settled
  <2> QED BY <2>2, <2>3, <2>4
<1> QED BY <1>3, <1>4

LEMMA SeenTypes ==
  ASSUME BreakerTypes, NEW time
  PROVE  Seen(time) \in [state : {"closed", "open", "half open"}, failures : Nat, opened : SUBSET Int]
BY DEF BreakerTypes, Seen

\* A call that need not ask for the time is decided at once.
LEMMA CallKeeps == ASSUME BreakerInv, NEW t \in Threads, Call(t) PROVE BreakerInv'
<1>1. /\ thread[t].at = "idle" /\ UNCHANGED <<now, breaker, streak, failedAt>>
      /\ BreakerTypes /\ thread \in [Threads -> Thread] /\ now \in Int /\ now <= now
  <2>1. BreakerTypes /\ thread \in [Threads -> Thread] /\ now \in Int
    BY DEF BreakerInv, BreakerTypes
  <2>2. now <= now
    BY <2>1
  <2> QED BY <2>1, <2>2, Zenon DEF Call
<1>2. CASE Timed
  <2>1. thread' = [thread EXCEPT ![t].at = "looking", ![t].time = now] /\ UNCHANGED raced
    BY <1>2 DEF Call
  <2>2. /\ thread' \in [Threads -> Thread] /\ thread'[t].at = "looking"
        /\ \A u \in Threads \ {t} : thread'[u] = thread[u]
    BY <1>1, <2>1 DEF Thread, ThreadPlaces
  <2>3. BreakerTypes'
    BY <1>1, <2>1, <2>2 DEF BreakerTypes
  <2>4. ~Amid(t) /\ ~Amid(t)'
    BY <1>1, <2>2 DEF Amid
  <2> QED BY <1>1, <2>1, <2>2, <2>3, <2>4, LeftAlone
<1>3. CASE ~Timed
  <2>1. thread' = [thread EXCEPT ![t].at = Verdict(breaker)] /\ Used({t})
    BY <1>3 DEF Call
  <2>2. Verdict(breaker) \in {"refused", "trying"}
    BY DEF Verdict
  <2>3. /\ thread' \in [Threads -> Thread] /\ thread'[t].at = Verdict(breaker)
        /\ \A u \in Threads \ {t} : thread'[u] = thread[u]
    BY <1>1, <2>1, <2>2 DEF Thread, ThreadPlaces
  <2>4. BreakerTypes'
    BY <1>1, <2>1, <2>3 DEF BreakerTypes, Used
  <2>5. ~raced' => Settled
    BY <1>1, <2>1, FoundSettled DEF Amid
  <2>6. Settled => Settled'
    BY <1>1 DEF Settled
  <2>7. ~Amid(t)'
    BY <2>2, <2>3 DEF Amid
  <2> QED BY <2>1, <2>3, <2>4, <2>5, <2>6, <2>7, Uses
<1> QED BY <1>2, <1>3

\* A look that ends, a call's or health()'s.
LEMMA LookKeeps ==
  ASSUME BreakerInv, NEW t \in Threads, NEW time \in Int, time <= now,
         breaker' = Seen(time), Used({t}), ~Amid(t), UNCHANGED <<now, streak, failedAt>>,
         NEW after \in Thread, after.at \notin {"tripping", "timing"},
         thread' = [thread EXCEPT ![t] = after]
  PROVE  BreakerInv'
<1>1. BreakerTypes /\ thread \in [Threads -> Thread]
  BY DEF BreakerInv, BreakerTypes
<1>2. thread' \in [Threads -> Thread] /\ thread'[t] = after
      /\ \A u \in Threads \ {t} : thread'[u] = thread[u]
  BY <1>1
<1>3. BreakerTypes'
  BY <1>1, <1>2, SeenTypes DEF BreakerTypes, Used
<1>4. ~raced' => Settled'
  BY <1>1, FoundSettled, SeenSettled
<1>5. ~Amid(t)'
  BY <1>2 DEF Amid
<1> QED BY <1>2, <1>3, <1>4, <1>5, Uses

LEMMA DecidesKeeps ==
  ASSUME BreakerInv, Clocked, NEW t \in Threads, Decides(t) PROVE BreakerInv'
<1> DEFINE at == IF breaker.opened = {} THEN "raised" ELSE Verdict(breaker')
<1>1. at \in {"raised", "refused", "trying"}
  BY DEF Verdict
<1>2. thread' = [thread EXCEPT ![t] = [Idle EXCEPT !.at = at]]
  BY Zenon DEF Decides
<1> HIDE DEF at
<1>3. [Idle EXCEPT !.at = at] \in Thread /\ [Idle EXCEPT !.at = at].at = at
  BY <1>1 DEF Idle, Thread, ThreadPlaces
<1>4. /\ breaker' = Seen(thread[t].time) /\ Used({t}) /\ UNCHANGED <<now, streak, failedAt>>
      /\ ~Amid(t)
  BY DEF Decides, Amid
<1>5. thread[t].time \in Int /\ thread[t].time <= now
  BY DEF Clocked
<1> QED BY <1>1, <1>2, <1>3, <1>4, <1>5, LookKeeps

LEMMA HealthKeeps == ASSUME BreakerInv, NEW t \in Threads, Health(t) PROVE BreakerInv'
<1>1. /\ thread[t].at = "idle" /\ UNCHANGED <<now, breaker, streak, failedAt, raced>>
      /\ thread' = [thread EXCEPT ![t].at = "glancing", ![t].time = now]
      /\ BreakerTypes /\ thread \in [Threads -> Thread] /\ now \in Int /\ now <= now
  <2>1. BreakerTypes /\ thread \in [Threads -> Thread] /\ now \in Int
    BY DEF BreakerInv, BreakerTypes
  <2>2. now <= now
    BY <2>1
  <2> QED BY <2>1, <2>2, Zenon DEF Health
<1>2. /\ thread' \in [Threads -> Thread] /\ thread'[t].at = "glancing"
      /\ \A u \in Threads \ {t} : thread'[u] = thread[u]
  BY <1>1 DEF Thread, ThreadPlaces
<1>3. BreakerTypes'
  BY <1>1, <1>2 DEF BreakerTypes
<1>4. ~Amid(t) /\ ~Amid(t)'
  BY <1>1, <1>2 DEF Amid
<1> QED BY <1>1, <1>2, <1>3, <1>4, LeftAlone

LEMMA HealthEndsKeeps ==
  ASSUME BreakerInv, Clocked, NEW t \in Threads, HealthEnds(t) PROVE BreakerInv'
<1>1. Idle \in Thread /\ Idle.at = "idle"
  BY DEF Idle, Thread, ThreadPlaces
<1>2. /\ breaker' = Seen(thread[t].time) /\ Used({t}) /\ UNCHANGED <<now, streak, failedAt>>
      /\ ~Amid(t) /\ thread' = [thread EXCEPT ![t] = Idle]
  BY DEF HealthEnds, Amid
<1>3. thread[t].time \in Int /\ thread[t].time <= now
  BY DEF Clocked
<1> QED BY <1>1, <1>2, <1>3, LookKeeps

LEMMA SucceedsKeeps == ASSUME BreakerInv, NEW t \in Threads, Succeeds(t) PROVE BreakerInv'
<1>1. /\ thread' = [thread EXCEPT ![t].at = "answered"] /\ breaker' = Closed /\ streak' = 0
      /\ Used({t}) /\ UNCHANGED <<now, failedAt>>
  BY DEF Succeeds
<1>2. BreakerTypes /\ thread \in [Threads -> Thread]
  BY DEF BreakerInv, BreakerTypes
<1>3. thread' \in [Threads -> Thread] /\ thread'[t].at = "answered"
      /\ \A u \in Threads \ {t} : thread'[u] = thread[u]
  BY <1>1, <1>2 DEF Thread, ThreadPlaces
<1>4. /\ Closed \in [state : {"closed", "open", "half open"}, failures : Nat, opened : SUBSET Int]
      /\ Closed.state = "closed" /\ Closed.failures = 0 /\ Closed.opened = {}
  BY DEF Closed
<1>5. BreakerTypes'
  BY <1>1, <1>2, <1>3, <1>4 DEF BreakerTypes, Used
<1>6. Settled' /\ ~Amid(t)'
  <2>1. /\ breaker'.state = "closed" /\ breaker'.failures = streak' /\ streak' < Threshold
        /\ breaker'.opened = {}
    BY <1>1, <1>4, BreakerNumbers
  <2> QED BY <1>3, <2>1 DEF Settled, Amid
<1> QED BY <1>1, <1>3, <1>5, <1>6, Uses

LEMMA FailsKeeps ==
  ASSUME BreakerInv, NEW t \in Threads, NEW retryable, Fails(t, retryable)
  PROVE  BreakerInv'
<1> DEFINE at == IF Trips THEN "tripping" ELSE "failed"
<1>1. /\ thread' = [thread EXCEPT ![t].at = at] /\ breaker' = Counted
      /\ Used({t}) /\ UNCHANGED now /\ thread[t].at = "trying"
      /\ IF Trips THEN UNCHANGED <<streak, failedAt>> ELSE FailureRecorded
  BY Zenon DEF Fails
<1>2. /\ BreakerTypes /\ thread \in [Threads -> Thread] /\ streak \in Nat /\ Threshold \in Nat
      /\ now \in Int
      /\ breaker \in [state : {"closed", "open", "half open"}, failures : Nat, opened : SUBSET Int]
  BY BreakerNumbers, Zenon DEF BreakerInv, BreakerTypes
<1>3. at \in {"tripping", "failed"} /\ (at = "tripping" <=> Trips)
  OBVIOUS
<1> HIDE DEF at
<1>4. thread' \in [Threads -> Thread] /\ thread'[t].at = at
      /\ \A u \in Threads \ {t} : thread'[u] = thread[u]
  BY <1>1, <1>2, <1>3 DEF Thread, ThreadPlaces
<1>5. /\ Counted \in [state : {"closed", "open", "half open"}, failures : Nat, opened : SUBSET Int]
      /\ Counted.state = breaker.state /\ Counted.opened = breaker.opened
      /\ breaker.state # "half open" => Counted.failures = breaker.failures + 1
  <2> DEFINE n == IF breaker.state = "half open" THEN breaker.failures ELSE breaker.failures + 1
  <2>1. n \in Nat
    <3>1. breaker.failures \in Nat
      BY <1>2
    <3>2. breaker.failures + 1 \in Nat
      BY <3>1, OneMore, Zenon
    <3> QED BY <3>1, <3>2, Zenon
  <2>2. Counted = [breaker EXCEPT !.failures = n]
    BY <1>2 DEF Counted
  <2>3. breaker.state # "half open" => n = breaker.failures + 1
    OBVIOUS
  <2> HIDE DEF n
  <2>4. /\ [breaker EXCEPT !.failures = n].failures = n
        /\ [breaker EXCEPT !.failures = n].state = breaker.state
        /\ [breaker EXCEPT !.failures = n].opened = breaker.opened
        /\ [breaker EXCEPT !.failures = n] \in
             [state : {"closed", "open", "half open"}, failures : Nat, opened : SUBSET Int]
    BY <1>2, <2>1
  <2> QED BY <2>2, <2>3, <2>4
<1>6. streak' \in Nat /\ failedAt' \in Int
  <2>1. failedAt \in Int /\ streak + 1 \in Nat
    BY <1>2, OneMore, Zenon DEF BreakerTypes
  <2>2. streak' \in {streak, streak + 1} /\ failedAt' \in {failedAt, now}
    BY <1>1, Zenon DEF FailureRecorded
  <2> QED BY <1>2, <2>1, <2>2
<1>7. BreakerTypes'
  BY <1>1, <1>2, <1>4, <1>5, <1>6 DEF BreakerTypes, Used
<1>8. ASSUME ~raced', Trips PROVE streak' + 1 >= Threshold /\ thread'[t].at = "tripping"
  <2>1. Settled
    BY <1>1, <1>8, FoundSettled DEF Amid
  <2>2. breaker.failures \in Nat
    BY <1>2
  <2>3. breaker.state = "closed" => streak + 1 >= Threshold
    BY <1>8, <2>1 DEF Settled, Trips
  <2>4. breaker.state # "closed" => streak + 1 >= Threshold
    <3>1. breaker.state # "closed" => streak >= Threshold
      BY <2>1 DEF Settled
    <3> QED BY <1>2, <3>1, OneMore, Zenon
  <2> QED BY <1>1, <1>3, <1>4, <1>8, <2>3, <2>4
<1>9. ASSUME ~raced', ~Trips PROVE Settled' /\ ~Amid(t)'
  <2>1. Settled
    BY <1>1, <1>9, FoundSettled DEF Amid
  <2>2. breaker.failures \in Nat
    BY <1>2
  <2>3. breaker.state = "closed"
    <3>1. breaker.state # "closed" => breaker.failures >= Threshold
      BY <2>1 DEF Settled
    <3>2. ~(breaker.failures + 1 >= Threshold)
      BY <1>9 DEF Trips
    <3> QED BY <1>2, <2>2, <3>1, <3>2, OneMore, Zenon
  <2>4. /\ breaker'.state = "closed" /\ breaker'.failures = breaker.failures + 1
        /\ streak' = streak + 1 /\ breaker'.opened = {}
    BY <1>1, <1>5, <1>9, <2>1, <2>3 DEF FailureRecorded, Settled
  <2>5. breaker.failures = streak /\ ~(breaker.failures + 1 >= Threshold)
    BY <1>9, <2>1, <2>3 DEF Settled, Trips
  <2>6. Settled'
    <3>1. breaker'.failures = streak' /\ streak' < Threshold
      <4>1. streak + 1 \in Nat /\ Threshold \in Nat /\ breaker.failures + 1 = streak + 1
        BY <1>2, <2>5, OneMore, Zenon
      <4>2. \A a, b \in Nat : ~(a >= b) => a < b
        OBVIOUS
      <4> QED BY <2>4, <2>5, <4>1, <4>2, Zenon
    <3> QED BY <2>4, <3>1 DEF Settled
  <2> QED BY <1>3, <1>4, <1>9, <2>6 DEF Amid
<1> QED BY <1>1, <1>4, <1>7, <1>8, <1>9, Uses

LEMMA TripOpensKeeps == ASSUME BreakerInv, NEW t \in Threads, TripOpens(t) PROVE BreakerInv'
<1>1. /\ thread' = [thread EXCEPT ![t].at = "timing", ![t].time = now]
      /\ breaker' = [breaker EXCEPT !.state = "open"]
      /\ Used({t}) /\ UNCHANGED <<now, streak, failedAt>> /\ thread[t].at = "tripping"
  BY DEF TripOpens
<1>2. /\ BreakerTypes /\ thread \in [Threads -> Thread] /\ now \in Int
      /\ breaker \in [state : {"closed", "open", "half open"}, failures : Nat, opened : SUBSET Int]
  BY DEF BreakerInv, BreakerTypes
<1>3. thread' \in [Threads -> Thread] /\ thread'[t].at = "timing"
      /\ \A u \in Threads \ {t} : thread'[u] = thread[u]
  BY <1>1, <1>2 DEF Thread, ThreadPlaces
<1>4. /\ breaker' \in [state : {"closed", "open", "half open"}, failures : Nat, opened : SUBSET Int]
      /\ breaker'.state = "open"
  BY <1>1, <1>2
<1>5. BreakerTypes'
  BY <1>1, <1>2, <1>3, <1>4 DEF BreakerTypes, Used
<1>6. ~raced' => streak' + 1 >= Threshold
  BY <1>1, UsedAlone DEF BreakerInv, Amid
<1> QED BY <1>1, <1>3, <1>4, <1>5, <1>6, Uses

LEMMA TripEndsKeeps == ASSUME BreakerInv, NEW t \in Threads, TripEnds(t) PROVE BreakerInv'
<1> DEFINE time == thread[t].time
<1>1. /\ thread' = [thread EXCEPT ![t] = [Idle EXCEPT !.at = "failed"]]
      /\ breaker' = [breaker EXCEPT !.opened = {time}, !.failures = Threshold]
      /\ streak' = streak + 1 /\ failedAt' = time
      /\ Used({t}) /\ UNCHANGED now /\ thread[t].at = "timing"
  BY DEF TripEnds, Stamped
<1>2. /\ BreakerTypes /\ thread \in [Threads -> Thread] /\ streak \in Nat
      /\ Threshold \in Nat /\ time \in Int
      /\ breaker \in [state : {"closed", "open", "half open"}, failures : Nat, opened : SUBSET Int]
  BY BreakerAssumption DEF BreakerInv, BreakerTypes, Thread
<1> HIDE DEF time
<1>3. [Idle EXCEPT !.at = "failed"] \in Thread /\ [Idle EXCEPT !.at = "failed"].at = "failed"
  BY DEF Idle, Thread, ThreadPlaces
<1>4. thread' \in [Threads -> Thread] /\ thread'[t].at = "failed"
      /\ \A u \in Threads \ {t} : thread'[u] = thread[u]
  BY <1>1, <1>2, <1>3
<1>5. /\ breaker' \in [state : {"closed", "open", "half open"}, failures : Nat, opened : SUBSET Int]
      /\ breaker'.state = breaker.state /\ breaker'.opened = {time} /\ breaker'.failures = Threshold
  BY <1>1, <1>2
<1>6. BreakerTypes'
  <2>1. now' \in Int /\ failedAt' \in Int /\ streak' \in Nat
    BY <1>1, <1>2, OneMore, Zenon DEF BreakerTypes
  <2> QED BY <1>1, <1>2, <1>4, <1>5, <2>1 DEF BreakerTypes, Used
<1>7. ASSUME ~raced' PROVE Settled' /\ ~Amid(t)'
  <2>1. ~raced
    BY <1>1, <1>7, UsedAlone
  <2>2. breaker.state = "open" /\ streak + 1 >= Threshold
    BY <1>1, <2>1 DEF BreakerInv, Amid
  <2>3. breaker'.failures >= Threshold
    <3>1. \A n \in Nat : n >= n
      OBVIOUS
    <3> QED BY <1>2, <1>5, <3>1, Zenon
  <2>4. streak' >= Threshold /\ breaker'.opened = {failedAt'}
    BY <1>1, <1>5, <2>2, Zenon
  <2> QED BY <1>4, <1>5, <2>2, <2>3, <2>4 DEF Settled, Amid
<1> QED BY <1>1, <1>4, <1>6, <1>7, Uses

LEMMA BreakerStep == BreakerInv /\ Clocked /\ [BreakerNext]_breakerVars => BreakerInv'
<1> SUFFICES ASSUME BreakerInv, Clocked, [BreakerNext]_breakerVars PROVE BreakerInv'
  OBVIOUS
<1>1. BreakerTypes /\ thread \in [Threads -> Thread] /\ now \in Int /\ Attempts \in Nat
  BY BreakerNumbers, Zenon DEF BreakerInv, BreakerTypes
<1>2. CASE UNCHANGED breakerVars \/ Later
  <2>1. BreakerTypes' /\ UNCHANGED <<breaker, streak, failedAt, raced, thread>> /\ now <= now'
    <3>1. UNCHANGED <<breaker, streak, failedAt, raced, thread>> /\ now' \in {now, now + 1}
      BY <1>2 DEF breakerVars, Later
    <3>2. now' \in Int /\ now <= now'
      BY <1>1, <3>1
    <3> QED BY <1>1, <3>1, <3>2 DEF BreakerTypes
  <2> QED BY <2>1, LeftAlone
<1>3. ASSUME NEW t \in Threads, Hear(t) PROVE BreakerInv'
  <2>1. Idle \in Thread /\ Idle.at = "idle"
    BY DEF Idle, Thread, ThreadPlaces
  <2>2. thread' \in [Threads -> Thread] /\ thread'[t].at = "idle"
        /\ \A u \in Threads \ {t} : thread'[u] = thread[u]
    BY <1>1, <1>3, <2>1 DEF Hear
  <2>3. BreakerTypes' /\ UNCHANGED <<breaker, streak, failedAt, raced, now>>
    BY <1>1, <1>3, <2>2 DEF Hear, BreakerTypes
  <2>4. ~Amid(t) /\ ~Amid(t)'
    BY <1>3, <2>2 DEF Hear, Amid
  <2> QED BY <1>1, <2>2, <2>3, <2>4, LeftAlone
<1>4. ASSUME NEW t \in Threads, Retries(t) PROVE BreakerInv'
  <2>1. thread' \in [Threads -> Thread] /\ thread'[t].at = thread[t].at
        /\ \A u \in Threads \ {t} : thread'[u] = thread[u]
    BY <1>1, <1>4 DEF Retries, Thread
  <2>2. BreakerTypes' /\ UNCHANGED <<breaker, streak, failedAt, raced, now>>
    BY <1>1, <1>4, <2>1 DEF Retries, BreakerTypes
  <2> QED BY <1>1, <2>1, <2>2, LeftAlone
<1> QED
  BY <1>2, <1>3, <1>4, CallKeeps, DecidesKeeps, HealthKeeps, HealthEndsKeeps, SucceedsKeeps,
     FailsKeeps, TripOpensKeeps, TripEndsKeeps DEF BreakerNext

\* The inductive invariant of the breaker: but for a race, it counts and dates the
\* failures of all the threads together.
THEOREM BreakerInvariance == BreakerSpec => []BreakerInv
<1> QED BY BreakerStart, BreakerStep, BreakerClocked, PTL DEF BreakerSpec

\* The step that decides a call, as it begins or once it has been told the time.
LEMMA CallIsExact ==
  ASSUME BreakerInv, Clocked, [BreakerNext]_breakerVars, NEW t \in Threads, Decided(t)
  PROVE  /\ thread'[t].at = "refused" => streak >= Threshold /\ thread[t].time - failedAt < Recovery
         /\ thread'[t].at = "trying" => streak < Threshold \/ now - failedAt >= Recovery
         /\ thread'[t].at = "raised" => streak < Threshold /\ thread[t].at = "looking"
<1>1. /\ BreakerTypes /\ thread \in [Threads -> Thread] /\ ~raced' /\ ~Amid(t)
      /\ thread[t].at \in {"idle", "looking"} /\ thread'[t].at # thread[t].at
  BY DEF BreakerInv, BreakerTypes, Decided, Amid
<1>2. PICK u \in Threads :
        \/ Call(u) \/ Decides(u) \/ Hear(u) \/ Health(u) \/ HealthEnds(u)
        \/ Succeeds(u) \/ Retries(u) \/ TripOpens(u) \/ TripEnds(u)
        \/ \E retryable \in BOOLEAN : Fails(u, retryable)
  BY <1>1 DEF breakerVars, Later, BreakerNext
<1>3. u # t => thread'[t] = thread[t]
  BY <1>1, <1>2
     DEF Call, Decides, Hear, Health, HealthEnds, Succeeds, Retries, TripOpens, TripEnds, Fails
<1>4. u = t
  BY <1>1, <1>3
<1>5. Call(t) \/ Decides(t) \/ Health(t)
  BY <1>1, <1>2, <1>4 DEF Hear, HealthEnds, Succeeds, Retries, TripOpens, TripEnds, Fails
<1>6. CASE Health(t)
  BY <1>1, <1>6 DEF Health, Thread, ThreadPlaces
<1>7. CASE Call(t) /\ Timed
  BY <1>1, <1>7 DEF Call, Thread, ThreadPlaces
<1>8. CASE Call(t) /\ ~Timed
  <2>1. Settled
    BY <1>1, <1>8, FoundSettled DEF Call
  <2>2. thread'[t].at = Verdict(breaker)
    <3>1. thread' = [thread EXCEPT ![t].at = Verdict(breaker)]
      BY <1>8 DEF Call
    <3> QED BY <1>1, <3>1 DEF Thread
  <2>3. breaker.state # "open"
    BY <1>8, <2>1 DEF Timed, Settled
  <2>4. thread'[t].at = "trying"
    BY <2>2, <2>3 DEF Verdict
  <2>5. breaker.state = "closed" \/ breaker.state = "half open"
    BY <1>1, <2>3 DEF BreakerTypes
  <2>6. streak < Threshold \/ now - failedAt >= Recovery
    BY <2>1, <2>5, Zenon DEF Settled
  <2> QED BY <2>4, <2>6
<1>9. CASE Decides(t)
  <2>1. Settled
    BY <1>1, <1>9, FoundSettled DEF Decides
  <2>2. /\ breaker' = Seen(thread[t].time) /\ UNCHANGED <<now, streak, failedAt>>
        /\ thread[t].at = "looking"
    BY <1>9 DEF Decides
  <2>3. thread[t].time \in Int /\ thread[t].time <= now
    BY DEF Clocked
  <2>4. /\ Settled'
        /\ breaker'.state = "open" => streak >= Threshold /\ thread[t].time - failedAt < Recovery
    BY <1>1, <2>1, <2>2, <2>3, SeenSettled
  <2>5. thread'[t].at = IF breaker.opened = {} THEN "raised" ELSE Verdict(breaker')
    BY <1>1, <1>9 DEF Decides, Idle
  <2>6. thread'[t].at = "refused" => breaker'.state = "open"
    BY <2>5 DEF Verdict
  <2>7. thread'[t].at = "trying" => streak < Threshold \/ now - failedAt >= Recovery
    <3>1. thread'[t].at = "trying" => breaker'.state # "open"
      BY <2>5 DEF Verdict
    <3>2. breaker'.state \in {"closed", "open", "half open"}
      BY <1>1, <2>2, SeenTypes
    <3>3. /\ breaker'.state = "closed" => streak < Threshold
          /\ breaker'.state = "half open" => now - failedAt >= Recovery
      BY <2>2, <2>4 DEF Settled
    <3> QED BY <3>1, <3>2, <3>3
  <2>8. thread'[t].at = "raised" => streak < Threshold
    <3>1. thread'[t].at = "raised" => breaker.opened = {}
      BY <2>5 DEF Verdict
    <3>2. breaker.opened = {} => breaker.state = "closed"
      BY <2>1 DEF Settled
    <3> QED BY <2>1, <3>1, <3>2 DEF Settled
  <2> QED BY <2>2, <2>4, <2>6, <2>7, <2>8
<1> QED BY <1>5, <1>6, <1>7, <1>8, <1>9

\* For any threads, thresholds and times: until a trip has been raced, a call is
\* refused only after Threshold failures in a row, the last of them less than
\* recovery_seconds before it read the clock; it is let through only if not, or if
\* that time is up; and before_call raises anything else only over a success.
THEOREM BreakerIsExact == BreakerSpec => RefusesExactly
<1> DEFINE Exactly ==
  \A t \in Threads : Decided(t) =>
    /\ thread'[t].at = "refused" => streak >= Threshold /\ thread[t].time - failedAt < Recovery
    /\ thread'[t].at = "trying" => streak < Threshold \/ now - failedAt >= Recovery
    /\ thread'[t].at = "raised" => streak < Threshold /\ thread[t].at = "looking"
<1>1. BreakerInv /\ Clocked /\ [BreakerNext]_breakerVars => Exactly
  BY CallIsExact
<1>2. BreakerSpec => [][Exactly]_breakerVars
  <2> HIDE DEF Exactly
  <2> QED BY <1>1, BreakerInvariance, BreakerClocked, PTL DEF BreakerSpec
<1> QED BY <1>2 DEF RefusesExactly

BreakerStates == {"closed", "open", "half open"}
ThreadTypes == [at : ThreadPlaces, tries : 0..(Attempts - 1), time : 0..LastTick]
BreakerRecords == [state : BreakerStates, failures : Nat, opened : SUBSET (0..LastTick)]

BreakerTyped ==
  /\ now \in 0..LastTick /\ made \in 0..MaxCalls /\ streak \in Nat /\ failedAt \in 0..LastTick
  /\ raced \in BOOLEAN /\ breaker \in BreakerRecords /\ thread \in [Threads -> ThreadTypes]

LEMMA BreakerTypesStart == BreakerInit => BreakerTyped
<1> SUFFICES ASSUME BreakerInit PROVE BreakerTyped
  OBVIOUS
<1>1. Idle \in ThreadTypes
  BY BreakerAssumption DEF Idle, ThreadTypes, ThreadPlaces
<1>2. Closed \in BreakerRecords
  BY DEF Closed, BreakerRecords, BreakerStates
<1>3. thread \in [Threads -> ThreadTypes]
  BY <1>1 DEF BreakerInit
<1>4. /\ now \in 0..LastTick /\ made \in 0..MaxCalls /\ streak \in Nat
      /\ failedAt \in 0..LastTick
  BY BreakerAssumption DEF BreakerInit
<1>5. raced \in BOOLEAN /\ breaker \in BreakerRecords
  BY <1>2, Zenon DEF BreakerInit
<1> QED BY <1>3, <1>4, <1>5, Zenon DEF BreakerTyped

LEMMA SeenTyped == ASSUME BreakerTyped, NEW time PROVE Seen(time) \in BreakerRecords
BY DEF Seen, BreakerTyped, BreakerRecords, BreakerStates

LEMMA UsedTyped == ASSUME BreakerTyped, NEW by, Used(by) PROVE raced' \in BOOLEAN
BY Zenon DEF Used, BreakerTyped

LEMMA BreakerTypesStep == BreakerTyped /\ [BreakerNext]_breakerVars => BreakerTyped'
<1> SUFFICES ASSUME BreakerTyped, [BreakerNext]_breakerVars PROVE BreakerTyped'
  OBVIOUS
<1> USE BreakerAssumption
<1>1. CASE UNCHANGED breakerVars
  BY <1>1 DEF breakerVars, BreakerTyped
<1>2. CASE Later
  BY <1>2 DEF Later, BreakerTyped
<1> SUFFICES ASSUME NEW t \in Threads,
                    \/ Call(t) \/ Decides(t) \/ Hear(t) \/ Health(t) \/ HealthEnds(t)
                    \/ Succeeds(t) \/ Retries(t) \/ TripOpens(t) \/ TripEnds(t)
                    \/ \E retryable \in BOOLEAN : Fails(t, retryable)
             PROVE  BreakerTyped'
  BY <1>1, <1>2 DEF BreakerNext
<1>3. Idle \in ThreadTypes
  BY DEF Idle, ThreadTypes, ThreadPlaces
<1>4. thread[t] \in ThreadTypes
  BY DEF BreakerTyped
<1>5. CASE Call(t)
  <2>1. made' \in 0..MaxCalls
    BY <1>5 DEF Call, BreakerTyped
  <2>2. thread' \in [Threads -> ThreadTypes]
    <3>1. Verdict(breaker) \in ThreadPlaces
      BY DEF Verdict, ThreadPlaces
    <3>2. PICK after \in ThreadTypes : thread' = [thread EXCEPT ![t] = after]
      <4>1. CASE Timed
        <5>1. [[thread[t] EXCEPT !.at = "looking"] EXCEPT !.time = now] \in ThreadTypes
          BY <1>4 DEF BreakerTyped, ThreadTypes, ThreadPlaces
        <5>2. thread' = [thread EXCEPT ![t] = [[thread[t] EXCEPT !.at = "looking"] EXCEPT !.time = now]]
          BY <1>5, <4>1 DEF Call, BreakerTyped
        <5> QED BY <5>1, <5>2
      <4>2. CASE ~Timed
        <5>1. [thread[t] EXCEPT !.at = Verdict(breaker)] \in ThreadTypes
          BY <1>4, <3>1 DEF ThreadTypes
        <5>2. thread' = [thread EXCEPT ![t] = [thread[t] EXCEPT !.at = Verdict(breaker)]]
          BY <1>5, <4>2 DEF Call, BreakerTyped
        <5> QED BY <5>1, <5>2
      <4> QED BY <4>1, <4>2
    <3> QED BY <3>2 DEF BreakerTyped
  <2>3. raced' \in BOOLEAN
    <3>1. raced \in BOOLEAN
      BY DEF BreakerTyped
    <3>2. Used({t}) \/ raced' = raced
      BY <1>5 DEF Call
    <3> QED BY <3>1, <3>2, UsedTyped, Zenon
  <2>4. UNCHANGED <<now, breaker, streak, failedAt>>
    BY <1>5 DEF Call
  <2> QED BY <2>1, <2>2, <2>3, <2>4 DEF BreakerTyped
<1>6. CASE Hear(t)
  BY <1>3, <1>6 DEF Hear, BreakerTyped
<1>12. CASE Decides(t)
  <2> DEFINE at == IF breaker.opened = {} THEN "raised" ELSE Verdict(breaker')
  <2>1. at \in ThreadPlaces
    BY DEF Verdict, ThreadPlaces
  <2>2. thread' = [thread EXCEPT ![t] = [Idle EXCEPT !.at = at]]
    BY <1>12, Zenon DEF Decides
  <2> HIDE DEF at
  <2>3. [Idle EXCEPT !.at = at] \in ThreadTypes
    BY <1>3, <2>1 DEF ThreadTypes
  <2>4. thread' \in [Threads -> ThreadTypes]
    BY <2>2, <2>3 DEF BreakerTyped
  <2> QED BY <1>12, <2>4, SeenTyped, UsedTyped DEF Decides, BreakerTyped
<1>13. CASE Health(t)
  <2>1. thread' = [thread EXCEPT ![t] = [[thread[t] EXCEPT !.at = "glancing"] EXCEPT !.time = now]]
    BY <1>13 DEF Health, BreakerTyped
  <2>2. [[thread[t] EXCEPT !.at = "glancing"] EXCEPT !.time = now] \in ThreadTypes
    BY <1>4 DEF BreakerTyped, ThreadTypes, ThreadPlaces
  <2>3. thread' \in [Threads -> ThreadTypes]
    BY <2>1, <2>2 DEF BreakerTyped
  <2> QED BY <1>13, <2>3 DEF Health, BreakerTyped
<1>14. CASE HealthEnds(t)
  <2>1. thread' \in [Threads -> ThreadTypes]
    BY <1>3, <1>14 DEF HealthEnds, BreakerTyped
  <2> QED BY <1>14, <2>1, SeenTyped, UsedTyped DEF HealthEnds, BreakerTyped
<1>7. CASE Succeeds(t)
  <2>1. Closed \in BreakerRecords
    BY DEF Closed, BreakerRecords, BreakerStates
  <2>2. thread' \in [Threads -> ThreadTypes]
    BY <1>7, <1>4 DEF Succeeds, BreakerTyped, ThreadTypes, ThreadPlaces
  <2> QED BY <1>7, <2>1, <2>2, UsedTyped DEF Succeeds, BreakerTyped
<1>8. CASE Retries(t)
  <2>1. thread' \in [Threads -> ThreadTypes]
    BY <1>8, <1>4 DEF Retries, BreakerTyped, ThreadTypes, ThreadPlaces
  <2> QED BY <1>8, <2>1 DEF Retries, BreakerTyped
<1>9. CASE TripOpens(t)
  <2>1. breaker' \in BreakerRecords
    BY <1>9 DEF TripOpens, BreakerTyped, BreakerRecords, BreakerStates
  <2>2. thread' \in [Threads -> ThreadTypes]
    <3>1. thread' = [thread EXCEPT ![t] = [[thread[t] EXCEPT !.at = "timing"] EXCEPT !.time = now]]
      BY <1>9 DEF TripOpens, BreakerTyped
    <3>2. [[thread[t] EXCEPT !.at = "timing"] EXCEPT !.time = now] \in ThreadTypes
      BY <1>4 DEF BreakerTyped, ThreadTypes, ThreadPlaces
    <3> QED BY <3>1, <3>2 DEF BreakerTyped
  <2> QED BY <1>9, <2>1, <2>2, UsedTyped DEF TripOpens, BreakerTyped
<1>10. CASE TripEnds(t)
  <2>1. breaker' \in BreakerRecords
    BY <1>10, <1>4 DEF TripEnds, Stamped, BreakerTyped, BreakerRecords, BreakerStates, ThreadTypes
  <2>2. thread' \in [Threads -> ThreadTypes]
    BY <1>10, <1>4 DEF TripEnds, Idle, BreakerTyped, ThreadTypes, ThreadPlaces
  <2>3. streak' \in Nat /\ failedAt' \in 0..LastTick
    BY <1>10, <1>4 DEF TripEnds, BreakerTyped, ThreadTypes
  <2> QED BY <1>10, <2>1, <2>2, <2>3, UsedTyped DEF TripEnds, BreakerTyped
<1>11. CASE \E retryable \in BOOLEAN : Fails(t, retryable)
  <2> PICK retryable \in BOOLEAN : Fails(t, retryable)
    BY <1>11
  <2>1. breaker' \in BreakerRecords
    <3>1. breaker \in BreakerRecords
      BY DEF BreakerTyped
    <3>2. breaker.failures \in Nat /\ breaker.failures + 1 \in Nat
      BY <3>1 DEF BreakerRecords
    <3>3. Counted \in BreakerRecords
      BY <3>1, <3>2 DEF Counted, BreakerRecords
    <3> QED BY <3>3 DEF Fails
  <2>2. thread' \in [Threads -> ThreadTypes]
    BY <1>4 DEF Fails, BreakerTyped, ThreadTypes, ThreadPlaces
  <2>3. streak' \in Nat /\ failedAt' \in 0..LastTick
    BY DEF Fails, FailureRecorded, BreakerTyped
  <2> QED BY <2>1, <2>2, <2>3, UsedTyped DEF Fails, BreakerTyped
<1> QED BY <1>5, <1>6, <1>7, <1>8, <1>9, <1>10, <1>11, <1>12, <1>13, <1>14

\* The breaker, its clock, its counts and each thread's call stay in their domains.
THEOREM BreakerTypesHold == BreakerSpec => []BreakerTypeOK
<1>1. BreakerTyped => BreakerTypeOK
  BY DEF BreakerTyped, BreakerTypeOK, BreakerRecords, BreakerStates, ThreadTypes, ThreadPlaces
<1> QED BY BreakerTypesStart, BreakerTypesStep, <1>1, PTL DEF BreakerSpec
-------------------------------------------------------------------------------
(* KeyCache *)

Client ==
  [made : Nat, set : SUBSET (Kids \cup {"none"}), fetched : Int, handed : SUBSET Kids]
Request ==
  [at : {"new", "key", "fetch", "again", "accepted", "refused", "unavailable"}, kid : Kids,
   good : BOOLEAN, client : Nat, began : Int, live : BOOLEAN]

Looking == {"key", "fetch", "again"}

KeysTypes ==
  /\ clock \in Nat /\ published \in SUBSET Kids /\ withdrawn \in [Kids -> Int]
  /\ clients \in Seq(Client) /\ bearer \in [Bearers -> Request]

\* What is published has not been withdrawn.
Published == \A k \in published : withdrawn[k] = Never

\* A client's keys were published after it was made: none was withdrawn before.
ClientOK(c) ==
  /\ c.made <= clock
  /\ \A k \in Kids :
       k \in c.handed \/ (c.set # NoSet /\ k \in c.set) =>
         withdrawn[k] = Never \/ c.made <= withdrawn[k]

\* A request got a client that was not older than Life; what it accepted was not
\* withdrawn earlier than that.
BearerOK(r) ==
  /\ r.at \in Looking =>
       /\ r.client \in 1..Len(clients) /\ r.began <= clock
       /\ r.began - clients[r.client].made <= Life
  /\ r.at = "accepted" =>
       r.began <= clock /\ (withdrawn[r.kid] = Never \/ r.began - withdrawn[r.kid] <= Life)

KeysInv ==
  /\ KeysTypes
  /\ Published
  /\ \A n \in 1..Len(clients) : ClientOK(clients[n])
  /\ \A b \in Bearers : BearerOK(bearer[b])

-------------------------------------------------------------------------------
LEMMA KeysStart == KeysInit => KeysInv
<1> SUFFICES ASSUME KeysInit PROVE KeysInv
  OBVIOUS
<1>1. clock = 0 /\ clients = <<>> /\ published = {FirstKid}
  BY DEF KeysInit
<1>2. withdrawn = [k \in Kids |-> Never] /\ bearer = [b \in Bearers |-> Arriving]
  BY DEF KeysInit
<1>3. Arriving \in Request /\ Arriving.at = "new"
  BY KeysAssumption DEF Arriving, Request, Never
<1>4. withdrawn \in [Kids -> Int] /\ bearer \in [Bearers -> Request]
  BY <1>2, <1>3 DEF Never
<1>5. KeysTypes
  <2>1. clients \in Seq(Client)
    BY <1>1
  <2>2. published \in SUBSET Kids /\ clock \in Nat
    BY <1>1, KeysAssumption
  <2> QED BY <1>4, <2>1, <2>2, Zenon DEF KeysTypes
<1>6. Published
  BY <1>1, <1>2, KeysAssumption DEF Published
<1>7. \A n \in 1..Len(clients) : ClientOK(clients[n])
  BY <1>1
<1>8. \A b \in Bearers : BearerOK(bearer[b])
  BY <1>2, <1>3 DEF BearerOK, Looking
<1> QED BY <1>5, <1>6, <1>7, <1>8, Zenon DEF KeysInv

\* What a request finds in its client is not too old for it.
LEMMA FoundInTime ==
  ASSUME KeysTypes, NEW r \in Request, r.at \in Looking, BearerOK(r),
         ClientOK(clients[r.client]),
         \/ r.kid \in clients[r.client].handed
         \/ clients[r.client].set # NoSet /\ r.kid \in clients[r.client].set
  PROVE  /\ r.began <= clock
         /\ withdrawn[r.kid] = Never \/ r.began - withdrawn[r.kid] <= Life
<1>1. r.client \in 1..Len(clients) /\ r.began <= clock
  BY DEF BearerOK
<1>2. clients[r.client] \in Client
  BY <1>1, ElementOfSeq DEF KeysTypes
<1>3. r.began - clients[r.client].made <= Life
  BY DEF BearerOK
<1>4. r.began \in Int /\ r.kid \in Kids /\ clients[r.client].made \in Int
  BY <1>2 DEF Request, Client
<1>5. withdrawn[r.kid] \in Int
  BY <1>4 DEF KeysTypes
<1>6. withdrawn[r.kid] = Never \/ clients[r.client].made <= withdrawn[r.kid]
  BY <1>4 DEF ClientOK
<1> QED BY <1>1, <1>3, <1>4, <1>5, <1>6, KeysAssumption

\* Answering a request keeps its type, and what it accepts must be in time.
LEMMA AnsweredOK ==
  ASSUME KeysTypes, NEW b \in Bearers, NEW how \in {"accepted", "refused", "unavailable"},
         Answered(b, how)
  PROVE  /\ bearer' \in [Bearers -> Request]
         /\ \A d \in Bearers : d # b => bearer'[d] = bearer[d]
         /\ bearer'[b].at = how
         /\ how = "accepted" =>
              bearer'[b].kid = bearer[b].kid /\ bearer'[b].began = bearer[b].began
<1> DEFINE new ==
      CASE how = "accepted" ->
             [Arriving EXCEPT !.at = how, !.kid = bearer[b].kid, !.began = bearer[b].began]
        [] how = "refused" -> [bearer[b] EXCEPT !.at = how, !.client = 0, !.began = Never]
        [] OTHER -> [Arriving EXCEPT !.at = how]
<1>1. bearer' = [bearer EXCEPT ![b] = new]
  BY Zenon DEF Answered
<1>2. bearer[b] \in Request /\ Arriving \in Request
  BY KeysAssumption DEF KeysTypes, Arriving, Request, Never
<1>3. new \in Request /\ new.at = how
  <2>1. CASE how = "accepted"
    <3>1. new = [at |-> "accepted", kid |-> bearer[b].kid, good |-> TRUE, client |-> 0,
                 began |-> bearer[b].began, live |-> FALSE]
      BY <2>1 DEF Arriving
    <3>2. bearer[b].kid \in Kids /\ bearer[b].began \in Int
      BY <1>2 DEF Request
    <3>3. [at |-> "accepted", kid |-> bearer[b].kid, good |-> TRUE, client |-> 0,
           began |-> bearer[b].began, live |-> FALSE] \in Request
      BY <3>2 DEF Request
    <3>4. [at |-> "accepted", kid |-> bearer[b].kid, good |-> TRUE, client |-> 0,
           began |-> bearer[b].began, live |-> FALSE].at = how
      BY <2>1
    <3> HIDE DEF new
    <3> QED BY <3>1, <3>3, <3>4, Zenon
  <2>2. CASE how = "refused"
    <3>1. new = [bearer[b] EXCEPT !.at = "refused", !.client = 0, !.began = Never]
      BY <2>2
    <3>2. Never \in Int
      BY DEF Never
    <3>3. [bearer[b] EXCEPT !.at = "refused", !.client = 0, !.began = Never] \in Request
      BY <1>2, <3>2 DEF Request
    <3>4. [bearer[b] EXCEPT !.at = "refused", !.client = 0, !.began = Never].at = "refused"
      BY <1>2 DEF Request
    <3> HIDE DEF new
    <3> QED BY <2>2, <3>1, <3>3, <3>4, Zenon
  <2>3. CASE how = "unavailable"
    BY <1>2, <2>3 DEF Request, Never
  <2> QED BY <2>1, <2>2, <2>3
<1>4. how = "accepted" => new.kid = bearer[b].kid /\ new.began = bearer[b].began
  BY <1>2 DEF Arriving
<1>5. bearer \in [Bearers -> Request]
  BY DEF KeysTypes
<1> HIDE DEF new
<1> QED BY <1>1, <1>3, <1>4, <1>5

-------------------------------------------------------------------------------
\* One request's step, whatever it makes of its own and of the clients.
LEMMA RequestStep ==
  ASSUME KeysInv, NEW b \in Bearers, UNCHANGED <<clock, published, withdrawn>>,
         clients' \in Seq(Client), Len(clients) <= Len(clients'),
         \A n \in 1..Len(clients) : clients'[n].made = clients[n].made,
         \A n \in 1..Len(clients') : ClientOK(clients[n])',
         bearer' \in [Bearers -> Request], BearerOK(bearer[b])',
         \A d \in Bearers : d # b => bearer'[d] = bearer[d]
  PROVE  KeysInv'
<1>1. KeysTypes /\ Published
  BY DEF KeysInv
<1>2. clients \in Seq(Client) /\ clock \in Nat /\ bearer \in [Bearers -> Request]
  BY <1>1 DEF KeysTypes
<1>3. KeysTypes'
  BY <1>1 DEF KeysTypes
<1>4. Published'
  BY <1>1 DEF Published
<1>5. ASSUME NEW d \in Bearers PROVE BearerOK(bearer[d])'
  <2>1. CASE d = b
    BY <2>1
  <2>2. CASE d # b
    <3>1. bearer'[d] = bearer[d] /\ BearerOK(bearer[d]) /\ bearer[d] \in Request
      BY <1>2, <2>2 DEF KeysInv
    <3> DEFINE q == bearer[d]
    <3>2. Len(clients) \in Nat /\ Len(clients') \in Nat
      BY <1>2
    <3> QED BY <1>2, <3>1, <3>2 DEF BearerOK
  <2> QED BY <2>1, <2>2
<1>6. \A n \in 1..Len(clients)' : ClientOK(clients[n])'
  OBVIOUS
<1> QED BY <1>3, <1>4, <1>5, <1>6 DEF KeysInv

\* A client made now has nothing to find yet, and those before it stay.
LEMMA ClientMade ==
  ASSUME KeysInv, clients' = Append(clients, NewClient), UNCHANGED <<clock, withdrawn>>
  PROVE  /\ clients' \in Seq(Client) /\ Len(clients') = Len(clients) + 1
         /\ \A n \in 1..Len(clients) : clients'[n].made = clients[n].made
         /\ clients'[Len(clients')].made = clock
         /\ \A n \in 1..Len(clients') : ClientOK(clients[n])'
<1>1. clients \in Seq(Client) /\ clock \in Nat
  BY DEF KeysInv, KeysTypes
<1>2. NewClient \in Client /\ NewClient.made = clock /\ NewClient.set = NoSet /\ NewClient.handed = {}
  BY <1>1 DEF NewClient, Client, NoSet, Never
<1>3. /\ clients' \in Seq(Client) /\ Len(clients') = Len(clients) + 1
      /\ \A n \in 1..Len(clients) : clients'[n] = clients[n]
      /\ clients'[Len(clients) + 1] = NewClient
  BY <1>1, <1>2, AppendProperties
<1>4. ASSUME NEW n \in 1..Len(clients') PROVE ClientOK(clients[n])'
  <2>1. CASE n \in 1..Len(clients)
    <3>1. ClientOK(clients[n]) /\ clients'[n] = clients[n]
      BY <1>3, <2>1 DEF KeysInv
    <3> QED BY <3>1 DEF ClientOK
  <2>2. CASE n = Len(clients) + 1
    <3>1. clients'[n] = NewClient
      BY <1>3, <2>2
    <3> QED BY <1>1, <1>2, <3>1 DEF ClientOK
  <2> QED BY <1>1, <1>3, <2>1, <2>2
<1> QED BY <1>2, <1>3, <1>4

\* A client that is used keeps the time it was made; what it then holds was there
\* before or is published.
LEMMA ClientUsed ==
  ASSUME KeysInv, NEW m \in 1..Len(clients), NEW c \in Client, c.made = clients[m].made,
         clients' = [clients EXCEPT ![m] = c], UNCHANGED <<clock, published, withdrawn>>,
         \A k \in Kids :
           k \in c.handed \/ (c.set # NoSet /\ k \in c.set) =>
             \/ k \in published
             \/ k \in clients[m].handed \/ (clients[m].set # NoSet /\ k \in clients[m].set)
  PROVE  /\ clients' \in Seq(Client) /\ Len(clients') = Len(clients)
         /\ \A n \in 1..Len(clients) : clients'[n].made = clients[n].made
         /\ \A n \in 1..Len(clients') : ClientOK(clients[n])'
<1>1. clients \in Seq(Client) /\ \A k \in published : withdrawn[k] = Never
  BY DEF KeysInv, KeysTypes, Published
<1>2. /\ clients' \in Seq(Client) /\ Len(clients') = Len(clients)
      /\ \A n \in 1..Len(clients) : clients'[n] = IF n = m THEN c ELSE clients[n]
  BY <1>1, ExceptSeq
<1>3. \A n \in 1..Len(clients) : clients'[n].made = clients[n].made
  BY <1>2
<1>4. ASSUME NEW n \in 1..Len(clients') PROVE ClientOK(clients[n])'
  <2>1. ClientOK(clients[n]) /\ ClientOK(clients[m])
    BY <1>2 DEF KeysInv
  <2>2. CASE n = m
    <3>1. clients'[n] = c
      BY <1>2, <2>2
    <3> QED BY <1>1, <2>1, <3>1 DEF ClientOK
  <2>3. CASE n # m
    <3>1. clients'[n] = clients[n]
      BY <1>2, <2>3
    <3> QED BY <2>1, <3>1 DEF ClientOK
  <2> QED BY <2>2, <2>3
<1> QED BY <1>2, <1>3, <1>4

LEMMA ArriveKeeps ==
  ASSUME KeysInv, NEW b \in Bearers, NEW k \in Kids, NEW good \in BOOLEAN, Arrive(b, k, good)
  PROVE  KeysInv'
<1> DEFINE new == [at |-> "key", kid |-> k, good |-> good, client |-> Len(clients'),
                   began |-> clock, live |-> k \in published]
<1>1. clients' = IF Expired THEN Append(clients, NewClient) ELSE clients
  BY Zenon DEF Arrive
<1>2. bearer' = [bearer EXCEPT ![b] = new] /\ UNCHANGED <<clock, published, withdrawn>>
  BY Zenon DEF Arrive
<1>3. clients \in Seq(Client) /\ clock \in Nat /\ bearer \in [Bearers -> Request]
  BY DEF KeysInv, KeysTypes
<1>4. Len(clients) \in Nat
  BY <1>3
<1>5. /\ clients' \in Seq(Client) /\ Len(clients) <= Len(clients')
      /\ \A n \in 1..Len(clients) : clients'[n].made = clients[n].made
      /\ \A n \in 1..Len(clients') : ClientOK(clients[n])'
      /\ Len(clients') \in 1..Len(clients') /\ clock - clients'[Len(clients')].made <= Life
  <2>1. CASE Expired
    <3>1. clients' = Append(clients, NewClient)
      BY <1>1, <2>1
    <3>2. /\ clients' \in Seq(Client) /\ Len(clients') = Len(clients) + 1
          /\ \A n \in 1..Len(clients) : clients'[n].made = clients[n].made
          /\ clients'[Len(clients')].made = clock
          /\ \A n \in 1..Len(clients') : ClientOK(clients[n])'
      BY <1>2, <3>1, ClientMade
    <3> QED BY <1>3, <1>4, <3>2, KeysAssumption
  <2>2. CASE ~Expired
    <3>1. clients' = clients
      BY <1>1, <2>2
    <3>2. Len(clients) # 0 /\ ~(clock - clients[Len(clients)].made > Life)
      BY <2>2 DEF Expired, Newest
    <3>3. Len(clients) \in 1..Len(clients)
      BY <1>4, <3>2
    <3>4. clients[Len(clients)] \in Client
      BY <1>3, <3>3, ElementOfSeq
    <3>5. clients[Len(clients)].made \in Nat
      BY <3>4 DEF Client
    <3>6. \A n \in 1..Len(clients') : ClientOK(clients[n])'
      BY <1>2, <3>1 DEF KeysInv, ClientOK
    <3>7. clock - clients[Len(clients)].made <= Life
      BY <1>3, <3>2, <3>5, KeysAssumption
    <3> QED BY <1>3, <1>4, <3>1, <3>3, <3>6, <3>7
  <2> QED BY <2>1, <2>2
<1>6. Len(clients') \in Nat
  BY <1>5
<1>7. new \in Request
  BY <1>3, <1>6 DEF Request
<1>8. bearer' \in [Bearers -> Request] /\ bearer'[b] = new
      /\ \A d \in Bearers : d # b => bearer'[d] = bearer[d]
  BY <1>2, <1>3, <1>7
<1>9. BearerOK(bearer[b])'
  <2>1. new.at = "key" /\ new.client = Len(clients') /\ new.began = clock
    OBVIOUS
  <2>2. clock <= clock'
    BY <1>2, <1>3
  <2> HIDE DEF new
  <2> QED BY <1>2, <1>5, <1>8, <2>1, <2>2 DEF BearerOK
<1> QED BY <1>2, <1>5, <1>8, <1>9, RequestStep

LEMMA UnparsedKeeps ==
  ASSUME KeysInv, NEW b \in Bearers, NEW token \in BOOLEAN, Unparsed(b, token) PROVE KeysInv'
<1> DEFINE new == [bearer[b] EXCEPT !.at = "refused"]
<1>1. clients' = IF token /\ Expired THEN Append(clients, NewClient) ELSE clients
  BY Zenon DEF Unparsed
<1>2. bearer' = [bearer EXCEPT ![b] = new] /\ UNCHANGED <<clock, published, withdrawn>>
  BY Zenon DEF Unparsed
<1>3. clients \in Seq(Client) /\ bearer \in [Bearers -> Request]
  BY DEF KeysInv, KeysTypes
<1>4. /\ clients' \in Seq(Client) /\ Len(clients) <= Len(clients')
      /\ \A n \in 1..Len(clients) : clients'[n].made = clients[n].made
      /\ \A n \in 1..Len(clients') : ClientOK(clients[n])'
  <2>1. CASE token /\ Expired
    <3>1. clients' = Append(clients, NewClient)
      BY <1>1, <2>1
    <3>2. /\ clients' \in Seq(Client) /\ Len(clients') = Len(clients) + 1
          /\ \A n \in 1..Len(clients) : clients'[n].made = clients[n].made
          /\ \A n \in 1..Len(clients') : ClientOK(clients[n])'
      BY <1>2, <3>1, ClientMade
    <3>3. Len(clients) \in Nat
      BY <1>3
    <3> QED BY <3>2, <3>3
  <2>2. CASE ~(token /\ Expired)
    <3>1. clients' = clients
      BY <1>1, <2>2
    <3>2. \A n \in 1..Len(clients') : ClientOK(clients[n])'
      BY <1>2, <3>1 DEF KeysInv, ClientOK
    <3> QED BY <1>3, <3>1, <3>2
  <2> QED BY <2>1, <2>2
<1>5. bearer[b] \in Request
  BY <1>3
<1>6. new \in Request /\ new.at = "refused"
  BY <1>5 DEF Request
<1> HIDE DEF new
<1>7. bearer' \in [Bearers -> Request] /\ bearer'[b] = new
      /\ \A d \in Bearers : d # b => bearer'[d] = bearer[d]
  BY <1>2, <1>3, <1>6
<1>8. BearerOK(bearer[b])'
  BY <1>6, <1>7 DEF BearerOK, Looking
<1> QED BY <1>2, <1>4, <1>7, <1>8, RequestStep

\* An answer: the clients are given, and what is accepted has been found.
LEMMA AnswerKeeps ==
  ASSUME KeysInv, NEW b \in Bearers, bearer[b].at \in Looking,
         NEW how \in {"accepted", "refused", "unavailable"}, Answered(b, how),
         UNCHANGED <<clock, published, withdrawn>>,
         clients' \in Seq(Client), Len(clients) <= Len(clients'),
         \A n \in 1..Len(clients) : clients'[n].made = clients[n].made,
         \A n \in 1..Len(clients') : ClientOK(clients[n])',
         how = "accepted" =>
           \/ bearer[b].kid \in published
           \/ bearer[b].kid \in Mine(b).handed
           \/ Mine(b).set # NoSet /\ bearer[b].kid \in Mine(b).set
  PROVE  KeysInv'
<1>1. KeysTypes /\ Published /\ BearerOK(bearer[b])
  BY DEF KeysInv
<1>2. bearer[b] \in Request /\ clock \in Nat
  BY <1>1 DEF KeysTypes
<1>3. /\ bearer' \in [Bearers -> Request]
      /\ \A d \in Bearers : d # b => bearer'[d] = bearer[d]
      /\ bearer'[b].at = how
      /\ how = "accepted" =>
           bearer'[b].kid = bearer[b].kid /\ bearer'[b].began = bearer[b].began
  BY <1>1, AnsweredOK
<1>4. how = "accepted" =>
        /\ bearer[b].began <= clock
        /\ withdrawn[bearer[b].kid] = Never \/ bearer[b].began - withdrawn[bearer[b].kid] <= Life
  <2> SUFFICES ASSUME how = "accepted"
               PROVE  /\ bearer[b].began <= clock
                      /\ \/ withdrawn[bearer[b].kid] = Never
                         \/ bearer[b].began - withdrawn[bearer[b].kid] <= Life
    OBVIOUS
  <2>1. bearer[b].began <= clock /\ bearer[b].client \in 1..Len(clients)
    BY <1>1 DEF BearerOK
  <2>2. CASE bearer[b].kid \in published
    BY <1>1, <2>1, <2>2 DEF Published
  <2>3. CASE \/ bearer[b].kid \in clients[bearer[b].client].handed
             \/ /\ clients[bearer[b].client].set # NoSet
                /\ bearer[b].kid \in clients[bearer[b].client].set
    <3>1. ClientOK(clients[bearer[b].client])
      BY <2>1 DEF KeysInv
    <3> QED BY <1>1, <1>2, <2>3, <3>1, FoundInTime
  <2> QED BY <2>2, <2>3 DEF Mine
<1>5. BearerOK(bearer[b])'
  BY <1>3, <1>4 DEF BearerOK, Looking
<1> QED BY <1>3, <1>5, RequestStep

LEMMA FoundAnswers ==
  ASSUME NEW b \in Bearers, Found(b)
  PROVE  \E how \in {"accepted", "refused", "unavailable"} : Answered(b, how)
BY Zenon DEF Found

LEMMA LookUpKeeps == ASSUME KeysInv, NEW b \in Bearers, LookUp(b) PROVE KeysInv'
<1> DEFINE k == bearer[b].kid
           m == bearer[b].client
<1>1. UNCHANGED <<clock, published, withdrawn>> /\ bearer[b].at = "key"
  BY Zenon DEF LookUp
<1>2. clients \in Seq(Client) /\ bearer \in [Bearers -> Request] /\ BearerOK(bearer[b])
  BY DEF KeysInv, KeysTypes
<1>3. bearer[b] \in Request /\ bearer[b].at \in Looking
  BY <1>1, <1>2 DEF Looking
<1>4. m \in 1..Len(clients)
  BY <1>2, <1>3 DEF BearerOK
<1>5. clients[m] \in Client
  BY <1>2, <1>4, ElementOfSeq
<1>6. CASE k \in Mine(b).handed
  <2>1. Found(b) /\ UNCHANGED clients
    BY <1>6, Zenon DEF LookUp
  <2>2. PICK how \in {"accepted", "refused", "unavailable"} : Answered(b, how)
    BY <2>1, FoundAnswers
  <2>3. \A n \in 1..Len(clients') : ClientOK(clients[n])'
    BY <1>1, <2>1 DEF KeysInv, ClientOK
  <2>4. Len(clients) \in Nat
    BY <1>2
  <2> QED BY <1>1, <1>2, <1>3, <1>6, <2>1, <2>2, <2>3, <2>4, AnswerKeeps
<1>7. CASE k \notin Mine(b).handed /\ Keeps(Mine(b)) /\ k \in Mine(b).set
  <2> DEFINE c == [clients[m] EXCEPT !.handed = @ \cup {k}]
  <2>1. Found(b) /\ clients' = [clients EXCEPT ![m] = c]
    BY <1>7 DEF LookUp
  <2>2. clients[m].set # NoSet /\ k \in clients[m].set
    BY <1>7 DEF Keeps, Mine
  <2>3. PICK how \in {"accepted", "refused", "unavailable"} : Answered(b, how)
    BY <2>1, FoundAnswers
  <2>4. k \in Kids
    BY <1>3 DEF Request
  <2>5. /\ c \in Client /\ c.made = clients[m].made /\ c.set = clients[m].set
        /\ c.handed = clients[m].handed \cup {k}
    BY <1>5, <2>4 DEF Client
  <2> HIDE DEF c
  <2>6. /\ clients' \in Seq(Client) /\ Len(clients') = Len(clients)
        /\ \A n \in 1..Len(clients) : clients'[n].made = clients[n].made
        /\ \A n \in 1..Len(clients') : ClientOK(clients[n])'
    BY <1>1, <1>4, <2>1, <2>2, <2>5, ClientUsed
  <2>7. Len(clients) \in Nat /\ Mine(b) = clients[m]
    BY <1>2 DEF Mine
  <2> QED BY <1>1, <1>3, <2>2, <2>3, <2>6, <2>7, AnswerKeeps
<1>8. CASE k \notin Mine(b).handed /\ ~(Keeps(Mine(b)) /\ k \in Mine(b).set)
  <2> DEFINE new == [bearer[b] EXCEPT !.at = IF Keeps(Mine(b)) THEN "again" ELSE "fetch"]
  <2>1. UNCHANGED clients /\ bearer' = [bearer EXCEPT ![b] = new]
    BY <1>8 DEF LookUp
  <2>2. /\ new \in Request /\ new.at \in Looking
        /\ new.client = bearer[b].client /\ new.began = bearer[b].began
    BY <1>3 DEF Request, Looking
  <2> HIDE DEF new
  <2>3. bearer' \in [Bearers -> Request] /\ bearer'[b] = new
        /\ \A d \in Bearers : d # b => bearer'[d] = bearer[d]
    BY <1>2, <2>1, <2>2
  <2>4. BearerOK(bearer[b])'
    BY <1>1, <1>2, <1>3, <2>1, <2>2, <2>3 DEF BearerOK, Looking
  <2>5. \A n \in 1..Len(clients') : ClientOK(clients[n])'
    BY <1>1, <2>1 DEF KeysInv, ClientOK
  <2>6. Len(clients) \in Nat
    BY <1>2
  <2> QED BY <1>1, <1>2, <2>1, <2>3, <2>4, <2>5, <2>6, RequestStep
<1> QED BY <1>6, <1>7, <1>8

LEMMA FetchKeeps == ASSUME KeysInv, NEW b \in Bearers, Fetch(b) PROVE KeysInv'
<1> DEFINE k == bearer[b].kid
           m == bearer[b].client
           c == [clients[m] EXCEPT !.set = published, !.fetched = clock,
                                   !.handed = @ \cup (published \cap {k})]
<1>1. UNCHANGED <<clock, published, withdrawn>> /\ bearer[b].at \in Looking
  BY DEF Fetch, Looking
<1>2. /\ clients \in Seq(Client) /\ bearer \in [Bearers -> Request] /\ BearerOK(bearer[b])
      /\ published \in SUBSET Kids /\ clock \in Nat
  BY DEF KeysInv, KeysTypes
<1>3. bearer[b] \in Request
  BY <1>2
<1>4. m \in 1..Len(clients)
  BY <1>1, <1>2 DEF BearerOK
<1>5. clients[m] \in Client
  BY <1>2, <1>4, ElementOfSeq
<1>6. clients' = [clients EXCEPT ![m] = c]
  BY Zenon DEF Fetch, Mine
<1>7. /\ c.made = clients[m].made /\ c.set = published
      /\ c.handed = clients[m].handed \cup (published \cap {k})
  BY <1>5 DEF Client
<1>8. c \in Client
  <2>1. clock \in Int /\ published \in SUBSET (Kids \cup {"none"})
    BY <1>2
  <2>2. clients[m].handed \cup (published \cap {k}) \in SUBSET Kids
    BY <1>2, <1>5 DEF Client
  <2> QED BY <1>5, <2>1, <2>2 DEF Client
<1> HIDE DEF c
<1>9. /\ clients' \in Seq(Client) /\ Len(clients') = Len(clients)
      /\ \A n \in 1..Len(clients) : clients'[n].made = clients[n].made
      /\ \A n \in 1..Len(clients') : ClientOK(clients[n])'
  BY <1>1, <1>4, <1>6, <1>7, <1>8, ClientUsed
<1>10. Len(clients) \in Nat
  BY <1>2
<1>11. CASE k \in published
  <2>1. Found(b)
    BY <1>11, Zenon DEF Fetch
  <2>2. PICK how \in {"accepted", "refused", "unavailable"} : Answered(b, how)
    BY <2>1, FoundAnswers
  <2> QED BY <1>1, <1>9, <1>10, <1>11, <2>2, AnswerKeeps
<1>12. CASE k \notin published /\ bearer[b].at = "fetch"
  <2> DEFINE new == [bearer[b] EXCEPT !.at = "again"]
  <2>1. bearer' = [bearer EXCEPT ![b] = new]
    BY <1>12, Zenon DEF Fetch
  <2>2. /\ new \in Request /\ new.at = "again"
        /\ new.client = bearer[b].client /\ new.began = bearer[b].began
    BY <1>3 DEF Request
  <2> HIDE DEF new
  <2>3. bearer' \in [Bearers -> Request] /\ bearer'[b] = new
        /\ \A d \in Bearers : d # b => bearer'[d] = bearer[d]
    BY <1>2, <2>1, <2>2
  <2>4. BearerOK(bearer[b])'
    BY <1>1, <1>2, <1>4, <1>9, <2>2, <2>3 DEF BearerOK, Looking
  <2> QED BY <1>1, <1>9, <1>10, <2>3, <2>4, RequestStep
<1>13. CASE k \notin published /\ bearer[b].at # "fetch"
  <2>1. Answered(b, "refused")
    BY <1>13, Zenon DEF Fetch
  <2> QED BY <1>1, <1>9, <1>10, <2>1, AnswerKeeps
<1> QED BY <1>11, <1>12, <1>13

LEMMA FetchFailsKeeps == ASSUME KeysInv, NEW b \in Bearers, FetchFails(b) PROVE KeysInv'
<1> DEFINE m == bearer[b].client
           c == [clients[m] EXCEPT !.set = NoSet]
<1>1. UNCHANGED <<clock, published, withdrawn>> /\ bearer[b].at \in Looking
  BY DEF FetchFails, Looking
<1>2. clients \in Seq(Client) /\ BearerOK(bearer[b])
  BY DEF KeysInv, KeysTypes
<1>3. m \in 1..Len(clients)
  BY <1>1, <1>2 DEF BearerOK
<1>4. clients[m] \in Client
  BY <1>2, <1>3, ElementOfSeq
<1>5. clients' = [clients EXCEPT ![m] = c] /\ Answered(b, "unavailable")
  BY DEF FetchFails, Unreachable
<1>6. /\ c \in Client /\ c.made = clients[m].made /\ c.set = NoSet
      /\ c.handed = clients[m].handed
  BY <1>4 DEF Client, NoSet
<1> HIDE DEF c
<1>7. /\ clients' \in Seq(Client) /\ Len(clients') = Len(clients)
      /\ \A n \in 1..Len(clients) : clients'[n].made = clients[n].made
      /\ \A n \in 1..Len(clients') : ClientOK(clients[n])'
  BY <1>1, <1>3, <1>5, <1>6, ClientUsed
<1>8. Len(clients) \in Nat
  BY <1>2
<1> QED BY <1>1, <1>5, <1>7, <1>8, AnswerKeeps

\* The provider's steps, and the time's.
LEMMA ProviderKeeps ==
  ASSUME KeysInv, Tick \/ \E k \in Kids : Publish(k) \/ Withdraw(k) PROVE KeysInv'
<1>1. UNCHANGED <<clients, bearer>>
  BY DEF Tick, Publish, Withdraw
<1>2. KeysTypes /\ Published
  BY DEF KeysInv
<1>3. clock \in Nat /\ published \in SUBSET Kids /\ withdrawn \in [Kids -> Int]
  BY <1>2 DEF KeysTypes
<1>4. clock' \in Nat /\ clock <= clock'
  BY <1>3 DEF Tick, Publish, Withdraw
<1>5. \A k \in Kids : withdrawn'[k] = withdrawn[k] \/ (withdrawn'[k] = clock /\ k \notin published')
  BY <1>3 DEF Tick, Publish, Withdraw
<1>6. published' \in SUBSET Kids /\ withdrawn' \in [Kids -> Int]
  BY <1>3 DEF Tick, Publish, Withdraw
<1>7. KeysTypes'
  BY <1>1, <1>2, <1>4, <1>6 DEF KeysTypes
<1>8. \A k \in published' : withdrawn[k] = Never
  BY <1>2 DEF Tick, Publish, Withdraw, Published
<1>9. Published'
  BY <1>5, <1>6, <1>8 DEF Published
<1>10. ASSUME NEW n \in 1..Len(clients)' PROVE ClientOK(clients[n])'
  <2>1. n \in 1..Len(clients) /\ clients'[n] = clients[n]
    BY <1>1
  <2>2. clients[n] \in Client
    BY <1>2, <2>1, ElementOfSeq DEF KeysTypes
  <2>3. clients[n].made \in Nat
    BY <2>2 DEF Client
  <2>4. clients[n].made <= clock
    BY <2>1 DEF KeysInv, ClientOK
  <2>5. clients[n].made <= clock'
    BY <1>3, <1>4, <2>3, <2>4
  <2>6. \A k \in Kids :
          k \in clients[n].handed \/ (clients[n].set # NoSet /\ k \in clients[n].set) =>
            withdrawn'[k] = Never \/ clients[n].made <= withdrawn'[k]
    BY <1>5, <2>1, <2>4 DEF KeysInv, ClientOK
  <2> QED BY <2>1, <2>5, <2>6 DEF ClientOK
<1>11. ASSUME NEW b \in Bearers PROVE BearerOK(bearer[b])'
  <2>1. bearer[b] \in Request /\ BearerOK(bearer[b])
    BY <1>2 DEF KeysInv, KeysTypes
  <2>2. bearer[b].kid \in Kids /\ bearer[b].began \in Int
    BY <2>1 DEF Request
  <2>3. bearer[b].began <= clock =>
          bearer[b].began <= clock' /\ bearer[b].began - clock <= Life
    BY <1>3, <1>4, <2>2, KeysAssumption
  <2>4. \/ withdrawn'[bearer[b].kid] = withdrawn[bearer[b].kid]
        \/ withdrawn'[bearer[b].kid] = clock
    BY <1>5, <2>2
  <2> QED BY <1>1, <2>1, <2>3, <2>4 DEF BearerOK
<1> QED BY <1>7, <1>9, <1>10, <1>11 DEF KeysInv

LEMMA KeysStep == KeysInv /\ [KeysNext]_keysVars => KeysInv'
<1> SUFFICES ASSUME KeysInv, [KeysNext]_keysVars PROVE KeysInv'
  OBVIOUS
<1>1. CASE UNCHANGED keysVars
  BY <1>1 DEF keysVars, KeysInv, KeysTypes, Published, ClientOK, BearerOK
<1>2. CASE KeysNext
  BY <1>2, ProviderKeeps, ArriveKeeps, UnparsedKeeps, LookUpKeeps, FetchKeeps, FetchFailsKeeps
     DEF KeysNext
<1> QED BY <1>1, <1>2

\* The inductive invariant of the clients and the requests.
THEOREM KeysInvariance == KeysSpec => []KeysInv
<1> QED BY KeysStart, KeysStep, PTL DEF KeysSpec

\* For any number of requests, keys, clients and rotations: a key verifies no
\* request that began more than JWKS_CACHE_SECONDS after its withdrawal.
THEOREM KeysAreWithdrawnInTime == KeysSpec => []WithdrawnInTime
<1>1. KeysInv => WithdrawnInTime
  BY DEF KeysInv, BearerOK, WithdrawnInTime
<1> QED BY <1>1, KeysInvariance, PTL

ClientTyped(c) == (c.set = NoSet \/ c.set \subseteq Kids) /\ c.made \in 0..MaxTime

\* The clock, and all that is dated by it, ends at its bound; a request's client
\* has been made.
KeysTyped ==
  /\ clock \in 0..MaxTime /\ withdrawn \in [Kids -> {Never} \cup 0..MaxTime]
  /\ \A n \in 1..Len(clients) : ClientTyped(clients[n])
  /\ \A b \in Bearers : bearer[b].client \in 0..Len(clients)

LEMMA KeysTypedStart == KeysInit => KeysTyped
<1> SUFFICES ASSUME KeysInit PROVE KeysTyped
  OBVIOUS
<1>1. Len(clients) = 0 /\ clock = 0 /\ clock \in 0..MaxTime
  BY KeysAssumption DEF KeysInit
<1>2. withdrawn \in [Kids -> {Never} \cup 0..MaxTime]
  BY DEF KeysInit
<1>3. \A b \in Bearers : bearer[b].client = 0
  BY DEF KeysInit, Arriving
<1> QED BY <1>1, <1>2, <1>3 DEF KeysTyped

\* What a step may make of the clients and of the requests.
ClientsGo ==
  \/ clients' = clients
  \/ clients' = Append(clients, NewClient)
  \/ \E m \in 1..Len(clients), c \in Client :
       /\ clients' = [clients EXCEPT ![m] = c]
       /\ c.made = clients[m].made /\ c.set \in {NoSet, published, clients[m].set}

RequestsGo == \A b \in Bearers : bearer'[b].client \in {0, bearer[b].client, Len(clients')}

LEMMA KeysTypedBy ==
  ASSUME KeysInv, KeysTyped, UNCHANGED <<clock, withdrawn>>, ClientsGo, RequestsGo
  PROVE  KeysTyped'
<1>1. /\ clients \in Seq(Client) /\ published \in SUBSET Kids /\ clock \in 0..MaxTime
      /\ \A n \in 1..Len(clients) : ClientTyped(clients[n])
  BY DEF KeysInv, KeysTypes, KeysTyped
<1>2. /\ Len(clients) \in Nat /\ Len(clients') \in Nat /\ Len(clients) <= Len(clients')
      /\ \A n \in 1..Len(clients') : ClientTyped(clients'[n])
  <2>1. CASE clients' = clients
    BY <1>1, <2>1
  <2>2. CASE clients' = Append(clients, NewClient)
    <3>1. NewClient.made = clock /\ NewClient.set = NoSet /\ NewClient \in Client
      BY <1>1, KeysAssumption DEF NewClient, Client, NoSet, Never
    <3>2. ClientTyped(NewClient)
      BY <1>1, <3>1 DEF ClientTyped
    <3>3. /\ clients' \in Seq(Client) /\ Len(clients') = Len(clients) + 1
          /\ \A n \in 1..Len(clients) : clients'[n] = clients[n]
          /\ clients'[Len(clients) + 1] = NewClient
      BY <1>1, <2>2, <3>1, AppendProperties
    <3>4. \A n \in 1..Len(clients') : n \in 1..Len(clients) \/ n = Len(clients) + 1
      BY <1>1, <3>3
    <3> QED BY <1>1, <3>2, <3>3, <3>4
  <2>3. ASSUME NEW m \in 1..Len(clients), NEW c \in Client, clients' = [clients EXCEPT ![m] = c],
               c.made = clients[m].made, c.set \in {NoSet, published, clients[m].set}
        PROVE  /\ Len(clients) \in Nat /\ Len(clients') = Len(clients)
               /\ \A n \in 1..Len(clients') : ClientTyped(clients'[n])
    <3>1. /\ Len(clients') = Len(clients)
          /\ \A n \in 1..Len(clients) : clients'[n] = IF n = m THEN c ELSE clients[n]
      BY <1>1, <2>3, ExceptSeq
    <3>2. ClientTyped(c)
      BY <1>1, <2>3 DEF ClientTyped
    <3> QED BY <1>1, <3>1, <3>2
  <2> QED BY <2>1, <2>2, <2>3 DEF ClientsGo
<1>3. \A b \in Bearers : bearer'[b].client \in 0..Len(clients')
  <2> TAKE b \in Bearers
  <2>1. bearer[b].client \in 0..Len(clients) /\ bearer'[b].client \in {0, bearer[b].client, Len(clients')}
    BY DEF KeysTyped, RequestsGo
  <2> QED BY <1>2, <2>1
<1> QED BY <1>2, <1>3 DEF KeysTyped, ClientTyped

\* A request that is answered lets go of its client, and the others keep theirs.
LEMMA AnsweredGo ==
  ASSUME KeysTypes, NEW b \in Bearers, NEW how, Answered(b, how) PROVE RequestsGo
<1> DEFINE new ==
      CASE how = "accepted" ->
             [Arriving EXCEPT !.at = how, !.kid = bearer[b].kid, !.began = bearer[b].began]
        [] how = "refused" -> [bearer[b] EXCEPT !.at = how, !.client = 0, !.began = Never]
        [] OTHER -> [Arriving EXCEPT !.at = how]
<1>1. bearer' = [bearer EXCEPT ![b] = new]
  BY Zenon DEF Answered
<1>2. bearer \in [Bearers -> Request]
  BY DEF KeysTypes
<1>3. new.client = 0
  <2>1. bearer[b] \in Request
    BY <1>2
  <2> QED BY <2>1 DEF Arriving, Request
<1> HIDE DEF new
<1> QED BY <1>1, <1>2, <1>3 DEF RequestsGo

LEMMA KeysTypedStep == KeysInv /\ KeysTyped /\ [KeysNext]_keysVars => KeysTyped'
<1> SUFFICES ASSUME KeysInv, KeysTyped, [KeysNext]_keysVars PROVE KeysTyped'
  OBVIOUS
<1>1. KeysTypes /\ clients \in Seq(Client) /\ bearer \in [Bearers -> Request]
  BY DEF KeysInv, KeysTypes
<1>2. CASE UNCHANGED keysVars
  BY <1>2 DEF keysVars, KeysTyped, ClientTyped
<1>3. CASE Tick
  <2>1. UNCHANGED <<withdrawn, clients, bearer>>
    BY <1>3 DEF Tick
  <2>2. clock' \in 0..MaxTime
    <3>1. MaxTime \in Nat /\ clock \in 0..MaxTime /\ clock < MaxTime /\ clock' = clock + 1
      BY <1>3, KeysAssumption DEF Tick, KeysTyped
    <3> QED BY <3>1
  <2> QED BY <2>1, <2>2 DEF KeysTyped, ClientTyped
<1>4. ASSUME NEW k \in Kids, Publish(k) \/ Withdraw(k) PROVE KeysTyped'
  <2>1. UNCHANGED <<clock, clients, bearer>>
    BY <1>4 DEF Publish, Withdraw
  <2>2. withdrawn' \in [Kids -> {Never} \cup 0..MaxTime]
    BY <1>4 DEF Publish, Withdraw, KeysTyped
  <2> QED BY <2>1, <2>2 DEF KeysTyped, ClientTyped
<1> SUFFICES ASSUME NEW b \in Bearers,
                    \/ \E k \in Kids, good \in BOOLEAN : Arrive(b, k, good)
                    \/ \E token \in BOOLEAN : Unparsed(b, token)
                    \/ LookUp(b) \/ Fetch(b) \/ FetchFails(b)
             PROVE  ClientsGo /\ RequestsGo /\ UNCHANGED <<clock, withdrawn>>
  BY <1>2, <1>3, <1>4, KeysTypedBy DEF KeysNext
<1>5. UNCHANGED <<clock, withdrawn>>
  BY Zenon DEF Arrive, Unparsed, LookUp, Fetch, FetchFails
<1>6. ASSUME NEW k \in Kids, NEW good \in BOOLEAN, Arrive(b, k, good)
      PROVE  ClientsGo /\ RequestsGo
  <2>1. ClientsGo
    BY <1>6, Zenon DEF Arrive, ClientsGo
  <2>2. bearer' = [bearer EXCEPT ![b] =
          [at |-> "key", kid |-> k, good |-> good, client |-> Len(clients'),
           began |-> clock, live |-> k \in published]]
    BY <1>6, Zenon DEF Arrive
  <2>3. RequestsGo
    BY <1>1, <2>2 DEF RequestsGo
  <2> QED BY <2>1, <2>3
<1>7. ASSUME NEW token \in BOOLEAN, Unparsed(b, token) PROVE ClientsGo /\ RequestsGo
  <2>1. ClientsGo
    BY <1>7, Zenon DEF Unparsed, ClientsGo
  <2>2. bearer' = [bearer EXCEPT ![b].at = "refused"]
    BY <1>7, Zenon DEF Unparsed
  <2>3. RequestsGo
    BY <1>1, <2>2 DEF RequestsGo, Request
  <2> QED BY <2>1, <2>3
<1> DEFINE m == bearer[b].client
<1> SUFFICES ASSUME LookUp(b) \/ Fetch(b) \/ FetchFails(b) PROVE ClientsGo /\ RequestsGo
  BY <1>5, <1>6, <1>7
<1>8. bearer[b] \in Request /\ bearer[b].at \in Looking /\ BearerOK(bearer[b])
  BY <1>1 DEF LookUp, Fetch, FetchFails, Looking, KeysInv
<1>9. m \in 1..Len(clients)
  BY <1>8 DEF BearerOK
<1>10. clients[m] \in Client
  BY <1>1, <1>9, ElementOfSeq
<1>11. CASE LookUp(b)
  <2> DEFINE c == [clients[m] EXCEPT !.handed = @ \cup {bearer[b].kid}]
             new == [bearer[b] EXCEPT !.at = IF Keeps(Mine(b)) THEN "again" ELSE "fetch"]
  <2>1. \/ Found(b) /\ clients' = clients
        \/ Found(b) /\ clients' = [clients EXCEPT ![m] = c]
        \/ bearer' = [bearer EXCEPT ![b] = new] /\ clients' = clients
    BY <1>11 DEF LookUp
  <2>2. c \in Client /\ c.made = clients[m].made /\ c.set = clients[m].set
    BY <1>8, <1>10 DEF Client, Request
  <2>3. new.client = m
    BY <1>8 DEF Request
  <2> HIDE DEF c, new
  <2>4. ClientsGo
    BY <1>9, <2>1, <2>2 DEF ClientsGo
  <2>5. Found(b) => RequestsGo
    BY <1>1, AnsweredGo, Zenon DEF Found
  <2>6. bearer' = [bearer EXCEPT ![b] = new] => RequestsGo
    BY <1>1, <2>3 DEF RequestsGo
  <2> QED BY <2>1, <2>4, <2>5, <2>6
<1>12. CASE Fetch(b)
  <2> DEFINE c == [clients[m] EXCEPT !.set = published, !.fetched = clock,
                                     !.handed = @ \cup (published \cap {bearer[b].kid})]
             new == [bearer[b] EXCEPT !.at = "again"]
  <2>1. /\ clients' = [clients EXCEPT ![m] = c]
        /\ Found(b) \/ bearer' = [bearer EXCEPT ![b] = new] \/ Answered(b, "refused")
    BY <1>12, Zenon DEF Fetch, Mine
  <2>2. c.made = clients[m].made /\ c.set = published
    BY <1>10 DEF Client
  <2>3. c \in Client
    <3>1. clock \in Int /\ published \in SUBSET Kids /\ published \in SUBSET (Kids \cup {"none"})
      BY <1>1 DEF KeysTypes
    <3>2. clients[m].handed \cup (published \cap {bearer[b].kid}) \in SUBSET Kids
      BY <1>10, <3>1 DEF Client
    <3> QED BY <1>10, <3>1, <3>2 DEF Client
  <2>4. new.client = m
    BY <1>8 DEF Request
  <2> HIDE DEF c, new
  <2>5. ClientsGo
    BY <1>9, <2>1, <2>2, <2>3 DEF ClientsGo
  <2>6. Found(b) \/ Answered(b, "refused") => RequestsGo
    BY <1>1, AnsweredGo, Zenon DEF Found
  <2>7. bearer' = [bearer EXCEPT ![b] = new] => RequestsGo
    BY <1>1, <2>4 DEF RequestsGo
  <2> QED BY <2>1, <2>5, <2>6, <2>7
<1>13. CASE FetchFails(b)
  <2> DEFINE c == [clients[m] EXCEPT !.set = NoSet]
  <2>1. clients' = [clients EXCEPT ![m] = c] /\ Answered(b, Unreachable)
    BY <1>13, Zenon DEF FetchFails
  <2>2. c \in Client /\ c.made = clients[m].made /\ c.set = NoSet
    BY <1>10 DEF Client, NoSet
  <2> HIDE DEF c
  <2>3. ClientsGo
    BY <1>9, <2>1, <2>2 DEF ClientsGo
  <2> QED BY <1>1, <2>1, <2>3, AnsweredGo
<1> QED BY <1>11, <1>12, <1>13

\* The clock, the provider's keys, the clients and the requests stay in their
\* domains; a request's client is one of those made.
THEOREM KeysTypesHold == KeysSpec => []KeysTypeOK
<1>1. KeysInv /\ KeysTyped => KeysTypeOK
  <2> SUFFICES ASSUME KeysInv, KeysTyped PROVE KeysTypeOK
    OBVIOUS
  <2>1. KeysTypes
    BY DEF KeysInv
  <2>2. \A n \in 1..Len(clients) : clients[n].handed \subseteq Kids
    <3> TAKE n \in 1..Len(clients)
    <3>1. clients[n] \in Client
      BY <2>1, ElementOfSeq DEF KeysTypes
    <3> QED BY <3>1 DEF Client
  <2>3. \A b \in Bearers :
          /\ bearer[b].at \in {"new", "key", "fetch", "again", "accepted", "refused", "unavailable"}
          /\ bearer[b].kid \in Kids
    BY <2>1 DEF KeysTypes, Request
  <2> QED BY <2>1, <2>2, <2>3 DEF KeysTyped, KeysTypes, ClientTyped, KeysTypeOK
<1>2. KeysSpec => []KeysTyped
  BY KeysTypedStart, KeysTypedStep, KeysInvariance, PTL DEF KeysSpec
<1> QED BY <1>1, <1>2, KeysInvariance, PTL
-------------------------------------------------------------------------------
(* Good tokens *)

\* A request that found its key published will find it for as long as it is; one
\* whose token is good is not refused meanwhile.
LiveOK(r) ==
  /\ r.at = "new" => ~r.live
  /\ r.live /\ withdrawn[r.kid] = Never => r.kid \in published /\ (r.good => r.at # "refused")

GoodInv == KeysInv /\ \A b \in Bearers : LiveOK(bearer[b])

\* One request's step, while the provider does nothing.
LEMMA GoodStep ==
  ASSUME GoodInv, KeysInv', NEW b \in Bearers, UNCHANGED <<published, withdrawn>>,
         \A d \in Bearers : d # b => bearer'[d] = bearer[d], LiveOK(bearer'[b])
  PROVE  GoodInv'
<1>1. ASSUME NEW d \in Bearers PROVE LiveOK(bearer[d])'
  <2>1. CASE d = b
    BY <2>1 DEF LiveOK
  <2>2. CASE d # b
    BY <2>2 DEF LiveOK, GoodInv
  <2> QED BY <2>1, <2>2
<1> QED BY <1>1 DEF GoodInv

\* Nothing is live any more in what was accepted or had no answer from the
\* provider; what is refused keeps all that it was.
LEMMA AnsweredLive ==
  ASSUME KeysInv, NEW b \in Bearers, NEW how \in {"accepted", "refused", "unavailable"},
         Answered(b, how)
  PROVE  /\ \A d \in Bearers : d # b => bearer'[d] = bearer[d]
         /\ bearer'[b].at = how
         /\ how # "refused" => ~bearer'[b].live
         /\ how = "refused" =>
              /\ bearer'[b].kid = bearer[b].kid /\ bearer'[b].good = bearer[b].good
              /\ bearer'[b].live = bearer[b].live
<1>1. bearer \in [Bearers -> Request] /\ bearer[b] \in Request
  BY DEF KeysInv, KeysTypes
<1>2. CASE how = "accepted"
  <2>1. bearer' = [bearer EXCEPT ![b] =
          [Arriving EXCEPT !.at = "accepted", !.kid = bearer[b].kid, !.began = bearer[b].began]]
    BY <1>2, Zenon DEF Answered
  <2> DEFINE new == [Arriving EXCEPT !.at = "accepted", !.kid = bearer[b].kid, !.began = bearer[b].began]
  <2>2. new.at = "accepted" /\ ~new.live
    BY DEF Arriving
  <2> HIDE DEF new
  <2> QED BY <1>1, <1>2, <2>1, <2>2 DEF new
<1>3. CASE how = "refused"
  <2>1. bearer' = [bearer EXCEPT ![b] =
          [bearer[b] EXCEPT !.at = "refused", !.client = 0, !.began = Never]]
    BY <1>3, Zenon DEF Answered
  <2> DEFINE new == [bearer[b] EXCEPT !.at = "refused", !.client = 0, !.began = Never]
  <2>2. /\ new.at = "refused" /\ new.kid = bearer[b].kid /\ new.good = bearer[b].good
        /\ new.live = bearer[b].live
    BY <1>1 DEF Request
  <2>3. bearer'[b] = new /\ \A d \in Bearers : d # b => bearer'[d] = bearer[d]
    BY <1>1, <2>1
  <2> HIDE DEF new
  <2> QED BY <1>3, <2>2, <2>3
<1>4. CASE how = "unavailable"
  <2>1. bearer' = [bearer EXCEPT ![b] = [Arriving EXCEPT !.at = "unavailable"]]
    BY <1>4, Zenon DEF Answered
  <2> DEFINE new == [Arriving EXCEPT !.at = "unavailable"]
  <2>2. new.at = "unavailable" /\ ~new.live
    BY DEF Arriving
  <2>3. bearer'[b] = new /\ \A d \in Bearers : d # b => bearer'[d] = bearer[d]
    BY <1>1, <2>1
  <2> HIDE DEF new
  <2> QED BY <1>4, <2>2, <2>3
<1> QED BY <1>2, <1>3, <1>4

\* An answer that does not refuse a good token whose key is published.
LEMMA GoodAnswer ==
  ASSUME GoodInv, KeysInv', NEW b \in Bearers, NEW how \in {"accepted", "refused", "unavailable"},
         Answered(b, how), UNCHANGED <<published, withdrawn>>,
         how = "refused" => ~bearer[b].good \/ bearer[b].kid \notin published
  PROVE  GoodInv'
<1>1. KeysInv /\ LiveOK(bearer[b])
  BY DEF GoodInv
<1>2. /\ \A d \in Bearers : d # b => bearer'[d] = bearer[d]
      /\ bearer'[b].at = how
      /\ how # "refused" => ~bearer'[b].live
      /\ how = "refused" =>
           /\ bearer'[b].kid = bearer[b].kid /\ bearer'[b].good = bearer[b].good
           /\ bearer'[b].live = bearer[b].live
  BY <1>1, AnsweredLive
<1>3. LiveOK(bearer'[b])
  BY <1>1, <1>2 DEF LiveOK
<1> QED BY <1>2, <1>3, GoodStep

LEMMA GoodFound ==
  ASSUME GoodInv, KeysInv', NEW b \in Bearers, Found(b), UNCHANGED <<published, withdrawn>>
  PROVE  GoodInv'
<1>1. CASE bearer[b].good
  <2>1. Answered(b, "accepted")
    BY <1>1 DEF Found
  <2> QED BY <2>1, GoodAnswer
<1>2. CASE ~bearer[b].good
  <2>1. Answered(b, "refused")
    BY <1>2 DEF Found
  <2> QED BY <1>2, <2>1, GoodAnswer
<1> QED BY <1>1, <1>2

\* A request that goes on looking, as it was but for where it is.
LEMMA GoodLooking ==
  ASSUME GoodInv, KeysInv', NEW b \in Bearers, NEW at \in {"fetch", "again"},
         bearer[b].at # "new", bearer' = [bearer EXCEPT ![b].at = at],
         UNCHANGED <<published, withdrawn>>
  PROVE  GoodInv'
<1>1. bearer \in [Bearers -> Request] /\ bearer[b] \in Request /\ LiveOK(bearer[b])
  BY DEF GoodInv, KeysInv, KeysTypes
<1>2. /\ bearer'[b].at = at /\ bearer'[b].kid = bearer[b].kid
      /\ bearer'[b].good = bearer[b].good /\ bearer'[b].live = bearer[b].live
  BY <1>1 DEF Request
<1>3. \A d \in Bearers : d # b => bearer'[d] = bearer[d]
  BY <1>1
<1>4. LiveOK(bearer'[b])
  BY <1>1, <1>2 DEF LiveOK
<1> QED BY <1>3, <1>4, GoodStep

LEMMA GoodKeeps ==
  ASSUME GoodInv, KeysInv', NEW b \in Bearers,
         \/ \E k \in Kids, good \in BOOLEAN : Arrive(b, k, good)
         \/ \E token \in BOOLEAN : Unparsed(b, token)
         \/ LookUp(b) \/ Fetch(b) \/ FetchFails(b)
  PROVE  GoodInv'
<1>1. bearer \in [Bearers -> Request] /\ bearer[b] \in Request /\ LiveOK(bearer[b])
  BY DEF GoodInv, KeysInv, KeysTypes
<1>2. ASSUME NEW k \in Kids, NEW good \in BOOLEAN, Arrive(b, k, good) PROVE GoodInv'
  <2> DEFINE new == [at |-> "key", kid |-> k, good |-> good, client |-> Len(clients'),
                     began |-> clock, live |-> k \in published]
  <2>1. bearer' = [bearer EXCEPT ![b] = new] /\ UNCHANGED <<published, withdrawn>>
    BY <1>2 DEF Arrive
  <2>2. new.at = "key" /\ new.kid = k /\ (new.live <=> k \in published)
    OBVIOUS
  <2> HIDE DEF new
  <2>3. bearer'[b] = new /\ \A d \in Bearers : d # b => bearer'[d] = bearer[d]
    BY <1>1, <2>1
  <2>4. LiveOK(bearer'[b])
    BY <2>2, <2>3 DEF LiveOK
  <2> QED BY <2>1, <2>3, <2>4, GoodStep
<1>3. ASSUME NEW token \in BOOLEAN, Unparsed(b, token) PROVE GoodInv'
  <2>1. /\ bearer' = [bearer EXCEPT ![b].at = "refused"] /\ bearer[b].at = "new"
        /\ UNCHANGED <<published, withdrawn>>
    BY <1>3, Zenon DEF Unparsed
  <2>2. bearer'[b].at = "refused" /\ bearer'[b].live = bearer[b].live
    BY <1>1, <2>1 DEF Request
  <2>3. \A d \in Bearers : d # b => bearer'[d] = bearer[d]
    BY <1>1, <2>1
  <2>4. LiveOK(bearer'[b])
    BY <1>1, <2>1, <2>2 DEF LiveOK
  <2> QED BY <2>1, <2>3, <2>4, GoodStep
<1>4. CASE LookUp(b)
  <2>1. UNCHANGED <<published, withdrawn>> /\ bearer[b].at = "key"
    BY <1>4, Zenon DEF LookUp
  <2>2. CASE Found(b)
    BY <2>1, <2>2, GoodFound
  <2>3. CASE bearer' = [bearer EXCEPT ![b].at = IF Keeps(Mine(b)) THEN "again" ELSE "fetch"]
    <3>1. PICK at \in {"fetch", "again"} : bearer' = [bearer EXCEPT ![b].at = at]
      BY <2>3, Zenon
    <3> QED BY <2>1, <3>1, GoodLooking
  <2> QED BY <1>4, <2>2, <2>3, Zenon DEF LookUp
<1>5. CASE Fetch(b)
  <2>1. UNCHANGED <<published, withdrawn>> /\ bearer[b].at \in {"fetch", "again"}
    BY <1>5, Zenon DEF Fetch
  <2>2. CASE bearer[b].kid \in published
    <3>1. Found(b)
      BY <1>5, <2>2, Zenon DEF Fetch
    <3> QED BY <2>1, <3>1, GoodFound
  <2>3. CASE bearer[b].kid \notin published /\ bearer[b].at = "fetch"
    <3>1. bearer' = [bearer EXCEPT ![b].at = "again"]
      BY <1>5, <2>3, Zenon DEF Fetch
    <3> QED BY <2>1, <3>1, GoodLooking
  <2>4. CASE bearer[b].kid \notin published /\ bearer[b].at # "fetch"
    <3>1. Answered(b, "refused")
      BY <1>5, <2>4, Zenon DEF Fetch
    <3> QED BY <2>1, <2>4, <3>1, GoodAnswer
  <2> QED BY <2>2, <2>3, <2>4
<1>6. CASE FetchFails(b)
  <2>1. Answered(b, "unavailable") /\ UNCHANGED <<published, withdrawn>>
    BY <1>6 DEF FetchFails, Unreachable
  <2> QED BY <2>1, GoodAnswer
<1> QED BY <1>2, <1>3, <1>4, <1>5, <1>6

\* A key that is withdrawn is for good.
LEMMA GoodProvider ==
  ASSUME GoodInv, KeysInv', Tick \/ \E k \in Kids : Publish(k) \/ Withdraw(k) PROVE GoodInv'
<1>1. /\ clock \in Nat /\ withdrawn \in [Kids -> Int] /\ Published
      /\ bearer \in [Bearers -> Request]
  BY DEF GoodInv, KeysInv, KeysTypes
<1>2. \A k \in Kids : withdrawn'[k] = Never /\ k \in published => k \in published'
  <2>1. CASE Tick \/ \E k \in Kids : Publish(k)
    BY <2>1 DEF Tick, Publish
  <2>2. ASSUME NEW j \in Kids, Withdraw(j)
        PROVE  \A k \in Kids : withdrawn'[k] = Never /\ k \in published => k \in published'
    BY <1>1, <2>2 DEF Withdraw, Never
  <2> QED BY <2>1, <2>2
<1>3. \A k \in Kids : withdrawn'[k] = Never => withdrawn[k] = Never
  BY <1>1 DEF Tick, Publish, Withdraw, Never
<1>4. bearer' = bearer
  BY DEF Tick, Publish, Withdraw
<1>5. ASSUME NEW b \in Bearers PROVE LiveOK(bearer[b])'
  <2>1. bearer[b].kid \in Kids /\ LiveOK(bearer[b])
    BY <1>1 DEF Request, GoodInv
  <2> QED BY <1>2, <1>3, <1>4, <2>1 DEF LiveOK
<1> QED BY <1>5 DEF GoodInv

LEMMA GoodNext == GoodInv /\ [KeysNext]_keysVars => GoodInv'
<1> SUFFICES ASSUME GoodInv, [KeysNext]_keysVars PROVE GoodInv'
  OBVIOUS
<1>1. KeysInv'
  BY KeysStep DEF GoodInv
<1>2. CASE UNCHANGED keysVars
  BY <1>1, <1>2 DEF keysVars, GoodInv, LiveOK
<1>3. CASE KeysNext
  BY <1>1, <1>3, GoodKeeps, GoodProvider DEF KeysNext
<1> QED BY <1>2, <1>3

LEMMA GoodStart == KeysInit => GoodInv
<1> SUFFICES ASSUME KeysInit PROVE GoodInv
  OBVIOUS
<1>1. bearer = [b \in Bearers |-> Arriving]
  BY DEF KeysInit
<1>2. Arriving.at = "new" /\ ~Arriving.live
  BY DEF Arriving
<1> QED BY <1>1, <1>2, KeysStart DEF GoodInv, LiveOK

\* For any number of requests, keys, clients and rotations: a good token whose
\* key has been published since its request began is not answered 401, whether
\* the provider is in reach or not.
THEOREM GoodTokensPass == KeysSpec => []GoodTokenNotRefused
<1>1. GoodInv => GoodTokenNotRefused
  BY DEF GoodInv, LiveOK, GoodTokenNotRefused
<1> QED BY <1>1, GoodStart, GoodNext, PTL DEF KeysSpec
===============================================================================
