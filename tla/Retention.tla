------------------------------ MODULE Retention ------------------------------
(***************************************************************************)
(* Chat requests that keep conversations (api/v1/chat.py), agent runs that *)
(* keep checkpoints and, when they end, their agent_run row, and the       *)
(* retention command (core/retention.py) that deletes in batches what is   *)
(* past its time, and checkpoints whose run is gone.                       *)
(*                                                                         *)
(* The two messages of a turn have one transaction and one created_at and  *)
(* are one row here.  All four tables are kept for the same 90 days, as    *)
(* they are in POLICIES.                                                   *)
(***************************************************************************)
EXTENDS Naturals, FiniteSets

CONSTANTS
  Chats,    \* chat requests, each handled once; also the ids of what they insert
  Runs,     \* agent runs; also their thread ids
  Keep,     \* days a row lives
  Batch,    \* BATCH_LIMIT
  LastDay   \* a bound: the calendar ends there

ASSUME RetentionAssumption == {Keep, Batch, LastDay} \subseteq Nat /\ Chats \cap Runs = {}

Policed == {"conversation_message", "conversation", "agent_run"}
Tables == Policed \cup {"checkpoints"}

VARIABLES
  day,
  kept,   \* the rows of all four tables
  chat,   \* the chat requests
  run,    \* the agent runs
  \* history
  early   \* runs that kept no checkpoints, or lost them while in flight

retentionVars == <<day, kept, chat, run, early>>

Row(table, key, of) == [table |-> table, key |-> key, of |-> of, born |-> day]
In(table) == {x \in kept : x.table = table}
Keyed(table, key) == {x \in In(table) : x.key = key}

Fresh == [at |-> "new", on |-> {}]

RetentionInit ==
  /\ day = 0 /\ kept = {}
  /\ chat = [c \in Chats |-> Fresh]
  /\ run = [u \in Runs |-> "none"]
  /\ early = {}

NextDay ==
  /\ day < LastDay
  /\ day' = day + 1
  /\ UNCHANGED <<kept, chat, run, early>>

-------------------------------------------------------------------------------
\* chat() up to its database work: without sources nothing is asked of the
\* model; the model answers, or fails and the request with it.
ChatAnswered(c) ==
  /\ chat[c].at = "new"
  /\ chat' = [chat EXCEPT ![c].at = "answered"]
  /\ UNCHANGED <<day, kept, run, early>>

ChatFails(c) ==
  /\ chat[c].at = "new"
  /\ chat' = [chat EXCEPT ![c].at = "failed"]
  /\ UNCHANGED <<day, kept, run, early>>

\* _stream_response: nothing is kept, whether the client stays to the last piece,
\* when the spend is recorded, or leaves before.
StreamEnds(c, whole) ==
  /\ chat[c].at = "new"
  /\ chat' = [chat EXCEPT ![c].at = IF whole THEN "done" ELSE "left"]
  /\ UNCHANGED <<day, kept, run, early>>

\* _ensure_conversation: the one the client names, if it is still there.
FindConversation(c, k) ==
  /\ chat[c].at = "answered"
  /\ Keyed("conversation", k) # {}
  /\ chat' = [chat EXCEPT ![c].at = "found", ![c].on = {k}]
  /\ UNCHANGED <<day, kept, run, early>>

Done(c) == chat' = [chat EXCEPT ![c].at = "done"]

\* A new one, and the turn.
NewConversation(c) ==
  /\ chat[c].at = "answered"
  /\ kept' = kept \cup {Row("conversation", c, c), Row("conversation_message", c, c)}
  /\ Done(c)
  /\ UNCHANGED <<day, run, early>>

\* The turn of a conversation found: the foreign key holds only if retention has
\* not deleted it since; or else the request fails, its spend unrecorded.
KeepTurn(c) ==
  /\ chat[c].at = "found"
  /\ IF \E k \in chat[c].on : Keyed("conversation", k) # {}
     THEN /\ kept' = kept \cup {Row("conversation_message", c, k) : k \in chat[c].on}
          /\ Done(c)
     ELSE /\ chat' = [chat EXCEPT ![c].at = "failed"]
          /\ UNCHANGED kept
  /\ UNCHANGED <<day, run, early>>

-------------------------------------------------------------------------------
\* run_agent: the checkpointer commits by itself, step by step;
Checkpoint(u) ==
  /\ run[u] \in {"none", "running"}
  /\ Keyed("checkpoints", u) = {}
  /\ kept' = kept \cup {Row("checkpoints", u, u)}
  /\ run' = [run EXCEPT ![u] = "running"]
  /\ UNCHANGED <<day, chat, early>>

\* a run for which there is no checkpointer keeps none, nor does a question that
\* is answered without the loop;
Unkept(u) ==
  /\ run[u] = "none"
  /\ run' = [run EXCEPT ![u] = "unkept"]
  /\ early' = early \cup {u}
  /\ UNCHANGED <<day, kept, chat>>

\* the run's row is inserted by _record_run when it has ended,
RunEnds(u) ==
  /\ run[u] \in {"running", "unkept"}
  /\ kept' = kept \cup {Row("agent_run", u, u)}
  /\ run' = [run EXCEPT ![u] = "ended"]
  /\ UNCHANGED <<day, chat, early>>

\* or never, if the request fails.
RunFails(u) ==
  /\ run[u] \in {"running", "unkept"}
  /\ run' = [run EXCEPT ![u] = "failed"]
  /\ UNCHANGED <<day, kept, chat, early>>

-------------------------------------------------------------------------------
Past(x) == day - x.born > Keep

\* DELETE ... LIMIT: what one statement may take of S.
Batches(S) == {B \in SUBSET S : Cardinality(B) = IF Cardinality(S) < Batch THEN Cardinality(S) ELSE Batch}

\* ON DELETE CASCADE: the turns of conversations that go.
Cascaded(gone) ==
  {x \in In("conversation_message") : \E y \in gone : y.table = "conversation" /\ y.key = x.of}

\* A bug: checkpoints would go by their own age.
MutantOrphans(left) == {x \in left : x.table = "checkpoints" /\ Past(x)}
\* _purge_orphaned_checkpoints: no run has the thread.
Orphans(left) ==
  {x \in left : x.table = "checkpoints" /\ ~ \E y \in left : y.table = "agent_run" /\ y.key = x.key}

\* A bug: the checkpoints would be looked at before the runs are deleted.
MutantRemaining(gone) == kept
\* What there is for the purge of checkpoints to look at.
Remaining(gone) == kept \ gone

\* apply_retention: the policies in turn, then the checkpoints; one transaction, if
\* not one snapshot: a run whose row is committed between two of its statements was
\* in flight at the first.
Retention ==
  \E m \in Batches({x \in In("conversation_message") : Past(x)}),
     c \in Batches({x \in In("conversation") : Past(x)}),
     a \in Batches({x \in In("agent_run") : Past(x)}) :
    LET gone == m \cup c \cup a \cup Cascaded(c)
    IN \E k \in Batches(Orphans(Remaining(gone))) :
         /\ gone \cup k # {}
         /\ kept' = (kept \ gone) \ k
         /\ early' = early \cup {u \in Runs : run[u] = "running" /\ \E x \in k : x.key = u}
         /\ UNCHANGED <<day, chat, run>>

RetentionNext ==
  \/ NextDay \/ Retention
  \/ \E c \in Chats :
       \/ ChatAnswered(c)
       \/ \E whole \in BOOLEAN : StreamEnds(c, whole)
       \/ \E k \in Chats : FindConversation(c, k)
       \/ ChatFails(c) \/ NewConversation(c) \/ KeepTurn(c)
  \/ \E u \in Runs : Checkpoint(u) \/ Unkept(u) \/ RunEnds(u) \/ RunFails(u)

RetentionSpec == RetentionInit /\ [][RetentionNext]_retentionVars

-------------------------------------------------------------------------------
RetentionTypeOK ==
  /\ day \in 0..LastDay
  /\ kept \subseteq [table : Tables, key : Chats \cup Runs, of : Chats \cup Runs, born : 0..LastDay]
  /\ run \in [Runs -> {"none", "running", "unkept", "ended", "failed"}] /\ early \subseteq Runs
  /\ \A c \in Chats :
       /\ chat[c].at \in {"new", "answered", "found", "done", "left", "failed"}
       /\ chat[c].on \subseteq Chats

\* "The next run picks up where this one stopped": a run of retention that took
\* less than a batch of a table leaves nothing there that is past its time, and
\* no checkpoint of a run it deleted.
SweptOrFull ==
  [][Retention =>
       /\ \A t \in Policed :
            \/ Cardinality(In(t) \ In(t)') >= Batch
            \/ \A x \in In(t)' : ~ Past(x)
       /\ \/ Cardinality(In("checkpoints") \ In("checkpoints")') >= Batch
          \/ Orphans(kept') = {}]_retentionVars

\* "A checkpoint outlives its run by exactly the agent_run retention period":
\* whatever retention deleted meanwhile, the thread of a run that kept one can be
\* read for as long as the run's row is there - unless retention ran while that
\* run was in flight, when it has no row and its checkpoints pass for orphans.
CheckpointsStay ==
  \A x \in In("agent_run") : x.key \notin early => Keyed("checkpoints", x.key) # {}
===============================================================================
