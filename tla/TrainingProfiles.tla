--------------------------- MODULE TrainingProfiles ---------------------------
(***************************************************************************)
(* The training records of one connector (api/v1/training.py): what a      *)
(* repository assistant submits has no effect on the agent until an admin  *)
(* activates it, and activating one retires the one before.                *)
(*                                                                         *)
(* Each request is a transaction at READ COMMITTED.  An UPDATE of several  *)
(* rows finds them as they are when it starts, waits for the lock of each  *)
(* and looks at it again; a row that has come to match since is missed.    *)
(***************************************************************************)
EXTENDS FiniteSets, Naturals

CONSTANTS
  Records,  \* ids of training_record, each given once
  Posts     \* submissions and activations that may be under way together

VARIABLES
  status,   \* the committed rows
  post,     \* the requests under way
  \* history, read by no action
  rivals,   \* two activations have overlapped
  outrun    \* records activated while a submission for them was under way

trainingVars == <<status, post, rivals, outrun>>

Statuses == {"prompt_ready", "review_required", "active", "superseded"}
Active == {r \in Records : status[r] = "active"}
NoPost == [at |-> "none"]
Open(q, op) == post[q] # NoPost /\ post[q].op = op

TrainingInit ==
  /\ status = [r \in Records |-> "unused"]
  /\ post = [q \in Posts |-> NoPost]
  /\ rivals = FALSE
  /\ outrun = {}

-------------------------------------------------------------------------------
CreateRecord(r) ==
  /\ status[r] = "unused"
  /\ status' = [status EXCEPT ![r] = "prompt_ready"]
  /\ UNCHANGED <<post, rivals, outrun>>

\* A transaction keeps the locks of the rows it has written.
Holds(q, r) ==
  post[q] # NoPost /\ (r \in post[q].swept \/ (post[q].at = "written" /\ post[q].on = r))
LockedFor(q, r) == \E p \in Posts \ {q} : Holds(p, r)

\* A bug: a response would be taken for any record.
MutantPending == Statuses
Pending == {"prompt_ready", "review_required"}

ReadToSubmit(q, r) ==
  /\ post[q] = NoPost /\ status[r] \in Pending
  /\ post' = [post EXCEPT ![q] = [at |-> "writing", op |-> "submit", on |-> r,
                                  targets |-> {}, swept |-> {}]]
  /\ UNCHANGED <<status, rivals, outrun>>

ReadToActivate(q, r) ==
  /\ post[q] = NoPost /\ status[r] = "review_required"
  /\ post' = [post EXCEPT ![q] = [at |-> "finding", op |-> "activate", on |-> r,
                                  targets |-> {}, swept |-> {}]]
  /\ rivals' = (rivals \/ \E p \in Posts : Open(p, "activate"))
  /\ UNCHANGED <<status, outrun>>

\* A bug: the active record would be left as it is.
MutantFindActive(q) ==
  /\ post[q].at = "finding"
  /\ post' = [post EXCEPT ![q] = [@ EXCEPT !.at = "sweeping", !.targets = {}]]
  /\ UNCHANGED <<status, rivals, outrun>>
\* SET status = 'superseded' WHERE status = 'active': the rows it finds,
FindActive(q) ==
  /\ post[q].at = "finding"
  /\ post' = [post EXCEPT ![q] = [@ EXCEPT !.at = "sweeping", !.targets = Active]]
  /\ UNCHANGED <<status, rivals, outrun>>

\* and each of them once its lock is free, unless it has ceased to be active.
Supersede(q, r) ==
  /\ post[q].at = "sweeping" /\ r \in post[q].targets /\ ~LockedFor(q, r)
  /\ post' = [post EXCEPT ![q].targets = @ \ {r},
                          ![q].swept = @ \cup ({r} \cap Active)]
  /\ UNCHANGED <<status, rivals, outrun>>

\* By id, whatever the row's status is by now; a row that is gone is a 404.
WriteRecord(q) ==
  /\ \/ post[q].at = "writing"
     \/ post[q].at = "sweeping" /\ post[q].targets = {}
  /\ ~LockedFor(q, post[q].on)
  /\ post' = [post EXCEPT ![q] =
                IF status[@.on] \in Statuses THEN [@ EXCEPT !.at = "written"] ELSE NoPost]
  /\ UNCHANGED <<status, rivals, outrun>>

CommitPost(q) ==
  /\ post[q].at = "written"
  /\ status' = [r \in Records |->
       IF r = post[q].on
         THEN IF post[q].op = "submit" THEN "review_required" ELSE "active"
         ELSE IF r \in post[q].swept THEN "superseded" ELSE status[r]]
  /\ outrun' = outrun \cup
       {r \in Records : /\ post[q].op = "activate" /\ r = post[q].on
                        /\ \E p \in Posts : Open(p, "submit") /\ post[p].on = r}
  /\ post' = [post EXCEPT ![q] = NoPost]
  /\ UNCHANGED rivals

\* Two that wait for each other, a lost connection.
RollBackPost(q) ==
  /\ post[q] # NoPost
  /\ post' = [post EXCEPT ![q] = NoPost]
  /\ UNCHANGED <<status, rivals, outrun>>

\* Retention, by the record's age alone.
Forget(r) ==
  /\ status[r] \in Statuses
  /\ \A q \in Posts : ~Holds(q, r)
  /\ status' = [status EXCEPT ![r] = "gone"]
  /\ UNCHANGED <<post, rivals, outrun>>

TrainingNext ==
  \/ \E r \in Records : CreateRecord(r) \/ Forget(r)
  \/ \E q \in Posts :
       \/ \E r \in Records : ReadToSubmit(q, r) \/ ReadToActivate(q, r) \/ Supersede(q, r)
       \/ FindActive(q) \/ WriteRecord(q) \/ CommitPost(q) \/ RollBackPost(q)

TrainingSpec == TrainingInit /\ [][TrainingNext]_trainingVars

-------------------------------------------------------------------------------
(* Properties. *)

TrainingTypeOK ==
  /\ status \in [Records -> Statuses \cup {"unused", "gone"}]
  /\ post \in [Posts -> {NoPost} \cup
       [at: {"writing", "finding", "sweeping", "written"}, op: {"submit", "activate"},
        on: Records, targets: SUBSET Records, swept: SUBSET Records]]
  /\ rivals \in BOOLEAN
  /\ outrun \subseteq Records

\* "One active profile per integration" (training.py:297), whatever submissions,
\* rollbacks and retention come in between, unless two activations overlap: the
\* second waits for the rows that it found and misses the one the first makes
\* active.
OneActive == rivals \/ Cardinality(Active) <= 1

\* A retired record is never reviewed or active again ("Older maps are retained
\* for audit but cannot influence future questions", training.py:297), unless
\* activations overlapped, or one of this record outran a submission for it,
\* whose UPDATE does not look at the status again.
RetiredForGood ==
  [][ \A r \in Records :
        status[r] = "superseded" /\ ~rivals /\ r \notin outrun =>
          status'[r] \in {"superseded", "gone"} ]_trainingVars
===============================================================================
