------------------------------- MODULE Approvals -------------------------------
(***************************************************************************)
(* The approval queue and the executor of approved writes:                 *)
(* api/v1/approvals.py, tools/approval.py, tools/write_base.py.            *)
(*                                                                         *)
(* A call is one HTTP request to the approvals API.  It runs on its own    *)
(* thread with its own database transaction (api/deps.py, get_tenant_db):  *)
(* SELECT ... FOR UPDATE takes the row's lock, what the call writes is     *)
(* seen by the others at commit, and a crash, a lost connection or an      *)
(* exception other than ApprovalError rolls everything back.  What an open *)
(* transaction has written but not committed is a function of its phase,   *)
(* so no second copy of the row is kept.                                   *)
(*                                                                         *)
(* The target system is external.  A message to it may be acted on at any  *)
(* time after it left, also after the caller timed out or died.            *)
(***************************************************************************)
EXTENDS Naturals

CONSTANTS
  Requests,      \* rows of approval_request
  Calls,         \* HTTP requests to the approvals API, each served once
  Users,         \* principals of the tenant
  Admins,        \* those with the admin role
  Nobody,        \* decided_by IS NULL, or no requester yet
  NoRequest,     \* the row of a call that has not been made
  NoCall,        \* the holder of a free row lock
  Deduplicates   \* whether the target honours the Idempotency-Key header

ASSUME ApprovalsAssumption ==
  /\ Admins \subseteq Users
  /\ Nobody \notin Users
  /\ NoRequest \notin Requests
  /\ NoCall \notin Calls
  /\ Deduplicates \in BOOLEAN

VARIABLES
  \* the committed rows
  status, proposer, decidedBy, addressed, compensated,
  stale,         \* expires_at < now
  connector,     \* the target's connector row, as _load_connector and egress judge it
  lock,          \* the call whose transaction holds the row lock
  \* the calls
  op, on, by, phase,
  \* the target system
  wire,          \* what became of the message a call sent
  seen,          \* the idempotency keys the target has acted on
  effects,       \* how often it performed the write
  resource       \* the resource the write created there

rows == <<status, proposer, decidedBy, addressed, compensated>>
calls == <<op, on, by, phase>>
target == <<seen, effects, resource>>
vars == <<rows, stale, connector, lock, calls, wire, target>>

Outcomes == {"approved", "rejected", "executed", "failed", "expired"}
Operations == {"approve", "reject", "undo"}

\* Phases in which a call's transaction holds the row lock.  "approved",
\* "executed", "rejected" and "undone" name the row as that transaction has
\* updated it without committing; "sending" and "deleting" wait for the target.
InTransaction == {"approved", "sending", "executed", "rejected", "deleting", "undone"}
Ended == {"answered", "aborted"}

Init ==
  /\ status = [r \in Requests |-> "absent"]
  /\ proposer = [r \in Requests |-> Nobody]
  /\ decidedBy = [r \in Requests |-> Nobody]
  /\ addressed = [r \in Requests |-> FALSE]
  /\ compensated = [r \in Requests |-> FALSE]
  /\ stale = [r \in Requests |-> FALSE]
  /\ connector = "ready"
  /\ lock = [r \in Requests |-> NoCall]
  /\ op = [c \in Calls |-> "none"]
  /\ on = [c \in Calls |-> NoRequest]
  /\ by = [c \in Calls |-> Nobody]
  /\ phase = [c \in Calls |-> "unused"]
  /\ wire = [c \in Calls |-> "unsent"]
  /\ seen = {}
  /\ effects = [r \in Requests |-> 0]
  /\ resource = [r \in Requests |-> "none"]

-------------------------------------------------------------------------------
(* The world around the calls. *)

\* WriteTool.run: the row of a proposal, inserted pending.
Propose(r, u) ==
  /\ status[r] = "absent"
  /\ status' = [status EXCEPT ![r] = "pending"]
  /\ proposer' = [proposer EXCEPT ![r] = u]
  /\ UNCHANGED <<decidedBy, addressed, compensated, stale, connector, lock,
                 calls, wire, target>>

\* PROPOSAL_TTL passes.
Expire(r) ==
  /\ status[r] # "absent" /\ ~stale[r]
  /\ stale' = [stale EXCEPT ![r] = TRUE]
  /\ UNCHANGED <<rows, connector, lock, calls, wire, target>>

\* An admin edits the integration: "unusable" is a connector _load_connector
\* refuses (deleted, disabled, credential that does not decrypt), "blocked" an
\* address the egress policy refuses.
EditConnector(s) ==
  /\ s # connector
  /\ connector' = s
  /\ UNCHANGED <<rows, stale, lock, calls, wire, target>>

\* _require_admin.
MutantAnyone(u) == u \in Users
Privileged(u) == u \in Admins

\* A principal calls approve, reject or compensate.
Call(c, u, r, o) ==
  /\ phase[c] = "unused"
  /\ Privileged(u)
  /\ op' = [op EXCEPT ![c] = o]
  /\ on' = [on EXCEPT ![c] = r]
  /\ by' = [by EXCEPT ![c] = u]
  /\ phase' = [phase EXCEPT ![c] = "waiting"]
  /\ UNCHANGED <<rows, stale, connector, lock, wire, target>>

-------------------------------------------------------------------------------
(* Helpers of the calls' steps. *)

\* SELECT ... FOR UPDATE returns at once: no other transaction has the row.
MutantPlainSelect(r) == TRUE
Free(r) == lock[r] = NoCall

\* Call c has reached the SELECT of operation o and gets the row.
Reads(c, o) == phase[c] = "waiting" /\ op[c] = o /\ Free(on[c])

\* The transaction stays open, holding the row, in phase p.
Hold(c, p) ==
  /\ lock' = [lock EXCEPT ![on[c]] = c]
  /\ phase' = [phase EXCEPT ![c] = p]

\* The transaction ends, by commit or rollback, and the caller is answered.
End(c, p) ==
  /\ lock' = [lock EXCEPT ![on[c]] = NoCall]
  /\ phase' = [phase EXCEPT ![c] = p]

\* approve's UPDATE together with _mark's, committed: status and approver.
Decide(c, s) ==
  /\ status' = [status EXCEPT ![on[c]] = s]
  /\ decidedBy' = [decidedBy EXCEPT ![on[c]] = by[c]]

\* row.requested_by == principal.user_id is refused.
SecondPair(c) == proposer[on[c]] # by[c]

\* The write is on the wire: the call asked the target to perform it.
Sent(c, r) == op[c] = "approve" /\ on[c] = r /\ wire[c] # "unsent"

\* What compensate() requires of the row and the connector before it sends.
Undoable(r) ==
  /\ status[r] = "executed" /\ ~compensated[r]
  /\ connector = "ready"
  /\ addressed[r]

-------------------------------------------------------------------------------
(* approve, up to the point where the approval is recorded. *)

\* 404, 409 or 403: the call is refused and its transaction rolled back.
Refuse(c) ==
  /\ \/ Reads(c, "approve") /\ status[on[c]] # "pending"
     \/ Reads(c, "approve") /\ ~stale[on[c]] /\ ~SecondPair(c)
     \/ Reads(c, "reject") /\ status[on[c]] # "pending"
     \/ Reads(c, "undo") /\ ~Undoable(on[c])
  /\ phase' = [phase EXCEPT ![c] = "answered"]
  /\ UNCHANGED <<rows, stale, connector, lock, op, on, by, wire, target>>

\* LOCK_TIMEOUT: the row stayed locked by another transaction for too long.
LockTimeout(c) ==
  /\ phase[c] = "waiting" /\ ~Free(on[c])
  /\ phase' = [phase EXCEPT ![c] = "answered"]
  /\ UNCHANGED <<rows, stale, connector, lock, op, on, by, wire, target>>

\* A stale proposal is marked expired, committed, and refused with 409.
ApproveExpired(c) ==
  /\ Reads(c, "approve")
  /\ status[on[c]] = "pending" /\ stale[on[c]]
  /\ status' = [status EXCEPT ![on[c]] = "expired"]
  /\ phase' = [phase EXCEPT ![c] = "answered"]
  /\ UNCHANGED <<proposer, decidedBy, addressed, compensated, stale, connector,
                 lock, op, on, by, wire, target>>

\* The approval is written into the open transaction.
RecordApproval(c) ==
  /\ Reads(c, "approve")
  /\ status[on[c]] = "pending" /\ ~stale[on[c]] /\ SecondPair(c)
  /\ Hold(c, "approved")
  /\ UNCHANGED <<rows, stale, connector, op, on, by, wire, target>>

-------------------------------------------------------------------------------
(* execute_approved: each ApprovalError is followed by approve's commit. *)

\* The call fails with ApprovalError and the row is committed with status s.
FailWith(c, s) ==
  /\ Decide(c, s)
  /\ End(c, "answered")
  /\ UNCHANGED <<proposer, addressed, compensated, stale, connector, op, on, by,
                 wire, target>>

\* The proposal expired between approve's check and the executor's.
ExecuteExpired(c) == phase[c] = "approved" /\ stale[on[c]] /\ FailWith(c, "expired")

\* _load_connector raises: nothing marks the row, which stays approved.
ExecuteWithoutConnector(c) ==
  /\ phase[c] = "approved" /\ ~stale[on[c]] /\ connector = "unusable"
  /\ FailWith(c, "approved")

\* EgressBlockedError.
ExecuteBlocked(c) ==
  /\ phase[c] = "approved" /\ ~stale[on[c]] /\ connector = "blocked"
  /\ FailWith(c, "failed")

\* _send: the request leaves.
Send(c) ==
  /\ phase[c] = "approved" /\ ~stale[on[c]] /\ connector = "ready"
  /\ phase' = [phase EXCEPT ![c] = "sending"]
  /\ wire' = [wire EXCEPT ![c] = "travelling"]
  /\ UNCHANGED <<rows, stale, connector, lock, op, on, by, target>>

\* An answer below 400: the row is marked executed, not yet committed.
MutantAnyAnswer(c) ==
  /\ phase[c] = "sending"
  /\ wire[c] \notin {"unsent", "travelling"}
  /\ phase' = [phase EXCEPT ![c] = "executed"]
  /\ UNCHANGED <<rows, stale, connector, lock, op, on, by, wire, target>>
ReadSuccess(c) ==
  /\ phase[c] = "sending"
  /\ wire[c] \in {"created", "accepted", "redirected"}
  /\ phase' = [phase EXCEPT ![c] = "executed"]
  /\ UNCHANGED <<rows, stale, connector, lock, op, on, by, wire, target>>

\* An answer of 400 or above.
ReadRefusal(c) == phase[c] = "sending" /\ wire[c] = "refused" /\ FailWith(c, "failed")

\* WRITE_TIMEOUT_SECONDS, or a transport error: whatever became of the message,
\* no answer was read.
MutantNoTimeout(c) ==
  phase[c] = "sending" /\ wire[c] = "refused" /\ FailWith(c, "failed")
SendFails(c) == phase[c] = "sending" /\ FailWith(c, "failed")

-------------------------------------------------------------------------------
(* reject and compensate. *)

\* reject() writes the rejection into the open transaction; expiry is not checked.
MutantRejectSettled(c) ==
  /\ Reads(c, "reject") /\ status[on[c]] # "absent"
  /\ Hold(c, "rejected")
  /\ UNCHANGED <<rows, stale, connector, op, on, by, wire, target>>
RecordRejection(c) ==
  /\ Reads(c, "reject") /\ status[on[c]] = "pending"
  /\ Hold(c, "rejected")
  /\ UNCHANGED <<rows, stale, connector, op, on, by, wire, target>>

\* compensate() sends the DELETE.
SendDelete(c) ==
  /\ Reads(c, "undo") /\ Undoable(on[c])
  /\ Hold(c, "deleting")
  /\ wire' = [wire EXCEPT ![c] = "travelling"]
  /\ UNCHANGED <<rows, stale, connector, op, on, by, target>>

\* An answer below 400: compensated_at is written into the open transaction.
MutantDeletedAnyway(c) ==
  /\ phase[c] = "deleting" /\ wire[c] # "travelling"
  /\ phase' = [phase EXCEPT ![c] = "undone"]
  /\ UNCHANGED <<rows, stale, connector, lock, op, on, by, wire, target>>
DeleteSucceeds(c) ==
  /\ phase[c] = "deleting" /\ wire[c] \in {"accepted", "redirected"}
  /\ phase' = [phase EXCEPT ![c] = "undone"]
  /\ UNCHANGED <<rows, stale, connector, lock, op, on, by, wire, target>>

\* An answer of 400 or above, a timeout or a transport error: 409, rolled back.
DeleteFails(c) ==
  /\ phase[c] = "deleting"
  /\ End(c, "answered")
  /\ UNCHANGED <<rows, stale, connector, op, on, by, wire, target>>

-------------------------------------------------------------------------------
(* The end of a transaction. *)

\* get_tenant_db commits what the handler wrote.
Commit(c) ==
  /\ \/ /\ phase[c] = "executed"
        /\ Decide(c, "executed")
        /\ addressed' = [addressed EXCEPT ![on[c]] = wire[c] = "created"]
        /\ UNCHANGED compensated
     \/ /\ phase[c] = "rejected"
        /\ Decide(c, "rejected")
        /\ UNCHANGED <<addressed, compensated>>
     \/ /\ phase[c] = "undone"
        /\ compensated' = [compensated EXCEPT ![on[c]] = TRUE]
        /\ UNCHANGED <<status, decidedBy, addressed>>
  /\ End(c, "answered")
  /\ UNCHANGED <<proposer, stale, connector, op, on, by, wire, target>>

\* The process dies, the database connection is lost, the commit fails, or the
\* handler raises something that is not an ApprovalError (a name that does not
\* resolve, say): everything the transaction wrote is rolled back.
Abort(c) ==
  /\ phase[c] \in InTransaction
  /\ End(c, "aborted")
  /\ UNCHANGED <<rows, stale, connector, op, on, by, wire, target>>

-------------------------------------------------------------------------------
(* The target system, external. *)

\* The Idempotency-Key of a write: made with the proposal, so one per request.
MutantKeyPerCall(c) == c
KeyOf(c) == on[c]

\* The target performs the write, or recognises the key and repeats its answer.
\* "created" names the new resource in the answer, "accepted" does not.
TargetWrites(c, answer) ==
  /\ wire[c] = "travelling" /\ op[c] = "approve"
  /\ IF Deduplicates /\ KeyOf(c) \in seen
     THEN UNCHANGED target
     ELSE /\ seen' = seen \cup {KeyOf(c)}
          /\ effects' = [effects EXCEPT ![on[c]] = @ + 1]
          /\ resource' = [resource EXCEPT ![on[c]] = "live"]
  /\ wire' = [wire EXCEPT ![c] = answer]
  /\ UNCHANGED <<rows, stale, connector, lock, calls>>

\* The target deletes the resource.
TargetDeletes(c) ==
  /\ wire[c] = "travelling" /\ op[c] = "undo"
  /\ resource[on[c]] = "live"
  /\ resource' = [resource EXCEPT ![on[c]] = "gone"]
  /\ wire' = [wire EXCEPT ![c] = "accepted"]
  /\ UNCHANGED <<rows, stale, connector, lock, calls, seen, effects>>

\* The target does nothing: it answers 400 or above, or with a redirect, which
\* httpx does not follow.
TargetDeclines(c, answer) ==
  /\ wire[c] = "travelling"
  /\ wire' = [wire EXCEPT ![c] = answer]
  /\ UNCHANGED <<rows, stale, connector, lock, calls, target>>

-------------------------------------------------------------------------------
(* The specification. *)

\* A step of the thread that serves call c.
Serve(c) ==
  \/ Refuse(c) \/ LockTimeout(c) \/ ApproveExpired(c) \/ RecordApproval(c)
  \/ ExecuteExpired(c) \/ ExecuteWithoutConnector(c) \/ ExecuteBlocked(c)
  \/ Send(c) \/ ReadSuccess(c) \/ ReadRefusal(c) \/ SendFails(c)
  \/ RecordRejection(c)
  \/ SendDelete(c) \/ DeleteSucceeds(c) \/ DeleteFails(c)
  \/ Commit(c)

Target(c) ==
  \/ \E answer \in {"created", "accepted"} : TargetWrites(c, answer)
  \/ TargetDeletes(c)
  \/ \E answer \in {"refused", "redirected"} : TargetDeclines(c, answer)

World ==
  \/ \E r \in Requests, u \in Users : Propose(r, u)
  \/ \E r \in Requests : Expire(r)
  \/ \E s \in {"ready", "unusable", "blocked"} : EditConnector(s)
  \/ \E c \in Calls, u \in Users, r \in Requests, o \in Operations : Call(c, u, r, o)

Next == World \/ \E c \in Calls : Serve(c) \/ Abort(c) \/ Target(c)

Spec == Init /\ [][Next]_vars

\* A thread that can go on does: its waits are bounded by LOCK_TIMEOUT and by
\* WRITE_TIMEOUT_SECONDS.  Nothing is assumed of admins, of the clock, of the
\* target, or of a process staying alive.
Fairness == \A c \in Calls : WF_vars(Serve(c))
FairSpec == Spec /\ Fairness

-------------------------------------------------------------------------------
(* Properties. *)

\* Every variable keeps its type, over every step of the calls and the world.
TypeOK ==
  /\ status \in [Requests -> Outcomes \cup {"absent", "pending"}]
  /\ proposer \in [Requests -> Users \cup {Nobody}]
  /\ decidedBy \in [Requests -> Users \cup {Nobody}]
  /\ addressed \in [Requests -> BOOLEAN]
  /\ compensated \in [Requests -> BOOLEAN]
  /\ stale \in [Requests -> BOOLEAN]
  /\ connector \in {"ready", "unusable", "blocked"}
  /\ lock \in [Requests -> Calls \cup {NoCall}]
  /\ op \in [Calls -> Operations \cup {"none"}]
  /\ on \in [Calls -> Requests \cup {NoRequest}]
  /\ by \in [Calls -> Users \cup {Nobody}]
  /\ phase \in [Calls -> {"unused", "waiting"} \cup InTransaction \cup Ended]
  /\ wire \in [Calls -> {"unsent", "travelling", "created", "accepted", "refused",
                         "redirected"}]
  /\ effects \in [Requests -> Nat]
  /\ resource \in [Requests -> {"none", "live", "gone"}]

\* However many admins click Approve, whenever and with whatever rejections and
\* undos between them, a proposal is sent to the target at most once, unless the
\* transaction that sent it before was rolled back (approvals.py, "FOR UPDATE,
\* and it is load-bearing").
OneSendUnlessAborted ==
  \A r \in Requests : \A c, d \in Calls :
    Sent(c, r) /\ Sent(d, r) /\ c # d => phase[c] = "aborted" \/ phase[d] = "aborted"

\* Nothing leaves for the target on the word of its proposer, or of somebody
\* without the admin role.
FourEyes ==
  \A r \in Requests : \A c \in Calls :
    Sent(c, r) => by[c] \in Admins /\ proposer[r] \in Users /\ by[c] # proposer[r]

\* The recorded outcome agrees with what happened on the wire: an executed row
\* names the admin whose call the target answered below 400; a rejected row was
\* sent by no call, except by one that was rolled back.
OutcomeIsTrue ==
  \A r \in Requests :
    /\ status[r] = "executed" =>
         \E c \in Calls : /\ Sent(c, r) /\ phase[c] = "answered"
                          /\ wire[c] \in {"created", "accepted", "redirected"}
                          /\ by[c] = decidedBy[r]
    /\ status[r] = "rejected" =>
         \A c \in Calls : Sent(c, r) => phase[c] = "aborted"

\* A target that honours the key performs each proposal at most once, even when
\* rolled-back approvals are repeated and late messages arrive.
OneEffect == Deduplicates => \A r \in Requests : effects[r] <= 1

\* What is recorded as undone is gone at the target and stays gone, late copies
\* of the write included; unless the DELETE was answered with a redirect, which
\* the code takes for success.
UndoneIsGone ==
  Deduplicates =>
    \A r \in Requests : compensated[r] =>
      \/ resource[r] = "gone"
      \/ \E c \in Calls : op[c] = "undo" /\ on[c] = r /\ wire[c] = "redirected"

\* The queue as an auditor sees it: terminal states are terminal, writes leave
\* only while no outcome is recorded, an undo is recorded once.
Queue == INSTANCE WriteQueue WITH
  attempted <- [r \in Requests |-> \E c \in Calls : Sent(c, r)],
  undone <- compensated
QueueSpec == Queue!Spec

\* Every call to the API is answered or dies; none waits for a lock or for the
\* target for ever.
CallsEnd ==
  \A c \in Calls : phase[c] = "waiting" ~> phase[c] \in Ended

\* Violated.  approve()'s except branch: "The row is already marked failed by
\* the executor", so that no row is left approved.
FailureIsMarked == \A r \in Requests : status[r] # "approved"

\* Violated.  approve(): "If the write succeeds and the process then dies, the
\* record already says who authorised it".
AuthoriserSurvives ==
  \A r \in Requests : \A c \in Calls :
    Sent(c, r) /\ phase[c] = "aborted" /\ wire[c] \in {"created", "accepted"}
      => decidedBy[r] # Nobody
===============================================================================
