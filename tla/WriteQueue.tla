------------------------------ MODULE WriteQueue ------------------------------
(***************************************************************************)
(* What the approval queue promises an auditor, without locks, threads,    *)
(* transactions or a network.                                              *)
(*                                                                         *)
(* A row is proposed, may be attempted against the target system, is then  *)
(* given one outcome, and keeps it.  "Terminal states are terminal"        *)
(* (db/models/approval_request.py) is the shape of this machine: nothing   *)
(* leaves an outcome, and only an executed row can still be marked undone. *)
(* Approvals implements this module (Approvals!Queue).                     *)
(***************************************************************************)
CONSTANT Requests

VARIABLES
  status,      \* the recorded status of each request, "absent" before it exists
  attempted,   \* whether the write was ever put on the wire
  undone       \* whether the executed write has been marked compensated

vars == <<status, attempted, undone>>

Outcomes == {"approved", "rejected", "executed", "failed", "expired"}

Init ==
  /\ status = [r \in Requests |-> "absent"]
  /\ attempted = [r \in Requests |-> FALSE]
  /\ undone = [r \in Requests |-> FALSE]

\* A tool files a proposal.
Propose(r) ==
  /\ status[r] = "absent"
  /\ status' = [status EXCEPT ![r] = "pending"]
  /\ UNCHANGED <<attempted, undone>>

\* The write leaves for the target: only while no outcome is recorded.
Attempt(r) ==
  /\ status[r] = "pending"
  /\ attempted' = [attempted EXCEPT ![r] = TRUE]
  /\ UNCHANGED <<status, undone>>

\* One outcome is recorded; "executed" only for a write that was attempted.
Settle(r, outcome) ==
  /\ status[r] = "pending"
  /\ outcome = "executed" => attempted[r]
  /\ status' = [status EXCEPT ![r] = outcome]
  /\ UNCHANGED <<attempted, undone>>

\* An executed write is marked undone, once.
Undo(r) ==
  /\ status[r] = "executed" /\ ~undone[r]
  /\ undone' = [undone EXCEPT ![r] = TRUE]
  /\ UNCHANGED <<status, attempted>>

Next ==
  \E r \in Requests :
    \/ Propose(r)
    \/ Attempt(r)
    \/ \E outcome \in Outcomes : Settle(r, outcome)
    \/ Undo(r)

Spec == Init /\ [][Next]_vars

===============================================================================
