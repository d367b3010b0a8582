---------------------------- MODULE ApprovalsProofs ----------------------------
(***************************************************************************)
(* Theorems about Approvals, for any number of proposals, calls and users. *)
(*                                                                         *)
(* The argument: a row's lock names the one call whose transaction is open *)
(* on it (LockInv), while such a call has not committed the row is still   *)
(* what the call read (RowInv), and a call that has sent a write either    *)
(* still holds the row, or has settled it, or was rolled back (SentInv).   *)
(* Two sends of one proposal that were both not rolled back would need the *)
(* row both pending and settled, or its lock held twice.                   *)
(***************************************************************************)
EXTENDS Approvals, TLAPS

Deciding == {"approved", "sending", "executed"}

\* A call that was made has an operation, a row and an admin behind it, and its
\* operation fits its phase.
CallInv ==
  \A c \in Calls :
    /\ phase[c] # "unused" => /\ on[c] \in Requests
                              /\ op[c] \in Operations
                              /\ by[c] \in Admins
    /\ phase[c] \in {"unused", "waiting", "approved", "rejected"} => wire[c] = "unsent"
    /\ phase[c] \in Deciding => op[c] = "approve"
    /\ phase[c] = "rejected" => op[c] = "reject"
    /\ phase[c] \in {"deleting", "undone"} => op[c] = "undo"

\* The lock names the call whose transaction is open on the row.
LockInv == \A c \in Calls : phase[c] \in InTransaction => lock[on[c]] = c

\* Under the lock the row stays as it was read.
RowInv ==
  \A c \in Calls :
    /\ phase[c] \in Deciding \cup {"rejected"} => status[on[c]] = "pending"
    /\ phase[c] \in Deciding => SecondPair(c) /\ proposer[on[c]] \in Users
    /\ phase[c] \in {"deleting", "undone"} => status[on[c]] = "executed" /\ ~compensated[on[c]]
    /\ phase[c] = "executed" => wire[c] \in {"created", "accepted", "redirected"}

\* A row that exists has a requester.
ProposerInv == \A r \in Requests : status[r] # "absent" => proposer[r] \in Users

\* A call that sent a write holds the row, has settled it, or was rolled back.
SentInv ==
  \A c \in Calls : op[c] = "approve" /\ wire[c] # "unsent" =>
    /\ phase[c] \in {"sending", "executed", "answered", "aborted"}
    /\ status[on[c]] # "absent"
    /\ SecondPair(c)
    /\ phase[c] = "answered" => status[on[c]] \in {"failed", "executed"}

IInv ==
  /\ TypeOK
  /\ CallInv
  /\ LockInv
  /\ RowInv
  /\ ProposerInv
  /\ SentInv
  /\ OneSendUnlessAborted

-------------------------------------------------------------------------------
(* Types. *)

LEMMA InitType == Init => TypeOK
BY ApprovalsAssumption DEF Init, TypeOK, InTransaction, Ended

\* No step of the world changes a type.
LEMMA WorldType == TypeOK /\ World => TypeOK'
<1> SUFFICES ASSUME TypeOK, World PROVE TypeOK'
  OBVIOUS
<1>1. ASSUME NEW r \in Requests, NEW u \in Users, Propose(r, u) PROVE TypeOK'
  BY <1>1 DEF TypeOK, Propose, calls, target
<1>2. ASSUME NEW r \in Requests, Expire(r) PROVE TypeOK'
  BY <1>2 DEF TypeOK, Expire, rows, calls, target
<1>3. ASSUME NEW s \in {"ready", "unusable", "blocked"}, EditConnector(s) PROVE TypeOK'
  BY <1>3 DEF TypeOK, EditConnector, rows, calls, target
<1>4. ASSUME NEW c \in Calls, NEW u \in Users, NEW r \in Requests, NEW o \in Operations,
             Call(c, u, r, o)
      PROVE TypeOK'
  BY <1>4 DEF TypeOK, Call, rows, target
<1>5. QED
  BY <1>1, <1>2, <1>3, <1>4 DEF World

\* A call that ends with FailWith keeps the types.
LEMMA FailType ==
  ASSUME TypeOK, NEW c \in Calls, NEW s \in Outcomes, FailWith(c, s)
  PROVE  TypeOK'
BY DEF TypeOK, FailWith, Decide, End, target, Ended

\* No step of a call's thread changes a type.
LEMMA ServeType == ASSUME TypeOK, NEW c \in Calls, Serve(c) PROVE TypeOK'
<1>1. CASE Refuse(c) \/ LockTimeout(c)
  BY <1>1 DEF TypeOK, Refuse, LockTimeout, rows, target, Ended
<1>2. CASE ApproveExpired(c)
  BY <1>2 DEF TypeOK, ApproveExpired, target, Ended, Outcomes
<1>3. CASE RecordApproval(c) \/ RecordRejection(c)
  BY <1>3 DEF TypeOK, RecordApproval, RecordRejection, Hold, rows, target, InTransaction
<1>4. CASE ExecuteExpired(c) \/ ExecuteWithoutConnector(c) \/ ExecuteBlocked(c)
           \/ ReadRefusal(c) \/ SendFails(c)
  BY <1>4, FailType DEF ExecuteExpired, ExecuteWithoutConnector, ExecuteBlocked,
                        ReadRefusal, SendFails, Outcomes
<1>5. CASE Send(c)
  BY <1>5 DEF TypeOK, Send, rows, target, InTransaction
<1>6. CASE SendDelete(c)
  BY <1>6 DEF TypeOK, SendDelete, Hold, rows, target, InTransaction
<1>7. CASE ReadSuccess(c) \/ DeleteSucceeds(c)
  BY <1>7 DEF TypeOK, ReadSuccess, DeleteSucceeds, rows, target, InTransaction
<1>8. CASE DeleteFails(c)
  BY <1>8 DEF TypeOK, DeleteFails, End, rows, target, Ended
<1>9. CASE Commit(c)
  <2>1. addressed' \in [Requests -> BOOLEAN]
    <3>1. CASE addressed' = [addressed EXCEPT ![on[c]] = (wire[c] = "created")]
      BY <3>1 DEF TypeOK
    <3>2. CASE addressed' = addressed
      BY <3>2 DEF TypeOK
    <3>3. QED
      BY <1>9, <3>1, <3>2 DEF Commit
  <2>2. compensated' \in [Requests -> BOOLEAN]
    BY <1>9 DEF TypeOK, Commit
  <2>3. status' \in [Requests -> Outcomes \cup {"absent", "pending"}]
        /\ decidedBy' \in [Requests -> Users \cup {Nobody}]
    BY <1>9 DEF TypeOK, Commit, Decide, Outcomes
  <2>4. phase' \in [Calls -> {"unused", "waiting"} \cup InTransaction \cup Ended]
        /\ lock' \in [Requests -> Calls \cup {NoCall}]
    BY <1>9 DEF TypeOK, Commit, End, Ended
  <2>5. UNCHANGED <<proposer, stale, connector, op, on, by, wire, target>>
    BY <1>9 DEF Commit
  <2>6. QED
    BY <2>1, <2>2, <2>3, <2>4, <2>5 DEF TypeOK, target
<1>10. QED
  BY <1>1, <1>2, <1>3, <1>4, <1>5, <1>6, <1>7, <1>8, <1>9 DEF Serve

\* Neither a lost transaction nor the target changes a type.
LEMMA OutsideType == ASSUME TypeOK, NEW c \in Calls, Abort(c) \/ Target(c) PROVE TypeOK'
<1>1. CASE Abort(c)
  BY <1>1 DEF TypeOK, Abort, End, rows, target, Ended
<1>2. ASSUME NEW answer \in {"created", "accepted"}, TargetWrites(c, answer) PROVE TypeOK'
  BY <1>2 DEF TypeOK, TargetWrites, rows, calls, target
<1>3. CASE TargetDeletes(c)
  BY <1>3 DEF TypeOK, TargetDeletes, rows, calls
<1>4. ASSUME NEW answer \in {"refused", "redirected"}, TargetDeclines(c, answer) PROVE TypeOK'
  BY <1>4 DEF TypeOK, TargetDeclines, rows, calls, target
<1>5. QED
  BY <1>1, <1>2, <1>3, <1>4 DEF Target

LEMMA StepType == TypeOK /\ [Next]_vars => TypeOK'
<1>1. TypeOK /\ UNCHANGED vars => TypeOK'
  BY DEF TypeOK, vars, rows, calls, target
<1>2. QED
  BY <1>1, WorldType, ServeType, OutsideType DEF Next

\* Every reachable state is well typed.
THEOREM TypeCorrect == Spec => []TypeOK
BY InitType, StepType, PTL DEF Spec

-------------------------------------------------------------------------------
(* The inductive invariant. *)

LEMMA InitInv == Init => IInv
<1> SUFFICES ASSUME Init PROVE IInv
  OBVIOUS
<1>1. CallInv /\ LockInv /\ RowInv /\ ProposerInv /\ SentInv
  BY DEF Init, CallInv, LockInv, RowInv, ProposerInv, SentInv, Deciding, InTransaction
<1>2. OneSendUnlessAborted
  BY DEF Init, OneSendUnlessAborted, Sent
<1>3. QED
  BY <1>1, <1>2, InitType DEF IInv

\* Two different transactions are never open on one row.
LEMMA Exclusive ==
  ASSUME IInv, NEW c \in Calls, NEW d \in Calls, c # d,
         phase[c] \in InTransaction, phase[d] \in InTransaction
  PROVE  on[c] # on[d]
BY DEF IInv, LockInv

\* The steps of the world.
LEMMA WorldInv == ASSUME IInv, World PROVE IInv'
<1> USE DEF IInv
<1>0. TypeOK'
  BY WorldType
<1>1. ASSUME NEW r \in Requests, NEW u \in Users, Propose(r, u) PROVE IInv'
  <2> USE <1>1 DEF Propose, calls, target
  <2>1. CallInv' /\ LockInv'
    BY DEF CallInv, LockInv
  <2>2. RowInv'
    BY DEF RowInv, SecondPair, TypeOK, Deciding, CallInv, InTransaction
  <2>3. ProposerInv'
    BY DEF ProposerInv, TypeOK
  <2>4. SentInv'
    BY DEF SentInv, SecondPair, TypeOK
  <2>5. OneSendUnlessAborted'
    BY DEF OneSendUnlessAborted, Sent
  <2>6. QED
    BY <1>0, <2>1, <2>2, <2>3, <2>4, <2>5
<1>2. ASSUME NEW r \in Requests, Expire(r) PROVE IInv'
  BY <1>0, <1>2 DEF Expire, rows, calls, target, CallInv, LockInv, RowInv, ProposerInv,
     SentInv, SecondPair, OneSendUnlessAborted, Sent
<1>3. ASSUME NEW s \in {"ready", "unusable", "blocked"}, EditConnector(s) PROVE IInv'
  BY <1>0, <1>3 DEF EditConnector, rows, calls, target, CallInv, LockInv, RowInv, ProposerInv,
     SentInv, SecondPair, OneSendUnlessAborted, Sent
<1>4. ASSUME NEW c \in Calls, NEW u \in Users, NEW r \in Requests, NEW o \in Operations,
             Call(c, u, r, o)
      PROVE IInv'
  <2> USE <1>4 DEF Call, rows, target
  <2>1. wire[c] = "unsent"
    BY DEF CallInv
  <2>2. \A d \in Calls : d # c => op'[d] = op[d] /\ on'[d] = on[d] /\ by'[d] = by[d]
                                  /\ phase'[d] = phase[d]
    BY DEF TypeOK
  <2>3. op'[c] = o /\ on'[c] = r /\ by'[c] = u /\ phase'[c] = "waiting"
    BY DEF TypeOK
  <2>4. CallInv'
    BY <2>1, <2>2, <2>3 DEF CallInv, Privileged, Deciding
  <2>5. LockInv' /\ RowInv' /\ ProposerInv'
    BY <2>2, <2>3 DEF LockInv, RowInv, ProposerInv, SecondPair, InTransaction, Deciding
  <2>6. SentInv'
    BY <2>1, <2>2, <2>3 DEF SentInv, SecondPair
  <2>7. OneSendUnlessAborted'
    BY <2>1, <2>2, <2>3 DEF OneSendUnlessAborted, Sent
  <2>8. QED
    BY <1>0, <2>4, <2>5, <2>6, <2>7
<1>5. QED
  BY <1>1, <1>2, <1>3, <1>4 DEF World

\* A call turned away in `waiting` changes no row and no lock.
LEMMA TurnedAway == ASSUME IInv, NEW c \in Calls, Refuse(c) \/ LockTimeout(c) PROVE IInv'
<1> USE DEF IInv
<1>1. /\ phase[c] = "waiting" /\ wire[c] = "unsent"
      /\ phase' = [phase EXCEPT ![c] = "answered"]
      /\ UNCHANGED <<rows, stale, connector, lock, op, on, by, wire, target>>
  BY DEF Refuse, LockTimeout, Reads, CallInv
<1>2. TypeOK'
  BY ServeType DEF Serve
<1>3. CallInv' /\ LockInv' /\ RowInv' /\ ProposerInv'
  BY <1>1 DEF TypeOK, CallInv, LockInv, RowInv, ProposerInv, SecondPair, InTransaction,
              Deciding, rows
<1>4. SentInv' /\ OneSendUnlessAborted'
  BY <1>1 DEF TypeOK, SentInv, SecondPair, OneSendUnlessAborted, Sent, rows
<1>5. QED
  BY <1>2, <1>3, <1>4

\* approve() marks a stale row expired: no transaction is open on it.
LEMMA ExpiredInv == ASSUME IInv, NEW c \in Calls, ApproveExpired(c) PROVE IInv'
<1> USE DEF IInv, ApproveExpired, Reads, Free
<1>1. TypeOK'
  BY ServeType DEF Serve
<1>2. \A d \in Calls : phase[d] \in InTransaction => on[d] # on[c]
  BY ApprovalsAssumption DEF LockInv
<1>3. on[c] \in Requests /\ wire[c] = "unsent"
  BY DEF CallInv
<1>4. \A d \in Calls : phase'[d] \in InTransaction => phase[d] \in InTransaction
  BY DEF TypeOK, InTransaction
<1>5. CallInv' /\ LockInv' /\ ProposerInv'
  BY <1>3 DEF TypeOK, CallInv, LockInv, ProposerInv, InTransaction, Deciding
<1>6. RowInv'
  BY <1>2, <1>3, <1>4 DEF TypeOK, RowInv, SecondPair, InTransaction, Deciding
<1>7. SentInv'
  BY <1>2, <1>3 DEF TypeOK, SentInv, SecondPair, InTransaction
<1>8. OneSendUnlessAborted'
  BY <1>3 DEF TypeOK, OneSendUnlessAborted, Sent
<1>9. QED
  BY <1>1, <1>5, <1>6, <1>7, <1>8

\* approve() or reject() opens its transaction on a pending row.
LEMMA RecordInv ==
  ASSUME IInv, NEW c \in Calls, RecordApproval(c) \/ RecordRejection(c)
  PROVE  IInv'
<1> USE DEF IInv
<1> DEFINE p == IF op[c] = "approve" THEN "approved" ELSE "rejected"
<1>1. /\ phase[c] = "waiting" /\ op[c] \in {"approve", "reject"} /\ lock[on[c]] = NoCall
      /\ status[on[c]] = "pending"
      /\ op[c] = "approve" => SecondPair(c)
      /\ lock' = [lock EXCEPT ![on[c]] = c]
      /\ phase' = [phase EXCEPT ![c] = p]
      /\ UNCHANGED <<rows, stale, connector, op, on, by, wire, target>>
  BY DEF RecordApproval, RecordRejection, Reads, Hold, Free
<1>2. TypeOK'
  BY ServeType DEF Serve
<1>3. on[c] \in Requests /\ by[c] \in Admins /\ wire[c] = "unsent"
  BY <1>1 DEF CallInv
<1>4. \A d \in Calls : phase[d] \in InTransaction => on[d] # on[c]
  BY <1>1, ApprovalsAssumption DEF LockInv
<1>5. CallInv'
  BY <1>1, <1>3 DEF TypeOK, CallInv, Deciding
<1>6. LockInv'
  BY <1>1, <1>3, <1>4 DEF TypeOK, LockInv, InTransaction
<1>7. RowInv' /\ ProposerInv'
  BY <1>1, <1>3 DEF TypeOK, RowInv, ProposerInv, SecondPair, Deciding, rows
<1>8. SentInv' /\ OneSendUnlessAborted'
  BY <1>1, <1>3 DEF TypeOK, SentInv, SecondPair, OneSendUnlessAborted, Sent, rows
<1>9. QED
  BY <1>2, <1>5, <1>6, <1>7, <1>8

\* A call that ends with FailWith settles its row; if it had sent, as failed.
LEMMA FailInv ==
  ASSUME IInv, NEW c \in Calls, NEW s \in Outcomes, FailWith(c, s),
         phase[c] = "approved" \/ (phase[c] = "sending" /\ s = "failed")
  PROVE  IInv'
<1> USE DEF IInv, FailWith, Decide, End
<1>1. TypeOK'
  BY FailType
<1>2. on[c] \in Requests /\ lock[on[c]] = c /\ s # "absent"
  BY DEF CallInv, LockInv, InTransaction, Outcomes
<1>3. \A d \in Calls : d # c /\ phase[d] \in InTransaction => on[d] # on[c]
  BY Exclusive DEF InTransaction
<1>4. phase[c] = "approved" => wire[c] = "unsent"
  BY DEF CallInv
<1>5. CallInv'
  BY DEF TypeOK, CallInv, Deciding
<1>6. LockInv'
  BY <1>2, <1>3 DEF TypeOK, LockInv, InTransaction
<1>7. RowInv'
  BY <1>2, <1>3 DEF TypeOK, RowInv, SecondPair, InTransaction, Deciding
<1>8. ProposerInv'
  BY <1>2 DEF TypeOK, ProposerInv, RowInv, Deciding
<1>9. SentInv'
  BY <1>2, <1>3, <1>4 DEF TypeOK, SentInv, RowInv, SecondPair, InTransaction, Deciding
<1>10. OneSendUnlessAborted'
  BY DEF TypeOK, OneSendUnlessAborted, Sent
<1>11. QED
  BY <1>1, <1>5, <1>6, <1>7, <1>8, <1>9, <1>10

\* The send: no other call that sent this proposal is still in the game, since
\* this one holds the row and the row is pending.
LEMMA SendInv == ASSUME IInv, NEW c \in Calls, Send(c) PROVE IInv'
<1> USE DEF IInv, Send
<1>1. TypeOK'
  BY ServeType DEF Serve
<1>2. on[c] \in Requests /\ status[on[c]] = "pending" /\ SecondPair(c)
  BY DEF CallInv, RowInv, Deciding
<1>3. \A d \in Calls : d # c /\ phase[d] \in InTransaction => on[d] # on[c]
  BY Exclusive DEF InTransaction
<1>4. \A d \in Calls : Sent(d, on[c]) => phase[d] = "aborted"
  <2> SUFFICES ASSUME NEW d \in Calls, Sent(d, on[c]) PROVE phase[d] = "aborted"
    OBVIOUS
  <2>1. d # c
    BY DEF Sent, CallInv
  <2>2. phase[d] \in {"sending", "executed", "answered", "aborted"}
    BY DEF Sent, SentInv
  <2>3. phase[d] # "answered"
    BY <1>2 DEF Sent, SentInv
  <2>4. QED
    BY <1>3, <2>1, <2>2, <2>3 DEF Sent, InTransaction
<1>5. CallInv' /\ LockInv' /\ RowInv' /\ ProposerInv'
  BY <1>2 DEF TypeOK, CallInv, LockInv, RowInv, ProposerInv, SecondPair, InTransaction,
              Deciding, rows
<1>6. SentInv'
  BY <1>2 DEF TypeOK, SentInv, SecondPair, rows
<1>7. OneSendUnlessAborted'
  <2>1. \A d \in Calls, r \in Requests : d # c => Sent(d, r)' = Sent(d, r) /\ phase'[d] = phase[d]
    BY DEF TypeOK, Sent
  <2>2. \A r \in Requests : Sent(c, r)' => r = on[c]
    BY DEF Sent
  <2>3. QED
    BY <1>4, <2>1, <2>2 DEF OneSendUnlessAborted
<1>8. QED
  BY <1>1, <1>5, <1>6, <1>7

\* The answer of the target is read; nothing is committed yet.
LEMMA ReadInv == ASSUME IInv, NEW c \in Calls, ReadSuccess(c) \/ DeleteSucceeds(c) PROVE IInv'
<1> USE DEF IInv
<1>1. TypeOK'
  BY ServeType DEF Serve
<1>2. \/ phase[c] = "sending" /\ phase' = [phase EXCEPT ![c] = "executed"]
         /\ wire[c] \in {"created", "accepted", "redirected"}
      \/ phase[c] = "deleting" /\ phase' = [phase EXCEPT ![c] = "undone"]
  BY DEF ReadSuccess, DeleteSucceeds
<1>3. UNCHANGED <<rows, stale, connector, lock, op, on, by, wire, target>>
  BY DEF ReadSuccess, DeleteSucceeds
<1>4. CallInv' /\ LockInv' /\ RowInv' /\ ProposerInv'
  BY <1>2, <1>3 DEF TypeOK, CallInv, LockInv, RowInv, ProposerInv, SecondPair,
                    InTransaction, Deciding, rows
<1>5. SentInv'
  BY <1>2, <1>3 DEF TypeOK, CallInv, SentInv, SecondPair, rows
<1>6. OneSendUnlessAborted'
  BY <1>2, <1>3 DEF TypeOK, OneSendUnlessAborted, Sent
<1>7. QED
  BY <1>1, <1>4, <1>5, <1>6

\* compensate() locks an executed row and sends the DELETE.
LEMMA DeleteInv == ASSUME IInv, NEW c \in Calls, SendDelete(c) PROVE IInv'
<1> USE DEF IInv, SendDelete, Hold, Reads, Free, Undoable
<1>1. TypeOK'
  BY ServeType DEF Serve
<1>2. on[c] \in Requests /\ by[c] \in Admins /\ wire[c] = "unsent"
  BY DEF CallInv
<1>3. \A d \in Calls : phase[d] \in InTransaction => on[d] # on[c]
  BY ApprovalsAssumption DEF LockInv
<1>4. CallInv'
  BY <1>2 DEF TypeOK, CallInv, Deciding
<1>5. LockInv'
  BY <1>2, <1>3 DEF TypeOK, LockInv, InTransaction
<1>6. RowInv' /\ ProposerInv'
  BY <1>2 DEF TypeOK, RowInv, ProposerInv, SecondPair, Deciding, rows
<1>7. SentInv' /\ OneSendUnlessAborted'
  BY <1>2 DEF TypeOK, SentInv, SecondPair, OneSendUnlessAborted, Sent, rows
<1>8. QED
  BY <1>1, <1>4, <1>5, <1>6, <1>7

\* A transaction that ends without changing its row: a failed DELETE, a rollback.
LEMMA RollbackInv == ASSUME IInv, NEW c \in Calls, DeleteFails(c) \/ Abort(c) PROVE IInv'
<1> USE DEF IInv
<1> DEFINE p == IF phase[c] = "deleting" /\ phase'[c] = "answered" THEN "answered" ELSE "aborted"
<1>1. /\ phase[c] \in InTransaction
      /\ phase' = [phase EXCEPT ![c] = p]
      /\ p \in Ended
      /\ p = "answered" => phase[c] = "deleting"
      /\ lock' = [lock EXCEPT ![on[c]] = NoCall]
      /\ UNCHANGED <<rows, stale, connector, op, on, by, wire, target>>
  BY DEF TypeOK, DeleteFails, Abort, End, InTransaction, Ended
<1> HIDE DEF p
<1>2. TypeOK'
  BY ServeType, OutsideType DEF Serve
<1>3. on[c] \in Requests /\ on[c] # NoRequest /\ (p = "answered" => op[c] = "undo")
  BY <1>1, ApprovalsAssumption DEF CallInv, InTransaction
<1>4. \A d \in Calls : d # c /\ phase[d] \in InTransaction => on[d] # on[c]
  BY <1>1, Exclusive
<1>5. CallInv'
  BY <1>1 DEF TypeOK, CallInv, InTransaction, Deciding, Ended
<1>6. LockInv'
  BY <1>1, <1>3, <1>4 DEF TypeOK, LockInv, InTransaction, Ended
<1>7. RowInv' /\ ProposerInv'
  BY <1>1 DEF TypeOK, RowInv, ProposerInv, SecondPair, InTransaction, Deciding, Ended, rows
<1>8. SentInv'
  BY <1>1, <1>3 DEF TypeOK, SentInv, SecondPair, Ended, rows
<1>9. OneSendUnlessAborted'
  BY <1>1, <1>3 DEF TypeOK, OneSendUnlessAborted, Sent, Ended
<1>10. QED
  BY <1>2, <1>5, <1>6, <1>7, <1>8, <1>9

\* The commit gives a pending row its outcome, or leaves the status of an
\* executed one alone.
LEMMA CommitInv == ASSUME IInv, NEW c \in Calls, Commit(c) PROVE IInv'
<1> USE DEF IInv
<1>1. /\ phase[c] \in {"executed", "rejected", "undone"}
      /\ lock' = [lock EXCEPT ![on[c]] = NoCall]
      /\ phase' = [phase EXCEPT ![c] = "answered"]
      /\ UNCHANGED <<proposer, stale, connector, op, on, by, wire, target>>
  BY DEF Commit, End
<1>2. /\ on[c] \in Requests
      /\ phase[c] = "executed" => status[on[c]] = "pending" /\ op[c] = "approve"
      /\ phase[c] = "rejected" => status[on[c]] = "pending" /\ op[c] = "reject"
      /\ phase[c] = "undone" => op[c] = "undo"
  BY <1>1 DEF CallInv, RowInv, Deciding
<1>3. \A d \in Calls : d # c /\ phase[d] \in InTransaction => on[d] # on[c]
  BY <1>1, Exclusive DEF InTransaction
<1>4. /\ \A r \in Requests : r # on[c] => status'[r] = status[r]
      /\ phase[c] = "executed" => status'[on[c]] = "executed"
      /\ phase[c] = "rejected" => status'[on[c]] = "rejected"
      /\ phase[c] = "undone" => status' = status
      /\ \A r \in Requests : r # on[c] => compensated'[r] = compensated[r]
  BY <1>2 DEF Commit, Decide, TypeOK
<1>5. TypeOK'
  BY ServeType DEF Serve
<1>6. CallInv' /\ LockInv'
  BY <1>1, <1>2, <1>3 DEF TypeOK, CallInv, LockInv, InTransaction, Deciding
<1>7. RowInv'
  BY <1>1, <1>2, <1>3, <1>4 DEF TypeOK, CallInv, RowInv, SecondPair, InTransaction, Deciding
<1>8. ProposerInv'
  BY <1>1, <1>2, <1>4 DEF TypeOK, ProposerInv
<1>9. SentInv'
  <2> SUFFICES ASSUME NEW d \in Calls, op[d] = "approve", wire[d] # "unsent"
               PROVE  /\ phase'[d] \in {"sending", "executed", "answered", "aborted"}
                      /\ status'[on[d]] # "absent"
                      /\ SecondPair(d)'
                      /\ phase'[d] = "answered" => status'[on[d]] \in {"failed", "executed"}
    BY <1>1 DEF SentInv
  <2>1. CASE d = c
    BY <1>1, <1>2, <1>4, <2>1 DEF TypeOK, SentInv, SecondPair
  <2>2. CASE d # c /\ on[d] # on[c]
    BY <1>1, <1>2, <1>4, <2>2 DEF TypeOK, CallInv, SentInv, SecondPair
  <2>3. CASE d # c /\ on[d] = on[c]
    BY <1>1, <1>2, <1>3, <1>4, <2>3 DEF TypeOK, SentInv, SecondPair, InTransaction
  <2>4. QED
    BY <2>1, <2>2, <2>3
<1>10. OneSendUnlessAborted'
  BY <1>1 DEF TypeOK, OneSendUnlessAborted, Sent
<1>11. QED
  BY <1>5, <1>6, <1>7, <1>8, <1>9, <1>10

\* The target answers, whatever it did: the rows and the calls are untouched.
LEMMA TargetInv == ASSUME IInv, NEW c \in Calls, Target(c) PROVE IInv'
<1> USE DEF IInv
<1>1. /\ wire[c] = "travelling"
      /\ \E answer \in {"created", "accepted", "refused", "redirected"} :
           wire' = [wire EXCEPT ![c] = answer]
      /\ UNCHANGED <<rows, stale, connector, lock, calls>>
  BY DEF Target, TargetWrites, TargetDeletes, TargetDeclines
<1>2. PICK answer \in {"created", "accepted", "refused", "redirected"} :
        wire' = [wire EXCEPT ![c] = answer]
  BY <1>1
<1>3. TypeOK'
  BY OutsideType
<1>4. CallInv' /\ LockInv' /\ RowInv' /\ ProposerInv'
  BY <1>1, <1>2 DEF TypeOK, CallInv, LockInv, RowInv, ProposerInv, SecondPair, rows, calls
<1>5. SentInv' /\ OneSendUnlessAborted'
  BY <1>1, <1>2 DEF TypeOK, SentInv, SecondPair, OneSendUnlessAborted, Sent, rows, calls
<1>6. QED
  BY <1>3, <1>4, <1>5

LEMMA ServeInv == ASSUME IInv, NEW c \in Calls, Serve(c) PROVE IInv'
<1>1. CASE Refuse(c) \/ LockTimeout(c)
  BY <1>1, TurnedAway
<1>2. CASE ApproveExpired(c)
  BY <1>2, ExpiredInv
<1>3. CASE RecordApproval(c) \/ RecordRejection(c)
  BY <1>3, RecordInv
<1>4. CASE ExecuteExpired(c) \/ ExecuteWithoutConnector(c) \/ ExecuteBlocked(c)
  BY <1>4, FailInv DEF ExecuteExpired, ExecuteWithoutConnector, ExecuteBlocked, Outcomes
<1>5. CASE ReadRefusal(c) \/ SendFails(c)
  BY <1>5, FailInv DEF ReadRefusal, SendFails, Outcomes
<1>6. CASE Send(c)
  BY <1>6, SendInv
<1>7. CASE ReadSuccess(c) \/ DeleteSucceeds(c)
  BY <1>7, ReadInv
<1>8. CASE SendDelete(c)
  BY <1>8, DeleteInv
<1>9. CASE DeleteFails(c)
  BY <1>9, RollbackInv
<1>10. CASE Commit(c)
  BY <1>10, CommitInv
<1>11. QED
  BY <1>1, <1>2, <1>3, <1>4, <1>5, <1>6, <1>7, <1>8, <1>9, <1>10 DEF Serve

LEMMA StepInv == IInv /\ [Next]_vars => IInv'
<1>1. IInv /\ UNCHANGED vars => IInv'
  BY StepType DEF vars, rows, calls, target, IInv, CallInv, LockInv, RowInv, ProposerInv,
     SentInv, SecondPair, OneSendUnlessAborted, Sent
<1>2. QED
  BY <1>1, WorldInv, ServeInv, RollbackInv, TargetInv DEF Next

\* The inductive invariant holds in every reachable state.
THEOREM Invariance == Spec => []IInv
BY InitInv, StepInv, PTL DEF Spec

\* Concurrent approvals of one proposal send it at most once between them,
\* except after a rollback.
THEOREM SendsOnce == Spec => []OneSendUnlessAborted
<1>1. IInv => OneSendUnlessAborted
  BY DEF IInv
<1>2. QED
  BY <1>1, Invariance, PTL

\* No write leaves on the word of its proposer or of somebody who is no admin.
THEOREM AlwaysFourEyes == Spec => []FourEyes
<1>1. IInv => FourEyes
  <2> SUFFICES ASSUME IInv, NEW r \in Requests, NEW c \in Calls, Sent(c, r)
               PROVE  by[c] \in Admins /\ proposer[r] \in Users /\ by[c] # proposer[r]
    BY DEF FourEyes
  <2>1. phase[c] # "unused" /\ SecondPair(c) /\ status[r] # "absent"
    BY DEF IInv, Sent, SentInv
  <2>2. QED
    BY <2>1 DEF IInv, Sent, CallInv, ProposerInv, SecondPair
<1>2. QED
  BY <1>1, Invariance, PTL

-------------------------------------------------------------------------------
(* Approvals implements WriteQueue. *)

attempts == [r \in Requests |-> \E c \in Calls : Sent(c, r)]

LEMMA QueueInit == Init => Queue!Init
<1> SUFFICES ASSUME Init PROVE Queue!Init
  OBVIOUS
<1>1. attempts = [r \in Requests |-> FALSE]
  BY DEF Init, attempts, Sent
<1>2. QED
  BY <1>1 DEF Init, Queue!Init, attempts

\* A step that changes neither statuses nor marks nor what was sent is a stutter.
LEMMA QueueStutter ==
  ASSUME UNCHANGED <<status, compensated>>,
         \A c \in Calls, r \in Requests : Sent(c, r)' <=> Sent(c, r)
  PROVE  UNCHANGED Queue!vars
<1>1. attempts' = attempts
  BY DEF attempts
<1>2. QED
  BY <1>1 DEF Queue!vars, attempts

\* A step that gives a pending row an outcome is a Settle of the queue.
LEMMA QueueSettle ==
  ASSUME NEW c \in Calls, on[c] \in Requests, NEW s \in Outcomes,
         status[on[c]] = "pending",
         status' = [status EXCEPT ![on[c]] = s],
         s = "executed" => Sent(c, on[c]),
         UNCHANGED <<compensated, op, on, wire>>
  PROVE  Queue!Next
<1>1. attempts' = attempts
  BY DEF attempts, Sent
<1>2. s = "executed" => attempts[on[c]]
  BY DEF attempts
<1>3. Queue!Settle(on[c], s)
  BY <1>1, <1>2 DEF Queue!Settle, attempts
<1>4. QED
  BY <1>3 DEF Queue!Next, Queue!Outcomes, Outcomes

\* Failed executions settle the row.
LEMMA QueueFail ==
  ASSUME IInv, NEW c \in Calls, NEW s \in Outcomes \ {"executed"}, FailWith(c, s),
         phase[c] \in {"approved", "sending"}
  PROVE  Queue!Next
<1>1. on[c] \in Requests /\ status[on[c]] = "pending"
  BY DEF IInv, CallInv, RowInv, Deciding
<1>2. QED
  BY <1>1, QueueSettle DEF FailWith, Decide

\* The send is the queue's attempt.
LEMMA QueueSend == ASSUME IInv, NEW c \in Calls, Send(c) PROVE Queue!Next
<1> USE DEF IInv, Send
<1>1. on[c] \in Requests /\ status[on[c]] = "pending" /\ op[c] = "approve"
  BY DEF CallInv, RowInv, Deciding
<1>2. Sent(c, on[c])'
  BY <1>1 DEF Sent, TypeOK
<1>3. \A d \in Calls, r \in Requests : r # on[c] => (Sent(d, r)' <=> Sent(d, r))
  BY DEF Sent, TypeOK
<1>4. attempts' = [attempts EXCEPT ![on[c]] = TRUE]
  BY <1>1, <1>2, <1>3 DEF attempts
<1>5. Queue!Attempt(on[c])
  BY <1>1, <1>4 DEF Queue!Attempt, attempts, rows
<1>6. QED
  BY <1>1, <1>5 DEF Queue!Next

\* The commit settles the row or marks it undone.
LEMMA QueueCommit == ASSUME IInv, NEW c \in Calls, Commit(c) PROVE Queue!Next
<1> USE DEF IInv
<1>1. on[c] \in Requests /\ UNCHANGED <<op, on, wire>>
  BY DEF CallInv, Commit
<1>2. CASE phase[c] = "executed"
  <2>1. Sent(c, on[c]) /\ status[on[c]] = "pending"
    BY <1>2 DEF Sent, CallInv, RowInv, Deciding
  <2>2. QED
    BY <1>1, <1>2, <2>1, QueueSettle DEF Commit, Decide, Outcomes
<1>3. CASE phase[c] = "rejected"
  <2>1. status[on[c]] = "pending"
    BY <1>3 DEF RowInv
  <2>2. QED
    BY <1>1, <1>3, <2>1, QueueSettle DEF Commit, Decide, Outcomes
<1>4. CASE phase[c] = "undone"
  <2>1. status[on[c]] = "executed" /\ ~compensated[on[c]]
    BY <1>4 DEF RowInv
  <2>2. attempts' = attempts
    BY <1>1 DEF attempts, Sent
  <2>3. Queue!Undo(on[c])
    BY <1>4, <2>1, <2>2 DEF Commit, Queue!Undo, attempts
  <2>4. QED
    BY <1>1, <2>3 DEF Queue!Next
<1>5. QED
  BY <1>2, <1>3, <1>4 DEF Commit

\* Every step of a call's thread is a step of the queue or a stutter.
LEMMA QueueServe ==
  ASSUME IInv, NEW c \in Calls, Serve(c)
  PROVE  [Queue!Next]_(Queue!vars)
<1> USE DEF IInv
<1>1. CASE Refuse(c) \/ LockTimeout(c) \/ RecordApproval(c) \/ RecordRejection(c)
           \/ ReadSuccess(c) \/ DeleteSucceeds(c) \/ DeleteFails(c)
  BY <1>1, QueueStutter DEF Refuse, LockTimeout, RecordApproval, RecordRejection,
     ReadSuccess, DeleteSucceeds, DeleteFails, Sent, rows
<1>2. CASE ApproveExpired(c)
  <2>1. on[c] \in Requests
    BY <1>2 DEF ApproveExpired, Reads, CallInv
  <2>2. QED
    BY <1>2, <2>1, QueueSettle DEF ApproveExpired, Outcomes
<1>3. CASE ExecuteExpired(c) \/ ExecuteWithoutConnector(c) \/ ExecuteBlocked(c)
           \/ ReadRefusal(c) \/ SendFails(c)
  BY <1>3, QueueFail DEF ExecuteExpired, ExecuteWithoutConnector, ExecuteBlocked,
     ReadRefusal, SendFails, Outcomes
<1>4. CASE Send(c)
  BY <1>4, QueueSend
<1>5. CASE SendDelete(c)
  <2>1. \A d \in Calls, r \in Requests : Sent(d, r)' <=> Sent(d, r)
    BY <1>5 DEF SendDelete, Reads, Sent, TypeOK
  <2>2. QED
    BY <1>5, <2>1, QueueStutter DEF SendDelete, rows
<1>6. CASE Commit(c)
  BY <1>6, QueueCommit
<1>7. QED
  BY <1>1, <1>2, <1>3, <1>4, <1>5, <1>6 DEF Serve

\* Every step of the world, a rollback or the target is a step of the queue or
\* a stutter.
LEMMA QueueOutside ==
  ASSUME IInv, World \/ \E c \in Calls : Abort(c) \/ Target(c)
  PROVE  [Queue!Next]_(Queue!vars)
<1> USE DEF IInv
<1>1. ASSUME NEW r \in Requests, NEW u \in Users, Propose(r, u) PROVE Queue!Next
  <2>1. attempts' = attempts
    BY <1>1 DEF Propose, calls, attempts, Sent
  <2>2. Queue!Propose(r)
    BY <1>1, <2>1 DEF Propose, Queue!Propose, attempts
  <2>3. QED
    BY <2>2 DEF Queue!Next
<1>2. ASSUME NEW r \in Requests, Expire(r) PROVE UNCHANGED Queue!vars
  BY <1>2, QueueStutter DEF Expire, rows, calls, Sent
<1>3. ASSUME NEW s \in {"ready", "unusable", "blocked"}, EditConnector(s)
      PROVE  UNCHANGED Queue!vars
  BY <1>3, QueueStutter DEF EditConnector, rows, calls, Sent
<1>4. ASSUME NEW c \in Calls, NEW u \in Users, NEW r \in Requests, NEW o \in Operations,
             Call(c, u, r, o)
      PROVE UNCHANGED Queue!vars
  <2>1. wire[c] = "unsent"
    BY <1>4 DEF Call, CallInv
  <2>2. \A d \in Calls, q \in Requests : Sent(d, q)' <=> Sent(d, q)
    BY <1>4, <2>1 DEF Call, Sent, TypeOK
  <2>3. QED
    BY <1>4, <2>2, QueueStutter DEF Call, rows
<1>5. ASSUME NEW c \in Calls, Abort(c) PROVE UNCHANGED Queue!vars
  BY <1>5, QueueStutter DEF Abort, rows, Sent
<1>6. ASSUME NEW c \in Calls, Target(c) PROVE UNCHANGED Queue!vars
  <2>1. /\ wire[c] = "travelling"
        /\ \E answer \in {"created", "accepted", "refused", "redirected"} :
             wire' = [wire EXCEPT ![c] = answer]
        /\ UNCHANGED <<rows, calls>>
    BY <1>6 DEF Target, TargetWrites, TargetDeletes, TargetDeclines
  <2>2. \A d \in Calls, q \in Requests : Sent(d, q)' <=> Sent(d, q)
    BY <2>1 DEF Sent, TypeOK, calls
  <2>3. QED
    BY <2>1, <2>2, QueueStutter DEF rows
<1>7. QED
  BY <1>1, <1>2, <1>3, <1>4, <1>5, <1>6 DEF World

LEMMA QueueStep == IInv /\ [Next]_vars => [Queue!Next]_(Queue!vars)
<1>1. UNCHANGED vars => UNCHANGED Queue!vars
  BY QueueStutter DEF vars, rows, calls, Sent
<1>2. QED
  BY <1>1, QueueServe, QueueOutside DEF Next

\* The queue implements what it promises an auditor: outcomes are final, writes
\* leave only while no outcome is recorded, and undos are recorded once.
THEOREM ImplementsQueue == Spec => QueueSpec
BY QueueInit, QueueStep, Invariance, PTL DEF Spec, QueueSpec, Queue!Spec

-------------------------------------------------------------------------------
(* The recorded outcome is true. *)

Succeeded == {"created", "accepted", "redirected"}

\* An answered call whose message was answered never changes again.
LEMMA AnsweredStays ==
  ASSUME IInv, [Next]_vars, NEW c \in Calls, phase[c] = "answered", wire[c] # "travelling"
  PROVE  /\ op'[c] = op[c] /\ on'[c] = on[c] /\ by'[c] = by[c]
         /\ phase'[c] = phase[c] /\ wire'[c] = wire[c]
<1> USE DEF IInv, TypeOK
<1>1. CASE UNCHANGED vars
  BY <1>1 DEF vars, calls
<1>2. CASE World
  BY <1>2 DEF World, Propose, Expire, EditConnector, Call, calls
<1>3. ASSUME NEW d \in Calls, Serve(d) PROVE phase[d] \in {"waiting"} \cup InTransaction
  BY <1>3 DEF Serve, Refuse, Reads, LockTimeout, ApproveExpired, RecordApproval,
     ExecuteExpired, ExecuteWithoutConnector, ExecuteBlocked, Send, ReadSuccess, ReadRefusal,
     SendFails, RecordRejection, SendDelete, DeleteSucceeds, DeleteFails, Commit, InTransaction
<1>4. ASSUME NEW d \in Calls, Serve(d)
      PROVE  /\ UNCHANGED <<op, on, by>>
             /\ \A e \in Calls : e # d => phase'[e] = phase[e] /\ wire'[e] = wire[e]
  BY <1>4 DEF Serve, Refuse, LockTimeout, ApproveExpired, RecordApproval,
     ExecuteExpired, ExecuteWithoutConnector, ExecuteBlocked, Send, ReadSuccess, ReadRefusal,
     SendFails, RecordRejection, SendDelete, DeleteSucceeds, DeleteFails, Commit, FailWith,
     Hold, End
<1>5. ASSUME NEW d \in Calls, Abort(d)
      PROVE  d # c /\ UNCHANGED <<op, on, by, wire>>
             /\ \A e \in Calls : e # d => phase'[e] = phase[e]
  BY <1>5 DEF Abort, End, InTransaction
<1>6. ASSUME NEW d \in Calls, Target(d)
      PROVE  d # c /\ UNCHANGED calls /\ \A e \in Calls : e # d => wire'[e] = wire[e]
  BY <1>6 DEF Target, TargetWrites, TargetDeletes, TargetDeclines
<1>7. QED
  BY <1>1, <1>2, <1>3, <1>4, <1>5, <1>6 DEF Next, calls, InTransaction

\* An executed row keeps its status and its approver.
LEMMA ExecutedStays ==
  ASSUME IInv, [Next]_vars, NEW r \in Requests, status[r] = "executed"
  PROVE  status'[r] = "executed" /\ decidedBy'[r] = decidedBy[r]
<1> USE DEF IInv, TypeOK
<1>1. CASE UNCHANGED vars
  BY <1>1 DEF vars, rows
<1>2. CASE World
  BY <1>2 DEF World, Propose, Expire, EditConnector, Call, rows
<1>3. ASSUME NEW c \in Calls, Serve(c)
      PROVE  \/ status' = status /\ decidedBy' = decidedBy
             \/ /\ status[on[c]] = "pending"
                /\ \A q \in Requests : q # on[c] => status'[q] = status[q]
                                                    /\ decidedBy'[q] = decidedBy[q]
  <2>1. CASE Refuse(c) \/ LockTimeout(c) \/ RecordApproval(c) \/ RecordRejection(c) \/ Send(c)
             \/ ReadSuccess(c) \/ SendDelete(c) \/ DeleteSucceeds(c) \/ DeleteFails(c)
    BY <2>1 DEF Refuse, LockTimeout, RecordApproval, RecordRejection, Send, ReadSuccess,
       SendDelete, DeleteSucceeds, DeleteFails, rows
  <2>2. CASE ApproveExpired(c)
    BY <2>2 DEF ApproveExpired
  <2>3. CASE \E s \in Outcomes : FailWith(c, s) /\ phase[c] \in {"approved", "sending"}
    BY <2>3 DEF FailWith, Decide, RowInv, Deciding
  <2>4. CASE Commit(c)
    BY <2>4 DEF Commit, Decide, RowInv, Deciding
  <2>5. QED
    BY <1>3, <2>1, <2>2, <2>3, <2>4 DEF Serve, ExecuteExpired, ExecuteWithoutConnector,
       ExecuteBlocked, ReadRefusal, SendFails, Outcomes
<1>4. ASSUME NEW c \in Calls, Abort(c) \/ Target(c) PROVE UNCHANGED rows
  BY <1>4 DEF Abort, Target, TargetWrites, TargetDeletes, TargetDeclines
<1>5. QED
  BY <1>1, <1>2, <1>3, <1>4 DEF Next, rows

\* A row becomes executed only by the commit of a call the target answered.
LEMMA BecomesExecuted ==
  ASSUME IInv, [Next]_vars, NEW r \in Requests, status[r] # "executed", status'[r] = "executed"
  PROVE  \E c \in Calls : /\ Sent(c, r)' /\ phase'[c] = "answered"
                          /\ wire'[c] \in Succeeded /\ by'[c] = decidedBy'[r]
<1> USE DEF IInv, TypeOK
<1>1. ASSUME NEW c \in Calls, Serve(c) PROVE Commit(c) /\ phase[c] = "executed" /\ on[c] = r
  <2>1. CASE Refuse(c) \/ LockTimeout(c) \/ RecordApproval(c) \/ RecordRejection(c) \/ Send(c)
             \/ ReadSuccess(c) \/ SendDelete(c) \/ DeleteSucceeds(c) \/ DeleteFails(c)
    BY <2>1 DEF Refuse, LockTimeout, RecordApproval, RecordRejection, Send, ReadSuccess,
       SendDelete, DeleteSucceeds, DeleteFails, rows
  <2>2. CASE ApproveExpired(c)
    BY <2>2 DEF ApproveExpired
  <2>3. CASE \E s \in Outcomes \ {"executed"} : FailWith(c, s)
    BY <2>3 DEF FailWith, Decide
  <2>4. CASE Commit(c)
    BY <2>4 DEF Commit, Decide
  <2>5. QED
    BY <1>1, <2>1, <2>2, <2>3, <2>4 DEF Serve, ExecuteExpired, ExecuteWithoutConnector,
       ExecuteBlocked, ReadRefusal, SendFails, Outcomes
<1>2. \E c \in Calls : Serve(c)
  BY DEF Next, vars, rows, World, Propose, Expire, EditConnector, Call, Abort, Target,
     TargetWrites, TargetDeletes, TargetDeclines
<1>3. PICK c \in Calls : Commit(c) /\ phase[c] = "executed" /\ on[c] = r
  BY <1>1, <1>2
<1>4. op[c] = "approve" /\ wire[c] \in Succeeded
  BY <1>3 DEF CallInv, RowInv, Deciding, Succeeded
<1>5. /\ UNCHANGED <<op, on, by, wire>>
      /\ decidedBy'[r] = by[c]
      /\ phase'[c] = "answered"
  BY <1>3 DEF Commit, Decide, End
<1>6. Sent(c, r)'
  BY <1>3, <1>4, <1>5 DEF Sent, Succeeded
<1>7. QED
  BY <1>4, <1>5, <1>6

\* The outcome of a row agrees with what happened on the wire.
THEOREM OutcomesAreTrue == Spec => []OutcomeIsTrue
<1> DEFINE Backed(r) == \E c \in Calls : /\ Sent(c, r) /\ phase[c] = "answered"
                                         /\ wire[c] \in Succeeded /\ by[c] = decidedBy[r]
           ExecutedInv == \A r \in Requests : status[r] = "executed" => Backed(r)
<1>1. Init => ExecutedInv
  BY DEF Init
<1>2. IInv /\ ExecutedInv /\ [Next]_vars => ExecutedInv'
  <2> SUFFICES ASSUME IInv, ExecutedInv, [Next]_vars,
                      NEW r \in Requests, status'[r] = "executed"
               PROVE  Backed(r)'
    OBVIOUS
  <2>1. CASE status[r] = "executed"
    <3>1. PICK c \in Calls : /\ Sent(c, r) /\ phase[c] = "answered"
                             /\ wire[c] \in Succeeded /\ by[c] = decidedBy[r]
      BY <2>1
    <3>2. /\ op'[c] = op[c] /\ on'[c] = on[c] /\ by'[c] = by[c]
          /\ phase'[c] = phase[c] /\ wire'[c] = wire[c]
      BY <3>1, AnsweredStays DEF Succeeded
    <3>3. Sent(c, r)' /\ by'[c] = decidedBy'[r]
      BY <2>1, <3>1, <3>2, ExecutedStays DEF Sent
    <3>4. QED
      BY <3>1, <3>2, <3>3
  <2>2. CASE status[r] # "executed"
    BY <2>2, BecomesExecuted
  <2>3. QED
    BY <2>1, <2>2
<1>3. IInv /\ ExecutedInv => OutcomeIsTrue
  <2> SUFFICES ASSUME IInv, ExecutedInv, NEW r \in Requests,
                      status[r] = "rejected", NEW c \in Calls, Sent(c, r)
               PROVE  phase[c] = "aborted"
    BY DEF OutcomeIsTrue, Succeeded
  <2>1. QED
    BY DEF IInv, Sent, SentInv, RowInv, Deciding
<1> HIDE DEF ExecutedInv
<1>4. QED
  BY <1>1, <1>2, <1>3, Invariance, PTL DEF Spec

-------------------------------------------------------------------------------
(* What a target that honours the key does. *)

\* The key is seen exactly when the write was performed, and nothing is there
\* that no write made.
EffectInv ==
  \A r \in Requests :
    /\ effects[r] = IF r \in seen THEN 1 ELSE 0
    /\ resource[r] # "none" => r \in seen

\* A DELETE that was carried out found the resource, and left it gone: the key
\* was seen by then, so that no late copy of the write brings it back.
GoneInv ==
  \A c \in Calls : op[c] = "undo" /\ wire[c] = "accepted" => resource[on[c]] = "gone"

\* The mark stands for a DELETE that was answered below 400.
MarkInv ==
  /\ \A c \in Calls :
       /\ phase[c] = "undone" => wire[c] \in {"accepted", "redirected"}
       /\ op[c] = "undo" => wire[c] # "created"
  /\ \A r \in Requests : compensated[r] =>
       \E c \in Calls : op[c] = "undo" /\ on[c] = r /\ wire[c] \in {"accepted", "redirected"}

TargetKept == (Deduplicates => EffectInv /\ GoneInv) /\ MarkInv

LEMMA TargetStart == Init => TargetKept
BY DEF Init, TargetKept, EffectInv, GoneInv, MarkInv

\* A step that leaves the target, and the calls that undo, as they are.
LEMMA TargetUntouched ==
  ASSUME TargetKept, UNCHANGED <<target, compensated, wire>>,
         \A c \in Calls : wire[c] # "unsent" => op'[c] = op[c] /\ on'[c] = on[c],
         \A c \in Calls : phase'[c] = "undone" => wire[c] \in {"accepted", "redirected"}
  PROVE  TargetKept'
<1>1. Deduplicates => EffectInv'
  BY DEF TargetKept, EffectInv, target
<1>2. Deduplicates => GoneInv'
  BY DEF TargetKept, GoneInv, target
<1>3. MarkInv'
  BY DEF TargetKept, MarkInv
<1>4. QED
  BY <1>1, <1>2, <1>3 DEF TargetKept

\* A message leaves: nothing has come of it.
LEMMA TargetAddressed ==
  ASSUME IInv, TargetKept, NEW c \in Calls, Send(c) \/ SendDelete(c)
  PROVE  TargetKept'
<1>1. /\ wire' = [wire EXCEPT ![c] = "travelling"] /\ wire[c] = "unsent"
      /\ UNCHANGED <<target, compensated, op, on>>
      /\ \A d \in Calls : phase'[d] = "undone" => phase[d] = "undone" /\ d # c
  BY DEF Send, SendDelete, Reads, Hold, rows, IInv, TypeOK, CallInv
<1>2. \A d \in Calls : d # c => wire'[d] = wire[d]
  BY <1>1 DEF IInv, TypeOK
<1>3. wire'[c] = "travelling"
  BY <1>1 DEF IInv, TypeOK
<1>4. Deduplicates => EffectInv' /\ GoneInv'
  BY <1>1, <1>2, <1>3 DEF TargetKept, EffectInv, GoneInv, target
<1>5. MarkInv'
  BY <1>1, <1>2, <1>3 DEF TargetKept, MarkInv
<1>6. QED
  BY <1>4, <1>5 DEF TargetKept

\* The mark is committed by the call whose DELETE was answered.
LEMMA TargetMarked ==
  ASSUME IInv, TargetKept, NEW c \in Calls, Commit(c)
  PROVE  TargetKept'
<1>1. /\ UNCHANGED <<target, op, on, wire>>
      /\ \A d \in Calls : phase'[d] = "undone" => phase[d] = "undone"
  BY DEF Commit, End, IInv, TypeOK
<1>2. Deduplicates => EffectInv' /\ GoneInv'
  BY <1>1 DEF TargetKept, EffectInv, GoneInv, target
<1>3. \A r \in Requests : compensated'[r] => compensated[r] \/ (phase[c] = "undone" /\ r = on[c])
  BY DEF Commit, IInv, TypeOK
<1>4. phase[c] = "undone" => op[c] = "undo" /\ wire[c] \in {"accepted", "redirected"}
  BY DEF IInv, CallInv, TargetKept, MarkInv
<1>5. MarkInv'
  BY <1>1, <1>3, <1>4 DEF TargetKept, MarkInv
<1>6. QED
  BY <1>2, <1>5 DEF TargetKept

\* The target performs a write, or knows its key.
LEMMA TargetPerforms ==
  ASSUME IInv, TargetKept, NEW c \in Calls, NEW answer \in {"created", "accepted"},
         TargetWrites(c, answer)
  PROVE  TargetKept'
<1>1. /\ wire[c] = "travelling" /\ op[c] = "approve"
      /\ wire' = [wire EXCEPT ![c] = answer]
      /\ UNCHANGED <<compensated, calls>>
  BY DEF TargetWrites, rows
<1>2. on[c] \in Requests
  BY <1>1 DEF IInv, SentInv, CallInv
<1>3. \A d \in Calls : d # c => wire'[d] = wire[d]
  BY <1>1 DEF IInv, TypeOK
<1>4. MarkInv'
  BY <1>1, <1>3 DEF TargetKept, MarkInv, IInv, CallInv, calls
<1>5. ASSUME Deduplicates PROVE EffectInv' /\ GoneInv'
  <2>1. EffectInv /\ GoneInv
    BY <1>5 DEF TargetKept
  <2>2. CASE on[c] \in seen
    BY <1>1, <1>3, <1>5, <2>1, <2>2 DEF TargetWrites, KeyOf, target, calls, EffectInv, GoneInv
  <2>3. CASE on[c] \notin seen
    <3>1. /\ seen' = seen \cup {on[c]}
          /\ effects' = [effects EXCEPT ![on[c]] = @ + 1]
          /\ resource' = [resource EXCEPT ![on[c]] = "live"]
      BY <2>3 DEF TargetWrites, KeyOf
    <3>2. effects[on[c]] = 0 /\ resource[on[c]] = "none"
      BY <1>2, <2>1, <2>3 DEF EffectInv
    <3>3. EffectInv'
      BY <1>2, <2>1, <3>1, <3>2 DEF EffectInv, IInv, TypeOK
    <3>4. \A d \in Calls : op[d] = "undo" /\ wire'[d] = "accepted" =>
                             wire[d] = "accepted" /\ on[d] # on[c]
      BY <1>1, <1>3, <2>1, <3>2 DEF GoneInv
    <3>5. GoneInv'
      BY <1>1, <2>1, <3>1, <3>4 DEF GoneInv, IInv, TypeOK, calls
    <3>6. QED
      BY <3>3, <3>5
  <2>4. QED
    BY <2>2, <2>3
<1>6. QED
  BY <1>4, <1>5 DEF TargetKept

\* The target deletes the resource, or does nothing.
LEMMA TargetObeys ==
  ASSUME IInv, TargetKept, NEW c \in Calls,
         TargetDeletes(c) \/ \E answer \in {"refused", "redirected"} : TargetDeclines(c, answer)
  PROVE  TargetKept'
<1>1. PICK answer \in {"accepted", "refused", "redirected"} :
        /\ wire[c] = "travelling" /\ wire' = [wire EXCEPT ![c] = answer]
        /\ UNCHANGED <<compensated, calls, seen, effects>>
        /\ answer = "accepted" =>
             /\ op[c] = "undo" /\ resource[on[c]] = "live"
             /\ resource' = [resource EXCEPT ![on[c]] = "gone"]
        /\ answer # "accepted" => resource' = resource
  <2>1. CASE TargetDeletes(c)
    BY <2>1 DEF TargetDeletes, rows
  <2>2. CASE \E answer \in {"refused", "redirected"} : TargetDeclines(c, answer)
    BY <2>2 DEF TargetDeclines, rows, target
  <2>3. QED
    BY <2>1, <2>2
<1>2. /\ wire'[c] = answer
      /\ \A d \in Calls : d # c => wire'[d] = wire[d]
  BY <1>1 DEF IInv, TypeOK
<1>3. MarkInv'
  BY <1>1, <1>2 DEF TargetKept, MarkInv, IInv, CallInv, calls
<1>4. on[c] \in Requests
  BY <1>1 DEF IInv, CallInv
<1>5. \A r \in Requests : resource'[r] # resource[r] => r = on[c] /\ resource[r] = "live"
                                                       /\ resource'[r] = "gone"
  BY <1>1 DEF IInv, TypeOK
<1>6. answer = "accepted" => resource'[on[c]] = "gone"
  BY <1>1, <1>4 DEF IInv, TypeOK
<1>7. ASSUME Deduplicates PROVE EffectInv' /\ GoneInv'
  <2>1. EffectInv'
    BY <1>1, <1>5, <1>7 DEF TargetKept, EffectInv
  <2>2. ASSUME NEW d \in Calls, op'[d] = "undo", wire'[d] = "accepted"
        PROVE  resource'[on'[d]] = "gone"
    <3>1. on'[d] = on[d] /\ op[d] = "undo" /\ (d # c => wire[d] = "accepted")
      BY <1>1, <1>2, <2>2 DEF calls
    <3>2. CASE d = c
      BY <1>2, <1>6, <2>2, <3>1, <3>2
    <3>3. CASE d # c
      <4>1. on[d] \in Requests /\ resource[on[d]] = "gone"
        BY <1>7, <3>1, <3>3 DEF TargetKept, GoneInv, IInv, CallInv
      <4>2. QED
        BY <1>5, <3>1, <4>1
    <3>4. QED
      BY <3>2, <3>3
  <2>3. QED
    BY <2>1, <2>2 DEF GoneInv
<1>8. QED
  BY <1>3, <1>7 DEF TargetKept

LEMMA TargetStep == IInv /\ TargetKept /\ [Next]_vars => TargetKept'
<1> SUFFICES ASSUME IInv, TargetKept, [Next]_vars PROVE TargetKept'
  OBVIOUS
<1>0. \A c \in Calls : phase[c] = "undone" => wire[c] \in {"accepted", "redirected"}
  BY DEF TargetKept, MarkInv
<1>1. CASE UNCHANGED vars
  BY <1>0, <1>1, TargetUntouched DEF vars, rows, calls
<1>2. CASE World
  <2>1. ASSUME NEW r \in Requests, NEW u \in Users, Propose(r, u) PROVE TargetKept'
    BY <1>0, <2>1, TargetUntouched DEF Propose, calls
  <2>2. ASSUME NEW r \in Requests, Expire(r) PROVE TargetKept'
    BY <1>0, <2>2, TargetUntouched DEF Expire, calls, rows
  <2>3. ASSUME NEW s \in {"ready", "unusable", "blocked"}, EditConnector(s) PROVE TargetKept'
    BY <1>0, <2>3, TargetUntouched DEF EditConnector, calls, rows
  <2>4. ASSUME NEW c \in Calls, NEW u \in Users, NEW r \in Requests, NEW o \in Operations,
               Call(c, u, r, o)
        PROVE  TargetKept'
    <3>1. /\ UNCHANGED <<target, compensated, wire>> /\ wire[c] = "unsent"
          /\ \A d \in Calls : d # c => op'[d] = op[d] /\ on'[d] = on[d] /\ phase'[d] = phase[d]
          /\ phase'[c] = "waiting"
      BY <2>4 DEF Call, rows, IInv, TypeOK, CallInv
    <3>2. QED
      BY <1>0, <3>1, TargetUntouched
  <2>5. QED
    BY <1>2, <2>1, <2>2, <2>3, <2>4 DEF World
<1>3. ASSUME NEW c \in Calls, Serve(c) \/ Abort(c) PROVE TargetKept'
  <2>1. CASE Send(c) \/ SendDelete(c)
    BY <2>1, TargetAddressed
  <2>2. CASE Commit(c)
    BY <2>2, TargetMarked
  <2>3. CASE DeleteSucceeds(c)
    <3>1. \A d \in Calls : phase'[d] = "undone" => wire[d] \in {"accepted", "redirected"}
      BY <1>0, <2>3 DEF DeleteSucceeds, IInv, TypeOK
    <3>2. QED
      BY <2>3, <3>1, TargetUntouched DEF DeleteSucceeds, rows
  <2>4. CASE ~Send(c) /\ ~SendDelete(c) /\ ~Commit(c) /\ ~DeleteSucceeds(c)
    <3>1. /\ UNCHANGED <<target, compensated, wire, op, on>>
          /\ \E p \in {"answered", "aborted", "approved", "executed", "rejected"} :
               phase' = [phase EXCEPT ![c] = p]
      BY <1>3, <2>4 DEF Serve, Refuse, LockTimeout, ApproveExpired, RecordApproval,
         ExecuteExpired, ExecuteWithoutConnector, ExecuteBlocked, ReadSuccess, ReadRefusal,
         SendFails, RecordRejection, DeleteFails, FailWith, Hold, End, Abort, rows
    <3>2. \A d \in Calls : phase'[d] = "undone" => phase[d] = "undone"
      BY <3>1 DEF IInv, TypeOK
    <3>3. QED
      BY <1>0, <3>1, <3>2, TargetUntouched
  <2>5. QED
    BY <2>1, <2>2, <2>3, <2>4
<1>4. ASSUME NEW c \in Calls, Target(c) PROVE TargetKept'
  BY <1>4, TargetPerforms, TargetObeys DEF Target
<1>5. QED
  BY <1>1, <1>2, <1>3, <1>4 DEF Next

LEMMA TargetInvariance == Spec => []TargetKept
BY TargetStart, TargetStep, Invariance, PTL DEF Spec

\* A target that honours the Idempotency-Key performs a proposal's write once at
\* most, with whatever rollbacks, repetitions and late messages.
THEOREM PerformedOnce == Spec => []OneEffect
<1>1. TargetKept => OneEffect
  <2> SUFFICES ASSUME TargetKept, Deduplicates, NEW r \in Requests PROVE effects[r] <= 1
    BY DEF OneEffect
  <2>1. effects[r] = 0 \/ effects[r] = 1
    BY DEF TargetKept, EffectInv
  <2>2. QED
    BY <2>1
<1>2. QED
  BY <1>1, TargetInvariance, PTL

\* What is recorded as undone is gone and stays gone, unless a redirect was taken
\* for success.
THEOREM UndoingIsFinal == Spec => []UndoneIsGone
<1>1. TargetKept => UndoneIsGone
  <2> SUFFICES ASSUME TargetKept, Deduplicates, NEW r \in Requests, compensated[r],
                      resource[r] # "gone"
               PROVE  \E c \in Calls : op[c] = "undo" /\ on[c] = r /\ wire[c] = "redirected"
    BY DEF UndoneIsGone
  <2>1. PICK c \in Calls : op[c] = "undo" /\ on[c] = r /\ wire[c] \in {"accepted", "redirected"}
    BY DEF TargetKept, MarkInv
  <2>2. wire[c] # "accepted"
    BY <2>1 DEF TargetKept, GoneInv
  <2>3. QED
    BY <2>1, <2>2
<1>2. QED
  BY <1>1, TargetInvariance, PTL
===============================================================================
