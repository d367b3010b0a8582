------------------------------ MODULE PartsProofs ------------------------------
(***************************************************************************)
(* Accounts, TrainingProfiles, ProxyTokens and IngestJobs, for any users,  *)
(* records, requests, exchanges and jobs; and that exploring each with the *)
(* others at rest shows behaviours of theirs.                              *)
(***************************************************************************)
EXTENDS MCParts, FiniteSetTheorems, TLAPS

(***************************************************************************)
(* Accounts: an admin remains.                                             *)
(***************************************************************************)

Removing(e) == Removes(edit[e])
Lone == \A e, f \in Edits : Removing(e) /\ Removing(f) => e = f

\* A new user's row is nobody's until it is there; other edits that have read
\* their user's row do so once it is.
Fresh ==
  /\ \A e \in Edits : edit[e] # NoEdit /\ edit[e].op = "create" =>
       /\ edit[e].at \in {"writing", "written"} /\ role[edit[e].on] = "unused"
       /\ edit[e].to \in KnownRoles
       /\ \A f \in Edits \ {e} :
            edit[f] # NoEdit /\ edit[f].op = "create" => edit[f].on # edit[e].on
  /\ \A e \in Edits : edit[e] # NoEdit /\ edit[e].op # "create" /\ edit[e].at # "reading" =>
       role[edit[e].on] # "unused"

\* Past the count, there is an admin besides the one who may lose the role.
Spare ==
  \A e \in Edits : Removing(e) /\ edit[e].at \in {"writing", "written"} =>
    \E u \in Users \ {edit[e].on} : role[u] = "admin"

AccountsInv ==
  /\ AccountsTypeOK /\ Fresh
  /\ ~raced => Lone /\ Spare /\ \E u \in Users : role[u] = "admin"

LEMMA AccountsInvInit == AccountsInit => AccountsInv
<1> SUFFICES ASSUME AccountsInit PROVE AccountsInv
    OBVIOUS
<1> USE AccountsAssumption DEF AccountsInit
<1>1. AccountsTypeOK
    BY DEF AccountsTypeOK, KnownRoles
<1>2. \A e \in Edits : edit[e] = NoEdit /\ ~Removing(e)
    BY DEF Removing, Removes, NoEdit
<1>3. role[FirstAdmin] = "admin"
    OBVIOUS
<1> QED BY <1>1, <1>2, <1>3 DEF AccountsInv, Fresh, Lone, Spare

LEMMA RequestTypes ==
  ASSUME AccountsTypeOK, NEW r \in Requests
  PROVE  /\ r \in [at: {"reading", "writing"}, own: BOOLEAN, op: {"create", "update", "delete"},
                   on: Users, to: KnownRoles \cup {"gone"}]
         /\ r.op = "create" => r.at = "writing" /\ role[r.on] = "unused" /\ r.to \in KnownRoles
         /\ r.op # "create" => r.at = "reading"
<1> USE DEF GrantableRoles, KnownRoles, AccountsTypeOK
<1>1. CASE \E u \in Users, to \in KnownRoles : role[u] = "unused" /\
        r = [at |-> "writing", own |-> FALSE, op |-> "create", on |-> u, to |-> to]
    BY <1>1
<1>2. CASE \E b \in tokens, u \in Users, to \in KnownRoles :
        r = [at |-> "reading", own |-> b = u, op |-> "update", on |-> u, to |-> to]
    BY <1>2
<1>3. CASE \E b \in tokens, u \in Users :
        r = [at |-> "reading", own |-> b = u, op |-> "delete", on |-> u, to |-> "gone"]
    BY <1>3
<1> QED BY <1>1, <1>2, <1>3 DEF Requests

LEMMA AccountsTypeStep == AccountsTypeOK /\ [AccountsNext]_accountsVars => AccountsTypeOK'
<1> SUFFICES ASSUME AccountsTypeOK, [AccountsNext]_accountsVars PROVE AccountsTypeOK'
    OBVIOUS
<1> USE DEF AccountsTypeOK
<1>1. ASSUME NEW u \in Users, SignIn(u) \/ Expire(u) PROVE AccountsTypeOK'
    BY <1>1 DEF SignIn, Expire
<1>2. ASSUME NEW e \in Edits, BeginEdit(e) PROVE AccountsTypeOK'
    BY <1>2, RequestTypes DEF BeginEdit, Removes
<1>3. ASSUME NEW e \in Edits, edit[e] # NoEdit,
             Leave(e) \/ \E at \in {"counting", "writing", "written"} : Proceed(e, at)
      PROVE AccountsTypeOK'
    BY <1>3 DEF Leave, Proceed
<1>4. ASSUME NEW e \in Edits, ReadUser(e) \/ CountAdmins(e) \/ WriteUser(e) \/ RollBackEdit(e)
      PROVE AccountsTypeOK'
    BY <1>3, <1>4 DEF ReadUser, CountAdmins, WriteUser, RollBackEdit, NoEdit
<1>5. ASSUME NEW e \in Edits, CommitEdit(e) PROVE AccountsTypeOK'
    BY <1>5 DEF CommitEdit, NoEdit
<1>6. CASE UNCHANGED accountsVars
    BY <1>6 DEF accountsVars
<1> QED BY <1>1, <1>2, <1>4, <1>5, <1>6 DEF AccountsNext

LEMMA BeginStep == ASSUME AccountsInv, NEW e \in Edits, BeginEdit(e) PROVE AccountsInv'
<1> USE DEF AccountsInv
<1>1. PICK r \in Requests :
        /\ edit' = [edit EXCEPT ![e] = r]
        /\ r.op = "create" => \A f \in Edits : edit[f] # NoEdit => edit[f].on # r.on
        /\ raced' = (raced \/ (Removes(r) /\ \E f \in Edits : Removes(edit[f])))
    BY DEF BeginEdit
<1>2. edit[e] = NoEdit /\ role' = role
    BY DEF BeginEdit
<1>3. AccountsTypeOK'
    BY AccountsTypeStep DEF AccountsNext
<1>4. /\ edit'[e] = r /\ r # NoEdit
      /\ \A f \in Edits \ {e} : edit'[f] = edit[f]
    BY <1>1, RequestTypes DEF AccountsTypeOK, NoEdit
<1>5. Fresh'
  <2>1. ASSUME NEW f \in Edits, (edit[f] # NoEdit /\ edit[f].op = "create")'
        PROVE /\ (edit[f].at \in {"writing", "written"} /\ role[edit[f].on] = "unused")'
              /\ (edit[f].to \in KnownRoles)'
      BY <2>1, <1>2, <1>4, RequestTypes DEF Fresh
  <2>2. ASSUME NEW f \in Edits, NEW g \in Edits \ {f},
               (edit[f] # NoEdit /\ edit[f].op = "create")',
               (edit[g] # NoEdit /\ edit[g].op = "create")'
        PROVE (edit[g].on # edit[f].on)'
      BY <2>2, <1>1, <1>4 DEF Fresh
  <2>3. ASSUME NEW f \in Edits, (edit[f] # NoEdit /\ edit[f].op # "create" /\ edit[f].at # "reading")'
        PROVE (role[edit[f].on] # "unused")'
      BY <2>3, <1>2, <1>4, RequestTypes DEF Fresh
  <2> QED BY <2>1, <2>2, <2>3 DEF Fresh
<1>6. ASSUME ~raced' PROVE (Lone /\ Spare /\ \E u \in Users : role[u] = "admin")'
  <2>1. Lone'
      BY <1>1, <1>4, <1>6 DEF Lone, Removing
  <2>2. Spare'
    <3>1. ASSUME NEW f \in Edits, (Removing(f) /\ edit[f].at \in {"writing", "written"})'
          PROVE f # e /\ Removing(f) /\ edit'[f] = edit[f]
        BY <3>1, <1>4, RequestTypes DEF Removing, Removes
    <3> QED BY <3>1, <1>1, <1>2, <1>6 DEF Spare
  <2>3. (\E u \in Users : role[u] = "admin")'
      BY <1>1, <1>2, <1>6
  <2> QED BY <2>1, <2>2, <2>3
<1> QED BY <1>3, <1>5, <1>6

LEMMA LeaveStep == ASSUME AccountsInv, NEW e \in Edits, edit[e] # NoEdit, Leave(e) PROVE AccountsInv'
<1> USE DEF AccountsInv
<1>1. AccountsTypeOK'
    BY AccountsTypeStep DEF AccountsNext, RollBackEdit
<1>2. /\ role' = role /\ raced' = raced
      /\ edit'[e] = NoEdit /\ ~Removing(e)'
      /\ \A f \in Edits \ {e} : edit'[f] = edit[f] /\ Removing(f)' = Removing(f)
    BY DEF Leave, AccountsTypeOK, Removing, Removes, NoEdit
<1>3. Fresh'
    BY <1>2 DEF Fresh
<1>4. ~raced' => (Lone /\ Spare)'
    BY <1>2 DEF Lone, Spare
<1> QED BY <1>1, <1>2, <1>3, <1>4

LEMMA ProceedStep ==
  ASSUME AccountsInv, NEW e \in Edits, NEW at \in {"counting", "writing", "written"},
         edit[e] # NoEdit, Proceed(e, at),
         edit[e].op = "create" => at = "written",
         edit[e].op # "create" => role[edit[e].on] # "unused",
         Removing(e) /\ at \in {"writing", "written"} /\ ~raced =>
           \E u \in Users \ {edit[e].on} : role[u] = "admin"
  PROVE  AccountsInv'
<1> USE DEF AccountsInv
<1>1. edit[e] \in [at: {"reading", "counting", "writing", "written"}, own: BOOLEAN,
                   op: {"create", "update", "delete"}, on: Users, to: KnownRoles \cup {"gone"}]
    BY DEF AccountsTypeOK
<1>2. /\ role' = role /\ raced' = raced /\ tokens' = tokens
      /\ edit' = [edit EXCEPT ![e] = [edit[e] EXCEPT !.at = at]]
    BY DEF Proceed
<1>3. AccountsTypeOK'
    BY <1>1, <1>2 DEF AccountsTypeOK
<1>4. /\ edit'[e] # NoEdit /\ edit'[e].at = at /\ edit'[e].op = edit[e].op
      /\ edit'[e].on = edit[e].on /\ edit'[e].to = edit[e].to
      /\ \A f \in Edits \ {e} : edit'[f] = edit[f]
    BY <1>1, <1>2 DEF AccountsTypeOK, NoEdit
<1>5. \A f \in Edits : Removing(f)' = Removing(f)
    BY <1>1, <1>4 DEF Removing, Removes
<1>6. Fresh'
    BY <1>2, <1>4 DEF Fresh
<1>7. ~raced' => (Lone /\ Spare)'
    BY <1>2, <1>4, <1>5 DEF Lone, Spare
<1> QED BY <1>2, <1>3, <1>6, <1>7

LEMMA CommitStep == ASSUME AccountsInv, NEW e \in Edits, CommitEdit(e) PROVE AccountsInv'
<1> USE DEF AccountsInv
<1>1. AccountsTypeOK'
    BY AccountsTypeStep DEF AccountsNext
<1>2. edit[e] # NoEdit /\ edit[e].on \in Users /\ edit[e].to \in KnownRoles \cup {"gone"}
    BY DEF CommitEdit, AccountsTypeOK, NoEdit
<1>3. /\ role' = [role EXCEPT ![edit[e].on] = edit[e].to] /\ raced' = raced
      /\ edit'[e] = NoEdit /\ ~Removing(e)'
      /\ \A f \in Edits \ {e} : edit'[f] = edit[f] /\ Removing(f)' = Removing(f)
    BY DEF CommitEdit, AccountsTypeOK, Removing, Removes, NoEdit
<1>4. role'[edit[e].on] # "unused" /\ \A u \in Users \ {edit[e].on} : role'[u] = role[u]
    BY <1>2, <1>3 DEF AccountsTypeOK, KnownRoles
<1>5. ASSUME NEW f \in Edits, edit[f] # NoEdit, edit[f].op = "create", f # e
      PROVE edit[f].on # edit[e].on
  <2>1. CASE edit[e].op = "create"
      BY <2>1, <1>2, <1>5 DEF Fresh
  <2>2. CASE edit[e].op # "create"
      BY <2>2, <1>2, <1>5 DEF Fresh, CommitEdit
  <2> QED BY <2>1, <2>2
<1>6. Fresh'
  <2>1. \A f \in Edits : edit'[f] # NoEdit => f # e /\ edit'[f] = edit[f] /\ edit[f].on \in Users
      BY <1>3 DEF AccountsTypeOK
  <2>2. \A f \in Edits : (edit[f] # NoEdit /\ edit[f].op = "create")' =>
          /\ (edit[f].at \in {"writing", "written"} /\ role[edit[f].on] = "unused")'
          /\ (edit[f].to \in KnownRoles)'
          /\ \A g \in Edits \ {f} :
               (edit[g] # NoEdit /\ edit[g].op = "create")' => (edit[g].on # edit[f].on)'
      BY <2>1, <1>4, <1>5 DEF Fresh
  <2>3. \A f \in Edits :
          (edit[f] # NoEdit /\ edit[f].op # "create" /\ edit[f].at # "reading")' =>
            (role[edit[f].on] # "unused")'
      BY <2>1, <1>4 DEF Fresh
  <2> QED BY <2>2, <2>3 DEF Fresh
<1>7. ASSUME ~raced' PROVE (Lone /\ Spare /\ \E u \in Users : role[u] = "admin")'
  <2>1. Lone'
      BY <1>3, <1>7 DEF Lone
  <2>2. CASE Removing(e)
    <3>1. \A f \in Edits : ~Removing(f)'
        BY <2>2, <1>3, <1>7 DEF Lone
    <3>2. \E u \in Users \ {edit[e].on} : role[u] = "admin"
        BY <2>2, <1>3, <1>7 DEF Spare, CommitEdit
    <3> QED BY <3>1, <3>2, <1>4, <2>1 DEF Spare
  <2>3. CASE ~Removing(e)
    <3>1. \A u \in Users : role[u] = "admin" => role'[u] = "admin"
      <4>1. CASE edit[e].op = "create"
          BY <4>1, <1>2, <1>4 DEF Fresh
      <4>2. CASE edit[e].op # "create"
          BY <4>2, <2>3, <1>2, <1>3, <1>4 DEF Removing, Removes, CommitEdit, AccountsTypeOK
      <4> QED BY <4>1, <4>2
    <3> QED BY <3>1, <2>1, <1>3, <1>7 DEF Spare
  <2> QED BY <2>2, <2>3
<1> QED BY <1>1, <1>6, <1>7

\* More than one admin: one besides this user.
LEMMA AnotherAdmin ==
  ASSUME NEW u, ~(Cardinality(Admins) <= 1)
  PROVE  \E v \in Users \ {u} : role[v] = "admin"
<1> SUFFICES ASSUME \A v \in Users \ {u} : role[v] # "admin" PROVE FALSE
    OBVIOUS
<1>1. Admins \subseteq {u}
    BY DEF Admins
<1>2. IsFiniteSet({u}) /\ Cardinality({u}) = 1
    BY FS_Singleton
<1>3. Cardinality(Admins) \in Nat /\ Cardinality(Admins) <= 1
    BY <1>1, <1>2, FS_Subset, FS_CardinalityType
<1> QED BY <1>3

LEMMA AccountsInvStep == AccountsInv /\ [AccountsNext]_accountsVars => AccountsInv'
<1> SUFFICES ASSUME AccountsInv, [AccountsNext]_accountsVars PROVE AccountsInv'
    OBVIOUS
<1>1. ASSUME NEW u \in Users, SignIn(u) \/ Expire(u) PROVE AccountsInv'
  <2>1. AccountsTypeOK' /\ role' = role /\ edit' = edit /\ raced' = raced
      BY <1>1, AccountsTypeStep DEF AccountsInv, AccountsNext, SignIn, Expire
  <2> QED BY <2>1 DEF AccountsInv, Fresh, Lone, Spare, Removing
<1>2. ASSUME NEW e \in Edits, ReadUser(e) PROVE AccountsInv'
  <2>1. edit[e] # NoEdit /\ edit[e].op # "create"
      BY <1>2 DEF ReadUser, NoEdit, AccountsInv, Fresh
  <2>2. CASE ~Present(edit[e].on) \/ OwnGoal(edit[e])
      BY <1>2, <2>1, <2>2, LeaveStep DEF ReadUser
  <2>3. CASE Present(edit[e].on) /\ LosesAdmin(edit[e]) /\ ~OwnGoal(edit[e])
      BY <1>2, <2>1, <2>3, ProceedStep DEF ReadUser, Present, KnownRoles
  <2>4. CASE Present(edit[e].on) /\ ~LosesAdmin(edit[e]) /\ ~OwnGoal(edit[e])
    <3>1. Proceed(e, "writing") /\ role[edit[e].on] # "unused"
        BY <1>2, <2>4 DEF ReadUser, Present, KnownRoles
    <3>2. Removing(e) /\ ~raced => \E u \in Users \ {edit[e].on} : role[u] = "admin"
        BY <2>4 DEF AccountsInv, LosesAdmin, Removing, Removes
    <3> QED BY <3>1, <3>2, <2>1, ProceedStep
  <2> QED BY <2>2, <2>3, <2>4
<1>3. ASSUME NEW e \in Edits, CountAdmins(e) PROVE AccountsInv'
  <2>1. edit[e] # NoEdit /\ edit[e].op # "create" /\ role[edit[e].on] # "unused"
      BY <1>3 DEF CountAdmins, NoEdit, AccountsInv, Fresh
  <2> QED BY <1>3, <2>1, LeaveStep, ProceedStep, AnotherAdmin DEF CountAdmins
<1>4. ASSUME NEW e \in Edits, WriteUser(e) PROVE AccountsInv'
  <2>1. edit[e] # NoEdit /\ (edit[e].op # "create" => role[edit[e].on] # "unused")
      BY <1>4 DEF WriteUser, NoEdit, AccountsInv, Fresh
  <2>2. Removing(e) /\ ~raced => \E u \in Users \ {edit[e].on} : role[u] = "admin"
      BY <1>4 DEF WriteUser, AccountsInv, Spare
  <2> QED BY <1>4, <2>1, <2>2, LeaveStep, ProceedStep DEF WriteUser
<1>5. CASE UNCHANGED accountsVars
    BY <1>5 DEF accountsVars, AccountsInv, AccountsTypeOK, Fresh, Lone, Spare, Removing
<1> QED BY <1>1, <1>2, <1>3, <1>4, <1>5, BeginStep, CommitStep, LeaveStep DEF AccountsNext, RollBackEdit

\* The inductive invariant of the accounts.
THEOREM AccountsInvariance == AccountsSpec => []AccountsInv
BY AccountsInvInit, AccountsInvStep, PTL DEF AccountsSpec

\* However many users and edits there are: a tenant that has an admin keeps one
\* (users.py:20), unless two edits that may take the role away overlap.
THEOREM AdminsRemain == AccountsSpec => []AnAdminRemains
<1>1. AccountsInv => AnAdminRemains
    BY DEF AccountsInv, AnAdminRemains, Admins
<1> QED BY <1>1, AccountsInvariance, PTL

(***************************************************************************)
(* TrainingProfiles: one active record, and no return from retirement.     *)
(***************************************************************************)

Activating(q) == Open(q, "activate")
Submitting(q) == Open(q, "submit")

\* Where each kind of request can be.
Places ==
  \A q \in Posts : post[q] # NoPost =>
    /\ post[q].op = "submit" => post[q].at \in {"writing", "written"}
    /\ post[q].op = "activate" => post[q].at \in {"finding", "sweeping", "written"}
    /\ post[q].at # "sweeping" => post[q].targets = {}
    /\ post[q].at \in {"writing", "finding"} => post[q].swept = {}
    /\ post[q].op = "submit" => post[q].swept = {}

\* A row belongs to one transaction at most, and stays as that one found it.
Locks ==
  /\ \A p, q \in Posts : \A r \in Records : Holds(p, r) /\ Holds(q, r) => p = q
  /\ \A q \in Posts : post[q] # NoPost => post[q].swept \subseteq Active
  /\ \A q \in Posts : post[q].at = "written" => status[post[q].on] \in Statuses

\* One activation at a time: what it has not swept it will, and its record waits.
Alone ==
  /\ \A p, q \in Posts : Activating(p) /\ Activating(q) => p = q
  /\ \A q \in Posts : Activating(q) /\ post[q].at # "finding" =>
       Active \subseteq post[q].targets \cup post[q].swept
  /\ \A q \in Posts : Activating(q) => status[post[q].on] \in {"review_required", "gone"}
  /\ \A r, s \in Active : r = s

\* A submission's record is as it was, if no activation has outrun it.
Waiting ==
  \A q \in Posts : Submitting(q) /\ post[q].on \notin outrun =>
    status[post[q].on] \in Pending \cup {"gone"}

TrainingInv == TrainingTypeOK /\ Places /\ Locks /\ (~rivals => Alone /\ Waiting)

LEMMA TrainingInvInit == TrainingInit => TrainingInv
<1> SUFFICES ASSUME TrainingInit PROVE TrainingInv
    OBVIOUS
<1>1. TrainingTypeOK /\ Active = {} /\ \A q \in Posts : post[q] = NoPost
    BY DEF TrainingInit, TrainingTypeOK, Active
<1> QED BY <1>1 DEF TrainingInv, Places, Locks, Alone, Waiting, Holds, Activating, Submitting, Open, NoPost

PostRecord ==
  [at: {"writing", "finding", "sweeping", "written"}, op: {"submit", "activate"},
   on: Records, targets: SUBSET Records, swept: SUBSET Records]

LEMMA PostTypes ==
  ASSUME TrainingTypeOK, NEW q \in Posts, post[q] # NoPost
  PROVE  /\ post[q] \in PostRecord
         /\ post[q].op \in {"submit", "activate"} /\ post[q].on \in Records
         /\ post[q].targets \subseteq Records /\ post[q].swept \subseteq Records
<1>1. post[q] \in PostRecord
    BY DEF TrainingTypeOK, PostRecord
<1> QED BY <1>1 DEF PostRecord

LEMMA Updates ==
  ASSUME NEW x \in PostRecord, NEW a \in {"sweeping", "written"},
         NEW T \in SUBSET Records, NEW W \in SUBSET Records
  PROVE  /\ [x EXCEPT !.at = a] \in PostRecord
         /\ [x EXCEPT !.at = a, !.targets = T] \in PostRecord
         /\ [x EXCEPT !.targets = T, !.swept = W] \in PostRecord
<1>1. ASSUME NEW A, NEW P, NEW R, NEW X, NEW y \in [at: A, op: P, on: R, targets: X, swept: X],
             NEW b \in A, NEW U \in X, NEW V \in X
      PROVE  /\ [y EXCEPT !.at = b] \in [at: A, op: P, on: R, targets: X, swept: X]
             /\ [y EXCEPT !.at = b, !.targets = U] \in [at: A, op: P, on: R, targets: X, swept: X]
             /\ [y EXCEPT !.targets = U, !.swept = V] \in [at: A, op: P, on: R, targets: X, swept: X]
    OBVIOUS
<1> QED BY <1>1 DEF PostRecord

\* What a request's next step makes of it: where it is, and which rows it has.
Moved(q, at, T, W) ==
  /\ post' \in [Posts -> {NoPost} \cup PostRecord]
  /\ post'[q] # NoPost /\ post'[q].at = at /\ post'[q].op = post[q].op /\ post'[q].on = post[q].on
  /\ post'[q].targets = T /\ post'[q].swept = W
  /\ \A p \in Posts \ {q} : post'[p] = post[p]

LEMMA Replaced ==
  ASSUME TrainingTypeOK, NEW q \in Posts, NEW x \in PostRecord, post' = [post EXCEPT ![q] = x],
         x.at # "none", x.op = post[q].op, x.on = post[q].on
  PROVE  Moved(q, x.at, x.targets, x.swept)
<1>1. post \in [Posts -> {NoPost} \cup PostRecord]
    BY DEF TrainingTypeOK, PostRecord
<1>2. x # NoPost
    BY DEF NoPost
<1> QED BY <1>1, <1>2 DEF Moved

LEMMA SupersedeMoves ==
  ASSUME TrainingTypeOK, NEW q \in Posts, NEW r \in Records, Supersede(q, r)
  PROVE  /\ post[q] # NoPost
         /\ Moved(q, "sweeping", post[q].targets \ {r}, post[q].swept \cup ({r} \cap Active))
<1>1. post[q] # NoPost /\ post[q].at = "sweeping"
    BY DEF Supersede, NoPost
<1> DEFINE T == post[q].targets \ {r}
           W == post[q].swept \cup ({r} \cap Active)
           x == [post[q] EXCEPT !.targets = T, !.swept = W]
<1>2. post[q] \in PostRecord /\ T \in SUBSET Records /\ W \in SUBSET Records
    BY <1>1, PostTypes
<1>3. post' = [post EXCEPT ![q] = x]
    BY DEF Supersede
<1>4. x.at = "sweeping" /\ x.op = post[q].op /\ x.on = post[q].on /\ x.targets = T /\ x.swept = W
    BY <1>1, <1>2 DEF PostRecord
<1> HIDE DEF T, W
<1>5. x \in PostRecord
    BY <1>2, Updates
<1> HIDE DEF x
<1>6. Moved(q, "sweeping", T, W)
    BY <1>3, <1>4, <1>5, Replaced
<1> QED BY <1>1, <1>6 DEF T, W

LEMMA FindMoves ==
  ASSUME TrainingTypeOK, NEW q \in Posts, FindActive(q)
  PROVE  post[q] # NoPost /\ Moved(q, "sweeping", Active, post[q].swept)
<1>1. post[q] # NoPost
    BY DEF FindActive, NoPost
<1>2. PICK x : x = [post[q] EXCEPT !.at = "sweeping", !.targets = Active]
    OBVIOUS
<1>3. x \in PostRecord
  <2>1. Active \in SUBSET Records
      BY DEF Active
  <2> QED BY <1>1, <1>2, <2>1, PostTypes, Updates
<1>4. /\ x.at = "sweeping" /\ x.op = post[q].op /\ x.on = post[q].on
      /\ x.targets = Active /\ x.swept = post[q].swept
    BY <1>1, <1>2, PostTypes DEF PostRecord
<1>5. post' = [post EXCEPT ![q] = x]
    BY <1>2 DEF FindActive
<1> QED BY <1>1, <1>3, <1>4, <1>5, Replaced

LEMMA WriteMoves ==
  ASSUME TrainingTypeOK, NEW q \in Posts, WriteRecord(q)
  PROVE  /\ post[q] # NoPost
         /\ IF status[post[q].on] \in Statuses
              THEN Moved(q, "written", post[q].targets, post[q].swept)
              ELSE post' = [post EXCEPT ![q] = NoPost]
<1>1. post[q] # NoPost
    BY DEF WriteRecord, NoPost
<1>2. PICK x : x = [post[q] EXCEPT !.at = "written"]
    OBVIOUS
<1>3. x \in PostRecord
    BY <1>1, <1>2, PostTypes, Updates
<1>4. /\ x.at = "written" /\ x.op = post[q].op /\ x.on = post[q].on
      /\ x.targets = post[q].targets /\ x.swept = post[q].swept
    BY <1>1, <1>2, PostTypes DEF PostRecord
<1>5. post' = [post EXCEPT ![q] = IF status[post[q].on] \in Statuses THEN x ELSE NoPost]
    BY <1>2 DEF WriteRecord
<1> QED BY <1>1, <1>3, <1>4, <1>5, Replaced

LEMMA TrainingTypeStep == TrainingTypeOK /\ [TrainingNext]_trainingVars => TrainingTypeOK'
<1> DEFINE Goal ==
      /\ status' \in [Records -> Statuses \cup {"unused", "gone"}]
      /\ post' \in [Posts -> {NoPost} \cup PostRecord]
      /\ rivals' \in BOOLEAN /\ outrun' \subseteq Records
<1> SUFFICES ASSUME TrainingTypeOK, [TrainingNext]_trainingVars PROVE Goal
    BY DEF TrainingTypeOK, PostRecord
<1>a. /\ status \in [Records -> Statuses \cup {"unused", "gone"}]
      /\ post \in [Posts -> {NoPost} \cup PostRecord]
      /\ rivals \in BOOLEAN /\ outrun \subseteq Records
    BY DEF TrainingTypeOK, PostRecord
<1>1. ASSUME NEW r \in Records, CreateRecord(r) \/ Forget(r) PROVE Goal
    BY <1>1, <1>a DEF CreateRecord, Forget, Statuses
<1>2. ASSUME NEW q \in Posts, NEW r \in Records, ReadToSubmit(q, r) \/ ReadToActivate(q, r)
      PROVE Goal
  <2>1. \A at \in {"writing", "finding"}, op \in {"submit", "activate"} :
          [at |-> at, op |-> op, on |-> r, targets |-> {}, swept |-> {}] \in PostRecord
      BY <1>2 DEF PostRecord
  <2>2. post' \in [Posts -> {NoPost} \cup PostRecord]
      BY <1>2, <2>1, <1>a DEF ReadToSubmit, ReadToActivate
  <2> QED BY <1>2, <2>2, <1>a DEF ReadToSubmit, ReadToActivate, Open
<1>3. ASSUME NEW q \in Posts, NEW r \in Records, Supersede(q, r) PROVE Goal
    BY <1>3, <1>a, SupersedeMoves DEF Supersede, Moved
<1>4. ASSUME NEW q \in Posts, FindActive(q) PROVE Goal
    BY <1>4, <1>a, FindMoves DEF FindActive, Moved
<1>5. ASSUME NEW q \in Posts, WriteRecord(q) PROVE Goal
    BY <1>5, <1>a, WriteMoves DEF WriteRecord, Moved
<1>6. ASSUME NEW q \in Posts, CommitPost(q) PROVE Goal
  <2>1. status' \in [Records -> Statuses \cup {"unused", "gone"}]
      BY <1>6, <1>a DEF CommitPost, Statuses
  <2>2. post' \in [Posts -> {NoPost} \cup PostRecord] /\ rivals' = rivals
      BY <1>6, <1>a DEF CommitPost
  <2>3. outrun' \subseteq Records
      BY <1>6, <1>a DEF CommitPost
  <2> QED BY <2>1, <2>2, <2>3, <1>a
<1>7. ASSUME NEW q \in Posts, RollBackPost(q) PROVE Goal
    BY <1>7, <1>a DEF RollBackPost
<1>8. CASE UNCHANGED trainingVars
    BY <1>8, <1>a DEF trainingVars
<1> QED BY <1>1, <1>2, <1>3, <1>4, <1>5, <1>6, <1>7, <1>8 DEF TrainingNext

\* A record is created, or forgotten while nobody holds it.
LEMMA RecordStep ==
  ASSUME TrainingInv, NEW r \in Records, CreateRecord(r) \/ Forget(r)
  PROVE  TrainingInv'
<1> USE DEF TrainingInv
<1>1. TrainingTypeOK'
    BY TrainingTypeStep DEF TrainingNext
<1>2. /\ post' = post /\ rivals' = rivals /\ outrun' = outrun
      /\ \A s \in Records : s # r => status'[s] = status[s]
      /\ Active' \subseteq Active
      /\ \/ status[r] = "unused" /\ status'[r] = "prompt_ready"
         \/ status'[r] = "gone" /\ \A q \in Posts : ~Holds(q, r)
    BY DEF CreateRecord, Forget, TrainingTypeOK, Active
<1>3. \A q \in Posts, s \in Records : Holds(q, s)' = Holds(q, s)
    BY <1>2 DEF Holds
<1>4. Places'
    BY <1>2 DEF Places
<1>5. Locks'
  <2>1. ASSUME NEW q \in Posts, post[q] # NoPost, NEW s \in post[q].swept PROVE s \in Active'
      BY <2>1, <1>2, PostTypes DEF Locks, Holds, Active
  <2>2. ASSUME NEW q \in Posts, post[q].at = "written" PROVE status'[post[q].on] \in Statuses
      BY <2>2, <1>2, PostTypes DEF Locks, Holds, NoPost, Statuses
  <2> QED BY <2>1, <2>2, <1>2, <1>3 DEF Locks
<1>6. ASSUME ~rivals' PROVE Alone' /\ Waiting'
  <2>1. ~rivals /\ Alone /\ Waiting
      BY <1>2, <1>6
  <2>2. \A q \in Posts :
          /\ Activating(q)' = Activating(q) /\ Submitting(q)' = Submitting(q)
          /\ (Activating(q) \/ Submitting(q)) => (post[q] # NoPost /\ post[q].on \in Records)
      BY <1>2, PostTypes DEF Activating, Submitting, Open
  <2>3. ASSUME NEW q \in Posts, Activating(q)'
        PROVE status'[post'[q].on] \in {"review_required", "gone"}
      BY <2>1, <2>2, <2>3, <1>2 DEF Alone
  <2>4. Alone'
      BY <2>1, <2>2, <2>3, <1>2 DEF Alone
  <2>5. ASSUME NEW q \in Posts, Submitting(q)', post'[q].on \notin outrun'
        PROVE status'[post'[q].on] \in Pending \cup {"gone"}
      BY <2>1, <2>2, <2>5, <1>2 DEF Waiting, Pending
  <2>6. Waiting'
      BY <2>5 DEF Waiting
  <2> QED BY <2>4, <2>6
<1> QED BY <1>1, <1>4, <1>5, <1>6

LEMMA ReadStep ==
  ASSUME TrainingInv, NEW q \in Posts, NEW r \in Records,
         ReadToSubmit(q, r) \/ ReadToActivate(q, r)
  PROVE  TrainingInv'
<1> USE DEF TrainingInv
<1>1. TrainingTypeOK'
    BY TrainingTypeStep DEF TrainingNext
<1>2. /\ status' = status /\ outrun' = outrun /\ (~rivals' => ~rivals)
      /\ \A p \in Posts \ {q} : post'[p] = post[p]
      /\ post[q] = NoPost /\ post'[q] # NoPost /\ post'[q].on = r
      /\ post'[q].targets = {} /\ post'[q].swept = {}
      /\ \/ post'[q].at = "writing" /\ post'[q].op = "submit" /\ status[r] \in Pending
         \/ /\ post'[q].at = "finding" /\ post'[q].op = "activate" /\ status[r] = "review_required"
            /\ ~rivals' => \A p \in Posts : ~Activating(p)
  <2>1. CASE ReadToSubmit(q, r)
      BY <2>1 DEF ReadToSubmit, TrainingTypeOK, NoPost
  <2>2. CASE ReadToActivate(q, r)
      BY <2>2 DEF ReadToActivate, TrainingTypeOK, NoPost, Activating
  <2> QED BY <2>1, <2>2
<1>3. /\ \A p \in Posts, s \in Records : Holds(p, s)' => p # q /\ Holds(p, s)
      /\ Active' = Active
    BY <1>2 DEF Holds, Active
<1>4. Places'
    BY <1>2 DEF Places
<1>5. Locks'
    BY <1>2, <1>3 DEF Locks
<1>6. ASSUME ~rivals' PROVE Alone' /\ Waiting'
  <2>1. ~rivals /\ Alone /\ Waiting
      BY <1>2, <1>6
  <2>2. \A p \in Posts \ {q} : Activating(p)' = Activating(p) /\ Submitting(p)' = Submitting(p)
      BY <1>2 DEF Activating, Submitting, Open
  <2>3. CASE post'[q].op = "submit" /\ status[r] \in Pending
    <3>1. ~Activating(q)' /\ post'[q].on = r
        BY <1>2, <2>3 DEF Activating, Open
    <3> QED BY <2>1, <2>2, <2>3, <3>1, <1>2, <1>3 DEF Alone, Waiting
  <2>4. CASE /\ post'[q].op = "activate" /\ post'[q].at = "finding" /\ status[r] = "review_required"
             /\ \A p \in Posts : ~Activating(p)
    <3>1. ~Submitting(q)' /\ post'[q].on = r
        BY <1>2, <2>4 DEF Submitting, Open
    <3>2. \A p \in Posts : Activating(p)' => p = q
        BY <2>2, <2>4
    <3> QED BY <2>1, <2>2, <2>4, <3>1, <3>2, <1>2, <1>3 DEF Alone, Waiting
  <2> QED BY <1>2, <1>6, <2>3, <2>4
<1> QED BY <1>1, <1>4, <1>5, <1>6

LEMMA QuitStep ==
  ASSUME TrainingInv, NEW q \in Posts, TrainingTypeOK', post' = [post EXCEPT ![q] = NoPost],
         UNCHANGED <<status, rivals, outrun>>
  PROVE  TrainingInv'
<1> USE DEF TrainingInv
<1>1. /\ \A p \in Posts \ {q} : post'[p] = post[p]
      /\ post'[q] = NoPost /\ Active' = Active
    BY DEF TrainingTypeOK, Active
<1>2. \A p \in Posts, s \in Records : Holds(p, s)' => p # q /\ Holds(p, s)
    BY <1>1 DEF Holds
<1>3. Places'
    BY <1>1 DEF Places
<1>4. Locks'
  <2>1. post'[q].at # "written"
      BY <1>1 DEF NoPost
  <2> QED BY <1>1, <1>2, <2>1 DEF Locks
<1>5. ASSUME ~rivals' PROVE Alone' /\ Waiting'
  <2>1. Alone /\ Waiting
      BY <1>5
  <2>2. /\ \A p \in Posts \ {q} : Activating(p)' = Activating(p) /\ Submitting(p)' = Submitting(p)
        /\ ~Activating(q)' /\ ~Submitting(q)'
      BY <1>1 DEF Activating, Submitting, Open
  <2> QED BY <2>1, <2>2, <1>1 DEF Alone, Waiting
<1> QED BY <1>3, <1>4, <1>5

\* A request goes on: it holds no row that another does, and an activation's
\* rows are all the active ones.
LEMMA MoveStep ==
  ASSUME TrainingInv, NEW q \in Posts, TrainingTypeOK', NEW a, NEW T, NEW W,
         post[q] # NoPost, Moved(q, a, T, W), UNCHANGED <<status, rivals, outrun>>,
         post[q].op = "submit" => a = "written" /\ W = {},
         post[q].op = "activate" => a \in {"sweeping", "written"},
         a # "sweeping" => T = {}, a \notin {"writing", "finding"}, W \subseteq Active,
         \A r \in Records : r \in W \/ (a = "written" /\ r = post[q].on) =>
           Holds(q, r) \/ ~LockedFor(q, r),
         a = "written" => status[post[q].on] \in Statuses,
         ~rivals /\ Activating(q) => Active \subseteq T \cup W
  PROVE  TrainingInv'
<1> USE DEF TrainingInv
<1>1. /\ \A p \in Posts \ {q} : post'[p] = post[p]
      /\ post'[q] # NoPost /\ post'[q].at = a /\ post'[q].op = post[q].op
      /\ post'[q].on = post[q].on /\ post'[q].targets = T /\ post'[q].swept = W
      /\ Active' = Active
    BY DEF Moved, Active
<1>2. \A p \in Posts \ {q}, s \in Records : Holds(p, s)' = Holds(p, s)
    BY <1>1 DEF Holds
<1>3. ASSUME NEW s \in Records, NEW p \in Posts \ {q}, Holds(q, s)' PROVE ~Holds(p, s)
  <2>1. Holds(q, s) \/ ~LockedFor(q, s)
      BY <1>3, <1>1 DEF Holds
  <2> QED BY <2>1 DEF Locks, LockedFor
<1>4. Places'
    BY <1>1 DEF Places
<1>5. Locks'
  <2>1. \A p, p2 \in Posts : \A r \in Records : Holds(p, r)' /\ Holds(p2, r)' => p = p2
      BY <1>2, <1>3 DEF Locks
  <2>2. \A p \in Posts : post'[p] # NoPost => post'[p].swept \subseteq Active'
      BY <1>1 DEF Locks
  <2>3. \A p \in Posts : post'[p].at = "written" => status'[post'[p].on] \in Statuses
      BY <1>1 DEF Locks
  <2> QED BY <2>1, <2>2, <2>3 DEF Locks
<1>6. ASSUME ~rivals' PROVE Alone' /\ Waiting'
  <2>1. ~rivals /\ Alone /\ Waiting
      BY <1>6
  <2>2. \A p \in Posts : Activating(p)' = Activating(p) /\ Submitting(p)' = Submitting(p)
      BY <1>1 DEF Activating, Submitting, Open
  <2>3. \A p \in Posts : post'[p].on = post[p].on
      BY <1>1
  <2>4. \A p \in Posts : Activating(p)' /\ post'[p].at # "finding" =>
          Active' \subseteq post'[p].targets \cup post'[p].swept
      BY <2>1, <2>2, <1>1 DEF Alone
  <2> QED BY <2>1, <2>2, <2>3, <2>4, <1>1 DEF Alone, Waiting
<1> QED BY <1>4, <1>5, <1>6

LEMMA FindStep == ASSUME TrainingInv, NEW q \in Posts, FindActive(q) PROVE TrainingInv'
<1>1. TrainingTypeOK /\ TrainingTypeOK'
    BY TrainingTypeStep DEF TrainingNext, TrainingInv
<1>2. post[q] # NoPost /\ Moved(q, "sweeping", Active, post[q].swept)
    BY <1>1, FindMoves
<1>3. post[q].op = "activate" /\ post[q].swept = {} /\ post[q].at = "finding"
  <2>1. post[q].op \in {"submit", "activate"}
      BY <1>1, <1>2, PostTypes
  <2> QED BY <1>2, <2>1 DEF TrainingInv, Places, FindActive
<1>4. UNCHANGED <<status, rivals, outrun>>
    BY DEF FindActive
<1> QED BY <1>1, <1>2, <1>3, <1>4, MoveStep

LEMMA SupersedeStep ==
  ASSUME TrainingInv, NEW q \in Posts, NEW r \in Records, Supersede(q, r) PROVE TrainingInv'
<1> DEFINE T == post[q].targets \ {r}
           W == post[q].swept \cup ({r} \cap Active)
<1>1. TrainingTypeOK /\ TrainingTypeOK'
    BY TrainingTypeStep DEF TrainingNext, TrainingInv
<1>2. post[q] # NoPost /\ Moved(q, "sweeping", T, W)
    BY <1>1, SupersedeMoves
<1>3. /\ post[q].op = "activate" /\ post[q].at = "sweeping" /\ ~LockedFor(q, r)
      /\ UNCHANGED <<status, rivals, outrun>>
  <2>1. post[q].op \in {"submit", "activate"}
      BY <1>1, <1>2, PostTypes
  <2> QED BY <1>2, <2>1 DEF TrainingInv, Places, Supersede
<1>4. W \subseteq Active
    BY <1>2 DEF TrainingInv, Locks
<1>5. \A s \in W : Holds(q, s) \/ ~LockedFor(q, s)
    BY <1>2, <1>3 DEF Holds
<1>6. ~rivals /\ Activating(q) => Active \subseteq T \cup W
    BY <1>3 DEF TrainingInv, Alone
<1> HIDE DEF T, W
<1> QED BY <1>1, <1>2, <1>3, <1>4, <1>5, <1>6, MoveStep

LEMMA WriteStep == ASSUME TrainingInv, NEW q \in Posts, WriteRecord(q) PROVE TrainingInv'
<1>1. TrainingTypeOK /\ TrainingTypeOK'
    BY TrainingTypeStep DEF TrainingNext, TrainingInv
<1>2. post[q] # NoPost /\ UNCHANGED <<status, rivals, outrun>> /\ ~LockedFor(q, post[q].on)
    BY <1>1, WriteMoves DEF WriteRecord
<1>3. CASE status[post[q].on] \in Statuses
  <2>1. Moved(q, "written", post[q].targets, post[q].swept)
      BY <1>1, <1>3, WriteMoves
  <2>2. post[q].targets = {} /\ (post[q].op = "submit" => post[q].swept = {})
      BY <1>2 DEF TrainingInv, Places, WriteRecord
  <2>3. post[q].swept \subseteq Active /\ \A r \in Records : r \in post[q].swept => Holds(q, r)
      BY <1>2 DEF TrainingInv, Locks, Holds
  <2>4. ~rivals /\ Activating(q) => Active \subseteq post[q].targets \cup post[q].swept
    <3>1. Activating(q) => post[q].at # "finding"
        BY DEF WriteRecord
    <3> QED BY <3>1 DEF TrainingInv, Alone
  <2> QED BY <1>1, <1>2, <1>3, <2>1, <2>2, <2>3, <2>4, MoveStep
<1>4. CASE status[post[q].on] \notin Statuses
    BY <1>1, <1>2, <1>4, WriteMoves, QuitStep
<1> QED BY <1>3, <1>4

LEMMA CommitPostStep == ASSUME TrainingInv, NEW q \in Posts, CommitPost(q) PROVE TrainingInv'
<1> USE DEF TrainingInv
<1>1. TrainingTypeOK'
    BY TrainingTypeStep DEF TrainingNext
<1>2. /\ \A p \in Posts \ {q} : post'[p] = post[p]
      /\ post'[q] = NoPost /\ rivals' = rivals /\ outrun \subseteq outrun'
      /\ post[q].at = "written" /\ post[q] # NoPost
    BY DEF CommitPost, TrainingTypeOK, NoPost
<1>3. /\ post[q].op \in {"submit", "activate"} /\ post[q].on \in Records
      /\ post[q].swept \subseteq Active /\ post[q].swept \subseteq Records
      /\ post[q].targets = {} /\ (post[q].op = "submit" => post[q].swept = {})
      /\ status[post[q].on] \in Statuses
    BY <1>2, PostTypes DEF Places, Locks
<1>4. /\ status'[post[q].on] = (IF post[q].op = "submit" THEN "review_required" ELSE "active")
      /\ \A r \in Records \ {post[q].on} :
           status'[r] = IF r \in post[q].swept THEN "superseded" ELSE status[r]
    BY <1>3 DEF CommitPost
<1>5. \A p \in Posts, s \in Records : Holds(p, s)' => p # q /\ Holds(p, s) /\ ~Holds(q, s)
    BY <1>2 DEF Holds, Locks
<1>6. \A s \in post[q].swept \cup {post[q].on} : Holds(q, s)
    BY <1>2 DEF Holds
<1>7. Places'
    BY <1>2 DEF Places
<1>8. Locks'
  <2>1. ASSUME NEW p \in Posts, post'[p] # NoPost, NEW s \in post'[p].swept PROVE s \in Active'
    <3>1. p # q /\ post'[p] = post[p] /\ s \in Active /\ s \in Records
        BY <2>1, <1>2, PostTypes DEF Locks
    <3>2. Holds(p, s)'
        BY <2>1 DEF Holds
    <3>3. s # post[q].on /\ s \notin post[q].swept
        BY <3>1, <3>2, <1>5, <1>6
    <3> QED BY <3>1, <3>3, <1>4 DEF Active
  <2>2. ASSUME NEW p \in Posts, post'[p].at = "written" PROVE status'[post'[p].on] \in Statuses
    <3>1. p # q /\ post'[p] = post[p] /\ post[p] # NoPost /\ status[post[p].on] \in Statuses
        BY <2>2, <1>2 DEF Locks, NoPost
    <3> QED BY <3>1, <1>3, <1>4, PostTypes DEF Statuses
  <2>3. \A p, p2 \in Posts : \A r \in Records : Holds(p, r)' /\ Holds(p2, r)' => p = p2
      BY <1>5 DEF Locks
  <2>4. \A p \in Posts : post'[p] # NoPost => post'[p].swept \subseteq Active'
      BY <2>1
  <2> QED BY <2>2, <2>3, <2>4 DEF Locks
<1>9. ASSUME ~rivals' PROVE Alone' /\ Waiting'
  <2>1. ~rivals /\ Alone /\ Waiting
      BY <1>2, <1>9
  <2>2. /\ \A p \in Posts \ {q} : Activating(p)' = Activating(p) /\ Submitting(p)' = Submitting(p)
        /\ ~Activating(q)' /\ ~Submitting(q)'
      BY <1>2 DEF Activating, Submitting, Open
  <2>3. \A p \in Posts \ {q} : Activating(p) \/ Submitting(p) => post[p] # NoPost /\ post[p].on \in Records
      BY PostTypes DEF Activating, Submitting, Open
  <2>4. CASE post[q].op = "submit"
    <3>1. Active' \subseteq Active
        BY <2>4, <1>3, <1>4 DEF Active
    <3>2. \A r \in Records : status'[r] = status[r] \/ status'[r] = "review_required"
        BY <2>4, <1>3, <1>4
    <3>3. Alone'
        BY <2>1, <2>2, <2>3, <3>1, <3>2, <1>2 DEF Alone
    <3>4. Waiting'
        BY <2>1, <2>2, <2>3, <3>2, <1>2 DEF Waiting, Pending
    <3> QED BY <3>3, <3>4
  <2>5. CASE post[q].op = "activate"
    <3>1. Activating(q) /\ Active \subseteq post[q].swept
        BY <2>1, <2>5, <1>2, <1>3 DEF Activating, Open, Alone
    <3>2. \A p \in Posts : ~Activating(p)'
        BY <2>1, <2>2, <3>1 DEF Alone
    <3>3. Active' \subseteq {post[q].on}
        BY <3>1, <1>4 DEF Active
    <3>4. Alone'
        BY <3>2, <3>3 DEF Alone
    <3>5. ASSUME NEW p \in Posts, Submitting(p)', post'[p].on \notin outrun'
          PROVE status'[post'[p].on] \in Pending \cup {"gone"}
      <4>1. p # q /\ Submitting(p) /\ post'[p] = post[p] /\ post[p].on \in Records
          BY <3>5, <2>2, <2>3, <1>2
      <4>2. post[p].on # post[q].on
          BY <3>5, <4>1, <2>5, <1>3 DEF CommitPost, Submitting
      <4>3. status[post[p].on] \in Pending \cup {"gone"}
          BY <3>5, <4>1, <2>1, <1>2 DEF Waiting
      <4>4. post[p].on \notin post[q].swept
          BY <4>3, <1>3 DEF Active, Pending
      <4> QED BY <4>1, <4>2, <4>3, <4>4, <1>4
    <3>6. Waiting'
        BY <3>5 DEF Waiting
    <3> QED BY <3>4, <3>6
  <2> QED BY <2>4, <2>5, <1>3
<1> QED BY <1>1, <1>7, <1>8, <1>9

LEMMA TrainingInvStep == TrainingInv /\ [TrainingNext]_trainingVars => TrainingInv'
<1> SUFFICES ASSUME TrainingInv, [TrainingNext]_trainingVars PROVE TrainingInv'
    OBVIOUS
<1>1. TrainingTypeOK'
    BY TrainingTypeStep DEF TrainingInv
<1>2. ASSUME NEW q \in Posts, RollBackPost(q) PROVE TrainingInv'
    BY <1>1, <1>2, QuitStep DEF RollBackPost
<1>3. CASE UNCHANGED trainingVars
    BY <1>3 DEF trainingVars, TrainingInv, TrainingTypeOK, Places, Locks, Alone, Waiting, Holds,
         Activating, Submitting, Open, Active
<1> QED BY <1>2, <1>3, RecordStep, ReadStep, FindStep, SupersedeStep, WriteStep, CommitPostStep
        DEF TrainingNext

\* The inductive invariant of the training records.
THEOREM TrainingInvariance == TrainingSpec => []TrainingInv
BY TrainingInvInit, TrainingInvStep, PTL DEF TrainingSpec

\* However many records and requests there are: one active profile at most
\* (training.py:297), unless two activations overlap.
THEOREM OneActiveProfile == TrainingSpec => []OneActive
<1>1. ASSUME \A r, s \in Active : r = s PROVE Cardinality(Active) <= 1
  <2>1. CASE Active = {}
      BY <2>1, FS_EmptySet
  <2>2. ASSUME NEW r, Active = {r} PROVE Cardinality(Active) <= 1
    <3>1. Cardinality({r}) = 1
        BY FS_Singleton
    <3> QED BY <2>2, <3>1
  <2> QED BY <1>1, <2>1, <2>2
<1>2. TrainingInv => OneActive
    BY <1>1 DEF TrainingInv, Alone, OneActive
<1> QED BY <1>2, TrainingInvariance, PTL

\* Who could change the status of a retired record: retention alone.
LEMMA RetiredStep ==
  ASSUME TrainingInv, [TrainingNext]_trainingVars, NEW r \in Records,
         status[r] = "superseded", ~rivals, r \notin outrun
  PROVE  status'[r] \in {"superseded", "gone"}
<1>1. ASSUME NEW q \in Posts, CommitPost(q) PROVE status'[r] \in {"superseded", "gone"}
  <2>1. post[q] # NoPost /\ TrainingTypeOK /\ post[q].op \in {"submit", "activate"}
      BY <1>1, PostTypes DEF CommitPost, NoPost, TrainingInv
  <2>2. Submitting(q) \/ Activating(q)
      BY <2>1 DEF Submitting, Activating, Open
  <2>3. r # post[q].on
      BY <2>2 DEF TrainingInv, Alone, Waiting, Pending
  <2> QED BY <1>1, <2>3 DEF CommitPost
<1>2. ASSUME NEW s \in Records, CreateRecord(s) \/ Forget(s)
      PROVE status'[r] \in {"superseded", "gone"}
    BY <1>2 DEF CreateRecord, Forget, TrainingInv, TrainingTypeOK
<1> QED BY <1>1, <1>2 DEF TrainingNext, trainingVars, ReadToSubmit, ReadToActivate, FindActive,
          Supersede, WriteRecord, RollBackPost

\* However many records and requests there are: a retired profile stays retired
\* (training.py:297), unless activations overlap or outrun a submission.
THEOREM RetiredStaysRetired == TrainingSpec => RetiredForGood
<1>1. TrainingInv /\ [TrainingNext]_trainingVars =>
        [\A r \in Records : status[r] = "superseded" /\ ~rivals /\ r \notin outrun =>
           status'[r] \in {"superseded", "gone"}]_trainingVars
  <2>1. SUFFICES ASSUME TrainingInv, [TrainingNext]_trainingVars, NEW r \in Records,
                        status[r] = "superseded", ~rivals, r \notin outrun
                 PROVE  status'[r] \in {"superseded", "gone"}
      OBVIOUS
  <2> QED BY <2>1, RetiredStep
<1> QED BY <1>1, TrainingInvariance, PTL DEF TrainingSpec, RetiredForGood

(***************************************************************************)
(* ProxyTokens: no refused token again, no token request without a reason. *)
(***************************************************************************)

ExchangeRecord ==
  [at: {"unserved", "waiting", "sending", "answered", "unauthorized"},
   kind: {"session", "mcp"}, token: Nat, refused: SUBSET Nat, on: Exchanges \cup {NoExchange}]

\* One exchange, with n tokens issued: none of its tokens is yet to come, one to be
\* sent is not among those that were refused, and only who waits is given a new one.
Sound(e, n) ==
  /\ e.refused \subseteq 0 .. n
  /\ e.at \in {"unserved", "waiting", "sending"} =>
       e.refused = {} \/ \E t \in 0 .. n : e.refused = {t}
  /\ e.at = "sending" => e.token \in 0 .. n /\ e.token \notin e.refused
  /\ e.at = "unauthorized" => Cardinality(e.refused) = 2
  /\ e.on # NoExchange => e.at = "waiting"

Refusals == \A x \in Exchanges : Sound(exchange[x], issued)

\* A reason is left over while there is neither a good token nor a request for one.
Reasons == fetches <= due /\ (inFlight = NoExchange /\ (cached = 0 \/ stale) => fetches < due)

TokensInv == TokensTypeOK /\ Refusals /\ Reasons

LEMMA TokensInvInit == TokensInit => TokensInv
<1> SUFFICES ASSUME TokensInit PROVE TokensInv
    OBVIOUS
<1>1. exchange \in [Exchanges -> ExchangeRecord]
  <2>1. Unserved \in ExchangeRecord
      BY DEF Unserved, ExchangeRecord
  <2> QED BY <2>1 DEF TokensInit
<1>2. TokensTypeOK
  <2>1. cached \in 0 .. issued /\ issued \in Nat /\ fetches \in Nat /\ due \in Nat
      BY DEF TokensInit
  <2> QED BY <1>1, <2>1 DEF TokensInit, TokensTypeOK, ExchangeRecord
<1>3. Refusals /\ Reasons
    BY DEF TokensInit, Refusals, Reasons, Unserved, Sound
<1> QED BY <1>2, <1>3 DEF TokensInv

\* The types, but for the exchanges.
Counters ==
  /\ cached \in 0 .. issued /\ stale \in BOOLEAN
  /\ inFlight \in Exchanges \cup {NoExchange}
  /\ issued \in Nat /\ fetches \in Nat /\ due \in Nat

\* What a step has to show.
LEMMA Assembled ==
  ASSUME Counters', Reasons', exchange' \in [Exchanges -> ExchangeRecord],
         \A x \in Exchanges : Sound(exchange'[x], issued')
  PROVE  TokensInv'
<1>1. TokensTypeOK'
    BY DEF Counters, TokensTypeOK, ExchangeRecord
<1>2. Refusals'
    BY DEF Refusals, Sound
<1> QED BY <1>1, <1>2 DEF TokensInv

\* and what it may use.
LEMMA Disassembled ==
  ASSUME TokensInv
  PROVE  /\ Counters /\ Reasons /\ exchange \in [Exchanges -> ExchangeRecord]
         /\ \A x \in Exchanges : exchange[x] \in ExchangeRecord /\ Sound(exchange[x], issued)
BY DEF TokensInv, TokensTypeOK, Refusals, Counters, ExchangeRecord

LEMMA SoundLater ==
  ASSUME NEW e, NEW n \in Nat, Sound(e, n) PROVE Sound(e, n + 1)
<1>1. 0 .. n \subseteq 0 .. (n + 1)
    OBVIOUS
<1> QED BY <1>1 DEF Sound

LEMMA GivenSound ==
  ASSUME NEW e \in ExchangeRecord, NEW n \in Nat, NEW t \in 0 .. n, Sound(e, n),
         e.at \in {"unserved", "waiting"}, t \notin e.refused
  PROVE  Given(e, t) \in ExchangeRecord /\ Sound(Given(e, t), n)
<1> DEFINE g == Given(e, t)
<1>1. g = [e EXCEPT !.token = t, !.on = NoExchange, !.at = "answered"]
      \/ g = [e EXCEPT !.token = t, !.on = NoExchange, !.at = "sending"]
  <2>1. CASE e.kind = "session"
      BY <2>1 DEF Given
  <2>2. CASE e.kind # "session"
      BY <2>2 DEF Given
  <2> QED BY <2>1, <2>2
<1> HIDE DEF g
<1>2. /\ g \in ExchangeRecord /\ g.refused = e.refused /\ g.token = t
      /\ g.on = NoExchange /\ g.at \in {"answered", "sending"}
  <2> t \in Nat
      OBVIOUS
  <2>1. CASE g = [e EXCEPT !.token = t, !.on = NoExchange, !.at = "answered"]
      BY <2>1 DEF ExchangeRecord
  <2>2. CASE g = [e EXCEPT !.token = t, !.on = NoExchange, !.at = "sending"]
      BY <2>2 DEF ExchangeRecord
  <2> QED BY <1>1, <2>1, <2>2
<1>3. Sound(g, n)
    BY <1>2 DEF Sound
<1> QED BY <1>2, <1>3 DEF g

LEMMA AskingSound ==
  ASSUME NEW e \in ExchangeRecord, NEW n \in Nat, NEW from \in Exchanges,
         e.refused = {} \/ \E t \in 0 .. n : e.refused = {t}
  PROVE  /\ [e EXCEPT !.at = "waiting", !.on = from] \in ExchangeRecord
         /\ Sound([e EXCEPT !.at = "waiting", !.on = from], n)
<1> DEFINE a == [e EXCEPT !.at = "waiting", !.on = from]
<1>1. a \in ExchangeRecord /\ a.refused = e.refused /\ a.at = "waiting" /\ a.on = from
    BY DEF ExchangeRecord
<1> HIDE DEF a
<1>2. Sound(a, n)
    BY <1>1 DEF Sound
<1> QED BY <1>1, <1>2 DEF a

\* What asking does, to the count of requests and to the one that asks.
LEMMA AskStep ==
  ASSUME TokensInv, NEW x \in Exchanges, NEW e \in ExchangeRecord, Asks(x, e),
         e.refused = {} \/ \E t \in 0 .. issued : e.refused = {t}
  PROVE  /\ exchange' \in [Exchanges -> ExchangeRecord]
         /\ \A y \in Exchanges : Sound(exchange'[y], issued)
         /\ inFlight' \in Exchanges
         /\ fetches' = IF inFlight = NoExchange THEN fetches + 1 ELSE fetches
<1>0. /\ Counters /\ exchange \in [Exchanges -> ExchangeRecord]
      /\ \A y \in Exchanges : Sound(exchange[y], issued)
    BY Disassembled
<1>1. PICK from \in Exchanges :
        /\ inFlight' = from
        /\ exchange' = [exchange EXCEPT ![x] = [e EXCEPT !.at = "waiting", !.on = from]]
    BY <1>0 DEF Asks, Counters
<1> DEFINE a == [e EXCEPT !.at = "waiting", !.on = from]
<1>2. a \in ExchangeRecord /\ Sound(a, issued)
    BY <1>0, AskingSound DEF Counters
<1>3. exchange' = [exchange EXCEPT ![x] = a]
    BY <1>1
<1> HIDE DEF a
<1>4. exchange' \in [Exchanges -> ExchangeRecord] /\ \A y \in Exchanges : Sound(exchange'[y], issued)
    BY <1>0, <1>2, <1>3
<1> QED BY <1>1, <1>4 DEF Asks

LEMMA ServeStep ==
  ASSUME TokensInv, NEW x \in Exchanges, NEW kind \in {"session", "mcp"}, Serve(x, kind)
  PROVE  TokensInv'
<1>0. /\ Counters /\ Reasons /\ exchange \in [Exchanges -> ExchangeRecord]
      /\ \A y \in Exchanges : Sound(exchange[y], issued)
    BY Disassembled
<1> DEFINE e == [Unserved EXCEPT !.kind = kind]
<1>1. e \in ExchangeRecord /\ e.refused = {} /\ e.at = "unserved" /\ e.on = NoExchange
    BY DEF Unserved, ExchangeRecord
<1>2. UNCHANGED <<cached, stale, issued, due>>
    BY DEF Serve
<1>3. CASE cached # 0 /\ ~stale
  <2>1. exchange' = [exchange EXCEPT ![x] = Given(e, cached)] /\ UNCHANGED <<inFlight, fetches>>
      BY <1>3 DEF Serve
  <2> HIDE DEF e
  <2>2. Sound(e, issued)
      BY <1>1 DEF Sound
  <2>3. Given(e, cached) \in ExchangeRecord /\ Sound(Given(e, cached), issued)
      BY <1>0, <1>1, <2>2, GivenSound DEF Counters
  <2>4. /\ exchange' \in [Exchanges -> ExchangeRecord]
        /\ \A y \in Exchanges : Sound(exchange'[y], issued')
      BY <1>0, <1>2, <2>1, <2>3
  <2>5. Counters' /\ Reasons'
      BY <1>0, <1>2, <2>1 DEF Counters, Reasons
  <2> QED BY <2>4, <2>5, Assembled
<1>4. CASE ~(cached # 0 /\ ~stale)
  <2>1. Asks(x, e)
      BY <1>4 DEF Serve
  <2> HIDE DEF e
  <2>2. /\ exchange' \in [Exchanges -> ExchangeRecord]
        /\ \A y \in Exchanges : Sound(exchange'[y], issued)
        /\ inFlight' \in Exchanges
        /\ fetches' = IF inFlight = NoExchange THEN fetches + 1 ELSE fetches
      BY <1>1, <2>1, AskStep
  <2>3. Counters' /\ Reasons'
      BY <1>0, <1>2, <1>4, <2>2, TokensAssumption DEF Counters, Reasons
  <2> QED BY <1>2, <2>2, <2>3, Assembled
<1> QED BY <1>3, <1>4

LEMMA RetryStep == ASSUME TokensInv, NEW x \in Exchanges, Retry(x) PROVE TokensInv'
<1>0. /\ Counters /\ Reasons /\ exchange[x] \in ExchangeRecord /\ Sound(exchange[x], issued)
    BY Disassembled
<1> DEFINE e == [exchange[x] EXCEPT !.refused = {exchange[x].token}]
<1>1. exchange[x].token \in 0 .. issued
    BY <1>0 DEF Retry, Refusing, Sound
<1>2. e \in ExchangeRecord /\ e.refused = {exchange[x].token}
    BY <1>0, <1>1 DEF ExchangeRecord
<1>3. Asks(x, e) /\ cached' = 0 /\ due' = due + 1 /\ UNCHANGED <<stale, issued>>
    BY DEF Retry
<1> HIDE DEF e
<1>4. /\ exchange' \in [Exchanges -> ExchangeRecord]
      /\ \A y \in Exchanges : Sound(exchange'[y], issued)
      /\ inFlight' \in Exchanges
      /\ fetches' = IF inFlight = NoExchange THEN fetches + 1 ELSE fetches
    BY <1>1, <1>2, <1>3, AskStep
<1>5. Counters' /\ Reasons'
    BY <1>0, <1>3, <1>4, TokensAssumption DEF Counters, Reasons
<1> QED BY <1>3, <1>4, <1>5, Assembled

LEMMA ArrivalStep ==
  ASSUME TokensInv, NEW short \in BOOLEAN, TokenArrives(short) PROVE TokensInv'
<1>0. /\ Counters /\ Reasons
      /\ \A x \in Exchanges : exchange[x] \in ExchangeRecord /\ Sound(exchange[x], issued)
    BY Disassembled
<1>1. ASSUME NEW x \in Exchanges
      PROVE  exchange'[x] \in ExchangeRecord /\ Sound(exchange'[x], issued + 1)
  <2>1. Sound(exchange[x], issued + 1)
      BY <1>0, SoundLater DEF Counters
  <2>2. CASE exchange[x].on = inFlight
    <3>1. exchange[x].at = "waiting" /\ issued + 1 \notin exchange[x].refused
        BY <1>0, <2>2 DEF TokenArrives, Sound, Counters
    <3>2. /\ Given(exchange[x], issued + 1) \in ExchangeRecord
          /\ Sound(Given(exchange[x], issued + 1), issued + 1)
        BY <1>0, <2>1, <3>1, GivenSound DEF Counters
    <3> QED BY <2>2, <3>2 DEF TokenArrives
  <2>3. CASE exchange[x].on # inFlight
    <3>1. exchange'[x] = exchange[x]
        BY <2>3 DEF TokenArrives
    <3> QED BY <1>0, <2>1, <3>1
  <2> QED BY <2>2, <2>3
<1>2. Counters' /\ Reasons' /\ issued' = issued + 1
    BY <1>0 DEF TokenArrives, Counters, Reasons
<1>3. exchange' \in [Exchanges -> ExchangeRecord]
    BY <1>1 DEF TokenArrives
<1> QED BY <1>1, <1>2, <1>3, Assembled

LEMMA FailureStep == ASSUME TokensInv, FetchFails PROVE TokensInv'
<1>0. /\ Counters /\ Reasons
      /\ \A x \in Exchanges : exchange[x] \in ExchangeRecord /\ Sound(exchange[x], issued)
    BY Disassembled
<1>1. ASSUME NEW x \in Exchanges
      PROVE  exchange'[x] \in ExchangeRecord /\ Sound(exchange'[x], issued)
  <2> DEFINE a == [exchange[x] EXCEPT !.at = "answered", !.on = NoExchange]
  <2>1. /\ a \in ExchangeRecord /\ a.refused = exchange[x].refused
        /\ a.at = "answered" /\ a.on = NoExchange
      BY <1>0 DEF ExchangeRecord
  <2>2. exchange'[x] = a \/ exchange'[x] = exchange[x]
      BY DEF FetchFails
  <2> HIDE DEF a
  <2>3. Sound(a, issued)
      BY <1>0, <2>1 DEF Sound
  <2> QED BY <1>0, <2>1, <2>2, <2>3
<1>2. Counters' /\ Reasons' /\ issued' = issued
  <2>1. inFlight' = NoExchange /\ due' = due + 1 /\ UNCHANGED <<cached, stale, issued, fetches>>
      BY DEF FetchFails
  <2> QED BY <1>0, <2>1 DEF Counters, Reasons
<1>3. exchange' \in [Exchanges -> ExchangeRecord]
    BY <1>1 DEF FetchFails
<1> QED BY <1>1, <1>2, <1>3, Assembled

LEMMA AnswerStep ==
  ASSUME TokensInv, NEW x \in Exchanges, PassOn401(x) \/ PassOn(x) PROVE TokensInv'
<1>0. /\ Counters /\ Reasons /\ exchange \in [Exchanges -> ExchangeRecord]
      /\ \A y \in Exchanges : exchange[y] \in ExchangeRecord /\ Sound(exchange[y], issued)
    BY Disassembled
<1>1. exchange[x].at = "sending" /\ exchange[x].token \in 0 .. issued /\ issued \in Nat
    BY <1>0 DEF PassOn401, PassOn, Sound, Counters
<1>2. /\ UNCHANGED <<cached, stale, inFlight, issued, fetches, due>>
      /\ Counters' /\ Reasons'
    BY <1>0 DEF PassOn401, PassOn, Counters, Reasons
<1>3. CASE PassOn(x)
  <2> DEFINE a == [exchange[x] EXCEPT !.at = "answered"]
  <2>1. /\ a \in ExchangeRecord /\ a.refused = exchange[x].refused
        /\ a.at = "answered" /\ a.on = exchange[x].on
      BY <1>0 DEF ExchangeRecord
  <2>2. exchange' = [exchange EXCEPT ![x] = a]
      BY <1>3 DEF PassOn
  <2> HIDE DEF a
  <2>3. Sound(a, issued)
      BY <1>0, <1>1, <2>1 DEF Sound
  <2>4. /\ exchange' \in [Exchanges -> ExchangeRecord]
        /\ \A y \in Exchanges : Sound(exchange'[y], issued')
      BY <1>0, <1>2, <2>1, <2>2, <2>3
  <2> QED BY <1>2, <2>4, Assembled
<1>4. CASE PassOn401(x)
  <2> DEFINE a == [exchange[x] EXCEPT !.at = "unauthorized",
                                      !.refused = exchange[x].refused \cup {exchange[x].token}]
  <2>1. /\ a \in ExchangeRecord /\ a.refused = exchange[x].refused \cup {exchange[x].token}
        /\ a.at = "unauthorized" /\ a.on = exchange[x].on
      BY <1>0, <1>1 DEF ExchangeRecord
  <2>2. exchange' = [exchange EXCEPT ![x] = a]
      BY <1>0, <1>4 DEF PassOn401, ExchangeRecord
  <2> HIDE DEF a
  <2>3. Cardinality(a.refused) = 2
    <3>1. PICK t \in 0 .. issued : exchange[x].refused = {t}
        BY <1>0, <1>1, <1>4 DEF PassOn401, Sound
    <3>2. exchange[x].token \notin {t}
        BY <1>0, <1>1, <3>1 DEF Sound
    <3>3. IsFiniteSet({t}) /\ Cardinality({t}) = 1
        BY FS_Singleton
    <3>4. Cardinality({t} \cup {exchange[x].token}) = Cardinality({t}) + 1
        BY <3>2, <3>3, FS_AddElement
    <3> QED BY <2>1, <3>1, <3>3, <3>4
  <2>4. Sound(a, issued)
      BY <1>0, <1>1, <2>1, <2>3 DEF Sound
  <2>5. /\ exchange' \in [Exchanges -> ExchangeRecord]
        /\ \A y \in Exchanges : Sound(exchange'[y], issued')
      BY <1>0, <1>2, <2>1, <2>2, <2>4
  <2> QED BY <1>2, <2>5, Assembled
<1> QED BY <1>3, <1>4

LEMMA TokensInvStep == TokensInv /\ [TokensNext]_tokensVars => TokensInv'
<1> SUFFICES ASSUME TokensInv, [TokensNext]_tokensVars PROVE TokensInv'
    OBVIOUS
<1>1. CASE Ages
    BY <1>1 DEF Ages, TokensInv, TokensTypeOK, Refusals, Reasons, Sound
<1>2. CASE UNCHANGED tokensVars
    BY <1>2 DEF tokensVars, TokensInv, TokensTypeOK, Refusals, Reasons, Sound
<1>3. CASE \E x \in Exchanges, kind \in {"session", "mcp"} : Serve(x, kind)
    BY <1>3, ServeStep
<1>4. CASE \E short \in BOOLEAN : TokenArrives(short)
    BY <1>4, ArrivalStep
<1>5. CASE \E x \in Exchanges : Retry(x) \/ PassOn401(x) \/ PassOn(x)
    BY <1>5, RetryStep, AnswerStep
<1> QED BY <1>1, <1>2, <1>3, <1>4, <1>5, FailureStep DEF TokensNext

\* The inductive invariant of the proxy's tokens.
THEOREM TokensInvariance == TokensSpec => []TokensInv
BY TokensInvInit, TokensInvStep, PTL DEF TokensSpec

\* However many exchanges share the cache: none sends a token it was refused
\* with (token.ts:69), and a 401 is passed on after two.
THEOREM NoReplay == TokensSpec => []RefusedTwice
<1>1. TokensInv => RefusedTwice
    BY DEF TokensInv, Refusals, Sound, RefusedTwice
<1> QED BY <1>1, TokensInvariance, PTL

\* However many exchanges share the cache: each token request has its reason
\* (token.ts:12).
THEOREM NoNeedlessFetch == TokensSpec => []FetchesAreDue
<1>1. TokensInv => FetchesAreDue
    BY DEF TokensInv, Reasons, FetchesAreDue
<1> QED BY <1>1, TokensInvariance, PTL

(***************************************************************************)
(* IngestJobs: what a job reports is committed, and is never taken back.   *)
(***************************************************************************)

\* A job that no task has begun: nothing reported, nothing written.
Untouched(j) ==
  /\ job[j] \in {NoRow, [NoRow EXCEPT !.status = "queued"]}
  /\ ingested[j] = 0

\* No task gets a job that has not been enqueued, and none gets one twice.
Handed ==
  \A j \in Jobs :
    /\ submission[j] # "committed" => job[j] = NoRow
    /\ submission[j] \in {"none", "inserted"} => j \notin queue /\ worker.job # j /\ Untouched(j)
    /\ j \in queue => worker.job # j /\ Untouched(j)

\* What the task knows of its job: what is committed, and what is reported of it.
Told ==
  worker.at # "idle" =>
    LET j == worker.job
    IN /\ worker.job \in Jobs
       /\ worker.at \in {"waiting", "starting"} =>
            Untouched(j) /\ worker.file = 0 /\ worker.created = 0
       /\ worker.at = "starting" => job[j].status = "queued"
       /\ worker.at \notin {"waiting", "starting"} => job[j].status = "running"
       /\ worker.at \in {"file", "committing"} =>
            /\ job[j].done = worker.file /\ worker.file < job[j].total
            /\ job[j].created = ingested[j] /\ ingested[j] <= worker.created
       /\ worker.at = "file" => worker.created = ingested[j]
       /\ worker.at = "reporting" =>
            /\ job[j].done <= worker.file /\ worker.file <= job[j].total
            /\ job[j].created <= ingested[j] /\ ingested[j] = worker.created
       /\ worker.at = "finishing" =>
            /\ job[j].done = job[j].total
            /\ job[j].created = ingested[j] /\ ingested[j] = worker.created

JobsInv ==
  /\ JobsTypeOK /\ Handed /\ Told /\ ProgressIsReal
  /\ worker.at = "idle" => worker = Idle

JobRow == [status: JobStatuses, total: Nat, done: Nat, created: Nat]
WorkerState ==
  [at: {"idle", "waiting", "starting", "file", "committing", "reporting", "failing", "finishing"},
   job: Jobs \cup {NoJob}, polls: Nat, file: Nat, created: Nat]

LEMMA BlankJobs ==
  /\ NoRow \in JobRow /\ NoRow.status = "none"
  /\ NoRow.total = 0 /\ NoRow.done = 0 /\ NoRow.created = 0
  /\ [NoRow EXCEPT !.status = "queued"] \in JobRow
  /\ [NoRow EXCEPT !.status = "queued"].status = "queued"
  /\ [NoRow EXCEPT !.status = "queued"].total = 0
  /\ [NoRow EXCEPT !.status = "queued"].done = 0
  /\ [NoRow EXCEPT !.status = "queued"].created = 0
  /\ Idle \in WorkerState /\ Idle.at = "idle" /\ Idle.job = NoJob
BY DEF NoRow, JobRow, JobStatuses, Idle, WorkerState

LEMMA JobTypes ==
  ASSUME JobsTypeOK
  PROVE  /\ job \in [Jobs -> JobRow] /\ worker \in WorkerState
         /\ worker.at \in {"idle", "waiting", "starting", "file", "committing", "reporting",
                           "failing", "finishing"}
         /\ worker.job \in Jobs \cup {NoJob}
         /\ worker.polls \in Nat /\ worker.file \in Nat /\ worker.created \in Nat
         /\ \A j \in Jobs : /\ job[j].status \in JobStatuses /\ job[j].total \in Nat
                            /\ job[j].done \in Nat /\ job[j].created \in Nat
                            /\ ingested[j] \in Nat
<1>1. job \in [Jobs -> JobRow] /\ worker \in WorkerState /\ ingested \in [Jobs -> Nat]
    BY DEF JobsTypeOK, JobRow, WorkerState
<1> QED BY <1>1 DEF JobRow, WorkerState

LEMMA JobsInvInit == JobsInit => JobsInv
<1> SUFFICES ASSUME JobsInit PROVE JobsInv
    OBVIOUS
<1>1. /\ \A j \in Jobs : job[j] = NoRow /\ ingested[j] = 0
      /\ worker = Idle /\ queue = {} /\ NoJob \notin Jobs
    BY JobsAssumption DEF JobsInit
<1>2. JobsTypeOK
    BY BlankJobs DEF JobsInit, JobsTypeOK, JobRow, WorkerState
<1>3. Handed /\ Told /\ ProgressIsReal
    BY <1>1, BlankJobs DEF Handed, Told, ProgressIsReal, Untouched
<1> QED BY <1>1, <1>2, <1>3 DEF JobsInv

\* A request's steps: a row is committed blank, and a job enqueued that nobody has.
LEMMA RequestKeepsJobs ==
  ASSUME JobsInv, NEW j \in Jobs, InsertRow(j) \/ Enqueue(j) \/ CommitRow(j) \/ RollBack(j)
  PROVE  JobsInv'
<1> USE DEF JobsInv
<1>1. PICK from, to \in {"none", "inserted", "enqueued", "committed", "rolled back"} :
        Submits(j, from, to)
    BY DEF InsertRow, Enqueue, CommitRow, RollBack
<1>2. /\ worker' = worker /\ ingested' = ingested /\ dropped' = dropped
      /\ \A k \in Jobs \ {j} : submission'[k] = submission[k] /\ job'[k] = job[k]
      /\ \A k \in Jobs \ {j} : k \in queue' <=> k \in queue
    BY <1>1 DEF InsertRow, Enqueue, CommitRow, RollBack, Submits, JobsTypeOK
<1>3. /\ submission' \in [Jobs -> {"none", "inserted", "enqueued", "committed", "rolled back"}]
      /\ submission[j] = from /\ submission'[j] = to
    BY <1>1 DEF Submits, JobsTypeOK
<1>4. /\ job' \in [Jobs -> JobRow] /\ queue' \subseteq Jobs
      /\ job'[j] = job[j] \/ (job[j] = NoRow /\ job'[j] = [NoRow EXCEPT !.status = "queued"])
      /\ submission'[j] # "committed" => job'[j] = NoRow
      /\ j \in queue' => j \in queue \/ submission[j] = "inserted"
      /\ submission'[j] \in {"none", "inserted"} => submission[j] = "none" /\ job' = job /\ queue' = queue
  <2>1. CASE CommitRow(j)
      BY <2>1, JobTypes, BlankJobs DEF CommitRow, Submits, Handed, JobsTypeOK
  <2>2. CASE InsertRow(j) \/ Enqueue(j) \/ RollBack(j)
      BY <2>2, JobTypes DEF InsertRow, Enqueue, RollBack, Submits, Handed, JobsTypeOK
  <2> QED BY <2>1, <2>2
<1>5. JobsTypeOK'
    BY <1>2, <1>3, <1>4 DEF JobsTypeOK, JobRow
<1>6. \A k \in Jobs : Untouched(k) => Untouched(k)'
    BY <1>2, <1>4 DEF Untouched
<1>7. Handed'
  <2>1. ASSUME NEW k \in Jobs \ {j}
        PROVE  /\ (submission[k] # "committed" => job[k] = NoRow)'
               /\ (submission[k] \in {"none", "inserted"} =>
                     k \notin queue /\ worker.job # k /\ Untouched(k))'
               /\ (k \in queue => worker.job # k /\ Untouched(k))'
      BY <1>2, <1>6 DEF Handed
  <2>2. /\ (submission[j] # "committed" => job[j] = NoRow)'
        /\ (submission[j] \in {"none", "inserted"} =>
              j \notin queue /\ worker.job # j /\ Untouched(j))'
        /\ (j \in queue => worker.job # j /\ Untouched(j))'
      BY <1>2, <1>4, <1>6 DEF Handed
  <2> QED BY <2>1, <2>2 DEF Handed
<1>8. \A k \in Jobs : /\ job'[k].total = job[k].total /\ job'[k].done = job[k].done
                      /\ job'[k].created = job[k].created
                      /\ job'[k].status # job[k].status =>
                           job[k].status = "none" /\ job'[k].status = "queued"
  <2> TAKE k \in Jobs
  <2>1. CASE k # j
      BY <1>2, <2>1
  <2>2. CASE k = j
      BY <1>4, <2>2, BlankJobs
  <2> QED BY <2>1, <2>2
<1>9. ProgressIsReal'
  <2> SUFFICES ASSUME NEW k \in Jobs
               PROVE  (/\ job[k].created <= ingested[k] /\ job[k].done <= job[k].total
                       /\ job[k].status = "succeeded" =>
                            job[k].created = ingested[k] /\ job[k].done = job[k].total)'
      BY DEF ProgressIsReal
  <2>1. /\ job[k].created <= ingested[k] /\ job[k].done <= job[k].total
        /\ job[k].status = "succeeded" =>
             job[k].created = ingested[k] /\ job[k].done = job[k].total
      BY DEF ProgressIsReal
  <2>2. ingested'[k] = ingested[k]
      BY <1>2
  <2> QED BY <1>8, <2>1, <2>2
<1>10. Told'
    BY <1>2, <1>6, <1>8 DEF Told
<1> QED BY <1>2, <1>5, <1>7, <1>9, <1>10

\* What a step of the task has to show: only its own job's row and documents are
\* touched, and what it now knows of them.
LEMMA TaskKeepsJobs ==
  ASSUME JobsInv, UNCHANGED <<submission, queue>>, worker.at # "idle",
         worker' = Idle \/ (worker'.job = worker.job /\ worker'.at # "idle"), JobsTypeOK',
         Told', \A k \in Jobs \ {worker.job} : job'[k] = job[k] /\ ingested'[k] = ingested[k],
         job[worker.job] = NoRow => job'[worker.job] = NoRow,
         /\ job'[worker.job].created <= ingested'[worker.job]
         /\ job'[worker.job].done <= job'[worker.job].total
         /\ job'[worker.job].status = "succeeded" =>
              /\ job'[worker.job].created = ingested'[worker.job]
              /\ job'[worker.job].done = job'[worker.job].total
  PROVE  JobsInv'
<1> USE DEF JobsInv
<1>1. worker.job \in Jobs
    BY DEF Told
<1>2. \A k \in Jobs \ {worker.job} : Untouched(k)' <=> Untouched(k)
    BY DEF Untouched
<1>3. Handed'
    BY <1>1, <1>2, BlankJobs, JobsAssumption DEF Handed
<1>4. ProgressIsReal'
    BY <1>1 DEF ProgressIsReal
<1> QED BY <1>3, <1>4, BlankJobs

\* The task's steps before and around the files, and those that end it.
LEMMA TaskStep == ASSUME JobsInv, PickUp \/ Task \/ Killed PROVE JobsInv'
<1> USE DEF JobsInv
<1>0. /\ job \in [Jobs -> JobRow] /\ worker \in WorkerState /\ ingested \in [Jobs -> Nat]
      /\ worker.file \in Nat /\ worker.created \in Nat /\ worker.polls \in Nat
      /\ \A j \in Jobs : /\ job[j].status \in JobStatuses /\ job[j].total \in Nat
                         /\ job[j].done \in Nat /\ job[j].created \in Nat
                         /\ ingested[j] \in Nat
    BY JobTypes DEF JobsTypeOK
<1>1. CASE PickUp
  <2>1. PICK k \in queue : /\ worker' = [Idle EXCEPT !.at = "waiting", !.job = k]
                           /\ queue' = queue \ {k}
      BY <1>1 DEF PickUp
  <2>2. /\ k \in Jobs /\ worker'.at = "waiting" /\ worker'.job = k
        /\ worker'.file = 0 /\ worker'.created = 0 /\ worker' \in WorkerState
        /\ UNCHANGED <<submission, job, ingested, dropped>>
      BY <1>1, <2>1 DEF PickUp, JobsTypeOK, Idle, WorkerState
  <2>3. JobsTypeOK'
      BY <2>1, <2>2 DEF JobsTypeOK, WorkerState
  <2>4. \A j : Untouched(j)' <=> Untouched(j)
      BY <2>2 DEF Untouched
  <2>5. \A j \in Jobs : j \in queue' => j \in queue /\ j # k
      BY <2>1
  <2>6. Handed' /\ Told'
      BY <2>1, <2>2, <2>4, <2>5 DEF Handed, Told
  <2> QED BY <2>2, <2>3, <2>6 DEF ProgressIsReal
<1>2. ASSUME worker.at # "idle", worker' = Idle, UNCHANGED <<submission, queue, ingested>>,
             dropped' \subseteq Jobs,
             job' \in [Jobs -> JobRow], \A k \in Jobs \ {worker.job} : job'[k] = job[k],
             /\ job'[worker.job].done = job[worker.job].done
             /\ job'[worker.job].total = job[worker.job].total
             /\ job'[worker.job].created <= ingested[worker.job]
             /\ job'[worker.job].status = "succeeded" =>
                  /\ job'[worker.job].created = ingested[worker.job]
                  /\ job'[worker.job].done = job'[worker.job].total,
             job[worker.job] = NoRow => job'[worker.job] = NoRow
      PROVE  JobsInv'
  <2>1. JobsTypeOK'
      BY <1>0, <1>2, BlankJobs DEF JobsTypeOK, JobRow, WorkerState
  <2>2. Told'
      BY <1>2, BlankJobs DEF Told
  <2>3. worker.job \in Jobs
      BY <1>2 DEF Told
  <2>4. job'[worker.job].done <= job'[worker.job].total
      BY <1>2, <2>3 DEF ProgressIsReal
  <2> QED BY <1>2, <2>1, <2>2, <2>4, TaskKeepsJobs
<1>3. ASSUME GiveUp \/ StatusFails \/ Killed PROVE JobsInv'
  <2>1. /\ worker.at # "idle" /\ worker' = Idle /\ UNCHANGED <<submission, queue, ingested, job>>
        /\ dropped' = dropped \cup {worker.job}
      BY <1>3 DEF GiveUp, StatusFails, Killed
  <2>2. worker.job \in Jobs
      BY <2>1 DEF Told
  <2> QED BY <1>0, <1>2, <2>1, <2>2 DEF ProgressIsReal, JobsTypeOK
<1>4. ASSUME NoProvider \/ MarkFailed PROVE JobsInv'
  <2>1. /\ worker.at \in {"starting", "failing"} /\ worker' = Idle
        /\ UNCHANGED <<submission, queue, ingested, dropped>>
        /\ job' = [job EXCEPT ![worker.job].status = "failed"]
      BY <1>4 DEF NoProvider, MarkFailed
  <2>2. worker.job \in Jobs /\ job[worker.job] # NoRow
      BY <2>1, BlankJobs DEF Told
  <2>3. /\ job' \in [Jobs -> JobRow] /\ \A k \in Jobs \ {worker.job} : job'[k] = job[k]
        /\ job'[worker.job].done = job[worker.job].done
        /\ job'[worker.job].total = job[worker.job].total
        /\ job'[worker.job].created = job[worker.job].created
        /\ job'[worker.job].status = "failed"
      BY <1>0, <2>1, <2>2 DEF JobRow, JobStatuses
  <2>4. job'[worker.job].created <= ingested[worker.job] /\ dropped' \subseteq Jobs
      BY <2>1, <2>2, <2>3 DEF ProgressIsReal, JobsTypeOK
  <2>5. worker.at # "idle" /\ job'[worker.job].status # "succeeded"
      BY <2>1, <2>3
  <2> QED BY <1>2, <2>1, <2>2, <2>3, <2>4, <2>5
<1>5. ASSUME MarkSucceeded PROVE JobsInv'
  <2>1. /\ worker.at = "finishing" /\ worker' = Idle
        /\ UNCHANGED <<submission, queue, ingested, dropped>>
        /\ job' = [job EXCEPT ![worker.job].status = "succeeded",
                              ![worker.job].created = worker.created]
      BY <1>5 DEF MarkSucceeded
  <2>2. /\ worker.job \in Jobs /\ job[worker.job] # NoRow
        /\ job[worker.job].done = job[worker.job].total
        /\ ingested[worker.job] = worker.created
      BY <2>1, BlankJobs DEF Told
  <2>3. /\ job' \in [Jobs -> JobRow] /\ \A k \in Jobs \ {worker.job} : job'[k] = job[k]
        /\ job'[worker.job].done = job[worker.job].done
        /\ job'[worker.job].total = job[worker.job].total
        /\ job'[worker.job].created = worker.created
      BY <1>0, <2>1, <2>2 DEF JobRow, JobStatuses
  <2>4. dropped' \subseteq Jobs /\ worker.at # "idle"
      BY <2>1 DEF JobsTypeOK
  <2>5. worker.created <= ingested[worker.job]
      BY <1>0, <2>2
  <2> QED BY <1>2, <2>1, <2>2, <2>3, <2>4, <2>5
<1>6. ASSUME FindRow \/ Poll PROVE JobsInv'
  <2>1. /\ worker.at = "waiting" /\ worker.job \in Jobs /\ Untouched(worker.job)
        /\ UNCHANGED <<submission, queue, ingested, dropped, job>>
        /\ worker.file = 0 /\ worker.created = 0
      BY <1>6 DEF FindRow, Poll, Told
  <2>2. /\ worker' \in WorkerState /\ worker'.job = worker.job
        /\ worker'.file = 0 /\ worker'.created = 0
        /\ worker'.at = "waiting" \/ (worker'.at = "starting" /\ job[worker.job] # NoRow)
      BY <1>0, <1>6, <2>1 DEF FindRow, Poll, WorkerState
  <2>3. JobsTypeOK'
      BY <2>1, <2>2 DEF JobsTypeOK, WorkerState
  <2>4. Untouched(worker.job)' /\ worker'.at = "starting" => job'[worker'.job].status = "queued"
      BY <2>1, <2>2, BlankJobs DEF Untouched
  <2>5. Told'
      BY <2>1, <2>2, <2>4 DEF Told, Untouched
  <2> QED BY <2>1, <2>2, <2>3, <2>5, TaskKeepsJobs DEF ProgressIsReal
<1>7. ASSUME Begin PROVE JobsInv'
  <2>1. PICK n \in 0 .. MaxFiles :
          /\ job' = [job EXCEPT ![worker.job].status = "running", ![worker.job].total = n]
          /\ worker' = [worker EXCEPT !.at = After(0, n)]
      BY <1>7 DEF Begin
  <2>2. /\ worker.at = "starting" /\ worker.job \in Jobs /\ Untouched(worker.job)
        /\ UNCHANGED <<submission, queue, ingested, dropped>>
        /\ worker.file = 0 /\ worker.created = 0 /\ job[worker.job].status = "queued"
      BY <1>7 DEF Begin, Told
  <2>3. /\ worker' \in WorkerState /\ worker'.job = worker.job
        /\ worker'.file = 0 /\ worker'.created = 0
        /\ worker'.at = After(0, n)
      BY <1>0, <2>1, <2>2 DEF WorkerState, After
  <2>4. /\ job[worker.job].done = 0 /\ job[worker.job].created = 0 /\ ingested[worker.job] = 0
        /\ job[worker.job] # NoRow
      BY <2>2, BlankJobs DEF Untouched
  <2>5. n \in Nat
      BY JobsAssumption
  <2>6. /\ job' \in [Jobs -> JobRow] /\ \A k \in Jobs \ {worker.job} : job'[k] = job[k]
        /\ job'[worker.job].done = 0 /\ job'[worker.job].created = 0
        /\ job'[worker.job].total = n /\ job'[worker.job].status = "running"
      BY <1>0, <2>1, <2>2, <2>4, <2>5 DEF JobRow, JobStatuses
  <2>7. JobsTypeOK'
      BY <2>2, <2>3, <2>6 DEF JobsTypeOK, WorkerState, JobRow
  <2>8. Told'
      BY <2>2, <2>3, <2>4, <2>5, <2>6 DEF Told, After
  <2> QED BY <2>2, <2>3, <2>4, <2>5, <2>6, <2>7, <2>8, TaskKeepsJobs DEF After
<1>8. ASSUME NEW n \in 0 .. 1, IngestFile(n) PROVE JobsInv'
  <2>1. /\ worker.at = "file" /\ worker.job \in Jobs
        /\ UNCHANGED <<submission, queue, ingested, dropped, job>>
        /\ worker' \in WorkerState /\ worker'.job = worker.job
        /\ worker'.at = "committing" /\ worker'.file = worker.file
        /\ worker'.created = worker.created + n
    <3>1. worker.at = "file" /\ worker.job \in Jobs
        BY <1>8 DEF IngestFile, Told
    <3>2. worker.created + n \in Nat
        BY <1>0
    <3>3. worker' = [worker EXCEPT !.at = "committing", !.created = worker.created + n]
        BY <1>8 DEF IngestFile
    <3>4. /\ worker' \in WorkerState /\ worker'.job = worker.job
          /\ worker'.at = "committing" /\ worker'.file = worker.file
          /\ worker'.created = worker.created + n
        BY <1>0, <3>2, <3>3 DEF WorkerState
    <3> QED BY <1>8, <3>1, <3>4 DEF IngestFile
  <2>2. JobsTypeOK'
      BY <2>1 DEF JobsTypeOK, WorkerState
  <2>3. Told'
      BY <1>0, <2>1 DEF Told
  <2> QED BY <2>1, <2>2, <2>3, TaskKeepsJobs DEF ProgressIsReal
<1>9. ASSUME CommitFile PROVE JobsInv'
  <2>1. /\ worker.at = "committing" /\ worker.job \in Jobs
        /\ UNCHANGED <<submission, queue, dropped, job>>
        /\ worker' \in WorkerState /\ worker'.job = worker.job
        /\ worker'.at = "reporting" /\ worker'.file = worker.file + 1
        /\ worker'.created = worker.created
        /\ ingested' \in [Jobs -> Nat] /\ ingested'[worker.job] = worker.created
        /\ \A k \in Jobs \ {worker.job} : ingested'[k] = ingested[k]
    <3>1. worker.at = "committing" /\ worker.job \in Jobs
        BY <1>9 DEF CommitFile, Told
    <3>2. /\ worker' = [worker EXCEPT !.at = "reporting", !.file = worker.file + 1]
          /\ ingested' = [ingested EXCEPT ![worker.job] = worker.created]
        BY <1>9 DEF CommitFile
    <3>3. worker.file + 1 \in Nat
        BY <1>0
    <3>4. /\ worker' \in WorkerState /\ worker'.job = worker.job
          /\ worker'.at = "reporting" /\ worker'.file = worker.file + 1
          /\ worker'.created = worker.created
        BY <1>0, <3>2, <3>3 DEF WorkerState
    <3>5. /\ ingested' \in [Jobs -> Nat] /\ ingested'[worker.job] = worker.created
          /\ \A k \in Jobs \ {worker.job} : ingested'[k] = ingested[k]
        BY <1>0, <3>1, <3>2
    <3> QED BY <1>9, <3>1, <3>4, <3>5 DEF CommitFile
  <2>2. JobsTypeOK'
      BY <2>1 DEF JobsTypeOK, WorkerState
  <2>3. /\ job[worker.job].created <= worker.created /\ job[worker.job].status = "running"
        /\ job[worker.job].done <= worker.file + 1 /\ worker.file + 1 <= job[worker.job].total
        /\ job[worker.job].done <= job[worker.job].total
      BY <1>0, <2>1 DEF Told
  <2>4. Told'
      BY <2>1, <2>3 DEF Told
  <2> QED BY <2>1, <2>2, <2>3, <2>4, TaskKeepsJobs
<1>10. ASSUME Report PROVE JobsInv'
  <2>1. /\ worker.at = "reporting" /\ worker.job \in Jobs
        /\ UNCHANGED <<submission, queue, ingested, dropped>>
        /\ worker' \in WorkerState /\ worker'.job = worker.job
        /\ worker'.at = After(worker.file, job[worker.job].total)
        /\ worker'.file = worker.file /\ worker'.created = worker.created
      BY <1>0, <1>10 DEF Report, Told, WorkerState, After
  <2>2. /\ worker.file <= job[worker.job].total /\ job[worker.job].status = "running"
        /\ ingested[worker.job] = worker.created
      BY <2>1 DEF Told
  <2>3. /\ job' \in [Jobs -> JobRow] /\ \A k \in Jobs \ {worker.job} : job'[k] = job[k]
        /\ job'[worker.job].done = worker.file /\ job'[worker.job].created = worker.created
        /\ job'[worker.job].total = job[worker.job].total /\ job'[worker.job].status = "running"
      BY <1>0, <1>10, <2>1, <2>2 DEF Report, JobRow, JobStatuses
  <2>4. JobsTypeOK'
      BY <2>1, <2>3 DEF JobsTypeOK, WorkerState, JobRow
  <2>5. Told'
      BY <1>0, <2>1, <2>2, <2>3 DEF Told, After
  <2>6. job[worker.job] # NoRow
      BY <2>2, BlankJobs
  <2> QED BY <1>0, <2>1, <2>2, <2>3, <2>4, <2>5, <2>6, TaskKeepsJobs DEF After
<1>11. ASSUME FileFails PROVE JobsInv'
  <2>1. /\ worker.at \in {"file", "committing", "reporting"} /\ worker.job \in Jobs
        /\ UNCHANGED <<submission, queue, ingested, dropped, job>>
        /\ worker' \in WorkerState /\ worker'.job = worker.job /\ worker'.at = "failing"
      BY <1>0, <1>11 DEF FileFails, Told, WorkerState
  <2>2. JobsTypeOK'
      BY <2>1 DEF JobsTypeOK, WorkerState
  <2>3. Told'
      BY <2>1 DEF Told
  <2> QED BY <2>1, <2>2, <2>3, TaskKeepsJobs DEF ProgressIsReal
<1> QED BY <1>1, <1>3, <1>4, <1>5, <1>6, <1>7, <1>8, <1>9, <1>10, <1>11 DEF Task

LEMMA JobsInvStep == JobsInv /\ [JobsNext]_jobsVars => JobsInv'
<1> SUFFICES ASSUME JobsInv, [JobsNext]_jobsVars PROVE JobsInv'
    OBVIOUS
<1>1. CASE QueueLost
  <2>1. /\ UNCHANGED <<submission, job, worker, ingested>>
        /\ queue' = {} /\ dropped' = dropped \cup queue
      BY <1>1 DEF QueueLost
  <2>2. JobsTypeOK'
      BY <2>1 DEF JobsInv, JobsTypeOK
  <2> QED BY <2>1, <2>2 DEF JobsInv, Handed, Told, ProgressIsReal, Untouched
<1>2. CASE UNCHANGED jobsVars
    BY <1>2 DEF jobsVars, JobsInv, JobsTypeOK, Handed, Told, ProgressIsReal, Untouched
<1> QED BY <1>1, <1>2, RequestKeepsJobs, TaskStep DEF JobsNext

\* The inductive invariant of the jobs.
THEOREM JobsInvariance == JobsSpec => []JobsInv
BY JobsInvInit, JobsInvStep, PTL DEF JobsSpec

\* However many jobs there are, whatever fails and whenever the worker is killed:
\* a job reports what its task has committed and no more (tasks.py:96).
THEOREM ReportsAreTrue == JobsSpec => []ProgressIsReal
<1>1. JobsInv => ProgressIsReal
    BY DEF JobsInv
<1> QED BY <1>1, JobsInvariance, PTL

\* A row is written by its own task only, which is over once the row says so.
LEMMA JobRowsAdvance ==
  ASSUME JobsInv, [JobsNext]_jobsVars, NEW j \in Jobs
  PROVE  /\ job'[j].done >= job[j].done /\ job'[j].created >= job[j].created
         /\ job[j].status \in Ended => job'[j] = job[j]
<1> USE DEF JobsInv
<1>0. /\ job[j] \in JobRow /\ job[j].done \in Nat /\ job[j].created \in Nat
      /\ worker.file \in Nat /\ worker.created \in Nat /\ job \in [Jobs -> JobRow]
      /\ ingested[j] \in Nat
    BY JobTypes
<1>1. CASE job'[j] = job[j]
    BY <1>0, <1>1
<1>2. ASSUME CommitRow(j) PROVE job[j] = NoRow /\ job'[j] = [NoRow EXCEPT !.status = "queued"]
    BY <1>2 DEF CommitRow, Submits, Handed, JobsTypeOK
<1>3. ASSUME job'[j] # job[j], NoProvider \/ Begin \/ Report \/ MarkFailed \/ MarkSucceeded
      PROVE  /\ worker.job = j /\ job[j].status \in {"queued", "running"}
             /\ job'[j].done >= job[j].done /\ job'[j].created >= job[j].created
  <2>1. worker.job = j /\ worker.at \in {"starting", "reporting", "failing", "finishing"}
      BY <1>3 DEF NoProvider, Begin, Report, MarkFailed, MarkSucceeded, JobsTypeOK
  <2>2. job[j].status \in {"queued", "running"}
      BY <2>1 DEF Told
  <2>3. CASE NoProvider \/ Begin \/ MarkFailed
    <3>1. job'[j].done = job[j].done /\ job'[j].created = job[j].created
        BY <1>0, <2>1, <2>3 DEF NoProvider, Begin, MarkFailed, JobRow
    <3> QED BY <1>0, <2>1, <2>2, <3>1
  <2>4. CASE Report
    <3>1. job'[j].done = worker.file /\ job'[j].created = worker.created
        BY <1>0, <2>1, <2>4 DEF Report, JobRow
    <3> QED BY <1>0, <2>1, <2>2, <2>4, <3>1 DEF Report, Told
  <2>5. CASE MarkSucceeded
    <3>1. job'[j].done = job[j].done /\ job'[j].created = worker.created
        BY <1>0, <2>1, <2>5 DEF MarkSucceeded, JobRow
    <3> QED BY <1>0, <2>1, <2>2, <2>5, <3>1 DEF MarkSucceeded, Told
  <2> QED BY <1>3, <2>3, <2>4, <2>5
<1>4. ASSUME job'[j] # job[j], ~CommitRow(j)
      PROVE  NoProvider \/ Begin \/ Report \/ MarkFailed \/ MarkSucceeded
    BY <1>4 DEF JobsNext, jobsVars, InsertRow, Enqueue, CommitRow, RollBack, PickUp, Task, Killed,
                QueueLost, FindRow, Poll, GiveUp, IngestFile, CommitFile, FileFails, StatusFails,
                JobsTypeOK
<1>5. ASSUME CommitRow(j)
      PROVE  /\ job'[j].done >= job[j].done /\ job'[j].created >= job[j].created
             /\ job[j].status \notin Ended
  <2>1. /\ job[j].done = 0 /\ job[j].created = 0 /\ job[j].status = "none"
        /\ job'[j].done = 0 /\ job'[j].created = 0
      BY <1>2, <1>5, BlankJobs
  <2> QED BY <2>1 DEF Ended
<1> QED BY <1>1, <1>3, <1>4, <1>5 DEF Ended

\* What a job has reported stays reported, and how it ended stays so, whatever
\* becomes of the worker (main.py, "Do NOT retry").
THEOREM ReportsStay == JobsSpec => ProgressIsForGood
<1>1. JobsInv /\ [JobsNext]_jobsVars =>
        [ \A j \in Jobs :
            /\ job'[j].done >= job[j].done /\ job'[j].created >= job[j].created
            /\ job[j].status \in Ended => job'[j] = job[j] ]_jobsVars
    BY JobRowsAdvance
<1> QED BY <1>1, JobsInvariance, PTL DEF JobsSpec, ProgressIsForGood

(***************************************************************************)
(* The four of them, one explored while the others rest.                   *)
(***************************************************************************)

\* What the run explores are behaviours of each component: so what is proved of
\* a component holds of the run's.
THEOREM PartsImplement ==
  PartsFair => JobsSpec /\ AccountsSpec /\ TrainingSpec /\ TokensSpec
<1>1. PartsInit => JobsInit /\ AccountsInit /\ TrainingInit /\ TokensInit
    BY DEF PartsInit
<1>2. [PartsNext]_partsVars => /\ [JobsNext]_jobsVars /\ [AccountsNext]_accountsVars
                              /\ [TrainingNext]_trainingVars /\ [TokensNext]_tokensVars
    BY DEF PartsNext, partsVars
<1> QED BY <1>1, <1>2, PTL DEF PartsFair, JobsSpec, AccountsSpec, TrainingSpec, TokensSpec

\* The types of all four.
THEOREM PartsTypes == PartsFair => []PartsTypeOK
<1>1. JobsInv /\ AccountsInv /\ TrainingInv /\ TokensInv => PartsTypeOK
    BY DEF PartsTypeOK, JobsInv, AccountsInv, TrainingInv, TokensInv
<1> QED BY <1>1, PartsImplement, JobsInvariance, AccountsInvariance, TrainingInvariance,
          TokensInvariance, PTL
================================================================================
