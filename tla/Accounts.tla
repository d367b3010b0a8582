------------------------------- MODULE Accounts -------------------------------
(***************************************************************************)
(* The user accounts of one tenant (api/v1/users.py).  An edit is a        *)
(* request in a transaction of its own, at READ COMMITTED: each statement  *)
(* sees what others have committed by then, and a written row stays locked *)
(* until the commit.                                                       *)
(*                                                                         *)
(* Labels and e-mail addresses are left out: they refuse an edit and do    *)
(* nothing else.  The roles of a user come to whether admin is one.        *)
(***************************************************************************)
EXTENDS FiniteSets, Naturals

CONSTANTS
  Users,     \* the ids of app_user rows, each given once
  FirstAdmin,
  Edits      \* requests that may be under way at the same time

ASSUME AccountsAssumption == FirstAdmin \in Users /\ IsFiniteSet(Users)

VARIABLES
  role,      \* the committed rows
  tokens,    \* the users who hold a token that says admin
  edit,      \* the requests under way
  \* history, read by no action
  raced      \* two edits that may take the admin role away have overlapped

accountsVars == <<role, tokens, edit, raced>>

KnownRoles == {"admin", "reader"}
Admins == {u \in Users : role[u] = "admin"}
NoEdit == [at |-> "none"]

AccountsInit ==
  /\ role = [u \in Users |-> IF u = FirstAdmin THEN "admin" ELSE "unused"]
  /\ tokens = {}
  /\ edit = [e \in Edits |-> NoEdit]
  /\ raced = FALSE

-------------------------------------------------------------------------------
\* The identity provider's word, and it stands until the token expires whatever
\* becomes of the user.
SignIn(u) ==
  /\ role[u] = "admin" /\ u \notin tokens
  /\ tokens' = tokens \cup {u}
  /\ UNCHANGED <<role, edit, raced>>

Expire(u) ==
  /\ u \in tokens
  /\ tokens' = tokens \ {u}
  /\ UNCHANGED <<role, edit, raced>>

\* May this edit take the admin role from someone?
Removes(ed) == ed.at # "none" /\ ed.op # "create" /\ ed.to # "admin"

\* A bug: roles would be taken as they come.
MutantAnyRole == KnownRoles \cup {"owner"}
\* _validate_roles lets no other pass.
GrantableRoles == KnownRoles

\* Requests of those who hold a token; own: for the caller's own account.
Requests ==
  {[at |-> "writing", own |-> FALSE, op |-> "create", on |-> u, to |-> r] :
     u \in {v \in Users : role[v] = "unused" /\ tokens # {}}, r \in GrantableRoles}
  \cup
  {[at |-> "reading", own |-> b = u, op |-> "update", on |-> u, to |-> r] :
     b \in tokens, u \in Users, r \in GrantableRoles}
  \cup
  {[at |-> "reading", own |-> b = u, op |-> "delete", on |-> u, to |-> "gone"] :
     b \in tokens, u \in Users}

BeginEdit(e) ==
  /\ edit[e] = NoEdit
  /\ \E r \in Requests :
       /\ edit' = [edit EXCEPT ![e] = r]
       /\ r.op = "create" => \A f \in Edits : edit[f] # NoEdit => edit[f].on # r.on
       /\ raced' = (raced \/ (Removes(r) /\ \E f \in Edits : Removes(edit[f])))
  /\ UNCHANGED <<role, tokens>>

Proceed(e, at) ==
  /\ edit' = [edit EXCEPT ![e].at = at]
  /\ UNCHANGED <<role, tokens, raced>>

\* Refused, or nothing to do.
Leave(e) ==
  /\ edit' = [edit EXCEPT ![e] = NoEdit]
  /\ UNCHANGED <<role, tokens, raced>>

Present(u) == role[u] \in KnownRoles
LosesAdmin(ed) == role[ed.on] = "admin" /\ ed.to # "admin"
\* One's own admin role, or account.
OwnGoal(ed) == ed.own /\ (ed.op = "delete" \/ LosesAdmin(ed))

ReadUser(e) ==
  /\ edit[e].at = "reading"
  /\ IF ~Present(edit[e].on) \/ OwnGoal(edit[e])
     THEN Leave(e)
     ELSE Proceed(e, IF LosesAdmin(edit[e]) THEN "counting" ELSE "writing")

\* A bug: the count would be compared with zero.
MutantCountAdmins(e) ==
  /\ edit[e].at = "counting"
  /\ IF Cardinality(Admins) < 1 THEN Leave(e) ELSE Proceed(e, "writing")
\* A statement of its own: it counts what is committed by now.
CountAdmins(e) ==
  /\ edit[e].at = "counting"
  /\ IF Cardinality(Admins) <= 1 THEN Leave(e) ELSE Proceed(e, "writing")

\* By id, whatever the row holds by now; a row that is gone ends the request.
WriteUser(e) ==
  /\ edit[e].at = "writing"
  /\ \A f \in Edits : ~(edit[f].at = "written" /\ edit[f].on = edit[e].on)
  /\ IF edit[e].op = "create" \/ Present(edit[e].on)
     THEN Proceed(e, "written") ELSE Leave(e)

CommitEdit(e) ==
  /\ edit[e].at = "written"
  /\ role' = [role EXCEPT ![edit[e].on] = edit[e].to]
  /\ edit' = [edit EXCEPT ![e] = NoEdit]
  /\ UNCHANGED <<tokens, raced>>

\* An unknown label, an address in use, a lost connection.
RollBackEdit(e) == edit[e] # NoEdit /\ Leave(e)

AccountsNext ==
  \/ \E u \in Users : SignIn(u) \/ Expire(u)
  \/ \E e \in Edits :
       \/ BeginEdit(e) \/ ReadUser(e) \/ CountAdmins(e) \/ WriteUser(e)
       \/ CommitEdit(e) \/ RollBackEdit(e)

AccountsSpec == AccountsInit /\ [][AccountsNext]_accountsVars

-------------------------------------------------------------------------------
(* Properties. *)

AccountsTypeOK ==
  /\ role \in [Users -> KnownRoles \cup {"unused", "gone"}]
  /\ tokens \subseteq Users
  /\ edit \in [Edits -> {NoEdit} \cup
       [at: {"reading", "counting", "writing", "written"}, own: BOOLEAN,
        op: {"create", "update", "delete"}, on: Users, to: KnownRoles \cup {"gone"}]]
  /\ raced \in BOOLEAN

\* The tenant never loses its last admin (users.py:20, "The last admin cannot be
\* deleted or demoted") through edits that take the role away one after the
\* other, whatever grants happen in between.  Two that overlap may each count
\* the other's victim.
AnAdminRemains == raced \/ Admins # {}
================================================================================
