----------------------------- MODULE MCApprovals -----------------------------
(***************************************************************************)
(* Approvals for TLC.  One proposal is enough: calls on different rows     *)
(* share nothing but the connector, and no call touches two rows.  Three   *)
(* calls let an approval be rolled back, repeated and then undone, or two  *)
(* approvals race a rejection.  Two admins and one analyst tell a proposer *)
(* who may decide from one who may not, and two deciders from each other.  *)
(***************************************************************************)
EXTENDS Approvals, TLC

\* Calls differ only by name, and so do the admins.
Interchangeable == Permutations(Calls) \cup Permutations(Admins)
===============================================================================
