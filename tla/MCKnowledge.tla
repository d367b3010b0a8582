----------------------------- MODULE MCKnowledge -----------------------------
(***************************************************************************)
(* Knowledge for TLC.  Two files and two texts: a file can be edited, take *)
(* the other's text, or exchange texts with it.  Three rows hold two live  *)
(* revisions and a tombstone, or the rows of two open transactions and     *)
(* what they replace.  One worker and one command line: the worker runs    *)
(* one job at a time (max_jobs).                                           *)
(***************************************************************************)
EXTENDS Knowledge, TLC

\* Texts differ only by name.
Interchangeable == Permutations(Texts)
===============================================================================
