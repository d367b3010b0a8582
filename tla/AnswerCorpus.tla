----------------------------- MODULE AnswerCorpus -----------------------------
(***************************************************************************)
(* What ingestion promises to whoever asks a question, without rows, locks *)
(* or transactions: the texts that questions about each file are answered  *)
(* from.                                                                   *)
(*                                                                         *)
(* Files get new texts, some at a time and all at once; a new text takes   *)
(* the place of what was there, at once, as long as no two runs have ever  *)
(* overlapped; an administrator takes a text away.  Nothing else changes   *)
(* an answer: no text comes back, wanders to another file, or goes when a  *)
(* run fails.  Knowledge implements this module (Knowledge!Corpus).        *)
(***************************************************************************)
CONSTANTS Files, Texts

VARIABLES
  answered,  \* the texts that questions about each file are answered from
  raced      \* two runs have overlapped

vars == <<answered, raced>>

Init ==
  /\ answered = [f \in Files |-> {}]
  /\ raced = FALSE

\* No two files are answered from one text.
Unshared(texts) == \A f, g \in Files : f # g => texts[f] \cap texts[g] = {}

\* One transaction gives each of some files a new text.  After runs that
\* overlapped, older ones may stay beside it.
Ingest(files, new) ==
  /\ answered' \in [Files -> SUBSET Texts] /\ Unshared(answered')
  /\ \A f \in Files \ files : answered'[f] = answered[f]
  /\ \A f \in files :
       /\ new[f] \in answered'[f] /\ answered'[f] \subseteq answered[f] \cup {new[f]}
       /\ ~raced => answered'[f] = {new[f]}
  /\ UNCHANGED raced

\* An administrator deletes the document with one text of one file.
Delete(f, t) ==
  /\ t \in answered[f]
  /\ answered' = [answered EXCEPT ![f] = @ \ {t}]
  /\ UNCHANGED raced

Race ==
  /\ raced' = TRUE
  /\ UNCHANGED answered

Next ==
  \/ \E files \in SUBSET Files : \E new \in [files -> Texts] : Ingest(files, new)
  \/ \E f \in Files, t \in Texts : Delete(f, t)
  \/ Race

Spec == Init /\ [][Next]_vars

===============================================================================
