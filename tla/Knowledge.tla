------------------------------- MODULE Knowledge -------------------------------
(***************************************************************************)
(* How one tenant's files become the documents that questions are answered *)
(* from: knowledge/ingest.py and knowledge/lifecycle.py as they are run by *)
(* the worker, one transaction for each file, and by the command line, one *)
(* transaction for them all, while administrators delete documents and     *)
(* somebody edits the files.                                               *)
(*                                                                         *)
(* Transactions are PostgreSQL's READ COMMITTED: a statement sees what is  *)
(* committed and what its own transaction did; a row that another open     *)
(* transaction has updated, or a hash it has inserted, makes it wait.      *)
(***************************************************************************)
EXTENDS Naturals, FiniteSets

CONSTANTS
  NFiles,     \* files under the directory, in sorted order
  Texts,      \* texts a file can hold, told apart by their hash
  NoText,     \* what a file holds when it cannot be parsed, or gives no chunk
  Ingesters,  \* processes that ingest the directory
  PerFile,    \* those that commit after each file: the worker
  Nobody,     \* no open transaction
  MaxRows     \* bound: rows the document table has room for

ASSUME KnowledgeAssumption ==
  /\ NFiles \in Nat \ {0} /\ MaxRows \in Nat
  /\ NoText \notin Texts
  /\ PerFile \subseteq Ingesters
  /\ Nobody \notin Ingesters

Paths == 1 .. NFiles
Rows == 1 .. MaxRows
Contents == Texts \cup {NoText}

VARIABLES
  disk,        \* what each file holds
  docs,        \* the document table
  pc,          \* where each ingester is
  at,          \* the file it is at
  text,        \* what it read there
  previous,    \* the revision it found live there: its row and its version
  \* history, read by no action
  overlapped,  \* two ingesters have run at the same time
  calm,        \* the ingester whose run, alone from the first, nothing disturbed
  elsewhere    \* the same, if it skipped a file because another one has its text

local == <<pc, at, text, previous>>
history == <<overlapped, calm, elsewhere>>
vars == <<disk, docs, local, history>>

Stages == {"free", "stored", "gone"}
Steps == {"idle", "read", "look", "insert", "retire", "commit", "done"}
\* by and lock: the open transaction that inserted the row, that superseded it.
Documents ==
  [stage: Stages, path: Paths, text: Contents, version: Nat,
   superseded: BOOLEAN, by: Ingesters \cup {Nobody}, lock: Ingesters \cup {Nobody}]

Blank(stage) ==
  [stage |-> stage, path |-> 1, text |-> NoText, version |-> 0,
   superseded |-> FALSE, by |-> Nobody, lock |-> Nobody]
NoRevision == [row |-> 0, version |-> 0]

Busy(i) == pc[i] \notin {"idle", "done"}

Init ==
  /\ disk \in [Paths -> Contents]
  /\ docs = [r \in Rows |-> Blank("free")]
  /\ pc = [i \in Ingesters |-> "idle"]
  /\ at = [i \in Ingesters |-> 1]
  /\ text = [i \in Ingesters |-> NoText]
  /\ previous = [i \in Ingesters |-> NoRevision]
  /\ overlapped = FALSE
  /\ calm = {} /\ elsewhere = {}

-------------------------------------------------------------------------------
(* What can be seen of the table. *)

\* superseded_at IS NULL, for one who has no transaction open: retrieval.
Retrieved(r) ==
  /\ docs[r].stage = "stored" /\ docs[r].by = Nobody
  /\ docs[r].superseded => docs[r].lock # Nobody

\* superseded_at IS NULL, inside i's transaction.
Live(i, r) ==
  /\ docs[r].stage = "stored" /\ docs[r].by \in {Nobody, i}
  /\ docs[r].superseded => docs[r].lock \notin {Nobody, i}

\* A bug: the hash would be checked against committed rows, by no unique index.
MutantNoIndex(i, t) == {r \in Rows : Retrieved(r) /\ docs[r].text = t}
\* Rows in the unique index over live hashes that stop i from inserting t.
Clashes(i, t) ==
  {r \in Rows : /\ docs[r].stage = "stored" /\ docs[r].text = t
                /\ docs[r].superseded => docs[r].lock \notin {Nobody, i}}

-------------------------------------------------------------------------------
(* One run over the directory. *)

\* What i knew of a file is forgotten.
Forget(i) ==
  /\ text' = [text EXCEPT ![i] = NoText]
  /\ previous' = [previous EXCEPT ![i] = NoRevision]

\* The next file, or the end: the command line has its transaction to commit.
Advance(i) ==
  /\ IF at[i] < NFiles
     THEN pc' = [pc EXCEPT ![i] = "read"] /\ at' = [at EXCEPT ![i] = @ + 1]
     ELSE /\ pc' = [pc EXCEPT ![i] = IF i \in PerFile THEN "done" ELSE "commit"]
          /\ at' = [at EXCEPT ![i] = 1]
  /\ Forget(i)

\* A run begins: a job taken from the queue, or the command line.
Start(i) ==
  LET others == {j \in Ingesters \ {i} : Busy(j)}
  IN /\ ~Busy(i)
     /\ pc' = [pc EXCEPT ![i] = "read"]
     /\ overlapped' = (overlapped \/ others # {})
     /\ calm' = IF others = {} /\ ~overlapped THEN {i} ELSE {}
     /\ elsewhere' = {}
     /\ UNCHANGED <<disk, docs, at, text, previous>>

\* parse_document gives a text to hash.
Read(i) ==
  /\ pc[i] = "read" /\ disk[at[i]] # NoText
  /\ text' = [text EXCEPT ![i] = disk[at[i]]]
  /\ pc' = [pc EXCEPT ![i] = "look"]
  /\ UNCHANGED <<disk, docs, at, previous, history>>

\* ParseError, or no chunks: skipped.
ReadNothing(i) ==
  /\ pc[i] = "read" /\ disk[at[i]] = NoText
  /\ Advance(i)
  /\ UNCHANGED <<disk, docs, history>>

\* A bug: tombstoned revisions would count too.
MutantAnyRevision(i) ==
  {r \in Rows : /\ docs[r].stage = "stored" /\ docs[r].by \in {Nobody, i}
                /\ docs[r].text = text[i]}
\* Live rows with the text that was read: nothing to do when there is one.
Duplicates(i) == {r \in Rows : Live(i, r) /\ docs[r].text = text[i]}

Skip(i) ==
  /\ pc[i] = "look" /\ Duplicates(i) # {}
  /\ Advance(i)
  /\ elsewhere' = IF \A r \in Duplicates(i) : docs[r].path = at[i]
                  THEN elsewhere ELSE calm \cap {i}
  /\ UNCHANGED <<disk, docs, overlapped, calm>>

\* find_live_by_source: ORDER BY version DESC LIMIT 1.
LiveAt(i, p) == {r \in Rows : Live(i, r) /\ docs[r].path = p}
Newest(i, p) ==
  {r \in LiveAt(i, p) : \A s \in LiveAt(i, p) : docs[s].version <= docs[r].version}

Look(i) ==
  /\ pc[i] = "look" /\ Duplicates(i) = {}
  /\ \/ /\ LiveAt(i, at[i]) = {}
        /\ previous' = [previous EXCEPT ![i] = NoRevision]
     \/ \E r \in Newest(i, at[i]) :
          previous' = [previous EXCEPT ![i] = [row |-> r, version |-> docs[r].version]]
  /\ pc' = [pc EXCEPT ![i] = "insert"]
  /\ UNCHANGED <<disk, docs, at, text, history>>

\* INSERT INTO document: while a row of another open transaction holds the hash
\* this waits, and a committed one is an error: see Fail.
Insert(i) ==
  /\ pc[i] = "insert" /\ Clashes(i, text[i]) = {}
  /\ \E r \in Rows :
       /\ docs[r].stage = "free"
       /\ \A s \in Rows : docs[s].stage = "free" => r <= s
       /\ docs' = [docs EXCEPT ![r] =
            [stage |-> "stored", path |-> at[i], text |-> text[i],
             version |-> previous[i].version + 1,
             superseded |-> FALSE, by |-> i, lock |-> Nobody]]
  /\ pc' = [pc EXCEPT ![i] = "retire"]
  /\ UNCHANGED <<disk, at, text, previous, history>>

\* supersede_document: the UPDATE matches the previous revision unless it has
\* been deleted or superseded meanwhile.
Tombstones(i) ==
  {r \in Rows : r = previous[i].row /\ docs[r].stage = "stored" /\ ~docs[r].superseded}

\* The worker commits what it wrote for a file before it takes the next one.
Written(i) ==
  IF i \in PerFile
  THEN pc' = [pc EXCEPT ![i] = "commit"] /\ UNCHANGED <<at, text, previous>>
  ELSE Advance(i)

\* A bug: the previous revision would be tombstoned outside the transaction.
MutantOwnTransaction(i) ==
  /\ pc[i] = "retire"
  /\ \A r \in Rows : r = previous[i].row => docs[r].lock = Nobody
  /\ docs' = [r \in Rows |-> IF r \in Tombstones(i)
                             THEN [docs[r] EXCEPT !.superseded = TRUE] ELSE docs[r]]
  /\ Written(i)
  /\ UNCHANGED <<disk, history>>
\* A bug: the previous revision would be left as it is.
MutantNoTombstone(i) ==
  /\ pc[i] = "retire"
  /\ Written(i)
  /\ UNCHANGED <<disk, docs, history>>
\* The chunks are embedded and inserted, and the previous revision tombstoned,
\* once no other open transaction holds it.
Retire(i) ==
  /\ pc[i] = "retire"
  /\ \A r \in Rows : r = previous[i].row => docs[r].lock = Nobody
  /\ docs' = [r \in Rows |-> IF r \in Tombstones(i)
                             THEN [docs[r] EXCEPT !.superseded = TRUE, !.lock = i]
                             ELSE docs[r]]
  /\ Written(i)
  /\ UNCHANGED <<disk, history>>

\* What i's transaction did is there for all.
Settled(i, d) == [d EXCEPT !.by = IF @ = i THEN Nobody ELSE @,
                           !.lock = IF @ = i THEN Nobody ELSE @]

Commit(i) ==
  /\ pc[i] = "commit"
  /\ docs' = [r \in Rows |-> Settled(i, docs[r])]
  /\ IF i \in PerFile THEN Advance(i)
     ELSE pc' = [pc EXCEPT ![i] = "done"] /\ UNCHANGED <<at, text, previous>>
  /\ UNCHANGED <<disk, history>>

\* What is left of row d when i's transaction is rolled back.
Undone(i, d) ==
  IF d.by = i THEN Blank("free")
  ELSE [d EXCEPT !.superseded = @ /\ d.lock # i,
                 !.lock = IF @ = i THEN Nobody ELSE @]

\* The provider fails, the hash is taken, two transactions wait for each other,
\* or the process dies: the open transaction is rolled back and the run ends.
Fail(i) ==
  /\ Busy(i)
  /\ docs' = [r \in Rows |-> Undone(i, docs[r])]
  /\ pc' = [pc EXCEPT ![i] = "idle"]
  /\ at' = [at EXCEPT ![i] = 1]
  /\ Forget(i)
  /\ UNCHANGED <<disk, history>>

-------------------------------------------------------------------------------
\* A bug: the revision that was superseded by it would be live again.
MutantRevives(r) ==
  /\ docs[r].stage = "stored" /\ docs[r].by = Nobody /\ docs[r].lock = Nobody
  /\ docs' = [s \in Rows |->
       IF s = r THEN Blank("gone")
       ELSE IF docs[s].path = docs[r].path /\ docs[s].version + 1 = docs[r].version
            THEN [docs[s] EXCEPT !.superseded = FALSE] ELSE docs[s]]
  /\ calm' = {} /\ elsewhere' = {}
  /\ UNCHANGED <<disk, local, overlapped>>
\* DELETE /v1/documents/{id}: the document and its chunks, once nobody holds it.
Delete(r) ==
  /\ docs[r].stage = "stored" /\ docs[r].by = Nobody /\ docs[r].lock = Nobody
  /\ docs' = [docs EXCEPT ![r] = Blank("gone")]
  /\ calm' = {} /\ elsewhere' = {}
  /\ UNCHANGED <<disk, local, overlapped>>

\* Somebody saves a file, or makes it unreadable.
Edit(p, c) ==
  /\ disk[p] # c
  /\ disk' = [disk EXCEPT ![p] = c]
  /\ calm' = {} /\ elsewhere' = {}
  /\ UNCHANGED <<docs, local, overlapped>>

Step(i) ==
  \/ Start(i) \/ Read(i) \/ ReadNothing(i) \/ Skip(i) \/ Look(i)
  \/ Insert(i) \/ Retire(i) \/ Commit(i) \/ Fail(i)

Next ==
  \/ \E i \in Ingesters : Step(i)
  \/ \E r \in Rows : Delete(r)
  \/ \E p \in Paths, c \in Contents : Edit(p, c)

Spec == Init /\ [][Next]_vars

-------------------------------------------------------------------------------
(* Properties. *)

TypeOK ==
  /\ disk \in [Paths -> Contents]
  /\ docs \in [Rows -> Documents]
  /\ pc \in [Ingesters -> Steps]
  /\ at \in [Ingesters -> Paths]
  /\ text \in [Ingesters -> Contents]
  /\ previous \in [Ingesters -> [row: 0 .. MaxRows, version: Nat]]
  /\ overlapped \in BOOLEAN
  /\ calm \in SUBSET Ingesters /\ elsewhere \in SUBSET Ingesters

Answers(p) == {r \in Rows : Retrieved(r) /\ docs[r].path = p}

\* As long as no two runs have overlapped, a question is answered from at most
\* one revision of a file, whatever fails, is edited or is deleted in between.
OneRevision ==
  ~overlapped => \A p \in Paths : \A r, s \in Answers(p) : r = s

\* Two runs may overlap, and either may fail at any point: no two documents
\* that questions are answered from have the same text.
NoTextTwice ==
  \A r, s \in Rows :
    Retrieved(r) /\ Retrieved(s) /\ docs[r].text = docs[s].text => r = s

\* A file that questions are answered from does not drop out of the corpus,
\* whoever supersedes what and whichever transaction fails, unless an
\* administrator deletes a document.
NeverLost ==
  [][ \A p \in Paths :
        Answers(p) # {} => \/ Answers(p)' # {}
                           \/ \E r \in Answers(p) : docs'[r].stage = "gone" ]_vars

\* After a run that nothing disturbed, of one ingester at a time, each file that
\* gives a text is answered from that text and no other, if no file was skipped
\* because another one's document had its text.
FollowsEdits ==
  \A i \in calm \ elsewhere :
    pc[i] = "done" =>
      \A p \in Paths : disk[p] # NoText =>
        {docs[r].text : r \in Answers(p)} = {disk[p]}

\* What the README says of edits ("nobody is answered from a stale revision"):
\* after every such run, a file that gives a text is answered from no other.
NobodyAnsweredFromStale ==
  \A i \in calm :
    pc[i] = "done" =>
      \A p \in Paths : disk[p] # NoText =>
        \A r \in Answers(p) : docs[r].text = disk[p]

\* The texts that questions about each file are answered from, as one who asks
\* sees them, with whatever transactions are open.
Answered == [p \in Paths |-> {docs[r].text : r \in Answers(p)}]

Corpus == INSTANCE AnswerCorpus WITH Files <- Paths, answered <- Answered, raced <- overlapped

\* Ingestion is the machine AnswerCorpus: through every overlap, failure, roll-back
\* and deletion, an answer changes only by a commit of its file's new text, at
\* once for all the files of a transaction, or by an administrator's hand.
CorpusSpec == Corpus!Spec
================================================================================
