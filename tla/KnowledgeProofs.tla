---------------------------- MODULE KnowledgeProofs ----------------------------
(***************************************************************************)
(* Proofs about Knowledge, for any number of files, texts, ingesters and   *)
(* rows, and whatever commits per file.                                    *)
(*                                                                         *)
(* Two rows with one hash, or (while runs do not overlap) at one path, are *)
(* both standing only while one open transaction has inserted the one and  *)
(* tombstones the other: committing ends the one, rolling back the other.  *)
(***************************************************************************)
EXTENDS Knowledge, TLAPS

\* Neither deleted nor finally superseded.
Standing(r) ==
  docs[r].stage = "stored" /\ (docs[r].superseded => docs[r].lock # Nobody)

\* i's transaction has inserted s and tombstoned r.
Replaces(i, s, r) == docs[s].by = i /\ docs[r].lock = i
\* It has inserted s and is about to tombstone r.
Replacing(i, s, r) == docs[s].by = i /\ pc[i] = "retire" /\ previous[i].row = r

\* A row waits for an open transaction only: of a run that is at a step where
\* its transaction can have written.
Writes(i) == IF i \in PerFile THEN pc[i] \in {"retire", "commit"} ELSE Busy(i)
HolderInv ==
  \A r \in Rows, i \in Ingesters :
    /\ docs[r].by = i => Writes(i)
    /\ docs[r].lock = i => Writes(i) /\ docs[r].superseded

HashInv ==
  \A r, s \in Rows :
    r # s /\ Standing(r) /\ Standing(s) /\ docs[r].text = docs[s].text =>
      \E i \in Ingesters : Replaces(i, s, r) \/ Replaces(i, r, s)

Alone == \A i, j \in Ingesters : Busy(i) /\ Busy(j) => i = j

\* What find_live_by_source gave is still all there is to tombstone.
LookInv ==
  \A i \in Ingesters, r \in Rows :
    pc[i] = "insert" /\ Standing(r) /\ docs[r].path = at[i] =>
      previous[i].row = r \/ docs[r].lock = i

PathInv ==
  \A r, s \in Rows :
    r # s /\ Standing(r) /\ Standing(s) /\ docs[r].path = docs[s].path =>
      \E i \in Ingesters : \/ Replaces(i, s, r) \/ Replaces(i, r, s)
                           \/ Replacing(i, s, r) \/ Replacing(i, r, s)

IInv ==
  /\ TypeOK /\ HolderInv /\ HashInv
  /\ ~overlapped => Alone /\ LookInv /\ PathInv

USE KnowledgeAssumption

-------------------------------------------------------------------------------
(* Types. *)

\* Going on to the next file, or to the end, keeps the types of what is local.
LEMMA AdvanceType ==
  ASSUME TypeOK, NEW i \in Ingesters, Advance(i)
  PROVE  /\ pc' \in [Ingesters -> Steps] /\ at' \in [Ingesters -> Paths]
         /\ text' \in [Ingesters -> Contents]
         /\ previous' \in [Ingesters -> [row: 0 .. MaxRows, version: Nat]]
<1>1. at[i] < NFiles => at[i] + 1 \in Paths
  BY DEF TypeOK, Paths
<1>2. 1 \in Paths
  BY DEF Paths
<1>3. at' \in [Ingesters -> Paths]
  BY <1>1, <1>2 DEF TypeOK, Advance
<1>4. pc' \in [Ingesters -> Steps]
  BY DEF TypeOK, Advance, Steps
<1>5. NoRevision \in [row: 0 .. MaxRows, version: Nat]
  BY DEF NoRevision
<1>6. QED
  BY <1>3, <1>4, <1>5 DEF TypeOK, Advance, Forget, Contents

LEMMA BlankType == \A stage \in Stages : Blank(stage) \in Documents
BY DEF Blank, Documents, Paths, Contents

\* Superseding a row, settling it and rolling it back leave it a row.
LEMMA RowTypes ==
  ASSUME NEW d \in Documents, NEW i \in Ingesters
  PROVE  /\ [d EXCEPT !.superseded = TRUE, !.lock = i] \in Documents
         /\ Settled(i, d) \in Documents
         /\ Undone(i, d) \in Documents
<1>1. [d EXCEPT !.superseded = TRUE, !.lock = i] \in Documents
  BY DEF Documents
<1>2. \A x, y \in Ingesters \cup {Nobody} : [d EXCEPT !.by = x, !.lock = y] \in Documents
  BY DEF Documents
<1>3. d.by \in Ingesters \cup {Nobody} /\ d.lock \in Ingesters \cup {Nobody}
      /\ d.superseded \in BOOLEAN
  BY DEF Documents
<1>4. Settled(i, d) \in Documents
  <2>1. \A x, y : x = (IF d.by = i THEN Nobody ELSE d.by)
                 /\ y = (IF d.lock = i THEN Nobody ELSE d.lock)
                 => Settled(i, d) = [d EXCEPT !.by = x, !.lock = y]
    BY DEF Settled
  <2>2. PICK x, y \in Ingesters \cup {Nobody} :
          /\ x = IF d.by = i THEN Nobody ELSE d.by
          /\ y = IF d.lock = i THEN Nobody ELSE d.lock
    BY <1>3
  <2>3. Settled(i, d) = [d EXCEPT !.by = x, !.lock = y]
    BY <2>1, <2>2
  <2>4. QED
    BY <1>2, <2>3
<1>5. \A b \in BOOLEAN, y \in Ingesters \cup {Nobody} :
        [d EXCEPT !.superseded = b, !.lock = y] \in Documents
  BY DEF Documents
<1>6. Undone(i, d) \in Documents
  <2>1. CASE d.by = i
    BY <2>1, BlankType DEF Undone, Stages
  <2>2. CASE d.by # i
    <3>1. Undone(i, d) = [d EXCEPT !.superseded = d.superseded /\ d.lock # i,
                                   !.lock = IF d.lock = i THEN Nobody ELSE d.lock]
      BY <2>2 DEF Undone, Documents
    <3>2. (d.superseded /\ d.lock # i) \in BOOLEAN
      BY <1>3
    <3>3. PICK b \in BOOLEAN, y \in Ingesters \cup {Nobody} :
            /\ b = (d.superseded /\ d.lock # i)
            /\ y = IF d.lock = i THEN Nobody ELSE d.lock
      BY <1>3, <3>2
    <3>4. Undone(i, d) = [d EXCEPT !.superseded = b, !.lock = y]
      BY <3>1, <3>3
    <3>5. QED
      BY <1>5, <3>4
  <2>3. QED
    BY <2>1, <2>2
<1>7. QED
  BY <1>1, <1>4, <1>6

LEMMA InitType == Init => TypeOK
<1>1. NoRevision \in [row: 0 .. MaxRows, version: Nat] /\ 1 \in Paths
  BY DEF NoRevision, Paths
<1>2. Blank("free") \in Documents
  BY BlankType DEF Stages
<1>3. QED
  <2> SUFFICES ASSUME Init PROVE TypeOK
    OBVIOUS
  <2>1. docs \in [Rows -> Documents]
    BY <1>2 DEF Init
  <2>2. previous \in [Ingesters -> [row: 0 .. MaxRows, version: Nat]]
    BY <1>1 DEF Init
  <2>3. pc \in [Ingesters -> Steps] /\ at \in [Ingesters -> Paths]
        /\ text \in [Ingesters -> Contents]
    BY <1>1 DEF Init, Steps, Contents
  <2>4. disk \in [Paths -> Contents] /\ overlapped \in BOOLEAN
        /\ calm \in SUBSET Ingesters /\ elsewhere \in SUBSET Ingesters
    BY DEF Init
  <2>5. QED
    BY <2>1, <2>2, <2>3, <2>4 DEF TypeOK

LEMMA StepType == TypeOK /\ [Next]_vars => TypeOK'
<1> SUFFICES ASSUME TypeOK, [Next]_vars PROVE TypeOK'
  OBVIOUS
<1>1. ASSUME NEW i \in Ingesters, Start(i) PROVE TypeOK'
  BY <1>1 DEF TypeOK, Start, Steps
<1>2. ASSUME NEW i \in Ingesters, Read(i) PROVE TypeOK'
  BY <1>2 DEF TypeOK, Read, Steps, history
<1>3. ASSUME NEW i \in Ingesters, ReadNothing(i) \/ Skip(i) PROVE TypeOK'
  <2>1. Advance(i) /\ UNCHANGED <<disk, docs, overlapped, calm>>
    BY <1>3 DEF ReadNothing, Skip, history
  <2>2. elsewhere' \in SUBSET Ingesters
    BY <1>3 DEF ReadNothing, Skip, history, TypeOK
  <2>3. QED
    BY <2>1, <2>2, AdvanceType DEF TypeOK
<1>4. ASSUME NEW i \in Ingesters, Look(i) PROVE TypeOK'
  <2>1. NoRevision \in [row: 0 .. MaxRows, version: Nat]
    BY DEF NoRevision
  <2>2. \A r \in Rows : [row |-> r, version |-> docs[r].version]
                        \in [row: 0 .. MaxRows, version: Nat]
    BY DEF TypeOK, Documents, Rows
  <2>3. previous' \in [Ingesters -> [row: 0 .. MaxRows, version: Nat]]
    BY <1>4, <2>1, <2>2 DEF TypeOK, Look, Newest, LiveAt
  <2>4. QED
    BY <1>4, <2>3 DEF TypeOK, Look, Steps, history
<1>5. ASSUME NEW i \in Ingesters, Insert(i) PROVE TypeOK'
  <2>1. previous[i].version + 1 \in Nat
    BY DEF TypeOK
  <2>2. docs' \in [Rows -> Documents]
    BY <1>5, <2>1 DEF TypeOK, Insert, Documents, Stages
  <2>3. QED
    BY <1>5, <2>2 DEF TypeOK, Insert, Steps, history
<1>6. ASSUME NEW i \in Ingesters, Retire(i) PROVE TypeOK'
  <2>1. docs' \in [Rows -> Documents]
    BY <1>6, RowTypes DEF TypeOK, Retire
  <2>2. UNCHANGED <<disk, overlapped, calm, elsewhere>>
    BY <1>6 DEF Retire, history
  <2>3. CASE i \in PerFile
    BY <1>6, <2>1, <2>2, <2>3 DEF TypeOK, Retire, Written, Steps
  <2>4. CASE i \notin PerFile
    BY <1>6, <2>1, <2>2, <2>4, AdvanceType DEF TypeOK, Retire, Written
  <2>5. QED
    BY <2>3, <2>4
<1>7. ASSUME NEW i \in Ingesters, Commit(i) PROVE TypeOK'
  <2>1. docs' \in [Rows -> Documents]
    BY <1>7, RowTypes DEF TypeOK, Commit
  <2>2. UNCHANGED <<disk, overlapped, calm, elsewhere>>
    BY <1>7 DEF Commit, history
  <2>3. CASE i \in PerFile
    BY <1>7, <2>1, <2>2, <2>3, AdvanceType DEF TypeOK, Commit
  <2>4. CASE i \notin PerFile
    BY <1>7, <2>1, <2>2, <2>4 DEF TypeOK, Commit, Steps
  <2>5. QED
    BY <2>3, <2>4
<1>8. ASSUME NEW i \in Ingesters, Fail(i) PROVE TypeOK'
  <2>1. docs' \in [Rows -> Documents]
    BY <1>8, RowTypes DEF TypeOK, Fail
  <2>2. NoRevision \in [row: 0 .. MaxRows, version: Nat] /\ 1 \in Paths
    BY DEF NoRevision, Paths
  <2>3. QED
    BY <1>8, <2>1, <2>2 DEF TypeOK, Fail, Forget, Steps, Contents, history
<1>9. ASSUME NEW r \in Rows, Delete(r) PROVE TypeOK'
  BY <1>9, BlankType DEF TypeOK, Delete, Stages, local
<1>10. ASSUME NEW p \in Paths, NEW c \in Contents, Edit(p, c) PROVE TypeOK'
  BY <1>10 DEF TypeOK, Edit, local
<1>11. CASE UNCHANGED vars
  BY <1>11 DEF TypeOK, vars, local, history
<1>12. QED
  BY <1>1, <1>2, <1>3, <1>4, <1>5, <1>6, <1>7, <1>8, <1>9, <1>10, <1>11 DEF Next, Step

\* Every variable keeps its type.
THEOREM TypeCorrect == Spec => []TypeOK
<1>1. QED
  BY InitType, StepType, PTL DEF Spec

-------------------------------------------------------------------------------
(* What commit and rollback do to a row. *)

LEMMA SettledRow ==
  ASSUME NEW d \in Documents, NEW i \in Ingesters
  PROVE  /\ Settled(i, d).stage = d.stage /\ Settled(i, d).path = d.path
         /\ Settled(i, d).text = d.text /\ Settled(i, d).superseded = d.superseded
         /\ Settled(i, d).by = IF d.by = i THEN Nobody ELSE d.by
         /\ Settled(i, d).lock = IF d.lock = i THEN Nobody ELSE d.lock
BY DEF Settled, Documents

LEMMA UndoneRow ==
  ASSUME NEW d \in Documents, NEW i \in Ingesters
  PROVE  /\ d.by = i => Undone(i, d) = Blank("free")
         /\ d.by # i =>
              /\ Undone(i, d).stage = d.stage /\ Undone(i, d).path = d.path
              /\ Undone(i, d).text = d.text /\ Undone(i, d).by = d.by
              /\ Undone(i, d).superseded = (d.superseded /\ d.lock # i)
              /\ Undone(i, d).lock = IF d.lock = i THEN Nobody ELSE d.lock
BY DEF Undone, Documents

LEMMA BlankRow ==
  ASSUME NEW stage
  PROVE  /\ Blank(stage).stage = stage /\ Blank(stage).superseded = FALSE
         /\ Blank(stage).by = Nobody /\ Blank(stage).lock = Nobody
BY DEF Blank

\* What the tombstone does to each row.
LEMMA RetireRows ==
  ASSUME TypeOK, NEW i \in Ingesters, Retire(i), NEW r \in Rows
  PROVE  /\ docs'[r].stage = docs[r].stage /\ docs'[r].by = docs[r].by
         /\ docs'[r].text = docs[r].text /\ docs'[r].path = docs[r].path
         /\ r \in Tombstones(i) => /\ docs'[r].superseded = TRUE /\ docs'[r].lock = i
                                   /\ docs[r].lock = Nobody /\ ~docs[r].superseded
                                   /\ docs[r].stage = "stored" /\ r = previous[i].row
         /\ r \notin Tombstones(i) => docs'[r] = docs[r]
<1>1. CASE r \notin Tombstones(i)
  BY <1>1 DEF Retire
<1>2. CASE r \in Tombstones(i)
  <2>1. docs[r] \in Documents /\ docs'[r] = [docs[r] EXCEPT !.superseded = TRUE, !.lock = i]
    BY <1>2 DEF Retire, TypeOK
  <2>2. /\ docs[r].lock = Nobody /\ ~docs[r].superseded
        /\ docs[r].stage = "stored" /\ r = previous[i].row
    BY <1>2 DEF Retire, Tombstones
  <2>3. QED
    BY <1>2, <2>1, <2>2 DEF Documents
<1>3. QED
  BY <1>1, <1>2

LEMMA RetiredRow ==
  ASSUME TypeOK, NEW i \in Ingesters, Retire(i), NEW r \in Tombstones(i)
  PROVE  /\ r \in Rows /\ docs'[r].superseded = TRUE /\ docs'[r].lock = i
         /\ docs[r].stage = "stored" /\ r = previous[i].row
<1>1. r \in Rows
  BY DEF Tombstones
<1>2. docs[r] \in Documents /\ docs'[r] = [docs[r] EXCEPT !.superseded = TRUE, !.lock = i]
  BY <1>1 DEF Retire, TypeOK
<1>3. docs[r].stage = "stored" /\ r = previous[i].row
  BY DEF Tombstones
<1>4. QED
  BY <1>1, <1>2, <1>3 DEF Documents

\* What a rollback does to each row.
LEMMA FailRows ==
  ASSUME TypeOK, NEW i \in Ingesters, Fail(i), NEW r \in Rows
  PROVE  /\ docs[r].by = i => docs'[r].stage = "free" /\ docs'[r].by = Nobody
                              /\ docs'[r].lock = Nobody
         /\ docs[r].by # i =>
              /\ docs'[r].stage = docs[r].stage /\ docs'[r].by = docs[r].by
              /\ docs'[r].text = docs[r].text /\ docs'[r].path = docs[r].path
              /\ docs'[r].superseded = (docs[r].superseded /\ docs[r].lock # i)
              /\ docs'[r].lock = IF docs[r].lock = i THEN Nobody ELSE docs[r].lock
<1>1. docs[r] \in Documents /\ docs'[r] = Undone(i, docs[r])
  BY DEF Fail, TypeOK
<1>2. CASE docs[r].by = i
  <2>1. docs'[r] = Blank("free")
    BY <1>1, <1>2, UndoneRow
  <2>2. QED
    BY <1>2, <2>1, BlankRow
<1>3. CASE docs[r].by # i
  BY <1>1, <1>3, UndoneRow
<1>4. QED
  BY <1>2, <1>3

-------------------------------------------------------------------------------
(* The three invariants about rows, one action at a time. *)

Core == TypeOK /\ HolderInv /\ HashInv

\* A step of i that writes nothing and does not end a run that has written.
LEMMA QuietStep ==
  ASSUME Core, NEW i \in Ingesters, docs' = docs,
         pc[i] \notin {"retire", "commit"},
         NEW x \in Steps, pc' = [pc EXCEPT ![i] = x],
         x = "idle" \/ x = "done" => i \in PerFile,
         \A k \in Ingesters \ {i} : previous'[k] = previous[k]
  PROVE  HolderInv' /\ HashInv' /\ (PathInv => PathInv')
<1>1. \A k \in Ingesters : Writes(k) => Writes(k)'
  BY DEF Core, TypeOK, Writes, Busy
<1>2. HolderInv'
  BY <1>1 DEF Core, HolderInv
<1>3. HashInv'
  BY DEF Core, HashInv, Standing, Replaces
<1>4. ASSUME PathInv PROVE PathInv'
  <2>1. \A k \in Ingesters : pc[k] = "retire" => pc'[k] = "retire" /\ previous'[k] = previous[k]
    BY DEF Core, TypeOK
  <2>2. QED
    BY <1>4, <2>1 DEF PathInv, Standing, Replaces, Replacing
<1>5. QED
  BY <1>2, <1>3, <1>4

\* INSERT: no standing row has the hash, but those i's transaction tombstones.
LEMMA InsertStep ==
  ASSUME Core, NEW i \in Ingesters, Insert(i)
  PROVE  HolderInv' /\ HashInv' /\ (LookInv /\ PathInv => PathInv')
<1>1. PICK n \in Rows :
        /\ docs[n].stage = "free"
        /\ docs' = [docs EXCEPT ![n] =
             [stage |-> "stored", path |-> at[i], text |-> text[i],
              version |-> previous[i].version + 1,
              superseded |-> FALSE, by |-> i, lock |-> Nobody]]
  BY DEF Insert
<1>2. /\ docs'[n].by = i /\ docs'[n].lock = Nobody /\ docs'[n].text = text[i]
      /\ docs'[n].path = at[i] /\ docs'[n].superseded = FALSE
      /\ \A r \in Rows \ {n} : docs'[r] = docs[r]
  BY <1>1 DEF Core, TypeOK
<1>3. pc' = [pc EXCEPT ![i] = "retire"] /\ pc[i] = "insert" /\ UNCHANGED <<at, previous>>
  BY DEF Insert
<1>4. /\ pc'[i] = "retire"
      /\ \A k \in Ingesters \ {i} : pc'[k] = pc[k]
  BY <1>3 DEF Core, TypeOK
<1>5. \A k \in Ingesters : Writes(k) => Writes(k)'
  BY <1>4 DEF Writes, Busy
<1>6. Writes(i)'
  BY <1>4 DEF Writes, Busy
<1>7. HolderInv'
  BY <1>2, <1>5, <1>6 DEF Core, HolderInv
<1>8. \A r \in Rows \ {n} : Standing(r)' => Standing(r)
  BY <1>2 DEF Standing
<1>9. \A r \in Rows \ {n} : Standing(r) /\ docs[r].text = text[i] => docs[r].lock = i
  BY DEF Insert, Clashes, Standing
<1>10. HashInv'
  BY <1>2, <1>8, <1>9 DEF Core, HashInv, Replaces
<1>11. ASSUME LookInv, PathInv PROVE PathInv'
  <2>1. \A r \in Rows \ {n} : Standing(r) /\ docs[r].path = at[i] =>
                               previous[i].row = r \/ docs[r].lock = i
    BY <1>3, <1>11 DEF LookInv
  <2>2. \A k \in Ingesters : pc[k] = "retire" => k # i
    BY <1>3
  <2>3. SUFFICES ASSUME NEW r \in Rows, NEW s \in Rows, r # s, Standing(r)', Standing(s)',
                        docs'[r].path = docs'[s].path
                 PROVE  \E k \in Ingesters :
                          \/ Replaces(k, s, r)' \/ Replaces(k, r, s)'
                          \/ Replacing(k, s, r)' \/ Replacing(k, r, s)'
    BY DEF PathInv
  <2>4. CASE r # n /\ s # n
    BY <1>2, <1>3, <1>4, <1>8, <1>11, <2>2, <2>3, <2>4 DEF PathInv, Replaces, Replacing
  <2>5. CASE s = n
    BY <1>2, <1>3, <1>4, <1>8, <2>1, <2>3, <2>5 DEF Replaces, Replacing
  <2>6. CASE r = n
    BY <1>2, <1>3, <1>4, <1>8, <2>1, <2>3, <2>6 DEF Replaces, Replacing
  <2>7. QED
    BY <2>4, <2>5, <2>6
<1>12. QED
  BY <1>7, <1>10, <1>11

\* UPDATE: the tombstone goes on a row that no transaction holds, and i's
\* transaction may have inserted the row that stands beside it.
LEMMA RetireStep ==
  ASSUME Core, NEW i \in Ingesters, Retire(i)
  PROVE  HolderInv' /\ HashInv' /\ (PathInv => PathInv')
<1>1. /\ pc[i] = "retire"
      /\ \A r \in Rows : r = previous[i].row => docs[r].lock = Nobody
  BY DEF Retire
<1>2. \A r \in Rows :
        /\ docs'[r].stage = docs[r].stage /\ docs'[r].by = docs[r].by
        /\ docs'[r].text = docs[r].text /\ docs'[r].path = docs[r].path
        /\ r \in Tombstones(i) => docs'[r].superseded = TRUE /\ docs'[r].lock = i
        /\ r \notin Tombstones(i) => docs'[r] = docs[r]
  <2> TAKE r \in Rows
  <2>1. TypeOK
    BY DEF Core
  <2>2. /\ docs'[r].stage = docs[r].stage /\ docs'[r].by = docs[r].by
        /\ docs'[r].text = docs[r].text /\ docs'[r].path = docs[r].path
        /\ r \notin Tombstones(i) => docs'[r] = docs[r]
    BY <2>1, RetireRows
  <2>3. CASE r \notin Tombstones(i)
    BY <2>2, <2>3
  <2>4. CASE r \in Tombstones(i)
    <3>1. /\ docs'[r].superseded = TRUE /\ docs'[r].lock = i
          /\ docs[r].stage = "stored" /\ r = previous[i].row
      BY <2>1, <2>4, RetiredRow
    <3> QED BY <2>2, <2>4, <3>1
  <2> QED BY <2>3, <2>4
<1>3. \A r \in Tombstones(i) : docs[r].lock = Nobody /\ Standing(r)
  BY <1>1 DEF Tombstones, Standing
<1>4. /\ Writes(i)' /\ \A k \in Ingesters \ {i} : pc'[k] = pc[k] /\ previous'[k] = previous[k]
  <2>1. CASE i \in PerFile
    BY <2>1 DEF Core, TypeOK, Retire, Written, Writes
  <2>2. CASE i \notin PerFile
    BY <2>2 DEF Core, TypeOK, Retire, Written, Advance, Forget, Writes, Busy
  <2>3. QED
    BY <2>1, <2>2
<1>5. \A k \in Ingesters : Writes(k) => Writes(k)'
  BY <1>4 DEF Writes, Busy
<1>6. HolderInv'
  BY <1>2, <1>4, <1>5 DEF Core, HolderInv
<1>7. \A r \in Rows : Standing(r)' => Standing(r)
  BY <1>2, <1>3 DEF Standing
<1>8. \A k \in Ingesters, r, s \in Rows : Replaces(k, s, r) => Replaces(k, s, r)'
  BY <1>2, <1>3 DEF Replaces
<1>9. HashInv'
  BY <1>2, <1>7, <1>8 DEF Core, HashInv
<1>10. \A k \in Ingesters, r, s \in Rows :
         Standing(r) /\ Replacing(k, s, r) => Replaces(k, s, r)' \/ Replacing(k, s, r)'
  <2>1. \A r \in Rows : Standing(r) /\ previous[i].row = r => r \in Tombstones(i)
    BY <1>1 DEF Standing, Tombstones, Core, TypeOK, Documents
  <2>2. QED
    BY <1>2, <1>4, <2>1 DEF Replacing, Replaces
<1>11. PathInv => PathInv'
  BY <1>2, <1>7, <1>8, <1>10 DEF PathInv
<1>12. QED
  BY <1>6, <1>9, <1>11

\* COMMIT: what i's transaction tombstoned stands no more.
LEMMA CommitStep ==
  ASSUME Core, NEW i \in Ingesters, Commit(i)
  PROVE  HolderInv' /\ HashInv' /\ (PathInv => PathInv')
<1>1. \A r \in Rows : docs'[r] = Settled(i, docs[r]) /\ docs[r] \in Documents
  BY DEF Commit, Core, TypeOK
<1>2. \A r \in Rows :
        /\ docs'[r].stage = docs[r].stage /\ docs'[r].superseded = docs[r].superseded
        /\ docs'[r].text = docs[r].text /\ docs'[r].path = docs[r].path
        /\ docs'[r].by = IF docs[r].by = i THEN Nobody ELSE docs[r].by
        /\ docs'[r].lock = IF docs[r].lock = i THEN Nobody ELSE docs[r].lock
  BY <1>1, SettledRow
<1>3. /\ pc[i] = "commit"
      /\ \A k \in Ingesters \ {i} : pc'[k] = pc[k] /\ previous'[k] = previous[k]
  BY DEF Core, TypeOK, Commit, Advance, Forget
<1>4. HolderInv'
  BY <1>2, <1>3 DEF Core, HolderInv, Writes, Busy
<1>5. \A r \in Rows : Standing(r)' => Standing(r) /\ docs[r].lock # i
  BY <1>2 DEF Standing, Core, HolderInv
<1>6. \A k \in Ingesters, r, s \in Rows :
        /\ docs[r].lock # i /\ Replaces(k, s, r) => Replaces(k, s, r)'
        /\ Replacing(k, s, r) => Replacing(k, s, r)'
  BY <1>2, <1>3 DEF Replaces, Replacing
<1>7. HashInv'
  BY <1>2, <1>5, <1>6 DEF Core, HashInv
<1>8. PathInv => PathInv'
  BY <1>2, <1>5, <1>6 DEF PathInv
<1>9. QED
  BY <1>4, <1>7, <1>8

\* ROLLBACK: what i's transaction inserted is gone, and what it tombstoned is
\* as it was.
LEMMA FailStep ==
  ASSUME Core, NEW i \in Ingesters, Fail(i)
  PROVE  HolderInv' /\ HashInv' /\ (PathInv => PathInv')
<1>1. \A r \in Rows : docs[r] \in Documents
  BY DEF Core, TypeOK
<1>2. \A r \in Rows : docs[r].by # i =>
        /\ docs'[r].stage = docs[r].stage /\ docs'[r].by = docs[r].by
        /\ docs'[r].text = docs[r].text /\ docs'[r].path = docs[r].path
        /\ docs'[r].superseded = (docs[r].superseded /\ docs[r].lock # i)
        /\ docs'[r].lock = IF docs[r].lock = i THEN Nobody ELSE docs[r].lock
  BY FailRows DEF Core
<1>3. \A r \in Rows : docs[r].by = i =>
        docs'[r].stage = "free" /\ docs'[r].by = Nobody /\ docs'[r].lock = Nobody
  BY FailRows DEF Core
<1>4. \A k \in Ingesters \ {i} : pc'[k] = pc[k] /\ previous'[k] = previous[k]
  BY DEF Core, TypeOK, Fail, Forget
<1>5. HolderInv'
  <2>1. \A k \in Ingesters \ {i} : Writes(k) => Writes(k)'
    BY <1>4 DEF Writes, Busy
  <2>2. \A r \in Rows, k \in Ingesters :
          /\ docs'[r].by = k => k # i /\ docs[r].by = k
          /\ docs'[r].lock = k => /\ k # i /\ docs[r].lock = k
                                 /\ docs'[r].superseded = docs[r].superseded
    <3>1. SUFFICES ASSUME NEW r \in Rows, NEW k \in Ingesters
                   PROVE  /\ docs'[r].by = k => k # i /\ docs[r].by = k
                          /\ docs'[r].lock = k =>
                               /\ k # i /\ docs[r].lock = k
                               /\ docs'[r].superseded = docs[r].superseded
      OBVIOUS
    <3>2. docs[r].superseded \in BOOLEAN
      BY <1>1 DEF Documents
    <3>3. CASE docs[r].by = i
      BY <1>3, <3>3
    <3>4. CASE docs[r].by # i
      BY <1>2, <3>2, <3>4
    <3>5. QED
      BY <3>3, <3>4
  <2>3. QED
    BY <2>1, <2>2 DEF Core, HolderInv
<1>6. \A r \in Rows : Standing(r)' => Standing(r) /\ docs[r].by # i
  BY <1>2, <1>3 DEF Standing
<1>7. \A k \in Ingesters, r, s \in Rows :
        docs[r].by # i /\ docs[s].by # i =>
          /\ Replaces(k, s, r) => Replaces(k, s, r)'
          /\ Replacing(k, s, r) => Replacing(k, s, r)'
  BY <1>2, <1>4 DEF Replaces, Replacing
<1>8. HashInv'
  BY <1>2, <1>6, <1>7 DEF Core, HashInv
<1>9. PathInv => PathInv'
  BY <1>2, <1>6, <1>7 DEF PathInv
<1>10. QED
  BY <1>5, <1>8, <1>9

\* DELETE: one row fewer.
LEMMA DeleteStep ==
  ASSUME Core, NEW d \in Rows, Delete(d)
  PROVE  HolderInv' /\ HashInv' /\ (PathInv => PathInv')
<1>1. /\ \A r \in Rows \ {d} : docs'[r] = docs[r]
      /\ docs'[d].stage = "gone" /\ docs'[d].by = Nobody /\ docs'[d].lock = Nobody
      /\ UNCHANGED <<pc, previous>>
  BY BlankRow DEF Delete, Core, TypeOK, local
<1>2. HolderInv'
  BY <1>1 DEF Core, HolderInv, Writes, Busy
<1>3. \A r \in Rows : Standing(r)' => Standing(r) /\ r # d
  BY <1>1 DEF Standing
<1>4. HashInv'
  BY <1>1, <1>3 DEF Core, HashInv, Replaces
<1>5. PathInv => PathInv'
  BY <1>1, <1>3 DEF PathInv, Replaces, Replacing
<1>6. QED
  BY <1>2, <1>4, <1>5

-------------------------------------------------------------------------------
(* Runs that do not overlap. *)

\* While no two runs have overlapped, one ingester at most is at work, and what
\* it is about to insert will stand beside the row it is to tombstone only.
Orderly == ~overlapped => Alone /\ LookInv /\ PathInv

\* The only run there is sees one live row at a path, but while it has a row to
\* tombstone.
LEMMA OneLive ==
  ASSUME Core, Alone, PathInv, NEW i \in Ingesters, Busy(i), pc[i] # "retire", NEW p \in Paths
  PROVE  \A r, s \in LiveAt(i, p) : r = s
<1>1. SUFFICES ASSUME NEW r \in LiveAt(i, p), NEW s \in LiveAt(i, p), r # s
               PROVE  FALSE
  OBVIOUS
<1>2. Standing(r) /\ Standing(s) /\ docs[r].path = docs[s].path
      /\ r \in Rows /\ s \in Rows
  BY <1>1 DEF LiveAt, Live, Standing
<1>3. docs[r].lock # i \/ ~docs[r].superseded
  BY <1>1 DEF LiveAt, Live
<1>4. docs[s].lock # i \/ ~docs[s].superseded
  BY <1>1 DEF LiveAt, Live
<1>5. PICK k \in Ingesters : \/ Replaces(k, s, r) \/ Replaces(k, r, s)
                            \/ Replacing(k, s, r) \/ Replacing(k, r, s)
  BY <1>1, <1>2 DEF PathInv
<1>6. k = i
  BY <1>2, <1>5 DEF Core, HolderInv, Alone, Writes, Busy, Replaces, Replacing
<1>7. QED
  BY <1>2, <1>3, <1>4, <1>5, <1>6 DEF Core, HolderInv, Replaces, Replacing

\* find_live_by_source, by the only run there is, sees every standing row.
LEMMA LookStep ==
  ASSUME Core, Alone, LookInv, PathInv, NEW i \in Ingesters, Look(i)
  PROVE  LookInv'
<1>1. /\ pc[i] = "look" /\ pc' = [pc EXCEPT ![i] = "insert"]
      /\ UNCHANGED <<docs, at>>
      /\ \A k \in Ingesters \ {i} : previous'[k] = previous[k]
  BY DEF Look, Core, TypeOK
<1>2. \A r \in Rows : Standing(r) /\ docs[r].lock # i => Live(i, r)
  <2>1. \A r \in Rows, k \in Ingesters : docs[r].by = k \/ docs[r].lock = k => k = i
    BY <1>1 DEF Core, HolderInv, Alone, Writes, Busy
  <2>2. \A r \in Rows : /\ docs[r].by \in Ingesters \cup {Nobody}
                        /\ docs[r].lock \in Ingesters \cup {Nobody}
    BY DEF Core, TypeOK, Documents
  <2>3. QED
    BY <2>1, <2>2 DEF Standing, Live
<1>3. \A r, s \in LiveAt(i, at[i]) : r = s
  BY <1>1, OneLive DEF Busy, Core, TypeOK
<1>4. \A r \in LiveAt(i, at[i]) : previous'[i].row = r
  BY <1>3 DEF Look, Newest, Core, TypeOK
<1>5. \A k \in Ingesters \ {i} : pc'[k] = "insert" => pc[k] = "insert"
  BY <1>1
<1>6. \A r \in Rows : Standing(r) /\ docs[r].path = at[i] =>
                     previous'[i].row = r \/ docs[r].lock = i
  BY <1>2, <1>4 DEF LiveAt
<1>7. QED
  BY <1>1, <1>5, <1>6 DEF LookInv, Standing

\* A step of a run that has begun leaves the others where they are.
LEMMA OrderlyStep ==
  ASSUME Core, Orderly, NEW i \in Ingesters, Step(i), ~Start(i)
  PROVE  Orderly'
<1> SUFFICES ASSUME ~overlapped' PROVE Alone' /\ LookInv' /\ PathInv'
  BY DEF Orderly
<1>1. /\ Busy(i) /\ overlapped' = overlapped
      /\ \A k \in Ingesters \ {i} : pc'[k] = pc[k]
  BY DEF Step, Busy, Core, TypeOK, Read, ReadNothing, Skip, Look, Insert, Retire,
         Written, Commit, Fail, Advance, history
<1>2. Alone /\ LookInv /\ PathInv
  BY <1>1 DEF Orderly
<1>3. Alone'
  BY <1>1, <1>2 DEF Alone, Busy
<1>4. \A k \in Ingesters \ {i} : pc'[k] # "insert"
  BY <1>1, <1>2 DEF Alone, Busy
<1>5. LookInv'
  <2>1. CASE Look(i)
    BY <1>2, <2>1, LookStep
  <2>2. CASE ~Look(i)
    <3>1. pc'[i] # "insert"
      BY <2>2 DEF Step, Core, TypeOK, Read, ReadNothing, Skip, Insert, Retire,
                  Written, Commit, Fail, Advance
    <3>2. QED
      BY <1>4, <3>1 DEF LookInv
  <2>3. QED
    BY <2>1, <2>2
<1>6. PathInv'
  <2>1. CASE Read(i)
    BY <1>2, <2>1, QuietStep DEF Read, Steps, Core
  <2>2. CASE ReadNothing(i) \/ Skip(i)
    <3>1. /\ docs' = docs /\ pc[i] \notin {"retire", "commit"} /\ Advance(i)
      BY <2>2 DEF ReadNothing, Skip
    <3>2. PICK x \in Steps : /\ pc' = [pc EXCEPT ![i] = x]
                             /\ x = "idle" \/ x = "done" => i \in PerFile
      BY <3>1 DEF Advance, Steps
    <3>3. \A k \in Ingesters \ {i} : previous'[k] = previous[k]
      BY <3>1 DEF Advance, Forget, Core, TypeOK
    <3>4. QED
      BY <1>2, <3>1, <3>2, <3>3, QuietStep
  <2>3. CASE Look(i)
    <3>1. \A k \in Ingesters \ {i} : previous'[k] = previous[k]
      BY <2>3 DEF Look, Core, TypeOK
    <3>2. QED
      BY <1>2, <2>3, <3>1, QuietStep DEF Look, Steps
  <2>4. QED
    BY <1>2, <2>1, <2>2, <2>3, InsertStep, RetireStep, CommitStep, FailStep DEF Step
<1>7. QED
  BY <1>3, <1>5, <1>6

\* A run begins: unless the others are at rest, runs overlap from here on.
LEMMA StartStep ==
  ASSUME Core, Orderly, NEW i \in Ingesters, Start(i)
  PROVE  HolderInv' /\ HashInv' /\ Orderly'
<1>1. /\ docs' = docs /\ UNCHANGED <<at, previous>> /\ pc' = [pc EXCEPT ![i] = "read"]
      /\ ~Busy(i) /\ pc[i] \notin {"retire", "commit"}
  BY DEF Start, Busy
<1>2. HolderInv' /\ HashInv' /\ (PathInv => PathInv')
  BY <1>1, QuietStep DEF Steps
<1>3. ASSUME ~overlapped' PROVE Alone' /\ LookInv' /\ PathInv'
  <2>1. ~overlapped /\ \A j \in Ingesters \ {i} : ~Busy(j)
    BY <1>3 DEF Start, Core, TypeOK
  <2>2. \A j \in Ingesters \ {i} : pc'[j] = pc[j]
    BY <1>1 DEF Core, TypeOK
  <2>3. Alone'
    BY <2>1, <2>2 DEF Alone, Busy
  <2>4. LookInv'
    BY <1>1, <2>1, <2>2 DEF LookInv, Orderly, Standing, Busy, Core, TypeOK
  <2>5. QED
    BY <1>2, <2>1, <2>3, <2>4 DEF Orderly
<1>4. QED
  BY <1>2, <1>3 DEF Orderly

LEMMA CoreStep ==
  ASSUME Core, NEW i \in Ingesters, Step(i), ~Start(i)
  PROVE  HolderInv' /\ HashInv'
<1>1. CASE Read(i)
  BY <1>1, QuietStep DEF Read, Steps
<1>2. CASE ReadNothing(i) \/ Skip(i)
  <2>1. /\ docs' = docs /\ pc[i] \notin {"retire", "commit"} /\ Advance(i)
    BY <1>2 DEF ReadNothing, Skip
  <2>2. PICK x \in Steps : /\ pc' = [pc EXCEPT ![i] = x]
                           /\ x = "idle" \/ x = "done" => i \in PerFile
    BY <2>1 DEF Advance, Steps
  <2>3. \A k \in Ingesters \ {i} : previous'[k] = previous[k]
    BY <2>1 DEF Advance, Forget, Core, TypeOK
  <2>4. QED
    BY <2>1, <2>2, <2>3, QuietStep
<1>3. CASE Look(i)
  <2>1. \A k \in Ingesters \ {i} : previous'[k] = previous[k]
    BY <1>3 DEF Look, Core, TypeOK
  <2>2. QED
    BY <1>3, <2>1, QuietStep DEF Look, Steps
<1>4. QED
  BY <1>1, <1>2, <1>3, InsertStep, RetireStep, CommitStep, FailStep DEF Step

-------------------------------------------------------------------------------
(* The theorems. *)

LEMMA InitInv == Init => IInv
<1> SUFFICES ASSUME Init PROVE IInv
  OBVIOUS
<1>1. /\ \A i \in Ingesters : pc[i] = "idle"
      /\ \A r \in Rows : docs[r].stage = "free" /\ docs[r].by = Nobody /\ docs[r].lock = Nobody
  BY BlankRow DEF Init
<1>2. QED
  BY <1>1, InitType DEF IInv, HolderInv, HashInv, Standing, Alone, Busy, LookInv, PathInv

LEMMA StepInv == IInv /\ [Next]_vars => IInv'
<1> SUFFICES ASSUME IInv, [Next]_vars PROVE HolderInv' /\ HashInv' /\ Orderly'
  BY StepType DEF IInv, Orderly
<1>1. Core /\ Orderly
  BY DEF IInv, Core, Orderly
<1>2. ASSUME NEW i \in Ingesters, Step(i) PROVE HolderInv' /\ HashInv' /\ Orderly'
  BY <1>1, <1>2, CoreStep, OrderlyStep, StartStep
<1>3. ASSUME NEW r \in Rows, Delete(r) PROVE HolderInv' /\ HashInv' /\ Orderly'
  <2>1. /\ UNCHANGED <<local, overlapped>>
        /\ \A s \in Rows : s = r \/ docs'[s] = docs[s]
        /\ docs'[r].stage = "gone"
    BY <1>1, <1>3, BlankRow DEF Delete, Core, TypeOK
  <2>2. LookInv => LookInv'
    BY <2>1 DEF LookInv, Standing, local
  <2>3. Alone => Alone'
    BY <2>1 DEF Alone, Busy, local
  <2>4. QED
    BY <1>1, <1>3, <2>1, <2>2, <2>3, DeleteStep DEF Orderly
<1>4. ASSUME UNCHANGED <<docs, local, overlapped>>
      PROVE  HolderInv' /\ HashInv' /\ Orderly'
  BY <1>1, <1>4 DEF Core, Orderly, HolderInv, HashInv, Alone, LookInv, PathInv, Standing,
                    Replaces, Replacing, Writes, Busy, local
<1>5. QED
  BY <1>2, <1>3, <1>4 DEF Next, Edit, vars, history

\* The inductive invariant: a row that stands beside another with its hash, or
\* at its path, does so within one open transaction.
THEOREM Invariance == Spec => []IInv
<1>1. QED
  BY InitInv, StepInv, PTL DEF Spec

\* However many ingesters run at once, and whatever fails, no two documents that
\* questions are answered from have one text (uq_document_tenant_hash_live).
THEOREM TextsAreDistinct == Spec => []NoTextTwice
<1>1. IInv => NoTextTwice
  BY DEF IInv, NoTextTwice, Retrieved, HashInv, Standing, Replaces
<1>2. QED
  BY <1>1, Invariance, PTL

\* Without overlapping runs a file is answered from one revision at most
\* (knowledge/lifecycle.py, supersede_document).
THEOREM OneRevisionAtATime == Spec => []OneRevision
<1>1. IInv => OneRevision
  BY DEF IInv, OneRevision, Answers, Retrieved, PathInv, Standing, Replaces, Replacing
<1>2. QED
  BY <1>1, Invariance, PTL

-------------------------------------------------------------------------------
(* What becomes of a file's rows: the successor of a tombstone. *)

\* What i's transaction has inserted at p.
Beside(i, p) == \E s \in Rows : docs[s].by = i /\ docs[s].path = p

\* A row not yet committed is not tombstoned.
FreshInv ==
  \A r \in Rows : docs[r].by # Nobody => docs[r].stage = "stored" /\ ~docs[r].superseded

\* What i's transaction has inserted is from a file that i has passed, or is at:
\* no row is tombstoned by the transaction that inserted it.
OwnInv ==
  \A r \in Rows, i \in Ingesters : docs[r].by = i =>
    \/ pc[i] = "commit"
    \/ docs[r].path < at[i]
    \/ docs[r].path = at[i] /\ pc[i] = "retire"

\* The revision that i has found is there, committed, unless it was deleted.
FoundInv ==
  \A i \in Ingesters, r \in Rows :
    pc[i] \in {"insert", "retire"} /\ previous[i].row = r =>
      \/ docs[r].stage = "gone"
      \/ docs[r].stage = "stored" /\ docs[r].by = Nobody /\ docs[r].path = at[i]

\* A tombstone goes on no row without one beside it, by the same transaction.
SuccessorInv ==
  /\ \A i \in Ingesters : pc[i] = "retire" => Beside(i, at[i])
  /\ \A i \in Ingesters, r \in Rows : docs[r].lock = i => Beside(i, docs[r].path)

TrailInv == FreshInv /\ OwnInv /\ FoundInv /\ SuccessorInv

\* A step of i leaves where the others are, and what they know.
LEMMA OthersStay ==
  ASSUME TypeOK, NEW i \in Ingesters, Step(i), NEW j \in Ingesters \ {i}
  PROVE  pc'[j] = pc[j] /\ at'[j] = at[j] /\ text'[j] = text[j] /\ previous'[j] = previous[j]
<1>1. CASE Start(i) \/ Read(i) \/ Look(i) \/ Insert(i) \/ Fail(i)
  BY <1>1 DEF TypeOK, Start, Read, Look, Insert, Fail, Forget
<1>2. ASSUME Advance(i)
      PROVE  pc'[j] = pc[j] /\ at'[j] = at[j] /\ text'[j] = text[j] /\ previous'[j] = previous[j]
  BY <1>2 DEF TypeOK, Advance, Forget
<1>3. CASE ReadNothing(i) \/ Skip(i)
  BY <1>2, <1>3 DEF ReadNothing, Skip
<1>4. CASE Retire(i)
  BY <1>2, <1>4 DEF TypeOK, Retire, Written
<1>5. CASE Commit(i)
  BY <1>2, <1>5 DEF TypeOK, Commit
<1>6. QED
  BY <1>1, <1>3, <1>4, <1>5 DEF Step

\* Going on leaves the file behind, or ends the run.
LEMMA AdvanceMoves ==
  ASSUME TypeOK, NEW i \in Ingesters, Advance(i)
  PROVE  \/ at[i] < NFiles /\ pc'[i] = "read" /\ at'[i] = at[i] + 1
         \/ at[i] = NFiles /\ at'[i] = 1 /\ pc'[i] = IF i \in PerFile THEN "done" ELSE "commit"
BY DEF TypeOK, Advance, Paths

LEMMA TrailStart == Init => TrailInv
<1> SUFFICES ASSUME Init PROVE TrailInv
  OBVIOUS
<1>1. /\ \A i \in Ingesters : pc[i] = "idle"
      /\ \A r \in Rows : docs[r].by = Nobody /\ docs[r].lock = Nobody
  BY BlankRow DEF Init
<1>2. QED
  BY <1>1 DEF TrailInv, FreshInv, OwnInv, FoundInv, SuccessorInv

\* A step that writes nothing.
LEMMA TrailQuiet ==
  ASSUME Core, TrailInv, NEW i \in Ingesters,
         Start(i) \/ Read(i) \/ ReadNothing(i) \/ Skip(i) \/ Look(i)
  PROVE  TrailInv'
<1>1. docs' = docs /\ pc[i] \notin {"insert", "retire", "commit"}
  BY DEF Start, Busy, Read, ReadNothing, Skip, Look
<1>2. \A j \in Ingesters \ {i} :
        pc'[j] = pc[j] /\ at'[j] = at[j] /\ previous'[j] = previous[j]
  BY OthersStay DEF Step, Core
<1>3. \A r \in Rows : docs[r].by = i => ~Start(i) /\ i \notin PerFile /\ docs[r].path < at[i]
  BY <1>1 DEF Core, HolderInv, Writes, TrailInv, OwnInv, Start
<1>4. \/ pc'[i] = "commit"
      \/ at'[i] \in {at[i], at[i] + 1}
      \/ Start(i) \/ i \in PerFile
  BY AdvanceMoves DEF Core, Read, ReadNothing, Skip, Look
<1>5. at[i] \in Nat /\ \A r \in Rows : docs[r].path \in Nat
  BY DEF Core, TypeOK, Documents, Paths
<1>6. OwnInv'
  BY <1>1, <1>2, <1>3, <1>4, <1>5 DEF TrailInv, OwnInv
<1>7. FoundInv'
  <2>1. CASE Look(i)
    <3>1. \A r \in Rows : pc'[i] = "insert" /\ at'[i] = at[i]
                          /\ (previous'[i].row = r => r \in LiveAt(i, at[i]))
      BY <2>1 DEF Look, Newest, NoRevision, Rows, Core, TypeOK
    <3>2. \A r \in LiveAt(i, at[i]) :
            docs[r].stage = "stored" /\ docs[r].by = Nobody /\ docs[r].path = at[i]
      BY <1>3, <1>5 DEF LiveAt, Live
    <3>3. QED
      BY <1>1, <1>2, <3>1, <3>2 DEF TrailInv, FoundInv
  <2>2. CASE ~Look(i)
    <3>1. pc'[i] \notin {"insert", "retire"}
      BY <2>2, AdvanceMoves DEF Core, TypeOK, Start, Read, ReadNothing, Skip
    <3>2. QED
      BY <1>1, <1>2, <3>1 DEF TrailInv, FoundInv
  <2>3. QED
    BY <2>1, <2>2
<1>8. pc'[i] # "retire"
  BY AdvanceMoves DEF Core, TypeOK, Start, Read, ReadNothing, Skip, Look
<1>9. SuccessorInv'
  BY <1>1, <1>2, <1>8 DEF TrailInv, SuccessorInv, Beside
<1>10. FreshInv'
  BY <1>1 DEF TrailInv, FreshInv
<1>11. QED
  BY <1>6, <1>7, <1>9, <1>10 DEF TrailInv

LEMMA TrailInsert == ASSUME Core, TrailInv, NEW i \in Ingesters, Insert(i) PROVE TrailInv'
<1>1. PICK n \in Rows :
        /\ docs[n].stage = "free"
        /\ docs' = [docs EXCEPT ![n] =
             [stage |-> "stored", path |-> at[i], text |-> text[i],
              version |-> previous[i].version + 1,
              superseded |-> FALSE, by |-> i, lock |-> Nobody]]
  BY DEF Insert
<1>2. /\ docs'[n].stage = "stored" /\ docs'[n].by = i /\ docs'[n].lock = Nobody
      /\ docs'[n].path = at[i] /\ docs'[n].superseded = FALSE
      /\ \A r \in Rows \ {n} : docs'[r] = docs[r]
  BY <1>1 DEF Core, TypeOK
<1>3. /\ pc[i] = "insert" /\ pc'[i] = "retire" /\ at' = at /\ previous' = previous
      /\ \A j \in Ingesters \ {i} : pc'[j] = pc[j]
  BY DEF Insert, Core, TypeOK
<1>4. docs[n].by = Nobody
  BY <1>1 DEF TrailInv, FreshInv
<1>5. FreshInv'
  BY <1>2 DEF TrailInv, FreshInv
<1>6. OwnInv'
  BY <1>2, <1>3 DEF TrailInv, OwnInv
<1>7. FoundInv'
  BY <1>1, <1>2, <1>3 DEF TrailInv, FoundInv
<1>8. Beside(i, at[i])' /\ \A j \in Ingesters, q \in Paths : Beside(j, q) => Beside(j, q)'
  BY <1>2, <1>3, <1>4 DEF Beside
<1>9. SuccessorInv'
  BY <1>2, <1>3, <1>8 DEF TrailInv, SuccessorInv, Core, TypeOK, Documents
<1>10. QED
  BY <1>5, <1>6, <1>7, <1>9 DEF TrailInv

LEMMA TrailRetire == ASSUME Core, TrailInv, NEW i \in Ingesters, Retire(i) PROVE TrailInv'
<1>1. \A r \in Rows :
        /\ docs'[r].stage = docs[r].stage /\ docs'[r].by = docs[r].by
        /\ docs'[r].path = docs[r].path
        /\ r \in Tombstones(i) => docs'[r].lock = i /\ docs[r].stage = "stored"
                                  /\ r = previous[i].row
        /\ r \notin Tombstones(i) => docs'[r] = docs[r]
  <2> TAKE r \in Rows
  <2>1. TypeOK
    BY DEF Core
  <2>2. /\ docs'[r].stage = docs[r].stage /\ docs'[r].by = docs[r].by
        /\ docs'[r].text = docs[r].text /\ docs'[r].path = docs[r].path
        /\ r \notin Tombstones(i) => docs'[r] = docs[r]
    BY <2>1, RetireRows
  <2>3. CASE r \notin Tombstones(i)
    BY <2>2, <2>3
  <2>4. CASE r \in Tombstones(i)
    <3>1. /\ docs'[r].superseded = TRUE /\ docs'[r].lock = i
          /\ docs[r].stage = "stored" /\ r = previous[i].row
      BY <2>1, <2>4, RetiredRow
    <3> QED BY <2>2, <2>4, <3>1
  <2> QED BY <2>3, <2>4
<1>2. \A j \in Ingesters \ {i} :
        pc'[j] = pc[j] /\ at'[j] = at[j] /\ previous'[j] = previous[j]
  BY OthersStay DEF Step, Core
<1>3. /\ pc[i] = "retire" /\ pc'[i] \notin {"insert", "retire"}
      /\ pc'[i] = "commit" \/ at'[i] = at[i] + 1
  <2>1. CASE i \in PerFile
    BY <2>1 DEF Retire, Written, Core, TypeOK
  <2>2. CASE i \notin PerFile
    BY <2>2, AdvanceMoves DEF Retire, Written, Core
  <2>3. QED
    BY <2>1, <2>2
<1>4. \A r \in Tombstones(i) : r \in Rows /\ docs[r].by = Nobody /\ docs[r].path = at[i]
  BY <1>1, <1>3 DEF TrailInv, FoundInv, Tombstones
<1>5. FreshInv'
  BY <1>1, <1>4 DEF TrailInv, FreshInv
<1>6. at[i] \in Nat /\ \A r \in Rows : docs[r].path \in Nat
  BY DEF Core, TypeOK, Documents, Paths
<1>7. OwnInv'
  BY <1>1, <1>2, <1>3, <1>6 DEF TrailInv, OwnInv
<1>8. FoundInv'
  BY <1>1, <1>2, <1>3 DEF TrailInv, FoundInv
<1>9. \A j, q : Beside(j, q)' <=> Beside(j, q)
  BY <1>1 DEF Beside
<1>10. SuccessorInv'
  BY <1>1, <1>2, <1>3, <1>4, <1>9 DEF TrailInv, SuccessorInv
<1>11. QED
  BY <1>5, <1>7, <1>8, <1>10 DEF TrailInv

LEMMA TrailCommit == ASSUME Core, TrailInv, NEW i \in Ingesters, Commit(i) PROVE TrailInv'
<1>1. \A r \in Rows :
        /\ docs'[r].stage = docs[r].stage /\ docs'[r].superseded = docs[r].superseded
        /\ docs'[r].path = docs[r].path
        /\ docs'[r].by = IF docs[r].by = i THEN Nobody ELSE docs[r].by
        /\ docs'[r].lock = IF docs[r].lock = i THEN Nobody ELSE docs[r].lock
  BY SettledRow DEF Commit, Core, TypeOK
<1>2. \A j \in Ingesters \ {i} :
        pc'[j] = pc[j] /\ at'[j] = at[j] /\ previous'[j] = previous[j]
  BY OthersStay DEF Step, Core
<1>3. pc'[i] \notin {"insert", "retire"}
  BY AdvanceMoves DEF Commit, Core, TypeOK
<1>4. FreshInv'
  BY <1>1 DEF TrailInv, FreshInv
<1>5. \A r \in Rows, j \in Ingesters :
        /\ docs'[r].by = j => j # i /\ docs[r].by = j
        /\ docs'[r].lock = j => j # i /\ docs[r].lock = j
  BY <1>1
<1>6. OwnInv'
  BY <1>1, <1>2, <1>5 DEF TrailInv, OwnInv
<1>7. FoundInv'
  BY <1>1, <1>2, <1>3 DEF TrailInv, FoundInv
<1>8. \A j \in Ingesters \ {i}, q \in Paths : Beside(j, q) => Beside(j, q)'
  BY <1>1 DEF Beside
<1>9. SuccessorInv'
  BY <1>1, <1>2, <1>3, <1>5, <1>8 DEF TrailInv, SuccessorInv, Core, TypeOK, Documents
<1>10. QED
  BY <1>4, <1>6, <1>7, <1>9 DEF TrailInv

LEMMA TrailFail == ASSUME Core, TrailInv, NEW i \in Ingesters, Fail(i) PROVE TrailInv'
<1>1. \A r \in Rows :
         /\ docs[r].by = i => docs'[r].stage = "free" /\ docs'[r].by = Nobody
                              /\ docs'[r].lock = Nobody
         /\ docs[r].by # i =>
              /\ docs'[r].stage = docs[r].stage /\ docs'[r].by = docs[r].by
              /\ docs'[r].path = docs[r].path
              /\ docs'[r].superseded = (docs[r].superseded /\ docs[r].lock # i)
              /\ docs'[r].lock = IF docs[r].lock = i THEN Nobody ELSE docs[r].lock
  BY FailRows DEF Core
<1>2. \A j \in Ingesters \ {i} :
        pc'[j] = pc[j] /\ at'[j] = at[j] /\ previous'[j] = previous[j]
  BY OthersStay DEF Step, Core
<1>3. pc'[i] = "idle"
  BY DEF Fail, Core, TypeOK
<1>4. \A r \in Rows : docs'[r].by # Nobody => docs[r].by # i
  BY <1>1
<1>5. FreshInv'
  BY <1>1, <1>4 DEF TrailInv, FreshInv
<1>6. \A r \in Rows, j \in Ingesters :
        /\ docs'[r].by = j => j # i /\ docs[r].by = j /\ docs'[r].path = docs[r].path
        /\ docs'[r].lock = j => j # i /\ docs[r].lock = j /\ docs'[r].path = docs[r].path
  BY <1>1
<1>7. OwnInv'
  BY <1>2, <1>6 DEF TrailInv, OwnInv
<1>8. \A r \in Rows : docs[r].stage = "gone" \/ docs[r].by = Nobody => docs[r].by # i
  BY DEF TrailInv, FreshInv
<1>9. FoundInv'
  BY <1>1, <1>2, <1>3, <1>8 DEF TrailInv, FoundInv
<1>10. \A j \in Ingesters \ {i}, q \in Paths : Beside(j, q) => Beside(j, q)'
  BY <1>1 DEF Beside
<1>11. SuccessorInv'
  BY <1>2, <1>3, <1>6, <1>10 DEF TrailInv, SuccessorInv, Core, TypeOK, Documents
<1>12. QED
  BY <1>5, <1>7, <1>9, <1>11 DEF TrailInv

LEMMA TrailDelete == ASSUME Core, TrailInv, NEW d \in Rows, Delete(d) PROVE TrailInv'
<1>1. /\ \A r \in Rows \ {d} : docs'[r] = docs[r]
      /\ docs'[d].stage = "gone" /\ docs'[d].by = Nobody /\ docs'[d].lock = Nobody
      /\ docs[d].by = Nobody /\ UNCHANGED local
  BY BlankRow DEF Delete, Core, TypeOK
<1>2. \A j \in Ingesters, q \in Paths : Beside(j, q) => Beside(j, q)'
  BY <1>1 DEF Beside
<1>3. FreshInv' /\ OwnInv' /\ FoundInv'
  BY <1>1 DEF TrailInv, FreshInv, OwnInv, FoundInv, local
<1>4. SuccessorInv'
  BY <1>1, <1>2 DEF TrailInv, SuccessorInv, local, Core, TypeOK, Documents
<1>5. QED
  BY <1>3, <1>4 DEF TrailInv

LEMMA TrailStep == Core /\ TrailInv /\ [Next]_vars => TrailInv'
<1> SUFFICES ASSUME Core, TrailInv, [Next]_vars PROVE TrailInv'
  OBVIOUS
<1>1. ASSUME UNCHANGED <<docs, local>> PROVE TrailInv'
  BY <1>1 DEF TrailInv, FreshInv, OwnInv, FoundInv, SuccessorInv, Beside, local
<1>2. ASSUME NEW i \in Ingesters, Step(i) PROVE TrailInv'
  BY <1>2, TrailQuiet, TrailInsert, TrailRetire, TrailCommit, TrailFail DEF Step
<1>3. QED
  BY <1>1, <1>2, TrailDelete DEF Next, Edit, vars

\* Every tombstone has its successor in the same transaction.
THEOREM TrailInvariance == Spec => []TrailInv
<1>1. IInv => Core
  BY DEF IInv, Core
<1>2. QED
  BY <1>1, TrailStart, TrailStep, Invariance, PTL DEF Spec

\* What a question is answered from goes only with its file's successor committed,
\* or by an administrator's hand.
LEMMA FileStays ==
  ASSUME Core, TrailInv, [Next]_vars, NEW p \in Paths, Answers(p) # {}
  PROVE  Answers(p)' # {} \/ \E r \in Answers(p) : docs'[r].stage = "gone"
<1>1. PICK r \in Answers(p) : TRUE
  OBVIOUS
<1>2. r \in Rows /\ Retrieved(r) /\ docs[r].path = p
  BY <1>1 DEF Answers
<1>3. ASSUME Retrieved(r)', docs'[r].path = p PROVE Answers(p)' # {}
  BY <1>2, <1>3 DEF Answers
<1>4. CASE UNCHANGED docs
  BY <1>2, <1>3, <1>4 DEF Retrieved
<1>5. ASSUME NEW i \in Ingesters, Insert(i) PROVE docs'[r] = docs[r]
  BY <1>2, <1>5 DEF Insert, Retrieved, Core, TypeOK
<1>6. ASSUME NEW i \in Ingesters, Retire(i) PROVE Retrieved(r)' /\ docs'[r].path = p
  <2>1. /\ docs'[r].stage = docs[r].stage /\ docs'[r].by = docs[r].by
        /\ docs'[r].path = docs[r].path
        /\ docs'[r].lock = i \/ docs'[r] = docs[r]
    BY <1>2, <1>6, RetireRows DEF Core
  <2>2. QED
    BY <1>2, <2>1 DEF Retrieved
<1>7. ASSUME NEW i \in Ingesters, Commit(i) PROVE Answers(p)' # {}
  <2>1. \A s \in Rows :
          /\ docs'[s].stage = docs[s].stage /\ docs'[s].superseded = docs[s].superseded
          /\ docs'[s].path = docs[s].path
          /\ docs'[s].by = IF docs[s].by = i THEN Nobody ELSE docs[s].by
          /\ docs'[s].lock = IF docs[s].lock = i THEN Nobody ELSE docs[s].lock
    BY <1>7, SettledRow DEF Commit, Core, TypeOK
  <2>2. CASE docs[r].lock # i
    BY <1>2, <1>3, <2>1, <2>2 DEF Retrieved
  <2>3. CASE docs[r].lock = i
    <3>1. PICK s \in Rows : docs[s].by = i /\ docs[s].path = p
      BY <1>2, <2>3 DEF TrailInv, SuccessorInv, Beside
    <3>2. docs[s].stage = "stored" /\ ~docs[s].superseded
      BY <3>1 DEF TrailInv, FreshInv
    <3>3. s \in Answers(p)'
      BY <2>1, <3>1, <3>2 DEF Answers, Retrieved
    <3>4. QED
      BY <3>3
  <2>4. QED
    BY <2>2, <2>3
<1>8. ASSUME NEW i \in Ingesters, Fail(i) PROVE Retrieved(r)' /\ docs'[r].path = p
  <2>1. TypeOK
    BY DEF Core
  <2>2. docs[r].by # i
    BY <1>2, <1>8 DEF Retrieved
  <2>3. /\ docs'[r].stage = docs[r].stage /\ docs'[r].by = docs[r].by
        /\ docs'[r].path = docs[r].path
    BY <1>2, <1>8, <2>1, <2>2, FailRows
  <2>4. /\ docs'[r].superseded = (docs[r].superseded /\ docs[r].lock # i)
        /\ docs'[r].lock = IF docs[r].lock = i THEN Nobody ELSE docs[r].lock
    BY <1>2, <1>8, <2>1, <2>2, FailRows
  <2>5. docs'[r].superseded => docs'[r].lock # Nobody
    <3> SUFFICES ASSUME docs'[r].superseded PROVE docs'[r].lock # Nobody
      OBVIOUS
    <3>1. docs[r].superseded /\ docs[r].lock # i
      BY <2>4
    <3>2. docs'[r].lock = docs[r].lock
      BY <2>4, <3>1
    <3> QED BY <1>2, <3>1, <3>2 DEF Retrieved
  <2> QED BY <1>2, <2>3, <2>5 DEF Retrieved
<1>9. ASSUME NEW d \in Rows, Delete(d) PROVE docs'[r] = docs[r] \/ docs'[r].stage = "gone"
  BY <1>2, <1>9, BlankRow DEF Delete, Core, TypeOK
<1>10. ASSUME docs'[r] = docs[r] PROVE Answers(p)' # {}
  BY <1>2, <1>3, <1>10 DEF Retrieved
<1>11. ASSUME NEW i \in Ingesters, Step(i)
       PROVE  docs' = docs \/ Insert(i) \/ Retire(i) \/ Commit(i) \/ Fail(i)
  BY <1>11 DEF Step, Start, Read, ReadNothing, Skip, Look
<1>12. QED
  BY <1>1, <1>3, <1>4, <1>5, <1>6, <1>7, <1>8, <1>9, <1>10, <1>11 DEF Next, Edit, vars

\* No file drops out of the corpus by an ingestion, whichever transactions
\* overlap or fail.
THEOREM FilesStay == Spec => NeverLost
<1>1. IInv /\ TrailInv /\ [Next]_vars =>
        [ \A p \in Paths :
            Answers(p) # {} => \/ Answers(p)' # {}
                               \/ \E r \in Answers(p) : docs'[r].stage = "gone" ]_vars
  BY FileStays DEF IInv, Core
<1>2. QED
  BY <1>1, Invariance, TrailInvariance, PTL DEF Spec, NeverLost

-------------------------------------------------------------------------------
(* Ingestion implements AnswerCorpus. *)

\* What is looked up and inserted has a text that could be parsed.
TextInv ==
  /\ \A i \in Ingesters : pc[i] \in {"look", "insert"} => text[i] \in Texts
  /\ \A r \in Rows : docs[r].stage = "stored" => docs[r].text \in Texts

\* One transaction inserts one revision of a file at most.
OneEach ==
  \A i \in Ingesters, r, s \in Rows :
    docs[r].by = i /\ docs[s].by = i /\ docs[r].path = docs[s].path => r = s

CorpusInv == TextInv /\ OneEach

LEMMA CorpusStart == Init => CorpusInv
<1> SUFFICES ASSUME Init PROVE CorpusInv
  OBVIOUS
<1>1. \A r \in Rows : docs[r].stage = "free" /\ docs[r].by = Nobody
  BY BlankRow DEF Init
<1>2. \A i \in Ingesters : pc[i] = "idle"
  BY DEF Init
<1>3. QED
  BY <1>1, <1>2 DEF CorpusInv, TextInv, OneEach

\* A step that writes nothing.
LEMMA CorpusQuiet ==
  ASSUME TypeOK, CorpusInv, NEW i \in Ingesters,
         Start(i) \/ Read(i) \/ ReadNothing(i) \/ Skip(i) \/ Look(i)
  PROVE  CorpusInv'
<1>1. docs' = docs
  BY DEF Start, Read, ReadNothing, Skip, Look
<1>2. \A j \in Ingesters \ {i} : pc'[j] = pc[j] /\ text'[j] = text[j]
  BY OthersStay DEF Step
<1>3. pc'[i] \in {"look", "insert"} => text'[i] \in Texts
  <2>1. CASE Start(i)
    BY <2>1 DEF Start, TypeOK
  <2>2. CASE Read(i)
    BY <2>2 DEF Read, TypeOK, Contents
  <2>3. CASE ReadNothing(i) \/ Skip(i)
    <3>1. Advance(i)
      BY <2>3 DEF ReadNothing, Skip
    <3>2. pc'[i] \in {"read", "done", "commit"}
      BY <3>1, AdvanceMoves
    <3>3. QED
      BY <3>2
  <2>4. CASE Look(i)
    <3>1. pc[i] = "look" /\ text' = text
      BY <2>4 DEF Look
    <3>2. QED
      BY <3>1 DEF CorpusInv, TextInv
  <2>5. QED
    BY <2>1, <2>2, <2>3, <2>4
<1>4. TextInv'
  BY <1>1, <1>2, <1>3 DEF CorpusInv, TextInv
<1>5. OneEach'
  BY <1>1 DEF CorpusInv, OneEach
<1>6. QED
  BY <1>4, <1>5 DEF CorpusInv

LEMMA CorpusInsert ==
  ASSUME TypeOK, TrailInv, CorpusInv, NEW i \in Ingesters, Insert(i) PROVE CorpusInv'
<1>1. PICK n \in Rows :
        /\ docs[n].stage = "free"
        /\ docs' = [docs EXCEPT ![n] =
             [stage |-> "stored", path |-> at[i], text |-> text[i],
              version |-> previous[i].version + 1,
              superseded |-> FALSE, by |-> i, lock |-> Nobody]]
  BY DEF Insert
<1>2. /\ docs'[n].stage = "stored" /\ docs'[n].by = i /\ docs'[n].path = at[i]
      /\ docs'[n].text = text[i]
      /\ \A r \in Rows \ {n} : docs'[r] = docs[r]
  BY <1>1 DEF TypeOK
<1>3. /\ pc[i] = "insert" /\ pc'[i] = "retire" /\ text' = text
      /\ \A j \in Ingesters \ {i} : pc'[j] = pc[j]
  BY DEF Insert, TypeOK
<1>4. TextInv'
  BY <1>2, <1>3 DEF CorpusInv, TextInv
<1>5. \A r \in Rows : docs[r].by = i => docs[r].path # at[i]
  <2> TAKE r \in Rows
  <2>1. docs[r].by = i => docs[r].path < at[i]
    BY <1>3 DEF TrailInv, OwnInv
  <2>2. docs[r].path \in Nat /\ at[i] \in Nat
    BY DEF TypeOK, Documents, Paths
  <2>3. QED
    BY <2>1, <2>2
<1>6. OneEach'
  <2> SUFFICES ASSUME NEW j \in Ingesters, NEW r \in Rows, NEW s \in Rows,
                      docs'[r].by = j, docs'[s].by = j, docs'[r].path = docs'[s].path
               PROVE  r = s
    BY DEF OneEach
  <2>1. CASE r # n /\ s # n
    BY <1>2, <2>1 DEF CorpusInv, OneEach
  <2>2. CASE r = n /\ s # n
    BY <1>2, <1>5, <2>2
  <2>3. CASE r # n /\ s = n
    BY <1>2, <1>5, <2>3
  <2>4. QED
    BY <2>1, <2>2, <2>3
<1>7. QED
  BY <1>4, <1>6 DEF CorpusInv

\* A step that inserts nothing, and looks nothing up.
LEMMA CorpusKept ==
  ASSUME TypeOK, CorpusInv,
         \A j \in Ingesters : pc'[j] \in {"look", "insert"} => pc[j] = pc'[j] /\ text'[j] = text[j],
         \A r \in Rows :
           /\ docs'[r].stage = "stored" => docs[r].stage = "stored" /\ docs'[r].text = docs[r].text
           /\ docs'[r].by # Nobody => docs'[r].by = docs[r].by /\ docs'[r].path = docs[r].path
  PROVE  CorpusInv'
<1>1. TextInv'
  BY DEF CorpusInv, TextInv
<1>2. OneEach'
  BY DEF CorpusInv, OneEach
<1>3. QED
  BY <1>1, <1>2 DEF CorpusInv

LEMMA CorpusWrites ==
  ASSUME TypeOK, CorpusInv, NEW i \in Ingesters, Retire(i) \/ Commit(i) \/ Fail(i)
  PROVE  CorpusInv'
<1>1. \A j \in Ingesters \ {i} : pc'[j] = pc[j] /\ text'[j] = text[j]
  BY OthersStay DEF Step
<1>2. pc'[i] \notin {"look", "insert"}
  <2>1. CASE Retire(i)
    BY <2>1, AdvanceMoves DEF Retire, Written, TypeOK
  <2>2. CASE Commit(i)
    BY <2>2, AdvanceMoves DEF Commit, TypeOK
  <2>3. CASE Fail(i)
    BY <2>3 DEF Fail, TypeOK
  <2>4. QED
    BY <2>1, <2>2, <2>3
<1>3. ASSUME NEW r \in Rows
      PROVE  /\ docs'[r].stage = "stored" => docs[r].stage = "stored" /\ docs'[r].text = docs[r].text
             /\ docs'[r].by # Nobody => docs'[r].by = docs[r].by /\ docs'[r].path = docs[r].path
  <2>1. CASE Retire(i)
    BY <2>1, RetireRows
  <2>2. CASE Commit(i)
    <3>1. docs[r] \in Documents /\ docs'[r] = Settled(i, docs[r])
      BY <2>2 DEF Commit, TypeOK
    <3>2. QED
      BY <3>1, SettledRow
  <2>3. CASE Fail(i)
    <3>1. docs[r].by = i => docs'[r].stage = "free" /\ docs'[r].by = Nobody
      BY <2>3, FailRows
    <3>2. docs[r].by # i =>
            /\ docs'[r].stage = docs[r].stage /\ docs'[r].by = docs[r].by
            /\ docs'[r].text = docs[r].text /\ docs'[r].path = docs[r].path
      BY <2>3, FailRows
    <3>3. QED
      BY <3>1, <3>2
  <2>4. QED
    BY <2>1, <2>2, <2>3
<1>4. QED
  BY <1>1, <1>2, <1>3, CorpusKept

LEMMA CorpusDelete ==
  ASSUME TypeOK, CorpusInv, NEW d \in Rows, Delete(d) PROVE CorpusInv'
<1>1. /\ \A r \in Rows \ {d} : docs'[r] = docs[r]
      /\ docs'[d].stage = "gone" /\ docs'[d].by = Nobody
      /\ pc' = pc /\ text' = text
  BY BlankRow DEF Delete, TypeOK, local
<1>2. QED
  BY <1>1, CorpusKept

LEMMA CorpusStep == TypeOK /\ TrailInv /\ CorpusInv /\ [Next]_vars => CorpusInv'
<1> SUFFICES ASSUME TypeOK, TrailInv, CorpusInv, [Next]_vars PROVE CorpusInv'
  OBVIOUS
<1>1. ASSUME UNCHANGED <<docs, local>> PROVE CorpusInv'
  BY <1>1 DEF CorpusInv, TextInv, OneEach, local
<1>2. ASSUME NEW i \in Ingesters, Step(i) PROVE CorpusInv'
  BY <1>2, CorpusQuiet, CorpusInsert, CorpusWrites DEF Step
<1>3. QED
  BY <1>1, <1>2, CorpusDelete DEF Next, Edit, vars

LEMMA CorpusInvariance == Spec => []CorpusInv
<1>1. IInv => TypeOK
  BY DEF IInv
<1>2. QED
  BY <1>1, CorpusStart, CorpusStep, Invariance, TrailInvariance, PTL DEF Spec

\* What is answered stays as it is when each row that can be retrieved does.
LEMMA SameAnswers ==
  ASSUME \A r \in Rows :
           /\ Retrieved(r)' <=> Retrieved(r)
           /\ Retrieved(r) => docs'[r].text = docs[r].text /\ docs'[r].path = docs[r].path
  PROVE  Answered' = Answered
<1>1. ASSUME NEW p \in Paths
      PROVE  {docs'[r].text : r \in Answers(p)'} = {docs[r].text : r \in Answers(p)}
  <2>1. Answers(p)' = Answers(p)
    BY DEF Answers
  <2>2. \A r \in Answers(p) : docs'[r].text = docs[r].text
    BY DEF Answers
  <2>3. QED
    BY <2>1, <2>2
<1>2. QED
  BY <1>1 DEF Answered

\* After any step no text is answered for two files.
LEMMA AnswersApart ==
  ASSUME TextInv', NoTextTwice'
  PROVE  Answered' \in [Paths -> SUBSET Texts] /\ Corpus!Unshared(Answered')
<1>1. ASSUME NEW p \in Paths
      PROVE  Answered'[p] \in SUBSET Texts
             /\ \A t \in Answered'[p] : \E r \in Rows :
                  Retrieved(r)' /\ docs'[r].path = p /\ docs'[r].text = t
  BY DEF Answered, Answers, Retrieved, TextInv
<1>2. ASSUME NEW p \in Paths, NEW q \in Paths, p # q, NEW t \in Answered'[p] \cap Answered'[q]
      PROVE  FALSE
  <2>1. PICK r \in Rows : Retrieved(r)' /\ docs'[r].path = p /\ docs'[r].text = t
    BY <1>1, <1>2
  <2>2. PICK s \in Rows : Retrieved(s)' /\ docs'[s].path = q /\ docs'[s].text = t
    BY <1>1, <1>2
  <2>3. r = s
    BY <2>1, <2>2 DEF NoTextTwice
  <2>4. QED
    BY <1>2, <2>1, <2>2, <2>3
<1>3. Answered' \in [Paths -> SUBSET Texts]
  BY <1>1 DEF Answered
<1>4. QED
  BY <1>2, <1>3 DEF Corpus!Unshared

\* An open transaction can be seen by none: what it writes and what it takes back
\* leaves every answer as it is.
LEMMA CorpusUnseen ==
  ASSUME TypeOK, NEW i \in Ingesters, Insert(i) \/ Retire(i) \/ Fail(i)
  PROVE  UNCHANGED Corpus!vars
<1>1. overlapped' = overlapped
  BY DEF Insert, Retire, Fail, history
<1>2. ASSUME NEW r \in Rows
      PROVE  /\ Retrieved(r)' <=> Retrieved(r)
             /\ Retrieved(r) => docs'[r].text = docs[r].text /\ docs'[r].path = docs[r].path
  <2>1. CASE Insert(i)
    <3>1. PICK n \in Rows :
            /\ docs[n].stage = "free"
            /\ docs' = [docs EXCEPT ![n] =
                 [stage |-> "stored", path |-> at[i], text |-> text[i],
                  version |-> previous[i].version + 1,
                  superseded |-> FALSE, by |-> i, lock |-> Nobody]]
      BY <2>1 DEF Insert
    <3>2. docs'[n].by = i /\ \A s \in Rows \ {n} : docs'[s] = docs[s]
      BY <3>1 DEF TypeOK
    <3>3. ~Retrieved(n) /\ ~Retrieved(n)'
      BY <3>1, <3>2 DEF Retrieved
    <3>4. CASE r = n
      BY <3>3, <3>4
    <3>5. CASE r # n
      BY <3>2, <3>5 DEF Retrieved
    <3>6. QED
      BY <3>4, <3>5
  <2>2. CASE Retire(i)
    <3>1. /\ docs'[r].stage = docs[r].stage /\ docs'[r].by = docs[r].by
          /\ docs'[r].text = docs[r].text /\ docs'[r].path = docs[r].path
          /\ r \notin Tombstones(i) => docs'[r] = docs[r]
      BY <2>2, RetireRows
    <3>2. CASE r \notin Tombstones(i)
      BY <3>1, <3>2 DEF Retrieved
    <3>3. CASE r \in Tombstones(i)
      <4>1. docs'[r].lock = i /\ ~docs[r].superseded
        BY <2>2, <3>3, RetiredRow DEF Tombstones
      <4>2. QED
        BY <3>1, <4>1 DEF Retrieved
    <3>4. QED
      BY <3>2, <3>3
  <2>3. CASE Fail(i)
    <3>1. CASE docs[r].by = i
      <4>1. docs'[r].stage = "free"
        BY <2>3, <3>1, FailRows
      <4>2. QED
        BY <3>1, <4>1 DEF Retrieved
    <3>2. CASE docs[r].by # i
      <4>1. /\ docs'[r].stage = docs[r].stage /\ docs'[r].by = docs[r].by
            /\ docs'[r].text = docs[r].text /\ docs'[r].path = docs[r].path
        BY <2>3, <3>2, FailRows
      <4>2. /\ docs'[r].superseded = (docs[r].superseded /\ docs[r].lock # i)
            /\ docs'[r].lock = IF docs[r].lock = i THEN Nobody ELSE docs[r].lock
        BY <2>3, <3>2, FailRows
      <4>3. CASE docs[r].lock = i
        BY <4>1, <4>2, <4>3 DEF Retrieved
      <4>4. CASE docs[r].lock # i
        <5>1. (docs'[r].superseded <=> docs[r].superseded) /\ docs'[r].lock = docs[r].lock
          BY <4>2, <4>4
        <5>2. QED
          BY <4>1, <5>1 DEF Retrieved
      <4>5. QED
        BY <4>3, <4>4
    <3>3. QED
      BY <3>1, <3>2
  <2>4. QED
    BY <2>1, <2>2, <2>3
<1>3. Answered' = Answered
  BY <1>2, SameAnswers
<1>4. QED
  BY <1>1, <1>3 DEF Corpus!vars

\* A deletion takes one text from one file, or what no question is answered from.
LEMMA CorpusTakesAway ==
  ASSUME TypeOK, TextInv, NoTextTwice, NEW d \in Rows, Delete(d)
  PROVE  [Corpus!Next]_(Corpus!vars)
<1>1. /\ \A r \in Rows \ {d} : docs'[r] = docs[r]
      /\ docs'[d].stage = "gone" /\ overlapped' = overlapped
  BY BlankRow DEF Delete, TypeOK
<1>2. ~Retrieved(d)' /\ \A r \in Rows \ {d} : Retrieved(r)' <=> Retrieved(r)
  BY <1>1 DEF Retrieved
<1>3. CASE ~Retrieved(d)
  <2>1. Answered' = Answered
    BY <1>1, <1>2, <1>3, SameAnswers
  <2>2. QED
    BY <1>1, <2>1 DEF Corpus!vars
<1>4. CASE Retrieved(d)
  <2> DEFINE f == docs[d].path
             t == docs[d].text
  <2>1. f \in Paths /\ t \in Texts
    BY <1>4 DEF TypeOK, Documents, TextInv, Retrieved
  <2>2. t \in Answered[f]
    BY <1>4, <2>1 DEF Answered, Answers
  <2>3. ASSUME NEW p \in Paths
        PROVE  {docs'[r].text : r \in Answers(p)'}
                 = {docs[r].text : r \in Answers(p)} \ (IF p = f THEN {t} ELSE {})
    <3>1. Answers(p)' = Answers(p) \ {d}
      BY <1>1, <1>2 DEF Answers
    <3>2. \A r \in Answers(p) \ {d} : docs'[r].text = docs[r].text /\ docs[r].text # t
      BY <1>1, <1>4 DEF Answers, NoTextTwice
    <3>3. d \in Answers(p) <=> p = f
      BY <1>4 DEF Answers
    <3>4. QED
      BY <3>1, <3>2, <3>3
  <2>4. Answered' = [Answered EXCEPT ![f] = @ \ {t}]
    <3> HIDE DEF f, t
    <3>1. QED
      BY <2>1, <2>3 DEF Answered
  <2>5. Corpus!Delete(f, t)
    BY <1>1, <2>2, <2>4 DEF Corpus!Delete
  <2>6. QED
    BY <2>1, <2>5 DEF Corpus!Next
<1>5. QED
  BY <1>3, <1>4

\* A commit gives each file with a row of the transaction that row's text, and
\* leaves the other files as they are.
LEMMA CorpusIngests ==
  ASSUME TypeOK, TrailInv, CorpusInv, TextInv', NoTextTwice', OneRevision',
         NEW i \in Ingesters, Commit(i)
  PROVE  Corpus!Next
<1> DEFINE files == {p \in Paths : Beside(i, p)}
           new == [p \in files |->
                     docs[CHOOSE s \in Rows : docs[s].by = i /\ docs[s].path = p].text]
<1>1. \A r \in Rows :
        /\ docs'[r].stage = docs[r].stage /\ docs'[r].superseded = docs[r].superseded
        /\ docs'[r].path = docs[r].path /\ docs'[r].text = docs[r].text
        /\ docs'[r].by = IF docs[r].by = i THEN Nobody ELSE docs[r].by
        /\ docs'[r].lock = IF docs[r].lock = i THEN Nobody ELSE docs[r].lock
  BY SettledRow DEF Commit, TypeOK
<1>2. overlapped' = overlapped
  BY DEF Commit, history
<1>3. ASSUME NEW r \in Rows, docs[r].by = i
      PROVE  /\ docs[r].path \in files /\ new[docs[r].path] = docs[r].text
             /\ docs[r].text \in Texts /\ Retrieved(r)'
  <2> DEFINE p == docs[r].path
             s == CHOOSE s \in Rows : docs[s].by = i /\ docs[s].path = p
  <2>1. p \in files
    BY <1>3 DEF TypeOK, Documents, Beside
  <2>2. s \in Rows /\ docs[s].by = i /\ docs[s].path = p
    BY <1>3
  <2>3. s = r
    BY <1>3, <2>2 DEF CorpusInv, OneEach
  <2>4. docs[r].stage = "stored" /\ ~docs[r].superseded
    BY <1>3 DEF TrailInv, FreshInv
  <2>5. Retrieved(r)'
    BY <1>1, <1>3, <2>4 DEF Retrieved
  <2>6. docs[r].text \in Texts
    BY <2>4 DEF CorpusInv, TextInv
  <2>7. new[p] = docs[s].text
    BY <2>1
  <2>8. QED
    BY <2>1, <2>3, <2>5, <2>6, <2>7
<1>4. \A p \in files : \E r \in Rows : docs[r].by = i /\ docs[r].path = p
  BY DEF Beside
<1>5. new \in [files -> Texts]
  <2>1. \A p \in files : new[p] \in Texts
    BY <1>3, <1>4
  <2>2. QED
    BY <2>1
<1> HIDE DEF files, new
<1>6. files \subseteq Paths
  BY DEF files
<1>7. ASSUME NEW r \in Rows, docs[r].by # i, Retrieved(r)' PROVE Retrieved(r)
  BY <1>1, <1>7 DEF Retrieved
<1>8. ASSUME NEW r \in Rows, Retrieved(r), docs[r].path \notin files PROVE Retrieved(r)'
  <2>1. docs[r].by = Nobody
    BY <1>8 DEF Retrieved
  <2>2. docs[r].lock # i
    <3>1. docs[r].lock = i => Beside(i, docs[r].path)
      BY DEF TrailInv, SuccessorInv
    <3>2. docs[r].path \in Paths
      BY DEF TypeOK, Documents
    <3>3. QED
      BY <1>8, <3>1, <3>2 DEF files
  <2>3. QED
    BY <1>1, <1>8, <2>1, <2>2 DEF Retrieved
<1>9. ASSUME NEW f \in Paths \ files PROVE Answered'[f] = Answered[f]
  <2>1. Answers(f)' = Answers(f)
    <3>1. ASSUME NEW r \in Rows, docs[r].path = f PROVE Retrieved(r)' <=> Retrieved(r)
      BY <1>3, <1>7, <1>8, <1>9, <3>1
    <3>2. QED
      BY <1>1, <3>1 DEF Answers
  <2>2. \A r \in Answers(f) : docs'[r].text = docs[r].text
    BY <1>1 DEF Answers
  <2>3. QED
    BY <2>1, <2>2 DEF Answered
<1>10. ASSUME NEW f \in files
       PROVE  /\ new[f] \in Answered'[f] /\ Answered'[f] \subseteq Answered[f] \cup {new[f]}
              /\ ~overlapped => Answered'[f] = {new[f]}
  <2>1. f \in Paths
    BY <1>6
  <2>2. PICK s \in Rows : docs[s].by = i /\ docs[s].path = f
    BY <1>4
  <2>3. s \in Answers(f)' /\ docs'[s].text = new[f]
    BY <1>1, <1>3, <2>2 DEF Answers
  <2>4. new[f] \in Answered'[f]
    BY <2>1, <2>3 DEF Answered
  <2>5. ASSUME NEW r \in Answers(f)' PROVE docs'[r].text \in Answered[f] \cup {new[f]}
    <3>1. r \in Rows /\ Retrieved(r)' /\ docs[r].path = f /\ docs'[r].text = docs[r].text
      BY <1>1, <2>5 DEF Answers
    <3>2. CASE docs[r].by = i
      BY <1>3, <3>1, <3>2
    <3>3. CASE docs[r].by # i
      <4>1. r \in Answers(f)
        BY <1>7, <3>1, <3>3 DEF Answers
      <4>2. QED
        BY <2>1, <3>1, <4>1 DEF Answered
    <3>4. QED
      BY <3>2, <3>3
  <2>6. Answered'[f] \subseteq Answered[f] \cup {new[f]}
    BY <2>1, <2>5 DEF Answered
  <2>7. ASSUME ~overlapped PROVE Answered'[f] = {new[f]}
    <3>1. \A r \in Answers(f)' : r = s
      BY <1>2, <2>1, <2>3, <2>7 DEF OneRevision
    <3>2. QED
      BY <2>1, <2>3, <3>1 DEF Answered
  <2>8. QED
    BY <2>4, <2>6, <2>7
<1>11. Answered' \in [Paths -> SUBSET Texts] /\ Corpus!Unshared(Answered')
  BY AnswersApart
<1>12. Corpus!Ingest(files, new)
  BY <1>2, <1>9, <1>10, <1>11 DEF Corpus!Ingest
<1>13. QED
  BY <1>5, <1>6, <1>12 DEF Corpus!Next

LEMMA CorpusInit == Init => Corpus!Init
<1> SUFFICES ASSUME Init PROVE Corpus!Init
  OBVIOUS
<1>1. \A r \in Rows : ~Retrieved(r)
  BY BlankRow DEF Init, Retrieved
<1>2. \A p \in Paths : Answers(p) = {}
  BY <1>1 DEF Answers
<1>3. QED
  BY <1>2 DEF Corpus!Init, Answered, Init

LEMMA CorpusMoves ==
  ASSUME IInv, TrailInv, CorpusInv, [Next]_vars, IInv', TextInv'
  PROVE  [Corpus!Next]_(Corpus!vars)
<1>1. NoTextTwice /\ NoTextTwice' /\ OneRevision'
  BY DEF IInv, NoTextTwice, OneRevision, Answers, Retrieved, HashInv, PathInv, Standing,
     Replaces, Replacing
<1>2. TypeOK /\ TextInv
  BY DEF IInv, CorpusInv
<1>3. ASSUME docs' = docs PROVE Answered' = Answered
  BY <1>3 DEF Answered, Answers, Retrieved
<1>4. ASSUME UNCHANGED <<docs, overlapped>> PROVE UNCHANGED Corpus!vars
  BY <1>3, <1>4 DEF Corpus!vars
<1>5. ASSUME NEW i \in Ingesters, Start(i) PROVE [Corpus!Next]_(Corpus!vars)
  <2>1. docs' = docs /\ (overlapped' = overlapped \/ overlapped' = TRUE)
    BY <1>2, <1>5 DEF Start, TypeOK
  <2>2. CASE overlapped' = overlapped
    BY <1>4, <2>1, <2>2
  <2>3. CASE overlapped' = TRUE
    BY <1>3, <2>1, <2>3 DEF Corpus!Race, Corpus!Next
  <2>4. QED
    BY <2>1, <2>2, <2>3
<1>6. ASSUME NEW i \in Ingesters, Read(i) \/ ReadNothing(i) \/ Skip(i) \/ Look(i)
      PROVE  UNCHANGED Corpus!vars
  BY <1>4, <1>6 DEF Read, ReadNothing, Skip, Look, history
<1>7. ASSUME NEW i \in Ingesters, Step(i) PROVE [Corpus!Next]_(Corpus!vars)
  BY <1>1, <1>2, <1>5, <1>6, <1>7, CorpusUnseen, CorpusIngests DEF Step
<1>8. ASSUME NEW d \in Rows, Delete(d) PROVE [Corpus!Next]_(Corpus!vars)
  BY <1>1, <1>2, <1>8, CorpusTakesAway
<1>9. CASE UNCHANGED vars
  BY <1>4, <1>9 DEF vars, history
<1>10. ASSUME NEW p \in Paths, NEW c \in Contents, Edit(p, c) PROVE UNCHANGED Corpus!vars
  BY <1>4, <1>10 DEF Edit
<1>11. QED
  BY <1>7, <1>8, <1>9, <1>10 DEF Next

\* Ingestion implements what is promised to whoever asks: an answer changes only
\* by a commit of its file's new text or by a deletion, for every number of files,
\* texts, rows and ingesters.
THEOREM ImplementsCorpus == Spec => CorpusSpec
<1>1. IInv /\ TrailInv /\ CorpusInv /\ [Next]_vars /\ IInv' /\ CorpusInv'
        => [Corpus!Next]_(Corpus!vars)
  BY CorpusMoves DEF CorpusInv
<1>2. QED
  BY <1>1, CorpusInit, Invariance, TrailInvariance, CorpusInvariance, PTL
  DEF Spec, CorpusSpec, Corpus!Spec

-------------------------------------------------------------------------------
(* What a run that nothing disturbs leaves behind. *)

\* The revisions of a file that are neither deleted nor tombstoned, committed or
\* not, are of text t, and there is one.
Current(p) ==
  {r \in Rows : docs[r].stage = "stored" /\ ~docs[r].superseded /\ docs[r].path = p}
AnswersAs(p, t) == Current(p) # {} /\ \A r \in Current(p) : docs[r].text = t

\* i is done with file p: it has skipped it, or written what there is to write.
Passed(i, p) ==
  \/ pc[i] = "done"
  \/ pc[i] = "commit" /\ (i \in PerFile => p <= at[i])
  \/ p < at[i]

\* A run starts at the first file.
FirstInv ==
  \A i \in Ingesters : ~Busy(i) \/ (pc[i] = "commit" /\ i \notin PerFile) => at[i] = 1

\* i runs alone, what it has read is what the file still holds, and the files it
\* has passed are current.
Undisturbed(i) ==
  /\ calm = {i} /\ ~overlapped
  /\ \A j \in Ingesters \ {i} : ~Busy(j)
  /\ pc[i] \in {"look", "insert"} => text[i] = disk[at[i]]
  /\ pc[i] = "retire" =>
       \A r \in Rows : docs[r].by = i /\ docs[r].path = at[i] => docs[r].text = disk[at[i]]
  /\ i \notin elsewhere /\ pc[i] # "idle" =>
       \A p \in Paths : Passed(i, p) /\ disk[p] # NoText => AnswersAs(p, disk[p])

CalmInv == FirstInv /\ \A i \in calm : Undisturbed(i)

LEMMA CalmStart == Init => CalmInv
BY DEF Init, CalmInv, FirstInv, Undisturbed

\* When the others are at rest, no row waits for their transactions.
LEMMA OwnView ==
  ASSUME Core, NEW i \in Ingesters, \A j \in Ingesters \ {i} : ~Busy(j), NEW r \in Rows
  PROVE  /\ docs[r].by \in {Nobody, i} /\ docs[r].lock \in {Nobody, i}
         /\ Live(i, r) <=> docs[r].stage = "stored" /\ ~docs[r].superseded
<1>1. docs[r].by \in Ingesters \cup {Nobody} /\ docs[r].lock \in Ingesters \cup {Nobody}
  BY DEF Core, TypeOK, Documents
<1>2. docs[r].by \in {Nobody, i} /\ docs[r].lock \in {Nobody, i}
  BY <1>1 DEF Core, HolderInv, Writes, Busy
<1>3. QED
  BY <1>2 DEF Live

LEMMA FirstKeeps ==
  ASSUME TypeOK, FirstInv, NEW i \in Ingesters, Step(i)
  PROVE  FirstInv'
<1>1. \A j \in Ingesters \ {i} : pc'[j] = pc[j] /\ at'[j] = at[j]
  BY OthersStay
<1>2. ASSUME Advance(i) PROVE (Busy(i)' /\ pc'[i] # "commit") \/ at'[i] = 1
  BY <1>2, AdvanceMoves DEF Busy
<1>3. ASSUME ~Busy(i)' \/ (pc'[i] = "commit" /\ i \notin PerFile) PROVE at'[i] = 1
  <2>1. CASE Start(i) \/ Read(i) \/ Look(i) \/ Insert(i)
    BY <1>3, <2>1 DEF Start, Read, Look, Insert, TypeOK, Busy
  <2>2. CASE Fail(i)
    BY <2>2 DEF Fail, TypeOK
  <2>3. CASE ReadNothing(i) \/ Skip(i)
    BY <1>2, <1>3, <2>3 DEF ReadNothing, Skip
  <2>4. CASE Retire(i)
    BY <1>2, <1>3, <2>4 DEF Retire, Written, TypeOK, Busy
  <2>5. CASE Commit(i)
    <3>1. CASE i \in PerFile
      BY <1>2, <1>3, <2>5, <3>1 DEF Commit
    <3>2. CASE i \notin PerFile
      BY <2>5, <3>2 DEF Commit, FirstInv
    <3>3. QED
      BY <3>1, <3>2
  <2>6. QED
    BY <2>1, <2>2, <2>3, <2>4, <2>5 DEF Step
<1>4. QED
  BY <1>1, <1>3 DEF FirstInv, Busy

\* Going on adds the file that i was at to those it has passed.
LEMMA AdvancePasses ==
  ASSUME TypeOK, NEW i \in Ingesters, Advance(i), NEW p \in Paths, Passed(i, p)'
  PROVE  p < at[i] \/ p = at[i]
<1>1. at[i] \in Nat /\ p \in Nat /\ p <= NFiles
  BY DEF TypeOK, Paths
<1>2. QED
  BY <1>1, AdvanceMoves DEF Passed

\* What stays of `Undisturbed` when i goes on alone: each step has to show the rest.
LEMMA GoesOn ==
  ASSUME Core, NEW i \in Ingesters, Undisturbed(i), Step(i), ~Start(i),
         pc'[i] \in {"look", "insert"} => text'[i] = disk[at'[i]],
         pc'[i] = "retire" =>
           \A r \in Rows : docs'[r].by = i /\ docs'[r].path = at'[i]
                             => docs'[r].text = disk[at'[i]],
         i \notin elsewhere' /\ pc'[i] # "idle" =>
           \A p \in Paths : Passed(i, p)' /\ disk[p] # NoText => AnswersAs(p, disk[p])'
  PROVE  Undisturbed(i)'
<1>1. UNCHANGED <<disk, calm, overlapped>>
  BY DEF Step, Read, ReadNothing, Skip, Look, Insert, Retire, Commit, Fail, history
<1>2. \A j \in Ingesters \ {i} : pc'[j] = pc[j]
  BY OthersStay DEF Core
<1>3. QED
  BY <1>1, <1>2 DEF Undisturbed, Busy

\* The steps that write nothing: a file is skipped if it is current.
LEMMA CalmQuiet ==
  ASSUME Core, PathInv, Alone, NEW i \in Ingesters, Undisturbed(i),
         Read(i) \/ ReadNothing(i) \/ Skip(i) \/ Look(i)
  PROVE  Undisturbed(i)'
<1>1. docs' = docs /\ UNCHANGED disk /\ Step(i) /\ ~Start(i)
  BY DEF Step, Start, Busy, Read, ReadNothing, Skip, Look
<1>2. \A p, t : AnswersAs(p, t)' <=> AnswersAs(p, t)
  BY <1>1 DEF AnswersAs, Current
<1>3. CASE Read(i) \/ Look(i)
  <2>1. /\ at' = at /\ elsewhere' = elsewhere
        /\ pc'[i] \in {"look", "insert"} /\ text'[i] = disk[at[i]]
        /\ pc[i] \notin {"idle", "done", "commit"}
    BY <1>3 DEF Read, Look, Core, TypeOK, Undisturbed, history
  <2>2. \A p \in Paths : Passed(i, p)' => Passed(i, p)
    BY <2>1 DEF Passed
  <2>3. QED
    BY <1>1, <1>2, <2>1, <2>2, GoesOn DEF Undisturbed
<1>4. CASE ReadNothing(i) \/ Skip(i)
  <2>1. /\ Advance(i) /\ pc[i] # "idle" /\ pc'[i] \notin {"look", "insert", "retire"}
        /\ i \notin elsewhere' => i \notin elsewhere
    <3>1. Advance(i) /\ pc[i] # "idle"
      BY <1>4 DEF ReadNothing, Skip
    <3>2. i \in calm
      BY DEF Undisturbed
    <3>3. i \notin elsewhere' => i \notin elsewhere
      BY <1>4, <3>2 DEF ReadNothing, Skip, history
    <3>4. QED
      BY <3>1, <3>3, AdvanceMoves DEF Core
  <2>2. ASSUME i \notin elsewhere', disk[at[i]] # NoText PROVE AnswersAs(at[i], disk[at[i]])
    <3>1. Skip(i) /\ text[i] = disk[at[i]]
      BY <1>4, <2>2 DEF ReadNothing, Skip, Undisturbed
    <3>2. PICK r \in Duplicates(i) : docs[r].path = at[i]
      BY <2>2, <3>1 DEF Skip, Undisturbed
    <3>3. r \in LiveAt(i, at[i]) /\ docs[r].text = disk[at[i]]
      BY <3>1, <3>2 DEF Duplicates, LiveAt
    <3>4. LiveAt(i, at[i]) = Current(at[i])
      BY OwnView DEF LiveAt, Current, Undisturbed
    <3>5. \A q \in LiveAt(i, at[i]) : q = r
      BY <3>1, <3>3, OneLive DEF Skip, Busy, Core, TypeOK
    <3>6. QED
      BY <3>3, <3>4, <3>5 DEF AnswersAs
  <2>3. ASSUME i \notin elsewhere', NEW p \in Paths, Passed(i, p)', disk[p] # NoText
        PROVE  AnswersAs(p, disk[p])
    <3>1. p < at[i] \/ p = at[i]
      BY <2>1, <2>3, AdvancePasses DEF Core
    <3>2. QED
      BY <2>1, <2>2, <2>3, <3>1 DEF Undisturbed, Passed
  <2>4. QED
    BY <1>1, <1>2, <2>1, <2>3, GoesOn
<1>5. QED
  BY <1>3, <1>4

LEMMA CalmInsert ==
  ASSUME Core, TrailInv, NEW i \in Ingesters, Undisturbed(i), Insert(i)
  PROVE  Undisturbed(i)'
<1>1. PICK n \in Rows :
        /\ docs[n].stage = "free"
        /\ docs' = [docs EXCEPT ![n] =
             [stage |-> "stored", path |-> at[i], text |-> text[i],
              version |-> previous[i].version + 1,
              superseded |-> FALSE, by |-> i, lock |-> Nobody]]
  BY DEF Insert
<1>2. /\ docs'[n].path = at[i] /\ docs'[n].text = text[i]
      /\ \A r \in Rows \ {n} : docs'[r] = docs[r]
  BY <1>1 DEF Core, TypeOK
<1>3. /\ pc[i] = "insert" /\ pc'[i] = "retire"
      /\ UNCHANGED <<at, elsewhere>> /\ Step(i) /\ ~Start(i)
  BY DEF Insert, Step, Start, Busy, Core, TypeOK, history
<1>4. text[i] = disk[at[i]]
  BY <1>3 DEF Undisturbed
<1>5. at[i] \in Nat /\ \A p \in Paths : p \in Nat
  BY DEF Core, TypeOK, Paths
<1>6. \A r \in Rows : docs'[r].by = i /\ docs'[r].path = at[i] => r = n
  BY <1>2, <1>3, <1>5 DEF TrailInv, OwnInv
<1>7. ASSUME NEW p \in Paths, p # at[i] PROVE \A t : AnswersAs(p, t) => AnswersAs(p, t)'
  <2>1. Current(p)' = Current(p) /\ n \notin Current(p)
    BY <1>1, <1>2, <1>7 DEF Current
  <2>2. QED
    BY <1>2, <2>1 DEF AnswersAs, Current
<1>8. \A p \in Paths : Passed(i, p)' => Passed(i, p) /\ p # at[i]
  BY <1>3, <1>5 DEF Passed
<1>9. UNCHANGED disk
  BY DEF Insert
<1>10. ASSUME i \notin elsewhere', NEW p \in Paths, Passed(i, p)', disk[p] # NoText
       PROVE  AnswersAs(p, disk[p])'
  <2>1. AnswersAs(p, disk[p]) /\ p # at[i]
    BY <1>3, <1>8, <1>10 DEF Undisturbed
  <2>2. QED
    BY <1>7, <1>9, <2>1
<1>11. \A r \in Rows : docs'[r].by = i /\ docs'[r].path = at'[i] => docs'[r].text = disk[at'[i]]
  BY <1>2, <1>3, <1>4, <1>6
<1>12. QED
  BY <1>3, <1>10, <1>11, GoesOn

\* Whether the worker's transaction is committed next or the command line goes
\* on, the file i is at is the only one it now passes.
LEMMA WrittenPasses ==
  ASSUME TypeOK, NEW i \in Ingesters, pc[i] = "retire", Written(i)
  PROVE  /\ pc'[i] \in {"read", "commit"}
         /\ \A p \in Paths : Passed(i, p)' => Passed(i, p) \/ p = at[i]
<1>1. \A p \in Paths : p \in Nat
  BY DEF Paths
<1>2. CASE i \in PerFile
  <2>1. pc'[i] = "commit" /\ at' = at
    BY <1>2 DEF Written, TypeOK
  <2>2. QED
    BY <1>1, <1>2, <2>1 DEF Passed, TypeOK, Paths
<1>3. CASE i \notin PerFile
  <2>1. Advance(i)
    BY <1>3 DEF Written
  <2>2. QED
    BY <1>3, <2>1, AdvanceMoves, AdvancePasses DEF Passed
<1>4. QED
  BY <1>2, <1>3

\* The tombstone leaves the row just inserted as the file's only one.
LEMMA CalmRetire ==
  ASSUME Core, PathInv, TrailInv, NEW i \in Ingesters, Undisturbed(i), Retire(i)
  PROVE  Undisturbed(i)'
<1>1. \A r \in Rows :
        /\ docs'[r].stage = docs[r].stage /\ docs'[r].by = docs[r].by
        /\ docs'[r].text = docs[r].text /\ docs'[r].path = docs[r].path
        /\ r \in Tombstones(i) => docs'[r].superseded /\ docs[r].stage = "stored"
                                  /\ r = previous[i].row
        /\ r \notin Tombstones(i) => docs'[r] = docs[r]
  <2> TAKE r \in Rows
  <2>1. TypeOK
    BY DEF Core
  <2>2. /\ docs'[r].stage = docs[r].stage /\ docs'[r].by = docs[r].by
        /\ docs'[r].text = docs[r].text /\ docs'[r].path = docs[r].path
        /\ r \notin Tombstones(i) => docs'[r] = docs[r]
    BY <2>1, RetireRows
  <2>3. CASE r \notin Tombstones(i)
    BY <2>2, <2>3
  <2>4. CASE r \in Tombstones(i)
    <3>1. /\ docs'[r].superseded = TRUE /\ docs'[r].lock = i
          /\ docs[r].stage = "stored" /\ r = previous[i].row
      BY <2>1, <2>4, RetiredRow
    <3> QED BY <2>2, <2>4, <3>1
  <2> QED BY <2>3, <2>4
<1>2. /\ pc[i] = "retire" /\ elsewhere' = elsewhere /\ Step(i) /\ ~Start(i)
      /\ disk' = disk /\ Written(i)
  BY DEF Retire, Step, Start, Busy, history
<1>3. PICK p \in Paths : p = at[i]
  BY DEF Core, TypeOK
<1>4. \A r \in Rows : r \in Tombstones(i) => docs[r].by = Nobody /\ docs[r].path = p
  BY <1>1, <1>2, <1>3 DEF TrailInv, FoundInv
<1>5. PICK n \in Rows : docs[n].by = i /\ docs[n].path = p
  BY <1>2, <1>3 DEF TrailInv, SuccessorInv, Beside
<1>6. /\ docs'[n] = docs[n] /\ docs[n].stage = "stored" /\ ~docs[n].superseded
      /\ docs[n].text = disk[p]
  <2>1. docs'[n] = docs[n]
    BY <1>1, <1>4, <1>5
  <2>2. QED
    BY <1>2, <1>3, <1>5, <2>1 DEF TrailInv, FreshInv, Undisturbed
<1>7. ASSUME NEW r \in Rows, r # n, docs'[r].stage = "stored", ~docs'[r].superseded,
             docs'[r].path = p
      PROVE  FALSE
  <2>1. r \notin Tombstones(i) /\ docs'[r] = docs[r]
    BY <1>1, <1>7
  <2>2. Standing(n) /\ Standing(r)
    BY <1>6, <1>7, <2>1 DEF Standing
  <2>3. PICK k \in Ingesters : \/ Replaces(k, n, r) \/ Replaces(k, r, n)
                              \/ Replacing(k, n, r) \/ Replacing(k, r, n)
    BY <1>5, <1>7, <2>1, <2>2 DEF PathInv
  <2>4. k = i
    BY <1>5, <2>1, <2>3 DEF Undisturbed, Core, HolderInv, Writes, Busy, Replaces, Replacing
  <2>5. ~Replaces(i, n, r) /\ ~Replaces(i, r, n)
    BY <1>6, <1>7, <2>1 DEF Replaces, Core, HolderInv
  <2>6. ~Replacing(i, n, r)
    BY <1>7, <2>1 DEF Replacing, Tombstones
  <2>7. ~Replacing(i, r, n)
    BY <1>2, <1>5, <1>6 DEF Replacing, TrailInv, FoundInv
  <2>8. QED
    BY <2>3, <2>4, <2>5, <2>6, <2>7
<1>8. AnswersAs(p, disk[p])'
  <2>1. \A r : r \in Current(p)' <=>
          r \in Rows /\ docs'[r].stage = "stored" /\ ~docs'[r].superseded /\ docs'[r].path = p
    BY DEF Current
  <2>2. \A r : r \in Current(p)' <=> r = n
    BY <1>5, <1>6, <1>7, <2>1
  <2>3. QED
    BY <1>2, <1>6, <2>2 DEF AnswersAs
<1>9. ASSUME NEW q \in Paths, q # p, NEW t, AnswersAs(q, t) PROVE AnswersAs(q, t)'
  <2>1. Current(q)' = Current(q)
    BY <1>1, <1>4, <1>9 DEF Current
  <2>2. \A r \in Current(q) : docs'[r].text = docs[r].text
    BY <1>1 DEF Current
  <2>3. QED
    BY <1>9, <2>1, <2>2 DEF AnswersAs
<1>10. ASSUME i \notin elsewhere', NEW q \in Paths, Passed(i, q)', disk[q] # NoText
       PROVE  AnswersAs(q, disk[q])'
  <2>1. CASE q = p
    BY <1>8, <2>1
  <2>2. CASE q # p
    <3>1. AnswersAs(q, disk[q])
      BY <1>2, <1>3, <1>10, <2>2, WrittenPasses DEF Undisturbed, Core
    <3>2. QED
      BY <1>2, <1>9, <2>2, <3>1
  <2>3. QED
    BY <2>1, <2>2
<1>11. pc'[i] \in {"read", "commit"}
  BY <1>2, WrittenPasses DEF Core
<1>12. QED
  BY <1>2, <1>10, <1>11, GoesOn

\* A commit leaves the rows that count what they are.
LEMMA CalmCommit ==
  ASSUME Core, NEW i \in Ingesters, Undisturbed(i), Commit(i)
  PROVE  Undisturbed(i)'
<1>1. \A s \in Rows :
        /\ docs'[s].stage = docs[s].stage /\ docs'[s].superseded = docs[s].superseded
        /\ docs'[s].path = docs[s].path /\ docs'[s].text = docs[s].text
  BY SettledRow DEF Commit, Core, TypeOK
<1>2. /\ pc[i] = "commit" /\ elsewhere' = elsewhere /\ disk' = disk
      /\ Step(i) /\ ~Start(i)
  BY DEF Commit, Step, Start, Busy, history
<1>3. ASSUME NEW q \in Paths, NEW t, AnswersAs(q, t) PROVE AnswersAs(q, t)'
  <2>1. Current(q)' = Current(q)
    BY <1>1 DEF Current
  <2>2. \A r \in Current(q) : docs'[r].text = docs[r].text
    BY <1>1 DEF Current
  <2>3. QED
    BY <1>3, <2>1, <2>2 DEF AnswersAs
<1>4. pc'[i] \in {"read", "done"} /\ \A q \in Paths : Passed(i, q)' => Passed(i, q)
  <2>1. CASE i \in PerFile
    <3>1. Advance(i)
      BY <2>1 DEF Commit
    <3>2. \A q \in Paths : Passed(i, q)' => q < at[i] \/ q = at[i]
      BY <3>1, AdvancePasses DEF Core
    <3>3. at[i] \in Nat /\ \A q \in Paths : q \in Nat
      BY DEF Core, TypeOK, Paths
    <3>4. QED
      BY <1>2, <2>1, <3>1, <3>2, <3>3, AdvanceMoves DEF Passed, Core
  <2>2. CASE i \notin PerFile
    BY <1>2, <2>2 DEF Commit, Passed, Core, TypeOK
  <2>3. QED
    BY <2>1, <2>2
<1>5. ASSUME i \notin elsewhere', NEW q \in Paths, Passed(i, q)', disk[q] # NoText
      PROVE  AnswersAs(q, disk[q])'
  BY <1>2, <1>3, <1>4, <1>5 DEF Undisturbed
<1>6. QED
  BY <1>2, <1>4, <1>5, GoesOn

\* A run that begins has passed nothing.
LEMMA CalmBegins ==
  ASSUME Core, FirstInv, NEW i \in Ingesters, Start(i), i \in calm'
  PROVE  calm' = {i} /\ Undisturbed(i)'
<1>1. /\ calm' = {i} /\ ~overlapped' /\ pc'[i] = "read" /\ at' = at /\ ~Busy(i)
      /\ \A j \in Ingesters \ {i} : ~Busy(j) /\ pc'[j] = pc[j]
  BY DEF Start, Core, TypeOK
<1>2. at'[i] = 1
  BY <1>1 DEF FirstInv
<1>3. \A p \in Paths : ~Passed(i, p)'
  BY <1>1, <1>2 DEF Passed, Paths
<1>4. QED
  BY <1>1, <1>3 DEF Undisturbed, Busy

LEMMA CalmStep ==
  IInv /\ TrailInv /\ CalmInv /\ [Next]_vars => CalmInv'
<1> SUFFICES ASSUME IInv, TrailInv, CalmInv, [Next]_vars PROVE CalmInv'
  OBVIOUS
<1>1. Core
  BY DEF IInv, Core
<1>2. ASSUME NEW i \in Ingesters, Step(i) PROVE CalmInv'
  <2>1. FirstInv'
    BY <1>1, <1>2, FirstKeeps DEF Core, CalmInv
  <2>2. ASSUME NEW k \in calm' PROVE Undisturbed(k)'
    <3>1. CASE Start(i)
      <4>1. k = i
        BY <2>2, <3>1 DEF Start
      <4>2. QED
        BY <1>1, <2>2, <3>1, <4>1, CalmBegins DEF CalmInv
    <3>2. CASE ~Start(i)
      <4>1. calm' = calm /\ Busy(i)
        BY <1>2, <3>2 DEF Step, Read, ReadNothing, Skip, Look, Insert, Retire, Commit,
                          Fail, history, Busy
      <4>2. Undisturbed(k) /\ k \in Ingesters
        BY <1>1, <2>2, <4>1 DEF CalmInv, Core, TypeOK
      <4>3. k = i
        BY <4>1, <4>2 DEF Undisturbed
      <4>4. Alone /\ PathInv
        BY <4>2 DEF Undisturbed, IInv
      <4>5. CASE Fail(i)
        <5>1. pc'[i] = "idle" /\ Step(i)
          BY <1>1, <1>2, <4>5 DEF Fail, Core, TypeOK
        <5>2. QED
          BY <1>1, <3>2, <4>2, <4>3, <5>1, GoesOn
      <4>6. QED
        BY <1>1, <1>2, <3>2, <4>2, <4>3, <4>4, <4>5, CalmQuiet, CalmInsert, CalmRetire,
           CalmCommit DEF Step
    <3>3. QED
      BY <3>1, <3>2
  <2>3. QED
    BY <2>1, <2>2 DEF CalmInv
<1>3. ASSUME UNCHANGED local, calm' = {} PROVE CalmInv'
  BY <1>3 DEF CalmInv, FirstInv, Busy, local
<1>4. ASSUME UNCHANGED vars PROVE CalmInv'
  BY <1>4 DEF CalmInv, FirstInv, Undisturbed, Busy, Passed, AnswersAs, Current,
              vars, local, history
<1>5. QED
  BY <1>2, <1>3, <1>4 DEF Next, Delete, Edit

THEOREM CalmInvariance == Spec => []CalmInv
<1>1. QED
  BY CalmStart, CalmStep, Invariance, TrailInvariance, PTL DEF Spec

\* An ingestion that nothing disturbed leaves every file that gives a text
\* answered from that text, whatever was in the corpus before, as long as no file
\* was skipped for another one's document.
THEOREM EditsAreFollowed == Spec => []FollowsEdits
<1>1. IInv /\ CalmInv => FollowsEdits
  <2> SUFFICES ASSUME IInv, CalmInv, NEW i \in calm \ elsewhere, pc[i] = "done",
                      NEW p \in Paths, disk[p] # NoText
               PROVE  {docs[r].text : r \in Answers(p)} = {disk[p]}
    BY DEF FollowsEdits
  <2>1. Core /\ i \in Ingesters /\ Undisturbed(i)
    BY DEF IInv, Core, CalmInv, TypeOK
  <2>2. AnswersAs(p, disk[p])
    BY <2>1 DEF Undisturbed, Passed
  <2>3. \A r \in Rows : docs[r].by = Nobody /\ docs[r].lock = Nobody
    <3>1. \A r \in Rows : docs[r].by \in {Nobody, i} /\ docs[r].lock \in {Nobody, i}
      BY <2>1, OwnView DEF Undisturbed
    <3>2. ~Writes(i)
      BY DEF Writes, Busy
    <3>3. QED
      BY <2>1, <3>1, <3>2 DEF Core, HolderInv
  <2>4. Answers(p) = Current(p)
    BY <2>3 DEF Answers, Retrieved, Current
  <2>5. QED
    BY <2>2, <2>4 DEF AnswersAs
<1>2. QED
  BY <1>1, Invariance, CalmInvariance, PTL
================================================================================
