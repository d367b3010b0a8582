---------------------------- MODULE Integrations ----------------------------
(***************************************************************************)
(* The connectors a tenant registers (api/v1/integrations.py): requests    *)
(* that create, update, test and delete rows of the connector table, each  *)
(* in one READ COMMITTED transaction that reads the row first and writes   *)
(* it last, with whatever others commit in between.                        *)
(*                                                                         *)
(* A column's value is the request that wrote it.  What a test writes is   *)
(* one column, "test" (last_tested_at, last_test_error), and last_test_ok. *)
(***************************************************************************)
EXTENDS FiniteSets

CONSTANTS
  Changes,     \* requests, each of them handled once
  FirstRow,    \* the request that made the row there is at the start
  Slugs,
  Settable     \* the columns an update may name

ASSUME IntegrationsAssumption == FirstRow \notin Changes /\ "test" \notin Settable

Columns == Settable \cup {"test"}
Ids == Changes \cup {FirstRow}    \* a new row's id is a uuid4 of its request
NoConnector == [slug |-> {}, kind |-> {}, by |-> {}, ok |-> FALSE]

VARIABLES
  connector,  \* the connector table
  change,     \* the requests under way
  upstream,   \* what the rows point at can be reached
  \* history
  owed        \* each row as the completed requests asked for it

connVars == <<connector, change, upstream, owed>>

New(slug, kind, r) ==
  [slug |-> {slug}, kind |-> {kind}, ok |-> FALSE,
   by |-> [c \in Columns |-> IF c = "test" THEN {} ELSE {r}]]

Waiting == [at |-> "new", on |-> FirstRow, names |-> {}, row |-> NoConnector]

ConnInit ==
  /\ \E s \in Slugs, kind \in {"sql", "rest"} :
       connector = [i \in Ids |-> IF i = FirstRow THEN New(s, kind, FirstRow) ELSE NoConnector]
  /\ change = [r \in Changes |-> Waiting]
  /\ upstream = TRUE
  /\ owed = connector

Stored(i) == connector[i] # NoConnector

\* The upstream system goes away, or comes back.
UpstreamChanges ==
  /\ upstream' = ~upstream
  /\ UNCHANGED <<connector, change, owed>>

\* A request is answered; what it read is forgotten.
Close(r, how) == change' = [change EXCEPT ![r] = [Waiting EXCEPT !.at = how]]
Unwritten == UNCHANGED <<connector, owed, upstream>>

\* No admin, an unknown kind, settings that do not validate, a credential that
\* cannot be encrypted, too many tests: refused before anything is read.
Refuse(r) ==
  /\ change[r].at = "new"
  /\ Close(r, "refused")
  /\ Unwritten

-------------------------------------------------------------------------------
\* POST: the slug is looked up,
CreateRead(r, s, kind) ==
  /\ change[r].at = "new"
  /\ IF \E i \in Ids : connector[i].slug = {s}
     THEN Close(r, "refused")
     ELSE change' = [change EXCEPT ![r].at = "create", ![r].row = New(s, kind, r)]
  /\ Unwritten

\* The unique constraint on (tenant_id, slug).
Taken(slug) == \E i \in Ids : connector[i].slug = slug

\* and the row inserted, unless another has taken the slug since.
CreateWrite(r) ==
  /\ change[r].at = "create"
  /\ IF Taken(change[r].row.slug)
     THEN Close(r, "failed") /\ Unwritten
     ELSE /\ connector' = [connector EXCEPT ![r] = change[r].row]
          /\ owed' = [owed EXCEPT ![r] = change[r].row]
          /\ Close(r, "done")
          /\ UNCHANGED upstream

\* PATCH, DELETE and POST .../test read the row.
ReadRow(r, i, at, names) ==
  /\ change[r].at = "new"
  /\ IF Stored(i)
     THEN change' = [change EXCEPT ![r] = [at |-> at, on |-> i, names |-> names, row |-> connector[i]]]
     ELSE Close(r, "refused")
  /\ Unwritten

UpdateRead(r, i) == \E names \in SUBSET Settable \ {{}} : ReadRow(r, i, "update", names)
TestRead(r, i) == ReadRow(r, i, "probe", {"test"})
DeleteRead(r, i) == ReadRow(r, i, "delete", {})

\* The columns named get the request's values, the others the row's.
By(row, names, r) == [c \in Columns |-> IF c \in names THEN {r} ELSE row.by[c]]

\* A bug: the row read would be written back with the changes made to it.
MutantWritten(r) == By(change[r].row, change[r].names, r)
\* UPDATE connector SET <the columns named>.
Written(r) == By(connector[change[r].on], change[r].names, r)

\* What is asked for: the columns named, and no others.
AskedFor(r) == owed' = [owed EXCEPT ![change[r].on].by = By(owed[change[r].on], change[r].names, r)]

\* A row deleted since it was read is not there to return.
UpdateWrite(r) ==
  LET i == change[r].on
  IN /\ change[r].at = "update"
     /\ IF Stored(i)
        THEN /\ connector' = [connector EXCEPT ![i].by = Written(r)]
             /\ AskedFor(r)
             /\ Close(r, "done")
             /\ UNCHANGED upstream
        ELSE Close(r, "failed") /\ Unwritten

\* _probe, of the row as it was read: a database answers SELECT 1 or does not;
\* a REST connector, made for the purpose, has its circuit breaker closed.
Healthy(row) == row.kind = {"rest"} \/ upstream

\* build_connector: an unusable credential, a host that does not resolve or is
\* not permitted fail whatever the kind.
Builds == BOOLEAN

\* A row deleted since is not missed.
TestWrite(r, buildable) ==
  LET i == change[r].on
  IN /\ change[r].at = "probe"
     /\ IF Stored(i)
        THEN /\ connector' = [connector EXCEPT ![i].by = Written(r),
                                               ![i].ok = buildable /\ Healthy(change[r].row)]
             /\ owed' = [owed EXCEPT ![i].by = By(owed[i], {"test"}, r),
                                     ![i].ok = buildable /\ Healthy(change[r].row)]
        ELSE UNCHANGED <<connector, owed>>
     /\ Close(r, "done")
     /\ UNCHANGED upstream

\* The row goes, and with it, by the foreign key, its training records.
DeleteWrite(r) ==
  /\ change[r].at = "delete"
  /\ connector' = [connector EXCEPT ![change[r].on] = NoConnector]
  /\ owed' = [owed EXCEPT ![change[r].on] = NoConnector]
  /\ Close(r, "done")
  /\ UNCHANGED upstream

ConnNext ==
  \/ UpstreamChanges
  \/ \E r \in Changes :
       \/ Refuse(r)
       \/ \E s \in Slugs, kind \in {"sql", "rest"} : CreateRead(r, s, kind)
       \/ \E i \in Ids : UpdateRead(r, i) \/ TestRead(r, i) \/ DeleteRead(r, i)
       \/ CreateWrite(r) \/ UpdateWrite(r) \/ DeleteWrite(r)
       \/ \E buildable \in Builds : TestWrite(r, buildable)

ConnSpec == ConnInit /\ [][ConnNext]_connVars

-------------------------------------------------------------------------------
RowType ==
  [slug : SUBSET Slugs, kind : SUBSET {"sql", "rest"}, ok : BOOLEAN, by : [Columns -> SUBSET Ids]]
    \cup {NoConnector}

ConnTypeOK ==
  /\ connector \in [Ids -> RowType] /\ owed \in [Ids -> RowType]
  /\ upstream \in BOOLEAN
  /\ change \in [Changes ->
       [at : {"new", "create", "update", "probe", "delete", "refused", "failed", "done"},
        on : Ids, names : SUBSET Columns, row : RowType]]

\* Whatever ran between a request's reading of a row and its writing of it, each
\* column is as the last request that named it left it: an update takes back no
\* other's, a slow probe takes back no setting, nothing brings a deleted row
\* back ("Omitted fields are left alone").
NothingTakenBack == connector = owed
===============================================================================
