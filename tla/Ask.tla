--------------------------------- MODULE Ask ---------------------------------
(***************************************************************************)
(* One caller's requests at the platform's two front doors: POST /v1/agent *)
(* (api/v1/agent.py) and MCP's tools/list and tools/call (mcp/server.py).  *)
(* Both build the same registry of tools for each request, from the SQL    *)
(* connectors stored by then and what can be reached of them; a question   *)
(* is then answered from documents, by one database tool, or by the loop   *)
(* of AgentRun, and what it cost and ran is recorded.                      *)
(*                                                                         *)
(* A question is its features, a tool the source it queries, and a query   *)
(* whether it was run and audited.  Money is counted, not valued: what the *)
(* models bill (`billed`), what the code has on its books (`cost`), and    *)
(* what the books can never know (`lost`).                                 *)
(***************************************************************************)
EXTENDS Integers, FiniteSets, Functions

CONSTANTS
  StoredSql,  \* stored SQL connectors, numbered in order of creation
  SafeSlugs,  \* what _stored_tool_name makes of their slugs
  Database,   \* "database", the name the warehouse's tool goes by
  MaxBilled   \* a bound: the loop goes on for as long

ASSUME AskAssumption == {StoredSql, MaxBilled} \subseteq Nat /\ Database \in SafeSlugs

Numbers == 1..StoredSql
Warehouse == 0
\* "hidden": disabled, untested, without a credential or without views, or failing
\* in a way build_registry only logs.
Conditions == {"up", "down", "hidden"}

VARIABLES
  door,       \* the one the caller comes to
  safeSlug,   \* of each stored connector
  allowed,    \* the sources whose labels the caller holds
  condition,  \* of each stored connector
  listing,    \* what the last tools/list told: the source behind each name
  visit       \* the request under way, or the last one

askVars == <<door, safeSlug, allowed, condition, listing, visit>>

NoTools == [n \in {} |-> Warehouse]
NoVisit == [at |-> "none", tools |-> NoTools, up |-> {}, meant |-> {},
            pending |-> {}, made |-> {}, cost |-> 0, spent |-> 0, row |-> {},
            billed |-> 0, lost |-> 0, unaudited |-> FALSE]

AskInit ==
  /\ door \in {"agent", "mcp"}
  /\ safeSlug \in [Numbers -> SafeSlugs]
  /\ allowed \in SUBSET (Numbers \cup {Warehouse})
  /\ condition = [s \in Numbers |-> "up"]
  /\ listing = NoTools
  /\ visit = NoVisit

\* Databases come and go, admins turn integrations on and off.  A request looks
\* once, when it begins, so changes while one is under way are left out.
ConditionChanges(s, how) ==
  /\ visit = NoVisit
  /\ condition' = [condition EXCEPT ![s] = how]
  /\ UNCHANGED <<door, safeSlug, allowed, listing, visit>>

Going(v) == visit' = v /\ UNCHANGED <<door, safeSlug, allowed, condition, listing>>

\* The caller has its answer.
Leaves == visit.at \in {"answered", "failed"} /\ Going(NoVisit)

-------------------------------------------------------------------------------
(* build_registry *)

\* Labels are looked at before anything is decrypted or reached.  What can be
\* reached becomes a tool; what cannot is noted for the caller, as far as its
\* failure is of an expected type.
Built == {s \in Numbers \cap allowed : condition[s] = "up"}

\* A bug: a slug would be taken to be unique.
MutantToolName(s) == <<safeSlug[s], Warehouse>>
\* _stored_tool_name: query_<slug>, with the connector's id if an earlier one of
\* this registry has that name.
ToolName(s) ==
  <<safeSlug[s], IF \E t \in Built : t < s /\ safeSlug[t] = safeSlug[s] THEN s ELSE Warehouse>>

\* register: a later tool of the same name replaces the earlier; the warehouse's
\* comes last, whoever may use it, unless it could not be made.
Tools(warehouse) ==
  LET names == {ToolName(s) : s \in Built} \cup IF warehouse THEN {<<Database, Warehouse>>} ELSE {}
  IN [n \in names |->
        IF warehouse /\ n = <<Database, Warehouse>> THEN Warehouse
        ELSE CHOOSE s \in Built : ToolName(s) = n /\ \A t \in Built : ToolName(t) = n => t <= s]

\* available_to: what the caller may invoke.  The search of documents is always
\* offered and the write tools are never invoked here: neither is a source.
Offered(tools) == Restrict(tools, {n \in DOMAIN tools : tools[n] \in allowed})

Begins(warehouse, at) ==
  [NoVisit EXCEPT !.at = at, !.tools = Offered(Tools(warehouse)), !.up = Built]

-------------------------------------------------------------------------------
(* ask_agent *)

SingleDatabaseTool(tools) == Cardinality(DOMAIN tools) = 1

\* should_try_live_data, of a question with the words of several steps, of data,
\* or of documents.
ShouldTry(q, hasDatabase) ==
  IF hasDatabase /\ ~q.documents THEN TRUE ELSE q.multi \/ q.data

Route(q, tools) ==
  IF ~q.forced /\ ~ShouldTry(q, SingleDatabaseTool(tools)) THEN "direct"
  ELSE IF ~q.forced /\ ~q.multi /\ SingleDatabaseTool(tools) THEN "one database"
  ELSE "loop"

AskAgent(q, warehouse) ==
  /\ door = "agent" /\ visit = NoVisit
  /\ LET v == Begins(warehouse, "asked") IN Going([v EXCEPT !.at = Route(q, v.tools)])

\* _answer_directly: answered, or refused for want of sources and free.
AnswerDirectly(bill) ==
  /\ visit.at = "direct"
  /\ Going([visit EXCEPT !.at = "ending", !.billed = @ + bill, !.cost = @ + bill])

\* QueryDatabaseTool.run, by what becomes of it: a reviewed template that is
\* answered; a draft that fails, declines, is refused or is answered.
Audits == {"template", "undrafted", "unanswerable", "refused", "answered"}
\* What asks the connector to run a query, and what the model is asked to draft.
Queries == {"template", "template refused", "refused", "answered"}
Drafting == {"undrafted", "unanswerable", "refused", "answered"}
Ends == Audits \cup Queries

\* A bug: only an answer would carry what its draft was billed.
MutantCarried(how, bill) == IF how = "answered" THEN bill ELSE 0
\* The cost_usd of the tool's result: refusals carry it, too; without the model's
\* answer there is no usage to tell.
Carried(how, bill) == IF how \in Drafting \ {"undrafted"} THEN bill ELSE 0

\* The tool of one source is run: the audit row is part of the request's
\* transaction, and what the result carries is charged.
Ran(v, how, bill) ==
  [v EXCEPT !.unaudited = @ \/ how \in Queries \ Audits,
            !.billed = @ + (IF how \in Drafting THEN bill ELSE 0),
            !.cost = @ + Carried(how, bill),
            !.lost = @ + (IF how = "undrafted" THEN bill ELSE 0)]

\* _answer_from_one_database.
AnswerFromOne(n, how, bill) ==
  /\ visit.at = "one database" /\ n \in DOMAIN visit.tools
  /\ Going([Ran(visit, how, bill) EXCEPT !.at = "ending"])

\* run_agent: the planner is asked and charged for, whatever it says; it names a
\* source's tool, or none - the search's, one that is refused, one made up;
PlannerChooses(named, bill) ==
  /\ visit.at = "loop" /\ visit.billed < MaxBilled
  /\ Going([visit EXCEPT !.at = "acting", !.pending = named,
                         !.billed = @ + bill, !.cost = @ + bill])

\* the tool is run, and what its result carries is charged;
ToolRun(how, bill) ==
  /\ visit.at = "acting" /\ visit.pending # {} /\ visit.billed < MaxBilled
  /\ Going([Ran(visit, how, bill) EXCEPT !.at = "loop", !.pending = {},
                                       !.made = @ \cup visit.pending])

\* an identical call is answered from the transcript, the cost it carries and all,
\* and that is not charged again; what is no source's tool costs nothing.
RunsNothing ==
  /\ visit.at = "acting" /\ visit.pending \subseteq visit.made
  /\ Going([visit EXCEPT !.at = "loop", !.pending = {}])

\* It answers, or says nothing of use; or a ceiling is reached, at either node.
PlannerEnds(bill) ==
  /\ visit.at = "loop"
  /\ Going([visit EXCEPT !.at = "ending", !.billed = @ + bill, !.cost = @ + bill])

BudgetHalts == visit.at \in {"loop", "acting"} /\ Going([visit EXCEPT !.at = "ending"])

\* The planner cannot be reached; or a tool, or the framework, raises what nobody
\* expects, and the run keeps what its budget was charged with by then.
LoopBreaks(bill) ==
  /\ visit.at \in {"loop", "acting"}
  /\ Going([visit EXCEPT !.at = "ending", !.billed = @ + bill, !.lost = @ + bill])

\* record_spend, then _record_run, then the commit.
RecordSpend ==
  /\ visit.at = "ending"
  /\ Going([visit EXCEPT !.at = "recording", !.spent = visit.cost])

RecordRun ==
  /\ visit.at = "recording"
  /\ Going([visit EXCEPT !.at = "answered", !.row = {visit.cost}])

\* An exception anywhere else: 500, and the transaction with its audit rows is
\* rolled back.  What the budget was charged with stays.
Fails500 ==
  /\ visit.at \in {"direct", "one database", "loop", "acting", "ending", "recording", "mcp"}
  /\ Going([visit EXCEPT !.at = "failed"])

-------------------------------------------------------------------------------
(* The MCP endpoint. *)

ListTools(warehouse) ==
  /\ door = "mcp" /\ visit = NoVisit
  /\ listing' = Offered(Tools(warehouse))
  /\ UNCHANGED <<door, safeSlug, allowed, condition, visit>>

\* tools/call of a name that tools/list has told, in a registry built anew.
CallTool(n, warehouse) ==
  /\ visit = NoVisit /\ n \in DOMAIN listing
  /\ Going([Begins(warehouse, "mcp") EXCEPT !.meant = {n}])

\* Any result, an error too, costs the estimate of one call; only a result of
\* the tool's own commits.  There is no model to draft with: that is a ToolError.
CallEnds(how) ==
  /\ visit.at = "mcp"
  /\ how = "not offered" <=> ~ visit.meant \subseteq DOMAIN visit.tools
  /\ Going([Ran(visit, how, 0) EXCEPT !.at = "answered", !.spent = 1])

Features == [forced : BOOLEAN, documents : BOOLEAN, multi : BOOLEAN, data : BOOLEAN]

AskNext ==
  \/ \E s \in Numbers, how \in Conditions : ConditionChanges(s, how)
  \/ \E warehouse \in BOOLEAN :
       \/ \E q \in Features : AskAgent(q, warehouse)
       \/ ListTools(warehouse)
       \/ \E n \in DOMAIN listing : CallTool(n, warehouse)
  \/ \E how \in {"not offered", "template", "template refused", "no model"} : CallEnds(how)
  \/ \E bill \in {0, 1} :
       \/ AnswerDirectly(bill) \/ PlannerEnds(bill) \/ LoopBreaks(bill)
       \/ PlannerChooses({}, bill)
       \/ \E n \in DOMAIN visit.tools : PlannerChooses({n}, bill)
       \/ \E how \in Ends :
            \/ ToolRun(how, bill)
            \/ \E n \in DOMAIN visit.tools : AnswerFromOne(n, how, bill)
  \/ RunsNothing \/ BudgetHalts \/ RecordSpend \/ RecordRun \/ Fails500 \/ Leaves

AskSpec == AskInit /\ [][AskNext]_askVars

-------------------------------------------------------------------------------
Names == SafeSlugs \X (Numbers \cup {Warehouse})
IsTools(t) == DOMAIN t \subseteq Names /\ \A n \in DOMAIN t : t[n] \in Numbers \cup {Warehouse}

AskTypeOK ==
  /\ safeSlug \in [Numbers -> SafeSlugs] /\ allowed \subseteq Numbers \cup {Warehouse}
  /\ condition \in [Numbers -> Conditions] /\ IsTools(listing) /\ IsTools(visit.tools)
  /\ visit.at \in {"none", "direct", "one database", "loop", "acting", "ending", "recording",
                  "mcp", "answered", "failed"}
  /\ door \in {"agent", "mcp"} /\ {visit.billed, visit.cost, visit.lost, visit.spent} \subseteq Nat

\* Whatever connectors share a slug, an answered request had every stored
\* connector the caller may use and that could be reached among its tools - but
\* one whose tool bears the name of the warehouse's ("a newly connected database
\* becomes available to authorized callers").
EachIsOffered ==
  \A s \in visit.up : s \in Range(visit.tools) \/ safeSlug[s] = Database

\* Whichever way a question went, whatever its tools refused and however often
\* it repeated a call, what the caller's budget was charged with is what the run's
\* row says, and all that the models billed but for what no result ever told of:
\* a completion that failed, a tool that raised what nobody expects.
BilledIsRecorded ==
  visit.at = "answered" /\ visit.row # {} =>
    visit.row = {visit.spent} /\ visit.spent + visit.lost = visit.billed

\* README.md: "Every query is recorded before the caller sees a result - allowed
\* or denied".  What a tool that raised had done is not looked at.
EveryQueryRecorded ==
  visit.at = "answered" => ~visit.unaudited
===============================================================================
