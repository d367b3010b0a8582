-------------------------------- MODULE AgentRun --------------------------------
(***************************************************************************)
(* One run of the agent: agent/graph.py's loop of planning and acting      *)
(* under the ceilings of agent/limits.py, from the question to the record  *)
(* that api/v1/agent.py keeps of it.                                       *)
(*                                                                         *)
(* The model is free to ask for any call, over and over, for tools it may  *)
(* not use and for tools there are not; it may answer with nothing.  The   *)
(* model, a tool, the framework or the checkpointer may fail at any point, *)
(* and the clock runs while either is waited for.                          *)
(***************************************************************************)
EXTENDS Naturals, Sequences, FiniteSets

CONSTANTS
  Calls,         \* tool names with their arguments that the model can ask for
  Registered,    \* those of a tool the tenant has
  Permitted,     \* those of a tool the caller may use
  NoCall,
  MaxSteps,      \* RunLimits.max_steps
  MaxToolCalls,  \* RunLimits.max_tool_calls
  MaxCost,       \* RunLimits.max_cost_usd, in units of money
  MaxBill        \* the most that one model call, or one tool, can cost

ASSUME RunAssumption ==
  /\ Permitted \subseteq Registered /\ Registered \subseteq Calls
  /\ NoCall \notin Calls
  /\ MaxSteps \in Nat /\ MaxToolCalls \in Nat
  /\ MaxCost \in Nat \ {0} /\ MaxBill \in Nat

VARIABLES
  node,        \* where the run is
  pending,     \* pending_tool and pending_args
  transcript,  \* tool_calls: what has been asked for, and what came of it
  reason,      \* halted_reason
  answer,      \* the planner's answer
  steps,       \* RunBudget.steps
  cost,        \* RunBudget.cost_usd
  late,        \* RunBudget.elapsed_seconds has reached max_seconds
  supersteps,  \* nodes the framework has run
  record,      \* the agent_run row: calls and denials
  \* history, read by no action
  invoked,     \* calls that have been run
  refused      \* times the model asked for a tool it may not use

budget == <<steps, cost, late>>
history == <<invoked, refused>>
vars == <<node, pending, transcript, reason, answer, budget, supersteps, record, history>>

Nodes == {"plan", "asking", "act", "invoking", "over", "recorded"}
Reasons == {"none", "limit", "planner", "unusable", "neither", "failure", "recursion"}
Outcomes == {"content", "error", "denied", "unknown"}
NoRecord == [calls |-> 0, denied |-> 0]

Init ==
  /\ node = "plan" /\ pending = NoCall /\ transcript = << >>
  /\ reason = "none" /\ answer = "none"
  /\ steps = 0 /\ cost = 0 /\ late = FALSE
  /\ supersteps = 0
  /\ record = NoRecord
  /\ invoked = {} /\ refused = 0

\* A bug: a ceiling would stop the run only once it is passed.
MutantPassed ==
  steps > MaxSteps \/ Len(transcript) > MaxToolCalls \/ late \/ cost > MaxCost

\* RunBudget.check: some ceiling has been reached.
Exhausted ==
  steps >= MaxSteps \/ Len(transcript) >= MaxToolCalls \/ late \/ cost >= MaxCost
RecursionLimit == MaxSteps * 2 + 4

\* The framework runs the node it is at.
RunNode == supersteps < RecursionLimit /\ supersteps' = supersteps + 1

-------------------------------------------------------------------------------
(* plan_node, and should_continue after it. *)

PlanHalts ==
  /\ node = "plan" /\ RunNode /\ Exhausted
  /\ reason' = "limit"
  /\ node' = "over"
  /\ UNCHANGED <<pending, transcript, answer, budget, record, history>>

\* The planner is asked.
AskPlanner ==
  /\ node = "plan" /\ RunNode /\ ~Exhausted
  /\ node' = "asking"
  /\ UNCHANGED <<pending, transcript, reason, answer, budget, record, history>>

\* LLMError: the step is not counted.
PlannerUnreachable ==
  /\ node = "asking"
  /\ reason' = "planner"
  /\ node' = "over"
  /\ UNCHANGED <<pending, transcript, answer, budget, supersteps, record, history>>

\* It replies: a step and its cost are recorded, whatever it says.
Reply(bill) ==
  /\ node = "asking"
  /\ steps' = steps + 1
  /\ cost' = cost + bill
  /\ UNCHANGED <<transcript, late, supersteps, record, history>>

\* No JSON, or neither a tool nor an answer.
Useless(bill, why) ==
  /\ Reply(bill)
  /\ reason' = why
  /\ node' = "over"
  /\ UNCHANGED <<pending, answer>>

\* A bug: with an empty answer the run would go on to act.
MutantGoesOn(bill, a) ==
  /\ Reply(bill)
  /\ answer' = a
  /\ node' = IF a = "empty" THEN "act" ELSE "over"
  /\ UNCHANGED <<pending, reason>>
\* An answer ends the run; so does an empty one, as pending_tool is empty too.
Answer(bill, a) ==
  /\ Reply(bill)
  /\ answer' = a
  /\ node' = "over"
  /\ UNCHANGED <<pending, reason>>

Choose(bill, c) ==
  /\ Reply(bill)
  /\ pending' = c
  /\ node' = "act"
  /\ UNCHANGED <<reason, answer>>

-------------------------------------------------------------------------------
(* act_node; the planner comes next, whatever it did. *)

Asked(c) == \E n \in 1 .. Len(transcript) : transcript[n].call = c

\* A bug: a refusal would be filed by what the caller may use.
MutantByCaller(c) == IF c \in Permitted THEN "denied" ELSE "unknown"
\* ToolAuthorizationError: denied if the tenant has the tool.
Refusal(c) == IF c \in Registered THEN "denied" ELSE "unknown"

\* What the call comes to is added to the transcript.
Observe(c, outcome) ==
  /\ transcript' = Append(transcript, [call |-> c, outcome |-> outcome])
  /\ pending' = NoCall
  /\ node' = "plan"
  /\ refused' = IF c \in Registered \ Permitted THEN refused + 1 ELSE refused

ActHalts ==
  /\ node = "act" /\ RunNode /\ Exhausted
  /\ reason' = "limit"
  /\ node' = "plan"
  /\ UNCHANGED <<pending, transcript, answer, budget, record, history>>

\* A bug: only the latest call would be looked at.
MutantLatest(c) == transcript # << >> /\ transcript[Len(transcript)].call = c
\* _previous_call
Repeats(c) == Asked(c)

\* A repeat is served from the transcript.
ServeRepeat ==
  /\ node = "act" /\ RunNode /\ ~Exhausted
  /\ Repeats(pending)
  /\ \E n \in 1 .. Len(transcript) :
       /\ transcript[n].call = pending
       /\ \A m \in 1 .. n - 1 : transcript[m].call # pending
       /\ Observe(pending, transcript[n].outcome)
  /\ UNCHANGED <<reason, answer, budget, record, invoked>>

\* ToolRegistry.invoke refuses.
InvokeRefused ==
  /\ node = "act" /\ RunNode /\ ~Exhausted
  /\ ~Repeats(pending) /\ pending \notin Permitted
  /\ Observe(pending, Refusal(pending))
  /\ UNCHANGED <<reason, answer, budget, record, invoked>>

\* It runs the tool.
Invoke ==
  /\ node = "act" /\ RunNode /\ ~Exhausted
  /\ ~Repeats(pending) /\ pending \in Permitted
  /\ node' = "invoking"
  /\ invoked' = invoked \cup {pending}
  /\ UNCHANGED <<pending, transcript, reason, answer, budget, record, refused>>

\* The tool returns, with a result or an error of its own, and its cost.
ToolReturns(bill, outcome) ==
  /\ node = "invoking"
  /\ Observe(pending, outcome)
  /\ cost' = cost + bill
  /\ UNCHANGED <<reason, answer, steps, late, supersteps, record, invoked>>

\* ToolError: what the tool had spent is not known.
ToolFails ==
  /\ node = "invoking"
  /\ Observe(pending, "error")
  /\ UNCHANGED <<reason, answer, budget, supersteps, record, invoked>>

-------------------------------------------------------------------------------
(* run_agent and ask_agent. *)

\* Any other exception, from a node, the framework or the checkpointer: what
\* the run had done so far is given up.
Stops(why) ==
  /\ reason' = why /\ answer' = "none"
  /\ transcript' = << >>
  /\ pending' = NoCall
  /\ node' = "over"
  /\ UNCHANGED <<budget, supersteps, record, history>>

\* Where the framework may run no further node, its own error is the one raised.
OutOfSteps == node \in {"plan", "act"} /\ supersteps >= RecursionLimit

Breaks ==
  /\ node \in {"plan", "asking", "act", "invoking"}
  /\ Stops(IF OutOfSteps THEN "recursion" ELSE "failure")

\* _record_run: the calls, and the denials among them.
Denials(t) == Cardinality({n \in 1 .. Len(t) : t[n].outcome = "denied"})

Record ==
  /\ node = "over"
  /\ record' = [calls |-> Len(transcript), denied |-> Denials(transcript)]
  /\ node' = "recorded"
  /\ UNCHANGED <<pending, transcript, reason, answer, budget, supersteps, history>>

\* The clock: the run reaches its last second.
RunsLate ==
  /\ ~late /\ node # "recorded"
  /\ late' = TRUE
  /\ UNCHANGED <<node, pending, transcript, reason, answer, steps, cost, supersteps, record, history>>

Plan ==
  \/ PlanHalts \/ AskPlanner \/ PlannerUnreachable
  \/ \E bill \in 0 .. MaxBill :
       \/ \E why \in {"unusable", "neither"} : Useless(bill, why)
       \/ \E a \in {"text", "empty"} : Answer(bill, a)
       \/ \E c \in Calls : Choose(bill, c)

Act ==
  \/ ActHalts \/ ServeRepeat \/ InvokeRefused \/ Invoke \/ ToolFails
  \/ \E bill \in 0 .. MaxBill, outcome \in {"content", "error"} : ToolReturns(bill, outcome)

Next == Plan \/ Act \/ Breaks \/ Record \/ RunsLate

Spec == Init /\ [][Next]_vars

-------------------------------------------------------------------------------
(* Properties. *)

TypeOK ==
  /\ node \in Nodes
  /\ pending \in Calls \cup {NoCall}
  /\ transcript \in Seq([call: Calls, outcome: Outcomes])
  /\ reason \in Reasons
  /\ answer \in {"none", "text", "empty"}
  /\ steps \in Nat /\ cost \in Nat /\ late \in BOOLEAN
  /\ supersteps \in Nat
  /\ record \in [calls: Nat, denied: Nat]
  /\ invoked \in SUBSET Calls /\ refused \in Nat

\* A run passes its cost ceiling by less than one bill, its ceilings on steps
\* and tool calls not at all, whatever the model asks for.
WithinCeilings ==
  /\ cost < MaxCost + MaxBill
  /\ steps <= MaxSteps /\ Len(transcript) <= MaxToolCalls

\* The framework's limit on recursion is never what stops a run: the operator's
\* ceilings stop it first (agent/graph.py, "a backstop only").
BackstopUnused == reason # "recursion"

\* Once a ceiling has halted a run, whichever node saw it, neither the model nor
\* a tool is called again.
NothingAfterHalt ==
  [][ reason # "none" => node' \notin {"asking", "invoking"} ]_vars

\* No call is run twice, whatever came in between (agent/nodes.py, "an exact
\* repeat is waste").
RunsOnce ==
  [][ \A c \in invoked : ~(node = "act" /\ node' = "invoking" /\ pending = c) ]_vars

\* A run that is recorded without an answer says why, unless the model's answer
\* was empty; and none has both.
AnswerOrReason ==
  node = "recorded" =>
    (reason = "none") = (answer \in {"text", "empty"})

\* The record counts each time the model asked for a tool that the caller may
\* not use, repeats included and made-up names not, unless the run broke off.
DenialsCounted ==
  node = "recorded" /\ reason # "failure" => record.denied = refused
=================================================================================
