------------------------------- MODULE Widget -------------------------------
(***************************************************************************)
(* The chat widget (sdk/eaip-widget) over its client (sdk/eaip-client), the *)
(* host application's proxy, and the statuses with which the platform's    *)
(* MCP endpoint answers: one browser page whose session check and question *)
(* are answered late, while the host application replaces the client,      *)
(* clears the transcript or takes the widget away.                         *)
(***************************************************************************)
EXTENDS Naturals, Sequences

CONSTANTS
  Questions,  \* as many as are asked, numbered
  Clients     \* as many EaipClients as the options make, numbered

ASSUME WidgetAssumption == Questions \in Nat /\ Clients \in Nat \ {0}

VARIABLES
  client,    \* the present client's number: in use from its render on
  due,       \* its effect has not run yet
  checks,    \* startSession of each client, and what came of it
  asking,    \* the questions under way, each with its client
  asked,     \* questions asked so far
  messages,  \* the transcript
  status, shown,  \* as set, and as rendered: the composer goes by the latter
  sending, error,
  alive,     \* the component is mounted
  \* history
  cleared,   \* reset() came between a question and its answer
  lateCheck, \* an earlier client's check has passed since the present one's effect
  unchecked  \* questions sent, before that, on a client whose check had not passed

widgetVars == <<client, due, checks, asking, asked, messages, status, shown, sending, error,
                alive, cleared, lateCheck, unchecked>>

WidgetInit ==
  /\ client = 1 /\ due = TRUE
  /\ checks = [c \in 1..Clients |-> "none"]
  /\ asking = {} /\ asked = 0
  /\ messages = <<>>
  /\ status = "checking" /\ shown = "checking" /\ sending = FALSE /\ error = FALSE
  /\ alive = TRUE
  /\ cleared = FALSE /\ lateCheck = FALSE /\ unchecked = 0

-------------------------------------------------------------------------------
\* What the platform makes of tools/call, with the HTTP status the proxy passes
\* on; what the proxy says itself; and what never arrives.
Replies ==
  {"result", "tool failed", "unauthorized", "rate limited", "over budget", "crashed",
   "no token", "unreachable", "timed out", "no proxy"}

HttpStatus(o) ==
  CASE o \in {"result", "tool failed"} -> 200
    [] o = "unauthorized" -> 401
    [] o = "rate limited" -> 429
    [] o = "over budget" -> 402
    [] o = "crashed" -> 500
    [] o = "no token" -> 503
    [] o = "unreachable" -> 502
    [] OTHER -> 0

\* What #rpc, #post and ask throw, "answer" if they do not.
Thrown(o) ==
  CASE o = "timed out" -> "EaipError"
    [] o = "no proxy" -> "EaipNotConfiguredError"
    [] HttpStatus(o) \notin {0, 200, 401} -> "EaipNotConfiguredError"
    [] o = "unauthorized" -> "EaipAuthError"
    [] o = "tool failed" -> "EaipToolError"
    [] o = "result" -> "answer"

\* What startSession's answer makes of the status; a refusal of the token is one
\* only the identity provider's 401 or 403 could bring.
SessionStatus(o) ==
  CASE o = "ok" -> "ready"
    [] o = "refused" -> "unauthorized"
    [] OTHER -> "not-configured"

-------------------------------------------------------------------------------
\* Options that matter to the connection change: a render makes another client,
\* and the next question goes to that.  React runs an effect that is due before it
\* renders again.
RenderClient ==
  /\ alive /\ client < Clients /\ ~due
  /\ client' = client + 1
  /\ due' = TRUE /\ lateCheck' = FALSE
  /\ UNCHANGED <<checks, asking, asked, messages, status, shown, sending, error, alive, cleared,
                 unchecked>>

\* The effect: the status is set, and the check begins.
Started == IF due THEN [checks EXCEPT ![client] = "under way"] ELSE checks

\* A bug: the status would stay what it was for the client before.
MutantCheckedAgain(set) == set
CheckedAgain(set) == IF due THEN "checking" ELSE set

Effect ==
  /\ alive /\ due
  /\ due' = FALSE /\ checks' = Started /\ status' = CheckedAgain(status)
  /\ UNCHANGED <<client, asking, asked, messages, shown, sending, error, alive, cleared, lateCheck,
                 unchecked>>

\* A status that was set is rendered, some time later.
Renders ==
  /\ alive /\ ~due /\ shown # status
  /\ shown' = status
  /\ UNCHANGED <<client, due, checks, asking, asked, messages, status, sending, error, alive,
                 cleared, lateCheck, unchecked>>

\* A session check ends, be it the present client's or an earlier one's.
CheckEnds(c, o) ==
  /\ checks[c] = "under way"
  /\ checks' = [checks EXCEPT ![c] = IF o = "ok" THEN "passed" ELSE "failed"]
  /\ status' = IF alive THEN SessionStatus(o) ELSE status
  /\ lateCheck' = (lateCheck \/ (c < client /\ ~due /\ o = "ok"))
  /\ UNCHANGED <<client, due, asking, asked, messages, shown, sending, error, alive, cleared,
                 unchecked>>

\* A bug: nothing would stop a second question.
MutantMaySend == shown = "ready"
\* The composer is enabled; send() returns while a question is pending.
MaySend == shown = "ready" /\ ~sending

\* A click or a key: what it sets is rendered at once, so the composer is disabled,
\* and an effect that is due runs before that.
Send ==
  /\ alive /\ asked < Questions /\ MaySend
  /\ asked' = asked + 1
  /\ asking' = asking \cup {[q |-> asked + 1, on |-> client]}
  /\ messages' = Append(messages, [role |-> "user", q |-> asked + 1])
  /\ sending' = TRUE /\ error' = FALSE
  /\ due' = FALSE /\ checks' = Started /\ status' = CheckedAgain(status)
  /\ unchecked' = IF checks[client] = "passed" \/ lateCheck THEN unchecked ELSE unchecked + 1
  /\ UNCHANGED <<client, shown, alive, cleared, lateCheck>>

\* Its answer, or what was thrown: a failed tool is an answer shown as an error.
\* The composer is enabled again by the render that shows all of it.
AskEnds(a, o) ==
  /\ a \in asking
  /\ asking' = asking \ {a}
  /\ IF alive
     THEN /\ messages' = IF Thrown(o) \in {"answer", "EaipToolError"}
                         THEN Append(messages, [role |-> "assistant", q |-> a.q]) ELSE messages
          /\ due' = FALSE /\ checks' = Started
          /\ status' = CheckedAgain(IF Thrown(o) = "EaipNotConfiguredError" THEN "not-configured"
                                    ELSE status)
          /\ shown' = status'
          /\ error' = (error \/ Thrown(o) \in {"EaipAuthError", "EaipError"})
          /\ sending' = FALSE
     ELSE UNCHANGED <<due, checks, messages, status, shown, error, sending>>
  /\ UNCHANGED <<client, asked, alive, cleared, lateCheck, unchecked>>

\* reset(): what is under way goes on.
Reset ==
  /\ alive /\ messages # <<>>
  /\ messages' = <<>> /\ error' = FALSE
  /\ cleared' = (cleared \/ asking # {})
  /\ UNCHANGED <<client, due, checks, asking, asked, status, shown, sending, alive, lateCheck,
                 unchecked>>

Unmount ==
  /\ alive /\ ~due
  /\ alive' = FALSE
  /\ UNCHANGED <<client, due, checks, asking, asked, messages, status, shown, sending, error,
                 cleared, lateCheck, unchecked>>

WidgetNext ==
  \/ \E c \in 1..Clients, o \in {"ok", "refused", "no token", "no proxy"} : CheckEnds(c, o)
  \/ RenderClient \/ Effect \/ Renders \/ Send \/ Reset \/ Unmount
  \/ \E a \in asking, o \in Replies : AskEnds(a, o)

WidgetSpec == WidgetInit /\ [][WidgetNext]_widgetVars

-------------------------------------------------------------------------------
Statuses == {"checking", "ready", "not-configured", "unauthorized"}

WidgetTypeOK ==
  /\ client \in 1..Clients
  /\ checks \in [1..Clients -> {"none", "under way", "passed", "failed"}]
  /\ asking \subseteq [q : 1..Questions, on : 1..Clients] /\ asked \in 0..Questions
  /\ messages \in Seq([role : {"user", "assistant"}, q : 1..Questions])
  /\ {status, shown} \subseteq Statuses /\ unchecked \in Nat
  /\ {due, sending, error, alive, cleared, lateCheck} \subseteq BOOLEAN

\* An answer stands right behind its own question, however late it comes; only
\* an answer under way when the transcript was cleared heads it without one.
AnswersItsQuestion ==
  \A i \in 1..Len(messages) :
    messages[i].role = "assistant" =>
      \/ i > 1 /\ messages[i-1] = [role |-> "user", q |-> messages[i].q]
      \/ i = 1 /\ cleared

\* A new client is in use from its render, while "ready" is still shown of the one
\* before; its check begins after that, and shows in a later render.  At most one
\* question for each new client slips through before it has passed its check,
\* whatever answers and checks of earlier clients end meanwhile - until an earlier
\* client's late check passes for its own, which nothing cancels.
UncheckedOnce == unchecked < client
===============================================================================
