------------------------------- MODULE LlmLimits -------------------------------
(***************************************************************************)
(* What keeps one tenant's use of the models within bounds: the request    *)
(* rate limiter (core/ratelimit.py) and the daily budget (core/quota.py),  *)
(* in the order in which api/deps.py asks them before every chat, agent    *)
(* and MCP call.                                                           *)
(*                                                                         *)
(* Both keep one Redis key per tenant.  A slot is a thread that serves one *)
(* request after the other; the limits are checked when a request begins,  *)
(* and what it cost is added when the model has been paid, with any number *)
(* of other requests, a Redis outage or midnight in between.               *)
(***************************************************************************)
EXTENDS Naturals, FiniteSets, Functions

CONSTANTS
  Slots,        \* threads that can each serve a request of the tenant
  RateLimit,    \* llm_requests_per_minute
  Window,       \* the limiter's window, in ticks of the clock
  DailyBudget,  \* tenant_daily_budget_usd, in units of money
  MaxBill,      \* the most one request can cost
  MaxPerTick,   \* bound: requests that arrive between two ticks
  MaxOutages    \* bound: outages of Redis

ASSUME LimitsAssumption ==
  /\ IsFiniteSet(Slots)
  /\ RateLimit \in Nat /\ Window \in Nat \ {0} /\ DailyBudget \in Nat \ {0}
  /\ MaxBill \in Nat /\ MaxPerTick \in Nat /\ MaxOutages \in Nat

VARIABLES
  redis,     \* "up" or "down", as the backend sees it
  count,     \* the limiter's counter, kept up to RateLimit + 1
  ttl,       \* ticks until that key expires; 0: there is no key
  spent,     \* the counter under today's quota key; 0: there is no key
  phase,     \* of the request in each slot
  bill,      \* what the request in each slot has cost and not yet recorded
  \* history, read by no action
  asked,     \* requests that arrived, by their age in ticks
  admitted,  \* those the limiter let through: age and number in its tick
  openings,  \* requests the quota let through unasked, under today's key
  outages    \* outages so far

limiter == <<count, ttl>>
history == <<asked, admitted, openings, outages>>
vars == <<redis, limiter, spent, phase, bill, history>>

Ages == 0 .. Window - 1
InFlight == {s \in Slots : phase[s] \in {"working", "billed"}}

Init ==
  /\ redis = "up"
  /\ count = 0 /\ ttl = 0
  /\ spent = 0
  /\ phase = [s \in Slots |-> "idle"]
  /\ bill = [s \in Slots |-> 0]
  /\ asked = [a \in Ages |-> 0]
  /\ admitted = {}
  /\ openings = 0 /\ outages = 0

-------------------------------------------------------------------------------
(* check_rate_limit: INCR and EXPIRE in one MULTI, then the comparison. *)

\* A bug, and what "fixed window" means: only the first request sets the expiry.
MutantFirstSets == IF ttl = 0 THEN Window ELSE ttl
\* EXPIRE: every request, refused ones too, sets the key's life to a window.
NewTtl == Window

\* A request arrives in slot s and is counted.
Count(s) ==
  /\ phase[s] = "idle" /\ asked[0] < MaxPerTick
  /\ redis = "up"
  /\ count' = IF count > RateLimit THEN count ELSE count + 1
  /\ ttl' = NewTtl
  /\ asked' = [asked EXCEPT ![0] = @ + 1]
  /\ UNCHANGED <<redis, spent, bill, openings, outages>>

RateAdmits(s) ==
  /\ Count(s)
  /\ count' <= RateLimit
  /\ phase' = [phase EXCEPT ![s] = "limited"]
  /\ admitted' = admitted \cup {<<0, asked[0] + 1>>}

\* 429.
RateRefuses(s) ==
  /\ Count(s)
  /\ count' > RateLimit
  /\ phase' = [phase EXCEPT ![s] = "busy"]
  /\ UNCHANGED admitted

\* Redis cannot be reached: the limiter fails closed, with the same 429.
MutantFailsOpen(s) ==
  /\ phase[s] = "idle" /\ asked[0] < MaxPerTick
  /\ redis = "down"
  /\ phase' = [phase EXCEPT ![s] = "limited"]
  /\ asked' = [asked EXCEPT ![0] = @ + 1]
  /\ UNCHANGED <<redis, limiter, spent, bill, admitted, openings, outages>>
RateUnreachable(s) ==
  /\ phase[s] = "idle" /\ asked[0] < MaxPerTick
  /\ redis = "down"
  /\ phase' = [phase EXCEPT ![s] = "busy"]
  /\ asked' = [asked EXCEPT ![0] = @ + 1]
  /\ UNCHANGED <<redis, limiter, spent, bill, admitted, openings, outages>>

-------------------------------------------------------------------------------
(* check_quota: today's key is read, not reserved. *)

\* A bug: the budget would count as exhausted only when exceeded.
MutantOverspent == spent > DailyBudget
Exhausted == spent >= DailyBudget

QuotaAdmits(s) ==
  /\ phase[s] = "limited" /\ redis = "up" /\ ~Exhausted
  /\ phase' = [phase EXCEPT ![s] = "working"]
  /\ UNCHANGED <<redis, limiter, spent, bill, history>>

\* 402.
QuotaRefuses(s) ==
  /\ phase[s] = "limited" /\ redis = "up" /\ Exhausted
  /\ phase' = [phase EXCEPT ![s] = "broke"]
  /\ UNCHANGED <<redis, limiter, spent, bill, history>>

\* Redis cannot be reached: the quota fails open.
QuotaUnreachable(s) ==
  /\ phase[s] = "limited" /\ redis = "down"
  /\ phase' = [phase EXCEPT ![s] = "working"]
  /\ openings' = openings + 1
  /\ UNCHANGED <<redis, limiter, spent, bill, asked, admitted, outages>>

-------------------------------------------------------------------------------
(* The request itself, and record_spend after it. *)

\* The models have been paid.  An MCP call is charged a flat estimate instead.
Pay(s, cost) ==
  /\ phase[s] = "working"
  /\ phase' = [phase EXCEPT ![s] = "billed"]
  /\ bill' = [bill EXCEPT ![s] = cost]
  /\ UNCHANGED <<redis, limiter, spent, history>>

\* INCRBY on the key of the day it is now; lost if Redis cannot be reached.
Record(s) ==
  /\ phase[s] = "billed"
  /\ spent' = IF redis = "up" THEN spent + bill[s] ELSE spent
  /\ phase' = [phase EXCEPT ![s] = "idle"]
  /\ bill' = [bill EXCEPT ![s] = 0]
  /\ UNCHANGED <<redis, limiter, history>>

\* The request ends with nothing recorded: refused, or, once admitted, because
\* the process died, the client left a stream, or the handler raised before
\* record_spend.
Leave(s) ==
  /\ phase[s] # "idle"
  /\ phase' = [phase EXCEPT ![s] = "idle"]
  /\ bill' = [bill EXCEPT ![s] = 0]
  /\ UNCHANGED <<redis, limiter, spent, history>>

-------------------------------------------------------------------------------
(* Time and Redis. *)

Tick ==
  /\ ttl' = IF ttl = 0 THEN 0 ELSE ttl - 1
  /\ count' = IF ttl <= 1 THEN 0 ELSE count
  /\ asked' = [a \in Ages |-> IF a = 0 THEN 0 ELSE asked[a - 1]]
  /\ admitted' = {<<r[1] + 1, r[2]>> : r \in {q \in admitted : q[1] + 1 \in Ages}}
  /\ UNCHANGED <<redis, spent, phase, bill, openings, outages>>

\* Today's quota key is another one from now on, or the key was evicted.
QuotaKeyGone ==
  /\ spent' = 0
  /\ openings' = 0
  /\ UNCHANGED <<redis, limiter, phase, bill, asked, admitted, outages>>

\* The limiter's key was evicted, or Redis restarted: it persists nothing.
LimiterKeyGone ==
  /\ count' = 0 /\ ttl' = 0
  /\ asked' = [a \in Ages |-> 0]
  /\ admitted' = {}
  /\ UNCHANGED <<redis, spent, phase, bill, openings, outages>>

Fails ==
  /\ redis = "up" /\ outages < MaxOutages
  /\ redis' = "down"
  /\ outages' = outages + 1
  /\ UNCHANGED <<limiter, spent, phase, bill, asked, admitted, openings>>

Recovers ==
  /\ redis = "down"
  /\ redis' = "up"
  /\ UNCHANGED <<limiter, spent, phase, bill, history>>

Serve(s) ==
  \/ RateAdmits(s) \/ RateRefuses(s) \/ RateUnreachable(s)
  \/ QuotaAdmits(s) \/ QuotaRefuses(s) \/ QuotaUnreachable(s)
  \/ \E cost \in 0 .. MaxBill : Pay(s, cost)
  \/ Record(s) \/ Leave(s)

World == Tick \/ QuotaKeyGone \/ LimiterKeyGone \/ Fails \/ Recovers

Next == World \/ \E s \in Slots : Serve(s)

Spec == Init /\ [][Next]_vars

-------------------------------------------------------------------------------
(* Properties. *)

\* Every variable keeps its type; the limiter's key exists exactly while it
\* has a life, which is never longer than a window.
TypeOK ==
  /\ redis \in {"up", "down"}
  /\ count \in 0 .. RateLimit + 1 /\ ttl \in 0 .. Window
  /\ spent \in Nat
  /\ phase \in [Slots -> {"idle", "limited", "busy", "broke", "working", "billed"}]
  /\ bill \in [Slots -> 0 .. MaxBill]
  /\ asked \in [Ages -> 0 .. MaxPerTick]
  /\ admitted \subseteq Ages \X (1 .. MaxPerTick)
  /\ openings \in Nat /\ outages \in Nat

\* While its key lives the limiter admits no more than RateLimit requests in any
\* stretch of Window ticks, wherever it starts: stronger than the "up to 2x
\* across a window boundary" that ratelimit.py expects of itself.
SlidingWindow == Cardinality(admitted) <= RateLimit

\* The daily total passes the budget at most by what was in flight when it was
\* reached (check_quota's docstring): the last unit of the budget can start a
\* request in every slot, and each fail-open admission adds one more bill.
Overshoot ==
  spent <= DailyBudget - 1 + MaxBill * (Cardinality(Slots) + openings)

\* The limiter that fails closed protects the quota that fails open: an outage
\* lets through unasked only what the limiter had already passed, one request a
\* slot.
OutageIsContained == openings <= Cardinality(Slots) * outages

\* Violated.  ratelimit.py: "Fixed window", a RateLimit being "how many
\* operations are allowed per window": a request is refused only if more than
\* that many arrived within a window's length before it.
RefusedOnlyOverLimit ==
  [][\A s \in Slots :
       redis = "up" /\ phase[s] = "idle" /\ phase'[s] = "busy" =>
         FoldFunction(LAMBDA n, sum : n + sum, 0, asked') > RateLimit]_vars
===============================================================================
