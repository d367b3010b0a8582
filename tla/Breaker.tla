------------------------------- MODULE Breaker -------------------------------
(***************************************************************************)
(* The circuit breaker and the retries of a connector that calls out       *)
(* (connectors/resilience.py) under the GETs of a REST connector           *)
(* (connectors/rest/connector.py): threads call the same connector, each   *)
(* call makes up to three attempts and tells the breaker once, whatever    *)
(* the breaker has become meanwhile.                                       *)
(*                                                                         *)
(* The breaker has no lock.  Under the interpreter's own, threads change   *)
(* at calls: a trip may be interrupted where _trip is called and where it  *)
(* asks for the time, a look at the breaker where that asks for it.        *)
(***************************************************************************)
EXTENDS Integers

CONSTANTS
  Threads,
  Threshold,  \* failure_threshold
  Recovery,   \* recovery_seconds, in ticks
  Attempts,   \* RetryPolicy.attempts
  MaxCalls,      \* a bound: as many calls are made
  LastTick    \* a bound: the time ends there

ASSUME BreakerAssumption ==
  /\ {Threshold, Recovery, Attempts} \subseteq Nat \ {0}
  /\ {MaxCalls, LastTick} \subseteq Nat

VARIABLES
  now,
  breaker,   \* _state, _failures and _opened_at ({} for None)
  thread,    \* each thread's call, and its attempts that failed
  made,      \* calls made
  \* history
  streak,    \* calls recorded as failed since the last that was not
  failedAt,  \* when the last of them was
  raced      \* the breaker was used in the middle of another thread's trip

breakerVars == <<now, breaker, thread, made, streak, failedAt, raced>>

Idle == [at |-> "idle", tries |-> 0, time |-> 0]
Closed == [state |-> "closed", failures |-> 0, opened |-> {}]

BreakerInit ==
  /\ now = 0 /\ made = 0 /\ streak = 0 /\ failedAt = 0 /\ raced = FALSE
  /\ breaker = Closed
  /\ thread = [t \in Threads |-> Idle]

Later ==
  /\ now < LastTick
  /\ now' = now + 1
  /\ UNCHANGED <<breaker, thread, made, streak, failedAt, raced>>

\* By any but the thread that is amidst a trip.
Used(by) == raced' = (raced \/ \E u \in Threads \ by : thread[u].at \in {"tripping", "timing"})

-------------------------------------------------------------------------------
\* `state`: it asks for the time if the breaker is open since some time;
Timed == breaker.state = "open" /\ breaker.opened # {}

\* and moves it to half-open if its time is up by then, since when it was opened
\* being read anew.
Seen(time) ==
  IF \E o \in breaker.opened : time - o >= Recovery
  THEN [breaker EXCEPT !.state = "half open"] ELSE breaker

Verdict(b) == IF b.state = "open" THEN "refused" ELSE "trying"

\* before_call lets a call through unless the breaker is open.  An endpoint that
\* is not declared, a missing path parameter and a caller without the labels are
\* turned away before the breaker is asked.
Call(t) ==
  /\ thread[t].at = "idle" /\ made < MaxCalls
  /\ made' = made + 1
  /\ IF Timed
     THEN thread' = [thread EXCEPT ![t].at = "looking", ![t].time = now] /\ UNCHANGED raced
     ELSE thread' = [thread EXCEPT ![t].at = Verdict(breaker)] /\ Used({t})
  /\ UNCHANGED <<now, breaker, streak, failedAt>>

\* The time is told, but the breaker need not be open any more: None cannot be
\* taken from it, which raises a TypeError.
Decides(t) ==
  /\ thread[t].at = "looking"
  /\ breaker' = Seen(thread[t].time)
  /\ thread' = [thread EXCEPT ![t] = [Idle EXCEPT !.at =
                   IF breaker.opened = {} THEN "raised" ELSE Verdict(breaker')]]
  /\ Used({t})
  /\ UNCHANGED <<now, made, streak, failedAt>>

\* What came of the call has reached the caller.
Hear(t) ==
  /\ thread[t].at \in {"refused", "raised", "answered", "failed"}
  /\ thread' = [thread EXCEPT ![t] = Idle]
  /\ UNCHANGED <<now, breaker, made, streak, failedAt, raced>>

\* health(): it looks, too, and changes nothing unless it asks for the time.
Health(t) ==
  /\ thread[t].at = "idle" /\ Timed
  /\ thread' = [thread EXCEPT ![t].at = "glancing", ![t].time = now]
  /\ UNCHANGED <<now, breaker, made, streak, failedAt, raced>>

HealthEnds(t) ==
  /\ thread[t].at = "glancing"
  /\ breaker' = Seen(thread[t].time)
  /\ thread' = [thread EXCEPT ![t] = Idle]
  /\ Used({t})
  /\ UNCHANGED <<now, made, streak, failedAt>>

\* An attempt brings a response below 400: record_success, whatever was recorded.
Succeeds(t) ==
  /\ thread[t].at = "trying"
  /\ breaker' = Closed
  /\ streak' = 0
  /\ thread' = [thread EXCEPT ![t].at = "answered"]
  /\ Used({t})
  /\ UNCHANGED <<now, made, failedAt>>

\* A timeout, no connection, 429 or 5xx, with attempts left: the thread sleeps
\* and tries again, whatever others have found out.
Retries(t) ==
  /\ thread[t].at = "trying" /\ thread[t].tries + 1 < Attempts
  /\ thread' = [thread EXCEPT ![t].tries = @ + 1]
  /\ UNCHANGED <<now, breaker, made, streak, failedAt, raced>>

\* record_failure: half-open, or for the Threshold-th time, it trips.
Trips == breaker.state = "half open" \/ breaker.failures + 1 >= Threshold
Counted == [breaker EXCEPT !.failures = IF breaker.state = "half open" THEN @ ELSE @ + 1]

FailureRecorded == streak' = streak + 1 /\ failedAt' = now

\* The last attempt fails, or one does in a way no retry would mend.
Fails(t, retryable) ==
  /\ thread[t].at = "trying"
  /\ retryable => thread[t].tries + 1 = Attempts
  /\ breaker' = Counted
  /\ thread' = [thread EXCEPT ![t].at = IF Trips THEN "tripping" ELSE "failed"]
  /\ IF Trips THEN UNCHANGED <<streak, failedAt>> ELSE FailureRecorded
  /\ Used({t})
  /\ UNCHANGED <<now, made>>

\* _trip: the state, and the time is asked for;
TripOpens(t) ==
  /\ thread[t].at = "tripping"
  /\ breaker' = [breaker EXCEPT !.state = "open"]
  /\ thread' = [thread EXCEPT ![t].at = "timing", ![t].time = now]
  /\ Used({t})
  /\ UNCHANGED <<now, made, streak, failedAt>>

\* A bug: the time of the first trip would be kept.
MutantStamped(time) == IF breaker.opened = {} THEN {time} ELSE breaker.opened
Stamped(time) == {time}

\* the time, and the count.
TripEnds(t) ==
  /\ thread[t].at = "timing"
  /\ breaker' = [breaker EXCEPT !.opened = Stamped(thread[t].time), !.failures = Threshold]
  /\ thread' = [thread EXCEPT ![t] = [Idle EXCEPT !.at = "failed"]]
  /\ streak' = streak + 1 /\ failedAt' = thread[t].time
  /\ Used({t})
  /\ UNCHANGED <<now, made>>

BreakerNext ==
  \/ Later
  \/ \E t \in Threads :
       \/ Call(t) \/ Decides(t) \/ Hear(t) \/ Health(t) \/ HealthEnds(t)
       \/ Succeeds(t) \/ Retries(t) \/ TripOpens(t) \/ TripEnds(t)
       \/ \E retryable \in BOOLEAN : Fails(t, retryable)

BreakerSpec == BreakerInit /\ [][BreakerNext]_breakerVars

-------------------------------------------------------------------------------
BreakerTypeOK ==
  /\ now \in 0..LastTick /\ made \in 0..MaxCalls /\ streak \in Nat /\ failedAt \in 0..LastTick
  /\ breaker.state \in {"closed", "open", "half open"} /\ breaker.failures \in Nat
  /\ breaker.opened \in SUBSET (0..LastTick) /\ raced \in BOOLEAN
  /\ thread \in [Threads ->
       [at : {"idle", "looking", "glancing", "trying", "tripping", "timing", "refused", "raised",
              "answered", "failed"},
        tries : 0..(Attempts - 1), time : 0..LastTick]]

\* Whatever calls of other threads end meanwhile, before a trip or after it, a
\* call is refused only if the last Threshold calls recorded have failed and the
\* last of them less than recovery_seconds before the clock was read, and let
\* through only if not, or if that time is up by now: one success is enough to
\* let calls through again, and each failure counts the time anew.  If before_call
\* raises anything else, a success has closed the breaker since it read the clock.
\* All this until a thread uses the breaker in the middle of another's trip, which
\* may lose the trip, or leave a closed breaker with a full count.
Decided(t) == thread[t].at \in {"idle", "looking"} /\ thread[t].at # thread'[t].at /\ ~raced'

RefusesExactly ==
  [][\A t \in Threads : Decided(t) =>
       /\ thread'[t].at = "refused" => streak >= Threshold /\ thread[t].time - failedAt < Recovery
       /\ thread'[t].at = "trying" => streak < Threshold \/ now - failedAt >= Recovery
       /\ thread'[t].at = "raised" => streak < Threshold /\ thread[t].at = "looking"]_breakerVars
===============================================================================
