---------------------------- MODULE AgentRunProofs ----------------------------
(***************************************************************************)
(* What a run of the agent keeps to, whatever the model asks for, for      *)
(* every set of calls and every setting of the ceilings.                   *)
(***************************************************************************)
EXTENDS AgentRun, SequenceTheorems, FiniteSetTheorems, TLAPS

Running == {"plan", "asking", "act", "invoking"}

\* While the planner or a tool is at work, no ceiling but the clock's had been
\* reached; in between, each has been passed by the last step at most.
Roomy ==
  /\ node = "asking" => steps < MaxSteps /\ Len(transcript) < MaxToolCalls /\ cost < MaxCost
  /\ node = "invoking" => Len(transcript) < MaxToolCalls /\ cost < MaxCost

\* Each round of planning and acting runs two nodes, and every planning that
\* gets to acting is a step.
Paced ==
  /\ node = "plan" => supersteps <= 2 * steps
  /\ node = "asking" => supersteps <= 2 * steps + 1
  /\ node = "act" => supersteps <= 2 * steps - 1
  /\ node = "invoking" => supersteps <= 2 * steps

\* A run that goes on has no answer; it has a reason only on its way from act to
\* the planner, which will see the same ceiling.
Reasoned ==
  /\ node \in Running => answer = "none"
  /\ node \in {"asking", "act", "invoking"} => reason = "none"
  /\ node = "plan" /\ reason # "none" => Exhausted
  /\ node \in {"over", "recorded"} => ((reason = "none") = (answer \in {"text", "empty"}))
  /\ reason # "recursion"

\* What a run has invoked is in its transcript, or being invoked.
Remembered ==
  /\ node \in {"act", "invoking"} => pending \in Calls
  /\ node \in Running =>
       \A c \in invoked : Asked(c) \/ (node = "invoking" /\ pending = c)

\* The denials in the transcript are the refusals so far: a call is denied, the
\* first time or repeated, just when the caller may not use its tool.
AllCounted ==
  /\ \A n \in 1 .. Len(transcript) :
       transcript[n].outcome = "denied" <=> transcript[n].call \in Registered \ Permitted
  /\ node = "invoking" => pending \in Permitted
  /\ node \in Running \/ reason \notin {"failure", "recursion"} => refused = Denials(transcript)
  /\ node = "recorded" => record.denied = Denials(transcript)

IInv == TypeOK /\ WithinCeilings /\ Roomy /\ Paced /\ Reasoned /\ Remembered /\ AllCounted

LEMMA InitIInv == Init => IInv
<1> SUFFICES ASSUME Init PROVE IInv
    OBVIOUS
<1> USE RunAssumption DEF Init
<1>1. TypeOK
  <2>1. transcript \in Seq([call: Calls, outcome: Outcomes])
      OBVIOUS
  <2>2. record \in [calls: Nat, denied: Nat]
      BY DEF NoRecord
  <2> QED BY <2>1, <2>2 DEF TypeOK, Nodes, Reasons
<1>2. WithinCeilings
    BY <1>1 DEF WithinCeilings, TypeOK
<1>3. Roomy /\ Paced /\ Reasoned /\ Remembered
    BY DEF Roomy, Paced, Reasoned, Remembered, Running
<1>4. AllCounted
  <2>1. {n \in 1 .. Len(transcript) : transcript[n].outcome = "denied"} = {}
      OBVIOUS
  <2> QED BY <2>1, FS_EmptySet DEF AllCounted, Denials
<1> QED BY <1>1, <1>2, <1>3, <1>4 DEF IInv

\* What Observe makes of the transcript.
LEMMA Observed ==
  ASSUME TypeOK, NEW c \in Calls, NEW o \in Outcomes,
         transcript' = Append(transcript, [call |-> c, outcome |-> o])
  PROVE  /\ transcript' \in Seq([call: Calls, outcome: Outcomes])
         /\ Len(transcript') = Len(transcript) + 1
         /\ \A d : (\E n \in 1 .. Len(transcript) : transcript[n].call = d)
                     => \E n \in 1 .. Len(transcript') : transcript'[n].call = d
         /\ \E n \in 1 .. Len(transcript') : transcript'[n].call = c
         /\ \A n \in 1 .. Len(transcript) : transcript'[n] = transcript[n]
         /\ transcript'[Len(transcript) + 1] = [call |-> c, outcome |-> o]
         /\ Denials(transcript') = Denials(transcript) + (IF o = "denied" THEN 1 ELSE 0)
<1> DEFINE x == [call |-> c, outcome |-> o]
<1>1. x \in [call: Calls, outcome: Outcomes] /\ x.call = c
    OBVIOUS
<1>2. transcript \in Seq([call: Calls, outcome: Outcomes])
    BY DEF TypeOK
<1> HIDE DEF x
<1>3. transcript' = Append(transcript, x)
    BY DEF x
<1>4. /\ transcript' \in Seq([call: Calls, outcome: Outcomes])
      /\ Len(transcript') = Len(transcript) + 1
      /\ \A n \in 1 .. Len(transcript) : transcript'[n] = transcript[n]
      /\ transcript'[Len(transcript) + 1] = x
    BY <1>1, <1>2, <1>3
<1>5. Len(transcript) \in Nat
    BY <1>2
<1>6. \A d : (\E n \in 1 .. Len(transcript) : transcript[n].call = d)
                => \E n \in 1 .. Len(transcript') : transcript'[n].call = d
    BY <1>4, <1>5
<1>7. \E n \in 1 .. Len(transcript') : transcript'[n].call = c
  <2>1. Len(transcript) + 1 \in 1 .. Len(transcript')
      BY <1>4, <1>5
  <2> QED BY <1>1, <1>4, <2>1
<1>8. Denials(transcript') = Denials(transcript) + (IF o = "denied" THEN 1 ELSE 0)
  <2> DEFINE D == {n \in 1 .. Len(transcript) : transcript[n].outcome = "denied"}
             E == {n \in 1 .. Len(transcript') : transcript'[n].outcome = "denied"}
  <2>1. x.outcome = o
      BY DEF x
  <2>2. E = IF o = "denied" THEN D \cup {Len(transcript) + 1} ELSE D
      BY <1>4, <1>5, <2>1
  <2>3. Len(transcript) + 1 \notin D
      BY <1>5
  <2>4. IsFiniteSet(D) /\ Cardinality(D) \in Nat
    <3>1. IsFiniteSet(1 .. Len(transcript))
        BY <1>5, FS_Interval
    <3>2. D \subseteq 1 .. Len(transcript)
        OBVIOUS
    <3> QED BY <3>1, <3>2, FS_Subset, FS_CardinalityType
  <2> HIDE DEF D, E
  <2>5. Cardinality(E) = Cardinality(D) + (IF o = "denied" THEN 1 ELSE 0)
    <3>1. CASE o = "denied"
      <4>1. E = D \cup {Len(transcript) + 1}
          BY <2>2, <3>1
      <4> QED BY <2>3, <2>4, <3>1, <4>1, FS_AddElement
    <3>2. CASE o # "denied"
        BY <2>2, <2>4, <3>2
    <3> QED BY <3>1, <3>2
  <2> QED BY <2>5 DEF Denials, D, E
<1> QED BY <1>3, <1>4, <1>6, <1>7, <1>8 DEF x

LEMMA DenialsType ==
  ASSUME NEW t, Len(t) \in Nat
  PROVE  Denials(t) \in Nat
<1>1. IsFiniteSet(1 .. Len(t))
    BY FS_Interval
<1>2. {n \in 1 .. Len(t) : t[n].outcome = "denied"} \subseteq 1 .. Len(t)
    OBVIOUS
<1> QED BY <1>1, <1>2, FS_Subset, FS_CardinalityType DEF Denials

-------------------------------------------------------------------------------
(* One step. *)

\* The steps that leave the transcript and what has been invoked alone.
LEMMA QuietStep ==
  ASSUME IInv, UNCHANGED <<transcript, invoked>>,
         \/ PlanHalts \/ AskPlanner \/ PlannerUnreachable \/ ActHalts \/ Record \/ RunsLate
         \/ \E bill \in 0 .. MaxBill :
              \/ \E why \in {"unusable", "neither"} : Useless(bill, why)
              \/ \E a \in {"text", "empty"} : Answer(bill, a)
              \/ \E c \in Calls : Choose(bill, c)
  PROVE  IInv'
<1> USE RunAssumption
<1>0. /\ TypeOK /\ WithinCeilings /\ Roomy /\ Paced /\ Reasoned /\ Remembered /\ AllCounted
      /\ \A c : Asked(c)' <=> Asked(c)
      /\ Len(transcript) \in Nat /\ Len(transcript') = Len(transcript)
    BY DEF IInv, Asked, TypeOK
<1>1. CASE PlanHalts
  <2> USE <1>0, <1>1 DEF PlanHalts, RunNode, RecursionLimit, budget, history
  <2>1. TypeOK' BY DEF TypeOK, Nodes, Reasons
  <2>2. WithinCeilings' /\ Roomy' BY DEF WithinCeilings, Roomy
  <2>3. Paced' BY DEF Paced, TypeOK
  <2>4. Reasoned' BY DEF Reasoned, Running, Exhausted
  <2>5. Remembered' BY DEF Remembered, Running
  <2>9. AllCounted' BY DEF AllCounted, Running
  <2> QED BY <2>1, <2>2, <2>3, <2>4, <2>5, <2>9 DEF IInv
<1>2. CASE AskPlanner
  <2> USE <1>0, <1>2 DEF AskPlanner, RunNode, RecursionLimit, budget, history
  <2>1. TypeOK' BY DEF TypeOK, Nodes, Reasons
  <2>2. WithinCeilings' /\ Roomy' BY DEF WithinCeilings, Roomy, Exhausted, TypeOK
  <2>3. Paced' BY DEF Paced, TypeOK
  <2>4. Reasoned' BY DEF Reasoned, Running, Exhausted
  <2>5. Remembered' BY DEF Remembered, Running
  <2>9. AllCounted' BY DEF AllCounted, Running
  <2> QED BY <2>1, <2>2, <2>3, <2>4, <2>5, <2>9 DEF IInv
<1>3. CASE PlannerUnreachable
  <2> USE <1>0, <1>3 DEF PlannerUnreachable, budget, history
  <2>1. TypeOK' BY DEF TypeOK, Nodes, Reasons
  <2>2. WithinCeilings' /\ Roomy' BY DEF WithinCeilings, Roomy
  <2>3. Paced' BY DEF Paced, TypeOK
  <2>4. Reasoned' BY DEF Reasoned, Running, Exhausted
  <2>5. Remembered' BY DEF Remembered, Running
  <2>9. AllCounted' BY DEF AllCounted, Running
  <2> QED BY <2>1, <2>2, <2>3, <2>4, <2>5, <2>9 DEF IInv
<1>4. CASE ActHalts
  <2> USE <1>0, <1>4 DEF ActHalts, RunNode, RecursionLimit, budget, history
  <2>1. TypeOK' BY DEF TypeOK, Nodes, Reasons
  <2>2. WithinCeilings' /\ Roomy' BY DEF WithinCeilings, Roomy
  <2>3. Paced' BY DEF Paced, TypeOK
  <2>4. Reasoned' BY DEF Reasoned, Running, Exhausted
  <2>5. Remembered' BY DEF Remembered, Running
  <2>9. AllCounted' BY DEF AllCounted, Running
  <2> QED BY <2>1, <2>2, <2>3, <2>4, <2>5, <2>9 DEF IInv
<1>5. CASE Record
  <2> USE <1>0, <1>5 DEF Record, budget, history
  <2>1. Denials(transcript) \in Nat
    BY DenialsType
  <2>2. TypeOK' BY <2>1 DEF TypeOK, Nodes, Reasons
  <2>3. WithinCeilings' /\ Roomy' BY DEF WithinCeilings, Roomy
  <2>4. Paced' BY DEF Paced, TypeOK
  <2>5. Reasoned' BY DEF Reasoned, Running, Exhausted
  <2>6. Remembered' BY DEF Remembered, Running
  <2>9. AllCounted' BY DEF AllCounted, Running
  <2> QED BY <2>2, <2>3, <2>4, <2>5, <2>6, <2>9 DEF IInv
<1>6. CASE RunsLate
  <2> USE <1>0, <1>6 DEF RunsLate, history
  <2>1. TypeOK' BY DEF TypeOK, Nodes, Reasons
  <2>2. WithinCeilings' /\ Roomy' BY DEF WithinCeilings, Roomy
  <2>3. Paced' BY DEF Paced, TypeOK
  <2>4. Reasoned' BY DEF Reasoned, Running, Exhausted
  <2>5. Remembered' BY DEF Remembered, Running
  <2>9. AllCounted' BY DEF AllCounted, Running
  <2> QED BY <2>1, <2>2, <2>3, <2>4, <2>5, <2>9 DEF IInv
<1>7. ASSUME NEW bill \in 0 .. MaxBill, Reply(bill)
      PROVE  /\ steps' \in Nat /\ cost' \in Nat /\ WithinCeilings'
             /\ steps' = steps + 1 /\ supersteps <= 2 * steps' - 1
             /\ UNCHANGED <<late, supersteps, record, history>>
             /\ reason = "none" /\ answer = "none" /\ node = "asking"
    BY <1>0, <1>7 DEF Reply, TypeOK, WithinCeilings, Roomy, Paced, Reasoned, Running
<1>8. ASSUME NEW bill \in 0 .. MaxBill, NEW why \in {"unusable", "neither"}, Useless(bill, why)
      PROVE  IInv'
  <2> USE <1>0, <1>7, <1>8 DEF Useless
  <2>1. TypeOK' BY DEF TypeOK, Nodes, Reasons, history
  <2>2. Roomy' /\ Paced' BY DEF Roomy, Paced
  <2>3. Reasoned' /\ Remembered' BY DEF Reasoned, Remembered, Running
  <2>9. AllCounted' BY DEF AllCounted, Running, history
  <2> QED BY <2>1, <2>2, <2>3, <2>9 DEF IInv
<1>9. ASSUME NEW bill \in 0 .. MaxBill, NEW a \in {"text", "empty"}, Answer(bill, a)
      PROVE  IInv'
  <2> USE <1>0, <1>7, <1>9 DEF Answer
  <2>1. TypeOK' BY DEF TypeOK, Nodes, Reasons, history
  <2>2. Roomy' /\ Paced' BY DEF Roomy, Paced
  <2>3. Reasoned' /\ Remembered' BY DEF Reasoned, Remembered, Running
  <2>9. AllCounted' BY DEF AllCounted, Running, history
  <2> QED BY <2>1, <2>2, <2>3, <2>9 DEF IInv
<1>10. ASSUME NEW bill \in 0 .. MaxBill, NEW c \in Calls, Choose(bill, c)
       PROVE  IInv'
  <2> USE <1>0, <1>7, <1>10 DEF Choose
  <2>1. TypeOK' BY DEF TypeOK, Nodes, Reasons, history
  <2>2. Roomy' /\ Paced' BY DEF Roomy, Paced
  <2>3. Reasoned' /\ Remembered' BY DEF Reasoned, Remembered, Running
  <2>9. AllCounted' BY DEF AllCounted, Running, history
  <2> QED BY <2>1, <2>2, <2>3, <2>9 DEF IInv
<1> QED BY <1>1, <1>2, <1>3, <1>4, <1>5, <1>6, <1>8, <1>9, <1>10

\* What comes of a call is added to the transcript, and the planner is next.
LEMMA ObserveStep ==
  ASSUME IInv, NEW o \in Outcomes, Observe(pending, o),
         o = "denied" <=> pending \in Registered \ Permitted,
         UNCHANGED <<reason, answer, steps, late, record, invoked>>,
         Len(transcript) < MaxToolCalls, cost < MaxCost,
         NEW bill \in 0 .. MaxBill, cost' = cost + bill,
         \/ node = "act" /\ supersteps' = supersteps + 1
         \/ node = "invoking" /\ supersteps' = supersteps
  PROVE  IInv'
<1> USE RunAssumption
<1>0. /\ TypeOK /\ WithinCeilings /\ Roomy /\ Paced /\ Reasoned /\ Remembered /\ AllCounted
      /\ pending \in Calls
    BY DEF IInv, Remembered
<1>a. transcript' = Append(transcript, [call |-> pending, outcome |-> o])
    BY DEF Observe
<1>b. /\ transcript' \in Seq([call: Calls, outcome: Outcomes])
      /\ Len(transcript') = Len(transcript) + 1
      /\ \A d : (\E n \in 1 .. Len(transcript) : transcript[n].call = d)
                  => \E n \in 1 .. Len(transcript') : transcript'[n].call = d
      /\ \E n \in 1 .. Len(transcript') : transcript'[n].call = pending
    BY <1>0, <1>a, Observed
<1>1. /\ transcript' \in Seq([call: Calls, outcome: Outcomes])
      /\ Len(transcript') = Len(transcript) + 1
      /\ \A d : Asked(d) \/ d = pending => Asked(d)'
    BY <1>b DEF Asked
<1>2. TypeOK'
    BY <1>0, <1>1 DEF TypeOK, Observe, Nodes, Reasons
<1>3. WithinCeilings' /\ Roomy' /\ Paced'
    BY <1>0, <1>1 DEF WithinCeilings, Roomy, Paced, Observe, TypeOK
<1>4. Reasoned'
    BY <1>0 DEF Reasoned, Running, Observe
<1>5. Remembered'
  <2>1. node \in Running
      BY DEF Running
  <2>2. \A c \in invoked : Asked(c)'
      BY <1>0, <1>1, <2>1 DEF Remembered
  <2> QED BY <2>2 DEF Remembered, Observe
<1>6. AllCounted'
  <2>1. /\ \A n \in 1 .. Len(transcript) : transcript'[n] = transcript[n]
        /\ transcript'[Len(transcript) + 1] = [call |-> pending, outcome |-> o]
        /\ Denials(transcript') = Denials(transcript) + (IF o = "denied" THEN 1 ELSE 0)
      BY <1>0, <1>a, Observed
  <2>2. Len(transcript) \in Nat
      BY <1>0 DEF TypeOK
  <2>3. \A n \in 1 .. Len(transcript') :
          transcript'[n].outcome = "denied" <=> transcript'[n].call \in Registered \ Permitted
    <3> TAKE n \in 1 .. Len(transcript')
    <3>1. n \in 1 .. Len(transcript) \/ n = Len(transcript) + 1
        BY <1>1, <2>2
    <3> QED BY <1>0, <2>1, <3>1 DEF AllCounted
  <2>4. reason = "none" /\ refused \in Nat /\ Denials(transcript) \in Nat
      BY <1>0, <2>2, DenialsType DEF Reasoned, TypeOK
  <2>5. refused' = Denials(transcript')
      BY <1>0, <2>1, <2>4 DEF AllCounted, Observe
  <2> QED BY <2>3, <2>5 DEF AllCounted, Observe
<1> QED BY <1>2, <1>3, <1>4, <1>5, <1>6 DEF IInv

\* What the run had done is given up.
LEMMA BreakStep ==
  ASSUME IInv, Breaks
  PROVE  IInv'
<1> USE RunAssumption DEF Breaks, Stops
<1>0. /\ TypeOK /\ WithinCeilings /\ Roomy /\ Paced /\ Reasoned /\ Remembered /\ AllCounted
      /\ transcript' = << >>
    BY DEF IInv
<1>1. ~OutOfSteps
    BY <1>0, RunAssumption DEF OutOfSteps, RecursionLimit, TypeOK, Paced, WithinCeilings
<1>2. reason' = "failure"
    BY <1>1
<1>3. Len(transcript') = 0 /\ transcript' \in Seq([call: Calls, outcome: Outcomes])
    BY <1>0
<1> HIDE DEF Stops
<1>4. /\ answer' = "none" /\ pending' = NoCall /\ node' = "over"
      /\ UNCHANGED <<steps, cost, late, supersteps, record, invoked, refused>>
    BY DEF Stops, budget, history
<1>5. TypeOK'
    BY <1>0, <1>2, <1>3, <1>4 DEF TypeOK, Nodes, Reasons
<1>6. WithinCeilings' /\ Roomy' /\ Paced' /\ Reasoned' /\ Remembered'
    BY <1>0, <1>2, <1>3, <1>4
    DEF WithinCeilings, Roomy, Paced, Reasoned, Remembered, Running
<1>7. AllCounted'
    BY <1>2, <1>3, <1>4 DEF AllCounted, Running
<1> QED BY <1>5, <1>6, <1>7 DEF IInv

\* The tool is run; it joins what has been invoked.
LEMMA InvokeStep ==
  ASSUME IInv, Invoke
  PROVE  IInv'
<1> USE RunAssumption DEF Invoke, RunNode
<1>0. /\ TypeOK /\ WithinCeilings /\ Roomy /\ Paced /\ Reasoned /\ Remembered /\ AllCounted
      /\ \A c : Asked(c)' <=> Asked(c)
      /\ Len(transcript) \in Nat /\ Len(transcript') = Len(transcript)
    BY DEF IInv, Asked, TypeOK
<1>1. TypeOK'
    BY <1>0 DEF TypeOK, Nodes, Reasons, budget, Remembered
<1>2. WithinCeilings' /\ Roomy'
    BY <1>0 DEF WithinCeilings, Roomy, Exhausted, budget, TypeOK
<1>3. Paced'
    BY <1>0 DEF Paced, TypeOK, budget
<1>4. Reasoned'
    BY <1>0 DEF Reasoned, Running
<1>5. Remembered'
    BY <1>0 DEF Remembered, Running
<1>6. AllCounted'
    BY <1>0 DEF AllCounted, Running
<1> QED BY <1>1, <1>2, <1>3, <1>4, <1>5, <1>6 DEF IInv

LEMMA StepIInv == IInv /\ [Next]_vars => IInv'
<1> SUFFICES ASSUME IInv, [Next]_vars PROVE IInv'
    OBVIOUS
<1>0. /\ TypeOK /\ WithinCeilings /\ Roomy /\ Reasoned /\ Remembered /\ AllCounted
    BY DEF IInv
<1>1. CASE Plan
  <2>1. UNCHANGED <<transcript, invoked>>
      BY <1>1 DEF Plan, PlanHalts, AskPlanner, PlannerUnreachable, Useless, Answer,
                  Choose, Reply, history
  <2> QED BY <1>1, <2>1, QuietStep DEF Plan
<1>2. CASE ActHalts
  <2>1. UNCHANGED <<transcript, invoked>>
      BY <1>2 DEF ActHalts, history
  <2> QED BY <1>2, <2>1, QuietStep
<1>3. CASE Record \/ RunsLate
  <2>1. UNCHANGED <<transcript, invoked>>
      BY <1>3 DEF Record, RunsLate, history
  <2> QED BY <1>3, <2>1, QuietStep
<1>4. 0 \in 0 .. MaxBill /\ cost + 0 = cost
    BY <1>0, RunAssumption DEF TypeOK
<1>5. ASSUME NEW o \in Outcomes, Observe(pending, o), node = "act", RunNode, ~Exhausted,
             o = "denied" <=> pending \in Registered \ Permitted,
             UNCHANGED <<reason, answer, budget, record, invoked>>
      PROVE  IInv'
  <2>1. /\ Len(transcript) < MaxToolCalls /\ cost < MaxCost
        /\ UNCHANGED <<reason, answer, steps, late, record, invoked>>
        /\ supersteps' = supersteps + 1 /\ cost' = cost + 0
      BY <1>0, <1>4, <1>5, RunAssumption DEF Exhausted, TypeOK, RunNode, budget
  <2> QED BY <1>4, <1>5, <2>1, ObserveStep
<1>6. CASE ServeRepeat
  <2>1. PICK n \in 1 .. Len(transcript) :
          transcript[n].call = pending /\ Observe(pending, transcript[n].outcome)
      BY <1>6 DEF ServeRepeat
  <2>2. transcript[n].outcome \in Outcomes
    <3> DEFINE R == [call: Calls, outcome: Outcomes]
    <3>1. transcript \in Seq(R)
        BY <1>0 DEF TypeOK
    <3>2. \A r \in R : r.outcome \in Outcomes
        OBVIOUS
    <3> HIDE DEF R
    <3>3. transcript[n] \in R
        BY <3>1
    <3> QED BY <3>2, <3>3
  <2>3. transcript[n].outcome = "denied" <=> pending \in Registered \ Permitted
      BY <1>0, <2>1 DEF AllCounted
  <2> QED BY <1>5, <1>6, <2>1, <2>2, <2>3 DEF ServeRepeat
<1>7. CASE InvokeRefused
  <2>1. /\ Refusal(pending) \in Outcomes
        /\ Refusal(pending) = "denied" <=> pending \in Registered \ Permitted
      BY <1>7 DEF InvokeRefused, Refusal, Outcomes
  <2> QED BY <1>5, <1>7, <2>1 DEF InvokeRefused
<1>8. CASE Invoke
    BY <1>8, InvokeStep
<1>9. ASSUME NEW o \in {"content", "error"}, NEW bill \in 0 .. MaxBill,
             node = "invoking", Observe(pending, o), cost' = cost + bill,
             UNCHANGED <<reason, answer, steps, late, supersteps, record, invoked>>
      PROVE  IInv'
  <2>1. Len(transcript) < MaxToolCalls /\ cost < MaxCost
      BY <1>0, <1>9 DEF Roomy
  <2>2. o \in Outcomes /\ (o = "denied" <=> pending \in Registered \ Permitted)
      BY <1>0, <1>9 DEF AllCounted, Outcomes
  <2> QED BY <1>9, <2>1, <2>2, ObserveStep
<1>10. CASE ToolFails
    BY <1>4, <1>9, <1>10 DEF ToolFails, budget
<1>11. ASSUME NEW bill \in 0 .. MaxBill, NEW o \in {"content", "error"}, ToolReturns(bill, o)
       PROVE  IInv'
    BY <1>9, <1>11 DEF ToolReturns
<1>12. CASE Breaks
    BY <1>12, BreakStep
<1>13. CASE UNCHANGED vars
    BY <1>0, <1>13 DEF vars, budget, history, IInv, TypeOK, WithinCeilings, Roomy, Paced, Reasoned,
       Remembered, AllCounted, Exhausted, Asked, Denials
<1> QED BY <1>1, <1>2, <1>3, <1>6, <1>7, <1>8, <1>10, <1>11, <1>12, <1>13 DEF Next, Act

-------------------------------------------------------------------------------
(* The theorems. *)

\* The inductive invariant: what a run keeps between any two of its steps.
THEOREM Invariance == Spec => []IInv
<1>1. QED
  BY InitIInv, StepIInv, PTL DEF Spec

\* Every variable keeps its type.
THEOREM TypeCorrect == Spec => []TypeOK
<1>1. IInv => TypeOK
  BY DEF IInv
<1>2. QED
  BY <1>1, Invariance, PTL

\* Whatever the model asks for, no ceiling of agent/limits.py is passed but the
\* cost's, and that by less than one bill.
THEOREM CeilingsHold == Spec => []WithinCeilings
<1>1. IInv => WithinCeilings
  BY DEF IInv
<1>2. QED
  BY <1>1, Invariance, PTL

\* The recursion limit that agent/graph.py gives the framework leaves room for
\* every run the ceilings allow, whatever max_steps is.
THEOREM BackstopIsNeverMet == Spec => []BackstopUnused
<1>1. IInv => BackstopUnused
  BY DEF IInv, Reasoned, BackstopUnused
<1>2. QED
  BY <1>1, Invariance, PTL

\* Of an answer and a reason for having none, a recorded run has exactly one.
THEOREM OneOrTheOther == Spec => []AnswerOrReason
<1>1. IInv => AnswerOrReason
  BY DEF IInv, Reasoned, AnswerOrReason
<1>2. QED
  BY <1>1, Invariance, PTL

\* The denials on record are the refusals, for a run that did not break off.
THEOREM DenialsAddUp == Spec => []DenialsCounted
<1>1. IInv => DenialsCounted
  BY DEF IInv, Reasoned, AllCounted, DenialsCounted
<1>2. QED
  BY <1>1, Invariance, PTL

\* Once a ceiling has been met, neither the model nor a tool is called again.
THEOREM HaltIsFinal == Spec => NothingAfterHalt
<1>1. ASSUME IInv, [Next]_vars
      PROVE  reason # "none" => node' \notin {"asking", "invoking"} \/ UNCHANGED vars
  <2> SUFFICES ASSUME reason # "none", Next
               PROVE  node' \notin {"asking", "invoking"}
      BY <1>1
  <2>1. Reasoned /\ node # "asking" /\ node # "act" /\ node # "invoking"
      BY <1>1 DEF IInv, Reasoned
  <2>2. ~AskPlanner
      BY <2>1 DEF AskPlanner, Reasoned
  <2> QED
      BY <2>1, <2>2 DEF Next, Plan, Act, PlanHalts, PlannerUnreachable, Useless, Answer, Choose,
         Reply, ActHalts, ServeRepeat, InvokeRefused, Invoke, ToolFails, ToolReturns, Breaks,
         Stops, Record, RunsLate
<1>2. QED
  BY <1>1, Invariance, PTL DEF Spec, NothingAfterHalt

\* No call is run a second time, however many others the model makes in between.
THEOREM NothingRunsTwice == Spec => RunsOnce
<1>1. ASSUME IInv, [Next]_vars
      PROVE  \A c \in invoked : ~(node = "act" /\ node' = "invoking" /\ pending = c)
  <2> SUFFICES ASSUME NEW c \in invoked, node = "act", node' = "invoking", pending = c
               PROVE  FALSE
      OBVIOUS
  <2>1. Invoke
      BY <1>1 DEF Next, Plan, Act, PlanHalts, AskPlanner, PlannerUnreachable, Useless, Answer,
         Choose, Reply, ActHalts, ServeRepeat, InvokeRefused, ToolFails, ToolReturns, Breaks,
         Stops, Record, RunsLate, Observe, vars
  <2>2. Asked(pending)
      BY <1>1 DEF IInv, Remembered, Running
  <2> QED BY <2>1, <2>2 DEF Invoke, Repeats
<1>2. QED
  BY <1>1, Invariance, PTL DEF Spec, RunsOnce
===============================================================================
