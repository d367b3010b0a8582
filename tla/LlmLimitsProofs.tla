--------------------------- MODULE LlmLimitsProofs ---------------------------
(***************************************************************************)
(* LlmLimits, for any number of slots, any budget and any bills: how far a *)
(* day's spending can pass its budget, and how much an outage of Redis can *)
(* add to it.                                                              *)
(***************************************************************************)
EXTENDS LlmLimits, FiniteSetTheorems, TLAPS

N == Cardinality(Slots)

\* Slots whose request is in one of the phases P.
In(f, P) == {s \in Slots : f[s] \in P}

Working == {"working", "billed"}
Passed == {"limited"}

\* What the slots in flight will still add is already within the bound.
BudgetInv ==
  spent + MaxBill * Cardinality(In(phase, Working))
    <= DailyBudget - 1 + MaxBill * (N + openings)

\* During an outage the slots the limiter passed may still become openings.
OutageInv ==
  openings + (IF redis = "down" THEN Cardinality(In(phase, Passed)) ELSE 0) <= N * outages

IInv == TypeOK /\ BudgetInv /\ OutageInv

USE LimitsAssumption

-------------------------------------------------------------------------------
(* Counting slots. *)

LEMMA CountType ==
  ASSUME NEW f, NEW P
  PROVE  /\ IsFiniteSet(In(f, P))
         /\ Cardinality(In(f, P)) \in Nat /\ N \in Nat
         /\ Cardinality(In(f, P)) <= N
<1>1. In(f, P) \in SUBSET Slots
  BY DEF In
<1>2. QED
  BY <1>1, FS_Subset, FS_CardinalityType DEF N

\* A slot enters the phases P, leaves them, or stays on its side.
LEMMA Enters ==
  ASSUME NEW f, f = [s \in Slots |-> f[s]], NEW P, NEW s \in Slots, NEW p \in P, f[s] \notin P
  PROVE  Cardinality(In([f EXCEPT ![s] = p], P)) = Cardinality(In(f, P)) + 1
<1>1. In([f EXCEPT ![s] = p], P) = In(f, P) \cup {s} /\ s \notin In(f, P)
  BY DEF In
<1>2. QED
  BY <1>1, CountType, FS_AddElement

LEMMA Leaves ==
  ASSUME NEW f, f = [s \in Slots |-> f[s]], NEW P, NEW s \in Slots, NEW p, p \notin P, f[s] \in P
  PROVE  Cardinality(In([f EXCEPT ![s] = p], P)) = Cardinality(In(f, P)) - 1
<1>1. In([f EXCEPT ![s] = p], P) = In(f, P) \ {s} /\ s \in In(f, P)
  BY DEF In
<1>2. QED
  BY <1>1, CountType, FS_RemoveElement

LEMMA Stays ==
  ASSUME NEW f, f = [s \in Slots |-> f[s]], NEW P, NEW s \in Slots, NEW p, p \in P <=> f[s] \in P
  PROVE  In([f EXCEPT ![s] = p], P) = In(f, P)
BY DEF In

\* The little arithmetic of products that the bounds need.
LEMMA OneMore ==
  ASSUME NEW m \in Nat, NEW a \in Nat
  PROVE  m * a \in Nat /\ m * (a + 1) = m * a + m
OBVIOUS

LEMMA Monotone ==
  ASSUME NEW m \in Nat, NEW a \in Nat, NEW b \in Nat, a <= b
  PROVE  m * a <= m * b
<1>1. b - a \in Nat /\ b = a + (b - a)
  OBVIOUS
<1>2. m * b = m * a + m * (b - a)
  BY <1>1
<1>3. m * (b - a) \in Nat /\ m * a \in Nat
  BY <1>1
<1>4. QED
  BY <1>2, <1>3

-------------------------------------------------------------------------------
(* Types. *)

LEMMA InitType == Init => TypeOK
BY DEF Init, TypeOK, Ages

\* One more request of age 0.
LEMMA Bumped ==
  ASSUME asked \in [Ages -> 0 .. MaxPerTick], asked[0] < MaxPerTick
  PROVE  /\ [asked EXCEPT ![0] = @ + 1] \in [Ages -> 0 .. MaxPerTick]
         /\ 0 \in Ages /\ asked[0] + 1 \in 1 .. MaxPerTick
<1>1. 0 \in Ages
  BY DEF Ages
<1>2. asked[0] + 1 \in 0 .. MaxPerTick /\ asked[0] + 1 \in 1 .. MaxPerTick
  BY <1>1
<1>3. QED
  BY <1>1, <1>2

Requests == Ages \X (1 .. MaxPerTick)

\* What a tick leaves of the requests admitted, each a tick older.
LEMMA AgedType ==
  ASSUME TypeOK, Tick
  PROVE  admitted' \subseteq Requests /\ asked' \in [Ages -> 0 .. MaxPerTick]
<1>1. ASSUME NEW r \in admitted, r[1] + 1 \in Ages PROVE <<r[1] + 1, r[2]>> \in Requests
  BY <1>1 DEF TypeOK, Requests
<1>2. \A a \in Ages : a # 0 => a - 1 \in Ages
  BY DEF Ages
<1>3. QED
  BY <1>1, <1>2 DEF Tick, TypeOK

LEMMA StepType == TypeOK /\ [Next]_vars => TypeOK'
<1> SUFFICES ASSUME TypeOK, [Next]_vars PROVE TypeOK'
  OBVIOUS
<1>1. ASSUME NEW s \in Slots, RateAdmits(s) \/ RateRefuses(s) PROVE TypeOK'
  <2>1. asked' \in [Ages -> 0 .. MaxPerTick] /\ admitted' \subseteq Requests
    BY <1>1, Bumped DEF TypeOK, RateAdmits, RateRefuses, Count, Requests
  <2>2. count' \in 0 .. RateLimit + 1 /\ ttl' \in 0 .. Window
    BY <1>1 DEF TypeOK, RateAdmits, RateRefuses, Count, NewTtl
  <2>3. QED
    BY <1>1, <2>1, <2>2 DEF TypeOK, RateAdmits, RateRefuses, Count, Requests
<1>2. ASSUME NEW s \in Slots, RateUnreachable(s) PROVE TypeOK'
  BY <1>2, Bumped DEF TypeOK, RateUnreachable, limiter
<1>3. ASSUME NEW s \in Slots, QuotaAdmits(s) \/ QuotaRefuses(s) \/ QuotaUnreachable(s)
      PROVE  TypeOK'
  BY <1>3 DEF TypeOK, QuotaAdmits, QuotaRefuses, QuotaUnreachable, limiter, history
<1>4. ASSUME NEW s \in Slots, NEW cost \in 0 .. MaxBill, Pay(s, cost) PROVE TypeOK'
  BY <1>4 DEF TypeOK, Pay, limiter, history
<1>5. ASSUME NEW s \in Slots, Record(s) \/ Leave(s) PROVE TypeOK'
  BY <1>5 DEF TypeOK, Record, Leave, limiter, history
<1>6. CASE Tick
  BY <1>6, AgedType DEF TypeOK, Tick, Requests
<1>7. CASE QuotaKeyGone \/ LimiterKeyGone \/ Fails \/ Recovers
  BY <1>7 DEF TypeOK, QuotaKeyGone, LimiterKeyGone, Fails, Recovers, limiter, history
<1>8. CASE UNCHANGED vars
  BY <1>8 DEF TypeOK, vars, limiter, history
<1>9. QED
  BY <1>1, <1>2, <1>3, <1>4, <1>5, <1>6, <1>7, <1>8 DEF Next, World, Serve

\* Every variable keeps its type (LlmLimits!TypeOK), whatever the limits are.
THEOREM TypeCorrect == Spec => []TypeOK
<1>1. QED
  BY InitType, StepType, PTL DEF Spec

-------------------------------------------------------------------------------
(* The bounds. *)

LEMMA InitInv == Init => IInv
<1> SUFFICES ASSUME Init PROVE BudgetInv /\ OutageInv
  BY InitType DEF IInv
<1>1. In(phase, Working) = {}
  BY DEF In, Init, Working
<1>2. Cardinality(In(phase, Working)) = 0
  BY <1>1, FS_EmptySet
<1>3. N \in Nat /\ MaxBill * N \in Nat /\ MaxBill * 0 = 0 /\ N * 0 = 0
  BY CountType
<1>4. QED
  BY <1>2, <1>3 DEF Init, BudgetInv, OutageInv

\* A step that moves no slot in or out of flight, keeps the total and opens
\* nothing keeps the budget's part; likewise for the outage's part.
LEMMA BudgetKept ==
  ASSUME BudgetInv, spent' = spent, openings' = openings,
         In(phase, Working)' = In(phase, Working)
  PROVE  BudgetInv'
BY DEF BudgetInv, N

LEMMA OutageKept ==
  ASSUME OutageInv, openings' = openings, outages' = outages, redis' = redis,
         In(phase, Passed)' = In(phase, Passed)
  PROVE  OutageInv'
BY DEF OutageInv, N

\* The limiter's verdicts: nothing is in flight yet, and none is passed in an outage.
LEMMA RateStep ==
  ASSUME IInv, NEW s \in Slots, RateAdmits(s) \/ RateRefuses(s) \/ RateUnreachable(s)
  PROVE  BudgetInv' /\ OutageInv'
<1> USE DEF IInv, TypeOK
<1>1. PICK p \in {"limited", "busy"} :
        phase' = [phase EXCEPT ![s] = p] /\ phase[s] = "idle"
        /\ (redis = "down" => p = "busy")
  BY DEF RateAdmits, RateRefuses, RateUnreachable, Count
<1>2. spent' = spent /\ openings' = openings /\ outages' = outages /\ redis' = redis
  BY DEF RateAdmits, RateRefuses, RateUnreachable, Count
<1>3. In(phase', Working) = In(phase, Working)
  BY <1>1, Stays DEF Working
<1>4. redis = "down" => In(phase', Passed) = In(phase, Passed)
  BY <1>1, Stays DEF Passed
<1>5. BudgetInv'
  BY <1>2, <1>3 DEF BudgetInv, N
<1>6. OutageInv'
  BY <1>2, <1>4 DEF OutageInv, N
<1>7. QED
  BY <1>5, <1>6

\* Below the budget: one more request in flight still fits under the bound.
LEMMA AdmitStep == ASSUME IInv, NEW s \in Slots, QuotaAdmits(s) PROVE BudgetInv' /\ OutageInv'
<1> USE DEF IInv, TypeOK
<1> DEFINE k == Cardinality(In(phase, Working))
<1>1. Cardinality(In(phase', Working)) = k + 1
  BY Enters DEF QuotaAdmits, Working
<1>2. k + 1 <= N /\ k \in Nat /\ N \in Nat
  BY <1>1, CountType
<1>3. MaxBill * (k + 1) <= MaxBill * (N + openings)
  BY <1>2, Monotone
<1>4. spent <= DailyBudget - 1 /\ spent' = spent /\ openings' = openings
  BY DEF QuotaAdmits, Exhausted, history
<1>5. MaxBill * (k + 1) \in Nat /\ MaxBill * (N + openings) \in Nat
  BY <1>2
<1>6. BudgetInv'
  BY <1>1, <1>3, <1>4, <1>5 DEF BudgetInv, N
<1>7. OutageInv'
  BY DEF QuotaAdmits, OutageInv, history, N
<1>8. QED
  BY <1>6, <1>7

LEMMA RefuseStep == ASSUME IInv, NEW s \in Slots, QuotaRefuses(s) PROVE BudgetInv' /\ OutageInv'
<1> USE DEF IInv, TypeOK
<1>1. In(phase', Working) = In(phase, Working)
  BY Stays DEF QuotaRefuses, Working
<1>2. QED
  BY <1>1 DEF QuotaRefuses, BudgetInv, OutageInv, history, N

\* Failing open: the slot leaves the passed ones and counts as an opening.
LEMMA OpenStep ==
  ASSUME IInv, NEW s \in Slots, QuotaUnreachable(s) PROVE BudgetInv' /\ OutageInv'
<1> USE DEF IInv, TypeOK
<1> DEFINE k == Cardinality(In(phase, Working))
           l == Cardinality(In(phase, Passed))
<1>1. Cardinality(In(phase', Working)) = k + 1
  BY Enters DEF QuotaUnreachable, Working
<1>2. Cardinality(In(phase', Passed)) = l - 1
  BY Leaves DEF QuotaUnreachable, Passed
<1>3. k \in Nat /\ l \in Nat /\ N \in Nat
  BY CountType
<1>4. /\ MaxBill * (k + 1) = MaxBill * k + MaxBill
      /\ MaxBill * (N + openings + 1) = MaxBill * (N + openings) + MaxBill
      /\ MaxBill * k \in Nat /\ MaxBill * (N + openings) \in Nat
  BY <1>3, OneMore
<1>5. spent' = spent /\ openings' = openings + 1 /\ outages' = outages /\ redis' = redis
      /\ redis = "down"
  BY DEF QuotaUnreachable
<1>6. MaxBill * (N + openings') = MaxBill * (N + openings) + MaxBill
  BY <1>3, <1>4, <1>5
<1>7. BudgetInv'
  BY <1>1, <1>4, <1>5, <1>6 DEF BudgetInv, N
<1>8. OutageInv'
  BY <1>2, <1>3, <1>5 DEF OutageInv, N
<1>9. QED
  BY <1>7, <1>8

LEMMA PayStep ==
  ASSUME IInv, NEW s \in Slots, NEW cost \in 0 .. MaxBill, Pay(s, cost)
  PROVE  BudgetInv' /\ OutageInv'
<1> USE DEF IInv, TypeOK
<1>1. In(phase', Working) = In(phase, Working) /\ In(phase', Passed) = In(phase, Passed)
  BY Stays DEF Pay, Working, Passed
<1>2. QED
  BY <1>1 DEF Pay, BudgetInv, OutageInv, history, N

\* A bill is recorded: the total grows by at most what leaves the flight.
LEMMA RecordStep == ASSUME IInv, NEW s \in Slots, Record(s) PROVE BudgetInv' /\ OutageInv'
<1> USE DEF IInv, TypeOK
<1> DEFINE k == Cardinality(In(phase, Working))
<1>1. Cardinality(In(phase', Working)) = k - 1 /\ In(phase', Passed) = In(phase, Passed)
  BY Leaves, Stays DEF Record, Working, Passed
<1>2. k \in Nat /\ k - 1 \in Nat /\ N \in Nat
  BY <1>1, CountType
<1>3. MaxBill * k = MaxBill * (k - 1) + MaxBill /\ MaxBill * (k - 1) \in Nat
  <2>1. k = (k - 1) + 1
    BY <1>2
  <2>2. QED
    BY <2>1, <1>2, OneMore
<1>4. spent' <= spent + MaxBill /\ spent' \in Nat /\ openings' = openings
  BY DEF Record, history
<1>5. MaxBill * (N + openings) \in Nat
  BY <1>2
<1>6. BudgetInv'
  BY <1>1, <1>3, <1>4, <1>5 DEF BudgetInv, N
<1>7. OutageInv'
  BY <1>1 DEF Record, OutageInv, history, N
<1>8. QED
  BY <1>6, <1>7

LEMMA LeaveStep == ASSUME IInv, NEW s \in Slots, Leave(s) PROVE BudgetInv' /\ OutageInv'
<1> USE DEF IInv, TypeOK
<1>1. /\ spent' = spent /\ openings' = openings /\ outages' = outages /\ redis' = redis
      /\ phase' = [phase EXCEPT ![s] = "idle"]
  BY DEF Leave, history
<1>2. In(phase', Working) \subseteq In(phase, Working) /\ In(phase', Passed) \subseteq In(phase, Passed)
  BY <1>1 DEF In, Working, Passed
<1>3. /\ Cardinality(In(phase', Working)) <= Cardinality(In(phase, Working))
      /\ Cardinality(In(phase', Passed)) <= Cardinality(In(phase, Passed))
  BY <1>2, CountType, FS_Subset
<1>4. /\ Cardinality(In(phase', Working)) \in Nat /\ Cardinality(In(phase, Working)) \in Nat
      /\ Cardinality(In(phase', Passed)) \in Nat /\ Cardinality(In(phase, Passed)) \in Nat
      /\ N \in Nat
  BY CountType
<1>5. MaxBill * Cardinality(In(phase', Working)) <= MaxBill * Cardinality(In(phase, Working))
  BY <1>3, <1>4, Monotone
<1>6. BudgetInv'
  BY <1>1, <1>4, <1>5 DEF BudgetInv, N
<1>7. OutageInv'
  BY <1>1, <1>3, <1>4 DEF OutageInv, N
<1>8. QED
  BY <1>6, <1>7

\* Time passing, keys disappearing, Redis failing and recovering.
LEMMA WorldStep == ASSUME IInv, World PROVE BudgetInv' /\ OutageInv'
<1> USE DEF IInv, TypeOK
<1> DEFINE k == Cardinality(In(phase, Working))
           l == Cardinality(In(phase, Passed))
<1>1. k \in Nat /\ l \in Nat /\ N \in Nat /\ k <= N /\ l <= N
  BY CountType
<1>2. CASE Tick \/ LimiterKeyGone
  BY <1>2 DEF Tick, LimiterKeyGone, BudgetInv, OutageInv, N
<1>3. CASE QuotaKeyGone
  <2>1. spent' = 0 /\ openings' = 0 /\ phase' = phase /\ redis' = redis /\ outages' = outages
    BY <1>3 DEF QuotaKeyGone, limiter
  <2>2. MaxBill * k <= MaxBill * (N + 0) /\ MaxBill * k \in Nat /\ MaxBill * (N + 0) \in Nat
    BY <1>1, Monotone
  <2>3. BudgetInv'
    BY <2>1, <2>2 DEF BudgetInv, N
  <2>4. OutageInv'
    BY <2>1, <1>1 DEF OutageInv, N
  <2>5. QED
    BY <2>3, <2>4
<1>4. CASE Fails
  <2>1. /\ spent' = spent /\ openings' = openings /\ phase' = phase
        /\ redis = "up" /\ outages' = outages + 1
    BY <1>4 DEF Fails
  <2>2. N * outages' = N * outages + N
    BY <2>1, <1>1, OneMore
  <2>3. QED
    BY <2>1, <2>2, <1>1 DEF BudgetInv, OutageInv, N
<1>5. CASE Recovers
  BY <1>5, <1>1 DEF Recovers, BudgetInv, OutageInv, history, N
<1>6. QED
  BY <1>2, <1>3, <1>4, <1>5 DEF World

LEMMA StepInv == IInv /\ [Next]_vars => IInv'
<1> SUFFICES ASSUME IInv, [Next]_vars PROVE BudgetInv' /\ OutageInv'
  BY StepType DEF IInv
<1>1. CASE UNCHANGED vars
  BY <1>1 DEF vars, IInv, BudgetInv, OutageInv, history, N
<1>2. ASSUME NEW s \in Slots, Serve(s) PROVE BudgetInv' /\ OutageInv'
  BY <1>2, RateStep, AdmitStep, RefuseStep, OpenStep, PayStep, RecordStep, LeaveStep
  DEF Serve
<1>3. QED
  BY <1>1, <1>2, WorldStep DEF Next

\* The inductive invariant: what is spent, together with what the requests in
\* flight may still add, is within the bound.
THEOREM Invariance == Spec => []IInv
<1>1. QED
  BY InitInv, StepInv, PTL DEF Spec

\* A day's spending passes the budget by less than one bill for every slot and
\* every fail-open admission (core/quota.py, check_quota's docstring).
THEOREM BoundedOvershoot == Spec => []Overshoot
<1>1. IInv => Overshoot
  <2> SUFFICES ASSUME IInv PROVE Overshoot
    OBVIOUS
  <2>1. MaxBill * Cardinality(In(phase, Working)) \in Nat
    BY CountType
  <2>2. N \in Nat /\ openings \in Nat
    BY CountType DEF IInv, TypeOK
  <2>3. MaxBill * (N + openings) \in Nat
    BY <2>2
  <2>4. QED
    BY <2>1, <2>2, <2>3 DEF IInv, TypeOK, BudgetInv, Overshoot, N
<1>2. QED
  BY <1>1, Invariance, PTL

\* An outage lets at most one request a slot past the quota unasked
\* (api/deps.py: the limiter, which fails closed, is asked first).
THEOREM ContainedOutage == Spec => []OutageIsContained
<1>1. IInv => OutageIsContained
  BY CountType DEF IInv, TypeOK, OutageInv, OutageIsContained, N
<1>2. QED
  BY <1>1, Invariance, PTL

-------------------------------------------------------------------------------
(* The window. *)

\* The key outlives the window of every request it counts, since each request
\* sets its life anew; until it refuses, it counts all those admitted.
WindowInv ==
  /\ TypeOK
  /\ \A r \in admitted : r[1] = 0 => r[2] <= asked[0]
  /\ \A r \in admitted : r[1] + ttl >= Window
  /\ Cardinality(admitted) <= RateLimit
  /\ count <= RateLimit => Cardinality(admitted) <= count

LEMMA RequestsFinite ==
  ASSUME NEW S \in SUBSET Requests
  PROVE  IsFiniteSet(S) /\ Cardinality(S) \in Nat
<1>1. IsFiniteSet(Ages) /\ IsFiniteSet(1 .. MaxPerTick)
  BY FS_Interval DEF Ages
<1>2. IsFiniteSet(Requests)
  BY <1>1, FS_Product DEF Requests
<1>3. QED
  BY <1>2, FS_Subset, FS_CardinalityType

\* Growing older makes the admitted requests no more.
LEMMA NoneAdded ==
  ASSUME NEW S \in SUBSET Requests
  PROVE  Cardinality({<<r[1] + 1, r[2]>> : r \in S}) <= Cardinality(S)
<1> DEFINE T == {<<r[1] + 1, r[2]>> : r \in S}
           f == [r \in S |-> <<r[1] + 1, r[2]>>]
<1>1. f \in Surjection(S, T)
  BY DEF Surjection
<1>2. QED
  BY <1>1, RequestsFinite, FS_Surjection

LEMMA WindowStart == Init => WindowInv
<1> SUFFICES ASSUME Init PROVE WindowInv
  OBVIOUS
<1>1. admitted = {} /\ Cardinality(admitted) = 0
  BY FS_EmptySet DEF Init
<1>2. QED
  BY <1>1, InitType DEF WindowInv, Init

LEMMA WindowAdmits == ASSUME WindowInv, NEW s \in Slots, RateAdmits(s) PROVE WindowInv'
<1> USE DEF WindowInv, TypeOK
<1>1. TypeOK'
  BY StepType DEF Next, Serve
<1>2. /\ count' = count + 1 /\ count' <= RateLimit /\ ttl' = Window
      /\ admitted' = admitted \cup {<<0, asked[0] + 1>>}
  BY DEF RateAdmits, Count, NewTtl
<1>3. asked'[0] = asked[0] + 1 /\ asked[0] \in Nat
  BY DEF RateAdmits, Count, Ages
<1>4. <<0, asked[0] + 1>> \notin admitted
  BY <1>3
<1>5. Cardinality(admitted') = Cardinality(admitted) + 1 /\ Cardinality(admitted) \in Nat
  BY <1>2, <1>4, RequestsFinite, FS_AddElement DEF Requests
<1>6. \A r \in admitted : r[1] \in Nat /\ r[2] \in Nat
  BY DEF Ages
<1>7. \A r \in admitted' : r[1] = 0 => r[2] <= asked'[0]
  BY <1>2, <1>3, <1>6
<1>8. \A r \in admitted' : r[1] + ttl' >= Window
  BY <1>2, <1>6
<1>9. QED
  BY <1>1, <1>2, <1>5, <1>7, <1>8

\* A refused request, or one that cannot be counted, is admitted nowhere.
LEMMA WindowRefuses ==
  ASSUME WindowInv, NEW s \in Slots, RateRefuses(s) \/ RateUnreachable(s)
  PROVE  WindowInv'
<1> USE DEF WindowInv, TypeOK
<1>1. TypeOK'
  BY StepType DEF Next, Serve
<1>2. /\ admitted' = admitted /\ asked'[0] = asked[0] + 1 /\ asked[0] \in Nat
      /\ ttl' \in {ttl, Window} /\ (count' = count \/ count' > RateLimit)
  BY DEF RateRefuses, RateUnreachable, Count, NewTtl, Ages, limiter
<1>3. \A r \in admitted : r[1] \in Nat /\ r[2] \in Nat
  BY DEF Ages
<1>4. \A r \in admitted' : r[1] + ttl' >= Window
  BY <1>2, <1>3
<1>5. \A r \in admitted' : r[1] = 0 => r[2] <= asked'[0]
  BY <1>2, <1>3
<1>6. Cardinality(admitted') <= RateLimit
  BY <1>2
<1>7. count' <= RateLimit => Cardinality(admitted') <= count'
  <2>1. count' \in Nat
    BY <1>1
  <2>2. QED
    BY <1>2, <2>1
<1> HIDE DEF TypeOK
<1>8. QED
  BY <1>1, <1>4, <1>5, <1>6, <1>7

\* When the key expires, the youngest request it counted leaves the window.
LEMMA WindowTicks == ASSUME WindowInv, Tick PROVE WindowInv'
<1> USE DEF WindowInv, TypeOK
<1>1. TypeOK'
  BY StepType DEF Next, World
<1> DEFINE S == {q \in admitted : q[1] + 1 \in Ages}
<1>2. admitted' = {<<r[1] + 1, r[2]>> : r \in S} /\ S \subseteq admitted /\ S \subseteq Requests
  BY DEF Tick, Requests
<1>3. \A r \in admitted : r[1] \in Nat
  BY DEF Ages
<1>4. \A r \in admitted' : r[1] # 0 /\ r[1] + ttl' >= Window /\ r[1] < Window
  <2>1. ASSUME NEW q \in S PROVE q[1] + 1 # 0 /\ q[1] + 1 + ttl' >= Window /\ q[1] + 1 < Window
    <3>1. q[1] \in Nat /\ q[1] + 1 <= Window - 1 /\ q[1] + ttl >= Window
      BY <1>3, <2>1 DEF Ages
    <3>2. ttl # 0 /\ ttl \in Nat
      BY <3>1
    <3>3. ttl' = ttl - 1
      BY <3>2 DEF Tick
    <3>4. QED
      BY <3>1, <3>2, <3>3
  <2>2. QED
    BY <1>2, <2>1
<1>5. Cardinality(admitted') <= Cardinality(admitted)
  <2>1. Cardinality(admitted') <= Cardinality(S)
    BY <1>2, NoneAdded
  <2>2. Cardinality(S) <= Cardinality(admitted) /\ Cardinality(S) \in Nat
        /\ Cardinality(admitted) \in Nat
    BY <1>2, RequestsFinite, FS_Subset DEF Requests
  <2>3. Cardinality(admitted') \in Nat
    BY <1>1, RequestsFinite DEF Requests
  <2>4. QED
    BY <2>1, <2>2, <2>3
<1>6. Cardinality(admitted) \in Nat /\ Cardinality(admitted') \in Nat
  BY <1>1, RequestsFinite DEF Requests
<1>7. CASE ttl <= 1
  <2>1. admitted' = {} /\ count' = 0
    <3>1. ttl' = 0 /\ count' = 0
      BY <1>7 DEF Tick
    <3>2. \A r \in admitted' : r[1] \in Nat
      BY <1>1 DEF Ages
    <3>3. QED
      BY <1>4, <3>1, <3>2
  <2>2. Cardinality(admitted') = 0
    BY <2>1, FS_EmptySet
  <2>3. QED
    BY <1>1, <2>1, <2>2
<1>8. CASE ~(ttl <= 1)
  BY <1>1, <1>4, <1>5, <1>6, <1>8 DEF Tick
<1>9. QED
  BY <1>7, <1>8

LEMMA WindowStep == WindowInv /\ [Next]_vars => WindowInv'
<1> SUFFICES ASSUME WindowInv, [Next]_vars PROVE WindowInv'
  OBVIOUS
<1>1. TypeOK'
  BY StepType DEF WindowInv
<1>2. ASSUME UNCHANGED <<count, ttl, asked, admitted>> PROVE WindowInv'
  BY <1>1, <1>2 DEF WindowInv
<1>3. CASE LimiterKeyGone
  BY <1>1, <1>3, FS_EmptySet DEF LimiterKeyGone, WindowInv
<1>4. ASSUME NEW s \in Slots, Serve(s) PROVE WindowInv'
  <2>1. CASE RateAdmits(s) \/ RateRefuses(s) \/ RateUnreachable(s)
    BY <2>1, WindowAdmits, WindowRefuses
  <2>2. CASE ~(RateAdmits(s) \/ RateRefuses(s) \/ RateUnreachable(s))
    <3>1. UNCHANGED <<count, ttl, asked, admitted>>
      BY <1>4, <2>2 DEF Serve, QuotaAdmits, QuotaRefuses, QuotaUnreachable, Pay, Record,
                        Leave, limiter, history
    <3>2. QED
      BY <1>2, <3>1
  <2>3. QED
    BY <2>1, <2>2
<1>5. CASE QuotaKeyGone \/ Fails \/ Recovers \/ UNCHANGED vars
  BY <1>2, <1>5 DEF QuotaKeyGone, Fails, Recovers, vars, limiter, history
<1>6. QED
  BY <1>3, <1>4, <1>5, WindowTicks DEF Next, World

\* Whatever the limit, the window and the arrivals: no more than RateLimit requests
\* are admitted in any stretch of a window's length, as long as the key lives
\* (ratelimit.py:9 expects up to twice as many across a boundary).
THEOREM WindowSlides == Spec => []SlidingWindow
<1>1. WindowInv => SlidingWindow
  BY DEF WindowInv, SlidingWindow
<1>2. QED
  BY <1>1, WindowStart, WindowStep, PTL DEF Spec

===============================================================================
