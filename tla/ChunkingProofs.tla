---------------------------- MODULE ChunkingProofs ----------------------------
(***************************************************************************)
(* A document's text, whatever its blocks are, is in its chunks, once, in  *)
(* order and under its own heading; and no chunk is longer than an overlap *)
(* makes it.                                                               *)
(***************************************************************************)
EXTENDS Chunking, SequenceTheorems, WellFoundedInduction, TLAPS

(* Induction, as a fact about sets. *)

LEMMA AllNumbers ==
  ASSUME NEW S \in SUBSET Nat, 0 \in S, \A n \in S : n + 1 \in S
  PROVE  S = Nat
<1> DEFINE Rest == Nat \ S
           Less == OpToRel(<, Nat)
<1> SUFFICES ASSUME Rest # {} PROVE FALSE
  OBVIOUS
<1>1. IsWellFoundedOn(Less, Nat)
  BY NatLessThanWellFounded
<1>2. \A m, n \in Nat : m < n => <<m, n>> \in Less
  BY DEF OpToRel
<1> HIDE DEF Less
<1>3. PICK n \in Rest : \A m \in Rest : <<m, n>> \notin Less
  BY <1>1, WFMin
<1>4. n \in Nat /\ n # 0 /\ n \notin S
  OBVIOUS
<1>5. n - 1 \in Nat /\ n - 1 < n
  BY <1>4
<1>6. n - 1 \notin Rest
  BY <1>2, <1>3, <1>4, <1>5
<1> QED BY <1>4, <1>5, <1>6

LEMMA UpTo ==
  ASSUME NEW n \in Nat, NEW S, 0 \in S, \A j \in 0 .. n - 1 : j \in S => j + 1 \in S
  PROVE  0 .. n \subseteq S
<1> DEFINE T == {j \in Nat : j <= n => j \in S}
<1>1. 0 \in T
  OBVIOUS
<1>2. \A j \in T : j + 1 \in T
  <2> SUFFICES ASSUME NEW j \in T, j + 1 <= n PROVE j + 1 \in S
    OBVIOUS
  <2>1. j \in 0 .. n - 1 /\ j \in S
    OBVIOUS
  <2> QED BY <2>1
<1>3. T = Nat
  <2> HIDE DEF T
  <2>1. T \in SUBSET Nat
    BY DEF T
  <2> QED BY <1>1, <1>2, <2>1, AllNumbers
<1> QED BY <1>3

-------------------------------------------------------------------------------
(* Folds *)

LEMMA MaxIs ==
  ASSUME NEW n \in Nat, NEW T \in SUBSET (1 .. n), n \in T PROVE Max(T) = n
<1>1. \A m \in T : n >= m
  OBVIOUS
<1>2. \A x, y \in T : x >= y /\ y >= x => x = y
  OBVIOUS
<1>3. Max(T) \in T /\ \A m \in T : Max(T) >= m
  BY <1>1 DEF Max
<1> QED BY <1>1, <1>2, <1>3

LEMMA MaxIn ==
  ASSUME NEW k \in Nat, NEW T \in SUBSET (1 .. k), T # {} PROVE Max(T) \in T
<1> DEFINE S == {j \in 0 .. k : \A U \in SUBSET (1 .. j) : U # {} => Max(U) \in U}
<1>1. 0 \in S
  <2>1. \A U \in SUBSET (1 .. 0) : U = {}
    OBVIOUS
  <2>2. 0 \in 0 .. k
    OBVIOUS
  <2> QED BY <2>1, <2>2, Zenon
<1>2. ASSUME NEW j \in 0 .. k - 1, j \in S PROVE j + 1 \in S
  <2> SUFFICES ASSUME NEW U \in SUBSET (1 .. j + 1), U # {} PROVE Max(U) \in U
    OBVIOUS
  <2>1. CASE j + 1 \in U
    BY <2>1, MaxIs
  <2>2. CASE j + 1 \notin U
    <3>1. \A i \in 1 .. j + 1 : i \in 1 .. j \/ i = j + 1
      OBVIOUS
    <3>2. U \in SUBSET (1 .. j)
      BY <2>2, <3>1
    <3> QED BY <1>2, <3>2
  <2> QED BY <2>1, <2>2
<1> HIDE DEF S
<1>3. k \in S
  BY <1>1, <1>2, UpTo
<1> QED BY <1>3 DEF S

\* What MapThenFoldSet picks, for a function: there is one, of any type.
IsFold(f, n, base, step) ==
  \A T \in SUBSET (1 .. n) :
    f[T] = IF T = {} THEN base ELSE step[f[T \ {Max(T)}], Max(T)]

LEMMA FoldIs ==
  ASSUME NEW n \in Nat, NEW X, NEW base \in X, NEW step \in [X \X (1 .. n) -> X]
  PROVE  \E f \in [SUBSET (1 .. n) -> X] : IsFold(f, n, base, step)
<1> DEFINE Value(f, T) == IF T = {} THEN base ELSE step[f[T \ {Max(T)}], Max(T)]
           Fold(f, k) == \A T \in SUBSET (1 .. k) : f[T] = Value(f, T)
           S == {k \in 0 .. n : \E f \in [SUBSET (1 .. k) -> X] : Fold(f, k)}
<1>1. 0 \in S
  <2>1. SUBSET (1 .. 0) = {{}}
    OBVIOUS
  <2>2. [T \in {{}} |-> base] \in [SUBSET (1 .. 0) -> X]
    BY <2>1
  <2>3. Fold([T \in {{}} |-> base], 0)
    BY <2>1
  <2> HIDE DEF Fold
  <2>4. 0 \in 0 .. n
    OBVIOUS
  <2> QED BY <2>2, <2>3, <2>4, Zenon
<1>2. ASSUME NEW k \in 0 .. n - 1, k \in S PROVE k + 1 \in S
  <2>1. PICK f \in [SUBSET (1 .. k) -> X] : Fold(f, k)
    BY <1>2
  <2> DEFINE g == [T \in SUBSET (1 .. k + 1) |->
                     IF k + 1 \in T THEN step[f[T \ {k + 1}], k + 1] ELSE f[T]]
  <2>2. \A T \in SUBSET (1 .. k + 1) :
          /\ k + 1 \in T => T \ {k + 1} \in SUBSET (1 .. k) /\ Max(T) = k + 1
          /\ k + 1 \notin T => T \in SUBSET (1 .. k)
    <3> TAKE T \in SUBSET (1 .. k + 1)
    <3>1. \A i \in T : i \in 1 .. k \/ i = k + 1
      OBVIOUS
    <3>2. k + 1 \in T => Max(T) = k + 1
      BY MaxIs
    <3>3. T \ {k + 1} \in SUBSET (1 .. k)
      BY <3>1
    <3>4. k + 1 \notin T => T \in SUBSET (1 .. k)
      BY <3>1
    <3> QED BY <3>2, <3>3, <3>4
  <2>3. \A T \in SUBSET (1 .. k) : T # {} => Max(T) \in 1 .. k /\ T \ {Max(T)} \in SUBSET (1 .. k)
    <3> SUFFICES ASSUME NEW T \in SUBSET (1 .. k), T # {} PROVE Max(T) \in T
      OBVIOUS
    <3>1. k \in Nat
      OBVIOUS
    <3> QED BY <3>1, MaxIn
  <2>4. g \in [SUBSET (1 .. k + 1) -> X]
    <3>1. k + 1 \in 1 .. n
      OBVIOUS
    <3> QED BY <2>2, <3>1
  <2>5. Fold(g, k + 1)
    <3> SUFFICES ASSUME NEW T \in SUBSET (1 .. k + 1) PROVE g[T] = Value(g, T)
      OBVIOUS
    <3>1. CASE k + 1 \in T
      <4>1. g[T] = step[f[T \ {k + 1}], k + 1] /\ T # {} /\ Max(T) = k + 1
        BY <2>2, <3>1
      <4>2. g[T \ {k + 1}] = f[T \ {k + 1}]
        BY <2>2, <3>1
      <4> QED BY <4>1, <4>2
    <3>2. CASE k + 1 \notin T
      <4>1. T \in SUBSET (1 .. k) /\ g[T] = f[T]
        BY <2>2, <3>2
      <4>2. f[T] = Value(f, T)
        BY <2>1, <4>1
      <4>3. T # {} => g[T \ {Max(T)}] = f[T \ {Max(T)}]
        BY <2>3, <3>2, <4>1
      <4> QED BY <4>1, <4>2, <4>3
    <3> QED BY <3>1, <3>2
  <2> HIDE DEF Fold, g
  <2> QED BY <2>4, <2>5
<1> HIDE DEF S
<1>3. 0 .. n \subseteq S
  BY <1>1, <1>2, UpTo
<1>4. n \in S
  BY <1>3
<1>5. \E f \in [SUBSET (1 .. n) -> X] : Fold(f, n)
  BY <1>4 DEF S
<1> QED BY <1>5 DEF IsFold

LEMMA NonemptyMax ==
  ASSUME NEW n \in Nat, NEW T \in SUBSET (1 .. n), T # {}
  PROVE  Max(T) \in 1 .. n /\ T \ {Max(T)} \in SUBSET (1 .. n)
<1>1. Max(T) \in T
  BY MaxIn
<1> QED BY <1>1

\* The same for the elements of a sequence.
FoldedBy(f, s, X, base, step) ==
  \A T \in SUBSET (1 .. Len(s)) :
    /\ T = {} => f[T] = base
    /\ T # {} => /\ Max(T) \in 1 .. Len(s) /\ f[T \ {Max(T)}] \in X
                 /\ f[T] = step[f[T \ {Max(T)}], s[Max(T)]]

LEMMA FoldOf ==
  ASSUME NEW X, NEW A, NEW base \in X, NEW step \in [X \X A -> X], NEW s \in Seq(A)
  PROVE  \E f \in [SUBSET (1 .. Len(s)) -> X] : FoldedBy(f, s, X, base, step)
<1> DEFINE n == Len(s)
           next == [x \in X \X (1 .. n) |-> step[x[1], s[x[2]]]]
<1>1. n \in Nat /\ \A i \in 1 .. n : s[i] \in A
  OBVIOUS
<1>2. next \in [X \X (1 .. n) -> X]
  BY <1>1
<1>3. \A a \in X, i \in 1 .. n : next[a, i] = step[a, s[i]]
  OBVIOUS
<1> HIDE DEF n, next
<1>4. PICK f \in [SUBSET (1 .. n) -> X] : IsFold(f, n, base, next)
  BY <1>1, <1>2, FoldIs
<1>5. ASSUME NEW T \in SUBSET (1 .. n), T # {}
      PROVE  /\ Max(T) \in 1 .. n /\ f[T \ {Max(T)}] \in X
             /\ f[T] = step[f[T \ {Max(T)}], s[Max(T)]]
  <2>1. Max(T) \in 1 .. n /\ T \ {Max(T)} \in SUBSET (1 .. n)
    BY <1>1, <1>5, NonemptyMax
  <2>2. f[T] = next[f[T \ {Max(T)}], Max(T)]
    BY <1>4, <1>5 DEF IsFold
  <2> QED BY <1>3, <1>4, <2>1, <2>2
<1>6. \A T \in SUBSET (1 .. n) : T = {} => f[T] = base
  BY <1>4 DEF IsFold
<1> QED BY <1>4, <1>5, <1>6 DEF n, FoldedBy

\* What folds s so, as long as the values are of that type.
Folding(f, s, X, base, step) ==
  \A T \in SUBSET (1 .. Len(s)) :
    /\ T = {} => f[T] = base
    /\ T # {} /\ f[T \ {Max(T)}] \in X => f[T] = step[f[T \ {Max(T)}], s[Max(T)]]

Stepping(f, s, X, step) ==
  \A i \in 0 .. Len(s) - 1 :
    f[1 .. i] \in X => f[1 .. i + 1] = step[f[1 .. i], s[i + 1]] /\ f[1 .. i + 1] \in X

LEMMA FoldBegun ==
  ASSUME NEW X, NEW A, NEW base \in X, NEW step \in [X \X A -> X], NEW s \in Seq(A),
         NEW f, Folding(f, s, X, base, step)
  PROVE  Stepping(f, s, X, step)
<1> SUFFICES ASSUME NEW i \in 0 .. Len(s) - 1, f[1 .. i] \in X
             PROVE  f[1 .. i + 1] = step[f[1 .. i], s[i + 1]] /\ f[1 .. i + 1] \in X
  BY DEF Stepping
<1> DEFINE j == i + 1
<1>1. /\ j \in Nat /\ 1 .. j \in SUBSET (1 .. Len(s)) /\ j \in 1 .. j
      /\ (1 .. j) \ {j} = 1 .. i
  OBVIOUS
<1>2. s[j] \in A
  OBVIOUS
<1> HIDE DEF j
<1>3. Max(1 .. j) = j
  <2>1. 1 .. j \in SUBSET (1 .. j)
    OBVIOUS
  <2> QED BY <1>1, <2>1, MaxIs
<1>4. f[1 .. j] = step[f[1 .. i], s[j]]
  BY <1>1, <1>3 DEF Folding
<1>5. f[1 .. j] \in X
  BY <1>2, <1>4
<1> QED BY <1>4, <1>5 DEF j

\* So it takes the last element last.
TakesLast(f, g, s, x, X, step) ==
  /\ f[1 .. Len(s)] \in X
  /\ g[1 .. Len(Append(s, x))] = step[f[1 .. Len(s)], x]

LEMMA LastElement ==
  ASSUME NEW X, NEW A, NEW base \in X, NEW step \in [X \X A -> X], NEW s \in Seq(A), NEW x \in A,
         NEW f, Folding(f, s, X, base, step),
         NEW g, Folding(g, Append(s, x), X, base, step)
  PROVE  TakesLast(f, g, s, x, X, step)
<1> DEFINE n == Len(s)
           t == Append(s, x)
           S == {j \in 0 .. n : f[1 .. j] \in X /\ g[1 .. j] = f[1 .. j]}
<1>1. /\ n \in Nat /\ t \in Seq(A) /\ Len(t) = n + 1 /\ t[n + 1] = x
      /\ \A i \in 1 .. n : t[i] = s[i]
  OBVIOUS
<1>6. Stepping(g, t, X, step) /\ Stepping(f, s, X, step)
  BY <1>1, FoldBegun
<1> HIDE DEF t
<1>2. 0 \in S
  <2>1. 1 .. 0 = {} /\ 0 \in 0 .. n
    BY <1>1
  <2>2. f[{}] = base /\ g[{}] = base
    BY DEF Folding
  <2> QED BY <2>1, <2>2
<1>3. ASSUME NEW j \in 0 .. n - 1, j \in S PROVE j + 1 \in S
  <2>1. /\ j + 1 \in 1 .. n /\ f[1 .. j] \in X /\ g[1 .. j] = f[1 .. j]
        /\ j \in 0 .. Len(t) - 1 /\ j + 1 \in 0 .. n
    BY <1>1, <1>3
  <2> HIDE DEF S
  <2>2. f[1 .. j + 1] = step[f[1 .. j], s[j + 1]] /\ f[1 .. j + 1] \in X
    BY <1>6, <2>1, <1>3, Zenon DEF Stepping
  <2>3. g[1 .. j + 1] = step[g[1 .. j], t[j + 1]]
    BY <1>6, <2>1, Zenon DEF Stepping
  <2> QED BY <1>1, <2>1, <2>2, <2>3 DEF S
<1>4. n \in S
  <2> HIDE DEF S
  <2>1. 0 .. n \subseteq S
    BY <1>1, <1>2, <1>3, UpTo
  <2> QED BY <1>1, <2>1
<1>5. g[1 .. n + 1] = step[g[1 .. n], x]
  <2>1. n \in 0 .. Len(t) - 1 /\ g[1 .. n] \in X
    BY <1>1, <1>4
  <2> HIDE DEF n, S
  <2>2. g[1 .. n + 1] = step[g[1 .. n], t[n + 1]]
    BY <1>6, <2>1, Zenon DEF Stepping
  <2> QED BY <1>1, <2>2
<1> QED BY <1>1, <1>4, <1>5 DEF t, TakesLast

LEMMA AList ==
  ASSUME NEW A, NEW n \in Nat, NEW f \in [1 .. n -> A]
  PROVE  f \in Seq(A) /\ Len(f) = n /\ DOMAIN f = 1 .. n
OBVIOUS

LEMMA OneLonger ==
  ASSUME NEW A, NEW s \in Seq(A), NEW x \in A
  PROVE  /\ Append(s, x) \in Seq(A) /\ Len(Append(s, x)) = Len(s) + 1
         /\ Append(s, x)[Len(s) + 1] = x
         /\ \A i \in 1 .. Len(s) : Append(s, x)[i] = s[i]
OBVIOUS

LEMMA LongerByOne ==
  ASSUME NEW A, NEW p \in Seq(A), NEW q \in Seq(A), Len(q) = Len(p) + 1,
         \A i \in 1 .. Len(p) : q[i] = p[i]
  PROVE  q[Len(q)] \in A /\ q = Append(p, q[Len(q)])
<1> DEFINE x == q[Len(q)]
<1>1. x \in A /\ Len(p) \in Nat
  OBVIOUS
<1>2. q[Len(p) + 1] = x
  OBVIOUS
<1> HIDE DEF x
<1>3. /\ Append(p, x) \in Seq(A) /\ Len(Append(p, x)) = Len(p) + 1
      /\ Append(p, x)[Len(p) + 1] = x
      /\ \A i \in 1 .. Len(p) : Append(p, x)[i] = p[i]
  BY <1>1, OneLonger
<1>4. \A i \in 1 .. Len(p) + 1 : i \in 1 .. Len(p) \/ i = Len(p) + 1
  BY <1>1
<1>5. \A i \in 1 .. Len(q) : q[i] = Append(p, x)[i]
  BY <1>2, <1>3, <1>4
<1>6. q = Append(p, x)
  BY <1>3, <1>5, SeqEqual
<1> QED BY <1>1, <1>6 DEF x

\* Induction over sequences.
LEMMA AllSequences ==
  ASSUME NEW A, NEW T \in SUBSET Seq(A), <<>> \in T, \A s \in T, x \in A : Append(s, x) \in T
  PROVE  T = Seq(A)
<1> SUFFICES ASSUME NEW s \in Seq(A) PROVE s \in T
  OBVIOUS
<1> DEFINE n == Len(s)
           P(j) == [i \in 1 .. j |-> s[i]]
           S == {j \in 0 .. n : P(j) \in T}
<1>0. n \in Nat /\ \A i \in 1 .. n : s[i] \in A
  OBVIOUS
<1>1. 0 \in S
  <2>1. P(0) = <<>> /\ 0 \in 0 .. n
    OBVIOUS
  <2> QED BY <2>1
<1>2. ASSUME NEW j \in 0 .. n - 1, j \in S PROVE j + 1 \in S
  <2>1. P(j) \in T /\ j \in Nat /\ j + 1 \in 0 .. n
    BY <1>0, <1>2
  <2>2. \A k \in 0 .. n : P(k) \in Seq(A) /\ Len(P(k)) = k
    <3> SUFFICES ASSUME NEW k \in 0 .. n PROVE P(k) \in Seq(A) /\ Len(P(k)) = k
      OBVIOUS
    <3>1. k \in Nat /\ P(k) \in [1 .. k -> A]
      BY <1>0
    <3> HIDE DEF P
    <3> QED BY <3>1
  <2>3. \A i \in 1 .. j : P(j + 1)[i] = P(j)[i]
    <3>1. \A i \in 1 .. j : i \in 1 .. j + 1
      BY <2>1
    <3> QED BY <3>1
  <2>4. j \in 0 .. n
    BY <1>0
  <2> HIDE DEF P, n, S
  <2>5. P(j + 1) \in Seq(A) /\ P(j) \in Seq(A) /\ Len(P(j + 1)) = Len(P(j)) + 1
        /\ \A i \in 1 .. Len(P(j)) : P(j + 1)[i] = P(j)[i]
    BY <2>1, <2>2, <2>3, <2>4
  <2>6. P(j + 1)[Len(P(j + 1))] \in A /\ P(j + 1) = Append(P(j), P(j + 1)[Len(P(j + 1))])
    BY <2>5, LongerByOne
  <2>7. P(j + 1) \in T
    BY <2>1, <2>6
  <2> QED BY <2>1, <2>7 DEF S
<1>3. 0 .. n \subseteq S
  <2>1. n \in Nat
    OBVIOUS
  <2> HIDE DEF S, n
  <2> QED BY <1>1, <1>2, <2>1, UpTo
<1>4. [i \in 1 .. n |-> s[i]] = s
  <2>1. s \in [1 .. n -> A]
    BY LenProperties
  <2> QED BY <2>1
<1>5. n \in S
  <2>1. n \in 0 .. n
    OBVIOUS
  <2> HIDE DEF S
  <2> QED BY <1>3, <2>1
<1> QED BY <1>4, <1>5

-------------------------------------------------------------------------------
(* Texts *)

\* A text with any pieces, and the pieces from the one after the a-th to the b-th.
Some == [own : Seq(Nat), len : Nat]
Run(a, b) == [i \in 1 .. b - a |-> a + i]
Covers(text, a, b) == text.own = Run(a, b)

\* Three sequences joined from the left are the three joined from the right, as a
\* predicate of the three, so that a step about long terms only has to name them.
Associates(a, b, c) == (a \o b) \o c = a \o (b \o c)

LEMMA Associative == ASSUME NEW S PROVE \A a, b, c \in Seq(S) : Associates(a, b, c)
<1> TAKE a, b, c \in Seq(S)
<1> QED BY ConcatAssociative DEF Associates

LEMMA RunOfNone == \A a \in Nat : Run(a, a) = <<>>
BY DEF Run

LEMMA RunsMeet ==
  ASSUME NEW a \in Nat, NEW b \in Nat, NEW c \in Nat, a <= b, b <= c
  PROVE  /\ Run(a, b) \in Seq(Nat) /\ Len(Run(a, b)) = b - a /\ Run(a, a) = <<>>
         /\ Run(a, b) \o Run(b, c) = Run(a, c)
<1>1. \A x \in Nat, y \in Nat : x <= y =>
        Run(x, y) \in Seq(Nat) /\ Len(Run(x, y)) = y - x
  <2> SUFFICES ASSUME NEW x \in Nat, NEW y \in Nat, x <= y
               PROVE  Run(x, y) \in Seq(Nat) /\ Len(Run(x, y)) = y - x
    OBVIOUS
  <2>1. y - x \in Nat /\ Run(x, y) \in [1 .. y - x -> Nat]
    BY DEF Run
  <2> QED BY <2>1
<1>2. Run(a, a) = <<>>
  BY DEF Run
<1>3. a <= c
  OBVIOUS
<1> DEFINE s == Run(a, b) \o Run(b, c)
<1>4. /\ s \in Seq(Nat) /\ Len(s) = (b - a) + (c - b)
      /\ \A i \in 1 .. (b - a) + (c - b) :
           s[i] = IF i <= b - a THEN Run(a, b)[i] ELSE Run(b, c)[i - (b - a)]
  <2>1. Run(a, b) \in Seq(Nat) /\ Len(Run(a, b)) = b - a
    BY <1>1
  <2>2. Run(b, c) \in Seq(Nat) /\ Len(Run(b, c)) = c - b
    BY <1>1
  <2>3. b - a \in Nat /\ c - b \in Nat
    OBVIOUS
  <2> DEFINE m == Len(Run(a, b))
             n == Len(Run(b, c))
  <2>4. /\ s \in Seq(Nat) /\ Len(s) = m + n
        /\ \A i \in 1 .. m + n : s[i] = IF i <= m THEN Run(a, b)[i] ELSE Run(b, c)[i - m]
    BY <2>1, <2>2, ConcatProperties, Zenon
  <2> HIDE DEF s
  <2> QED BY <2>1, <2>2, <2>3, <2>4
<1>5. \A i \in 1 .. c - a : s[i] = a + i
  <2> SUFFICES ASSUME NEW i \in 1 .. c - a PROVE s[i] = a + i
    OBVIOUS
  <2>1. i <= b - a => Run(a, b)[i] = a + i
    BY DEF Run
  <2>2. ~(i <= b - a) => Run(b, c)[i - (b - a)] = b + (i - (b - a))
    BY DEF Run
  <2> QED BY <1>4, <2>1, <2>2
<1>6. s = Run(a, c)
  <2>1. \A i \in 1 .. c - a : s[i] = Run(a, c)[i]
    BY <1>5 DEF Run
  <2>2. Len(s) = Len(Run(a, c)) /\ Run(a, c) \in Seq(Nat) /\ Len(s) = c - a
    <3>1. Run(a, c) \in Seq(Nat) /\ Len(Run(a, c)) = c - a
      BY <1>1, <1>3
    <3>2. Len(s) = c - a
      <4> HIDE DEF s
      <4> QED BY <1>4
    <3> QED BY <3>1, <3>2
  <2>3. \A i \in 1 .. Len(s) : s[i] = Run(a, c)[i]
    BY <2>1, <2>2
  <2> HIDE DEF s
  <2> QED BY <1>4, <2>2, <2>3, SeqEqual
<1> QED BY <1>1, <1>2, <1>6

LEMMA JoinTypes ==
  /\ Nothing \in Some /\ Nothing.own = <<>> /\ Nothing.len = 0
  /\ \A a, b \in Some, gap \in Nat :
       /\ Join(a, b, gap) \in Some
       /\ Join(a, b, gap).own = a.own \o b.own
<1>1. Nothing \in Some /\ Nothing.own = <<>> /\ Nothing.len = 0
  BY DEF Nothing, Some
<1>2. ASSUME NEW a \in Some, NEW b \in Some, NEW gap \in Nat
      PROVE  Join(a, b, gap) \in Some /\ Join(a, b, gap).own = a.own \o b.own
  <2>1. a.own \in Seq(Nat) /\ b.own \in Seq(Nat) /\ a.own \o b.own \in Seq(Nat)
    BY DEF Some
  <2>2. a.len + gap + b.len \in Nat
    BY DEF Some
  <2>3. CASE a = Nothing
    <3>1. a.own \o b.own = b.own
      BY <1>1, <2>1, <2>3, ConcatEmptySeq
    <3> QED BY <2>3, <3>1 DEF Join
  <2>4. CASE a # Nothing
    BY <2>1, <2>2, <2>4 DEF Join, Some
  <2> QED BY <2>3, <2>4
<1> QED BY <1>1, <1>2

\* Joined, from left to right.
LEMMA JoinedIs ==
  ASSUME NEW gap \in Nat
  PROVE  /\ Joined(<<>>, gap) = Nothing
         /\ \A texts \in Seq(Some) : Joined(texts, gap) \in Some
         /\ \A texts \in Seq(Some), t \in Some :
              Joined(Append(texts, t), gap) = Join(Joined(texts, gap), t, gap)
<1> DEFINE step == [x \in Some \X Some |-> Join(x[1], x[2], gap)]
           Fold(f, texts) ==
             f = [T \in SUBSET (1 .. Len(texts)) |->
                    IF T = {} THEN Nothing ELSE Join(f[T \ {Max(T)}], texts[Max(T)], gap)]
           Chosen(texts) == CHOOSE f : Fold(f, texts)
<1>1. step \in [Some \X Some -> Some] /\ Nothing \in Some
  BY JoinTypes
<1>2. \A a, b \in Some : step[a, b] = Join(a, b, gap)
  OBVIOUS
<1>3. \A texts \in Seq(Some) : Joined(texts, gap) = Chosen(texts)[1 .. Len(texts)]
  <2> TAKE texts \in Seq(Some)
  <2>1. DOMAIN texts = 1 .. Len(texts)
    OBVIOUS
  <2> QED BY <2>1 DEF Joined, FoldLeft, MapThenFoldSet
<1>4. ASSUME NEW texts \in Seq(Some) PROVE Folding(Chosen(texts), texts, Some, Nothing, step)
  <2> HIDE DEF step
  <2>1. PICK f \in [SUBSET (1 .. Len(texts)) -> Some] : FoldedBy(f, texts, Some, Nothing, step)
    BY <1>1, FoldOf
  <2>2. \A i \in 1 .. Len(texts) : texts[i] \in Some
    OBVIOUS
  <2>3. \A T \in SUBSET (1 .. Len(texts)) :
          f[T] = IF T = {} THEN Nothing ELSE Join(f[T \ {Max(T)}], texts[Max(T)], gap)
    BY <1>2, <2>1, <2>2 DEF FoldedBy
  <2>4. Fold(f, texts)
    BY <2>1, <2>3
  <2> HIDE DEF Fold
  <2>5. Fold(Chosen(texts), texts)
    BY <2>4
  <2> HIDE DEF Chosen
  <2>6. \A T \in SUBSET (1 .. Len(texts)) :
          Chosen(texts)[T] = IF T = {} THEN Nothing
                             ELSE Join(Chosen(texts)[T \ {Max(T)}], texts[Max(T)], gap)
    BY <2>5 DEF Fold
  <2>7. \A T \in SUBSET (1 .. Len(texts)) : T # {} => Max(T) \in 1 .. Len(texts)
    BY <2>1 DEF FoldedBy
  <2> QED BY <1>2, <2>2, <2>6, <2>7 DEF Folding
<1> HIDE DEF step, Chosen
<1>5. ASSUME NEW texts \in Seq(Some), NEW t \in Some
      PROVE  /\ Joined(texts, gap) \in Some
             /\ Joined(Append(texts, t), gap) = Join(Joined(texts, gap), t, gap)
  <2>1. Append(texts, t) \in Seq(Some)
    OBVIOUS
  <2>2. Folding(Chosen(texts), texts, Some, Nothing, step)
        /\ Folding(Chosen(Append(texts, t)), Append(texts, t), Some, Nothing, step)
    BY <1>4, <2>1
  <2>3. TakesLast(Chosen(texts), Chosen(Append(texts, t)), texts, t, Some, step)
    BY <1>1, <2>2, LastElement
  <2>4. Joined(texts, gap) = Chosen(texts)[1 .. Len(texts)]
        /\ Joined(Append(texts, t), gap) = Chosen(Append(texts, t))[1 .. Len(Append(texts, t))]
    BY <1>3, <2>1
  <2> QED BY <1>2, <2>3, <2>4 DEF TakesLast
<1>6. Joined(<<>>, gap) = Nothing
  <2>1. <<>> \in Seq(Some) /\ Len(<<>>) = 0 /\ 1 .. 0 = {} /\ {} \in SUBSET (1 .. 0)
    OBVIOUS
  <2>2. Chosen(<<>>)[{}] = Nothing
    BY <1>4, <2>1 DEF Folding
  <2> QED BY <1>3, <2>1, <2>2
<1> QED BY <1>1, <1>5, <1>6

\* FlattenSeq too.
LEMMA FlattenIs ==
  ASSUME NEW S
  PROVE  /\ FlattenSeq(<<>>) = <<>>
         /\ \A list \in Seq(Seq(S)) : FlattenSeq(list) \in Seq(S)
         /\ \A list \in Seq(Seq(S)), x \in Seq(S) :
              FlattenSeq(Append(list, x)) = FlattenSeq(list) \o x
<1> DEFINE Value(f, list, i) == IF i = 1 THEN list[i] ELSE f[i - 1] \o list[i]
           Flat(f, list) == f = [i \in 1 .. Len(list) |-> Value(f, list, i)]
           Chosen(list) == CHOOSE f : Flat(f, list)
<1>1. FlattenSeq(<<>>) = <<>>
  BY DEF FlattenSeq
<1>2. \A list \in Seq(Seq(S)) : list # <<>> => FlattenSeq(list) = Chosen(list)[Len(list)]
  BY DEF FlattenSeq
<1>3. ASSUME NEW list \in Seq(Seq(S)) PROVE Flat(Chosen(list), list)
  <2> DEFINE n == Len(list)
             To(f, k) == \A i \in 1 .. k : f[i] = Value(f, list, i)
             Done == {k \in 0 .. n : \E f \in [1 .. k -> Seq(S)] : To(f, k)}
  <2>1. n \in Nat /\ \A i \in 1 .. n : list[i] \in Seq(S)
    OBVIOUS
  <2> HIDE DEF n
  <2>2. 0 \in Done
    <3>1. 1 .. 0 = {} /\ 0 \in 0 .. n
      BY <2>1
    <3>2. [i \in 1 .. 0 |-> <<>>] \in [1 .. 0 -> Seq(S)] /\ To([i \in 1 .. 0 |-> <<>>], 0)
      BY <3>1
    <3> HIDE DEF To
    <3> QED BY <3>1, <3>2
  <2>3. ASSUME NEW k \in 0 .. n - 1, k \in Done PROVE k + 1 \in Done
    <3>1. PICK f \in [1 .. k -> Seq(S)] : To(f, k)
      BY <2>3
    <3> DEFINE g == [i \in 1 .. k + 1 |-> IF i = k + 1 THEN Value(f, list, i) ELSE f[i]]
    <3>2. /\ k \in Nat /\ k + 1 \in 1 .. n /\ k + 1 \in 0 .. n /\ (k + 1) - 1 = k
          /\ \A i \in 1 .. k + 1 : i = k + 1 \/ i \in 1 .. k
          /\ \A i \in 1 .. k : i # k + 1 /\ i \in 1 .. k + 1 /\ (i = 1 \/ i - 1 \in 1 .. k)
          /\ k + 1 = 1 \/ k \in 1 .. k
      BY <2>1
    <3>3. Value(f, list, k + 1) \in Seq(S)
      <4>1. list[k + 1] \in Seq(S) /\ (k \in 1 .. k => f[k] \in Seq(S))
        BY <2>1, <3>2
      <4> QED BY <3>2, <4>1
    <3>4. g[k + 1] = Value(f, list, k + 1) /\ \A i \in 1 .. k : g[i] = f[i]
      <4> HIDE DEF Value
      <4>1. k + 1 \in 1 .. k + 1
        BY <3>2
      <4> QED BY <3>2, <4>1
    <3>5. g \in [1 .. k + 1 -> Seq(S)]
      <4> HIDE DEF Value
      <4> QED BY <3>2, <3>3
    <3> HIDE DEF g
    <3>6. To(g, k + 1)
      <4>1. Value(g, list, k + 1) = Value(f, list, k + 1)
        BY <3>2, <3>4
      <4>2. \A i \in 1 .. k : Value(g, list, i) = Value(f, list, i)
        BY <3>2, <3>4
      <4> HIDE DEF Value
      <4> QED BY <3>1, <3>2, <3>4, <4>1, <4>2
    <3> HIDE DEF To
    <3> QED BY <3>2, <3>5, <3>6
  <2>4. PICK f \in [1 .. n -> Seq(S)] : To(f, n)
    <3>1. n \in 0 .. n
      BY <2>1
    <3>2. n \in Done
      <4> HIDE DEF Done
      <4>1. 0 .. n \subseteq Done
        BY <2>1, <2>2, <2>3, UpTo
      <4> QED BY <3>1, <4>1
    <3> HIDE DEF To
    <3> QED BY <3>2
  <2>5. Flat(f, list)
    <3> HIDE DEF Value
    <3> QED BY <2>4 DEF n
  <2> HIDE DEF Flat
  <2> QED BY <2>5
<1>4. ASSUME NEW list \in Seq(Seq(S)), NEW i \in 1 .. Len(list)
      PROVE  Chosen(list)[i] = Value(Chosen(list), list, i)
  <2>1. Chosen(list) = [j \in 1 .. Len(list) |-> Value(Chosen(list), list, j)]
    BY <1>3
  <2> HIDE DEF Chosen, Value
  <2> QED BY <2>1
<1> HIDE DEF Chosen
<1>5. ASSUME NEW list \in Seq(Seq(S)), NEW x \in Seq(S)
      PROVE  FlattenSeq(list) \in Seq(S) /\ FlattenSeq(Append(list, x)) = FlattenSeq(list) \o x
  <2> DEFINE n == Len(list)
             t == Append(list, x)
             f == Chosen(list)
             g == Chosen(t)
             Done == {k \in 0 .. n : k = 0 \/ (f[k] \in Seq(S) /\ g[k] = f[k])}
  <2>1. /\ n \in Nat /\ t \in Seq(Seq(S)) /\ Len(t) = n + 1 /\ t # <<>> /\ t[n + 1] = x
        /\ \A i \in 1 .. n : list[i] \in Seq(S) /\ t[i] = list[i]
    <3>1. n \in Nat /\ \A i \in 1 .. n : list[i] \in Seq(S)
      OBVIOUS
    <3>2. /\ t \in Seq(Seq(S)) /\ Len(t) = n + 1 /\ t[n + 1] = x
          /\ \A i \in 1 .. n : t[i] = list[i]
      BY OneLonger
    <3>3. Len(<<>>) = 0
      OBVIOUS
    <3> HIDE DEF n, t
    <3> QED BY <3>1, <3>2, <3>3
  <2>2. /\ \A i \in 1 .. n : f[i] = IF i = 1 THEN list[i] ELSE f[i - 1] \o list[i]
        /\ \A i \in 1 .. n + 1 : g[i] = IF i = 1 THEN t[i] ELSE g[i - 1] \o t[i]
    <3> HIDE DEF t
    <3> QED BY <1>4, <2>1
  <2>3. FlattenSeq(t) = g[n + 1] /\ (list # <<>> => FlattenSeq(list) = f[n])
    BY <1>2, <2>1
  <2>4. n = 0 <=> list = <<>>
    OBVIOUS
  <2> HIDE DEF n, t, f, g
  <2>5. 0 \in Done
    BY <2>1
  <2>6. ASSUME NEW k \in 0 .. n - 1, k \in Done PROVE k + 1 \in Done
    <3>1. k + 1 \in 1 .. n /\ k + 1 \in 1 .. n + 1 /\ (k + 1) - 1 = k /\ k + 1 \in 0 .. n
          /\ (k + 1 = 1 <=> k = 0)
      BY <2>1
    <3>2. list[k + 1] \in Seq(S) /\ t[k + 1] = list[k + 1]
      BY <2>1, <3>1
    <3>3. /\ f[k + 1] = IF k + 1 = 1 THEN list[k + 1] ELSE f[k] \o list[k + 1]
          /\ g[k + 1] = IF k + 1 = 1 THEN t[k + 1] ELSE g[k] \o t[k + 1]
      BY <2>2, <3>1
    <3>4. k = 0 \/ (f[k] \in Seq(S) /\ g[k] = f[k])
      BY <2>6
    <3>5. k # 0 => f[k] \o list[k + 1] \in Seq(S)
      BY <3>2, <3>4
    <3>6. f[k + 1] \in Seq(S) /\ g[k + 1] = f[k + 1]
      BY <3>1, <3>2, <3>3, <3>4, <3>5
    <3> QED BY <3>1, <3>6
  <2>7. n = 0 \/ (f[n] \in Seq(S) /\ g[n] = f[n])
    <3>1. n \in Done
      <4> HIDE DEF Done
      <4>1. 0 .. n \subseteq Done
        BY <2>1, <2>5, <2>6, UpTo
      <4>2. n \in 0 .. n
        BY <2>1
      <4> QED BY <4>1, <4>2
    <3> QED BY <3>1
  <2>8. g[n + 1] = IF n + 1 = 1 THEN x ELSE g[n] \o x
    BY <2>1, <2>2
  <2>9. CASE n = 0
    <3>1. FlattenSeq(list) = <<>> /\ <<>> \o x = x /\ <<>> \in Seq(S)
      BY <1>1, <2>4, <2>9, ConcatEmptySeq
    <3> QED BY <2>3, <2>8, <2>9, <3>1 DEF t
  <2>10. CASE n # 0
    <3>1. list # <<>> /\ n + 1 # 1
      BY <2>1, <2>4, <2>10
    <3> QED BY <2>3, <2>7, <2>8, <2>10, <3>1 DEF t
  <2> QED BY <2>9, <2>10
<1>6. <<>> \in Seq(S)
  OBVIOUS
<1> QED BY <1>1, <1>5, <1>6

\* What each element of a list maps to, in a row.
Gathered(map, list) == FlattenSeq([i \in DOMAIN list |-> map[list[i]]])

LEMMA GatheredNone == ASSUME NEW map PROVE Gathered(map, <<>>) = <<>>
<1>1. [i \in DOMAIN <<>> |-> map[<<>>[i]]] = <<>>
  OBVIOUS
<1>2. FlattenSeq(<<>>) = <<>>
  BY FlattenIs
<1> QED BY <1>1, <1>2 DEF Gathered

LEMMA GatheredIs ==
  ASSUME NEW A, NEW S, NEW map \in [A -> Seq(S)], NEW list \in Seq(A)
  PROVE  Gathered(map, list) \in Seq(S)
<1> DEFINE mapped == [i \in DOMAIN list |-> map[list[i]]]
<1>1. Len(list) \in Nat /\ DOMAIN list = 1 .. Len(list) /\ \A i \in 1 .. Len(list) : list[i] \in A
  OBVIOUS
<1>2. mapped \in [1 .. Len(list) -> Seq(S)]
  BY <1>1
<1>3. mapped \in Seq(Seq(S))
  <2>1. \A k \in Nat : \A f \in [1 .. k -> Seq(S)] : f \in Seq(Seq(S))
    OBVIOUS
  <2> HIDE DEF mapped
  <2> QED BY <1>1, <1>2, <2>1
<1>4. Gathered(map, list) = FlattenSeq(mapped)
  BY DEF Gathered
<1> HIDE DEF mapped
<1> QED BY <1>3, <1>4, FlattenIs

LEMMA GatheredMore ==
  ASSUME NEW A, NEW S, NEW map \in [A -> Seq(S)], NEW list \in Seq(A), NEW x \in A
  PROVE  Gathered(map, Append(list, x)) = Gathered(map, list) \o map[x]
<1> DEFINE t == Append(list, x)
           n == Len(list)
           mapped == [i \in DOMAIN list |-> map[list[i]]]
           longer == [i \in DOMAIN t |-> map[t[i]]]
<1>1. /\ t \in Seq(A) /\ Len(t) = n + 1 /\ t[n + 1] = x
      /\ \A i \in 1 .. n : t[i] = list[i]
  BY OneLonger
<1>2. n \in Nat /\ DOMAIN t = 1 .. n + 1 /\ DOMAIN list = 1 .. n /\ \A i \in 1 .. n : list[i] \in A
  BY <1>1
<1>3. /\ \A i \in 1 .. n + 1 : i \in 1 .. n \/ i = n + 1
      /\ n + 1 \in 1 .. n + 1 /\ \A i \in 1 .. n : i \in 1 .. n + 1
  BY <1>2
<1>4. Gathered(map, t) = FlattenSeq(longer) /\ Gathered(map, list) = FlattenSeq(mapped)
  BY DEF Gathered
<1> HIDE DEF t, n
<1>5. mapped \in [1 .. n -> Seq(S)] /\ longer \in [1 .. n + 1 -> Seq(S)]
  BY <1>1, <1>2, <1>3
<1>6. (\A i \in 1 .. n : longer[i] = mapped[i]) /\ longer[n + 1] = map[x]
  BY <1>1, <1>2, <1>3
<1> HIDE DEF mapped, longer
<1>7. /\ mapped \in Seq(Seq(S)) /\ longer \in Seq(Seq(S))
      /\ Len(mapped) = n /\ Len(longer) = n + 1
  BY <1>2, <1>5
<1>8. longer = Append(mapped, longer[Len(longer)])
  BY <1>6, <1>7, LongerByOne
<1>9. map[x] \in Seq(S)
  OBVIOUS
<1>10. FlattenSeq(Append(mapped, map[x])) = FlattenSeq(mapped) \o map[x]
  BY <1>7, <1>9, FlattenIs
<1> QED BY <1>4, <1>6, <1>7, <1>8, <1>10 DEF t

GathersConcat(map, A) ==
  \A s, t \in Seq(A) : Gathered(map, s \o t) = Gathered(map, s) \o Gathered(map, t)

LEMMA GatheredConcat ==
  ASSUME NEW A, NEW S, NEW map \in [A -> Seq(S)] PROVE GathersConcat(map, A)
<1> SUFFICES ASSUME NEW s \in Seq(A), NEW t \in Seq(A)
             PROVE  Gathered(map, s \o t) = Gathered(map, s) \o Gathered(map, t)
  BY DEF GathersConcat
<1> DEFINE T == {u \in Seq(A) : Gathered(map, s \o u) = Gathered(map, s) \o Gathered(map, u)}
<1>1. <<>> \in T
  <2>1. s \o <<>> = s /\ <<>> \in Seq(A)
    BY ConcatEmptySeq
  <2>2. Gathered(map, s) \in Seq(S) /\ Gathered(map, <<>>) = <<>>
    BY GatheredIs, GatheredNone
  <2>3. Gathered(map, s) \o <<>> = Gathered(map, s)
    BY <2>2, ConcatEmptySeq
  <2> QED BY <2>1, <2>2, <2>3
<1>2. ASSUME NEW u \in T, NEW x \in A PROVE Append(u, x) \in T
  <2>1. u \in Seq(A) /\ Append(u, x) \in Seq(A) /\ s \o u \in Seq(A)
    OBVIOUS
  <2>2. s \o Append(u, x) = Append(s \o u, x)
    BY <2>1
  <2>3. /\ Gathered(map, Append(s \o u, x)) = Gathered(map, s \o u) \o map[x]
        /\ Gathered(map, Append(u, x)) = Gathered(map, u) \o map[x]
    BY <2>1, GatheredMore
  <2>6. Gathered(map, s) \in Seq(S) /\ Gathered(map, u) \in Seq(S) /\ map[x] \in Seq(S)
    BY <2>1, GatheredIs
  <2>4. (Gathered(map, s) \o Gathered(map, u)) \o map[x]
          = Gathered(map, s) \o (Gathered(map, u) \o map[x])
    <3>1. Associates(Gathered(map, s), Gathered(map, u), map[x])
      BY <2>6, Associative, Zenon
    <3> QED BY <3>1, Zenon DEF Associates
  <2>5. Gathered(map, s \o u) = Gathered(map, s) \o Gathered(map, u)
    OBVIOUS
  <2> QED BY <2>1, <2>2, <2>3, <2>4, <2>5
<1> HIDE DEF T
<1>3. T = Seq(A)
  <2>1. T \in SUBSET Seq(A)
    BY DEF T
  <2> QED BY <1>1, <1>2, <2>1, AllSequences
<1> QED BY <1>3 DEF T

LEMMA GatheredOne ==
  ASSUME NEW A, NEW S, NEW map \in [A -> Seq(S)], NEW x \in A
  PROVE  Gathered(map, <<x>>) = map[x]
<1>1. Append(<<>>, x) = <<x>> /\ <<>> \in Seq(A) /\ map[x] \in Seq(S)
  OBVIOUS
<1>2. Gathered(map, Append(<<>>, x)) = Gathered(map, <<>>) \o map[x] /\ Gathered(map, <<>>) = <<>>
  BY <1>1, GatheredMore, GatheredNone
<1>3. <<>> \o map[x] = map[x]
  BY <1>1, ConcatEmptySeq
<1> QED BY <1>1, <1>2, <1>3

-------------------------------------------------------------------------------
(* The pieces of some texts *)

Own == [text \in Some |-> text.own]
Held(texts) == Gathered(Own, texts)

LEMMA OwnIs == Own \in [Some -> Seq(Nat)] /\ \A text \in Some : Own[text] = text.own
BY DEF Own, Some

LEMMA HeldIs ==
  /\ Held(<<>>) = <<>>
  /\ \A texts \in Seq(Some) :
       /\ Held(texts) \in Seq(Nat)
       /\ Held(texts) = FlattenSeq([i \in DOMAIN texts |-> texts[i].own])
  /\ \A texts \in Seq(Some), t \in Some : Held(Append(texts, t)) = Held(texts) \o t.own
  /\ \A texts, more \in Seq(Some) : Held(texts \o more) = Held(texts) \o Held(more)
  /\ \A t \in Some : Held(<<t>>) = t.own
<1>1. Held(<<>>) = <<>>
  BY GatheredNone DEF Held
<1>2. ASSUME NEW texts \in Seq(Some)
      PROVE  /\ Held(texts) \in Seq(Nat)
             /\ Held(texts) = FlattenSeq([i \in DOMAIN texts |-> texts[i].own])
  <2>1. Held(texts) \in Seq(Nat)
    BY OwnIs, GatheredIs DEF Held
  <2>2. \A i \in DOMAIN texts : texts[i] \in Some
    OBVIOUS
  <2>3. [i \in DOMAIN texts |-> Own[texts[i]]] = [i \in DOMAIN texts |-> texts[i].own]
    BY <2>2, OwnIs
  <2>4. Held(texts) = FlattenSeq([i \in DOMAIN texts |-> texts[i].own])
    BY <2>3 DEF Held, Gathered
  <2> QED BY <2>1, <2>4
<1>3. \A texts \in Seq(Some), t \in Some : Held(Append(texts, t)) = Held(texts) \o t.own
  <2> TAKE texts \in Seq(Some), t \in Some
  <2>1. Gathered(Own, Append(texts, t)) = Gathered(Own, texts) \o Own[t]
    BY OwnIs, GatheredMore
  <2> QED BY <2>1, OwnIs DEF Held
<1>4. \A texts, more \in Seq(Some) : Held(texts \o more) = Held(texts) \o Held(more)
  <2>1. GathersConcat(Own, Some)
    BY OwnIs, GatheredConcat
  <2> QED BY <2>1, Zenon DEF GathersConcat, Held
<1>5. \A t \in Some : Held(<<t>>) = t.own
  <2> TAKE t \in Some
  <2>1. Gathered(Own, <<t>>) = Own[t]
    BY OwnIs, GatheredOne, Zenon
  <2> QED BY <2>1, OwnIs, Zenon DEF Held
<1> QED BY <1>1, <1>2, <1>3, <1>4, <1>5

\* Joined, they hold the same.
LEMMA JoinedHolds ==
  ASSUME NEW gap \in Nat, NEW texts \in Seq(Some)
  PROVE  Joined(texts, gap) \in Some /\ Joined(texts, gap).own = Held(texts)
<1> DEFINE T == {u \in Seq(Some) : Joined(u, gap).own = Held(u)}
<1>1. <<>> \in T
  <2>1. <<>> \in Seq(Some)
    OBVIOUS
  <2> QED BY <2>1, JoinedIs, JoinTypes, HeldIs
<1>2. ASSUME NEW u \in T, NEW t \in Some PROVE Append(u, t) \in T
  <2>1. u \in Seq(Some) /\ Append(u, t) \in Seq(Some) /\ Joined(u, gap).own = Held(u)
    OBVIOUS
  <2>2. Joined(u, gap) \in Some /\ Joined(Append(u, t), gap) = Join(Joined(u, gap), t, gap)
    BY <2>1, JoinedIs
  <2>3. Join(Joined(u, gap), t, gap).own = Joined(u, gap).own \o t.own
    BY <2>2, JoinTypes
  <2>4. Held(Append(u, t)) = Held(u) \o t.own
    BY <2>1, HeldIs
  <2> QED BY <2>1, <2>2, <2>3, <2>4
<1> HIDE DEF T
<1>3. T = Seq(Some)
  <2>1. T \in SUBSET Seq(Some)
    BY DEF T
  <2> QED BY <1>1, <1>2, <2>1, AllSequences
<1>4. texts \in T
  BY <1>3
<1>5. Joined(texts, gap) \in Some
  BY JoinedIs
<1> QED BY <1>4, <1>5 DEF T

LEMMA Gaps == Uncut \in Nat /\ Space \in Nat /\ BlankLine \in Nat
BY DEF Uncut, Space, BlankLine

\* A sentence is its cuts, a paragraph its sentences, a block its paragraphs.
HeldIn == [sentence \in Seq(Some) |-> Held(sentence)]
ParagraphHeld(sentences) == Gathered(HeldIn, sentences)
HeldInThat == [sentences \in Seq(Seq(Some)) |-> ParagraphHeld(sentences)]
BlockHeld(paragraphs) == Gathered(HeldInThat, paragraphs)

LEMMA Levels ==
  /\ HeldIn \in [Seq(Some) -> Seq(Nat)]
  /\ HeldInThat \in [Seq(Seq(Some)) -> Seq(Nat)]
<1>1. HeldIn \in [Seq(Some) -> Seq(Nat)]
  BY HeldIs DEF HeldIn
<1>2. \A sentences \in Seq(Seq(Some)) : ParagraphHeld(sentences) \in Seq(Nat)
  BY <1>1, GatheredIs DEF ParagraphHeld
<1> QED BY <1>1, <1>2 DEF HeldInThat

LEMMA SentenceHolds ==
  ASSUME NEW cuts \in Seq(Some) PROVE Sentence(cuts) \in Some /\ Sentence(cuts).own = Held(cuts)
BY JoinedHolds, Gaps DEF Sentence

LEMMA ParagraphHolds ==
  ASSUME NEW sentences \in Seq(Seq(Some))
  PROVE  Paragraph(sentences) \in Some /\ Paragraph(sentences).own = ParagraphHeld(sentences)
<1> DEFINE texts == [j \in DOMAIN sentences |-> Sentence(sentences[j])]
           n == Len(sentences)
<1>1. n \in Nat /\ DOMAIN sentences = 1 .. n /\ \A j \in 1 .. n : sentences[j] \in Seq(Some)
  OBVIOUS
<1> HIDE DEF n
<1>2. texts \in [1 .. n -> Some]
  BY <1>1, SentenceHolds
<1>3. texts \in Seq(Some) /\ DOMAIN texts = 1 .. n
  <2>1. \A k \in Nat : \A f \in [1 .. k -> Some] : f \in Seq(Some)
    OBVIOUS
  <2> HIDE DEF texts
  <2> QED BY <1>1, <1>2, <2>1
<1>4. \A j \in 1 .. n : texts[j].own = HeldIn[sentences[j]]
  BY <1>1, SentenceHolds DEF HeldIn
<1>5. Paragraph(sentences) = Joined(texts, Space)
  BY DEF Paragraph
<1> HIDE DEF texts
<1>6. Held(texts) = FlattenSeq([j \in DOMAIN texts |-> texts[j].own])
  BY <1>3, HeldIs
<1>7. [j \in DOMAIN texts |-> texts[j].own] = [j \in DOMAIN sentences |-> HeldIn[sentences[j]]]
  BY <1>1, <1>3, <1>4
<1>8. Held(texts) = ParagraphHeld(sentences)
  BY <1>6, <1>7 DEF ParagraphHeld, Gathered
<1> QED BY <1>3, <1>5, <1>8, JoinedHolds, Gaps

LEMMA WholeHolds ==
  ASSUME NEW paragraphs \in Seq(Seq(Seq(Some)))
  PROVE  Whole(paragraphs) \in Some /\ Whole(paragraphs).own = BlockHeld(paragraphs)
<1> DEFINE texts == [j \in DOMAIN paragraphs |-> Paragraph(paragraphs[j])]
           n == Len(paragraphs)
<1>1. n \in Nat /\ DOMAIN paragraphs = 1 .. n
      /\ \A j \in 1 .. n : paragraphs[j] \in Seq(Seq(Some))
  OBVIOUS
<1> HIDE DEF n
<1>2. texts \in [1 .. n -> Some]
  BY <1>1, ParagraphHolds
<1>3. texts \in Seq(Some) /\ DOMAIN texts = 1 .. n
  <2>1. \A k \in Nat : \A f \in [1 .. k -> Some] : f \in Seq(Some)
    OBVIOUS
  <2> HIDE DEF texts
  <2> QED BY <1>1, <1>2, <2>1
<1>4. \A j \in 1 .. n : texts[j].own = HeldInThat[paragraphs[j]]
  BY <1>1, ParagraphHolds DEF HeldInThat
<1>5. Whole(paragraphs) = Joined(texts, BlankLine)
  BY DEF Whole
<1> HIDE DEF texts
<1>6. Held(texts) = FlattenSeq([j \in DOMAIN texts |-> texts[j].own])
  BY <1>3, HeldIs
<1>7. [j \in DOMAIN texts |-> texts[j].own] = [j \in DOMAIN paragraphs |-> HeldInThat[paragraphs[j]]]
  BY <1>1, <1>3, <1>4
<1>8. Held(texts) = BlockHeld(paragraphs)
  BY <1>6, <1>7 DEF BlockHeld, Gathered
<1> QED BY <1>3, <1>5, <1>8, JoinedHolds, Gaps

-------------------------------------------------------------------------------
(* Sentences, cut and numbered *)

Short == {text \in Some : text.len <= Size}
Sentences == Seq(Short) \ {<<>>}

LEMMA Wider ==
  /\ Seq(Short) \subseteq Seq(Some) /\ Sentences \subseteq Seq(Some)
  /\ Seq(Sentences) \subseteq Seq(Seq(Some))
  /\ Seq(Seq(Sentences)) \subseteq Seq(Seq(Seq(Some)))
<1>1. \A S, T : S \subseteq T => Seq(S) \subseteq Seq(T)
  <2> SUFFICES ASSUME NEW S, NEW T, S \subseteq T, NEW s \in Seq(S) PROVE s \in Seq(T)
    BY Zenon
  <2> QED BY SeqMonotonic
<1>2. Short \subseteq Some /\ Sentences \subseteq Seq(Short)
  BY DEF Short, Sentences
<1> QED BY <1>1, <1>2, Zenon

LEMMA Division ==
  ASSUME NEW a \in Nat, NEW b \in Nat, b > 0
  PROVE  a \div b \in Nat /\ a - (a \div b) * b \in 0 .. b - 1
<1>1. a \div b \in Nat
  OBVIOUS
<1>2. a - b * (a \div b) \in 0 .. b - 1
  OBVIOUS
<1>3. \A q \in Nat : b * q = q * b
  OBVIOUS
<1> QED BY <1>1, <1>2, <1>3

LEMMA CutsFit ==
  ASSUME NEW length \in Lengths
  PROVE  /\ Cuts(length) \in Seq(1 .. Size) /\ Len(Cuts(length)) \in Nat \ {0}
         /\ DOMAIN Cuts(length) = 1 .. Len(Cuts(length))
<1> DEFINE last == (length - 1) \div Size
<1>1. length - 1 \in Nat /\ Size \in Nat /\ Size > 0
  BY ChunkingAssumption
<1>2. last \in Nat /\ (length - 1) - last * Size \in 0 .. Size - 1
  BY <1>1, Division
<1>3. Cuts(length) = [i \in 1 .. last + 1 |-> IF i <= last THEN Size ELSE length - last * Size]
  BY DEF Cuts
<1>4. length - last * Size \in 1 .. Size /\ Size \in 1 .. Size
  <2>1. length \in Int /\ last * Size \in Int
    BY <1>1, <1>2, ChunkingAssumption
  <2> HIDE DEF last
  <2> QED BY <1>1, <1>2, <2>1
<1> HIDE DEF last
<1>5. last + 1 \in Nat \ {0} /\ Cuts(length) \in [1 .. last + 1 -> 1 .. Size]
  BY <1>2, <1>3, <1>4
<1> DEFINE k == last + 1
<1>6. k \in Nat /\ Cuts(length) \in [1 .. k -> 1 .. Size]
  BY <1>5
<1> HIDE DEF k
<1>7. Cuts(length) \in Seq(1 .. Size) /\ Len(Cuts(length)) = k /\ DOMAIN Cuts(length) = 1 .. k
  BY <1>6, AList
<1> QED BY <1>5, <1>7 DEF k

LEMMA RunOfOne ==
  ASSUME NEW a \in Nat, NEW b \in Nat, a <= b
  PROVE  Run(a, b + 1) = Run(a, b) \o <<b + 1>> /\ Run(b, b + 1) = <<b + 1>>
<1>1. Run(b, b + 1) = <<b + 1>>
  <2>1. (b + 1) - b = 1
    OBVIOUS
  <2> QED BY <2>1 DEF Run
<1>2. b \in Nat /\ b + 1 \in Nat /\ b <= b + 1
  OBVIOUS
<1>3. Run(a, b) \o Run(b, b + 1) = Run(a, b + 1)
  BY <1>2, RunsMeet
<1> QED BY <1>1, <1>3

LEMMA PiecesHold ==
  ASSUME NEW length \in Lengths, NEW n \in Nat
  PROVE  /\ Pieces(length, n) \in Sentences
         /\ Held(Pieces(length, n)) = Run(n, n + Len(Cuts(length)))
<1> DEFINE m == Len(Cuts(length))
           piece(i) == [own |-> <<n + i>>, len |-> Cuts(length)[i]]
           P(j) == [i \in 1 .. j |-> piece(i)]
           S == {j \in 0 .. m : Held(P(j)) = Run(n, n + j)}
<1>1. /\ m \in Nat \ {0} /\ DOMAIN Cuts(length) = 1 .. m
      /\ \A i \in 1 .. m : Cuts(length)[i] \in 1 .. Size
  <2>1. /\ Cuts(length) \in Seq(1 .. Size) /\ m \in Nat \ {0}
        /\ DOMAIN Cuts(length) = 1 .. m
    BY CutsFit
  <2>2. \A i \in 1 .. m : Cuts(length)[i] \in 1 .. Size
    BY <2>1, ElementOfSeq
  <2> QED BY <2>1, <2>2
<1> HIDE DEF m
<1>2. ASSUME NEW i \in 1 .. m PROVE piece(i) \in Short /\ piece(i).own = <<n + i>>
  <2>1. Cuts(length)[i] \in Nat /\ Cuts(length)[i] <= Size
    BY <1>1, ChunkingAssumption
  <2>2. n + i \in Nat /\ <<n + i>> \in Seq(Nat)
    BY <1>1
  <2> QED BY <2>1, <2>2 DEF Short, Some
<1> HIDE DEF piece
<1>3. \A j \in 0 .. m : P(j) \in Seq(Short) /\ Len(P(j)) = j
  <2> SUFFICES ASSUME NEW j \in 0 .. m PROVE P(j) \in Seq(Short) /\ Len(P(j)) = j
    OBVIOUS
  <2>1. j \in Nat /\ P(j) \in [1 .. j -> Short]
    BY <1>1, <1>2
  <2>2. \A k \in Nat : \A f \in [1 .. k -> Short] : f \in Seq(Short) /\ Len(f) = k
    OBVIOUS
  <2> HIDE DEF P
  <2> QED BY <2>1, <2>2
<1>4. 0 \in S
  <2>1. P(0) = <<>> /\ 0 \in 0 .. m /\ n + 0 = n
    BY <1>1
  <2> HIDE DEF P
  <2>2. Held(P(0)) = <<>>
    BY <2>1, HeldIs, Zenon
  <2>3. Run(n, n) = <<>>
    BY RunOfNone, Zenon
  <2>4. Held(P(0)) = Run(n, n + 0)
    BY <2>1, <2>2, <2>3, Zenon
  <2> QED BY <2>1, <2>4, Zenon
<1>5. ASSUME NEW j \in 0 .. m - 1, j \in S PROVE j + 1 \in S
  <2>1. j \in Nat /\ j \in 0 .. m /\ j + 1 \in 0 .. m /\ j + 1 \in 1 .. m
    BY <1>1
  <2>2. (\A i \in 1 .. j : P(j + 1)[i] = P(j)[i]) /\ P(j + 1)[j + 1] = piece(j + 1)
    <3>1. j + 1 \in 1 .. j + 1 /\ \A i \in 1 .. j : i \in 1 .. j + 1
      BY <2>1
    <3> QED BY <3>1
  <2>3. Held(P(j)) = Run(n, n + j)
    BY <1>5
  <2> HIDE DEF P, S
  <2>4. /\ P(j) \in Seq(Short) /\ P(j + 1) \in Seq(Short)
        /\ Len(P(j)) = j /\ Len(P(j + 1)) = j + 1
    BY <1>3, <2>1
  <2>5. P(j + 1) = Append(P(j), piece(j + 1))
    BY <2>2, <2>4, LongerByOne
  <2>6. P(j) \in Seq(Some) /\ piece(j + 1) \in Some
    BY <1>2, <2>1, <2>4, Wider DEF Short
  <2>7. Held(P(j + 1)) = Run(n, n + j) \o <<n + (j + 1)>>
    BY <1>2, <2>1, <2>3, <2>5, <2>6, HeldIs
  <2>8. n + j \in Nat /\ n <= n + j /\ n + (j + 1) = (n + j) + 1
    BY <2>1
  <2>9. Run(n, n + (j + 1)) = Run(n, n + j) \o <<n + (j + 1)>>
    BY <2>8, RunOfOne
  <2> QED BY <2>1, <2>7, <2>9 DEF S
<1>6. m \in S
  <2> HIDE DEF S
  <2>1. m \in 0 .. m /\ m \in Nat
    BY <1>1
  <2>2. 0 .. m \subseteq S
    BY <1>4, <1>5, <2>1, UpTo
  <2> QED BY <2>1, <2>2
<1>7. Pieces(length, n) = P(m)
  BY <1>1 DEF Pieces, piece
<1>8. P(m) \in Seq(Short) /\ Len(P(m)) = m
  <2>1. m \in 0 .. m
    BY <1>1
  <2> HIDE DEF P
  <2> QED BY <1>3, <2>1
<1>9. P(m) # <<>>
  <2>1. Len(<<>>) = 0
    OBVIOUS
  <2> HIDE DEF P
  <2> QED BY <1>1, <1>8, <2>1
<1>10. Held(P(m)) = Run(n, n + m)
  BY <1>6
<1> HIDE DEF P
<1> QED BY <1>7, <1>8, <1>9, <1>10 DEF m, Sentences

\* Numbered, from left to right.
Numbering == [upTo : Nat, texts : Seq(Sentences)]
NumberedMore(p, length) ==
  [upTo |-> p.upTo + Len(Cuts(length)), texts |-> Append(p.texts, Pieces(length, p.upTo))]

LEMMA NumberedMoreIs ==
  ASSUME NEW p \in Numbering, NEW length \in Lengths
  PROVE  /\ NumberedMore(p, length) \in Numbering
         /\ NumberedMore(p, length).upTo = p.upTo + Len(Cuts(length))
         /\ NumberedMore(p, length).texts = Append(p.texts, Pieces(length, p.upTo))
<1>1. p.upTo \in Nat /\ p.texts \in Seq(Sentences)
  BY DEF Numbering
<1>2. Pieces(length, p.upTo) \in Sentences /\ Len(Cuts(length)) \in Nat
  BY <1>1, PiecesHold, CutsFit
<1>3. Append(p.texts, Pieces(length, p.upTo)) \in Seq(Sentences)
  BY <1>1, <1>2
<1>4. p.upTo + Len(Cuts(length)) \in Nat
  BY <1>1, <1>2
<1> QED BY <1>3, <1>4 DEF NumberedMore, Numbering

LEMMA NumberedIs ==
  ASSUME NEW n \in Nat
  PROVE  /\ Numbered(<<>>, n) = [upTo |-> n, texts |-> <<>>]
         /\ \A sentences \in Seq(Lengths) : Numbered(sentences, n) \in Numbering
         /\ \A sentences \in Seq(Lengths), length \in Lengths :
              Numbered(Append(sentences, length), n) = NumberedMore(Numbered(sentences, n), length)
<1> DEFINE base == [upTo |-> n, texts |-> <<>>]
           step == [x \in Numbering \X Lengths |-> NumberedMore(x[1], x[2])]
           Value(f, list, T) ==
             IF T = {} THEN base ELSE NumberedMore(f[T \ {Max(T)}], list[Max(T)])
           Fold(f, list) == f = [T \in SUBSET (1 .. Len(list)) |-> Value(f, list, T)]
           Chosen(list) == CHOOSE f : Fold(f, list)
<1>1. base \in Numbering
  BY DEF Numbering
<1>2. step \in [Numbering \X Lengths -> Numbering]
  BY NumberedMoreIs
<1>3. \A p \in Numbering, length \in Lengths : step[p, length] = NumberedMore(p, length)
  OBVIOUS
<1>4. \A list \in Seq(Lengths) : Numbered(list, n) = Chosen(list)[1 .. Len(list)]
  <2> TAKE list \in Seq(Lengths)
  <2>1. DOMAIN list = 1 .. Len(list)
    OBVIOUS
  <2> QED BY <2>1 DEF Numbered, NumberedMore, FoldLeft, MapThenFoldSet
<1> HIDE DEF base, step
<1>5. ASSUME NEW list \in Seq(Lengths) PROVE Folding(Chosen(list), list, Numbering, base, step)
  <2>1. PICK f \in [SUBSET (1 .. Len(list)) -> Numbering] : FoldedBy(f, list, Numbering, base, step)
    BY <1>1, <1>2, FoldOf
  <2>2. \A i \in 1 .. Len(list) : list[i] \in Lengths
    OBVIOUS
  <2>3. \A T \in SUBSET (1 .. Len(list)) : f[T] = Value(f, list, T)
    BY <1>3, <2>1, <2>2 DEF FoldedBy
  <2>4. Fold(f, list)
    <3> HIDE DEF Value
    <3> QED BY <2>1, <2>3
  <2> HIDE DEF Fold
  <2>5. Fold(Chosen(list), list)
    BY <2>4
  <2> HIDE DEF Chosen
  <2>6. \A T \in SUBSET (1 .. Len(list)) : Chosen(list)[T] = Value(Chosen(list), list, T)
    <3> HIDE DEF Value
    <3> QED BY <2>5 DEF Fold
  <2>7. \A T \in SUBSET (1 .. Len(list)) : T # {} => Max(T) \in 1 .. Len(list)
    BY <2>1 DEF FoldedBy
  <2> QED BY <1>3, <2>2, <2>6, <2>7 DEF Folding
<1> HIDE DEF Chosen
<1>6. ASSUME NEW list \in Seq(Lengths), NEW x \in Lengths
      PROVE  /\ Numbered(list, n) \in Numbering
             /\ Numbered(Append(list, x), n) = NumberedMore(Numbered(list, n), x)
  <2>1. Append(list, x) \in Seq(Lengths)
    OBVIOUS
  <2>2. Folding(Chosen(list), list, Numbering, base, step)
        /\ Folding(Chosen(Append(list, x)), Append(list, x), Numbering, base, step)
    BY <1>5, <2>1
  <2>3. TakesLast(Chosen(list), Chosen(Append(list, x)), list, x, Numbering, step)
    BY <1>1, <1>2, <2>2, LastElement
  <2>4. Numbered(list, n) = Chosen(list)[1 .. Len(list)]
        /\ Numbered(Append(list, x), n) = Chosen(Append(list, x))[1 .. Len(Append(list, x))]
    BY <1>4, <2>1
  <2> QED BY <1>3, <2>3, <2>4 DEF TakesLast
<1>7. Numbered(<<>>, n) = base
  <2>1. <<>> \in Seq(Lengths) /\ Len(<<>>) = 0 /\ 1 .. 0 = {} /\ {} \in SUBSET (1 .. 0)
    OBVIOUS
  <2>2. Chosen(<<>>)[{}] = base
    BY <1>5, <2>1 DEF Folding
  <2> QED BY <1>4, <2>1, <2>2
<1>8. \A list \in Seq(Lengths) : Numbered(list, n) \in Numbering
  <2>1. CASE Lengths = {}
    <3>1. \A list \in Seq(Lengths) : list = <<>>
      BY <2>1
    <3> QED BY <1>1, <1>7, <3>1
  <2>2. CASE Lengths # {}
    BY <1>6, <2>2
  <2> QED BY <2>1, <2>2
<1> QED BY <1>6, <1>7, <1>8 DEF base

LEMMA MoreSentences ==
  ASSUME NEW sentences \in Seq(Seq(Some)), NEW cuts \in Seq(Some)
  PROVE  ParagraphHeld(Append(sentences, cuts)) = ParagraphHeld(sentences) \o Held(cuts)
<1>1. Gathered(HeldIn, Append(sentences, cuts)) = Gathered(HeldIn, sentences) \o HeldIn[cuts]
  BY Levels, GatheredMore, Zenon
<1>2. HeldIn[cuts] = Held(cuts)
  BY DEF HeldIn
<1> QED BY <1>1, <1>2 DEF ParagraphHeld

LEMMA MoreParagraphs ==
  ASSUME NEW paragraphs \in Seq(Seq(Seq(Some))), NEW sentences \in Seq(Seq(Some))
  PROVE  BlockHeld(Append(paragraphs, sentences)) = BlockHeld(paragraphs) \o ParagraphHeld(sentences)
<1>1. Gathered(HeldInThat, Append(paragraphs, sentences))
        = Gathered(HeldInThat, paragraphs) \o HeldInThat[sentences]
  BY Levels, GatheredMore, Zenon
<1>2. HeldInThat[sentences] = ParagraphHeld(sentences)
  BY DEF HeldInThat
<1> QED BY <1>1, <1>2 DEF BlockHeld

LEMMA NoSentences == ParagraphHeld(<<>>) = <<>> /\ BlockHeld(<<>>) = <<>>
BY GatheredNone DEF ParagraphHeld, BlockHeld

LEMMA NumberedHolds ==
  ASSUME NEW n \in Nat, NEW sentences \in Seq(Lengths)
  PROVE  /\ Numbered(sentences, n) \in Numbering /\ n <= Numbered(sentences, n).upTo
         /\ ParagraphHeld(Numbered(sentences, n).texts) = Run(n, Numbered(sentences, n).upTo)
<1> DEFINE Holds(p) == n <= p.upTo /\ ParagraphHeld(p.texts) = Run(n, p.upTo)
           T == {u \in Seq(Lengths) : Holds(Numbered(u, n))}
<1>1. <<>> \in T
  <2>1. <<>> \in Seq(Lengths) /\ Numbered(<<>>, n) = [upTo |-> n, texts |-> <<>>]
    BY NumberedIs
  <2>2. ParagraphHeld(<<>>) = Run(n, n)
    BY NoSentences, RunOfNone, Zenon
  <2> QED BY <2>1, <2>2
<1>2. ASSUME NEW u \in T, NEW length \in Lengths PROVE Append(u, length) \in T
  <2> DEFINE p == Numbered(u, n)
             m == Len(Cuts(length))
  <2>1. u \in Seq(Lengths) /\ Append(u, length) \in Seq(Lengths) /\ Holds(p)
    OBVIOUS
  <2>2. p \in Numbering /\ Numbered(Append(u, length), n) = NumberedMore(p, length)
    BY <2>1, NumberedIs
  <2> HIDE DEF p
  <2>3. p.upTo \in Nat /\ p.texts \in Seq(Sentences) /\ p.texts \in Seq(Seq(Some))
    BY <2>2, Wider DEF Numbering
  <2>4. m \in Nat
    BY CutsFit
  <2>5. /\ Pieces(length, p.upTo) \in Sentences /\ Pieces(length, p.upTo) \in Seq(Some)
        /\ Held(Pieces(length, p.upTo)) = Run(p.upTo, p.upTo + m)
    BY <2>3, PiecesHold, Wider
  <2> HIDE DEF m
  <2>6. ParagraphHeld(Append(p.texts, Pieces(length, p.upTo)))
          = Run(n, p.upTo) \o Run(p.upTo, p.upTo + m)
    BY <2>1, <2>3, <2>5, MoreSentences
  <2>7. p.upTo + m \in Nat /\ n <= p.upTo /\ p.upTo <= p.upTo + m /\ n <= p.upTo + m
    BY <2>1, <2>3, <2>4
  <2>8. Run(n, p.upTo) \o Run(p.upTo, p.upTo + m) = Run(n, p.upTo + m)
    BY <2>3, <2>7, RunsMeet
  <2>9. /\ NumberedMore(p, length).upTo = p.upTo + m
        /\ NumberedMore(p, length).texts = Append(p.texts, Pieces(length, p.upTo))
    BY <2>2, NumberedMoreIs DEF m
  <2>10. Holds(NumberedMore(p, length))
    BY <2>6, <2>7, <2>8, <2>9
  <2> HIDE DEF Holds
  <2> QED BY <2>1, <2>2, <2>10
<1> HIDE DEF T
<1>3. T = Seq(Lengths)
  <2>1. T \in SUBSET Seq(Lengths)
    BY DEF T
  <2> QED BY <1>1, <1>2, <2>1, AllSequences
<1>4. Holds(Numbered(sentences, n))
  <2> HIDE DEF Holds
  <2> QED BY <1>3 DEF T
<1>5. Numbered(sentences, n) \in Numbering
  BY NumberedIs
<1> QED BY <1>4, <1>5

\* The paragraphs of a block too.
Blocks == [upTo : Nat, texts : Seq(Seq(Sentences))]
BlockMore(b, sentences) ==
  LET p == Numbered(sentences, b.upTo) IN [upTo |-> p.upTo, texts |-> Append(b.texts, p.texts)]

LEMMA BlockMoreIs ==
  ASSUME NEW b \in Blocks, NEW sentences \in Seq(Lengths)
  PROVE  /\ BlockMore(b, sentences) \in Blocks
         /\ BlockMore(b, sentences).upTo = Numbered(sentences, b.upTo).upTo
         /\ BlockMore(b, sentences).texts = Append(b.texts, Numbered(sentences, b.upTo).texts)
<1> DEFINE p == Numbered(sentences, b.upTo)
<1>1. b.upTo \in Nat /\ b.texts \in Seq(Seq(Sentences))
  BY DEF Blocks
<1>2. p \in Numbering
  BY <1>1, NumberedIs
<1> HIDE DEF p
<1>3. p.upTo \in Nat /\ p.texts \in Seq(Sentences)
  BY <1>2 DEF Numbering
<1>4. Append(b.texts, p.texts) \in Seq(Seq(Sentences))
  BY <1>1, <1>3
<1> QED BY <1>3, <1>4 DEF BlockMore, Blocks, p

LEMMA ParagraphsIs ==
  ASSUME Len(document) \in Nat
  PROVE  /\ Paragraphs(<<>>) = [upTo |-> Len(document), texts |-> <<>>]
         /\ \A body \in Seq(Seq(Lengths)) : Paragraphs(body) \in Blocks
         /\ \A body \in Seq(Seq(Lengths)), sentences \in Seq(Lengths) :
              Paragraphs(Append(body, sentences)) = BlockMore(Paragraphs(body), sentences)
<1> DEFINE base == [upTo |-> Len(document), texts |-> <<>>]
           step == [x \in Blocks \X Seq(Lengths) |-> BlockMore(x[1], x[2])]
           Value(f, list, T) == IF T = {} THEN base ELSE BlockMore(f[T \ {Max(T)}], list[Max(T)])
           Fold(f, list) == f = [T \in SUBSET (1 .. Len(list)) |-> Value(f, list, T)]
           Chosen(list) == CHOOSE f : Fold(f, list)
<1>1. base \in Blocks
  BY DEF Blocks
<1>2. step \in [Blocks \X Seq(Lengths) -> Blocks]
  BY BlockMoreIs
<1>3. \A b \in Blocks, sentences \in Seq(Lengths) : step[b, sentences] = BlockMore(b, sentences)
  OBVIOUS
<1>4. \A list \in Seq(Seq(Lengths)) : Paragraphs(list) = Chosen(list)[1 .. Len(list)]
  <2> TAKE list \in Seq(Seq(Lengths))
  <2>1. DOMAIN list = 1 .. Len(list)
    OBVIOUS
  <2> QED BY <2>1 DEF Paragraphs, BlockMore, FoldLeft, MapThenFoldSet
<1> HIDE DEF base, step
<1>5. ASSUME NEW list \in Seq(Seq(Lengths)) PROVE Folding(Chosen(list), list, Blocks, base, step)
  <2>1. PICK f \in [SUBSET (1 .. Len(list)) -> Blocks] : FoldedBy(f, list, Blocks, base, step)
    BY <1>1, <1>2, FoldOf
  <2>2. \A i \in 1 .. Len(list) : list[i] \in Seq(Lengths)
    OBVIOUS
  <2>3. \A T \in SUBSET (1 .. Len(list)) : f[T] = Value(f, list, T)
    BY <1>3, <2>1, <2>2 DEF FoldedBy
  <2>4. Fold(f, list)
    <3> HIDE DEF Value
    <3> QED BY <2>1, <2>3
  <2> HIDE DEF Fold
  <2>5. Fold(Chosen(list), list)
    BY <2>4
  <2> HIDE DEF Chosen
  <2>6. \A T \in SUBSET (1 .. Len(list)) : Chosen(list)[T] = Value(Chosen(list), list, T)
    <3> HIDE DEF Value
    <3> QED BY <2>5 DEF Fold
  <2>7. \A T \in SUBSET (1 .. Len(list)) : T # {} => Max(T) \in 1 .. Len(list)
    BY <2>1 DEF FoldedBy
  <2> QED BY <1>3, <2>2, <2>6, <2>7 DEF Folding
<1> HIDE DEF Chosen
<1>6. ASSUME NEW list \in Seq(Seq(Lengths)), NEW x \in Seq(Lengths)
      PROVE  /\ Paragraphs(list) \in Blocks
             /\ Paragraphs(Append(list, x)) = BlockMore(Paragraphs(list), x)
  <2>1. Append(list, x) \in Seq(Seq(Lengths))
    OBVIOUS
  <2>2. Folding(Chosen(list), list, Blocks, base, step)
        /\ Folding(Chosen(Append(list, x)), Append(list, x), Blocks, base, step)
    BY <1>5, <2>1
  <2>3. TakesLast(Chosen(list), Chosen(Append(list, x)), list, x, Blocks, step)
    BY <1>1, <1>2, <2>2, LastElement
  <2>4. Paragraphs(list) = Chosen(list)[1 .. Len(list)]
        /\ Paragraphs(Append(list, x)) = Chosen(Append(list, x))[1 .. Len(Append(list, x))]
    BY <1>4, <2>1
  <2> QED BY <1>3, <2>3, <2>4 DEF TakesLast
<1>7. Paragraphs(<<>>) = base
  <2>1. <<>> \in Seq(Seq(Lengths)) /\ Len(<<>>) = 0 /\ 1 .. 0 = {} /\ {} \in SUBSET (1 .. 0)
    OBVIOUS
  <2>2. Chosen(<<>>)[{}] = base
    BY <1>5, <2>1 DEF Folding
  <2> QED BY <1>4, <2>1, <2>2
<1>8. <<>> \in Seq(Lengths)
  OBVIOUS
<1> QED BY <1>6, <1>7, <1>8 DEF base

LEMMA BlockHolds ==
  ASSUME Len(document) \in Nat, NEW body \in Seq(Seq(Lengths))
  PROVE  /\ Paragraphs(body) \in Blocks /\ Len(document) <= Paragraphs(body).upTo
         /\ BlockHeld(Paragraphs(body).texts) = Run(Len(document), Paragraphs(body).upTo)
<1> DEFINE n == Len(document)
           Holds(b) == n <= b.upTo /\ BlockHeld(b.texts) = Run(n, b.upTo)
           T == {u \in Seq(Seq(Lengths)) : Holds(Paragraphs(u))}
<1>0. n \in Nat
  OBVIOUS
<1>1. <<>> \in T
  <2>1. <<>> \in Seq(Seq(Lengths)) /\ Paragraphs(<<>>) = [upTo |-> n, texts |-> <<>>]
    BY ParagraphsIs
  <2> HIDE DEF n
  <2>2. BlockHeld(<<>>) = Run(n, n)
    <3>1. n <= n
      BY <1>0
    <3>2. Run(n, n) = <<>>
      BY <1>0, <3>1, RunsMeet
    <3> QED BY <3>2, NoSentences
  <2> QED BY <1>0, <2>1, <2>2
<1>2. ASSUME NEW u \in T, NEW sentences \in Seq(Lengths) PROVE Append(u, sentences) \in T
  <2> DEFINE b == Paragraphs(u)
             p == Numbered(sentences, b.upTo)
  <2>1. u \in Seq(Seq(Lengths)) /\ Append(u, sentences) \in Seq(Seq(Lengths)) /\ Holds(b)
    OBVIOUS
  <2>2. b \in Blocks /\ Paragraphs(Append(u, sentences)) = BlockMore(b, sentences)
    BY <2>1, ParagraphsIs
  <2> HIDE DEF b, n
  <2>3. b.upTo \in Nat /\ b.texts \in Seq(Seq(Sentences))
    BY <2>2 DEF Blocks
  <2>4. /\ p \in Numbering /\ b.upTo <= p.upTo
        /\ ParagraphHeld(p.texts) = Run(b.upTo, p.upTo)
    BY <2>3, NumberedHolds
  <2> HIDE DEF p
  <2>5. p.upTo \in Nat /\ p.texts \in Seq(Seq(Some))
    BY <2>4, Wider DEF Numbering
  <2>6. b.texts \in Seq(Seq(Seq(Some)))
    BY <2>3, Wider
  <2>7. BlockHeld(Append(b.texts, p.texts)) = Run(n, b.upTo) \o Run(b.upTo, p.upTo)
    BY <2>1, <2>4, <2>5, <2>6, MoreParagraphs
  <2>8. n <= b.upTo /\ n <= p.upTo
    BY <1>0, <2>1, <2>3, <2>4, <2>5
  <2>9. Run(n, b.upTo) \o Run(b.upTo, p.upTo) = Run(n, p.upTo)
    BY <1>0, <2>3, <2>4, <2>5, <2>8, RunsMeet
  <2>10. /\ BlockMore(b, sentences).upTo = p.upTo
         /\ BlockMore(b, sentences).texts = Append(b.texts, p.texts)
    BY <2>2, BlockMoreIs DEF p
  <2>11. Holds(BlockMore(b, sentences))
    BY <2>7, <2>8, <2>9, <2>10
  <2> HIDE DEF Holds
  <2> QED BY <2>1, <2>2, <2>11
<1> HIDE DEF T
<1>3. T = Seq(Seq(Lengths))
  <2>1. T \in SUBSET Seq(Seq(Lengths))
    BY DEF T
  <2> QED BY <1>1, <1>2, <2>1, AllSequences
<1>4. Holds(Paragraphs(body))
  <2> HIDE DEF Holds
  <2> QED BY <1>3 DEF T
<1>5. Paragraphs(body) \in Blocks
  BY ParagraphsIs
<1> QED BY <1>4, <1>5

-------------------------------------------------------------------------------
(* What a block is expanded to *)

Splitting == [done : Seq(Short), current : Short]
SplitMore(split, cuts) ==
  LET candidate == Join(split.current, Sentence(cuts), Space) IN
  IF candidate.len <= Size
  THEN [split EXCEPT !.current = candidate]
  ELSE [done |-> split.done \o Present(split.current) \o Front(cuts), current |-> Last(cuts)]

LEMMA FrontLast ==
  ASSUME NEW cuts \in Sentences
  PROVE  Front(cuts) \in Seq(Short) /\ Last(cuts) \in Short /\ cuts = Append(Front(cuts), Last(cuts))
<1> DEFINE n == Len(cuts)
           front == [i \in 1 .. n - 1 |-> cuts[i]]
<1>1. cuts \in Seq(Short) /\ cuts # <<>> /\ n \in Nat /\ \A i \in 1 .. n : cuts[i] \in Short
  BY DEF Sentences
<1>2. n # 0
  BY <1>1
<1>3. n - 1 \in Nat /\ (n - 1) + 1 = n /\ n \in 1 .. n /\ \A i \in 1 .. n - 1 : i \in 1 .. n
  BY <1>1, <1>2
<1>4. Front(cuts) = front
  BY <1>3 DEF Front
<1>5. front \in [1 .. n - 1 -> Short]
  BY <1>1, <1>3
<1>6. \A i \in 1 .. n - 1 : cuts[i] = front[i]
  OBVIOUS
<1> HIDE DEF front
<1>7. front \in Seq(Short) /\ Len(front) = n - 1
  BY <1>3, <1>5, AList
<1>8. cuts[n] \in Short /\ cuts = Append(front, cuts[n])
  BY <1>1, <1>3, <1>6, <1>7, LongerByOne
<1> QED BY <1>4, <1>7, <1>8 DEF Last

LEMMA PresentHolds ==
  ASSUME NEW text \in Short
  PROVE  Present(text) \in Seq(Short) /\ Present(text) \in Seq(Some) /\ Held(Present(text)) = text.own
<1>1. CASE text = Nothing
  <2>1. Present(text) = <<>> /\ <<>> \in Seq(Short) /\ <<>> \in Seq(Some)
    BY <1>1 DEF Present
  <2> QED BY <1>1, <2>1, JoinTypes, HeldIs
<1>2. CASE text # Nothing
  <2>1. Present(text) = <<text>> /\ text \in Some
    BY <1>2 DEF Present, Short
  <2>2. Present(text) \in Seq(Short) /\ Present(text) \in Seq(Some)
    BY <2>1
  <2> QED BY <2>1, <2>2, HeldIs
<1> QED BY <1>1, <1>2

LEMMA SplitMoreIs ==
  ASSUME NEW split \in Splitting, NEW cuts \in Sentences
  PROVE  /\ SplitMore(split, cuts) \in Splitting
         /\ Held(SplitMore(split, cuts).done) \o SplitMore(split, cuts).current.own
              = (Held(split.done) \o split.current.own) \o Held(cuts)
<1> DEFINE candidate == Join(split.current, Sentence(cuts), Space)
           next == SplitMore(split, cuts)
<1>1. /\ split.done \in Seq(Short) /\ split.current \in Short
      /\ split.done \in Seq(Some) /\ split.current \in Some
      /\ cuts \in Seq(Short) /\ cuts \in Seq(Some)
  BY Wider DEF Splitting, Short, Sentences
<1>2. Held(split.done) \in Seq(Nat) /\ split.current.own \in Seq(Nat) /\ Held(cuts) \in Seq(Nat)
  BY <1>1, HeldIs DEF Some
<1>3. CASE candidate.len <= Size
  <2>1. candidate \in Some /\ candidate.own = split.current.own \o Held(cuts)
    <3>1. Sentence(cuts) \in Some /\ Sentence(cuts).own = Held(cuts)
      BY <1>1, SentenceHolds
    <3>2. Space \in Nat
      BY Gaps
    <3>3. \A b \in Some : /\ Join(split.current, b, Space) \in Some
                          /\ Join(split.current, b, Space).own = split.current.own \o b.own
      BY <1>1, <3>2, JoinTypes, Zenon
    <3> QED BY <3>1, <3>3, Zenon
  <2>2. candidate \in Short
    BY <1>3, <2>1 DEF Short
  <2>3. next = [split EXCEPT !.current = candidate]
    BY <1>3 DEF SplitMore
  <2> HIDE DEF candidate, next
  <2>4. next \in Splitting /\ next.done = split.done /\ next.current = candidate
    BY <2>2, <2>3 DEF Splitting
  <2>5. Held(split.done) \o (split.current.own \o Held(cuts))
          = (Held(split.done) \o split.current.own) \o Held(cuts)
    <3>1. Associates(Held(split.done), split.current.own, Held(cuts))
      BY <1>2, Associative, Zenon
    <3> QED BY <3>1, Zenon DEF Associates
  <2> QED BY <2>1, <2>4, <2>5 DEF next
<1>4. CASE ~(candidate.len <= Size)
  <2> DEFINE there == Present(split.current)
  <2>1. next = [done |-> split.done \o there \o Front(cuts), current |-> Last(cuts)]
    BY <1>4 DEF SplitMore
  <2>2. there \in Seq(Short) /\ there \in Seq(Some) /\ Held(there) = split.current.own
    BY <1>1, PresentHolds
  <2>3. /\ Front(cuts) \in Seq(Short) /\ Last(cuts) \in Short
        /\ cuts = Append(Front(cuts), Last(cuts))
    BY FrontLast
  <2>4. Front(cuts) \in Seq(Some) /\ Last(cuts) \in Some
    BY <2>3, Wider DEF Short
  <2>5. Held(cuts) = Held(Front(cuts)) \o Last(cuts).own
    BY <2>3, <2>4, HeldIs
  <2> HIDE DEF there, next
  <2>6. next \in Splitting /\ next.current = Last(cuts)
        /\ next.done = (split.done \o there) \o Front(cuts)
    <3>1. (split.done \o there) \o Front(cuts) \in Seq(Short)
      <4>1. split.done \o there \in Seq(Short)
        BY <1>1, <2>2, ConcatProperties
      <4> QED BY <2>3, <4>1, ConcatProperties
    <3> QED BY <2>1, <2>3, <3>1 DEF Splitting
  <2>7. split.done \o there \in Seq(Some)
    BY <1>1, <2>2, ConcatProperties
  <2>8. Held(next.done) = (Held(split.done) \o split.current.own) \o Held(Front(cuts))
    <3>1. Held((split.done \o there) \o Front(cuts))
            = Held(split.done \o there) \o Held(Front(cuts))
      BY <2>4, <2>7, HeldIs
    <3>2. Held(split.done \o there) = Held(split.done) \o Held(there)
      BY <1>1, <2>2, HeldIs
    <3> QED BY <2>2, <2>6, <3>1, <3>2
  <2> DEFINE a == Held(split.done) \o split.current.own
             b == Held(Front(cuts))
             c == Last(cuts).own
  <2>9. a \in Seq(Nat) /\ b \in Seq(Nat) /\ c \in Seq(Nat)
    <3>1. a \in Seq(Nat)
      BY <1>2, ConcatProperties
    <3>2. b \in Seq(Nat) /\ c \in Seq(Nat)
      BY <2>4, HeldIs DEF Some
    <3> QED BY <3>1, <3>2
  <2>10. Held(next.done) \o next.current.own = (a \o b) \o c
    BY <2>6, <2>8
  <2>11. a \o Held(cuts) = a \o (b \o c)
    BY <2>5
  <2> HIDE DEF a, b, c
  <2>12. (a \o b) \o c = a \o (b \o c)
    <3>1. Associates(a, b, c)
      BY <2>9, Associative, Zenon
    <3> QED BY <3>1, Zenon DEF Associates
  <2>13. Held(next.done) \o next.current.own = a \o Held(cuts)
    BY <2>10, <2>11, <2>12
  <2> QED BY <2>6, <2>13 DEF a, next
<1> QED BY <1>3, <1>4

\* Split, from left to right; what is gathered last ends the parts.
LEMMA SplitIs ==
  \E splits \in [Seq(Sentences) -> Splitting] :
    /\ splits[<<>>] = [done |-> <<>>, current |-> Nothing]
    /\ \A list \in Seq(Sentences) :
         SplitOversized(list) = splits[list].done \o Present(splits[list].current)
    /\ \A list \in Seq(Sentences), cuts \in Sentences :
         splits[Append(list, cuts)] = SplitMore(splits[list], cuts)
<1> DEFINE base == [done |-> <<>>, current |-> Nothing]
           step == [x \in Splitting \X Sentences |-> SplitMore(x[1], x[2])]
           Value(f, list, T) == IF T = {} THEN base ELSE SplitMore(f[T \ {Max(T)}], list[Max(T)])
           Fold(f, list) == f = [T \in SUBSET (1 .. Len(list)) |-> Value(f, list, T)]
           Chosen(list) == CHOOSE f : Fold(f, list)
           splits == [list \in Seq(Sentences) |-> Chosen(list)[1 .. Len(list)]]
<1>1. base \in Splitting
  <2>1. Nothing \in Short
    BY JoinTypes, ChunkingAssumption DEF Short
  <2> QED BY <2>1 DEF Splitting
<1>2. step \in [Splitting \X Sentences -> Splitting]
  BY SplitMoreIs
<1>3. \A split \in Splitting, cuts \in Sentences : step[split, cuts] = SplitMore(split, cuts)
  OBVIOUS
<1>4. \A list \in Seq(Sentences) :
        SplitOversized(list) = Chosen(list)[1 .. Len(list)].done
                                 \o Present(Chosen(list)[1 .. Len(list)].current)
  <2> TAKE list \in Seq(Sentences)
  <2>1. DOMAIN list = 1 .. Len(list)
    OBVIOUS
  <2> QED BY <2>1 DEF SplitOversized, SplitMore, FoldLeft, MapThenFoldSet
<1> HIDE DEF base, step
<1>5. ASSUME NEW list \in Seq(Sentences) PROVE Folding(Chosen(list), list, Splitting, base, step)
  <2>1. PICK f \in [SUBSET (1 .. Len(list)) -> Splitting] : FoldedBy(f, list, Splitting, base, step)
    BY <1>1, <1>2, FoldOf
  <2>2. \A i \in 1 .. Len(list) : list[i] \in Sentences
    OBVIOUS
  <2>3. \A T \in SUBSET (1 .. Len(list)) : f[T] = Value(f, list, T)
    BY <1>3, <2>1, <2>2 DEF FoldedBy
  <2>4. Fold(f, list)
    <3> HIDE DEF Value
    <3> QED BY <2>1, <2>3
  <2> HIDE DEF Fold
  <2>5. Fold(Chosen(list), list)
    BY <2>4
  <2> HIDE DEF Chosen
  <2>6. \A T \in SUBSET (1 .. Len(list)) : Chosen(list)[T] = Value(Chosen(list), list, T)
    <3> HIDE DEF Value
    <3> QED BY <2>5 DEF Fold
  <2>7. \A T \in SUBSET (1 .. Len(list)) : T # {} => Max(T) \in 1 .. Len(list)
    BY <2>1 DEF FoldedBy
  <2> QED BY <1>3, <2>2, <2>6, <2>7 DEF Folding
<1> HIDE DEF Chosen
<1>6. ASSUME NEW list \in Seq(Sentences), NEW x \in Sentences
      PROVE  /\ splits[list] \in Splitting
             /\ splits[Append(list, x)] = SplitMore(splits[list], x)
  <2>1. Append(list, x) \in Seq(Sentences)
    OBVIOUS
  <2>2. Folding(Chosen(list), list, Splitting, base, step)
        /\ Folding(Chosen(Append(list, x)), Append(list, x), Splitting, base, step)
    BY <1>5, <2>1
  <2>3. TakesLast(Chosen(list), Chosen(Append(list, x)), list, x, Splitting, step)
    BY <1>1, <1>2, <2>2, LastElement
  <2>4. splits[list] = Chosen(list)[1 .. Len(list)]
        /\ splits[Append(list, x)] = Chosen(Append(list, x))[1 .. Len(Append(list, x))]
    BY <2>1
  <2> QED BY <1>3, <2>3, <2>4 DEF TakesLast
<1>7. splits[<<>>] = base
  <2>1. <<>> \in Seq(Sentences) /\ Len(<<>>) = 0 /\ 1 .. 0 = {} /\ {} \in SUBSET (1 .. 0)
    OBVIOUS
  <2>2. Chosen(<<>>)[{}] = base
    BY <1>5, <2>1 DEF Folding
  <2> QED BY <2>1, <2>2
<1>8. \A list \in Seq(Sentences) : splits[list] \in Splitting
  <2>1. Sentences # {}
    <3>1. Nothing \in Short
      BY JoinTypes, ChunkingAssumption DEF Short
    <3>2. <<Nothing>> \in Seq(Short) /\ <<Nothing>> # <<>>
      BY <3>1
    <3> QED BY <3>2 DEF Sentences
  <2> HIDE DEF splits
  <2> QED BY <1>6, <2>1
<1>9. \A list \in Seq(Sentences) :
        SplitOversized(list) = splits[list].done \o Present(splits[list].current)
  BY <1>4
<1>10. splits \in [Seq(Sentences) -> Splitting]
  BY <1>8
<1> HIDE DEF splits
<1> QED BY <1>6, <1>7, <1>9, <1>10 DEF base

LEMMA SplitHolds ==
  ASSUME NEW sentences \in Seq(Sentences)
  PROVE  /\ SplitOversized(sentences) \in Seq(Short)
         /\ Held(SplitOversized(sentences)) = ParagraphHeld(sentences)
<1>1. PICK splits \in [Seq(Sentences) -> Splitting] :
        /\ splits[<<>>] = [done |-> <<>>, current |-> Nothing]
        /\ \A list \in Seq(Sentences) :
             SplitOversized(list) = splits[list].done \o Present(splits[list].current)
        /\ \A list \in Seq(Sentences), cuts \in Sentences :
             splits[Append(list, cuts)] = SplitMore(splits[list], cuts)
  BY SplitIs
<1> DEFINE So(split) == Held(split.done) \o split.current.own
           T == {u \in Seq(Sentences) : So(splits[u]) = ParagraphHeld(u)}
<1>2. <<>> \in T
  <2>1. <<>> \in Seq(Sentences)
    OBVIOUS
  <2>2. splits[<<>>].done = <<>> /\ splits[<<>>].current = Nothing
    BY <1>1
  <2>3. So(splits[<<>>]) = <<>> \o <<>>
    BY <2>2, HeldIs, JoinTypes
  <2>4. <<>> \o <<>> = <<>>
    BY <2>1, ConcatEmptySeq
  <2> QED BY <2>1, <2>3, <2>4, NoSentences
<1>3. ASSUME NEW u \in T, NEW cuts \in Sentences PROVE Append(u, cuts) \in T
  <2>0. u \in Seq(Sentences) /\ So(splits[u]) = ParagraphHeld(u)
    <3> HIDE DEF So
    <3> QED OBVIOUS
  <2>1. u \in Seq(Sentences) /\ Append(u, cuts) \in Seq(Sentences) /\ So(splits[u]) = ParagraphHeld(u)
    <3>1. Append(u, cuts) \in Seq(Sentences)
      <4> HIDE DEF T, So
      <4> QED BY <2>0
    <3> HIDE DEF So
    <3> QED BY <2>0, <3>1
  <2>2. splits[u] \in Splitting /\ splits[Append(u, cuts)] = SplitMore(splits[u], cuts)
    BY <1>1, <2>1
  <2>3. So(SplitMore(splits[u], cuts)) = So(splits[u]) \o Held(cuts)
    BY <2>2, SplitMoreIs
  <2> HIDE DEF So, T
  <2>4. u \in Seq(Seq(Some)) /\ cuts \in Seq(Some)
    BY <2>1, Wider
  <2>5. ParagraphHeld(Append(u, cuts)) = ParagraphHeld(u) \o Held(cuts)
    BY <2>4, MoreSentences
  <2> QED BY <2>1, <2>2, <2>3, <2>5 DEF T
<1> HIDE DEF T
<1>4. T = Seq(Sentences)
  <2>1. T \in SUBSET Seq(Sentences)
    BY DEF T
  <2> QED BY <1>2, <1>3, <2>1, AllSequences
<1>5. So(splits[sentences]) = ParagraphHeld(sentences)
  BY <1>4 DEF T
<1> DEFINE split == splits[sentences]
<1>6. /\ split \in Splitting
      /\ SplitOversized(sentences) = split.done \o Present(split.current)
  BY <1>1
<1> HIDE DEF split
<1>7. /\ split.done \in Seq(Short) /\ split.done \in Seq(Some) /\ split.current \in Short
  BY <1>6, Wider DEF Splitting
<1>8. /\ Present(split.current) \in Seq(Short) /\ Present(split.current) \in Seq(Some)
      /\ Held(Present(split.current)) = split.current.own
  BY <1>7, PresentHolds
<1>9. split.done \o Present(split.current) \in Seq(Short)
  BY <1>7, <1>8, ConcatProperties
<1>10. Held(split.done \o Present(split.current)) = Held(split.done) \o split.current.own
  BY <1>7, <1>8, HeldIs
<1> QED BY <1>5, <1>6, <1>9, <1>10 DEF split

\* Lists of texts in a row hold what the lists hold.
LEMMA HeldFlat ==
  ASSUME NEW lists \in Seq(Seq(Some))
  PROVE  Held(FlattenSeq(lists)) = ParagraphHeld(lists)
<1> DEFINE T == {u \in Seq(Seq(Some)) : Held(FlattenSeq(u)) = ParagraphHeld(u)}
<1>1. <<>> \in T
  <2>1. <<>> \in Seq(Seq(Some)) /\ FlattenSeq(<<>>) = <<>>
    BY FlattenIs
  <2> QED BY <2>1, HeldIs, NoSentences
<1>2. ASSUME NEW u \in T, NEW x \in Seq(Some) PROVE Append(u, x) \in T
  <2>1. /\ u \in Seq(Seq(Some)) /\ Append(u, x) \in Seq(Seq(Some))
        /\ Held(FlattenSeq(u)) = ParagraphHeld(u)
    OBVIOUS
  <2>2. FlattenSeq(Append(u, x)) = FlattenSeq(u) \o x /\ FlattenSeq(u) \in Seq(Some)
    BY <2>1, FlattenIs
  <2>3. Held(FlattenSeq(u) \o x) = Held(FlattenSeq(u)) \o Held(x)
    BY <2>2, HeldIs
  <2>4. ParagraphHeld(Append(u, x)) = ParagraphHeld(u) \o Held(x)
    BY <2>1, MoreSentences
  <2> QED BY <2>1, <2>2, <2>3, <2>4
<1> HIDE DEF T
<1>3. T = Seq(Seq(Some))
  <2>1. T \in SUBSET Seq(Seq(Some))
    BY DEF T
  <2> QED BY <1>1, <1>2, <2>1, AllSequences
<1> QED BY <1>3 DEF T

LEMMA ExpandedHolds ==
  ASSUME NEW paragraphs \in Seq(Seq(Sentences))
  PROVE  /\ Expanded(paragraphs) \in Seq(Short)
         /\ Held(Expanded(paragraphs)) = BlockHeld(paragraphs)
<1> DEFINE Parts(sentences) ==
             IF Paragraph(sentences).len <= Size THEN <<Paragraph(sentences)>>
                                                 ELSE SplitOversized(sentences)
           lists == [p \in DOMAIN paragraphs |-> Parts(paragraphs[p])]
           n == Len(paragraphs)
<1>1. ASSUME NEW sentences \in Seq(Sentences)
      PROVE  Parts(sentences) \in Seq(Short) /\ Held(Parts(sentences)) = ParagraphHeld(sentences)
  <2>1. CASE Paragraph(sentences).len <= Size
    <3>1. Paragraph(sentences) \in Some /\ Paragraph(sentences).own = ParagraphHeld(sentences)
      BY Wider, ParagraphHolds
    <3>2. Paragraph(sentences) \in Short
      BY <2>1, <3>1 DEF Short
    <3>3. Held(<<Paragraph(sentences)>>) = ParagraphHeld(sentences)
      BY <3>1, HeldIs
    <3>4. <<Paragraph(sentences)>> \in Seq(Short)
      BY <3>2
    <3> QED BY <2>1, <3>3, <3>4
  <2>2. CASE ~(Paragraph(sentences).len <= Size)
    BY <2>2, SplitHolds
  <2> QED BY <2>1, <2>2
<1>2. Expanded(paragraphs) = FlattenSeq(lists)
  BY DEF Expanded
<1>3. n \in Nat /\ DOMAIN paragraphs = 1 .. n /\ \A p \in 1 .. n : paragraphs[p] \in Seq(Sentences)
  OBVIOUS
<1> HIDE DEF Parts, n
<1>4. /\ lists \in [1 .. n -> Seq(Short)]
      /\ \A p \in 1 .. n : Held(lists[p]) = ParagraphHeld(paragraphs[p])
  BY <1>1, <1>3
<1> HIDE DEF lists
<1>5. lists \in Seq(Seq(Short)) /\ DOMAIN lists = 1 .. n
  BY <1>3, <1>4, AList
<1>6. lists \in Seq(Seq(Some)) /\ \A p \in 1 .. n : lists[p] \in Seq(Some)
  BY <1>4, <1>5, Wider, SeqMonotonic
<1>7. FlattenSeq(lists) \in Seq(Short)
  BY <1>5, FlattenIs
<1>8. [p \in DOMAIN lists |-> HeldIn[lists[p]]] = [p \in DOMAIN paragraphs |-> HeldInThat[paragraphs[p]]]
  <2>1. \A p \in 1 .. n : HeldIn[lists[p]] = Held(lists[p])
    BY <1>6 DEF HeldIn
  <2>2. \A p \in 1 .. n : paragraphs[p] \in Seq(Seq(Some))
    BY <1>3, Wider
  <2>3. \A p \in 1 .. n : HeldInThat[paragraphs[p]] = ParagraphHeld(paragraphs[p])
    BY <2>2 DEF HeldInThat
  <2> QED BY <1>3, <1>4, <1>5, <2>1, <2>3
<1>9. ParagraphHeld(lists) = BlockHeld(paragraphs)
  BY <1>8 DEF ParagraphHeld, BlockHeld, Gathered
<1> QED BY <1>2, <1>6, <1>7, <1>9, HeldFlat

-------------------------------------------------------------------------------
(* The document and what holds it *)

ChunkKind == [own : Seq(Nat), len : Nat, heading : Nat, whole : BOOLEAN]
ChunkOwn == [chunk \in ChunkKind |-> chunk.own]
HeldBy(list) == Gathered(ChunkOwn, list)

\* What is not in a chunk yet.
Left(text, more, last) == text.own \o (Held(more) \o last.own)

\* These pieces are the document's, under that heading.
Under(own, under) == \A n \in Range(own) : n \in 1 .. Len(document) /\ document[n] = under
Cited(chunk) == Under(chunk.own, chunk.heading) /\ chunk.heading \in 0 .. read
AllCited(list) == \A i \in DOMAIN list : Cited(list[i])

ChunkTypes ==
  /\ stage \in {"reading", "packing", "chunked"}
  /\ read \in Nat /\ read <= MaxBlocks /\ heading \in Nat /\ heading <= read
  /\ pendingHeading = heading
  /\ pendingText \in Some /\ current \in Some /\ units \in Seq(Short)
  /\ chunks \in Seq(ChunkKind) /\ document \in Seq(Nat)

\* A block is packed with nothing gathered, and the other way around.
NeverBoth ==
  /\ stage # "packing" => units = <<>> /\ current = Nothing
  /\ stage = "packing" => pendingText = Nothing

AllThere == HeldBy(chunks) \o Left(current, units, pendingText) = Run(0, Len(document))

AllUnderHeadings ==
  /\ AllCited(chunks)
  /\ Under(Left(current, units, pendingText), heading)
  /\ \A n \in 1 .. Len(document) : document[n] <= read

KeptInv == ChunkTypes /\ NeverBoth /\ AllThere /\ AllUnderHeadings

LEMMA RangeOfBoth ==
  ASSUME NEW a \in Seq(Nat), NEW b \in Seq(Nat)
  PROVE  Range(a \o b) = Range(a) \cup Range(b) /\ Range(<<>>) = {}
<1> DEFINE m == Len(a)
           n == Len(b)
           s == a \o b
<1>1. /\ s \in Seq(Nat) /\ Len(s) = m + n
      /\ \A i \in 1 .. m + n : s[i] = IF i <= m THEN a[i] ELSE b[i - m]
  BY ConcatProperties
<1>2. /\ m \in Nat /\ n \in Nat /\ DOMAIN a = 1 .. m /\ DOMAIN b = 1 .. n
  OBVIOUS
<1> HIDE DEF s, m, n
<1>3. DOMAIN s = 1 .. m + n
  BY <1>1, <1>2
<1>4. Range(s) \subseteq Range(a) \cup Range(b)
  <2> SUFFICES ASSUME NEW i \in 1 .. m + n PROVE s[i] \in Range(a) \cup Range(b)
    BY <1>3 DEF Range
  <2>1. CASE i <= m
    <3>1. i \in 1 .. m /\ s[i] = a[i]
      BY <1>1, <1>2, <2>1
    <3> QED BY <1>2, <3>1 DEF Range
  <2>2. CASE ~(i <= m)
    <3>1. i - m \in 1 .. n /\ s[i] = b[i - m]
      BY <1>1, <1>2, <2>2
    <3> QED BY <1>2, <3>1 DEF Range
  <2> QED BY <2>1, <2>2
<1>5. Range(a) \subseteq Range(s)
  <2> SUFFICES ASSUME NEW i \in 1 .. m PROVE a[i] \in Range(s)
    BY <1>2 DEF Range
  <2>1. i \in 1 .. m + n /\ s[i] = a[i]
    BY <1>1, <1>2
  <2> QED BY <1>3, <2>1 DEF Range
<1>6. Range(b) \subseteq Range(s)
  <2> SUFFICES ASSUME NEW i \in 1 .. n PROVE b[i] \in Range(s)
    BY <1>2 DEF Range
  <2>1. m + i \in 1 .. m + n /\ (m + i) - m = i /\ ~(m + i <= m)
    BY <1>2
  <2>2. s[m + i] = b[i]
    BY <1>1, <2>1
  <2> QED BY <1>3, <2>1, <2>2 DEF Range
<1>7. Range(<<>>) = {}
  BY DEF Range
<1> QED BY <1>4, <1>5, <1>6, <1>7 DEF s

LEMMA BothUnder ==
  ASSUME NEW a \in Seq(Nat), NEW b \in Seq(Nat), NEW under
  PROVE  Under(a \o b, under) <=> Under(a, under) /\ Under(b, under)
BY RangeOfBoth DEF Under

LEMMA NoneUnder == \A under : Under(<<>>, under)
<1>1. <<>> \in Seq(Nat)
  OBVIOUS
<1> QED BY <1>1, RangeOfBoth DEF Under

LEMMA LeftIs ==
  ASSUME NEW text \in Some, NEW more \in Seq(Some), NEW last \in Some
  PROVE  /\ Left(text, more, last) \in Seq(Nat)
         /\ Left(Nothing, <<>>, last) = last.own
         /\ Left(text, more, Nothing) = text.own \o Held(more)
<1>1. text.own \in Seq(Nat) /\ last.own \in Seq(Nat) /\ Held(more) \in Seq(Nat)
  BY HeldIs DEF Some
<1>2. Held(more) \o last.own \in Seq(Nat)
  BY <1>1, ConcatProperties
<1>3. Left(text, more, last) \in Seq(Nat)
  BY <1>1, <1>2, ConcatProperties DEF Left
<1>4. Left(Nothing, <<>>, last) = last.own
  <2>1. <<>> \o last.own = last.own
    BY <1>1, ConcatEmptySeq
  <2> QED BY <2>1, HeldIs, JoinTypes DEF Left
<1>5. Left(text, more, Nothing) = text.own \o Held(more)
  <2>1. Held(more) \o <<>> = Held(more)
    BY <1>1, ConcatEmptySeq
  <2> QED BY <2>1, JoinTypes DEF Left
<1> QED BY <1>3, <1>4, <1>5

\* A chunk more.
LEMMA ChunkOwnIs == ChunkOwn \in [ChunkKind -> Seq(Nat)] /\ \A c \in ChunkKind : ChunkOwn[c] = c.own
BY DEF ChunkOwn, ChunkKind

LEMMA ChunkIs ==
  ASSUME NEW text \in Some, NEW under \in Nat, NEW whole \in BOOLEAN
  PROVE  /\ Chunk(text, under, whole) \in ChunkKind
         /\ Chunk(text, under, whole).own = text.own /\ Chunk(text, under, whole).heading = under
<1>1. text.own \in Seq(Nat) /\ text.len \in Nat
  BY DEF Some
<1> QED BY <1>1 DEF Chunk, ChunkKind

LEMMA OneMoreCited ==
  ASSUME NEW list \in Seq(ChunkKind), NEW c \in ChunkKind
  PROVE  /\ Append(list, c) \in Seq(ChunkKind)
         /\ AllCited(list) /\ Cited(c) => AllCited(Append(list, c))
         /\ AllCited(list)' /\ Cited(c)' => AllCited(Append(list, c))'
         /\ HeldBy(Append(list, c)) = HeldBy(list) \o c.own /\ HeldBy(list) \in Seq(Nat)
<1> DEFINE t == Append(list, c)
           n == Len(list)
<1>1. /\ t \in Seq(ChunkKind) /\ Len(t) = n + 1 /\ t[n + 1] = c
      /\ \A i \in 1 .. n : t[i] = list[i]
  BY OneLonger
<1>2. n \in Nat /\ DOMAIN t = 1 .. n + 1 /\ DOMAIN list = 1 .. n
  BY <1>1
<1>3. \A i \in 1 .. n + 1 : i \in 1 .. n \/ i = n + 1
  BY <1>2
<1> HIDE DEF t, n
<1>4. /\ AllCited(list) /\ Cited(c) => AllCited(t)
      /\ AllCited(list)' /\ Cited(c)' => AllCited(t)'
  BY <1>1, <1>2, <1>3 DEF AllCited
<1>5. Gathered(ChunkOwn, Append(list, c)) = Gathered(ChunkOwn, list) \o ChunkOwn[c]
      /\ Gathered(ChunkOwn, list) \in Seq(Nat)
  BY ChunkOwnIs, GatheredMore, GatheredIs
<1> QED BY <1>1, <1>4, <1>5, ChunkOwnIs DEF t, HeldBy

\* Between blocks what is not in a chunk is what is gathered; flush makes it one.
LEMMA FlushedHolds ==
  ASSUME KeptInv, stage # "packing"
  PROVE  /\ units = <<>> /\ current = Nothing
         /\ HeldBy(chunks) \o pendingText.own = Run(0, Len(document))
         /\ HeldBy(chunks) \in Seq(Nat) /\ pendingText.own \in Seq(Nat)
         /\ Under(pendingText.own, heading)
         /\ Flushed \in Seq(ChunkKind) /\ AllCited(Flushed)
         /\ HeldBy(Flushed) = Run(0, Len(document))
<1> DEFINE c == Chunk(pendingText, pendingHeading, FALSE)
<1>1. ChunkTypes /\ NeverBoth /\ AllThere /\ AllUnderHeadings
  BY DEF KeptInv
<1>2. units = <<>> /\ current = Nothing
  BY <1>1 DEF NeverBoth
<1>3. /\ pendingText \in Some /\ chunks \in Seq(ChunkKind) /\ pendingHeading = heading
      /\ heading \in Nat /\ heading \in 0 .. read /\ <<>> \in Seq(Some)
  BY <1>1 DEF ChunkTypes
<1>4. Left(current, units, pendingText) = pendingText.own
  BY <1>2, <1>3, JoinTypes, LeftIs
<1>5. /\ HeldBy(chunks) \o pendingText.own = Run(0, Len(document))
      /\ Under(pendingText.own, heading) /\ AllCited(chunks)
  BY <1>1, <1>4 DEF AllThere, AllUnderHeadings
<1>6. pendingText.own \in Seq(Nat) /\ HeldBy(chunks) \in Seq(Nat)
  <2>1. HeldBy(chunks) \in Seq(Nat)
    BY <1>3, ChunkOwnIs, GatheredIs DEF HeldBy
  <2> QED BY <1>3, <2>1 DEF Some
<1>7. c \in ChunkKind /\ c.own = pendingText.own /\ c.heading = heading
  BY <1>3, ChunkIs
<1>8. Cited(c)
  BY <1>3, <1>5, <1>7 DEF Cited
<1> HIDE DEF c
<1>9. /\ Append(chunks, c) \in Seq(ChunkKind) /\ AllCited(Append(chunks, c))
      /\ HeldBy(Append(chunks, c)) = HeldBy(chunks) \o c.own
  BY <1>3, <1>5, <1>7, <1>8, OneMoreCited
<1>10. CASE pendingText = Nothing
  <2>1. Flushed = chunks
    BY <1>10 DEF Flushed
  <2>2. pendingText.own = <<>>
    BY <1>10, JoinTypes
  <2>3. HeldBy(chunks) \o <<>> = HeldBy(chunks)
    BY <1>6, ConcatEmptySeq
  <2> QED BY <1>2, <1>3, <1>5, <1>6, <2>1, <2>2, <2>3
<1>11. CASE pendingText # Nothing
  <2>1. Flushed = Append(chunks, c)
    BY <1>11 DEF Flushed, c
  <2> QED BY <1>2, <1>3, <1>5, <1>6, <1>7, <1>9, <2>1
<1> QED BY <1>10, <1>11

\* The document grows by the block's pieces; what held some of it still does.
LEMMA Grown ==
  ASSUME KeptInv, NEW upTo \in Nat, Len(document) <= upTo, NEW under \in Nat, under <= read + 1,
         NextBlock(upTo, under), NEW from, from = Len(document)
  PROVE  /\ read' \in Nat /\ read' <= MaxBlocks /\ read' = read + 1 /\ heading' = under
         /\ document' \in Seq(Nat) /\ Len(document') = upTo
         /\ \A n \in 1 .. Len(document') : document'[n] <= read'
         /\ \A own, h : Under(own, h) => Under(own, h)'
         /\ \A list : AllCited(list) => AllCited(list)'
         /\ Under(Run(from, upTo), under)'
<1> DEFINE n == Len(document)
           new == [i \in 1 .. upTo - n |-> under]
<1>1. ChunkTypes /\ AllUnderHeadings
  BY DEF KeptInv
<1>2. /\ document \in Seq(Nat) /\ n \in Nat /\ read \in Nat
      /\ \A i \in 1 .. n : document[i] \in Nat /\ document[i] <= read
  BY <1>1 DEF ChunkTypes, AllUnderHeadings
<1>3. /\ read < MaxBlocks /\ read' = read + 1 /\ heading' = under
      /\ document' = document \o new
  BY DEF NextBlock
<1>4. read' \in Nat /\ read' <= MaxBlocks
  BY <1>2, <1>3, ChunkingAssumption
<1>5. upTo - n \in Nat /\ new \in [1 .. upTo - n -> Nat] /\ \A i \in 1 .. upTo - n : new[i] = under
  BY <1>2
<1> HIDE DEF n, new
<1>6. new \in Seq(Nat) /\ Len(new) = upTo - n
  BY <1>5, AList
<1>7. /\ document' \in Seq(Nat) /\ Len(document') = n + (upTo - n)
      /\ \A i \in 1 .. n + (upTo - n) : document'[i] = IF i <= n THEN document[i] ELSE new[i - n]
  <2>1. /\ document' \in Seq(Nat) /\ Len(document') = Len(document) + Len(new)
        /\ \A i \in 1 .. Len(document) + Len(new) :
             document'[i] = IF i <= Len(document) THEN document[i] ELSE new[i - Len(document)]
    BY <1>2, <1>3, <1>6, ConcatProperties
  <2> QED BY <1>6, <2>1 DEF n
<1>8. n + (upTo - n) = upTo /\ n <= upTo
  BY <1>2 DEF n
<1>9. /\ \A i \in 1 .. n : i \in 1 .. upTo /\ document'[i] = document[i]
      /\ \A i \in 1 .. upTo : i \in 1 .. n \/ (i > n /\ document'[i] = under)
  <2>1. \A i \in 1 .. upTo : i \in 1 .. n \/ (~(i <= n) /\ i - n \in 1 .. upTo - n)
    BY <1>2, <1>8
  <2>2. \A i \in 1 .. n : i \in 1 .. upTo /\ i <= n
    BY <1>2, <1>8
  <2>3. \A i \in 1 .. upTo : ~(i <= n) => i > n
    BY <1>2
  <2> QED BY <1>5, <1>7, <1>8, <2>1, <2>2, <2>3
<1>10. \A i \in 1 .. upTo : document'[i] <= read'
  <2>1. under <= read' /\ \A i \in 1 .. n : document[i] <= read'
    BY <1>2, <1>3
  <2> QED BY <1>9, <2>1
<1>11. Len(document') = upTo
  BY <1>7, <1>8
<1>12. ASSUME NEW own, NEW h, Under(own, h) PROVE Under(own, h)'
  BY <1>9, <1>11, <1>12 DEF Under, n
<1>13. ASSUME NEW list, AllCited(list) PROVE AllCited(list)'
  <2>1. SUFFICES ASSUME NEW i \in DOMAIN list PROVE Cited(list[i])'
    BY DEF AllCited
  <2>2. Under(list[i].own, list[i].heading) /\ list[i].heading \in 0 .. read
    BY <1>13, <2>1 DEF AllCited, Cited
  <2>3. Under(list[i].own, list[i].heading)'
    BY <1>12, <2>2
  <2>4. list[i].heading \in 0 .. read'
    BY <1>2, <1>3, <2>2
  <2> QED BY <2>3, <2>4 DEF Cited
<1>14. Under(Run(from, upTo), under)'
  <2> DEFINE r == Run(from, upTo)
  <2>1. \A m \in Range(r) : \E i \in 1 .. upTo - n : m = n + i
    BY DEF Run, Range, n
  <2>2. \A i \in 1 .. upTo - n : n + i \in 1 .. upTo /\ n + i \notin 1 .. n
    BY <1>2
  <2> HIDE DEF r
  <2>4. \A m \in Range(r) : m \in 1 .. upTo /\ document'[m] = under
    BY <1>9, <2>1, <2>2
  <2> QED BY <1>11, <2>4 DEF Under, r, Run
<1> QED BY <1>3, <1>4, <1>7, <1>10, <1>11, <1>12, <1>13, <1>14 DEF n

\* What a step leaves has to be shown of: its texts, and where they stand.
LEMMA StillKept ==
  ASSUME ChunkTypes', NeverBoth', NEW list, NEW rest, NEW upTo, NEW under,
         chunks' = list, Left(current', units', pendingText') = rest, Len(document') = upTo,
         heading' = under,
         HeldBy(list) \o rest = Run(0, upTo), AllCited(list)', Under(rest, under)',
         \A n \in 1 .. Len(document') : document'[n] <= read'
  PROVE  KeptInv'
<1>1. AllThere'
  BY DEF AllThere
<1>2. AllUnderHeadings'
  BY DEF AllUnderHeadings
<1> QED BY <1>1, <1>2 DEF KeptInv

LEMMA FromTheStart ==
  ASSUME NEW n \in Nat, NEW upTo \in Nat, n <= upTo
  PROVE  /\ Run(0, n) \in Seq(Nat) /\ Run(n, upTo) \in Seq(Nat)
         /\ Run(0, n) \o Run(n, upTo) = Run(0, upTo)
<1>1. 0 \in Nat /\ 0 <= n /\ upTo <= upTo
  OBVIOUS
<1> QED BY <1>1, RunsMeet

LEMMA HeadingKept == ASSUME KeptInv, HeadingBlock PROVE KeptInv'
<1> DEFINE n == Len(document)
<1>1. /\ stage = "reading" /\ NextBlock(n, read + 1) /\ stage' = stage /\ units' = units
      /\ chunks' = Flushed /\ pendingText' = Nothing /\ current' = current
      /\ pendingHeading' = read + 1
  BY DEF HeadingBlock, NextBlock
<1>2. /\ units = <<>> /\ current = Nothing
      /\ Flushed \in Seq(ChunkKind) /\ AllCited(Flushed) /\ HeldBy(Flushed) = Run(0, n)
  BY <1>1, FlushedHolds
<1>3. read \in Nat /\ document \in Seq(Nat) /\ n \in Nat /\ read + 1 \in Nat
  BY DEF KeptInv, ChunkTypes
<1>4. n <= n /\ read + 1 <= read + 1
  BY <1>3
<1>5. /\ read' \in Nat /\ read' <= MaxBlocks /\ read' = read + 1 /\ heading' = read + 1
      /\ document' \in Seq(Nat) /\ Len(document') = n
      /\ \A m \in 1 .. Len(document') : document'[m] <= read'
      /\ \A list : AllCited(list) => AllCited(list)'
      /\ \A own, h : Under(own, h) => Under(own, h)'
  BY <1>1, <1>3, <1>4, Grown
<1>6. Nothing \in Some /\ <<>> \in Seq(Some) /\ <<>> \in Seq(Short)
  BY JoinTypes
<1>7. ChunkTypes'
  BY <1>1, <1>2, <1>3, <1>5, <1>6 DEF ChunkTypes
<1>8. NeverBoth'
  BY <1>1, <1>2 DEF NeverBoth
<1>9. Left(current', units', pendingText') = <<>>
  BY <1>1, <1>2, <1>6, LeftIs, JoinTypes
<1>10. HeldBy(Flushed) \o <<>> = Run(0, n)
  <2>1. Run(0, n) \in Seq(Nat)
    BY <1>3, FromTheStart
  <2> QED BY <1>2, <2>1, ConcatEmptySeq
<1>11. \A list : list = Flushed => AllCited(list)'
  BY <1>2, <1>5
<1>12. \A h : Under(<<>>, h)'
  BY <1>5, NoneUnder
<1> HIDE DEF n
<1>13. PICK list : list = Flushed
  OBVIOUS
<1> QED BY <1>1, <1>5, <1>7, <1>8, <1>9, <1>10, <1>11, <1>12, <1>13, StillKept

LEMMA TableKept == ASSUME KeptInv, TableBlock PROVE KeptInv'
<1> DEFINE n == Len(document)
           table == [own |-> <<n + 1>>, len |-> 2 * Size]
           c == Chunk(table, heading, TRUE)
<1>1. /\ stage = "reading" /\ NextBlock(n + 1, heading) /\ stage' = stage /\ units' = units
      /\ chunks' = Append(Flushed, c) /\ pendingText' = Nothing /\ current' = current
      /\ pendingHeading' = pendingHeading
  BY DEF TableBlock, NextBlock
<1>2. /\ units = <<>> /\ current = Nothing
      /\ Flushed \in Seq(ChunkKind) /\ AllCited(Flushed) /\ HeldBy(Flushed) = Run(0, n)
  BY <1>1, FlushedHolds
<1>3. /\ read \in Nat /\ document \in Seq(Nat) /\ n \in Nat /\ n + 1 \in Nat
      /\ heading \in Nat /\ heading <= read /\ heading <= read + 1 /\ pendingHeading = heading
  BY DEF KeptInv, ChunkTypes
<1>4. n <= n + 1 /\ n <= n
  BY <1>3
<1>5. /\ read' \in Nat /\ read' <= MaxBlocks /\ read' = read + 1 /\ heading' = heading
      /\ document' \in Seq(Nat) /\ Len(document') = n + 1
      /\ \A m \in 1 .. Len(document') : document'[m] <= read'
      /\ \A list : AllCited(list) => AllCited(list)'
      /\ \A own, h : Under(own, h) => Under(own, h)'
  BY <1>1, <1>3, <1>4, Grown
<1>6. Nothing \in Some /\ <<>> \in Seq(Some) /\ <<>> \in Seq(Short)
  BY JoinTypes
<1>7. table.own = Run(n, n + 1) /\ table \in Some
  <2>1. Run(n, n + 1) = <<n + 1>>
    BY <1>3, <1>4, RunOfOne
  <2>2. 2 * Size \in Nat /\ <<n + 1>> \in Seq(Nat)
    BY <1>3, ChunkingAssumption
  <2> QED BY <2>1, <2>2 DEF Some
<1> HIDE DEF table
<1>8. c \in ChunkKind /\ c.own = Run(n, n + 1) /\ c.heading = heading
  BY <1>3, <1>7, ChunkIs
<1> HIDE DEF c, n
<1>9. PICK chunk, list, under, from : chunk = c /\ list = Flushed /\ under = heading /\ from = n
  OBVIOUS
<1>10. AllCited(list)' /\ Under(Run(from, from + 1), under)'
  <2>1. AllCited(list)'
    BY <1>2, <1>5, <1>9
  <2>2. Under(Run(from, from + 1), under)'
    BY <1>1, <1>3, <1>4, <1>9, Grown DEF n
  <2> QED BY <2>1, <2>2
<1>11. Cited(chunk)'
  <2>1. heading' \in 0 .. read' /\ chunk.heading = under /\ under = heading'
    BY <1>3, <1>5, <1>8, <1>9
  <2>2. Under(chunk.own, chunk.heading)'
    BY <1>8, <1>9, <1>10
  <2> QED BY <2>1, <2>2 DEF Cited
<1>12. /\ Append(list, chunk) \in Seq(ChunkKind) /\ AllCited(Append(list, chunk))'
       /\ HeldBy(Append(list, chunk)) = HeldBy(list) \o chunk.own
  BY <1>2, <1>8, <1>9, <1>10, <1>11, OneMoreCited
<1>13. ChunkTypes'
  BY <1>1, <1>2, <1>3, <1>5, <1>6, <1>9, <1>12 DEF ChunkTypes
<1>14. NeverBoth'
  BY <1>1, <1>2 DEF NeverBoth
<1>15. Left(current', units', pendingText') = <<>>
  BY <1>1, <1>2, <1>6, LeftIs, JoinTypes
<1>16. HeldBy(Append(list, chunk)) \o <<>> = Run(0, n + 1)
  <2>1. HeldBy(Append(list, chunk)) = Run(0, n + 1)
    BY <1>2, <1>3, <1>4, <1>8, <1>9, <1>12, FromTheStart
  <2>2. Run(0, n + 1) \in Seq(Nat)
    BY <1>3, FromTheStart
  <2> QED BY <2>1, <2>2, ConcatEmptySeq
<1>17. \A h : Under(<<>>, h)'
  BY <1>5, NoneUnder
<1> QED BY <1>1, <1>5, <1>9, <1>12, <1>13, <1>14, <1>15, <1>16, <1>17, StillKept

LEMMA BodiesAre == Bodies \subseteq Seq(Seq(Lengths))
<1> SUFFICES ASSUME NEW b \in Bodies PROVE b \in Seq(Seq(Lengths))
  OBVIOUS
<1>1. Texts \subseteq Seq(Lengths)
  <2> SUFFICES ASSUME NEW k \in 1 .. MaxSentences, NEW text \in [1 .. k -> Lengths]
               PROVE  text \in Seq(Lengths)
    BY DEF Texts
  <2>1. k \in Nat
    BY ChunkingAssumption
  <2> QED BY <2>1, AList
<1>2. PICK k \in 1 .. MaxSentences : b \in [1 .. k -> Texts]
  BY DEF Bodies
<1>3. k \in Nat
  BY <1>2, ChunkingAssumption
<1>4. b \in Seq(Texts)
  BY <1>2, <1>3, AList
<1> QED BY <1>1, <1>4, SeqMonotonic

LEMMA BlockRead ==
  ASSUME KeptInv, NEW body \in Bodies, NEW n, n = Len(document),
         NEW block, block = Paragraphs(body)
  PROVE  /\ n \in Nat /\ block.upTo \in Nat /\ n <= block.upTo
         /\ Whole(block.texts) \in Some /\ Whole(block.texts).own = Run(n, block.upTo)
         /\ Expanded(block.texts) \in Seq(Short) /\ Held(Expanded(block.texts)) = Run(n, block.upTo)
<1>1. document \in Seq(Nat) /\ n \in Nat
  BY DEF KeptInv, ChunkTypes
<1>2. body \in Seq(Seq(Lengths))
  BY BodiesAre
<1>3. /\ block \in Blocks /\ n <= block.upTo
      /\ BlockHeld(block.texts) = Run(n, block.upTo)
  BY <1>1, <1>2, BlockHolds
<1>4. block.upTo \in Nat /\ block.texts \in Seq(Seq(Sentences))
  BY <1>3 DEF Blocks
<1>5. block.texts \in Seq(Seq(Seq(Some)))
  BY <1>4, Wider
<1> QED BY <1>1, <1>3, <1>4, <1>5, WholeHolds, ExpandedHolds

LEMMA OversizedKept == ASSUME KeptInv, NEW body \in Bodies, OversizedBlock(body) PROVE KeptInv'
<1> DEFINE n == Len(document)
<1>1. PICK block, upTo : block = Paragraphs(body) /\ upTo = block.upTo
  OBVIOUS
<1>2. /\ stage = "reading" /\ NextBlock(upTo, heading) /\ stage' = "packing"
      /\ chunks' = Flushed /\ pendingText' = Nothing /\ current' = current
      /\ units' = Expanded(block.texts) /\ pendingHeading' = pendingHeading
  BY <1>1 DEF OversizedBlock, NextBlock
<1>3. /\ units = <<>> /\ current = Nothing
      /\ Flushed \in Seq(ChunkKind) /\ AllCited(Flushed) /\ HeldBy(Flushed) = Run(0, n)
  BY <1>2, FlushedHolds
<1>4. /\ read \in Nat /\ document \in Seq(Nat)
      /\ heading \in Nat /\ heading <= read /\ heading <= read + 1 /\ pendingHeading = heading
  BY DEF KeptInv, ChunkTypes
<1>5. PICK list, under, from : list = Flushed /\ under = heading /\ from = n
  OBVIOUS
<1>6. /\ from \in Nat /\ upTo \in Nat /\ from <= upTo /\ units' \in Seq(Short)
      /\ Held(units') = Run(from, upTo)
  BY <1>1, <1>2, <1>5, BlockRead
<1>7. /\ read' \in Nat /\ read' <= MaxBlocks /\ read' = read + 1 /\ heading' = heading
      /\ document' \in Seq(Nat) /\ Len(document') = upTo
      /\ \A m \in 1 .. Len(document') : document'[m] <= read'
      /\ \A cited : AllCited(cited) => AllCited(cited)'
      /\ Under(Run(from, upTo), under)'
  BY <1>2, <1>4, <1>5, <1>6, Grown
<1> HIDE DEF n
<1>8. AllCited(list)'
  BY <1>3, <1>5, <1>7
<1>9. Nothing \in Some
  BY JoinTypes
<1>10. ChunkTypes'
  BY <1>2, <1>3, <1>4, <1>6, <1>7, <1>9 DEF ChunkTypes
<1>11. NeverBoth'
  BY <1>2, <1>3 DEF NeverBoth
<1>12. Left(current', units', pendingText') = Run(from, upTo)
  <2>1. units' \in Seq(Some)
    BY <1>6, Wider
  <2>2. Left(Nothing, units', Nothing) = <<>> \o Held(units')
    BY <1>9, <2>1, LeftIs, JoinTypes
  <2>3. Run(from, upTo) \in Seq(Nat)
    BY <1>6, FromTheStart
  <2>4. <<>> \o Run(from, upTo) = Run(from, upTo)
    BY <2>3, ConcatEmptySeq
  <2> QED BY <1>2, <1>3, <1>6, <2>2, <2>4
<1>13. HeldBy(list) \o Run(from, upTo) = Run(0, upTo)
  BY <1>3, <1>5, <1>6, FromTheStart
<1> QED BY <1>2, <1>5, <1>7, <1>8, <1>10, <1>11, <1>12, <1>13, StillKept

LEMMA SmallKept == ASSUME KeptInv, NEW body \in Bodies, SmallBlock(body) PROVE KeptInv'
<1> DEFINE n == Len(document)
           candidate == Join(pendingText, Whole(Paragraphs(body).texts), BlankLine)
<1>1. PICK block, upTo, text :
        block = Paragraphs(body) /\ upTo = block.upTo /\ text = Whole(block.texts)
  OBVIOUS
<1>2. /\ stage = "reading" /\ NextBlock(upTo, heading)
      /\ stage' = stage /\ units' = units /\ current' = current
      /\ \/ chunks' = chunks /\ pendingText' = candidate
         \/ chunks' = Flushed /\ pendingText' = text
  BY <1>1 DEF SmallBlock, NextBlock
<1>3. /\ units = <<>> /\ current = Nothing
      /\ Flushed \in Seq(ChunkKind) /\ AllCited(Flushed) /\ HeldBy(Flushed) = Run(0, n)
      /\ HeldBy(chunks) \o pendingText.own = Run(0, n) /\ HeldBy(chunks) \in Seq(Nat)
      /\ pendingText.own \in Seq(Nat) /\ Under(pendingText.own, heading)
  BY <1>2, FlushedHolds
<1>4. /\ read \in Nat /\ document \in Seq(Nat) /\ pendingText \in Some
      /\ chunks \in Seq(ChunkKind) /\ AllCited(chunks)
      /\ heading \in Nat /\ heading <= read /\ heading <= read + 1 /\ pendingHeading = heading
  BY DEF KeptInv, ChunkTypes, AllUnderHeadings
<1>5. pendingHeading' = heading
  BY <1>4 DEF SmallBlock
<1>6. PICK under, from, before : under = heading /\ from = n /\ before = pendingText.own
  OBVIOUS
<1>7. /\ from \in Nat /\ upTo \in Nat /\ from <= upTo
      /\ text \in Some /\ text.own = Run(from, upTo)
  BY <1>1, <1>6, BlockRead
<1>8. /\ read' \in Nat /\ read' <= MaxBlocks /\ read' = read + 1 /\ heading' = heading
      /\ document' \in Seq(Nat) /\ Len(document') = upTo
      /\ \A m \in 1 .. Len(document') : document'[m] <= read'
      /\ \A cited : AllCited(cited) => AllCited(cited)'
      /\ \A own, h : Under(own, h) => Under(own, h)'
      /\ Under(Run(from, upTo), under)'
  BY <1>2, <1>4, <1>6, <1>7, Grown
<1>9. Run(from, upTo) \in Seq(Nat)
  BY <1>7, FromTheStart
<1>10. candidate \in Some /\ candidate.own = before \o Run(from, upTo)
  <2>1. candidate = Join(pendingText, text, BlankLine)
    BY <1>1
  <2> HIDE DEF candidate
  <2>2. pendingText \in Some /\ text \in Some
    BY <1>4, <1>7
  <2>3. /\ Join(pendingText, text, BlankLine) \in Some
        /\ Join(pendingText, text, BlankLine).own = pendingText.own \o text.own
    BY <2>2, JoinTypes, Gaps
  <2>4. candidate \in Some /\ candidate.own = pendingText.own \o text.own
    BY <2>1, <2>3
  <2>5. before = pendingText.own /\ text.own = Run(from, upTo)
    BY <1>6, <1>7
  <2> QED BY <2>4, <2>5, Zenon
<1>11. ASSUME NEW list, NEW rest, chunks' = list, pendingText'.own = rest, pendingText' \in Some,
              list \in Seq(ChunkKind), AllCited(list)', Under(rest, under)',
              HeldBy(list) \o rest = Run(0, upTo)
       PROVE  KeptInv'
  <2> HIDE DEF n, candidate
  <2>1. ChunkTypes'
    BY <1>2, <1>3, <1>4, <1>5, <1>8, <1>11, JoinTypes DEF ChunkTypes
  <2>2. NeverBoth'
    BY <1>2, <1>3 DEF NeverBoth
  <2>3. <<>> \in Seq(Some) /\ Nothing \in Some
    BY JoinTypes
  <2>4. Left(current', units', pendingText') = rest
    BY <1>2, <1>3, <1>11, <2>3, LeftIs
  <2> QED BY <1>6, <1>8, <1>11, <2>1, <2>2, <2>4, StillKept
<1> HIDE DEF n, candidate
<1>12. CASE chunks' = chunks /\ pendingText' = candidate
  <2>1. PICK list, rest : list = chunks /\ rest = before \o Run(from, upTo)
    OBVIOUS
  <2>2. AllCited(list)'
    BY <1>4, <1>8, <2>1
  <2>3. Under(before, under)'
    BY <1>3, <1>6, <1>8
  <2>4. before \in Seq(Nat)
    BY <1>3, <1>6
  <2>5. Under(rest, under)'
    <3>1. \A m \in Range(rest) : m \in Range(before) \/ m \in Range(Run(from, upTo))
      BY <1>9, <2>1, <2>4, RangeOfBoth
    <3> QED BY <1>8, <2>3, <3>1 DEF Under
  <2>6. HeldBy(list) \o rest = Run(0, upTo)
    <3>1. HeldBy(list) \o rest = (HeldBy(list) \o before) \o Run(from, upTo)
      <4>1. HeldBy(list) \in Seq(Nat)
        BY <1>3, <2>1
      <4>2. (HeldBy(list) \o before) \o Run(from, upTo) = HeldBy(list) \o (before \o Run(from, upTo))
        <5>1. Associates(HeldBy(list), before, Run(from, upTo))
          BY <1>9, <2>4, <4>1, Associative, Zenon
        <5> QED BY <5>1, Zenon DEF Associates
      <4> QED BY <2>1, <4>2
    <3>2. HeldBy(list) \o before = Run(0, from)
      BY <1>3, <1>6, <2>1
    <3>3. Run(0, from) \o Run(from, upTo) = Run(0, upTo)
      BY <1>7, FromTheStart
    <3> QED BY <3>1, <3>2, <3>3
  <2> QED BY <1>4, <1>10, <1>11, <1>12, <2>1, <2>2, <2>5, <2>6
<1>13. CASE chunks' = Flushed /\ pendingText' = text
  <2>1. PICK list : list = Flushed
    OBVIOUS
  <2>2. AllCited(list)'
    BY <1>3, <1>8, <2>1
  <2>3. HeldBy(list) \o Run(from, upTo) = Run(0, upTo)
    BY <1>3, <1>6, <1>7, <2>1, FromTheStart
  <2> QED BY <1>3, <1>7, <1>8, <1>11, <1>13, <2>1, <2>2, <2>3
<1> QED BY <1>2, <1>12, <1>13

LEMMA FirstUnit ==
  ASSUME NEW list \in Seq(Short), list # <<>>
  PROVE  /\ Head(list) \in Short /\ Tail(list) \in Seq(Short)
         /\ Held(list) = Head(list).own \o Held(Tail(list))
<1>1. Head(list) \in Short /\ Tail(list) \in Seq(Short)
  BY HeadTailProperties
<1>2. list = <<Head(list)>> \o Tail(list)
  BY ConcatAssociative, <1>1
<1>3. Head(list) \in Some /\ <<Head(list)>> \in Seq(Some) /\ Tail(list) \in Seq(Some)
  <2>1. Head(list) \in Some
    BY <1>1 DEF Short
  <2> QED BY <1>1, <2>1, Wider
<1>4. Held(<<Head(list)>> \o Tail(list)) = Held(<<Head(list)>>) \o Held(Tail(list))
  BY <1>3, HeldIs
<1>5. Held(<<Head(list)>>) = Head(list).own
  BY <1>3, HeldIs
<1> QED BY <1>1, <1>2, <1>4, <1>5

LEMMA SameDocument ==
  ASSUME document' = document, read' = read
  PROVE  /\ \A own, h : Under(own, h) => Under(own, h)'
         /\ \A list : AllCited(list) => AllCited(list)'
         /\ (\A n \in 1 .. Len(document) : document[n] <= read)
              => \A n \in 1 .. Len(document') : document'[n] <= read'
BY DEF Under, AllCited, Cited

\* While a block is packed: what the next chunk would be, and what is left of it.
LEMMA PackingHolds ==
  ASSUME KeptInv, stage = "packing", NEW c, c = Chunk(current, heading, FALSE)
  PROVE  /\ HeldBy(chunks) \o (current.own \o Held(units)) = Run(0, Len(document))
         /\ HeldBy(chunks) \in Seq(Nat) /\ current.own \in Seq(Nat) /\ Held(units) \in Seq(Nat)
         /\ Under(current.own, heading) /\ Under(Held(units), heading)
         /\ Append(chunks, c) \in Seq(ChunkKind) /\ AllCited(Append(chunks, c))
         /\ HeldBy(Append(chunks, c)) \o Held(units) = Run(0, Len(document))
<1>1. ChunkTypes /\ NeverBoth /\ AllThere /\ AllUnderHeadings
  BY DEF KeptInv
<1>2. /\ current \in Some /\ units \in Seq(Short) /\ units \in Seq(Some)
      /\ chunks \in Seq(ChunkKind) /\ heading \in Nat /\ heading \in 0 .. read
  BY <1>1, Wider DEF ChunkTypes
<1>3. Left(current, units, pendingText) = current.own \o Held(units)
  BY <1>1, <1>2, JoinTypes, LeftIs DEF NeverBoth
<1>4. current.own \in Seq(Nat) /\ Held(units) \in Seq(Nat)
  <2>1. Held(units) \in Seq(Nat)
    BY <1>2, HeldIs
  <2> QED BY <1>2, <2>1 DEF Some
<1>5. c \in ChunkKind /\ c.own = current.own /\ c.heading = heading
  BY <1>2, ChunkIs
<1>6. /\ Append(chunks, c) \in Seq(ChunkKind)
      /\ AllCited(chunks) /\ Cited(c) => AllCited(Append(chunks, c))
      /\ HeldBy(Append(chunks, c)) = HeldBy(chunks) \o c.own /\ HeldBy(chunks) \in Seq(Nat)
  BY <1>2, <1>5, OneMoreCited
<1>7. HeldBy(chunks) \o (current.own \o Held(units)) = Run(0, Len(document))
  BY <1>1, <1>3 DEF AllThere
<1>8. Under(current.own, heading) /\ Under(Held(units), heading)
  BY <1>1, <1>3, <1>4, BothUnder DEF AllUnderHeadings
<1>9. AllCited(Append(chunks, c))
  <2>1. Cited(c)
    BY <1>2, <1>5, <1>8 DEF Cited
  <2> QED BY <1>1, <1>6, <2>1 DEF AllUnderHeadings
<1>10. (HeldBy(chunks) \o current.own) \o Held(units) = HeldBy(chunks) \o (current.own \o Held(units))
  <2>1. HeldBy(chunks) \in Seq(Nat) /\ current.own \in Seq(Nat) /\ Held(units) \in Seq(Nat)
    BY <1>4, <1>6
  <2>2. Associates(HeldBy(chunks), current.own, Held(units))
    BY <2>1, Associative, Zenon
  <2> QED BY <2>2, Zenon DEF Associates
<1> QED BY <1>4, <1>5, <1>6, <1>7, <1>8, <1>9, <1>10

LEMMA PackKept == ASSUME KeptInv, Pack PROVE KeptInv'
<1> DEFINE unit == Head(units)
           candidate == Join(current, unit, BlankLine)
<1>1. PICK c, n, under :
        c = Chunk(current, heading, FALSE) /\ n = Len(document) /\ under = heading
  OBVIOUS
<1>2. /\ stage = "packing" /\ stage' = stage /\ units # <<>> /\ units' = Tail(units)
      /\ read' = read /\ heading' = heading /\ document' = document
      /\ pendingText' = pendingText /\ pendingHeading' = pendingHeading
  BY DEF Pack
<1>3. /\ HeldBy(chunks) \o (current.own \o Held(units)) = Run(0, n)
      /\ HeldBy(chunks) \in Seq(Nat) /\ current.own \in Seq(Nat) /\ Held(units) \in Seq(Nat)
      /\ Under(current.own, heading) /\ Under(Held(units), heading)
      /\ Append(chunks, c) \in Seq(ChunkKind) /\ AllCited(Append(chunks, c))
      /\ HeldBy(Append(chunks, c)) \o Held(units) = Run(0, n)
  BY <1>1, <1>2, PackingHolds
<1>4. /\ ChunkTypes /\ pendingText = Nothing /\ AllCited(chunks) /\ current \in Some
      /\ chunks \in Seq(ChunkKind) /\ \A m \in 1 .. Len(document) : document[m] <= read
  BY <1>2 DEF KeptInv, ChunkTypes, NeverBoth, AllUnderHeadings
<1>5. /\ unit \in Short /\ units' \in Seq(Short) /\ Held(units) = unit.own \o Held(units')
  BY <1>2, <1>4, FirstUnit DEF ChunkTypes
<1>6. /\ unit \in Some /\ unit.own \in Seq(Nat) /\ units' \in Seq(Some) /\ Held(units') \in Seq(Nat)
  <2>1. unit \in Some /\ units' \in Seq(Some)
    BY <1>5, Wider DEF Short
  <2> HIDE DEF unit
  <2>2. unit.own \in Seq(Nat)
    BY <2>1 DEF Some
  <2> QED BY <2>1, <2>2, HeldIs
<1> HIDE DEF unit
<1>7. candidate \in Some /\ candidate.own = current.own \o unit.own
  BY <1>4, <1>6, JoinTypes, Gaps
<1> HIDE DEF candidate
<1>8. \/ current' = candidate /\ chunks' = chunks
      \/ current' = unit /\ chunks' = Append(chunks, c)
      \/ /\ \E tail \in Tails(current) : current' = [unit EXCEPT !.len = tail + BlankLine + @]
         /\ chunks' = Append(chunks, c)
  BY <1>1, Zenon DEF Pack, candidate, unit
<1>9. ASSUME NEW list, NEW rest, chunks' = list, current'.own \o Held(units') = rest,
             current' \in Some, list \in Seq(ChunkKind), AllCited(list), Under(rest, under),
             HeldBy(list) \o rest = Run(0, n)
      PROVE  KeptInv'
  <2>1. ChunkTypes'
    BY <1>2, <1>4, <1>5, <1>9 DEF ChunkTypes
  <2>2. NeverBoth'
    BY <1>2, <1>4 DEF NeverBoth
  <2>3. Left(current', units', pendingText') = rest
    BY <1>2, <1>4, <1>6, <1>9, LeftIs, JoinTypes
  <2>4. AllCited(list)' /\ Under(rest, under)'
    BY <1>2, <1>9, SameDocument
  <2>5. \A m \in 1 .. Len(document') : document'[m] <= read'
    BY <1>2, <1>4
  <2> QED BY <1>1, <1>2, <1>9, <2>1, <2>2, <2>3, <2>4, <2>5, StillKept
<1>10. CASE current' = candidate /\ chunks' = chunks
  <2>1. PICK list, rest : list = chunks /\ rest = current.own \o Held(units)
    OBVIOUS
  <2>2. candidate.own \o Held(units') = rest
    <3>1. (current.own \o unit.own) \o Held(units') = current.own \o (unit.own \o Held(units'))
      <4>1. current.own \in Seq(Nat) /\ unit.own \in Seq(Nat) /\ Held(units') \in Seq(Nat)
        BY <1>3, <1>6
      <4>2. Associates(current.own, unit.own, Held(units'))
        BY <4>1, Associative, Zenon
      <4> QED BY <4>2, Zenon DEF Associates
    <3> QED BY <1>5, <1>7, <2>1, <3>1
  <2>3. Under(rest, under)
    BY <1>1, <1>3, <2>1, BothUnder
  <2> QED BY <1>3, <1>4, <1>7, <1>9, <1>10, <2>1, <2>2, <2>3
<1>11. ASSUME current'.own = unit.own, current' \in Some, chunks' = Append(chunks, c) PROVE KeptInv'
  <2>1. PICK list, rest : list = Append(chunks, c) /\ rest = Held(units)
    OBVIOUS
  <2> QED BY <1>1, <1>3, <1>5, <1>9, <1>11, <2>1
<1>12. ASSUME NEW tail \in Tails(current), current' = [unit EXCEPT !.len = tail + BlankLine + @]
       PROVE  current'.own = unit.own /\ current' \in Some
  <2>1. tail \in Nat
    <3>1. Overlap \in Nat /\ current.len \in Nat
      BY <1>4, ChunkingAssumption DEF Some
    <3> QED BY <3>1 DEF Tails
  <2>2. tail + BlankLine + unit.len \in Nat /\ unit.own \in Seq(Nat)
    BY <1>6, <2>1 DEF Some, BlankLine
  <2>3. current' = [own |-> unit.own, len |-> tail + BlankLine + unit.len]
    BY <1>6, <1>12 DEF Some
  <2> QED BY <2>2, <2>3 DEF Some
<1> QED BY <1>6, <1>8, <1>10, <1>11, <1>12

LEMMA PackedKept == ASSUME KeptInv, Packed PROVE KeptInv'
<1>1. PICK c, n, list :
        c = Chunk(current, heading, FALSE) /\ n = Len(document) /\ list = Append(chunks, c)
  OBVIOUS
<1>2. /\ stage = "packing" /\ stage' = "reading" /\ units = <<>> /\ units' = units
      /\ read' = read /\ heading' = heading /\ document' = document
      /\ pendingText' = pendingText /\ pendingHeading' = pendingHeading
      /\ current' = Nothing /\ chunks' = list
  BY <1>1 DEF Packed
<1>3. list \in Seq(ChunkKind) /\ AllCited(list) /\ HeldBy(list) \o Held(units) = Run(0, n)
  BY <1>1, <1>2, PackingHolds
<1>4. /\ ChunkTypes /\ pendingText = Nothing
      /\ \A m \in 1 .. Len(document) : document[m] <= read
  BY <1>2 DEF KeptInv, NeverBoth, AllUnderHeadings
<1>5. ChunkTypes'
  BY <1>2, <1>3, <1>4, JoinTypes DEF ChunkTypes
<1>6. NeverBoth'
  BY <1>2 DEF NeverBoth
<1>7. <<>> \in Seq(Some) /\ Held(<<>>) = <<>> /\ Nothing \in Some /\ Nothing.own = <<>>
  BY JoinTypes, HeldIs
<1>8. Left(current', units', pendingText') = <<>>
  BY <1>2, <1>4, <1>7, LeftIs
<1>9. PICK under : under = heading
  OBVIOUS
<1>10. AllCited(list)' /\ Under(<<>>, under)'
  BY <1>2, <1>3, SameDocument, NoneUnder
<1>11. \A m \in 1 .. Len(document') : document'[m] <= read'
  BY <1>2, <1>4
<1> QED BY <1>1, <1>2, <1>3, <1>5, <1>6, <1>7, <1>8, <1>9, <1>10, <1>11, StillKept

LEMMA EndKept == ASSUME KeptInv, EndOfBlocks PROVE KeptInv'
<1>1. PICK n, list, under : n = Len(document) /\ list = Flushed /\ under = heading
  OBVIOUS
<1>2. /\ stage = "reading" /\ stage' = "chunked" /\ units' = units
      /\ read' = read /\ heading' = heading /\ document' = document
      /\ pendingText' = Nothing /\ pendingHeading' = pendingHeading
      /\ current' = current /\ chunks' = list
  BY <1>1 DEF EndOfBlocks
<1>3. /\ units = <<>> /\ current = Nothing
      /\ list \in Seq(ChunkKind) /\ AllCited(list) /\ HeldBy(list) = Run(0, n)
  BY <1>1, <1>2, FlushedHolds
<1>4. ChunkTypes /\ document \in Seq(Nat) /\ \A m \in 1 .. Len(document) : document[m] <= read
  BY DEF KeptInv, ChunkTypes, AllUnderHeadings
<1>5. ChunkTypes'
  BY <1>2, <1>3, <1>4, JoinTypes DEF ChunkTypes
<1>6. NeverBoth'
  BY <1>2, <1>3 DEF NeverBoth
<1>7. <<>> \in Seq(Some) /\ Nothing \in Some /\ Nothing.own = <<>>
  BY JoinTypes
<1>8. Left(current', units', pendingText') = <<>>
  BY <1>2, <1>3, <1>7, LeftIs
<1>9. HeldBy(list) \o <<>> = Run(0, n)
  <2>1. n \in Nat /\ n <= n
    BY <1>1, <1>4
  <2>2. Run(0, n) \in Seq(Nat)
    BY <2>1, FromTheStart
  <2> QED BY <1>3, <2>2, ConcatEmptySeq
<1>10. AllCited(list)' /\ Under(<<>>, under)'
  BY <1>2, <1>3, SameDocument, NoneUnder
<1>11. \A m \in 1 .. Len(document') : document'[m] <= read'
  BY <1>2, <1>4
<1> QED BY <1>1, <1>2, <1>5, <1>6, <1>8, <1>9, <1>10, <1>11, StillKept

LEMMA KeptStep == KeptInv /\ [ChunkNext]_chunkVars => KeptInv'
<1> SUFFICES ASSUME KeptInv, [ChunkNext]_chunkVars PROVE KeptInv'
  OBVIOUS
<1>1. CASE UNCHANGED chunkVars
  BY <1>1 DEF chunkVars, KeptInv, ChunkTypes, NeverBoth, AllThere, AllUnderHeadings,
     Under, AllCited, Cited
<1> QED
  BY <1>1, HeadingKept, TableKept, OversizedKept, SmallKept, PackKept, PackedKept, EndKept
     DEF ChunkNext

LEMMA KeptStart == ChunkInit => KeptInv
<1> SUFFICES ASSUME ChunkInit PROVE KeptInv
  OBVIOUS
<1>1. /\ stage = "reading" /\ read = 0 /\ heading = 0 /\ pendingHeading = 0
      /\ pendingText = Nothing /\ units = <<>> /\ current = Nothing
      /\ chunks = <<>> /\ document = <<>>
  BY DEF ChunkInit
<1>2. /\ Nothing \in Some /\ <<>> \in Seq(Some) /\ <<>> \in Seq(Short) /\ <<>> \in Seq(ChunkKind)
      /\ <<>> \in Seq(Nat) /\ Nothing.own = <<>>
  BY JoinTypes
<1>3. ChunkTypes
  BY <1>1, <1>2, ChunkingAssumption DEF ChunkTypes
<1>4. NeverBoth
  BY <1>1 DEF NeverBoth
<1>5. Left(current, units, pendingText) = <<>>
  BY <1>1, <1>2, LeftIs
<1>6. Len(document) = 0
  BY <1>1
<1>7. AllThere
  <2>1. HeldBy(chunks) = <<>>
    BY <1>1, GatheredNone DEF HeldBy
  <2>2. Run(0, 0) = <<>>
    BY DEF Run
  <2>3. <<>> \o <<>> = <<>>
    OBVIOUS
  <2> QED BY <1>5, <1>6, <2>1, <2>2, <2>3 DEF AllThere
<1>8. AllUnderHeadings
  <2>1. AllCited(chunks)
    BY <1>1 DEF AllCited
  <2> QED BY <1>5, <1>6, <2>1, NoneUnder DEF AllUnderHeadings
<1> QED BY <1>3, <1>4, <1>7, <1>8 DEF KeptInv

LEMMA NarrowerSeq ==
  ASSUME NEW S, NEW T, NEW s \in Seq(S), Range(s) \subseteq T PROVE s \in Seq(T)
<1>1. Len(s) \in Nat /\ DOMAIN s = 1 .. Len(s)
  OBVIOUS
<1>2. \A i \in 1 .. Len(s) : s[i] \in T
  BY <1>1 DEF Range
<1>3. s \in [1 .. Len(s) -> S]
  BY <1>1, LenProperties
<1>4. s \in [1 .. Len(s) -> T]
  BY <1>2, <1>3
<1> QED BY <1>1, <1>4, AList

LEMMA WithinHeld ==
  ASSUME NEW texts \in Seq(Some)
  PROVE  \A i \in 1 .. Len(texts) : Range(texts[i].own) \subseteq Range(Held(texts))
<1> DEFINE Within(u) == \A i \in 1 .. Len(u) : Range(u[i].own) \subseteq Range(Held(u))
           T == {u \in Seq(Some) : Within(u)}
<1>1. <<>> \in T
  OBVIOUS
<1>2. ASSUME NEW u \in T, NEW t \in Some PROVE Append(u, t) \in T
  <2> DEFINE v == Append(u, t)
  <2>1. u \in Seq(Some) /\ Within(u)
    OBVIOUS
  <2>2. /\ v \in Seq(Some) /\ Len(v) = Len(u) + 1 /\ v[Len(u) + 1] = t
        /\ \A i \in 1 .. Len(u) : v[i] = u[i]
    BY <2>1, OneLonger
  <2>3. Held(v) = Held(u) \o t.own /\ Held(u) \in Seq(Nat) /\ t.own \in Seq(Nat)
    <3>1. Held(Append(u, t)) = Held(u) \o t.own /\ Held(u) \in Seq(Nat)
      BY <2>1, HeldIs
    <3> QED BY <3>1 DEF Some
  <2> HIDE DEF v
  <2>4. Range(Held(u)) \subseteq Range(Held(v)) /\ Range(t.own) \subseteq Range(Held(v))
    BY <2>3, RangeOfBoth
  <2>5. \A i \in 1 .. Len(v) : i \in 1 .. Len(u) \/ i = Len(u) + 1
    BY <2>1, <2>2
  <2>6. Within(v)
    BY <2>1, <2>2, <2>4, <2>5
  <2> QED BY <2>2, <2>6 DEF v
<1> HIDE DEF T
<1>3. T = Seq(Some)
  <2>1. T \in SUBSET Seq(Some)
    BY DEF T
  <2> QED BY <1>1, <1>2, <2>1, AllSequences
<1>4. texts \in T
  BY <1>3
<1> QED BY <1>4 DEF T

LEMMA KeptTypes == KeptInv => ChunkTypeOK
<1> SUFFICES ASSUME KeptInv PROVE ChunkTypeOK
  OBVIOUS
<1> DEFINE Pieces0 == 1 .. Len(document)
<1>1. ChunkTypes /\ NeverBoth /\ AllUnderHeadings
  BY DEF KeptInv
<1>2. /\ pendingText \in Some /\ current \in Some /\ units \in Seq(Short) /\ units \in Seq(Some)
      /\ chunks \in Seq(ChunkKind) /\ document \in Seq(Nat) /\ read \in Nat
  BY <1>1, Wider DEF ChunkTypes
<1>3. Range(Left(current, units, pendingText)) \subseteq Pieces0
  BY <1>1 DEF AllUnderHeadings, Under
<1>4. current.own \in Seq(Nat) /\ pendingText.own \in Seq(Nat) /\ Held(units) \in Seq(Nat)
  <2>1. Held(units) \in Seq(Nat)
    BY <1>2, HeldIs
  <2> QED BY <1>2, <2>1 DEF Some
<1>5. /\ Range(current.own) \subseteq Pieces0 /\ Range(pendingText.own) \subseteq Pieces0
      /\ Range(Held(units)) \subseteq Pieces0
  <2>1. Held(units) \o pendingText.own \in Seq(Nat)
    BY <1>4, ConcatProperties
  <2>2. /\ Range(current.own \o (Held(units) \o pendingText.own))
             = Range(current.own) \cup Range(Held(units) \o pendingText.own)
        /\ Range(Held(units) \o pendingText.own) = Range(Held(units)) \cup Range(pendingText.own)
    BY <1>4, <2>1, RangeOfBoth
  <2> QED BY <1>3, <2>2, Zenon DEF Left
<1> HIDE DEF Pieces0
<1>6. ASSUME NEW text \in Some, Range(text.own) \subseteq Pieces0 PROVE text \in Text
  <2>1. text.own \in Seq(Nat) /\ text = [own |-> text.own, len |-> text.len] /\ text.len \in Nat
    BY DEF Some
  <2>2. text.own \in Seq(Pieces0)
    BY <1>6, <2>1, NarrowerSeq
  <2> QED BY <2>1, <2>2 DEF Text, Pieces0
<1>7. pendingText \in Text /\ current \in Text
  BY <1>2, <1>5, <1>6
<1>8. units \in Seq({unit \in Text : unit.len <= Size})
  <2>1. \A i \in 1 .. Len(units) : Range(units[i].own) \subseteq Pieces0
    BY <1>2, <1>5, WithinHeld
  <2>2. \A i \in 1 .. Len(units) : units[i] \in Some /\ units[i].len <= Size
    BY <1>2 DEF Short
  <2>3. \A i \in 1 .. Len(units) : units[i] \in {unit \in Text : unit.len <= Size}
    BY <1>6, <2>1, <2>2
  <2>4. Range(units) \subseteq {unit \in Text : unit.len <= Size}
    BY <1>2, <2>3 DEF Range
  <2> QED BY <1>2, <2>4, NarrowerSeq
<1>9. chunks \in Seq([own : Seq(1 .. Len(document)), len : Nat, heading : 0 .. read, whole : BOOLEAN])
  <2> DEFINE Kind == [own : Seq(1 .. Len(document)), len : Nat, heading : 0 .. read, whole : BOOLEAN]
  <2>1. ASSUME NEW i \in DOMAIN chunks PROVE chunks[i] \in Kind
    <3>1. chunks[i] \in ChunkKind
      BY <1>2
    <3>2. Cited(chunks[i])
      BY <1>1 DEF AllUnderHeadings, AllCited
    <3>3. Range(chunks[i].own) \subseteq Pieces0 /\ chunks[i].heading \in 0 .. read
      BY <3>2 DEF Cited, Under, Pieces0
    <3>4. chunks[i].own \in Seq(Nat)
      BY <3>1 DEF ChunkKind
    <3>5. chunks[i].own \in Seq(Pieces0)
      BY <3>3, <3>4, NarrowerSeq
    <3> QED BY <3>1, <3>3, <3>5 DEF ChunkKind, Pieces0
  <2> HIDE DEF Kind
  <2>2. Range(chunks) \subseteq Kind
    BY <2>1 DEF Range
  <2>3. chunks \in Seq(Kind)
    BY <1>2, <2>2, NarrowerSeq
  <2> QED BY <2>3 DEF Kind
<1>10. document \in Seq(0 .. read)
  <2>1. \A i \in 1 .. Len(document) : document[i] \in 0 .. read
    BY <1>1, <1>2 DEF AllUnderHeadings
  <2>2. Range(document) \subseteq 0 .. read
    BY <1>2, <2>1 DEF Range
  <2> QED BY <1>2, <2>2, NarrowerSeq
<1>11. /\ stage \in {"reading", "packing", "chunked"}
       /\ read \in 0 .. MaxBlocks /\ heading \in 0 .. read /\ pendingHeading \in 0 .. read
  BY <1>1, ChunkingAssumption DEF ChunkTypes
<1> QED BY <1>7, <1>8, <1>9, <1>10, <1>11 DEF ChunkTypeOK

LEMMA KeptText == KeptInv => TextKept
<1> SUFFICES ASSUME KeptInv PROVE TextKept
  OBVIOUS
<1> DEFINE A == FlattenSeq([i \in DOMAIN chunks |-> chunks[i].own])
           C == FlattenSeq([i \in DOMAIN units |-> units[i].own])
<1>1. ChunkTypes /\ AllThere /\ AllUnderHeadings
  BY DEF KeptInv
<1>2. /\ pendingText \in Some /\ current \in Some /\ units \in Seq(Some)
      /\ chunks \in Seq(ChunkKind) /\ document \in Seq(Nat)
  BY <1>1, Wider DEF ChunkTypes
<1>3. A = HeldBy(chunks)
  <2>1. [i \in DOMAIN chunks |-> ChunkOwn[chunks[i]]] = [i \in DOMAIN chunks |-> chunks[i].own]
    BY <1>2, ChunkOwnIs
  <2> QED BY <2>1 DEF HeldBy, Gathered
<1>4. C = Held(units)
  BY <1>2, HeldIs
<1>5. HeldBy(chunks) \in Seq(Nat) /\ Held(units) \in Seq(Nat)
  <2>1. HeldBy(chunks) \in Seq(Nat)
    BY <1>2, ChunkOwnIs, GatheredIs DEF HeldBy
  <2> QED BY <1>2, <2>1, HeldIs
<1>6. current.own \in Seq(Nat) /\ pendingText.own \in Seq(Nat)
  BY <1>2 DEF Some
<1> HIDE DEF A, C
<1>7. PICK a, b, c, d : a = A /\ b = current.own /\ c = C /\ d = pendingText.own
  OBVIOUS
<1>8. a \in Seq(Nat) /\ b \in Seq(Nat) /\ c \in Seq(Nat) /\ d \in Seq(Nat)
  BY <1>3, <1>4, <1>5, <1>6, <1>7
<1>9. ((a \o b) \o c) \o d = a \o (b \o (c \o d))
  <2>1. PICK ab, cd : ab = a \o b /\ cd = c \o d
    OBVIOUS
  <2>2. ab \in Seq(Nat) /\ cd \in Seq(Nat)
    BY <1>8, <2>1, ConcatProperties
  <2>3. (ab \o c) \o d = ab \o (c \o d)
    <3>1. ab \in Seq(Nat) /\ c \in Seq(Nat) /\ d \in Seq(Nat)
      BY <1>8, <2>2
    <3>2. Associates(ab, c, d)
      BY <3>1, Associative, Zenon
    <3> QED BY <3>2, Zenon DEF Associates
  <2>4. (a \o b) \o cd = a \o (b \o cd)
    <3>1. Associates(a, b, cd)
      BY <1>8, <2>2, Associative, Zenon
    <3> QED BY <3>1, Zenon DEF Associates
  <2> QED BY <2>1, <2>3, <2>4
<1>10. a \o (b \o (c \o d)) = Run(0, Len(document))
  BY <1>1, <1>3, <1>4, <1>7 DEF AllThere, Left
<1>11. Run(0, Len(document)) = [i \in DOMAIN document |-> i]
  <2>1. Len(document) \in Nat /\ DOMAIN document = 1 .. Len(document)
    BY <1>2
  <2> QED BY <2>1 DEF Run
<1>12. A \o current.own \o C \o pendingText.own = [i \in DOMAIN document |-> i]
  BY <1>7, <1>9, <1>10, <1>11
<1>13. \A i \in DOMAIN chunks : \A n \in Range(chunks[i].own) : document[n] = chunks[i].heading
  BY <1>1 DEF AllUnderHeadings, AllCited, Cited, Under
<1> QED BY <1>12, <1>13 DEF TextKept, A, C

\* The inductive invariant of a document's blocks: what has been chunked and what
\* is still under way hold, together, what the document has so far.
THEOREM ChunkingInvariance == ChunkSpec => []KeptInv
<1> QED BY KeptStart, KeptStep, PTL DEF ChunkSpec

\* The document grows to its bound of whole pieces, and chunks are of its places.
THEOREM ChunkTypesHold == ChunkSpec => []ChunkTypeOK
<1> QED BY ChunkingInvariance, KeptTypes, PTL

\* For any sizes and any document: every piece of it, split or not, is in a chunk,
\* under the heading it stands under.
THEOREM NothingLost == ChunkSpec => []TextKept
<1> QED BY ChunkingInvariance, KeptText, PTL

-------------------------------------------------------------------------------
(* How long the chunks are *)

Longest == Size + Overlap + BlankLine
Fits(chunk) == chunk.whole \/ chunk.len <= Longest
AllFit(list) == \A i \in DOMAIN list : Fits(list[i])

\* What is gathered fits a chunk, and what is packed a chunk with its overlap.
ChunkInv == pendingText.len <= Size /\ current.len <= Longest /\ AllFit(chunks)

LEMMA ChunkNumbers ==
  /\ Size \in Nat /\ Overlap \in Nat /\ BlankLine \in Nat /\ Longest \in Nat /\ Size <= Longest
  /\ Longest = Size + Overlap + BlankLine /\ 0 <= Size /\ 0 <= Longest
BY ChunkingAssumption DEF BlankLine, Longest

LEMMA ShortFits ==
  ASSUME NEW text, NEW under, text.len <= Longest
  PROVE  Fits(Chunk(text, under, FALSE))
<1>1. Chunk(text, under, FALSE).len = text.len
  BY DEF Chunk
<1>2. Chunk(text, under, FALSE).len <= Longest
  BY <1>1
<1> HIDE DEF Longest
<1> QED BY <1>2, Zenon DEF Fits

\* A chunk more.
LEMMA OneMoreFits ==
  ASSUME NEW S, NEW list \in Seq(S), NEW c, AllFit(list), Fits(c)
  PROVE  AllFit(Append(list, c)) /\ Append(list, c) \in Seq(S \cup {c})
<1>1. list \in Seq(S \cup {c})
  OBVIOUS
<1>2. /\ Append(list, c) \in Seq(S \cup {c}) /\ Len(Append(list, c)) = Len(list) + 1
      /\ \A i \in 1..Len(list) : Append(list, c)[i] = list[i]
      /\ Append(list, c)[Len(list) + 1] = c
  BY <1>1
<1>3. Len(list) \in Nat /\ DOMAIN list = 1..Len(list)
      /\ DOMAIN Append(list, c) = 1..(Len(list) + 1)
  BY <1>1, <1>2
<1>4. \A i \in 1..(Len(list) + 1) : i \in 1..Len(list) \/ i = Len(list) + 1
  BY <1>3
<1> QED BY <1>2, <1>3, <1>4 DEF AllFit

\* flush: what was gathered makes one, if there is any.
LEMMA FlushedFits ==
  ASSUME ChunkTypeOK, ChunkInv
  PROVE  AllFit(Flushed) /\ \E S : Flushed \in Seq(S)
<1> DEFINE c == Chunk(pendingText, pendingHeading, FALSE)
           Kind == [own : Seq(1 .. Len(document)), len : Nat, heading : 0 .. read, whole : BOOLEAN]
<1>1. chunks \in Seq(Kind) /\ AllFit(chunks)
  BY DEF ChunkTypeOK, ChunkInv
<1>2. pendingText.len \in Nat /\ pendingText.len <= Size
  BY DEF ChunkTypeOK, Text, ChunkInv
<1>3. pendingText.len <= Longest
  BY <1>2, ChunkNumbers
<1>4. Fits(c)
  BY <1>3, ShortFits
<1> HIDE DEF c, Kind
<1>5. AllFit(Append(chunks, c)) /\ Append(chunks, c) \in Seq(Kind \cup {c})
  BY <1>1, <1>4, OneMoreFits
<1>6. Flushed = chunks \/ Flushed = Append(chunks, c)
  BY DEF Flushed, c
<1> QED BY <1>1, <1>5, <1>6

LEMMA NoText == Nothing.len <= Size /\ Nothing.len <= Longest
<1>1. Nothing.len = 0
  BY DEF Nothing
<1> QED BY <1>1, ChunkNumbers

LEMMA PackFits ==
  ASSUME ChunkTypeOK, ChunkInv, Pack PROVE current'.len <= Longest /\ AllFit(chunks')
<1> DEFINE unit == Head(units)
           candidate == Join(current, unit, BlankLine)
           c == Chunk(current, heading, FALSE)
           Kind == [own : Seq(1 .. Len(document)), len : Nat, heading : 0 .. read, whole : BOOLEAN]
<1>1. unit \in {u \in Text : u.len <= Size}
  BY HeadTailProperties DEF ChunkTypeOK, Pack
<1>2. unit.len \in Nat /\ unit.len <= Size /\ unit \in Text
  BY <1>1 DEF Text
<1>3. chunks \in Seq(Kind) /\ AllFit(chunks) /\ current.len <= Longest
  BY DEF ChunkTypeOK, ChunkInv
<1>4. current \in Text /\ current.len \in Nat
  BY DEF ChunkTypeOK, Text
<1>5. AllFit(Append(chunks, c))
  <2>1. Fits(c)
    BY <1>3, ShortFits
  <2> HIDE DEF c, Kind
  <2> QED BY <1>3, <2>1, OneMoreFits
<1>6. CASE candidate.len <= Size /\ current' = candidate /\ chunks' = chunks
  <2>1. candidate.len \in Nat
    <3>1. candidate = unit \/ candidate.len = current.len + BlankLine + unit.len
      BY DEF Join
    <3>2. current.len + BlankLine + unit.len \in Nat
      BY <1>2, <1>4, ChunkNumbers
    <3> HIDE DEF candidate, unit
    <3> QED BY <1>2, <3>1, <3>2
  <2> HIDE DEF candidate
  <2>2. candidate.len <= Longest
    BY <1>6, <2>1, ChunkNumbers
  <2> QED BY <1>3, <1>6, <2>2
<1>7. CASE chunks' = Append(chunks, c) /\ current' = unit
  <2> HIDE DEF c, unit
  <2>1. unit.len <= Longest
    BY <1>2, ChunkNumbers
  <2> QED BY <1>5, <1>7, <2>1
<1>8. ASSUME NEW tail \in Tails(current), Overlap # 0, chunks' = Append(chunks, c),
             current' = [unit EXCEPT !.len = tail + BlankLine + @]
      PROVE  current'.len <= Longest /\ AllFit(chunks')
  <2>1. tail \in Nat /\ tail <= Overlap
    <3>1. CASE current.len <= Overlap
      BY <1>4, <1>8, <3>1 DEF Tails
    <3>2. CASE ~(current.len <= Overlap)
      BY <1>8, <3>2, ChunkNumbers DEF Tails
    <3> QED BY <3>1, <3>2
  <2> HIDE DEF c, unit
  <2>2. current'.len = tail + BlankLine + unit.len
    BY <1>2, <1>8 DEF Text
  <2>3. tail + BlankLine + unit.len <= Longest
    BY <1>2, <2>1, ChunkNumbers
  <2> QED BY <1>5, <1>8, <2>2, <2>3
<1> QED BY <1>6, <1>7, <1>8, Zenon DEF Pack

LEMMA ChunkStep ==
  ASSUME ChunkTypeOK, ChunkTypeOK', ChunkInv, [ChunkNext]_chunkVars PROVE ChunkInv'
<1>1. pendingText.len <= Size /\ current.len <= Longest /\ AllFit(chunks)
  BY DEF ChunkInv
<1>2. AllFit(Flushed) /\ \E S : Flushed \in Seq(S)
  BY FlushedFits
<1>3. CASE UNCHANGED chunkVars
  BY <1>1, <1>3 DEF chunkVars, ChunkInv, AllFit
<1>4. CASE HeadingBlock \/ EndOfBlocks
  <2>1. chunks' = Flushed /\ pendingText' = Nothing /\ current' = current
    BY <1>4 DEF HeadingBlock, EndOfBlocks
  <2> QED BY <1>1, <1>2, <2>1, NoText DEF ChunkInv
<1>5. CASE TableBlock
  <2> DEFINE c == Chunk([own |-> <<Len(document) + 1>>, len |-> 2 * Size], heading, TRUE)
  <2>1. chunks' = Append(Flushed, c) /\ pendingText' = Nothing /\ current' = current
    BY <1>5 DEF TableBlock
  <2>2. Fits(c)
    BY DEF Fits, Chunk
  <2> HIDE DEF c
  <2>3. AllFit(chunks')
    BY <1>2, <2>1, <2>2, OneMoreFits
  <2> QED BY <1>1, <2>1, <2>3, NoText DEF ChunkInv
<1>6. ASSUME NEW b, OversizedBlock(b) PROVE ChunkInv'
  <2>1. chunks' = Flushed /\ pendingText' = Nothing /\ current' = current
    BY <1>6 DEF OversizedBlock
  <2> QED BY <1>1, <1>2, <2>1, NoText DEF ChunkInv
<1>7. ASSUME NEW b, SmallBlock(b) PROVE ChunkInv'
  <2> DEFINE block == Whole(Paragraphs(b).texts)
             candidate == Join(pendingText, block, BlankLine)
  <2>1. /\ block.len <= Size /\ current' = current
        /\ IF candidate.len <= Size THEN chunks' = chunks /\ pendingText' = candidate
                                    ELSE chunks' = Flushed /\ pendingText' = block
    BY <1>7, Zenon DEF SmallBlock
  <2> HIDE DEF block, candidate
  <2>2. pendingText'.len <= Size /\ AllFit(chunks')
    BY <1>1, <1>2, <2>1
  <2> QED BY <1>1, <2>1, <2>2 DEF ChunkInv
<1>8. CASE Pack
  <2>1. pendingText' = pendingText
    BY <1>8 DEF Pack
  <2> QED BY <1>1, <1>8, <2>1, PackFits DEF ChunkInv
<1>9. CASE Packed
  <2> DEFINE c == Chunk(current, heading, FALSE)
             Kind == [own : Seq(1 .. Len(document)), len : Nat, heading : 0 .. read, whole : BOOLEAN]
  <2>1. chunks' = Append(chunks, c) /\ pendingText' = pendingText /\ current' = Nothing
    BY <1>9 DEF Packed
  <2>2. Fits(c)
    BY <1>1, ShortFits
  <2>3. chunks \in Seq(Kind)
    BY DEF ChunkTypeOK
  <2> HIDE DEF c, Kind
  <2>4. AllFit(chunks')
    BY <1>1, <2>1, <2>2, <2>3, OneMoreFits
  <2> QED BY <1>1, <2>1, <2>4, NoText DEF ChunkInv
<1> QED BY <1>3, <1>4, <1>5, <1>6, <1>7, <1>8, <1>9 DEF ChunkNext

LEMMA ChunkStart == ChunkInit => ChunkInv
<1> SUFFICES ASSUME ChunkInit PROVE ChunkInv
  OBVIOUS
<1>1. pendingText = Nothing /\ current = Nothing /\ chunks = <<>>
  BY DEF ChunkInit
<1>2. AllFit(chunks)
  BY <1>1 DEF AllFit
<1> QED BY <1>1, <1>2, NoText DEF ChunkInv

\* For any sizes and lengths, whatever the blocks are: no chunk is longer than
\* chunk_size, an overlap and its blank line, but for a table.
THEOREM NoChunkIsTooLong == ChunkSpec => []ChunksFit
<1>1. ChunkInv => ChunksFit
  BY DEF ChunkInv, AllFit, Fits, Longest, ChunksFit
<1>2. ChunkTypeOK /\ ChunkTypeOK' /\ ChunkInv /\ [ChunkNext]_chunkVars => ChunkInv'
  BY ChunkStep
<1> QED BY <1>1, <1>2, ChunkTypesHold, ChunkStart, PTL DEF ChunkSpec
===============================================================================
