----------------------------- MODULE SumsProofs -----------------------------
(***************************************************************************)
(* What the sum of a sequence is, for every sequence: lemmas for the       *)
(* modules that count with it.  They are proved by induction, in a form    *)
(* that speaks of a set and not of a predicate.                            *)
(***************************************************************************)
EXTENDS Sums, FiniteSetTheorems, TLAPS

\* Induction over the natural numbers.  A set with 0 and the successors of its
\* members has every number: below one that it lacked, adding one would map
\* its finitely many members into fewer.
LEMMA SetInduction ==
  ASSUME NEW S, 0 \in S, \A n \in Nat : n \in S => n + 1 \in S,
         NEW n \in Nat
  PROVE  n \in S
<1> SUFFICES ASSUME n \notin S PROVE FALSE
  OBVIOUS
<1> DEFINE A == S \cap (0 .. n)
           f == [i \in A |-> i + 1]
<1>1. IsFiniteSet(A)
  <2>1. IsFiniteSet(0 .. n)
    BY FS_Interval
  <2> QED BY <2>1, FS_Subset
<1>2. 0 \in A
  OBVIOUS
<1>3. \A i \in A : i + 1 \in A \ {0}
  OBVIOUS
<1>4. Cardinality(A) \in Nat
  BY <1>1, FS_CardinalityType
<1> HIDE DEF A
<1>5. IsFiniteSet(A \ {0}) /\ Cardinality(A \ {0}) = Cardinality(A) - 1
  BY <1>1, <1>2, FS_RemoveElement
<1>6. f \in Injection(A, A \ {0})
  <2>1. f \in [A -> A \ {0}]
    BY <1>3
  <2>2. \A a, b \in A : f[a] = f[b] => a = b
    BY DEF A
  <2> QED BY <2>1, <2>2 DEF Injection, IsInjective
<1> HIDE DEF f
<1>7. Cardinality(A) <= Cardinality(A \ {0})
  BY <1>5, <1>6, FS_Injection
<1> QED BY <1>4, <1>5, <1>7

\* The smallest of some natural numbers is one of them.
LEMMA MinIn ==
  ASSUME NEW S \in SUBSET Nat, S # {}
  PROVE  Min(S) \in S /\ \A y \in S : Min(S) <= y
<1> DEFINE Least(T) == \E m \in T : \A y \in T : m <= y
           G == {k \in Nat : \A T \in SUBSET Nat : (\E n \in T : n <= k) => Least(T)}
<1>1. 0 \in G
  OBVIOUS
<1>2. \A k \in Nat : k \in G => k + 1 \in G
  <2> SUFFICES ASSUME NEW k \in Nat, k \in G,
                      NEW T \in SUBSET Nat, NEW n \in T, n <= k + 1
               PROVE  Least(T)
    OBVIOUS
  <2>1. CASE \E m \in T : m <= k
    BY <2>1
  <2>2. CASE \A m \in T : ~(m <= k)
    <3>1. \A y \in T : n <= y
      BY <2>2
    <3> QED BY <3>1
  <2> QED BY <2>1, <2>2
<1> HIDE DEF G
<1>3. PICK n \in S : TRUE
  OBVIOUS
<1>4. n \in G
  BY <1>1, <1>2, SetInduction
<1>5. Least(S)
  BY <1>4 DEF G
<1> QED BY <1>5 DEF Min

\* The first of some positions from p on, or the end n.
IsFirst(f, p, n, S) ==
  f \in p .. n /\ (f # n => f \in S) /\ \A q \in p .. f - 1 : q \notin S

LEMMA FirstIs ==
  ASSUME NEW p \in Nat, NEW n \in Nat, p <= n, NEW S, S \subseteq p .. n - 1
  PROVE  IsFirst(Min({n} \cup S), p, n, S)
<1> DEFINE f == Min({n} \cup S)
<1>1. ({n} \cup S) \in SUBSET Nat /\ ({n} \cup S) # {}
  OBVIOUS
<1>2. f \in {n} \cup S /\ \A y \in {n} \cup S : f <= y
  BY <1>1, MinIn
<1> HIDE DEF f
<1>3. f \in p .. n /\ (f # n => f \in S)
  <2>1. f = n \/ f \in S
    BY <1>2
  <2>2. f \in S => f \in p .. n - 1
    OBVIOUS
  <2> QED BY <2>1, <2>2
<1>4. ASSUME NEW q \in p .. f - 1 PROVE q \notin S
  <2>1. q < f
    BY <1>3
  <2>2. q \in S => f <= q
    BY <1>2
  <2> QED BY <1>3, <2>1, <2>2
<1> QED BY <1>3, <1>4 DEF IsFirst, f

-----------------------------------------------------------------------------
\* What FoldLeft computes for every set of indices, the largest one last.
IsFold(it, s, D) ==
  it = [S \in D |-> IF S = {} THEN 0 ELSE it[S \ {Max(S)}] + s[Max(S)]]

Fold(s) == CHOOSE it : IsFold(it, s, SUBSET DOMAIN s)

LEMMA TotalIsFold ==
  ASSUME NEW s \in Seq(Int)
  PROVE  Total(s) = Fold(s)[DOMAIN s]
BY DEF Total, FoldLeft, MapThenFoldSet, Fold, IsFold

LEMMA MaxOf ==
  ASSUME NEW k \in Nat, NEW S \in SUBSET (1 .. k + 1), k + 1 \in S
  PROVE  Max(S) = k + 1
<1>1. \A y \in S : k + 1 >= y
  OBVIOUS
<1>2. \A x \in S : (\A y \in S : x >= y) => x = k + 1
  OBVIOUS
<1> QED BY <1>1, <1>2 DEF Max

\* The largest of some indices is one of them.
LEMMA MaxIn ==
  ASSUME NEW n \in Nat
  PROVE  \A S \in SUBSET (1 .. n) : S # {} => Max(S) \in S
<1> DEFINE G == {k \in Nat : \A S \in SUBSET (1 .. k) : S # {} => Max(S) \in S}
<1>1. 0 \in G
  <2>1. (1 .. 0) = {}
    OBVIOUS
  <2>2. \A S \in SUBSET (1 .. 0) : S = {}
    BY <2>1
  <2> QED BY <2>2
<1>2. \A k \in Nat : k \in G => k + 1 \in G
  <2> SUFFICES ASSUME NEW k \in Nat, k \in G,
                      NEW S \in SUBSET (1 .. k + 1), S # {}
               PROVE  Max(S) \in S
    OBVIOUS
  <2>1. CASE k + 1 \in S
    BY <2>1, MaxOf
  <2>2. CASE k + 1 \notin S
    <3>1. S \in SUBSET (1 .. k)
      BY <2>2
    <3> QED BY <3>1
  <2> QED BY <2>1, <2>2
<1> HIDE DEF G
<1>3. n \in G
  BY <1>1, <1>2, SetInduction
<1> QED BY <1>3 DEF G

\* There is such a function: those for fewer indices extend to one more.
HasFold(s, k) == \E it : IsFold(it, s, SUBSET (1 .. k))

LEMMA FoldExists ==
  ASSUME NEW s \in Seq(Int)
  PROVE  HasFold(s, Len(s))
<1> DEFINE G == {k \in Nat : k <= Len(s) => HasFold(s, k)}
<1>1. 0 \in G
  <2> DEFINE it == [S \in SUBSET (1 .. 0) |-> 0]
  <2>1. (1 .. 0) = {}
    OBVIOUS
  <2>2. \A S \in SUBSET (1 .. 0) : S = {}
    BY <2>1
  <2>3. IsFold(it, s, SUBSET (1 .. 0))
    BY <2>2 DEF IsFold
  <2> QED BY <2>3 DEF HasFold
<1>2. \A k \in Nat : k \in G => k + 1 \in G
  <2> SUFFICES ASSUME NEW k \in Nat, k \in G, k + 1 <= Len(s)
               PROVE  HasFold(s, k + 1)
    OBVIOUS
  <2>0. HasFold(s, k)
    OBVIOUS
  <2>1. PICK g : IsFold(g, s, SUBSET (1 .. k))
    BY <2>0 DEF HasFold
  <2> DEFINE it == [S \in SUBSET (1 .. k + 1) |->
                      IF k + 1 \in S THEN g[S \ {k + 1}] + s[k + 1] ELSE g[S]]
  <2>2. ASSUME NEW S \in SUBSET (1 .. k + 1)
        PROVE  it[S] = IF S = {} THEN 0 ELSE it[S \ {Max(S)}] + s[Max(S)]
    <3>1. CASE k + 1 \in S
      <4>1. Max(S) = k + 1
        BY <3>1, MaxOf
      <4>2. S \ {k + 1} \in SUBSET (1 .. k + 1) /\ it[S \ {k + 1}] = g[S \ {k + 1}]
        OBVIOUS
      <4>3. it[S] = g[S \ {k + 1}] + s[k + 1]
        BY <3>1
      <4> QED BY <3>1, <4>1, <4>2, <4>3
    <3>2. CASE k + 1 \notin S
      <4>1. S \in SUBSET (1 .. k)
        BY <3>2
      <4>2. g[S] = IF S = {} THEN 0 ELSE g[S \ {Max(S)}] + s[Max(S)]
        BY <2>1, <4>1 DEF IsFold
      <4>3. S \ {Max(S)} \in SUBSET (1 .. k + 1) /\ k + 1 \notin S \ {Max(S)}
        BY <3>2
      <4>4. it[S \ {Max(S)}] = g[S \ {Max(S)}]
        BY <4>3
      <4>5. it[S] = g[S]
        BY <3>2
      <4> QED BY <4>2, <4>4, <4>5
    <3> QED BY <3>1, <3>2
  <2>3. IsFold(it, s, SUBSET (1 .. k + 1))
    BY <2>2 DEF IsFold
  <2> QED BY <2>3 DEF HasFold
<1> HIDE DEF G
<1>3. Len(s) \in G
  BY <1>1, <1>2, SetInduction
<1> QED BY <1>3 DEF G

LEMMA SameSequence ==
  ASSUME NEW s \in Seq(Int), NEW t \in Seq(Int), Len(s) = Len(t),
         \A i \in 1 .. Len(s) : s[i] = t[i]
  PROVE  s = t
<1>1. s = [i \in 1 .. Len(s) |-> s[i]]
  OBVIOUS
<1>2. t = [i \in 1 .. Len(s) |-> t[i]]
  OBVIOUS
<1> QED BY <1>1, <1>2

-----------------------------------------------------------------------------
(***************************************************************************)
(* Running sums.                                                           *)
(***************************************************************************)
RunningSum(p, s) ==
  /\ p \in [0 .. Len(s) -> Int] /\ p[0] = 0
  /\ \A k \in 1 .. Len(s) : p[k] = p[k - 1] + s[k]

\* The sum of a sequence is the last of its running sums.
LEMMA TotalRuns ==
  ASSUME NEW s \in Seq(Int)
  PROVE  \E p : RunningSum(p, s) /\ Total(s) = p[Len(s)]
<1> DEFINE D == SUBSET (1 .. Len(s))
           F == Fold(s)
           p == [k \in 0 .. Len(s) |-> F[1 .. k]]
<1>1. IsFold(F, s, D)
  <2>1. DOMAIN s = 1 .. Len(s)
    OBVIOUS
  <2>2. \E it : IsFold(it, s, D)
    BY FoldExists DEF HasFold
  <2> QED BY <2>1, <2>2 DEF Fold
<1> HIDE DEF F
<1>2. F[{}] = 0
  BY <1>1 DEF IsFold
<1>3. ASSUME NEW k \in Nat, k + 1 <= Len(s)
      PROVE  F[1 .. k + 1] = F[1 .. k] + s[k + 1]
  <2>1. (1 .. k + 1) \in D /\ k + 1 \in 1 .. k + 1
    BY <1>3
  <2>2. Max(1 .. k + 1) = k + 1
    BY MaxOf
  <2>3. (1 .. k + 1) \ {k + 1} = 1 .. k
    OBVIOUS
  <2>4. F[1 .. k + 1] = IF (1 .. k + 1) = {} THEN 0
                        ELSE F[(1 .. k + 1) \ {Max(1 .. k + 1)}] + s[Max(1 .. k + 1)]
    BY <1>1, <2>1 DEF IsFold
  <2> QED BY <2>1, <2>2, <2>3, <2>4
<1>4. ASSUME NEW k \in 0 .. Len(s)
      PROVE  F[1 .. k] \in Int
  <2> DEFINE G == {j \in Nat : j <= Len(s) => F[1 .. j] \in Int}
  <2>1. 0 \in G
    <3>1. (1 .. 0) = {}
      OBVIOUS
    <3> QED BY <3>1, <1>2
  <2>2. \A j \in Nat : j \in G => j + 1 \in G
    <3> SUFFICES ASSUME NEW j \in Nat, j \in G, j + 1 <= Len(s)
                 PROVE  F[1 .. j + 1] \in Int
      OBVIOUS
    <3>1. s[j + 1] \in Int /\ F[1 .. j] \in Int
      OBVIOUS
    <3> QED BY <3>1, <1>3
  <2>3. k \in Nat /\ k <= Len(s)
    OBVIOUS
  <2> HIDE DEF G
  <2>4. k \in G
    BY <2>3, <2>1, <2>2, SetInduction
  <2> QED BY <2>3, <2>4 DEF G
<1>5. RunningSum(p, s)
  <2>1. p \in [0 .. Len(s) -> Int]
    BY <1>4
  <2>2. p[0] = 0
    <3>1. (1 .. 0) = {}
      OBVIOUS
    <3> QED BY <3>1, <1>2
  <2>3. ASSUME NEW k \in 1 .. Len(s)
        PROVE  p[k] = p[k - 1] + s[k]
    <3>1. k - 1 \in Nat /\ (k - 1) + 1 = k /\ k \in 0 .. Len(s) /\ k - 1 \in 0 .. Len(s)
      OBVIOUS
    <3>2. F[1 .. k] = F[1 .. k - 1] + s[k]
      BY <1>3, <3>1
    <3> QED BY <3>1, <3>2
  <2> QED BY <2>1, <2>2, <2>3 DEF RunningSum
<1>6. Total(s) = p[Len(s)]
  <2>1. DOMAIN s = 1 .. Len(s) /\ Len(s) \in 0 .. Len(s)
    OBVIOUS
  <2> QED BY <2>1, TotalIsFold DEF F
<1> QED BY <1>5, <1>6

\* They are as many as there are indices, and there is one sequence of them.
LEMMA RunningSumUnique ==
  ASSUME NEW s \in Seq(Int), NEW p, NEW q, RunningSum(p, s), RunningSum(q, s)
  PROVE  p = q
<1> DEFINE G == {k \in Nat : k <= Len(s) => p[k] = q[k]}
<1>1. 0 \in G
  BY DEF RunningSum
<1>2. \A k \in Nat : k \in G => k + 1 \in G
  <2> SUFFICES ASSUME NEW k \in Nat, k \in G, k + 1 <= Len(s)
               PROVE  p[k + 1] = q[k + 1]
    OBVIOUS
  <2>1. k + 1 \in 1 .. Len(s) /\ (k + 1) - 1 = k
    OBVIOUS
  <2> QED BY <2>1 DEF RunningSum
<1> HIDE DEF G
<1>3. \A k \in Nat : k \in G
  BY <1>1, <1>2, SetInduction
<1>4. \A k \in 0 .. Len(s) : p[k] = q[k]
  BY <1>3 DEF G
<1> QED BY <1>4 DEF RunningSum

LEMMA TotalIs ==
  ASSUME NEW s \in Seq(Int), NEW p, RunningSum(p, s)
  PROVE  Total(s) = p[Len(s)]
BY TotalRuns, RunningSumUnique

-----------------------------------------------------------------------------
(***************************************************************************)
(* Sums.                                                                   *)
(***************************************************************************)
LEMMA TotalType ==
  ASSUME NEW s \in Seq(Int)
  PROVE  Total(s) \in Int
<1>1. PICK p : RunningSum(p, s) /\ Total(s) = p[Len(s)]
  BY TotalRuns
<1> QED BY <1>1 DEF RunningSum

LEMMA TotalEmpty == Total(<<>>) = 0
<1>1. <<>> \in Seq(Int) /\ Len(<<>>) = 0
  OBVIOUS
<1>2. PICK p : RunningSum(p, <<>>) /\ Total(<<>>) = p[Len(<<>>)]
  BY <1>1, TotalRuns
<1> QED BY <1>1, <1>2 DEF RunningSum

LEMMA TotalAppend ==
  ASSUME NEW s \in Seq(Int), NEW x \in Int
  PROVE  Total(Append(s, x)) = Total(s) + x
<1> DEFINE t == Append(s, x)
<1>1. /\ t \in Seq(Int) /\ Len(t) = Len(s) + 1 /\ t[Len(s) + 1] = x
      /\ \A k \in 1 .. Len(s) : t[k] = s[k]
  OBVIOUS
<1>2. PICK p : RunningSum(p, s) /\ Total(s) = p[Len(s)]
  BY TotalRuns
<1> DEFINE q == [k \in 0 .. Len(t) |-> IF k = Len(t) THEN p[Len(s)] + x ELSE p[k]]
<1> HIDE DEF t
<1>3. RunningSum(q, t)
  <2>1. \A k \in 0 .. Len(s) : p[k] \in Int
    BY <1>2 DEF RunningSum
  <2>2. q \in [0 .. Len(t) -> Int]
    BY <1>1, <2>1
  <2>3. q[0] = 0
    BY <1>1, <1>2 DEF RunningSum
  <2>4. ASSUME NEW k \in 1 .. Len(t)
        PROVE  q[k] = q[k - 1] + t[k]
    <3>1. CASE k = Len(t)
      BY <1>1, <3>1
    <3>2. CASE k # Len(t)
      <4>1. k \in 1 .. Len(s) /\ k - 1 \in 0 .. Len(s) /\ k - 1 # Len(t)
        BY <1>1, <3>2
      <4>2. q[k] = p[k] /\ q[k - 1] = p[k - 1] /\ t[k] = s[k]
        BY <1>1, <3>2, <4>1
      <4> QED BY <1>2, <4>1, <4>2 DEF RunningSum
    <3> QED BY <3>1, <3>2
  <2> QED BY <2>2, <2>3, <2>4 DEF RunningSum
<1>4. Total(t) = q[Len(t)]
  BY <1>1, <1>3, TotalIs
<1> QED BY <1>1, <1>2, <1>4 DEF t

\* Two sequences that differ by d at one place: so do their sums.
Differ(s, t, i, d) ==
  /\ Len(t) = Len(s) /\ i \in 1 .. Len(s)
  /\ t[i] = s[i] + d
  /\ \A k \in 1 .. Len(s) : k # i => t[k] = s[k]

LEMMA TotalDiffers ==
  ASSUME NEW s \in Seq(Int), NEW t \in Seq(Int), NEW i, NEW d \in Int,
         Differ(s, t, i, d)
  PROVE  Total(t) = Total(s) + d
<1>1. PICK p : RunningSum(p, s) /\ Total(s) = p[Len(s)]
  BY TotalRuns
<1> DEFINE q == [k \in 0 .. Len(s) |-> IF k >= i THEN p[k] + d ELSE p[k]]
<1>2. Len(t) = Len(s) /\ i \in 1 .. Len(s) /\ Len(s) \in Nat
  BY DEF Differ
<1>3. RunningSum(q, t)
  <2>1. \A k \in 0 .. Len(s) : p[k] \in Int
    BY <1>1 DEF RunningSum
  <2>2. q \in [0 .. Len(t) -> Int]
    BY <1>2, <2>1
  <2>3. q[0] = 0
    BY <1>1, <1>2 DEF RunningSum
  <2>4. ASSUME NEW k \in 1 .. Len(s)
        PROVE  q[k] = q[k - 1] + t[k]
    <3>1. p[k] = p[k - 1] + s[k] /\ p[k - 1] \in Int /\ p[k] \in Int /\ s[k] \in Int
      <4>1. k - 1 \in 0 .. Len(s) /\ k \in 0 .. Len(s)
        OBVIOUS
      <4> QED BY <1>1, <2>1, <4>1 DEF RunningSum
    <3>2. t[k] = IF k = i THEN s[k] + d ELSE s[k]
      BY DEF Differ
    <3>3. q[k] = IF k >= i THEN p[k] + d ELSE p[k]
      OBVIOUS
    <3>4. q[k - 1] = IF k - 1 >= i THEN p[k - 1] + d ELSE p[k - 1]
      BY <1>2
    <3> HIDE DEF q
    <3>5. CASE k < i
      BY <1>2, <3>1, <3>2, <3>3, <3>4, <3>5
    <3>6. CASE k = i
      BY <1>2, <3>1, <3>2, <3>3, <3>4, <3>6
    <3>7. CASE k > i
      <4>1. k - 1 >= i /\ k >= i /\ k # i
        BY <1>2, <3>7
      <4>2. t[k] = s[k] /\ q[k] = p[k] + d /\ q[k - 1] = p[k - 1] + d
        BY <3>2, <3>3, <3>4, <4>1
      <4> QED BY <3>1, <4>2
    <3> QED BY <1>2, <3>5, <3>6, <3>7
  <2> QED BY <1>2, <2>2, <2>3, <2>4 DEF RunningSum
<1>4. Total(t) = q[Len(s)]
  BY <1>2, <1>3, TotalIs
<1>5. q[Len(s)] = p[Len(s)] + d
  BY <1>2
<1> QED BY <1>1, <1>4, <1>5

\* A sum of larger numbers is larger.
Below(s, t) == Len(t) = Len(s) /\ \A k \in 1 .. Len(s) : s[k] <= t[k]

LEMMA TotalGrows ==
  ASSUME NEW s \in Seq(Int), NEW t \in Seq(Int), Below(s, t)
  PROVE  Total(s) <= Total(t)
<1>1. PICK p : RunningSum(p, s) /\ Total(s) = p[Len(s)]
  BY TotalRuns
<1>2. PICK q : RunningSum(q, t) /\ Total(t) = q[Len(t)]
  BY TotalRuns
<1> DEFINE G == {k \in Nat : k <= Len(s) => p[k] <= q[k]}
<1>3. 0 \in G
  BY <1>1, <1>2 DEF RunningSum
<1>4. \A k \in Nat : k \in G => k + 1 \in G
  <2> SUFFICES ASSUME NEW k \in Nat, k \in G, k + 1 <= Len(s)
               PROVE  p[k + 1] <= q[k + 1]
    OBVIOUS
  <2>1. k + 1 \in 1 .. Len(s) /\ (k + 1) - 1 = k /\ k \in 0 .. Len(s)
    OBVIOUS
  <2>0. Len(t) = Len(s)
    BY DEF Below
  <2>2. /\ p[k + 1] = p[k] + s[k + 1]
        /\ q[k + 1] = q[k] + t[k + 1]
    <3>1. p[k + 1] = p[k] + s[k + 1]
      BY <1>1, <2>1 DEF RunningSum
    <3>2. k + 1 \in 1 .. Len(t)
      BY <2>0, <2>1
    <3>3. q[k + 1] = q[k] + t[k + 1]
      BY <1>2, <2>1, <3>2 DEF RunningSum
    <3> QED BY <3>1, <3>3
  <2>3. p[k] \in Int /\ q[k] \in Int /\ s[k + 1] \in Int /\ t[k + 1] \in Int
    <3>1. p[k] \in Int
      BY <1>1, <2>1 DEF RunningSum
    <3>2. k \in 0 .. Len(t) /\ k + 1 \in 1 .. Len(t)
      BY <2>0, <2>1
    <3>3. q[k] \in Int
      BY <1>2, <3>2 DEF RunningSum
    <3>4. s[k + 1] \in Int
      BY <2>1
    <3>5. t[k + 1] \in Int
      BY <3>2
    <3> QED BY <3>1, <3>3, <3>4, <3>5
  <2>4. p[k] <= q[k] /\ s[k + 1] <= t[k + 1]
    BY <2>1 DEF Below
  <2> QED BY <2>2, <2>3, <2>4
<1> HIDE DEF G
<1>5. Len(s) \in Nat
  OBVIOUS
<1>6. Len(s) \in G
  BY <1>3, <1>4, <1>5, SetInduction
<1> QED BY <1>1, <1>2, <1>5, <1>6 DEF G, Below

LEMMA TotalNat ==
  ASSUME NEW s \in Seq(Nat)
  PROVE  Total(s) \in Nat
<1>1. s \in Seq(Int)
  OBVIOUS
<1>2. PICK p : RunningSum(p, s) /\ Total(s) = p[Len(s)]
  BY <1>1, TotalRuns
<1> DEFINE G == {k \in Nat : k <= Len(s) => p[k] >= 0}
<1>3. 0 \in G
  BY <1>2 DEF RunningSum
<1>4. \A k \in Nat : k \in G => k + 1 \in G
  <2> SUFFICES ASSUME NEW k \in Nat, k \in G, k + 1 <= Len(s)
               PROVE  p[k + 1] >= 0
    OBVIOUS
  <2>1. k + 1 \in 1 .. Len(s) /\ (k + 1) - 1 = k /\ k \in 0 .. Len(s)
    OBVIOUS
  <2>2. p[k + 1] = p[k] + s[k + 1] /\ p[k] \in Int
    BY <1>2, <2>1 DEF RunningSum
  <2>3. s[k + 1] \in Nat
    BY <2>1
  <2>4. p[k] >= 0
    BY <2>1
  <2> QED BY <2>2, <2>3, <2>4
<1> HIDE DEF G
<1>5. Len(s) \in G
  BY <1>3, <1>4, SetInduction
<1>6. p[Len(s)] \in Int
  BY <1>2 DEF RunningSum
<1> QED BY <1>2, <1>5, <1>6 DEF G

\* A sum of zeros.
Zeros(s) == \A k \in 1 .. Len(s) : s[k] = 0

LEMMA TotalZeros ==
  ASSUME NEW s \in Seq(Int), Zeros(s)
  PROVE  Total(s) = 0
<1> DEFINE p == [k \in 0 .. Len(s) |-> 0]
<1>1. ASSUME NEW k \in 1 .. Len(s)
      PROVE  p[k] = p[k - 1] + s[k]
  <2>1. s[k] = 0 /\ k \in 0 .. Len(s) /\ k - 1 \in 0 .. Len(s)
    BY DEF Zeros
  <2> QED BY <2>1
<1>2. RunningSum(p, s)
  BY <1>1 DEF RunningSum
<1>3. Total(s) = p[Len(s)]
  BY <1>2, TotalIs
<1> QED BY <1>3
=============================================================================
