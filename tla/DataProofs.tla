------------------------------ MODULE DataProofs ------------------------------
(***************************************************************************)
(* Proofs about Results and OAuth, the components that compute: both put   *)
(* sequences together, sort them and count what is in them, and nothing    *)
(* else acts on their state.                                               *)
(*                                                                         *)
(* Results, for any latencies in any number of objects: what is collected  *)
(* and sorted is what was measured, its percentiles are percentiles, and   *)
(* the deviation is right to a millisecond.                                *)
(*                                                                         *)
(* OAuth, for any requests whose bytes are plain: the server finds in the  *)
(* base string every parameter, encoded and in order as RFC 5849 has it.   *)
(***************************************************************************)
EXTENDS Results, OAuth, SumsProofs, SequenceTheorems

-----------------------------------------------------------------------------
(***************************************************************************)
(* Sequences.                                                              *)
(***************************************************************************)
\* The n elements of s and x after them.
IsLonger(t, s, x, n) ==
  /\ t = Append(s, x) /\ n = Len(s) /\ Len(t) = n + 1 /\ t[n + 1] = x
  /\ \A i \in 1 .. n : t[i] = s[i]

LEMMA AppendIs ==
  ASSUME NEW S, NEW s \in Seq(S), NEW x \in S
  PROVE  \E t \in Seq(S), n \in Nat : IsLonger(t, s, x, n)
<1>1. PICK n \in Nat : n = Len(s)
  OBVIOUS
<1>2. PICK t \in Seq(S) : t = Append(s, x)
  BY AppendProperties
<1>3. Len(t) = n + 1
  BY <1>1, <1>2, AppendProperties
<1>4. t[n + 1] = x
  BY <1>1, <1>2, AppendProperties
<1>5. \A i \in 1 .. n : t[i] = s[i]
  BY <1>1, <1>2, AppendProperties
<1> QED BY <1>1, <1>2, <1>3, <1>4, <1>5 DEF IsLonger

\* A set with the empty sequence and every longer sequence of its members.
ClosedByAppend(A, S) ==
  <<>> \in A /\ \A s \in Seq(S) : s \in A => \A x \in S : Append(s, x) \in A

LEMMA SequenceInduction ==
  ASSUME NEW S, NEW A, ClosedByAppend(A, S), NEW s \in Seq(S)
  PROVE  s \in A
<1> DEFINE G == {n \in Nat : \A t \in Seq(S) : Len(t) = n => t \in A}
<1>1. 0 \in G
  <2> SUFFICES ASSUME NEW t \in Seq(S), Len(t) = 0 PROVE t \in A
    OBVIOUS
  <2>1. t = <<>>
    BY EmptySeq
  <2> QED BY <2>1 DEF ClosedByAppend
<1>2. ASSUME NEW n \in Nat, n \in G PROVE n + 1 \in G
  <2> SUFFICES ASSUME NEW t \in Seq(S), Len(t) = n + 1 PROVE t \in A
    OBVIOUS
  <2> DEFINE f == [i \in 1 .. n |-> t[i]]
  <2>1. \A i \in 1 .. n + 1 : t[i] \in S
    OBVIOUS
  <2>2. f \in Seq(S) /\ Len(f) = n
    BY <1>2, <2>1
  <2>3. \A i \in 1 .. n : f[i] = t[i]
    OBVIOUS
  <2> HIDE DEF f
  <2>4. PICK x \in S : x = t[n + 1]
    BY <1>2, <2>1
  <2>5. Append(f, x) \in Seq(S) /\ Len(Append(f, x)) = n + 1
    BY <1>2, <2>2
  <2>6. ASSUME NEW i \in 1 .. n + 1 PROVE Append(f, x)[i] = t[i]
    <3>1. CASE i = n + 1
      BY <1>2, <2>2, <2>4, <3>1
    <3>2. CASE i # n + 1
      BY <1>2, <2>2, <2>3, <3>2
    <3> QED BY <3>1, <3>2
  <2>7. t = Append(f, x)
    BY <2>5, <2>6, SeqEqual
  <2>8. f \in A
    BY <1>2, <2>2
  <2> QED BY <2>2, <2>4, <2>7, <2>8 DEF ClosedByAppend
<1>3. \A n \in Nat : n \in G => n + 1 \in G
  BY <1>2
<1> HIDE DEF G
<1>4. PICK n \in Nat : n = Len(s)
  OBVIOUS
<1>5. n \in G
  BY <1>1, <1>3, SetInduction
<1> QED BY <1>4, <1>5 DEF G

\* The prefixes of a sequence are flattened in one way.

\* s and t one after the other, n and m long.
Joined(u, s, t, n, m) ==
  /\ n = Len(s) /\ m = Len(t) /\ DOMAIN s = 1 .. n /\ DOMAIN t = 1 .. m
  /\ u = s \o t /\ DOMAIN u = 1 .. n + m /\ Len(u) = n + m
  /\ \A i \in 1 .. n : u[i] = s[i]
  /\ \A i \in 1 .. m : u[n + i] = t[i]

LEMMA ConcatIs ==
  ASSUME NEW S, NEW s \in Seq(S), NEW t \in Seq(S)
  PROVE  \E u \in Seq(S), n \in Nat, m \in Nat : Joined(u, s, t, n, m)
<1>1. PICK n \in Nat, m \in Nat : /\ n = Len(s) /\ m = Len(t)
                                  /\ DOMAIN s = 1 .. n /\ DOMAIN t = 1 .. m
  OBVIOUS
<1>2. PICK u \in Seq(S) : u = s \o t
  BY ConcatProperties
<1>3. Len(u) = n + m
  BY <1>1, <1>2, ConcatProperties
<1>4. DOMAIN u = 1 .. n + m
  BY <1>3
<1>5. \A i \in 1 .. n : u[i] = s[i]
  BY <1>1, <1>2
<1>6. \A i \in 1 .. m : u[n + i] = t[i]
  BY <1>1, <1>2
<1> QED BY <1>1, <1>2, <1>3, <1>4, <1>5, <1>6 DEF Joined

LEMMA AppendOne ==
  ASSUME NEW S, NEW a \in S, NEW b \in S
  PROVE  Append(<<a>>, b) = <<a, b>>
<1>1. PICK s \in Seq(S) : s = <<a>> /\ Len(s) = 1 /\ s[1] = a
  <2>1. <<a>> \in Seq(S)
    OBVIOUS
  <2> QED BY <2>1
<1>2. PICK v \in Seq(S) : v = <<a, b>> /\ Len(v) = 2 /\ v[1] = a /\ v[2] = b
  <2>1. <<a, b>> \in Seq(S)
    OBVIOUS
  <2> QED BY <2>1
<1>3. PICK t \in Seq(S), n \in Nat : IsLonger(t, s, b, n)
  BY AppendIs
<1>4. n = 1 /\ Len(t) = 2 /\ t = Append(s, b)
  BY <1>1, <1>3 DEF IsLonger
<1>5. t[1] = a /\ t[2] = b
  <2>1. 1 \in 1 .. n /\ n + 1 = 2
    BY <1>4
  <2> QED BY <1>1, <1>3, <2>1 DEF IsLonger
<1>6. \A i \in 1 .. 2 : t[i] = v[i]
  BY <1>2, <1>5
<1>7. t = v
  BY <1>2, <1>4, <1>6, SeqEqual
<1> QED BY <1>1, <1>2, <1>4, <1>7

LEMMA OneAndTwo ==
  ASSUME NEW S, NEW a \in S, NEW b \in S, NEW c \in S
  PROVE  <<a>> \o <<b, c>> = <<a, b, c>>
<1>1. PICK s \in Seq(S), t \in Seq(S), v \in Seq(S) : s = <<a>> /\ t = <<b, c>> /\ v = <<a, b, c>>
  <2>1. <<a>> \in Seq(S) /\ <<b, c>> \in Seq(S)
    OBVIOUS
  <2>2. <<a, b, c>> \in Seq(S)
    OBVIOUS
  <2> QED BY <2>1, <2>2
<1>2. PICK u \in Seq(S), n \in Nat, m \in Nat : Joined(u, s, t, n, m)
  BY ConcatIs
<1>3. n = 1 /\ m = 2 /\ Len(u) = 3 /\ Len(v) = 3
  BY <1>1, <1>2 DEF Joined
<1>4. u[1] = a /\ u[2] = b /\ u[3] = c
  <2>1. 1 \in 1 .. n /\ 1 \in 1 .. m /\ 2 \in 1 .. m /\ n + 1 = 2 /\ n + 2 = 3
    BY <1>3
  <2> QED BY <1>1, <1>2, <2>1 DEF Joined
<1>5. \A i \in 1 .. 3 : u[i] = v[i]
  BY <1>1, <1>4
<1>6. u = v
  BY <1>3, <1>5, SeqEqual
<1> QED BY <1>1, <1>2, <1>6 DEF Joined

-----------------------------------------------------------------------------
(***************************************************************************)
(* Flattening.                                                             *)
(***************************************************************************)
\* What FlattenSeq computes for the first i elements.
IsFlat(g, q, k) ==
  g = [i \in 1 .. k |-> IF i = 1 THEN q[i] ELSE g[i - 1] \o q[i]]
HasFlat(q, k) == \E g : IsFlat(g, q, k)

LEMMA FlatExists ==
  ASSUME NEW q, NEW n \in Nat
  PROVE  HasFlat(q, n)
<1> DEFINE G == {k \in Nat : HasFlat(q, k)}
<1>1. 0 \in G
  <2> DEFINE g == [i \in 1 .. 0 |-> q[i]]
  <2>1. IsFlat(g, q, 0)
    <3>1. (1 .. 0) = {}
      OBVIOUS
    <3> QED BY <3>1 DEF IsFlat
  <2> QED BY <2>1 DEF HasFlat
<1>2. \A k \in Nat : k \in G => k + 1 \in G
  <2> SUFFICES ASSUME NEW k \in Nat, HasFlat(q, k)
               PROVE  HasFlat(q, k + 1)
    OBVIOUS
  <2>1. PICK g : IsFlat(g, q, k)
    BY DEF HasFlat
  <2> DEFINE h == [i \in 1 .. k + 1 |->
                     IF i \in 1 .. k THEN g[i] ELSE IF i = 1 THEN q[i] ELSE g[i - 1] \o q[i]]
  <2>2. ASSUME NEW i \in 1 .. k + 1
        PROVE  h[i] = IF i = 1 THEN q[i] ELSE h[i - 1] \o q[i]
    <3>1. CASE i \in 1 .. k
      <4>1. h[i] = g[i] /\ (i # 1 => i - 1 \in 1 .. k /\ i - 1 \in 1 .. k + 1)
        BY <3>1
      <4>2. g[i] = IF i = 1 THEN q[i] ELSE g[i - 1] \o q[i]
        BY <2>1, <3>1 DEF IsFlat
      <4>3. i # 1 => h[i - 1] = g[i - 1]
        BY <4>1
      <4> HIDE DEF h
      <4> QED BY <4>1, <4>2, <4>3
    <3>2. CASE i \notin 1 .. k
      <4>1. i # 1 => i - 1 \in 1 .. k /\ i - 1 \in 1 .. k + 1
        BY <3>2
      <4>2. i # 1 => h[i - 1] = g[i - 1]
        BY <4>1
      <4> QED BY <3>2, <4>2
    <3> QED BY <3>1, <3>2
  <2>3. IsFlat(h, q, k + 1)
    BY <2>2 DEF IsFlat
  <2> QED BY <2>3 DEF HasFlat
<1> HIDE DEF G
<1>3. n \in G
  BY <1>1, <1>2, SetInduction
<1> QED BY <1>3 DEF G

LEMMA FlattenIs ==
  ASSUME NEW q, Len(q) \in Nat \ {0}
  PROVE  \E g : IsFlat(g, q, Len(q)) /\ FlattenSeq(q) = g[Len(q)]
<1> DEFINE n == Len(q)
           flatten == CHOOSE g : g = [i \in 1 .. n |-> IF i = 1 THEN q[i] ELSE g[i - 1] \o q[i]]
<1>1. FlattenSeq(q) = flatten[n]
  BY DEF FlattenSeq
<1>2. HasFlat(q, n)
  BY FlatExists
<1>3. \E g : g = [i \in 1 .. n |-> IF i = 1 THEN q[i] ELSE g[i - 1] \o q[i]]
  BY <1>2 DEF HasFlat, IsFlat
<1>4. IsFlat(flatten, q, n)
  BY <1>3 DEF IsFlat
<1> QED BY <1>1, <1>4

LEMMA FlatUnique ==
  ASSUME NEW g, NEW h, NEW q, NEW r, NEW k \in Nat, NEW m \in Nat, k <= m,
         IsFlat(g, q, k), IsFlat(h, r, m), \A i \in 1 .. k : q[i] = r[i]
  PROVE  \A i \in 1 .. k : g[i] = h[i]
<1> DEFINE G == {j \in Nat : j \in 1 .. k => g[j] = h[j]}
<1>1. 0 \in G
  OBVIOUS
<1>2. ASSUME NEW j \in Nat, j \in G PROVE j + 1 \in G
  <2> SUFFICES ASSUME j + 1 \in 1 .. k PROVE g[j + 1] = h[j + 1]
    OBVIOUS
  <2>1. PICK i \in 1 .. k : i = j + 1 /\ i \in 1 .. m /\ i - 1 = j /\ (i # 1 => j \in 1 .. k)
    BY <1>2
  <2>2. g[i] = IF i = 1 THEN q[i] ELSE g[i - 1] \o q[i]
    BY <2>1 DEF IsFlat
  <2>3. h[i] = IF i = 1 THEN r[i] ELSE h[i - 1] \o r[i]
    BY <2>1 DEF IsFlat
  <2>4. q[i] = r[i]
    BY <2>1
  <2> QED BY <1>2, <2>1, <2>2, <2>3, <2>4
<1>3. \A j \in Nat : j \in G => j + 1 \in G
  BY <1>2
<1> HIDE DEF G
<1>4. ASSUME NEW j \in 1 .. k PROVE g[j] = h[j]
  <2>1. j \in G
    BY <1>1, <1>3, SetInduction
  <2> QED BY <2>1 DEF G
<1> QED BY <1>4

LEMMA FlattenEmpty == FlattenSeq(<<>>) = <<>>
<1>1. Len(<<>>) = 0
  OBVIOUS
<1> QED BY <1>1 DEF FlattenSeq

LEMMA FlattenAppend ==
  ASSUME NEW S, NEW q \in Seq(Seq(S)), NEW x \in Seq(S)
  PROVE  FlattenSeq(Append(q, x)) = FlattenSeq(q) \o x
<1>1. PICK n \in Nat : n = Len(q)
  OBVIOUS
<1>2. PICK r \in Seq(Seq(S)) : /\ r = Append(q, x) /\ Len(r) = n + 1 /\ r[n + 1] = x
                               /\ \A i \in 1 .. n : r[i] = q[i]
  <2>1. Append(q, x) \in Seq(Seq(S))
    OBVIOUS
  <2>2. Len(Append(q, x)) = n + 1 /\ Append(q, x)[n + 1] = x
    BY <1>1
  <2>3. \A i \in 1 .. n : Append(q, x)[i] = q[i]
    BY <1>1
  <2> QED BY <2>1, <2>2, <2>3
<1>3. PICK h : IsFlat(h, r, n + 1) /\ FlattenSeq(r) = h[n + 1]
  <2>1. Len(r) \in Nat \ {0}
    BY <1>2
  <2> QED BY <1>2, <2>1, FlattenIs
<1>4. CASE n = 0
  <2>1. q = <<>>
    BY <1>1, <1>4, EmptySeq
  <2>2. h[n + 1] = x
    BY <1>2, <1>3, <1>4 DEF IsFlat
  <2>3. <<>> \o x = x
    BY ConcatEmptySeq
  <2> QED BY <1>2, <1>3, <2>1, <2>2, <2>3, FlattenEmpty
<1>5. CASE n # 0
  <2>1. Len(q) \in Nat \ {0}
    BY <1>1, <1>5
  <2>2. PICK g : IsFlat(g, q, n) /\ FlattenSeq(q) = g[n]
    BY <1>1, <2>1, FlattenIs
  <2>3. \A i \in 1 .. n : q[i] = r[i]
    BY <1>2
  <2>4. \A i \in 1 .. n : g[i] = h[i]
    BY <1>3, <2>2, <2>3, FlatUnique
  <2>5. h[n + 1] = h[n] \o x
    <3>1. n + 1 \in 1 .. n + 1 /\ n + 1 # 1 /\ (n + 1) - 1 = n
      BY <1>5
    <3> QED BY <1>2, <1>3, <3>1 DEF IsFlat
  <2>6. h[n] = g[n]
    BY <1>5, <2>4
  <2> QED BY <1>2, <1>3, <2>2, <2>5, <2>6
<1> QED BY <1>4, <1>5

LEMMA ConcatAppend ==
  ASSUME NEW S, NEW s \in Seq(S), NEW t \in Seq(S), NEW x \in S
  PROVE  s \o Append(t, x) = Append(s \o t, x)
<1>1. <<x>> \in Seq(S)
  OBVIOUS
<1>2. Append(t, x) = t \o <<x>>
  BY AppendIsConcat
<1>3. s \o t \in Seq(S)
  BY ConcatProperties
<1>4. Append(s \o t, x) = (s \o t) \o <<x>>
  BY <1>3, AppendIsConcat
<1> QED BY <1>1, <1>2, <1>4, ConcatAssociative

LEMMA FlattenType ==
  ASSUME NEW S, NEW q \in Seq(Seq(S))
  PROVE  FlattenSeq(q) \in Seq(S)
<1> DEFINE A == {r \in Seq(Seq(S)) : FlattenSeq(r) \in Seq(S)}
<1>1. <<>> \in A
  <2>1. <<>> \in Seq(Seq(S)) /\ <<>> \in Seq(S)
    BY EmptySeq
  <2> QED BY <2>1, FlattenEmpty
<1>2. ASSUME NEW r \in Seq(Seq(S)), r \in A, NEW x \in Seq(S)
      PROVE  Append(r, x) \in A
  <2>1. FlattenSeq(Append(r, x)) = FlattenSeq(r) \o x
    BY FlattenAppend
  <2>2. FlattenSeq(r) \o x \in Seq(S)
    BY <1>2, ConcatProperties
  <2>3. Append(r, x) \in Seq(Seq(S))
    BY AppendProperties
  <2> QED BY <2>1, <2>2, <2>3
<1>3. ClosedByAppend(A, Seq(S))
  BY <1>1, <1>2 DEF ClosedByAppend
<1> HIDE DEF A
<1>4. q \in A
  BY <1>3, SequenceInduction
<1> QED BY <1>4 DEF A

LEMMA FlattenConcat ==
  ASSUME NEW S, NEW q \in Seq(Seq(S)), NEW r \in Seq(Seq(S))
  PROVE  FlattenSeq(q \o r) = FlattenSeq(q) \o FlattenSeq(r)
<1> DEFINE A == {t \in Seq(Seq(S)) : FlattenSeq(q \o t) = FlattenSeq(q) \o FlattenSeq(t)}
<1>1. <<>> \in A
  <2>1. q \o <<>> = q
    BY ConcatEmptySeq
  <2>2. FlattenSeq(q) \o <<>> = FlattenSeq(q)
    BY FlattenType, ConcatEmptySeq
  <2>3. <<>> \in Seq(Seq(S))
    BY EmptySeq
  <2> QED BY <2>1, <2>2, <2>3, FlattenEmpty
<1>2. ASSUME NEW t \in Seq(Seq(S)), t \in A, NEW x \in Seq(S)
      PROVE  Append(t, x) \in A
  <2>1. q \o Append(t, x) = Append(q \o t, x)
    BY ConcatAppend
  <2>2. q \o t \in Seq(Seq(S))
    BY ConcatProperties
  <2>3. FlattenSeq(Append(q \o t, x)) = FlattenSeq(q \o t) \o x
    BY <2>2, FlattenAppend
  <2>4. FlattenSeq(Append(t, x)) = FlattenSeq(t) \o x
    BY FlattenAppend
  <2>5. FlattenSeq(q) \in Seq(S) /\ FlattenSeq(t) \in Seq(S)
    BY FlattenType
  <2>6. (FlattenSeq(q) \o FlattenSeq(t)) \o x = FlattenSeq(q) \o (FlattenSeq(t) \o x)
    BY <2>5, ConcatAssociative, SMTT(60)
  <2>7. Append(t, x) \in Seq(Seq(S))
    BY AppendProperties
  <2> QED BY <1>2, <2>1, <2>3, <2>4, <2>6, <2>7
<1>3. ClosedByAppend(A, Seq(S))
  BY <1>1, <1>2 DEF ClosedByAppend
<1> HIDE DEF A
<1>4. r \in A
  BY <1>3, SequenceInduction
<1> QED BY <1>4 DEF A

LEMMA FlattenOne ==
  ASSUME NEW S, NEW x \in Seq(S)
  PROVE  FlattenSeq(<<x>>) = x
<1>1. <<>> \in Seq(Seq(S))
  BY EmptySeq
<1>2. FlattenSeq(Append(<<>>, x)) = FlattenSeq(<<>>) \o x
  BY <1>1, FlattenAppend
<1>3. <<>> \o x = x
  BY ConcatEmptySeq
<1>4. Append(<<>>, x) = <<x>>
  OBVIOUS
<1> QED BY <1>2, <1>3, <1>4, FlattenEmpty

-----------------------------------------------------------------------------
(***************************************************************************)
(* Element by element.                                                     *)
(***************************************************************************)
Mapped(f, s) == [i \in DOMAIN s |-> f[s[i]]]

LEMMA MapType ==
  ASSUME NEW B, NEW C, NEW f \in [B -> C], NEW s \in Seq(B)
  PROVE  Mapped(f, s) \in Seq(C)
<1>1. \A i \in 1 .. Len(s) : f[s[i]] \in C
  OBVIOUS
<1>2. PICK n \in Nat : n = Len(s) /\ DOMAIN s = 1 .. n
  OBVIOUS
<1>3. [i \in 1 .. n |-> f[s[i]]] \in [1 .. n -> C]
  BY <1>1, <1>2
<1>4. [i \in 1 .. n |-> f[s[i]]] \in Seq(C)
  BY <1>3
<1> QED BY <1>2, <1>4 DEF Mapped

LEMMA MapAppend ==
  ASSUME NEW B, NEW C, NEW f \in [B -> C], NEW s \in Seq(B), NEW b \in B
  PROVE  Mapped(f, Append(s, b)) = Append(Mapped(f, s), f[b])
<1>1. PICK t \in Seq(B), n \in Nat : IsLonger(t, s, b, n)
  BY AppendIs
<1>2. PICK q \in Seq(C) : q = Mapped(f, s) /\ Len(q) = Len(s)
  <2>1. Mapped(f, s) \in Seq(C) /\ DOMAIN Mapped(f, s) = DOMAIN s
    BY MapType DEF Mapped
  <2> QED BY <2>1
<1>3. PICK r \in Seq(C) : r = Mapped(f, t) /\ Len(r) = Len(t)
  <2>1. Mapped(f, t) \in Seq(C) /\ DOMAIN Mapped(f, t) = DOMAIN t
    BY MapType DEF Mapped
  <2> QED BY <2>1
<1>4. PICK x \in C : x = f[b]
  OBVIOUS
<1>5. PICK v \in Seq(C), m \in Nat : IsLonger(v, q, x, m)
  BY AppendIs
<1>6. DOMAIN s = 1 .. n /\ DOMAIN t = 1 .. n + 1 /\ Len(q) = n /\ Len(r) = n + 1
  BY <1>1, <1>2, <1>3 DEF IsLonger
<1>7. m = n /\ Len(v) = n + 1 /\ v = Append(q, x)
  BY <1>5, <1>6 DEF IsLonger
<1>8. ASSUME NEW i \in 1 .. n + 1 PROVE r[i] = v[i]
  <2>1. r[i] = f[t[i]]
    BY <1>3, <1>6 DEF Mapped
  <2>2. CASE i = n + 1
    BY <1>1, <1>4, <1>5, <1>7, <2>1, <2>2 DEF IsLonger
  <2>3. CASE i # n + 1
    <3>1. i \in 1 .. n
      BY <2>3
    <3>2. t[i] = s[i] /\ v[i] = q[i]
      BY <1>1, <1>5, <1>7, <3>1 DEF IsLonger
    <3>3. q[i] = f[s[i]]
      BY <1>2, <1>6, <3>1 DEF Mapped
    <3> QED BY <2>1, <3>2, <3>3
  <2> QED BY <2>2, <2>3
<1>9. r = v
  BY <1>6, <1>7, <1>8, SeqEqual
<1>10. t = Append(s, b)
  BY <1>1 DEF IsLonger
<1> QED BY <1>2, <1>3, <1>4, <1>7, <1>9, <1>10

-----------------------------------------------------------------------------
(***************************************************************************)
(* Counting the elements of a sequence that are in a set.                  *)
(***************************************************************************)
PlacesOf(s, P) == {i \in DOMAIN s : s[i] \in P}
CountIn(s, P) == Cardinality(PlacesOf(s, P))

LEMMA PlacesOfFinite ==
  ASSUME NEW S, NEW s \in Seq(S), NEW P
  PROVE  IsFiniteSet(PlacesOf(s, P)) /\ CountIn(s, P) \in Nat
<1>1. PICK n \in Nat : n = Len(s) /\ DOMAIN s = 1 .. n
  OBVIOUS
<1>2. IsFiniteSet(1 .. n)
  BY FS_Interval
<1>3. PlacesOf(s, P) \subseteq 1 .. n
  BY <1>1 DEF PlacesOf
<1>4. IsFiniteSet(PlacesOf(s, P))
  BY <1>2, <1>3, FS_Subset
<1> QED BY <1>4, FS_CardinalityType DEF CountIn

\* Of two sequences in a row: both counts together.
LEMMA CountInConcat ==
  ASSUME NEW S, NEW s \in Seq(S), NEW t \in Seq(S), NEW P
  PROVE  CountIn(s \o t, P) = CountIn(s, P) + CountIn(t, P)
<1>1. PICK st \in Seq(S), m \in Nat, n \in Nat : Joined(st, s, t, m, n)
  BY ConcatIs
<1>2. /\ DOMAIN s = 1 .. m /\ DOMAIN t = 1 .. n /\ DOMAIN st = 1 .. m + n /\ st = s \o t
      /\ \A i \in 1 .. m : st[i] = s[i]
      /\ \A i \in 1 .. n : st[m + i] = t[i]
  BY <1>1 DEF Joined
<1> DEFINE B == {m + i : i \in PlacesOf(t, P)}
<1>4. PlacesOf(st, P) = PlacesOf(s, P) \cup B
  <2>1. ASSUME NEW i \in PlacesOf(st, P) PROVE i \in PlacesOf(s, P) \cup B
    <3>1. i \in 1 .. m + n /\ st[i] \in P
      BY <1>2 DEF PlacesOf
    <3>2. CASE i <= m
      <4>1. i \in 1 .. m
        BY <3>1, <3>2
      <4> QED BY <1>2, <3>1, <4>1 DEF PlacesOf
    <3>3. CASE ~(i <= m)
      <4>1. i - m \in 1 .. n /\ m + (i - m) = i
        BY <3>1, <3>3
      <4>2. i - m \in PlacesOf(t, P)
        BY <1>2, <3>1, <4>1 DEF PlacesOf
      <4> QED BY <4>1, <4>2
    <3> QED BY <3>2, <3>3
  <2>2. ASSUME NEW i \in PlacesOf(s, P) PROVE i \in PlacesOf(st, P)
    <3>1. i \in 1 .. m /\ i \in 1 .. m + n
      BY <1>2 DEF PlacesOf
    <3> QED BY <1>2, <3>1 DEF PlacesOf
  <2>3. ASSUME NEW i \in PlacesOf(t, P) PROVE m + i \in PlacesOf(st, P)
    <3>1. i \in 1 .. n /\ m + i \in 1 .. m + n
      BY <1>2 DEF PlacesOf
    <3> QED BY <1>2, <3>1 DEF PlacesOf
  <2> QED BY <2>1, <2>2, <2>3
<1>5. PlacesOf(s, P) \cap B = {}
  <2>1. \A i \in PlacesOf(s, P) : i \in 1 .. m
    BY <1>2 DEF PlacesOf
  <2>2. \A i \in PlacesOf(t, P) : i \in 1 .. n
    BY <1>2 DEF PlacesOf
  <2>3. \A j \in B : j > m
    BY <2>2
  <2> HIDE DEF B
  <2>4. ASSUME NEW j \in PlacesOf(s, P), j \in B PROVE FALSE
    BY <2>1, <2>3, <2>4
  <2> QED BY <2>4
<1>6. IsFiniteSet(B) /\ Cardinality(B) = Cardinality(PlacesOf(t, P))
  <2> DEFINE f == [i \in PlacesOf(t, P) |-> m + i]
  <2>1. \A i \in PlacesOf(t, P) : i \in Nat
    BY <1>2 DEF PlacesOf
  <2>2. f \in Bijection(PlacesOf(t, P), B)
    <3>1. f \in [PlacesOf(t, P) -> B]
      OBVIOUS
    <3>2. \A a, b \in PlacesOf(t, P) : f[a] = f[b] => a = b
      BY <2>1
    <3>3. \A j \in B : \E i \in PlacesOf(t, P) : f[i] = j
      OBVIOUS
    <3> QED BY <3>1, <3>2, <3>3 DEF Bijection, Injection, Surjection, IsInjective
  <2> HIDE DEF f, B
  <2>3. IsFiniteSet(PlacesOf(t, P))
    BY PlacesOfFinite
  <2>4. ExistsBijection(PlacesOf(t, P), B)
    BY <2>2 DEF ExistsBijection
  <2> QED BY <2>3, <2>4, FS_Bijection
<1> HIDE DEF B
<1>7. IsFiniteSet(PlacesOf(s, P)) /\ CountIn(s, P) \in Nat /\ CountIn(t, P) \in Nat
  BY PlacesOfFinite
<1>8. Cardinality(PlacesOf(s, P) \cap B) = 0
  BY <1>5, FS_EmptySet
<1>9. Cardinality(PlacesOf(st, P))
        = Cardinality(PlacesOf(s, P)) + Cardinality(B) - Cardinality(PlacesOf(s, P) \cap B)
  BY <1>4, <1>6, <1>7, FS_Union
<1> QED BY <1>2, <1>6, <1>7, <1>8, <1>9 DEF CountIn

\* The places of a sequence and of another order of it.
Reordered(s, t, p) ==
  /\ p \in Bijection(DOMAIN s, DOMAIN s) /\ DOMAIN t = DOMAIN s
  /\ \A i \in DOMAIN s : t[i] = s[p[i]]

LEMMA CountInOrdered ==
  ASSUME NEW S, NEW s, NEW t \in Seq(S), NEW p, NEW P, Reordered(s, t, p)
  PROVE  CountIn(t, P) = CountIn(s, P)
<1>0. /\ p \in [DOMAIN s -> DOMAIN s] /\ \A a, b \in DOMAIN s : p[a] = p[b] => a = b
      /\ \A j \in DOMAIN s : \E i \in DOMAIN s : p[i] = j
  BY DEF Reordered, Bijection, Injection, Surjection, IsInjective
<1> DEFINE f == [i \in PlacesOf(t, P) |-> p[i]]
<1>1. f \in Bijection(PlacesOf(t, P), PlacesOf(s, P))
  <2>1. f \in [PlacesOf(t, P) -> PlacesOf(s, P)]
    BY <1>0 DEF PlacesOf, Reordered
  <2>2. \A a, b \in PlacesOf(t, P) : f[a] = f[b] => a = b
    BY <1>0 DEF PlacesOf, Reordered
  <2>3. \A j \in PlacesOf(s, P) : \E i \in PlacesOf(t, P) : f[i] = j
    BY <1>0 DEF PlacesOf, Reordered
  <2> QED BY <2>1, <2>2, <2>3 DEF Bijection, Injection, Surjection, IsInjective
<1> HIDE DEF f
<1>2. IsFiniteSet(PlacesOf(t, P))
  BY PlacesOfFinite
<1>3. Cardinality(PlacesOf(t, P)) = Cardinality(PlacesOf(s, P))
  <2>1. ExistsBijection(PlacesOf(t, P), PlacesOf(s, P))
    BY <1>1 DEF ExistsBijection
  <2> QED BY <1>2, <2>1, FS_Bijection
<1> QED BY <1>3 DEF CountIn

-----------------------------------------------------------------------------
(***************************************************************************)
(* Bags.                                                                   *)
(***************************************************************************)
LEMMA BagOf ==
  ASSUME NEW s
  PROVE  ToBag(s) = [x \in Range(s) |-> CountIn(s, {x})]
<1>1. \A x : {i \in DOMAIN s : s[i] = x} = PlacesOf(s, {x})
  BY DEF PlacesOf
<1> QED BY <1>1 DEF ToBag, CountIn

LEMMA InRange ==
  ASSUME NEW S, NEW s \in Seq(S), NEW x
  PROVE  x \in Range(s) <=> CountIn(s, {x}) # 0
<1>1. x \in Range(s) <=> PlacesOf(s, {x}) # {}
  BY DEF Range, PlacesOf
<1>2. IsFiniteSet(PlacesOf(s, {x}))
  BY PlacesOfFinite
<1>3. CountIn(s, {x}) = 0 <=> PlacesOf(s, {x}) = {}
  BY <1>2, FS_EmptySet DEF CountIn
<1> QED BY <1>1, <1>3

SameCounts(s, t) == \A x : CountIn(s, {x}) = CountIn(t, {x})

LEMMA SameBag ==
  ASSUME NEW S, NEW s \in Seq(S), NEW t \in Seq(S), SameCounts(s, t)
  PROVE  ToBag(s) = ToBag(t)
<1>1. ASSUME NEW x PROVE x \in Range(s) <=> x \in Range(t)
  <2>1. CountIn(s, {x}) = CountIn(t, {x})
    BY DEF SameCounts
  <2>2. x \in Range(s) <=> CountIn(s, {x}) # 0
    BY InRange
  <2>3. x \in Range(t) <=> CountIn(t, {x}) # 0
    BY InRange
  <2> QED BY <2>1, <2>2, <2>3
<1>2. Range(s) = Range(t)
  BY <1>1
<1>3. \A x \in Range(s) : CountIn(s, {x}) = CountIn(t, {x})
  BY DEF SameCounts
<1> QED BY <1>2, <1>3, BagOf

LEMMA BagSame ==
  ASSUME NEW S, NEW s \in Seq(S), NEW t \in Seq(S), ToBag(s) = ToBag(t)
  PROVE  SameCounts(s, t)
<1>1. PICK b : b = [x \in Range(s) |-> CountIn(s, {x})]
  OBVIOUS
<1>2. b = [x \in Range(t) |-> CountIn(t, {x})]
  BY <1>1, BagOf
<1>3. Range(s) = Range(t)
  BY <1>1, <1>2
<1>4. ASSUME NEW x PROVE CountIn(s, {x}) = CountIn(t, {x})
  <2>1. CASE x \in Range(s)
    <3>1. b[x] = CountIn(s, {x})
      BY <1>1, <2>1
    <3>2. b[x] = CountIn(t, {x})
      BY <1>2, <1>3, <2>1
    <3> QED BY <3>1, <3>2
  <2>2. CASE x \notin Range(s)
    <3>1. CountIn(s, {x}) = 0
      BY <2>2, InRange
    <3>2. CountIn(t, {x}) = 0
      BY <1>3, <2>2, InRange
    <3> QED BY <3>1, <3>2
  <2> QED BY <2>1, <2>2
<1> QED BY <1>4 DEF SameCounts

LEMMA CountInAppend ==
  ASSUME NEW S, NEW s \in Seq(S), NEW x \in S, NEW P
  PROVE  CountIn(Append(s, x), P) = CountIn(s, P) + CountIn(<<x>>, P)
<1>1. PICK v \in Seq(S) : v = <<x>>
  <2>1. <<x>> \in Seq(S)
    OBVIOUS
  <2> QED BY <2>1
<1>2. Append(s, x) = s \o v
  BY <1>1, AppendIsConcat
<1>3. CountIn(s \o v, P) = CountIn(s, P) + CountIn(v, P)
  BY CountInConcat
<1> QED BY <1>1, <1>2, <1>3

\* An injection of finitely many places is a bijection.
LEMMA OrderBijection ==
  ASSUME NEW n \in Nat, NEW p \in [1 .. n -> 1 .. n], IsInjective(p)
  PROVE  p \in Bijection(1 .. n, 1 .. n)
<1>1. p \in Injection(1 .. n, 1 .. n)
  BY DEF Injection
<1>2. IsFiniteSet(1 .. n)
  BY FS_Interval
<1>3. p \in Surjection(1 .. n, 1 .. n)
  BY <1>1, <1>2, FS_Injection
<1> QED BY <1>1, <1>3 DEF Bijection

-----------------------------------------------------------------------------
(***************************************************************************)
(* Results: counting the numbers of a sequence that are within a bound.    *)
(***************************************************************************)
Numbers == Seq(Nat)

\* The places of numbers that are within a bound.
Places(s, v) == {i \in DOMAIN s : s[i] <= v}

LEMMA PlacesAre ==
  ASSUME NEW s \in Numbers, NEW v
  PROVE  Places(s, v) = PlacesOf(s, {n \in Nat : n <= v})
<1>1. \A i \in DOMAIN s : s[i] \in Nat
  BY DEF Numbers
<1> QED BY <1>1 DEF Places, PlacesOf

LEMMA PlacesFinite ==
  ASSUME NEW s \in Numbers, NEW v
  PROVE  IsFiniteSet(Places(s, v)) /\ Cardinality(Places(s, v)) \in Nat
BY PlacesAre, PlacesOfFinite DEF CountIn, Numbers

LEMMA CountIs ==
  ASSUME NEW s, NEW v
  PROVE  CountWithin(s, v) = Cardinality(Places(s, v))
BY DEF CountWithin, Places

LEMMA CountWithinIs ==
  ASSUME NEW s \in Numbers, NEW v
  PROVE  CountWithin(s, v) = CountIn(s, {n \in Nat : n <= v})
BY CountIs, PlacesAre DEF CountIn

LEMMA CountConcat ==
  ASSUME NEW s \in Numbers, NEW t \in Numbers, NEW v
  PROVE  CountWithin(s \o t, v) = CountWithin(s, v) + CountWithin(t, v)
<1>1. PICK P : P = {n \in Nat : n <= v}
  OBVIOUS
<1>2. s \o t \in Numbers
  BY DEF Numbers
<1>3. CountIn(s \o t, P) = CountIn(s, P) + CountIn(t, P)
  BY CountInConcat DEF Numbers
<1> QED BY <1>1, <1>2, <1>3, CountWithinIs

LEMMA CountOrdered ==
  ASSUME NEW s \in Numbers, NEW t \in Numbers, NEW p, NEW v, Reordered(s, t, p)
  PROVE  CountWithin(t, v) = CountWithin(s, v)
<1>1. PICK P : P = {n \in Nat : n <= v}
  OBVIOUS
<1>2. CountIn(t, P) = CountIn(s, P)
  BY CountInOrdered DEF Numbers
<1> QED BY <1>1, <1>2, CountWithinIs

-----------------------------------------------------------------------------
(***************************************************************************)
(* Results: everything in one vector.                                      *)
(***************************************************************************)
\* The prefixes of a sequence of objects, each in one vector.
Flats(g, q) ==
  IsFlat(g, q, Len(q)) /\ Len(q) \in Nat \ {0} /\ q \in Seq(Numbers)

LEMMA FlatFirst ==
  ASSUME NEW g, NEW q, Flats(g, q)
  PROVE  g[1] = q[1] /\ q[1] \in Numbers
<1>1. 1 \in 1 .. Len(q)
  BY DEF Flats
<1>2. q[1] \in Numbers
  BY <1>1 DEF Flats
<1> QED BY <1>1, <1>2 DEF Flats, IsFlat

LEMMA FlatStep ==
  ASSUME NEW g, NEW q, Flats(g, q), NEW k \in Nat \ {0}, k + 1 <= Len(q)
  PROVE  g[k + 1] = g[k] \o q[k + 1] /\ q[k + 1] \in Numbers
<1>1. PICK i \in Nat : i = k + 1 /\ i \in 1 .. Len(q) /\ i # 1 /\ i - 1 = k
  BY DEF Flats
<1>2. g[i] = g[i - 1] \o q[i]
  BY <1>1 DEF Flats, IsFlat
<1>3. q[i] \in Numbers
  BY <1>1 DEF Flats
<1> QED BY <1>1, <1>2, <1>3

LEMMA FlatNumbers ==
  ASSUME NEW g, NEW q, Flats(g, q)
  PROVE  \A k \in 1 .. Len(q) : g[k] \in Numbers
<1> DEFINE G == {k \in Nat : k + 1 <= Len(q) => g[k + 1] \in Numbers}
<1>1. 0 \in G
  <2>1. g[0 + 1] \in Numbers
    BY FlatFirst
  <2> QED BY <2>1
<1>2. \A k \in Nat : k \in G => k + 1 \in G
  <2> SUFFICES ASSUME NEW k \in Nat, k \in G, k + 1 + 1 <= Len(q)
               PROVE  g[k + 1 + 1] \in Numbers
    OBVIOUS
  <2>1. PICK j \in Nat \ {0} : j = k + 1 /\ j + 1 <= Len(q)
    OBVIOUS
  <2>2. g[j] \in Numbers
    BY <2>1 DEF Flats
  <2>3. g[j + 1] = g[j] \o q[j + 1] /\ q[j + 1] \in Numbers
    BY <2>1, FlatStep
  <2> QED BY <2>1, <2>2, <2>3 DEF Numbers
<1> HIDE DEF G
<1>3. \A k \in Nat : k \in G
  BY <1>1, <1>2, SetInduction
<1>4. ASSUME NEW k \in 1 .. Len(q) PROVE g[k] \in Numbers
  <2>1. k - 1 \in G /\ k - 1 + 1 = k
    BY <1>3
  <2> QED BY <2>1 DEF G
<1> QED BY <1>4

\* A measure of sequences that adds up when they are joined.
Additive(m) ==
  m \in [Numbers -> Nat] /\ \A s, t \in Numbers : m[s \o t] = m[s] + m[t]

LEMMA MeasureFlat ==
  ASSUME NEW m, Additive(m), NEW q \in Seq(Numbers), q # <<>>
  PROVE  /\ FlattenSeq(q) \in Numbers
         /\ m[FlattenSeq(q)] = Total([i \in DOMAIN q |-> m[q[i]]])
<1>1. PICK n \in Nat \ {0} : n = Len(q) /\ DOMAIN q = 1 .. n
  OBVIOUS
<1>2. PICK g : IsFlat(g, q, Len(q)) /\ FlattenSeq(q) = g[Len(q)]
  BY <1>1, FlattenIs
<1>3. Flats(g, q)
  BY <1>1, <1>2 DEF Flats
<1>4. \A k \in 1 .. n : g[k] \in Numbers
  BY <1>1, <1>3, FlatNumbers
<1> DEFINE s == [i \in DOMAIN q |-> m[q[i]]]
<1>5. \A i \in 1 .. n : q[i] \in Numbers /\ s[i] = m[q[i]] /\ m[q[i]] \in Nat
  BY <1>1 DEF Additive
<1>6. s \in Seq(Int) /\ Len(s) = n
  BY <1>1, <1>5
<1> HIDE DEF s
<1>7. PICK p : RunningSum(p, s) /\ Total(s) = p[Len(s)]
  BY <1>6, TotalRuns
<1> DEFINE G == {k \in Nat : k + 1 <= n => m[g[k + 1]] = p[k + 1]}
<1>8. \A k \in 1 .. n : p[k] = p[k - 1] + s[k] /\ p[k - 1] \in Int
  <2>1. \A k \in 1 .. n : k - 1 \in 0 .. n
    OBVIOUS
  <2> QED BY <1>6, <1>7, <2>1 DEF RunningSum
<1>9. 0 \in G
  <2>1. g[1] = q[1] /\ 1 \in 1 .. n /\ 1 - 1 = 0
    BY <1>3, FlatFirst
  <2>2. p[1] = p[0] + s[1] /\ p[0] = 0
    BY <1>7, <1>8, <2>1 DEF RunningSum
  <2>3. m[g[0 + 1]] = p[0 + 1]
    BY <1>5, <2>1, <2>2
  <2> QED BY <2>3
<1>10. \A k \in Nat : k \in G => k + 1 \in G
  <2> SUFFICES ASSUME NEW k \in Nat, k \in G, k + 1 + 1 <= n
               PROVE  m[g[k + 1 + 1]] = p[k + 1 + 1]
    OBVIOUS
  <2>1. PICK j \in Nat \ {0} : j = k + 1 /\ j + 1 <= Len(q) /\ j \in 1 .. n /\ j + 1 \in 1 .. n
                               /\ j + 1 - 1 = j
    BY <1>1
  <2>2. m[g[j]] = p[j]
    BY <2>1
  <2>3. g[j + 1] = g[j] \o q[j + 1] /\ q[j + 1] \in Numbers /\ g[j] \in Numbers
    BY <1>3, <1>4, <2>1, FlatStep
  <2>4. m[g[j + 1]] = m[g[j]] + m[q[j + 1]]
    BY <2>3 DEF Additive
  <2>5. p[j + 1] = p[j] + s[j + 1]
    BY <1>8, <2>1
  <2> QED BY <1>5, <2>1, <2>2, <2>4, <2>5
<1> HIDE DEF G
<1>11. n - 1 \in G
  BY <1>9, <1>10, SetInduction
<1>12. m[g[n]] = p[n]
  BY <1>11 DEF G
<1>13. n \in 1 .. n
  OBVIOUS
<1> QED BY <1>1, <1>2, <1>4, <1>6, <1>7, <1>12, <1>13 DEF s

LEMMA CountFlat ==
  ASSUME NEW q \in Seq(Numbers), q # <<>>, NEW v
  PROVE  CountWithin(FlattenSeq(q), v) = Total([i \in DOMAIN q |-> CountWithin(q[i], v)])
<1> DEFINE m == [s \in Numbers |-> CountWithin(s, v)]
<1>1. ASSUME NEW s \in Numbers, NEW t \in Numbers
      PROVE  s \o t \in Numbers /\ CountWithin(s, v) \in Nat
             /\ CountWithin(s \o t, v) = CountWithin(s, v) + CountWithin(t, v)
  <2>1. s \o t \in Numbers
    BY DEF Numbers
  <2> QED BY <2>1, PlacesFinite, CountIs, CountConcat
<1>2. Additive(m)
  BY <1>1 DEF Additive
<1>3. \A i \in DOMAIN q : m[q[i]] = CountWithin(q[i], v)
  OBVIOUS
<1>4. [i \in DOMAIN q |-> m[q[i]]] = [i \in DOMAIN q |-> CountWithin(q[i], v)]
  BY <1>3
<1>5. \A s \in Numbers : m[s] = CountWithin(s, v)
  OBVIOUS
<1> HIDE DEF m
<1> QED BY <1>2, <1>4, <1>5, MeasureFlat

LEMMA LengthFlat ==
  ASSUME NEW q \in Seq(Numbers), q # <<>>
  PROVE  FlattenSeq(q) \in Numbers
         /\ Len(FlattenSeq(q)) = Total([i \in DOMAIN q |-> Len(q[i])])
<1> DEFINE m == [s \in Numbers |-> Len(s)]
<1>1. Additive(m)
  BY DEF Additive, Numbers
<1>2. \A i \in DOMAIN q : m[q[i]] = Len(q[i])
  OBVIOUS
<1>3. [i \in DOMAIN q |-> m[q[i]]] = [i \in DOMAIN q |-> Len(q[i])]
  BY <1>2
<1>4. \A s \in Numbers : m[s] = Len(s)
  OBVIOUS
<1> HIDE DEF m
<1> QED BY <1>1, <1>3, <1>4, MeasureFlat

-----------------------------------------------------------------------------
(***************************************************************************)
(* Results: sorting.                                                       *)
(***************************************************************************)
InOrder(t) == \A i, j \in DOMAIN t : i < j => t[i] <= t[j]

\* The first k numbers of s have an order: the next one is inserted into it.
IsOrder(p, s, k) ==
  /\ p \in [1 .. k -> 1 .. k] /\ IsInjective(p)
  /\ \A i, j \in 1 .. k : i < j => s[p[i]] <= s[p[j]]
HasOrder(s, k) == \E p : IsOrder(p, s, k)

LEMMA InsertOrder ==
  ASSUME NEW s \in Numbers, NEW k \in Nat, k + 1 <= Len(s), NEW p, IsOrder(p, s, k)
  PROVE  HasOrder(s, k + 1)
<1>1. Len(s) \in Nat /\ \A i \in 1 .. Len(s) : s[i] \in Nat
  BY DEF Numbers
<1>2. PICK x \in Nat : x = s[k + 1]
  BY <1>1
<1>3. /\ \A i \in 1 .. k : p[i] \in 1 .. k
      /\ \A i, j \in 1 .. k : p[i] = p[j] => i = j
      /\ \A i, j \in 1 .. k : i < j => s[p[i]] <= s[p[j]]
  BY DEF IsOrder, IsInjective
<1> DEFINE t == [i \in 1 .. k |-> s[p[i]]]
<1>4. \A i \in 1 .. k : t[i] = s[p[i]] /\ t[i] \in Nat
  BY <1>1, <1>3
<1>5. \A i, j \in 1 .. k : i < j => t[i] <= t[j]
  BY <1>3
<1> HIDE DEF t
<1> DEFINE S == {i \in 1 .. k : t[i] > x}
           f == Min({k + 1} \cup S)
<1>6. IsFirst(f, 1, k + 1, S)
  <2>1. S \subseteq 1 .. k + 1 - 1
    OBVIOUS
  <2> HIDE DEF S
  <2>2. PICK n \in Nat, m \in Nat : n = k + 1 /\ m = 1 /\ m <= n
    OBVIOUS
  <2>3. S \subseteq m .. n - 1
    BY <2>1, <2>2
  <2>4. IsFirst(Min({n} \cup S), m, n, S)
    BY <2>2, <2>3, FirstIs
  <2> QED BY <2>2, <2>4
<1>7. /\ f \in 1 .. k + 1 /\ (f # k + 1 => t[f] > x)
      /\ \A i \in 1 .. k : i < f => t[i] <= x
  <2>1. f \in 1 .. k + 1 /\ (f # k + 1 => f \in S) /\ \A i \in 1 .. f - 1 : i \notin S
    BY <1>6 DEF IsFirst
  <2> HIDE DEF f
  <2>2. ASSUME NEW i \in 1 .. k, i < f PROVE t[i] <= x
    <3>1. i \in 1 .. f - 1
      BY <2>1, <2>2
    <3>2. ~(t[i] > x)
      BY <2>1, <3>1
    <3> QED BY <1>2, <1>4, <3>2
  <2> QED BY <2>1, <2>2
<1> HIDE DEF f, S
<1> DEFINE q == [i \in 1 .. k + 1 |->
                   IF i < f THEN p[i] ELSE IF i = f THEN k + 1 ELSE p[i - 1]]
<1>8. ASSUME NEW i \in 1 .. k + 1
      PROVE  /\ i < f => i \in 1 .. k /\ q[i] = p[i] /\ s[q[i]] = t[i]
             /\ i = f => q[i] = k + 1 /\ s[q[i]] = x
             /\ i > f => i - 1 \in 1 .. k /\ q[i] = p[i - 1] /\ s[q[i]] = t[i - 1]
  <2>1. CASE i < f
    <3>1. i \in 1 .. k /\ q[i] = p[i] /\ i # f
      BY <1>7, <2>1
    <3> HIDE DEF q
    <3> QED BY <1>4, <1>7, <2>1, <3>1
  <2>2. CASE i = f
    <3>1. q[i] = k + 1
      BY <1>7, <2>2
    <3> HIDE DEF q
    <3> QED BY <1>2, <1>7, <2>2, <3>1
  <2>3. CASE i > f
    <3>1. i - 1 \in 1 .. k /\ q[i] = p[i - 1] /\ i # f
      BY <1>7, <2>3
    <3> HIDE DEF q
    <3> QED BY <1>4, <1>7, <2>3, <3>1
  <2> QED BY <1>7, <2>1, <2>2, <2>3
<1>9. q \in [1 .. k + 1 -> 1 .. k + 1]
  <2>1. ASSUME NEW i \in 1 .. k + 1 PROVE q[i] \in 1 .. k + 1
    <3> HIDE DEF q
    <3>1. i < f \/ i = f \/ i > f
      BY <1>7
    <3>2. \A a \in 1 .. k : p[a] \in 1 .. k + 1
      BY <1>3
    <3> QED BY <1>8, <3>1, <3>2
  <2> QED BY <2>1
<1> HIDE DEF q
<1>10. ASSUME NEW a \in 1 .. k + 1, NEW b \in 1 .. k + 1, a < b
       PROVE  q[a] # q[b] /\ s[q[a]] <= s[q[b]]
  <2>1. CASE b < f
    <3>1. /\ a \in 1 .. k /\ q[a] = p[a] /\ s[q[a]] = t[a]
          /\ b \in 1 .. k /\ q[b] = p[b] /\ s[q[b]] = t[b]
      BY <1>7, <1>8, <1>10, <2>1
    <3> QED BY <1>3, <1>5, <1>10, <3>1
  <2>2. CASE b = f
    <3>1. a \in 1 .. k /\ a < f /\ q[a] = p[a] /\ s[q[a]] = t[a] /\ q[b] = k + 1 /\ s[q[b]] = x
      BY <1>7, <1>8, <1>10, <2>2
    <3>2. p[a] \in 1 .. k
      BY <1>3, <3>1
    <3> QED BY <1>7, <3>1, <3>2
  <2>3. CASE f < b /\ a < f
    <3>1. /\ a \in 1 .. k /\ q[a] = p[a] /\ s[q[a]] = t[a]
          /\ b - 1 \in 1 .. k /\ q[b] = p[b - 1] /\ s[q[b]] = t[b - 1] /\ a < b - 1
      BY <1>7, <1>8, <2>3
    <3> QED BY <1>3, <1>5, <3>1
  <2>4. CASE f < b /\ a = f
    <3>1. /\ q[a] = k + 1 /\ s[q[a]] = x
          /\ b - 1 \in 1 .. k /\ q[b] = p[b - 1] /\ s[q[b]] = t[b - 1]
          /\ f \in 1 .. k /\ f # k + 1 /\ (f < b - 1 \/ f = b - 1)
      BY <1>7, <1>8, <2>4
    <3>2. p[b - 1] \in 1 .. k
      BY <1>3, <3>1
    <3>3. t[f] > x /\ t[f] <= t[b - 1] /\ t[f] \in Nat /\ t[b - 1] \in Nat
      BY <1>4, <1>5, <1>7, <3>1
    <3> QED BY <1>2, <3>1, <3>2, <3>3
  <2>5. CASE f < b /\ f < a
    <3>1. /\ a - 1 \in 1 .. k /\ q[a] = p[a - 1] /\ s[q[a]] = t[a - 1]
          /\ b - 1 \in 1 .. k /\ q[b] = p[b - 1] /\ s[q[b]] = t[b - 1] /\ a - 1 < b - 1
      BY <1>7, <1>8, <1>10, <2>5
    <3> QED BY <1>3, <1>5, <3>1
  <2> QED BY <1>7, <2>1, <2>2, <2>3, <2>4, <2>5
<1>11. IsInjective(q)
  <2>1. ASSUME NEW a \in 1 .. k + 1, NEW b \in 1 .. k + 1, a # b PROVE q[a] # q[b]
    <3>1. CASE a < b
      BY <1>10, <3>1
    <3>2. CASE b < a
      BY <1>10, <3>2
    <3> QED BY <2>1, <3>1, <3>2
  <2>2. DOMAIN q = 1 .. k + 1
    BY <1>9
  <2> QED BY <2>1, <2>2 DEF IsInjective
<1>12. IsOrder(q, s, k + 1)
  BY <1>9, <1>10, <1>11 DEF IsOrder
<1> QED BY <1>12 DEF HasOrder

LEMMA OrderExists ==
  ASSUME NEW s \in Numbers
  PROVE  HasOrder(s, Len(s))
<1> DEFINE G == {k \in Nat : k <= Len(s) => HasOrder(s, k)}
<1>1. 0 \in G
  <2> DEFINE p == [i \in 1 .. 0 |-> i]
  <2>1. (1 .. 0) = {}
    OBVIOUS
  <2>2. p \in [1 .. 0 -> 1 .. 0] /\ IsInjective(p)
    BY <2>1 DEF IsInjective
  <2> HIDE DEF p
  <2>3. IsOrder(p, s, 0)
    BY <2>1, <2>2 DEF IsOrder
  <2> QED BY <2>3 DEF HasOrder
<1>2. \A k \in Nat : k \in G => k + 1 \in G
  <2> SUFFICES ASSUME NEW k \in Nat, k \in G, k + 1 <= Len(s)
               PROVE  HasOrder(s, k + 1)
    OBVIOUS
  <2>1. Len(s) \in Nat
    BY DEF Numbers
  <2>2. HasOrder(s, k)
    BY <2>1
  <2>3. PICK p : IsOrder(p, s, k)
    BY <2>2 DEF HasOrder
  <2> QED BY <2>3, InsertOrder
<1> HIDE DEF G
<1>3. Len(s) \in Nat
  BY DEF Numbers
<1>4. Len(s) \in G
  BY <1>1, <1>2, <1>3, SetInduction
<1> QED BY <1>3, <1>4 DEF G

\* What std::sort leaves are the same numbers in order.
LEMMA SortedIs ==
  ASSUME NEW s \in Numbers, Len(s) <= MaxLatencies
  PROVE  /\ Sorted(s) \in Numbers /\ Len(Sorted(s)) = Len(s) /\ InOrder(Sorted(s))
         /\ \A v : CountWithin(Sorted(s), v) = CountWithin(s, v)
<1>1. PICK n \in Nat : n = Len(s) /\ DOMAIN s = 1 .. n /\ \A i \in 1 .. n : s[i] \in Nat
  BY DEF Numbers
<1> DEFINE order == CHOOSE p \in Orders[Len(s)] :
                      \A i, j \in 1 .. Len(s) : i < j => s[p[i]] <= s[p[j]]
<1>2. Orders[Len(s)] = {p \in [1 .. n -> 1 .. n] : IsInjective(p)}
  BY <1>1, ResultsAssumption DEF Orders
<1>3. \E p \in Orders[Len(s)] : \A i, j \in 1 .. Len(s) : i < j => s[p[i]] <= s[p[j]]
  BY <1>1, <1>2, OrderExists DEF HasOrder, IsOrder
<1>4. PICK p : p = order
  OBVIOUS
<1>5. /\ p \in [1 .. n -> 1 .. n] /\ IsInjective(p)
      /\ \A i, j \in 1 .. n : i < j => s[p[i]] <= s[p[j]]
  BY <1>1, <1>2, <1>3, <1>4
<1>6. Sorted(s) = [i \in 1 .. n |-> s[p[i]]]
  BY <1>1, <1>4 DEF Sorted
<1> HIDE DEF order
<1>7. PICK t : t = Sorted(s)
  OBVIOUS
<1>8. DOMAIN t = 1 .. n /\ \A i \in 1 .. n : t[i] = s[p[i]] /\ t[i] \in Nat
  BY <1>1, <1>5, <1>6, <1>7
<1>9. t \in Numbers /\ Len(t) = n
  BY <1>1, <1>5, <1>6, <1>7, <1>8 DEF Numbers
<1>10. InOrder(t)
  <2> SUFFICES ASSUME NEW i \in 1 .. n, NEW j \in 1 .. n, i < j PROVE t[i] <= t[j]
    BY <1>8 DEF InOrder
  <2>1. t[i] = s[p[i]] /\ t[j] = s[p[j]] /\ s[p[i]] <= s[p[j]]
    BY <1>5, <1>8
  <2> QED BY <2>1
<1>11. p \in Bijection(1 .. n, 1 .. n)
  BY <1>5, OrderBijection
<1>12. ASSUME NEW v PROVE CountWithin(t, v) = CountWithin(s, v)
  <2>1. Reordered(s, t, p)
    BY <1>1, <1>8, <1>11 DEF Reordered
  <2> QED BY <1>9, <2>1, CountOrdered
<1> QED BY <1>1, <1>7, <1>9, <1>10, <1>12

-----------------------------------------------------------------------------
(***************************************************************************)
(* Results: percentiles.                                                   *)
(***************************************************************************)
\* In order, the number at place i has i numbers within it and fewer below it.
LEMMA RankIs ==
  ASSUME NEW t \in Numbers, InOrder(t), NEW i \in 1 .. Len(t)
  PROVE  CountWithin(t, t[i]) >= i /\ CountWithin(t, t[i] - 1) <= i - 1
<1>1. PICK n \in Nat : n = Len(t) /\ DOMAIN t = 1 .. n /\ \A j \in 1 .. n : t[j] \in Nat
  BY DEF Numbers
<1>2. PICK k \in Nat : k = i /\ k \in 1 .. n
  BY <1>1
<1>3. (1 .. k) \subseteq Places(t, t[k])
  <2> SUFFICES ASSUME NEW j \in 1 .. k PROVE j \in 1 .. n /\ t[j] <= t[k]
    BY <1>1 DEF Places
  <2>1. j \in 1 .. n /\ (j = k \/ j < k)
    BY <1>2
  <2>2. j < k => t[j] <= t[k]
    BY <1>1, <1>2, <2>1 DEF InOrder
  <2> QED BY <1>1, <1>2, <2>1, <2>2
<1>4. Places(t, t[k] - 1) \subseteq 1 .. k - 1
  <2> SUFFICES ASSUME NEW j \in 1 .. n, t[j] <= t[k] - 1 PROVE j < k
    BY <1>1 DEF Places
  <2>1. k < j => t[k] <= t[j]
    BY <1>1, <1>2 DEF InOrder
  <2> QED BY <1>1, <1>2, <2>1
<1>5. IsFiniteSet(1 .. k) /\ Cardinality(1 .. k) = k
  BY <1>2, FS_Interval
<1>6. IsFiniteSet(1 .. k - 1) /\ Cardinality(1 .. k - 1) = k - 1
  <2>1. PICK m \in Nat : m = k - 1
    BY <1>2
  <2>2. IsFiniteSet(1 .. m) /\ Cardinality(1 .. m) = m
    BY FS_Interval
  <2> QED BY <2>1, <2>2
<1>7. IsFiniteSet(Places(t, t[k]))
  BY PlacesFinite
<1>8. k <= Cardinality(Places(t, t[k]))
  BY <1>3, <1>5, <1>7, FS_Subset
<1>9. Cardinality(Places(t, t[k] - 1)) <= k - 1
  BY <1>4, <1>6, FS_Subset
<1>10. Cardinality(Places(t, t[k])) \in Nat /\ Cardinality(Places(t, t[k] - 1)) \in Nat
  BY PlacesFinite
<1> QED BY <1>2, <1>8, <1>9, <1>10, CountIs

\* The place of a percentile, rounded down.
LEMMA PlaceIs ==
  ASSUME NEW n \in Nat \ {0}, NEW p \in 0 .. 99
  PROVE  \E i \in 1 .. n : /\ i = (n * p) \div 100 + 1
                           /\ i * 100 >= p * n /\ (i - 1) * 100 <= p * n
<1>1. PICK x \in Nat : x = n * p /\ x = p * n /\ x <= 99 * n
  <2>1. n * p \in Nat /\ n * p = p * n
    OBVIOUS
  <2>2. n * (99 - p) >= 0
    <3>1. PICK d \in Nat : d = 99 - p
      OBVIOUS
    <3>2. n * d >= 0
      OBVIOUS
    <3> QED BY <3>1, <3>2
  <2>3. n * (99 - p) = 99 * n - n * p
    OBVIOUS
  <2> QED BY <2>1, <2>2, <2>3
<1>2. PICK d \in Nat : d = x \div 100 /\ 100 * d <= x /\ x < 100 * d + 100
  OBVIOUS
<1>3. d + 1 \in 1 .. n
  BY <1>1, <1>2
<1>4. (d + 1) * 100 >= x /\ d + 1 - 1 = d /\ d * 100 <= x
  BY <1>2
<1> QED BY <1>1, <1>2, <1>3, <1>4

LEMMA PercentileIs ==
  ASSUME NEW t \in Numbers, InOrder(t), NEW n \in Nat \ {0}, n = Len(t), NEW p \in 0 .. 100
  PROVE  \E i \in 1 .. n : /\ getLatencyPercent(t, p) = t[i]
                           /\ i * 100 >= p * n /\ (i - 1) * 100 <= p * n
<1>1. t # <<>>
  OBVIOUS
<1>2. CASE p = 100
  <2>1. getLatencyPercent(t, p) = t[n]
    BY <1>1, <1>2 DEF getLatencyPercent
  <2>2. n \in 1 .. n /\ n * 100 >= p * n /\ (n - 1) * 100 <= p * n
    BY <1>2
  <2> QED BY <2>1, <2>2
<1>3. CASE p # 100
  <2>1. getLatencyPercent(t, p) = t[(n * p) \div 100 + 1]
    BY <1>1, <1>3 DEF getLatencyPercent
  <2>2. p \in 0 .. 99
    BY <1>3
  <2>3. PICK i \in 1 .. n : /\ i = (n * p) \div 100 + 1
                            /\ i * 100 >= p * n /\ (i - 1) * 100 <= p * n
    BY <2>2, PlaceIs
  <2> QED BY <2>1, <2>3
<1> QED BY <1>2, <1>3

-----------------------------------------------------------------------------
(***************************************************************************)
(* Results: the deviation.                                                 *)
(***************************************************************************)
\* The sum of the squares of the differences from a, taken apart.
LEMMA SquaresAbout ==
  ASSUME NEW t \in Numbers, NEW a \in Int, NEW n \in Nat, n = Len(t)
  PROVE  Total([i \in DOMAIN t |-> (t[i] - a) * (t[i] - a)])
           = Total([i \in 1 .. n |-> t[i] * t[i]]) - 2 * (a * Total(t)) + n * (a * a)
<1> DEFINE d == [i \in DOMAIN t |-> (t[i] - a) * (t[i] - a)]
           e == [i \in 1 .. n |-> t[i] * t[i]]
<1>1. DOMAIN t = 1 .. n /\ t \in Seq(Int) /\ \A i \in 1 .. n : t[i] \in Int
  BY DEF Numbers
<1>2. /\ d \in Seq(Int) /\ Len(d) = n
      /\ \A i \in 1 .. n : d[i] = (t[i] - a) * (t[i] - a)
  <2>1. \A i \in 1 .. n : (t[i] - a) * (t[i] - a) \in Int
    BY <1>1
  <2> QED BY <1>1, <2>1
<1>3. /\ e \in Seq(Int) /\ Len(e) = n
      /\ \A i \in 1 .. n : e[i] = t[i] * t[i]
  <2>1. \A i \in 1 .. n : t[i] * t[i] \in Int
    BY <1>1
  <2> QED BY <2>1
<1> HIDE DEF d, e
<1>4. PICK p : RunningSum(p, t) /\ Total(t) = p[Len(t)]
  BY <1>1, TotalRuns
<1>5. PICK q : RunningSum(q, e) /\ Total(e) = q[Len(e)]
  BY <1>3, TotalRuns
<1> DEFINE r == [k \in 0 .. n |-> q[k] - 2 * (a * p[k]) + k * (a * a)]
<1>6. /\ \A k \in 0 .. n : p[k] \in Int /\ q[k] \in Int
      /\ \A k \in 1 .. n : p[k] = p[k - 1] + t[k] /\ q[k] = q[k - 1] + e[k]
      /\ p[0] = 0 /\ q[0] = 0
  BY <1>3, <1>4, <1>5 DEF RunningSum
<1>7. \A k \in 0 .. n : r[k] = q[k] - 2 * (a * p[k]) + k * (a * a) /\ r[k] \in Int
  BY <1>6
<1>8. r \in [0 .. n -> Int] /\ r[0] = 0
  <2>1. 0 \in 0 .. n /\ r[0] = q[0] - 2 * (a * p[0]) + 0 * (a * a)
    BY <1>7
  <2>2. r[0] = 0
    BY <1>6, <2>1
  <2> QED BY <1>7, <2>2
<1>9. \A k \in 0 .. n : r[k] = q[k] - 2 * (a * p[k]) + k * (a * a)
  BY <1>7
<1> HIDE DEF r
<1>10. ASSUME NEW k \in 1 .. n PROVE r[k] = r[k - 1] + d[k]
  <2>1. PICK x \in Int, P \in Int, Q \in Int :
          x = t[k] /\ P = p[k - 1] /\ Q = q[k - 1]
    <3>1. k - 1 \in 0 .. n
      OBVIOUS
    <3> QED BY <1>1, <1>6, <3>1
  <2>2. p[k] = P + x /\ q[k] = Q + x * x /\ d[k] = (x - a) * (x - a)
    BY <1>2, <1>3, <1>6, <2>1
  <2>3. r[k - 1] = Q - 2 * (a * P) + (k - 1) * (a * a)
    <3>1. k - 1 \in 0 .. n
      OBVIOUS
    <3> QED BY <1>9, <2>1, <3>1
  <2>4. r[k] = (Q + x * x) - 2 * (a * (P + x)) + k * (a * a)
    BY <1>9, <2>2
  <2>5. (Q + x * x) - 2 * (a * (P + x)) + k * (a * a)
          = Q - 2 * (a * P) + (k - 1) * (a * a) + (x - a) * (x - a)
    OBVIOUS
  <2> QED BY <2>2, <2>3, <2>4, <2>5
<1>11. RunningSum(r, d)
  BY <1>2, <1>8, <1>10 DEF RunningSum
<1>12. Total(d) = r[n]
  BY <1>2, <1>11, TotalIs
<1>13. r[n] = q[n] - 2 * (a * p[n]) + n * (a * a)
  BY <1>9
<1> QED BY <1>3, <1>4, <1>5, <1>12, <1>13 DEF d, e

\* How far the average is cut.
LEMMA AverageIs ==
  ASSUME NEW t \in Numbers, NEW n \in Nat \ {0}, n = Len(t)
  PROVE  \E a \in Int : /\ a = AverageInMilliseconds(t) * Millisecond
                        /\ 0 <= Total(t) - n * a /\ Total(t) - n * a < n * Millisecond
<1>1. PICK T \in Nat, M \in Nat \ {0} : T = Total(t) /\ M = Millisecond
  BY TotalNat, ResultsAssumption DEF Numbers
<1>2. AverageInMilliseconds(t) = (T \div n) \div M
  <2>1. t # <<>>
    OBVIOUS
  <2> QED BY <1>1, <2>1 DEF AverageInMilliseconds, getAverageLatency
<1>3. PICK q \in Nat, r \in Nat : q = T \div n /\ T = n * q + r /\ r < n
  <2>1. T \div n \in Nat /\ T % n \in Nat /\ T % n < n
    OBVIOUS
  <2>2. T = n * (T \div n) + (T % n)
    OBVIOUS
  <2> QED BY <2>1, <2>2
<1>4. PICK c \in Nat, s \in Nat : c = q \div M /\ q = M * c + s /\ s < M
  <2>1. q \div M \in Nat /\ q % M \in Nat /\ q % M < M
    OBVIOUS
  <2>2. q = M * (q \div M) + (q % M)
    OBVIOUS
  <2> QED BY <2>1, <2>2
<1>5. T - n * (c * M) = n * s + r
  <2>1. T = n * (M * c + s) + r
    BY <1>3, <1>4
  <2>2. n * (M * c + s) = n * (c * M) + n * s
    OBVIOUS
  <2>3. n * (c * M) \in Int /\ n * s \in Int
    OBVIOUS
  <2> QED BY <2>1, <2>2, <2>3
<1>6. n * s + r < n * M
  <2>1. PICK d \in Nat : M = s + 1 + d
    <3>1. M - s - 1 \in Nat
      BY <1>4
    <3> QED BY <3>1
  <2>2. n * M = n * s + n + n * d
    BY <2>1
  <2>3. n * d >= 0 /\ n * s \in Nat /\ n * d \in Nat
    OBVIOUS
  <2> QED BY <1>3, <2>2, <2>3
<1>7. n * s + r >= 0 /\ c * M \in Int
  OBVIOUS
<1> QED BY <1>1, <1>2, <1>3, <1>4, <1>5, <1>6, <1>7

\* With the cut e, n times the sum of the squares about the average exceeds the
\* exact one by the square of e.
LEMMA DeviationIs ==
  ASSUME NEW Q \in Int, NEW T \in Int, NEW a \in Int, NEW n \in Nat, NEW M \in Nat,
         0 <= T - n * a, T - n * a < n * M
  PROVE  /\ n * Q - T * T <= n * (Q - 2 * (a * T) + n * (a * a))
         /\ n * (Q - 2 * (a * T) + n * (a * a)) < n * Q - T * T + n * n * (M * M)
<1>1. PICK e \in Nat : e = T - n * a
  <2>1. T - n * a \in Nat
    <3>1. n * a \in Int
      OBVIOUS
    <3> QED BY <3>1
  <2> QED BY <2>1
<1>2. PICK w \in Nat : w = n * M
  OBVIOUS
<1>3. T = e + n * a
  <2>1. n * a \in Int
    OBVIOUS
  <2> QED BY <1>1, <2>1
<1>4. n * (Q - 2 * (a * T) + n * (a * a)) = n * Q - T * T + e * e
  BY <1>3
<1>5. e * e >= 0 /\ e * e < w * w
  <2>1. PICK d \in Nat : w = e + 1 + d
    <3>1. w - e - 1 \in Nat
      BY <1>1, <1>2
    <3> QED BY <3>1
  <2>2. w * w = e * e + (1 + d) * (1 + d) + 2 * (e * (1 + d))
    BY <2>1
  <2>3. (1 + d) * (1 + d) > 0 /\ e * (1 + d) >= 0 /\ e * e >= 0
    <3>1. d * d >= 0 /\ e * d >= 0 /\ e * e >= 0
      OBVIOUS
    <3> QED BY <3>1
  <2>4. e * e \in Nat /\ (1 + d) * (1 + d) \in Nat /\ e * (1 + d) \in Nat
    OBVIOUS
  <2> QED BY <2>2, <2>3, <2>4
<1>6. w * w = n * n * (M * M)
  BY <1>2
<1>7. n * Q - T * T \in Int /\ e * e \in Int /\ w * w \in Int
  OBVIOUS
<1> QED BY <1>4, <1>5, <1>6, <1>7

-----------------------------------------------------------------------------
(***************************************************************************)
(* Results: the theorems.                                                  *)
(***************************************************************************)
LEMMA NumLatenciesIs ==
  ASSUME NEW q \in Seq(Numbers)
  PROVE  /\ [i \in DOMAIN q |-> Len(q[i])] \in Seq(Nat)
         /\ Total([i \in DOMAIN q |-> Len(q[i])]) \in Nat
<1>1. \A i \in DOMAIN q : Len(q[i]) \in Nat
  BY DEF Numbers
<1>2. [i \in DOMAIN q |-> Len(q[i])] \in Seq(Nat)
  BY <1>1
<1> QED BY <1>2, TotalNat

LEMMA ObjectsAre ==
  ASSUME NEW q \in Seq(Seq(Latencies))
  PROVE  q \in Seq(Numbers)
<1>1. ASSUME NEW s \in Seq(Latencies) PROVE s \in Numbers
  <2>1. \A i \in 1 .. Len(s) : s[i] \in Latencies
    OBVIOUS
  <2>2. \A i \in 1 .. Len(s) : s[i] \in Nat
    BY <2>1, ResultsAssumption
  <2>3. PICK n \in Nat : n = Len(s)
    OBVIOUS
  <2>4. s = [i \in 1 .. n |-> s[i]]
    BY <2>3
  <2>5. [i \in 1 .. n |-> s[i]] \in Seq(Nat)
    BY <2>2, <2>3
  <2> QED BY <2>4, <2>5 DEF Numbers
<1>2. \A i \in 1 .. Len(q) : q[i] \in Seq(Latencies)
  OBVIOUS
<1>3. \A i \in 1 .. Len(q) : q[i] \in Numbers
  BY <1>1, <1>2
<1>4. PICK n \in Nat : n = Len(q)
  OBVIOUS
<1>5. q = [i \in 1 .. n |-> q[i]]
  BY <1>4
<1>6. [i \in 1 .. n |-> q[i]] \in Seq(Numbers)
  BY <1>3, <1>4
<1> QED BY <1>5, <1>6

LEMMA StateIs ==
  ASSUME TypeOK
  PROVE  accumulatedResults \in Seq(Numbers) /\ accumulatedResults # <<>>
BY ObjectsAre DEF TypeOK

\* At any time the latencies are numbers, as many as are allowed.
THEOREM TypeCorrect == ResultsSpec => []TypeOK
<1>1. ASSUME ResultsInit PROVE TypeOK
  <2>1. accumulatedResults \in Seq(Seq(Latencies)) /\ accumulatedResults # <<>>
    BY <1>1 DEF ResultsInit
  <2> DEFINE s == [i \in DOMAIN accumulatedResults |-> Len(accumulatedResults[i])]
  <2>2. s \in Seq(Int) /\ Zeros(s)
    BY <1>1 DEF ResultsInit, Zeros
  <2> HIDE DEF s
  <2>3. Total(s) = 0
    BY <2>2, TotalZeros
  <2> QED BY <2>1, <2>3, ResultsAssumption DEF TypeOK, NumLatencies, s
<1>2. ASSUME TypeOK, [ResultsNext]_accumulatedResults PROVE TypeOK'
  <2>1. PICK q \in Seq(Seq(Latencies)) : q = accumulatedResults /\ q # <<>> /\ q \in Seq(Numbers)
    BY <1>2, StateIs DEF TypeOK
  <2>2. PICK n \in Nat \ {0} : n = Len(q) /\ DOMAIN q = 1 .. n
    BY <2>1
  <2>3. PICK s \in Seq(Nat) : /\ s = [i \in DOMAIN q |-> Len(q[i])]
                              /\ NumLatencies = Total(s) /\ Total(s) \in Nat
    BY <2>1, NumLatenciesIs DEF NumLatencies
  <2>4. ASSUME NEW latency \in Latencies, recordResult(latency) PROVE TypeOK'
    <3>1. PICK q2 : /\ q2 = accumulatedResults'
                    /\ q2 = [q EXCEPT ![n] = Append(q[n], latency)]
      BY <2>1, <2>2, <2>4 DEF recordResult
    <3>2. Append(q[n], latency) \in Seq(Latencies) /\ Len(Append(q[n], latency)) = Len(q[n]) + 1
          /\ Len(q[n]) \in Nat
      BY <2>2
    <3>3. q2 \in Seq(Seq(Latencies)) /\ q2 # <<>> /\ DOMAIN q2 = 1 .. n /\ q2[n] = Append(q[n], latency)
          /\ \A i \in 1 .. n : i # n => q2[i] = q[i]
      BY <2>2, <3>1, <3>2
    <3>4. q2 \in Seq(Numbers)
      BY <3>3, ObjectsAre
    <3>5. PICK s2 \in Seq(Nat) : s2 = [i \in DOMAIN q2 |-> Len(q2[i])]
      BY <3>4, NumLatenciesIs
    <3>6. Differ(s, s2, n, 1)
      BY <2>2, <2>3, <3>2, <3>3, <3>5 DEF Differ
    <3>7. Total(s2) = Total(s) + 1
      BY <3>6, TotalDiffers
    <3>8. NumLatencies' = Total(s2)
      BY <3>1, <3>5 DEF NumLatencies
    <3>9. NumLatencies < MaxLatencies
      BY <2>4 DEF recordResult
    <3> QED BY <2>3, <3>1, <3>3, <3>7, <3>8, <3>9, ResultsAssumption DEF TypeOK
  <2>5. CASE exchangeCounters
    <3>1. PICK q2 : q2 = accumulatedResults' /\ q2 = Append(q, <<>>)
      BY <2>1, <2>5 DEF exchangeCounters
    <3>2. PICK e \in Seq(Latencies) : e = <<>> /\ Len(e) = 0
      <4>1. <<>> \in Seq(Latencies)
        OBVIOUS
      <4>2. Len(<<>>) = 0
        OBVIOUS
      <4> QED BY <4>1, <4>2
    <3>3. q2 \in Seq(Seq(Latencies)) /\ q2 # <<>> /\ DOMAIN q2 = 1 .. n + 1 /\ q2[n + 1] = e
          /\ \A i \in 1 .. n : q2[i] = q[i]
      <4>1. q2 = Append(q, e)
        BY <3>1, <3>2
      <4>2. q \in Seq(Seq(Latencies)) /\ e \in Seq(Latencies) /\ Len(q) = n
        BY <2>1, <2>2, <3>2
      <4>3. Append(q, e) \in Seq(Seq(Latencies))
        BY <4>2
      <4>4. Len(Append(q, e)) = n + 1 /\ Append(q, e)[n + 1] = e
        BY <4>2
      <4>5. \A i \in 1 .. n : Append(q, e)[i] = q[i]
        BY <4>2
      <4>6. q2 \in Seq(Seq(Latencies)) /\ Len(q2) = n + 1
        BY <4>1, <4>3, <4>4
      <4>7. DOMAIN q2 = 1 .. n + 1 /\ q2 # <<>>
        BY <4>6, <2>2
      <4> QED BY <4>1, <4>4, <4>5, <4>6, <4>7
    <3>4. Append(s, 0) = [i \in DOMAIN q2 |-> Len(q2[i])]
      <4>1. Len(s) = n /\ \A i \in 1 .. n : s[i] = Len(q[i])
        BY <2>2, <2>3
      <4>2. PICK s1 \in Seq(Int) : /\ s1 = Append(s, 0) /\ Len(s1) = n + 1 /\ s1[n + 1] = 0
                                  /\ \A i \in 1 .. n : s1[i] = s[i]
        <5>1. s \in Seq(Int) /\ 0 \in Int
          BY <2>3
        <5>2. Append(s, 0) \in Seq(Int)
          BY <5>1
        <5>3. Len(Append(s, 0)) = n + 1 /\ Append(s, 0)[n + 1] = 0
          BY <4>1, <5>1
        <5>4. \A i \in 1 .. n : Append(s, 0)[i] = s[i]
          BY <4>1, <5>1
        <5> QED BY <5>2, <5>3, <5>4
      <4>3. PICK s2 \in Seq(Int) : /\ s2 = [i \in DOMAIN q2 |-> Len(q2[i])] /\ Len(s2) = n + 1
                                  /\ \A i \in 1 .. n + 1 : s2[i] = Len(q2[i])
        <5>1. [i \in DOMAIN q2 |-> Len(q2[i])] \in Seq(Nat)
          BY <3>3, ObjectsAre, NumLatenciesIs
        <5>2. PICK s2 \in Seq(Nat) : s2 = [i \in DOMAIN q2 |-> Len(q2[i])]
          BY <5>1
        <5>3. s2 \in Seq(Int)
          BY <5>2
        <5>4. DOMAIN s2 = 1 .. n + 1
          BY <3>3, <5>2
        <5>5. Len(s2) = n + 1
          BY <5>2, <5>4, <2>2
        <5>6. \A i \in 1 .. n + 1 : s2[i] = Len(q2[i])
          BY <3>3, <5>2
        <5> QED BY <5>2, <5>3, <5>5, <5>6
      <4>4. ASSUME NEW i \in 1 .. n + 1 PROVE s1[i] = s2[i]
        <5>1. CASE i = n + 1
          BY <3>2, <3>3, <4>2, <4>3, <5>1
        <5>2. CASE i # n + 1
          <6>1. i \in 1 .. n
            BY <5>2
          <6> QED BY <3>3, <4>1, <4>2, <4>3, <6>1
        <5> QED BY <5>1, <5>2
      <4>5. s1 = s2
        BY <4>2, <4>3, <4>4, SameSequence
      <4> QED BY <4>2, <4>3, <4>5
    <3>5. Total(Append(s, 0)) = Total(s) + 0
      <4>1. s \in Seq(Int)
        OBVIOUS
      <4> QED BY <4>1, TotalAppend
    <3>6. NumLatencies' = Total(Append(s, 0))
      BY <3>1, <3>4 DEF NumLatencies
    <3> QED BY <1>2, <2>3, <3>1, <3>3, <3>5, <3>6 DEF TypeOK
  <2>6. CASE UNCHANGED accumulatedResults
    BY <1>2, <2>6 DEF TypeOK, NumLatencies
  <2> QED BY <1>2, <2>4, <2>5, <2>6 DEF ResultsNext
<1> QED BY <1>1, <1>2, PTL DEF ResultsSpec

\* What is collected and sorted: everything measured.
LEMMA AllIs ==
  ASSUME TypeOK
  PROVE  /\ allLatencies \in Numbers /\ Len(allLatencies) = NumLatencies
         /\ InOrder(allLatencies) /\ NumLatencies \in Nat
         /\ \A v : CountWithin(allLatencies, v) = Within(v)
<1>1. PICK q \in Seq(Numbers) : q = accumulatedResults /\ q # <<>>
  BY StateIs
<1>2. FlattenSeq(q) \in Numbers /\ Len(FlattenSeq(q)) = NumLatencies
  BY <1>1, LengthFlat DEF NumLatencies
<1>3. NumLatencies \in Nat /\ NumLatencies <= MaxLatencies
  BY <1>1, NumLatenciesIs DEF NumLatencies, TypeOK
<1>4. PICK s \in Numbers : s = FlattenSeq(q) /\ Len(s) <= MaxLatencies
  BY <1>2, <1>3
<1>5. allLatencies = Sorted(s)
  BY <1>1, <1>4 DEF allLatencies
<1>6. /\ Sorted(s) \in Numbers /\ Len(Sorted(s)) = Len(s) /\ InOrder(Sorted(s))
      /\ \A v : CountWithin(Sorted(s), v) = CountWithin(s, v)
  BY <1>4, SortedIs
<1>7. ASSUME NEW v PROVE CountWithin(s, v) = Within(v)
  BY <1>1, <1>4, CountFlat DEF Within
<1> QED BY <1>2, <1>3, <1>4, <1>5, <1>6, <1>7

\* Whatever the latencies and however they are spread over the threads' objects,
\* the percentiles that ReportResults stores are those of everything measured.
THEOREM PercentilesRight == ResultsSpec => []PercentilesAgree
<1>1. ASSUME TypeOK PROVE PercentilesAgree
  <2>1. PICK t \in Numbers, n \in Nat :
          /\ t = allLatencies /\ n = NumLatencies /\ n = Len(t) /\ InOrder(t)
          /\ \A v : CountWithin(t, v) = Within(v)
    BY <1>1, AllIs
  <2>2. ASSUME n > 0, NEW p \in 0 .. 100
        PROVE  LET value == getLatencyPercent(t, p) IN
               /\ Within(value) > Within(value - 1)
               /\ Within(value) * 100 >= p * n
               /\ Within(value - 1) * 100 <= p * n
    <3>1. PICK i \in 1 .. n : /\ getLatencyPercent(t, p) = t[i]
                              /\ i * 100 >= p * n /\ (i - 1) * 100 <= p * n
      <4>1. n \in Nat \ {0} /\ n = Len(t) /\ InOrder(t)
        BY <2>1, <2>2
      <4> QED BY <4>1, PercentileIs
    <3>2. CountWithin(t, t[i]) >= i /\ CountWithin(t, t[i] - 1) <= i - 1
      BY <2>1, RankIs
    <3>3. PICK A \in Nat, B \in Nat : A = Within(t[i]) /\ B = Within(t[i] - 1)
      <4>1. CountWithin(t, t[i]) \in Nat /\ CountWithin(t, t[i] - 1) \in Nat
        BY PlacesFinite, CountIs
      <4> QED BY <2>1, <4>1
    <3>4. A >= i /\ B <= i - 1
      BY <2>1, <3>2, <3>3
    <3>5. PICK x \in Nat : x = p * n
      OBVIOUS
    <3>6. A > B /\ A * 100 >= x /\ B * 100 <= x
      BY <3>1, <3>4, <3>5
    <3> QED BY <3>1, <3>3, <3>5, <3>6
  <2> QED BY <2>1, <2>2 DEF PercentilesAgree
<1> QED BY <1>1, TypeCorrect, PTL

\* The average that getLatencyStdDev cuts to whole milliseconds makes the deviation
\* larger, and its square by less than a square millisecond.
THEOREM DeviationRight == ResultsSpec => []DeviationWithinAMillisecond
<1>1. ASSUME TypeOK PROVE DeviationWithinAMillisecond
  <2>1. PICK t \in Numbers, n \in Nat : t = allLatencies /\ n = NumLatencies /\ n = Len(t)
    BY <1>1, AllIs
  <2> DEFINE Q == Total([i \in 1 .. n |-> t[i] * t[i]])
  <2>2. ASSUME n > 0
        PROVE  /\ n * Q - Total(t) * Total(t) <= n * differences(t)
               /\ n * differences(t)
                    < n * Q - Total(t) * Total(t) + n * n * (Millisecond * Millisecond)
    <3>1. PICK a \in Int : /\ a = AverageInMilliseconds(t) * Millisecond
                           /\ 0 <= Total(t) - n * a /\ Total(t) - n * a < n * Millisecond
      <4>1. n \in Nat \ {0} /\ n = Len(t)
        BY <2>1, <2>2
      <4> QED BY <4>1, AverageIs
    <3>2. differences(t) = Q - 2 * (a * Total(t)) + n * (a * a)
      BY <2>1, <3>1, SquaresAbout DEF differences
    <3>3. Q \in Int
      <4>1. \A i \in 1 .. n : t[i] \in Int /\ t[i] * t[i] \in Int
        BY <2>1 DEF Numbers
      <4>2. [i \in 1 .. n |-> t[i] * t[i]] \in Seq(Int)
        BY <4>1
      <4> QED BY <4>2, TotalType
    <3>4. Total(t) \in Int /\ Millisecond \in Nat
      BY TotalNat, ResultsAssumption DEF Numbers
    <3> HIDE DEF Q
    <3> QED BY <3>1, <3>2, <3>3, <3>4, DeviationIs
  <2> QED BY <2>1, <2>2 DEF DeviationWithinAMillisecond
<1> QED BY <1>1, TypeCorrect, PTL

-----------------------------------------------------------------------------
(***************************************************************************)
(* OAuth: splitting.                                                       *)
(***************************************************************************)
IsSplit(g, s, x, k) ==
  g = [i \in 0 .. k |-> IF i = 0 THEN << <<>> >> ELSE AddByte(g[i - 1], s[i], x)]
HasSplit(s, x, k) == \E g : IsSplit(g, s, x, k)

LEMMA SplitExists ==
  ASSUME NEW s, NEW x, NEW n \in Nat
  PROVE  HasSplit(s, x, n)
<1> DEFINE G == {k \in Nat : HasSplit(s, x, k)}
<1>1. 0 \in G
  <2> DEFINE g == [i \in 0 .. 0 |-> << <<>> >>]
  <2>1. ASSUME NEW i \in 0 .. 0 PROVE g[i] = IF i = 0 THEN << <<>> >> ELSE AddByte(g[i - 1], s[i], x)
    BY <2>1
  <2>2. IsSplit(g, s, x, 0)
    BY <2>1 DEF IsSplit
  <2> QED BY <2>2 DEF HasSplit
<1>2. ASSUME NEW k \in Nat, HasSplit(s, x, k) PROVE HasSplit(s, x, k + 1)
  <2>1. PICK g : IsSplit(g, s, x, k)
    BY <1>2 DEF HasSplit
  <2>2. PICK v : v = AddByte(g[k], s[k + 1], x)
    OBVIOUS
  <2> DEFINE h == [i \in 0 .. k + 1 |-> IF i = k + 1 THEN v ELSE g[i]]
  <2>3. ASSUME NEW i \in 0 .. k + 1
        PROVE  h[i] = IF i = 0 THEN << <<>> >> ELSE AddByte(h[i - 1], s[i], x)
    <3>1. CASE i = k + 1
      <4>1. i # 0 /\ i - 1 = k /\ h[i] = v /\ h[k] = g[k]
        BY <1>2, <3>1
      <4> HIDE DEF h
      <4> QED BY <2>2, <3>1, <4>1
    <3>2. CASE i # k + 1
      <4>1. i \in 0 .. k /\ h[i] = g[i] /\ (i # 0 => h[i - 1] = g[i - 1])
        BY <1>2, <3>2
      <4>2. g[i] = IF i = 0 THEN << <<>> >> ELSE AddByte(g[i - 1], s[i], x)
        BY <2>1, <4>1 DEF IsSplit
      <4> HIDE DEF h
      <4> QED BY <4>1, <4>2
    <3> QED BY <3>1, <3>2
  <2>4. IsSplit(h, s, x, k + 1)
    BY <2>3 DEF IsSplit
  <2> QED BY <2>4 DEF HasSplit
<1>3. \A k \in Nat : k \in G => k + 1 \in G
  BY <1>2
<1> HIDE DEF G
<1>4. n \in G
  BY <1>1, <1>3, SetInduction
<1> QED BY <1>4 DEF G

LEMMA SplitIs ==
  ASSUME NEW s, NEW x, Len(s) \in Nat
  PROVE  \E g : IsSplit(g, s, x, Len(s)) /\ StrSplit(s, x) = g[Len(s)]
<1> DEFINE n == Len(s)
           parts == CHOOSE g : g = [i \in 0 .. n |->
                                     IF i = 0 THEN << <<>> >> ELSE AddByte(g[i - 1], s[i], x)]
<1>1. StrSplit(s, x) = parts[n]
  BY DEF StrSplit
<1>2. HasSplit(s, x, n)
  BY SplitExists
<1>3. \E g : g = [i \in 0 .. n |-> IF i = 0 THEN << <<>> >> ELSE AddByte(g[i - 1], s[i], x)]
  BY <1>2 DEF HasSplit, IsSplit
<1>4. IsSplit(parts, s, x, n)
  BY <1>3 DEF IsSplit
<1> QED BY <1>1, <1>4

LEMMA SplitUnique ==
  ASSUME NEW g, NEW h, NEW s, NEW t, NEW x, NEW k \in Nat, NEW m \in Nat, k <= m,
         IsSplit(g, s, x, k), IsSplit(h, t, x, m), \A i \in 1 .. k : s[i] = t[i]
  PROVE  \A i \in 0 .. k : g[i] = h[i]
<1> DEFINE G == {j \in Nat : j \in 0 .. k => g[j] = h[j]}
<1>1. 0 \in G
  <2>1. 0 \in 0 .. k /\ 0 \in 0 .. m
    OBVIOUS
  <2>2. g[0] = << <<>> >> /\ h[0] = << <<>> >>
    BY <2>1 DEF IsSplit
  <2> QED BY <2>2
<1>2. ASSUME NEW j \in Nat, j \in G PROVE j + 1 \in G
  <2> SUFFICES ASSUME j + 1 \in 0 .. k PROVE g[j + 1] = h[j + 1]
    OBVIOUS
  <2>1. PICK i \in 1 .. k : i = j + 1 /\ i \in 0 .. k /\ i \in 0 .. m /\ i - 1 = j /\ i # 0 /\ j \in 0 .. k
    BY <1>2
  <2>2. g[i] = AddByte(g[i - 1], s[i], x)
    BY <2>1 DEF IsSplit
  <2>3. h[i] = AddByte(h[i - 1], t[i], x)
    BY <2>1 DEF IsSplit
  <2>4. s[i] = t[i] /\ g[j] = h[j]
    BY <1>2, <2>1
  <2> QED BY <2>1, <2>2, <2>3, <2>4
<1>3. \A j \in Nat : j \in G => j + 1 \in G
  BY <1>2
<1> HIDE DEF G
<1>4. ASSUME NEW j \in 0 .. k PROVE g[j] = h[j]
  <2>1. j \in G
    BY <1>1, <1>3, SetInduction
  <2> QED BY <2>1 DEF G
<1> QED BY <1>4

LEMMA SplitEmpty ==
  ASSUME NEW x
  PROVE  StrSplit(<<>>, x) = << <<>> >>
<1>1. PICK n \in Nat : n = Len(<<>>) /\ n = 0
  OBVIOUS
<1>2. PICK g : IsSplit(g, <<>>, x, n) /\ StrSplit(<<>>, x) = g[n]
  BY <1>1, SplitIs
<1>3. 0 \in 0 .. n
  BY <1>1
<1> QED BY <1>1, <1>2, <1>3 DEF IsSplit

LEMMA SplitAppend ==
  ASSUME NEW S, NEW s \in Seq(S), NEW c \in S, NEW x
  PROVE  StrSplit(Append(s, c), x) = AddByte(StrSplit(s, x), c, x)
<1>0. PICK t \in Seq(S), n \in Nat : IsLonger(t, s, c, n)
  BY AppendIs
<1>1. n = Len(s)
  BY <1>0 DEF IsLonger
<1>2. /\ t = Append(s, c) /\ Len(t) = n + 1 /\ t[n + 1] = c
      /\ \A i \in 1 .. n : t[i] = s[i]
  BY <1>0 DEF IsLonger
<1>3. PICK g : IsSplit(g, s, x, n) /\ StrSplit(s, x) = g[n]
  BY <1>1, SplitIs
<1>4. PICK h : IsSplit(h, t, x, n + 1) /\ StrSplit(t, x) = h[n + 1]
  <2>1. Len(t) \in Nat
    BY <1>2
  <2> QED BY <1>2, <2>1, SplitIs
<1>5. \A i \in 0 .. n : g[i] = h[i]
  <2>1. \A i \in 1 .. n : s[i] = t[i]
    BY <1>2
  <2> QED BY <1>3, <1>4, <2>1, SplitUnique
<1>6. PICK i \in 0 .. n + 1 : i = n + 1 /\ i # 0 /\ i - 1 = n
  OBVIOUS
<1>7. h[i] = AddByte(h[i - 1], t[i], x)
  BY <1>4, <1>6 DEF IsSplit
<1>8. h[n] = g[n]
  BY <1>5
<1> QED BY <1>2, <1>3, <1>4, <1>6, <1>7, <1>8

\* There is a part, and every byte but the separator is in one.
Texts(S) == Seq(Seq(S)) \ {<<>>}

LEMMA SplitType ==
  ASSUME NEW S, NEW s \in Seq(S), NEW x
  PROVE  StrSplit(s, x) \in Texts(S)
<1> DEFINE A == {t \in Seq(S) : StrSplit(t, x) \in Texts(S)}
<1>1. <<>> \in A
  <2>1. <<>> \in Seq(S)
    BY EmptySeq
  <2>2. << <<>> >> \in Seq(Seq(S)) /\ << <<>> >> # <<>>
    BY <2>1
  <2> QED BY <2>1, <2>2, SplitEmpty DEF Texts
<1>2. ASSUME NEW t \in Seq(S), t \in A, NEW c \in S PROVE Append(t, c) \in A
  <2>1. PICK p \in Seq(Seq(S)) : p = StrSplit(t, x) /\ p # <<>>
    BY <1>2 DEF Texts
  <2>2. Append(t, c) \in Seq(S)
    BY AppendProperties
  <2>3. StrSplit(Append(t, c), x) = AddByte(p, c, x)
    BY <2>1, SplitAppend
  <2>4. CASE c = x
    <3>1. <<>> \in Seq(S)
      BY EmptySeq
    <3>2. Append(p, <<>>) \in Seq(Seq(S)) /\ Append(p, <<>>) # <<>>
      BY <3>1, AppendProperties
    <3> QED BY <2>2, <2>3, <2>4, <3>2 DEF AddByte, Texts
  <2>5. CASE c # x
    <3>1. PICK n \in 1 .. Len(p) : n = Len(p)
      BY <2>1, EmptySeq
    <3>2. Append(p[n], c) \in Seq(S)
      BY <3>1, AppendProperties
    <3>3. PICK q : q = [p EXCEPT ![n] = Append(p[n], c)]
      OBVIOUS
    <3>4. q \in Seq(Seq(S)) /\ Len(q) = Len(p)
      BY <3>1, <3>2, <3>3, ExceptSeq
    <3>5. q # <<>>
      BY <3>1, <3>4
    <3>6. AddByte(p, c, x) = q
      BY <2>5, <3>1, <3>3 DEF AddByte
    <3> QED BY <2>2, <2>3, <3>4, <3>5, <3>6 DEF Texts
  <2> QED BY <2>4, <2>5
<1>3. ClosedByAppend(A, S)
  BY <1>1, <1>2 DEF ClosedByAppend
<1> HIDE DEF A
<1>4. s \in A
  BY <1>3, SequenceInduction
<1> QED BY <1>4 DEF A

\* What follows the last separator is the last part.
LEMMA SplitAtLast ==
  ASSUME NEW S, NEW x \in S, NEW s \in Seq(S), NEW t \in Seq(S \ {x})
  PROVE  StrSplit(Append(s, x) \o t, x) = Append(StrSplit(s, x), t)
<1> DEFINE R == S \ {x}
<1>0. PICK p \in Seq(Seq(S)) : p = StrSplit(s, x)
  BY SplitType DEF Texts
<1>1. PICK sx \in Seq(S) : sx = Append(s, x)
  BY AppendProperties
<1> DEFINE A == {u \in Seq(R) : StrSplit(sx \o u, x) = Append(p, u)}
<1>2. <<>> \in A
  <2>1. sx \o <<>> = sx
    BY ConcatEmptySeq
  <2>2. StrSplit(sx, x) = Append(p, <<>>)
    BY <1>0, <1>1, SplitAppend DEF AddByte
  <2>3. <<>> \in Seq(R)
    BY EmptySeq
  <2> QED BY <2>1, <2>2, <2>3
<1>3. ASSUME NEW u \in Seq(R), u \in A, NEW c \in R PROVE Append(u, c) \in A
  <2>1. u \in Seq(S) /\ c \in S /\ c # x
    BY SeqMonotonic
  <2>2. sx \o Append(u, c) = Append(sx \o u, c)
    BY <2>1, ConcatAppend
  <2>3. sx \o u \in Seq(S)
    BY <2>1, ConcatProperties
  <2>4. StrSplit(Append(sx \o u, c), x) = AddByte(Append(p, u), c, x)
    BY <1>3, <2>1, <2>3, SplitAppend
  <2>5. PICK q \in Seq(Seq(S)), n \in Nat : IsLonger(q, p, u, n)
    BY <2>1, AppendIs
  <2>6. PICK uc \in Seq(S) : uc = Append(u, c)
    BY <2>1, AppendProperties
  <2>7. n + 1 \in 1 .. Len(q) /\ Len(q) = n + 1 /\ q[n + 1] = u
    BY <2>5 DEF IsLonger
  <2>8. AddByte(q, c, x) = [q EXCEPT ![n + 1] = uc]
    BY <2>1, <2>6, <2>7 DEF AddByte
  <2>9. [q EXCEPT ![n + 1] = uc] = Append(p, uc)
    <3>1. PICK r \in Seq(Seq(S)) : r = [q EXCEPT ![n + 1] = uc] /\ Len(r) = n + 1
      <4>1. PICK k \in 1 .. Len(q) : k = n + 1
        BY <2>7
      <4>2. [q EXCEPT ![k] = uc] \in Seq(Seq(S))
        BY ExceptSeq
      <4>3. Len([q EXCEPT ![k] = uc]) = Len(q)
        BY ExceptSeq
      <4> QED BY <2>7, <4>1, <4>2, <4>3
    <3>2. PICK v \in Seq(Seq(S)), m \in Nat : IsLonger(v, p, uc, m)
      BY AppendIs
    <3>3. m = n /\ Len(v) = n + 1 /\ v = Append(p, uc)
      BY <2>5, <3>2 DEF IsLonger
    <3>4. ASSUME NEW j \in 1 .. n + 1 PROVE r[j] = v[j]
      <4>1. CASE j = n + 1
        <5>1. r[j] = uc
          BY <2>7, <3>1, <4>1
        <5> QED BY <3>2, <3>3, <4>1, <5>1 DEF IsLonger
      <4>2. CASE j # n + 1
        <5>1. j \in 1 .. n /\ j \in 1 .. Len(q)
          BY <2>7, <4>2
        <5>2. r[j] = q[j]
          BY <3>1, <4>2, <5>1
        <5>3. q[j] = p[j]
          BY <2>5, <5>1 DEF IsLonger
        <5> QED BY <3>2, <3>3, <5>1, <5>2, <5>3 DEF IsLonger
      <4> QED BY <4>1, <4>2
    <3>5. r = v
      BY <3>1, <3>3, <3>4, SeqEqual
    <3> QED BY <3>1, <3>3, <3>5
  <2>10. Append(u, c) \in Seq(R)
    BY AppendProperties
  <2>11. q = Append(p, u)
    BY <2>5 DEF IsLonger
  <2> QED BY <2>2, <2>4, <2>6, <2>8, <2>9, <2>10, <2>11
<1>4. ClosedByAppend(A, R)
  BY <1>2, <1>3 DEF ClosedByAppend
<1> HIDE DEF A
<1>5. t \in A
  BY <1>4, SequenceInduction
<1> QED BY <1>0, <1>1, <1>5 DEF A

\* A text without separators is one part.
LEMMA SplitNone ==
  ASSUME NEW S, NEW x, x \notin S, NEW t \in Seq(S)
  PROVE  StrSplit(t, x) = <<t>>
<1> DEFINE A == {u \in Seq(S) : StrSplit(u, x) = <<u>>}
<1>1. <<>> \in A
  BY SplitEmpty, EmptySeq
<1>2. ASSUME NEW u \in Seq(S), u \in A, NEW c \in S PROVE Append(u, c) \in A
  <2>1. Append(u, c) \in Seq(S)
    BY AppendProperties
  <2>2. StrSplit(Append(u, c), x) = AddByte(<<u>>, c, x)
    BY <1>2, SplitAppend
  <2>3. AddByte(<<u>>, c, x) = [<<u>> EXCEPT ![1] = Append(u, c)]
    BY DEF AddByte
  <2>4. [<<u>> EXCEPT ![1] = Append(u, c)] = <<Append(u, c)>>
    OBVIOUS
  <2> QED BY <2>1, <2>2, <2>3, <2>4
<1>3. ClosedByAppend(A, S)
  BY <1>1, <1>2 DEF ClosedByAppend
<1> HIDE DEF A
<1>4. t \in A
  BY <1>3, SequenceInduction
<1> QED BY <1>4 DEF A

-----------------------------------------------------------------------------
(***************************************************************************)
(* OAuth: encoding and escaping: each byte becomes some.                   *)
(***************************************************************************)
Byte == 0 .. 255
Text == Seq(Byte)

Coded(f, s) == FlattenSeq(Mapped(f, s))

LEMMA CodedEmpty ==
  ASSUME NEW f
  PROVE  Coded(f, <<>>) = <<>>
<1>1. Mapped(f, <<>>) = <<>>
  BY DEF Mapped
<1> QED BY <1>1, FlattenEmpty DEF Coded

LEMMA CodedAppend ==
  ASSUME NEW B, NEW C, NEW f \in [B -> Seq(C)], NEW s \in Seq(B), NEW b \in B
  PROVE  Coded(f, Append(s, b)) = Coded(f, s) \o f[b]
<1>1. PICK q \in Seq(Seq(C)) : q = Mapped(f, s)
  BY MapType
<1>2. Mapped(f, Append(s, b)) = Append(q, f[b])
  BY <1>1, MapAppend
<1>3. FlattenSeq(Append(q, f[b])) = FlattenSeq(q) \o f[b]
  BY FlattenAppend
<1> QED BY <1>1, <1>2, <1>3 DEF Coded

LEMMA CodedType ==
  ASSUME NEW B, NEW C, NEW f \in [B -> Seq(C)], NEW s \in Seq(B)
  PROVE  Coded(f, s) \in Seq(C)
<1>1. Mapped(f, s) \in Seq(Seq(C))
  BY MapType
<1> QED BY <1>1, FlattenType DEF Coded

-----------------------------------------------------------------------------
(***************************************************************************)
(* OAuth: decoding.                                                        *)
(***************************************************************************)
HexDigits == 48 .. 57 \cup 65 .. 70

\* Every percent has its two digits.
WellEscaped(s) ==
  \A i \in DOMAIN s : s[i] = Percent =>
    i + 2 \in DOMAIN s /\ s[i + 1] \in HexDigits /\ s[i + 2] \in HexDigits

LEMMA HexValueIs ==
  ASSUME NEW h \in HexDigits
  PROVE  HexValue(h) \in 0 .. 15
BY DEF HexDigits, HexValue

LEMMA HexDigitIs ==
  ASSUME NEW d \in 0 .. 15
  PROVE  HexDigit(d) \in HexDigits /\ HexValue(HexDigit(d)) = d
<1>1. CASE d < 10
  <2>1. HexDigit(d) = 48 + d /\ 48 + d \in 48 .. 57
    BY <1>1 DEF HexDigit
  <2>2. HexValue(48 + d) = d
    BY <2>1 DEF HexValue
  <2> QED BY <2>1, <2>2 DEF HexDigits
<1>2. CASE ~(d < 10)
  <2>1. HexDigit(d) = 55 + d /\ 55 + d \in 65 .. 70
    BY <1>2 DEF HexDigit
  <2>2. HexValue(55 + d) = d
    BY <2>1 DEF HexValue
  <2> QED BY <2>1, <2>2 DEF HexDigits
<1> QED BY <1>1, <1>2

LEMMA DecodedAtType ==
  ASSUME NEW s \in Text, WellEscaped(s), NEW i \in DOMAIN s
  PROVE  decodedAt(s, i) \in Text
<1>1. <<>> \in Text /\ <<Space>> \in Text
  BY EmptySeq DEF Text, Byte, Space
<1>2. <<s[i]>> \in Text
  BY DEF Text
<1>3. CASE s[i] # Percent
  BY <1>1, <1>2, <1>3 DEF decodedAt
<1>4. CASE s[i] = Percent
  <2>1. s[i + 1] \in HexDigits /\ s[i + 2] \in HexDigits
    BY <1>4 DEF WellEscaped
  <2>2. PICK a \in 0 .. 15, b \in 0 .. 15 : a = HexValue(s[i + 1]) /\ b = HexValue(s[i + 2])
    BY <2>1, HexValueIs
  <2>3. 16 * a + b \in Byte
    BY DEF Byte
  <2>4. <<16 * HexValue(s[i + 1]) + HexValue(s[i + 2])>> \in Text
    BY <2>2, <2>3 DEF Text
  <2> QED BY <1>1, <1>2, <2>4 DEF decodedAt
<1> QED BY <1>3, <1>4

LEMMA PiecesAre ==
  ASSUME NEW s \in Text, WellEscaped(s)
  PROVE  [i \in DOMAIN s |-> decodedAt(s, i)] \in Seq(Text)
<1>1. PICK n \in Nat : n = Len(s) /\ DOMAIN s = 1 .. n
  BY DEF Text
<1>2. \A i \in 1 .. n : decodedAt(s, i) \in Text
  BY <1>1, DecodedAtType
<1>3. [i \in 1 .. n |-> decodedAt(s, i)] \in [1 .. n -> Text]
  BY <1>2
<1>4. [i \in 1 .. n |-> decodedAt(s, i)] \in Seq(Text)
  BY <1>3
<1> QED BY <1>1, <1>4

LEMMA DecodeType ==
  ASSUME NEW s \in Text, WellEscaped(s)
  PROVE  decode(s) \in Text
<1>1. [i \in DOMAIN s |-> decodedAt(s, i)] \in Seq(Seq(Byte))
  BY PiecesAre DEF Text
<1> QED BY <1>1, FlattenType DEF decode, Text

LEMMA EscapedConcat ==
  ASSUME NEW u \in Text, NEW s \in Text, NEW t \in Text, NEW n \in Nat, NEW m \in Nat,
         Joined(u, s, t, n, m), WellEscaped(s), WellEscaped(t)
  PROVE  WellEscaped(u)
<1> SUFFICES ASSUME NEW i \in 1 .. n + m, u[i] = Percent
             PROVE  i + 2 \in 1 .. n + m /\ u[i + 1] \in HexDigits /\ u[i + 2] \in HexDigits
  BY DEF WellEscaped, Joined
<1>1. CASE i <= n
  <2>1. i \in 1 .. n /\ s[i] = Percent
    BY <1>1 DEF Joined
  <2>2. i + 2 \in 1 .. n /\ s[i + 1] \in HexDigits /\ s[i + 2] \in HexDigits
    BY <2>1 DEF WellEscaped, Joined
  <2>3. i + 1 \in 1 .. n
    BY <2>2
  <2> QED BY <2>2, <2>3 DEF Joined
<1>2. CASE i > n
  <2>1. PICK j \in 1 .. m : i = n + j
    <3>1. i - n \in 1 .. m /\ i = n + (i - n)
      BY <1>2
    <3> QED BY <3>1
  <2>2. t[j] = Percent
    BY <2>1 DEF Joined
  <2>3. j + 2 \in 1 .. m /\ t[j + 1] \in HexDigits /\ t[j + 2] \in HexDigits
    BY <2>2 DEF WellEscaped, Joined
  <2>4. PICK j1 \in 1 .. m, j2 \in 1 .. m : j1 = j + 1 /\ j2 = j + 2 /\ i + 1 = n + j1 /\ i + 2 = n + j2
    BY <2>1, <2>3
  <2>5. u[n + j1] = t[j1] /\ u[n + j2] = t[j2]
    BY DEF Joined
  <2> QED BY <2>1, <2>3, <2>4, <2>5
<1> QED BY <1>1, <1>2

\* An escape does not reach over the end of a text that is well escaped.
LEMMA DecodedLeft ==
  ASSUME NEW u \in Text, NEW s \in Text, NEW t \in Text, NEW n \in Nat, NEW m \in Nat,
         Joined(u, s, t, n, m), WellEscaped(s), NEW i \in 1 .. n
  PROVE  decodedAt(u, i) = decodedAt(s, i)
<1>1. u[i] = s[i] /\ DOMAIN s = 1 .. n /\ DOMAIN u = 1 .. n + m /\ Len(s) = n /\ Len(u) = n + m
  BY DEF Joined
<1>2. InEscape(u, i) <=> InEscape(s, i)
  <2>1. ASSUME NEW d \in {1, 2}
        PROVE  (i - d \in DOMAIN u /\ u[i - d] = Percent) <=> (i - d \in DOMAIN s /\ s[i - d] = Percent)
    <3>1. i - d \in 1 .. n + m <=> i - d \in 1 .. n
      OBVIOUS
    <3>2. i - d \in 1 .. n => u[i - d] = s[i - d]
      BY DEF Joined
    <3> QED BY <1>1, <3>1, <3>2
  <2> QED BY <2>1 DEF InEscape
<1>3. CASE s[i] # Percent
  BY <1>1, <1>2, <1>3 DEF decodedAt
<1>4. CASE s[i] = Percent
  <2>1. i + 2 \in 1 .. n
    BY <1>1, <1>4 DEF WellEscaped
  <2>2. i + 1 \in 1 .. n
    BY <2>1
  <2>3. u[i + 1] = s[i + 1] /\ u[i + 2] = s[i + 2]
    BY <2>1, <2>2 DEF Joined
  <2>4. ~(i + 2 > Len(s)) /\ ~(i + 2 > Len(u))
    BY <1>1, <2>1
  <2> QED BY <1>1, <1>2, <2>3, <2>4 DEF decodedAt
<1> QED BY <1>3, <1>4

LEMMA DecodedRight ==
  ASSUME NEW u \in Text, NEW s \in Text, NEW t \in Text, NEW n \in Nat, NEW m \in Nat,
         Joined(u, s, t, n, m), WellEscaped(s), WellEscaped(t), NEW i \in 1 .. m
  PROVE  decodedAt(u, n + i) = decodedAt(t, i)
<1>1. u[n + i] = t[i] /\ DOMAIN t = 1 .. m /\ DOMAIN u = 1 .. n + m /\ Len(t) = m /\ Len(u) = n + m
      /\ DOMAIN s = 1 .. n
  BY DEF Joined
<1>2. InEscape(u, n + i) <=> InEscape(t, i)
  <2>1. ASSUME NEW d \in {1, 2}
        PROVE  ((n + i) - d \in DOMAIN u /\ u[(n + i) - d] = Percent)
                  <=> (i - d \in DOMAIN t /\ t[i - d] = Percent)
    <3>1. CASE i - d >= 1
      <4>1. PICK j \in 1 .. m : j = i - d /\ (n + i) - d = n + j
        BY <3>1
      <4>2. n + j \in 1 .. n + m /\ u[n + j] = t[j]
        BY DEF Joined
      <4> QED BY <1>1, <4>1, <4>2
    <3>2. CASE ~(i - d >= 1)
      <4>1. i - d \notin 1 .. m
        BY <3>2
      <4>2. ASSUME (n + i) - d \in 1 .. n + m, u[(n + i) - d] = Percent PROVE FALSE
        <5>1. PICK j \in 1 .. n : j = (n + i) - d /\ ~(j + 2 <= n)
          BY <3>2, <4>2
        <5>2. s[j] = Percent
          BY <4>2, <5>1 DEF Joined
        <5>3. j + 2 \in 1 .. n
          BY <1>1, <5>2 DEF WellEscaped
        <5> QED BY <5>1, <5>3
      <4> QED BY <1>1, <4>1, <4>2
    <3> QED BY <3>1, <3>2
  <2> QED BY <2>1 DEF InEscape
<1>3. CASE t[i] # Percent
  BY <1>1, <1>2, <1>3 DEF decodedAt
<1>4. CASE t[i] = Percent
  <2>1. i + 2 \in 1 .. m
    BY <1>1, <1>4 DEF WellEscaped
  <2>2. PICK j1 \in 1 .. m, j2 \in 1 .. m :
          j1 = i + 1 /\ j2 = i + 2 /\ (n + i) + 1 = n + j1 /\ (n + i) + 2 = n + j2
    BY <2>1
  <2>3. u[n + j1] = t[j1] /\ u[n + j2] = t[j2]
    BY DEF Joined
  <2>4. ~(i + 2 > Len(t)) /\ ~((n + i) + 2 > Len(u))
    BY <1>1, <2>1
  <2>5. u[(n + i) + 1] = t[i + 1] /\ u[(n + i) + 2] = t[i + 2]
    BY <2>2, <2>3
  <2> QED BY <1>1, <1>2, <2>4, <2>5 DEF decodedAt
<1> QED BY <1>3, <1>4

LEMMA DecodeConcat ==
  ASSUME NEW s \in Text, NEW t \in Text, WellEscaped(s), WellEscaped(t)
  PROVE  WellEscaped(s \o t) /\ decode(s \o t) = decode(s) \o decode(t)
<1>1. PICK u \in Text, n \in Nat, m \in Nat : Joined(u, s, t, n, m)
  BY ConcatIs DEF Text
<1>2. WellEscaped(u)
  BY <1>1, EscapedConcat
<1>3. PICK p \in Seq(Text) : p = [i \in DOMAIN s |-> decodedAt(s, i)]
  BY PiecesAre
<1>4. PICK q \in Seq(Text) : q = [i \in DOMAIN t |-> decodedAt(t, i)]
  BY PiecesAre
<1>5. PICK r \in Seq(Text) : r = [i \in DOMAIN u |-> decodedAt(u, i)]
  BY <1>2, PiecesAre
<1>6. DOMAIN s = 1 .. n /\ DOMAIN t = 1 .. m /\ DOMAIN u = 1 .. n + m /\ u = s \o t
  BY <1>1 DEF Joined
<1>7. PICK v \in Seq(Text), k \in Nat, l \in Nat : Joined(v, p, q, k, l)
  BY ConcatIs
<1>8. Len(p) = n /\ Len(q) = m /\ Len(r) = n + m
  BY <1>3, <1>4, <1>5, <1>6
<1>9. k = n /\ l = m /\ Len(v) = n + m /\ v = p \o q
  BY <1>7, <1>8 DEF Joined
<1>10. ASSUME NEW i \in 1 .. n + m PROVE r[i] = v[i]
  <2>1. r[i] = decodedAt(u, i)
    BY <1>5, <1>6
  <2>2. CASE i <= n
    <3>1. i \in 1 .. n
      BY <2>2
    <3>2. decodedAt(u, i) = decodedAt(s, i)
      BY <1>1, <3>1, DecodedLeft
    <3>3. v[i] = p[i]
      BY <1>7, <1>9, <3>1 DEF Joined
    <3>4. p[i] = decodedAt(s, i)
      BY <1>3, <1>6, <3>1
    <3> QED BY <2>1, <3>2, <3>3, <3>4
  <2>3. CASE i > n
    <3>1. PICK j \in 1 .. m : i = n + j
      <4>1. i - n \in 1 .. m /\ i = n + (i - n)
        BY <2>3
      <4> QED BY <4>1
    <3>2. decodedAt(u, n + j) = decodedAt(t, j)
      BY <1>1, DecodedRight
    <3>3. v[n + j] = q[j]
      BY <1>7, <1>9 DEF Joined
    <3>4. q[j] = decodedAt(t, j)
      BY <1>4, <1>6
    <3> QED BY <2>1, <3>1, <3>2, <3>3, <3>4
  <2> QED BY <2>2, <2>3
<1>11. r = p \o q
  BY <1>8, <1>9, <1>10, SeqEqual
<1>12. FlattenSeq(p \o q) = FlattenSeq(p) \o FlattenSeq(q)
  BY FlattenConcat DEF Text
<1> QED BY <1>2, <1>3, <1>4, <1>5, <1>6, <1>11, <1>12 DEF decode

-----------------------------------------------------------------------------
(***************************************************************************)
(* OAuth: each byte by itself.                                             *)
(***************************************************************************)
\* What encoding and escaping write: neither "&" nor "=".
Codes == {b \in 16 .. 127 : b # Ampersand /\ b # Equals}

IsCode(s, b) == s \in Seq(Codes) /\ WellEscaped(s) /\ decode(s) = <<b>>

LEMMA DecodeByte ==
  ASSUME NEW c \in Codes, c # Percent, NEW b \in Byte, b = IF c = Plus THEN Space ELSE c
  PROVE  IsCode(<<c>>, b)
<1>1. PICK s \in Text : s = <<c>>
  <2>1. c \in Byte
    BY DEF Codes, Byte
  <2>2. <<c>> \in Seq(Byte)
    BY <2>1
  <2> QED BY <2>2 DEF Text
<1>2. DOMAIN s = 1 .. 1 /\ s[1] = c
  BY <1>1
<1>3. ~InEscape(s, 1)
  BY <1>2 DEF InEscape
<1>4. decodedAt(s, 1) = <<b>>
  BY <1>2, <1>3 DEF decodedAt
<1>5. [i \in DOMAIN s |-> decodedAt(s, i)] = << <<b>> >>
  BY <1>2, <1>4
<1>6. <<b>> \in Seq(Byte)
  OBVIOUS
<1>7. decode(s) = <<b>>
  BY <1>5, <1>6, FlattenOne DEF decode
<1>8. WellEscaped(s)
  BY <1>2 DEF WellEscaped
<1>9. <<c>> \in Seq(Codes)
  OBVIOUS
<1> QED BY <1>1, <1>7, <1>8, <1>9 DEF IsCode

LEMMA DecodeEscape ==
  ASSUME NEW h \in HexDigits, NEW l \in HexDigits, NEW b \in Byte,
         b = 16 * HexValue(h) + HexValue(l)
  PROVE  IsCode(<<Percent, h, l>>, b)
<1>1. Percent \in Codes /\ h \in Codes /\ l \in Codes
  BY DEF HexDigits, Codes, Percent, Ampersand, Equals
<1>2. PICK s \in Seq(Codes) : s = <<Percent, h, l>>
  <2>1. <<Percent, h, l>> \in Seq(Codes)
    BY <1>1
  <2> QED BY <2>1
<1>3. DOMAIN s = 1 .. 3 /\ Len(s) = 3 /\ s[1] = Percent /\ s[2] = h /\ s[3] = l
  BY <1>2
<1>4. h # Percent /\ l # Percent
  BY DEF HexDigits, Percent
<1>5. ~InEscape(s, 1) /\ InEscape(s, 2) /\ InEscape(s, 3)
  <2>1. ~InEscape(s, 1)
    BY <1>3 DEF InEscape
  <2>2. 2 - 1 \in DOMAIN s /\ s[2 - 1] = Percent
    BY <1>3
  <2>3. 3 - 2 \in DOMAIN s /\ s[3 - 2] = Percent
    BY <1>3
  <2> QED BY <2>1, <2>2, <2>3 DEF InEscape
<1>6. decodedAt(s, 1) = <<b>>
  <2>1. s[1] # Plus /\ ~(1 + 2 > Len(s)) /\ s[1 + 1] = h /\ s[1 + 2] = l
    BY <1>3 DEF Percent, Plus
  <2> QED BY <1>3, <1>5, <2>1 DEF decodedAt
<1>7. decodedAt(s, 2) = <<>> /\ decodedAt(s, 3) = <<>>
  BY <1>5 DEF decodedAt
<1>8. [i \in DOMAIN s |-> decodedAt(s, i)] = << <<b>>, <<>>, <<>> >>
  BY <1>3, <1>6, <1>7
<1>9. FlattenSeq(<< <<b>>, <<>>, <<>> >>) = <<b>>
  <2>1. <<b>> \in Seq(Byte) /\ <<>> \in Seq(Byte)
    BY EmptySeq
  <2>2. << <<b>> >> \in Seq(Seq(Byte)) /\ << <<b>>, <<>> >> \in Seq(Seq(Byte))
    BY <2>1
  <2>3. << <<b>>, <<>>, <<>> >> = Append(<< <<b>>, <<>> >>, <<>>)
        /\ << <<b>>, <<>> >> = Append(<< <<b>> >>, <<>>)
    OBVIOUS
  <2>4. FlattenSeq(<< <<b>> >>) = <<b>>
    BY <2>1, FlattenOne
  <2>5. FlattenSeq(Append(<< <<b>> >>, <<>>)) = <<b>> \o <<>>
    BY <2>1, <2>2, <2>4, FlattenAppend
  <2>6. FlattenSeq(Append(<< <<b>>, <<>> >>, <<>>)) = FlattenSeq(<< <<b>>, <<>> >>) \o <<>>
    BY <2>1, <2>2, FlattenAppend
  <2>7. <<b>> \o <<>> = <<b>>
    BY <2>1, ConcatEmptySeq
  <2> QED BY <2>3, <2>5, <2>6, <2>7
<1>10. WellEscaped(s)
  <2>1. ASSUME NEW i \in 1 .. 3, s[i] = Percent PROVE i = 1
    BY <1>3, <1>4, <2>1
  <2>2. 1 + 2 \in DOMAIN s /\ s[1 + 1] = h /\ s[1 + 2] = l
    BY <1>3
  <2> QED BY <1>3, <2>1, <2>2 DEF WellEscaped
<1>11. decode(s) = <<b>>
  BY <1>8, <1>9 DEF decode
<1> QED BY <1>2, <1>10, <1>11 DEF IsCode

LEMMA UnreservedAre ==
  ASSUME NEW b \in Byte, Unreserved(b)
  PROVE  b \in Codes /\ b # Percent /\ b # Plus
BY DEF Unreserved, isalnum, Byte, Codes, Percent, Plus, Ampersand, Equals

LEMMA HexDigitsOf ==
  ASSUME NEW b \in Byte
  PROVE  /\ HexDigit(b \div 16) \in HexDigits /\ HexDigit(b % 16) \in HexDigits
         /\ b = 16 * HexValue(HexDigit(b \div 16)) + HexValue(HexDigit(b % 16))
<1>1. PICK h \in 0 .. 15, l \in 0 .. 15 : h = b \div 16 /\ l = b % 16 /\ b = 16 * h + l
  <2>1. b \div 16 \in 0 .. 15 /\ (b % 16) \in 0 .. 15 /\ b = 16 * (b \div 16) + (b % 16)
    BY DEF Byte
  <2> QED BY <2>1
<1> QED BY <1>1, HexDigitIs

LEMMA EscapedByteIs ==
  ASSUME NEW b \in Byte, NEW all \in BOOLEAN
  PROVE  IsCode(EscapedByte(b, all), b)
<1>1. CASE b = Space /\ ~all
  <2>1. Plus \in Codes /\ Plus # Percent
    BY DEF Codes, Plus, Percent, Ampersand, Equals
  <2>2. IsCode(<<Plus>>, b)
    BY <1>1, <2>1, DecodeByte
  <2> QED BY <1>1, <2>2 DEF EscapedByte
<1>2. CASE ~(b = Space /\ ~all) /\ Unreserved(b) /\ ~all
  <2>1. IsCode(<<b>>, b)
    BY <1>2, UnreservedAre, DecodeByte
  <2> QED BY <1>2, <2>1 DEF EscapedByte
<1>3. CASE ~(b = Space /\ ~all) /\ ~(Unreserved(b) /\ ~all)
  <2>1. IsCode(<<Percent, HexDigit(b \div 16), HexDigit(b % 16)>>, b)
    BY HexDigitsOf, DecodeEscape
  <2> QED BY <1>3, <2>1 DEF EscapedByte
<1> QED BY <1>1, <1>2, <1>3

LEMMA EncodedByteIs ==
  ASSUME NEW b \in 16 .. 127
  PROVE  IsCode(encodedByte(b), b)
<1>1. b \in Byte
  BY DEF Byte
<1>2. CASE Unreserved(b)
  <2>1. IsCode(<<b>>, b)
    BY <1>1, <1>2, UnreservedAre, DecodeByte
  <2> QED BY <1>2, <2>1 DEF encodedByte
<1>3. CASE ~Unreserved(b)
  <2>1. IsCode(<<Percent, HexDigit(b \div 16), HexDigit(b % 16)>>, b)
    BY <1>1, HexDigitsOf, DecodeEscape
  <2>2. Hex(b) = <<HexDigit(b \div 16), HexDigit(b % 16)>>
    BY DEF Hex
  <2>3. encodedByte(b) = <<Percent>> \o <<HexDigit(b \div 16), HexDigit(b % 16)>>
    BY <1>3, <2>2 DEF encodedByte
  <2>4. HexDigit(b \div 16) \in HexDigits /\ HexDigit(b % 16) \in HexDigits
    BY <1>1, HexDigitsOf
  <2>5. Percent \in Int /\ HexDigit(b \div 16) \in Int /\ HexDigit(b % 16) \in Int
    BY <2>4 DEF HexDigits, Percent
  <2>6. <<Percent>> \o <<HexDigit(b \div 16), HexDigit(b % 16)>>
          = <<Percent, HexDigit(b \div 16), HexDigit(b % 16)>>
    BY <2>5, OneAndTwo
  <2> QED BY <2>1, <2>3, <2>6
<1> QED BY <1>2, <1>3

LEMMA EncodedByteType ==
  ASSUME NEW b \in Byte
  PROVE  encodedByte(b) \in Seq(Codes)
<1>1. CASE Unreserved(b)
  <2>1. <<b>> \in Seq(Codes)
    BY <1>1, UnreservedAre
  <2> QED BY <1>1, <2>1 DEF encodedByte
<1>2. CASE ~Unreserved(b)
  <2>1. ASSUME NEW h \in HexDigits PROVE h \in Codes
    BY DEF HexDigits, Codes, Ampersand, Equals
  <2>2. PICK h \in Codes, l \in Codes : h = HexDigit(b \div 16) /\ l = HexDigit(b % 16)
    BY <2>1, HexDigitsOf
  <2>3. Percent \in Codes /\ 70 \in Codes
    BY DEF Codes, Percent, Ampersand, Equals
  <2>4. <<Percent>> \in Seq(Codes) /\ <<h, l>> \in Seq(Codes)
    BY <2>2, <2>3
  <2>5. Hex(b) \in Seq(Codes)
    <3>1. CASE b < 16
      <4>1. b \in 0 .. 15
        BY <3>1 DEF Byte
      <4>2. HexDigit(b) \in Codes
        BY <2>1, <4>1, HexDigitIs
      <4>3. <<HexDigit(b)>> \in Seq(Codes)
        BY <4>2
      <4>4. b \notin 16 .. 127 /\ ~(b > 127)
        BY <3>1, <4>1
      <4>5. Hex(b) = <<HexDigit(b)>>
        BY <3>1, <4>4 DEF Hex
      <4> QED BY <4>3, <4>5
    <3>2. CASE b \in 16 .. 127
      <4>1. ~(b < 16)
        BY <3>2
      <4>2. Hex(b) = <<HexDigit(b \div 16), HexDigit(b % 16)>>
        BY <3>2, <4>1 DEF Hex
      <4> QED BY <2>2, <2>4, <4>2
    <3>3. CASE b > 127
      <4>1. ~(b < 16) /\ b \notin 16 .. 127
        BY <3>3 DEF Byte
      <4>2. Hex(b) = [i \in 1 .. 6 |-> 70] \o <<h, l>>
        BY <2>2, <3>3, <4>1 DEF Hex
      <4>3. [i \in 1 .. 6 |-> 70] \in Seq(Codes)
        BY <2>3
      <4> QED BY <2>4, <4>2, <4>3, ConcatProperties
    <3> QED BY <3>1, <3>2, <3>3 DEF Byte
  <2>6. <<Percent>> \o Hex(b) \in Seq(Codes)
    BY <2>4, <2>5, ConcatProperties
  <2> QED BY <1>2, <2>6 DEF encodedByte
<1> QED BY <1>1, <1>2

-----------------------------------------------------------------------------
(***************************************************************************)
(* OAuth: texts.                                                           *)
(***************************************************************************)
AreCodes(f, B) == f \in [B -> Seq(Codes)] /\ \A b \in B : IsCode(f[b], b)

LEMMA CodesAreText ==
  ASSUME NEW s \in Seq(Codes)
  PROVE  s \in Text
<1>1. Codes \subseteq Byte
  BY DEF Codes, Byte
<1> QED BY <1>1, SeqMonotonic DEF Text

LEMMA CodedDecodes ==
  ASSUME NEW B, B \subseteq Byte, NEW f, AreCodes(f, B), NEW s \in Seq(B)
  PROVE  WellEscaped(Coded(f, s)) /\ decode(Coded(f, s)) = s
<1> DEFINE A == {t \in Seq(B) : WellEscaped(Coded(f, t)) /\ decode(Coded(f, t)) = t}
<1>1. <<>> \in A
  <2>1. WellEscaped(<<>>)
    BY DEF WellEscaped
  <2>2. [i \in DOMAIN <<>> |-> decodedAt(<<>>, i)] = <<>>
    OBVIOUS
  <2>3. decode(<<>>) = <<>>
    BY <2>2, FlattenEmpty DEF decode
  <2> QED BY <2>1, <2>3, CodedEmpty, EmptySeq
<1>2. ASSUME NEW t \in Seq(B), t \in A, NEW b \in B PROVE Append(t, b) \in A
  <2>1. f \in [B -> Seq(Codes)] /\ IsCode(f[b], b)
    BY DEF AreCodes
  <2>2. Coded(f, Append(t, b)) = Coded(f, t) \o f[b]
    BY <2>1, CodedAppend
  <2>3. Coded(f, t) \in Text /\ f[b] \in Text
    BY <2>1, CodedType, CodesAreText
  <2>4. WellEscaped(Coded(f, t)) /\ WellEscaped(f[b]) /\ decode(f[b]) = <<b>>
    BY <1>2, <2>1 DEF IsCode
  <2>5. WellEscaped(Coded(f, t) \o f[b]) /\ decode(Coded(f, t) \o f[b]) = t \o <<b>>
    BY <1>2, <2>3, <2>4, DecodeConcat
  <2>6. t \o <<b>> = Append(t, b) /\ Append(t, b) \in Seq(B)
    BY AppendIsConcat, AppendProperties
  <2> QED BY <2>2, <2>5, <2>6
<1>3. ClosedByAppend(A, B)
  BY <1>1, <1>2 DEF ClosedByAppend
<1> HIDE DEF A
<1>4. s \in A
  BY <1>3, SequenceInduction
<1> QED BY <1>4 DEF A

LEMMA EncodeType ==
  ASSUME NEW s \in Text
  PROVE  appendEncoded(s) \in Seq(Codes)
<1> DEFINE f == [b \in Byte |-> encodedByte(b)]
<1>1. f \in [Byte -> Seq(Codes)]
  BY EncodedByteType
<1>2. Coded(f, s) \in Seq(Codes)
  BY <1>1, CodedType DEF Text
<1>3. \A i \in DOMAIN s : f[s[i]] = encodedByte(s[i])
  BY DEF Text
<1>4. [i \in DOMAIN s |-> f[s[i]]] = [i \in DOMAIN s |-> encodedByte(s[i])]
  BY <1>3
<1> QED BY <1>2, <1>4 DEF Coded, Mapped, appendEncoded

TwoDigit == 16 .. 127

\* Encoding can be undone when all bytes have two digits.
LEMMA EncodeDecodes ==
  ASSUME NEW s \in Seq(TwoDigit)
  PROVE  WellEscaped(appendEncoded(s)) /\ decode(appendEncoded(s)) = s
<1> DEFINE f == [b \in TwoDigit |-> encodedByte(b)]
<1>1. ASSUME NEW b \in TwoDigit PROVE f[b] \in Seq(Codes) /\ IsCode(f[b], b)
  BY EncodedByteIs DEF IsCode, TwoDigit
<1>2. AreCodes(f, TwoDigit)
  BY <1>1 DEF AreCodes
<1>3. TwoDigit \subseteq Byte
  BY DEF TwoDigit, Byte
<1>4. WellEscaped(Coded(f, s)) /\ decode(Coded(f, s)) = s
  BY <1>2, <1>3, CodedDecodes
<1>5. \A i \in DOMAIN s : f[s[i]] = encodedByte(s[i])
  OBVIOUS
<1>6. [i \in DOMAIN s |-> f[s[i]]] = [i \in DOMAIN s |-> encodedByte(s[i])]
  BY <1>5
<1> QED BY <1>4, <1>6 DEF Coded, Mapped, appendEncoded

\* What a client escapes in either way can be undone.
LEMMA EscapeDecodes ==
  ASSUME NEW s \in Text, NEW all \in BOOLEAN
  PROVE  /\ Escape(s, all) \in Seq(Codes)
         /\ WellEscaped(Escape(s, all)) /\ decode(Escape(s, all)) = s
<1> DEFINE f == [b \in Byte |-> EscapedByte(b, all)]
<1>1. ASSUME NEW b \in Byte PROVE f[b] \in Seq(Codes) /\ IsCode(f[b], b)
  BY EscapedByteIs DEF IsCode
<1>2. AreCodes(f, Byte)
  BY <1>1 DEF AreCodes
<1>3. WellEscaped(Coded(f, s)) /\ decode(Coded(f, s)) = s
  BY <1>2, CodedDecodes DEF Text
<1>4. \A i \in DOMAIN s : f[s[i]] = EscapedByte(s[i], all)
  BY DEF Text
<1>5. [i \in DOMAIN s |-> f[s[i]]] = [i \in DOMAIN s |-> EscapedByte(s[i], all)]
  BY <1>4
<1>6. Coded(f, s) \in Seq(Codes)
  BY <1>2, CodedType DEF AreCodes, Text
<1> QED BY <1>3, <1>5, <1>6 DEF Coded, Mapped, Escape

-----------------------------------------------------------------------------
(***************************************************************************)
(* OAuth: a parameter, and a list of them.                                 *)
(***************************************************************************)
Pair == Text \X Text

LEMMA SplitTwo ==
  ASSUME NEW S, NEW x, x \notin S, NEW a \in Seq(S), NEW b \in Seq(S)
  PROVE  StrSplit((a \o <<x>>) \o b, x) = <<a, b>>
<1>1. PICK T : T = S \cup {x}
  OBVIOUS
<1>2. a \in Seq(T) /\ x \in T
  BY <1>1, SeqMonotonic
<1>3. T \ {x} = S
  BY <1>1
<1>4. StrSplit(Append(a, x) \o b, x) = Append(StrSplit(a, x), b)
  BY <1>2, <1>3, SplitAtLast
<1>5. StrSplit(a, x) = <<a>>
  BY SplitNone
<1>6. a \o <<x>> = Append(a, x)
  BY <1>2, AppendIsConcat
<1>7. Append(<<a>>, b) = <<a, b>>
  BY AppendOne
<1> QED BY <1>4, <1>5, <1>6, <1>7

LEMMA DecodeEmpty == decode(<<>>) = <<>>
<1>1. [i \in DOMAIN <<>> |-> decodedAt(<<>>, i)] = <<>>
  OBVIOUS
<1> QED BY <1>1, FlattenEmpty DEF decode

\* Reading undoes what adding wrote.
LEMMA ReadWritten ==
  ASSUME NEW p \in Pair, p[1] # <<>>, NEW all \in BOOLEAN
  PROVE  /\ Written(p, all) \in Seq(Byte \ {Ampersand}) /\ Written(p, all) # <<>>
         /\ readParam(Written(p, all)) = p
<1>1. PICK n \in Text, v \in Text : n = p[1] /\ v = p[2] /\ p = <<n, v>>
  BY DEF Pair
<1>2. PICK a \in Seq(Codes), b \in Seq(Codes) :
        a = Escape(n, all) /\ b = Escape(v, all) /\ decode(a) = n /\ decode(b) = v
  BY EscapeDecodes
<1>3. Equals \notin Codes /\ Ampersand \notin Codes
  BY DEF Codes
<1> DEFINE R == Byte \ {Ampersand}
<1>4. Codes \subseteq R /\ Equals \in R
  BY DEF Codes, Byte, Equals, Ampersand
<1> HIDE DEF R
<1>5. a \in Seq(R) /\ b \in Seq(R)
  BY <1>4, SeqMonotonic
<1>6. a # <<>>
  BY <1>1, <1>2, DecodeEmpty
<1>7. CASE v = <<>> /\ ~all
  <2>1. a \o <<>> = a
    BY ConcatEmptySeq
  <2>2. Written(p, all) = a
    BY <1>1, <1>2, <1>7, <2>1 DEF Written
  <2>3. PICK nv : nv = StrSplit(a, Equals) /\ nv = <<a>>
    BY <1>3, SplitNone
  <2>4. nv[1] = a /\ ~(Len(nv) > 1)
    BY <2>3
  <2>5. readParam(a) = <<n, v>>
    BY <1>2, <1>7, <2>3, <2>4 DEF readParam
  <2> QED BY <1>1, <1>5, <1>6, <2>2, <2>5 DEF R
<1>8. CASE ~(v = <<>> /\ ~all)
  <2>1. <<Equals>> \in Seq(R)
    BY <1>4
  <2>2. a \o (<<Equals>> \o b) = (a \o <<Equals>>) \o b
    BY <1>5, <2>1, ConcatAssociative
  <2>3. PICK w : w = (a \o <<Equals>>) \o b
    OBVIOUS
  <2>4. Written(p, all) = w
    BY <1>1, <1>2, <1>8, <2>2, <2>3 DEF Written
  <2>5. PICK nv : nv = StrSplit(w, Equals) /\ nv = <<a, b>>
    BY <1>3, <2>3, SplitTwo
  <2>6. nv[1] = a /\ nv[2] = b /\ Len(nv) > 1
    BY <2>5
  <2>7. readParam(w) = <<n, v>>
    BY <1>2, <2>5, <2>6 DEF readParam
  <2>8. PICK ae \in Seq(R) : ae = a \o <<Equals>> /\ Len(ae) = Len(a) + 1
    <3>1. a \o <<Equals>> \in Seq(R) /\ Len(a \o <<Equals>>) = Len(a) + Len(<<Equals>>)
      BY <1>5, <2>1, ConcatProperties
    <3> QED BY <3>1
  <2>9. w \in Seq(R) /\ Len(w) = Len(ae) + Len(b)
    BY <1>5, <2>3, <2>8, ConcatProperties
  <2>10. w # <<>>
    <3>1. Len(w) # 0
      BY <1>5, <2>8, <2>9
    <3> QED BY <3>1, EmptySeq
  <2> QED BY <1>1, <2>4, <2>7, <2>9, <2>10 DEF R
<1> QED BY <1>7, <1>8

\* The parameters that a text stands for: the empty one has none.
ParamsOf(text) == IF text = <<>> THEN <<>> ELSE readParams(text)

LEMMA ReadAdded ==
  ASSUME NEW text \in Text, NEW p \in Pair, p[1] # <<>>, NEW all \in BOOLEAN,
         ParamsOf(text) \in Seq(Pair)
  PROVE  /\ AddTo(text, p, all) \in Text /\ AddTo(text, p, all) # <<>>
         /\ ParamsOf(AddTo(text, p, all)) = Append(ParamsOf(text), p)
<1> DEFINE R == Byte \ {Ampersand}
<1>1. PICK w \in Seq(R) : w = Written(p, all) /\ w # <<>> /\ readParam(w) = p
  BY ReadWritten
<1>2. w \in Seq(Byte) /\ Ampersand \in Byte /\ Ampersand \notin R
  BY SeqMonotonic DEF Ampersand, Byte
<1>3. CASE text = <<>>
  <2>1. <<>> \o w = w
    BY ConcatEmptySeq
  <2>2. AddTo(text, p, all) = w
    BY <1>1, <1>3, <2>1 DEF AddTo
  <2>3. PICK parts : parts = StrSplit(w, Ampersand) /\ parts = <<w>>
    BY <1>2, SplitNone
  <2>4. readParams(w) = <<p>>
    <3>1. DOMAIN parts = 1 .. 1 /\ parts[1] = w
      BY <2>3
    <3>2. [k \in DOMAIN parts |-> readParam(parts[k])] = <<p>>
      BY <1>1, <3>1
    <3> QED BY <2>3, <3>2 DEF readParams
  <2>5. Append(<<>>, p) = <<p>>
    OBVIOUS
  <2> QED BY <1>1, <1>2, <1>3, <2>2, <2>4, <2>5 DEF ParamsOf, Text
<1>4. CASE text # <<>>
  <2>1. PICK u \in Seq(Byte) : u = (text \o <<Ampersand>>) \o w /\ u = Append(text, Ampersand) \o w
    <3>1. text \in Seq(Byte)
      BY DEF Text
    <3>2. text \o <<Ampersand>> = Append(text, Ampersand) /\ Append(text, Ampersand) \in Seq(Byte)
      BY <1>2, <3>1, AppendIsConcat, AppendProperties
    <3>3. Append(text, Ampersand) \o w \in Seq(Byte)
      BY <1>2, <3>2, ConcatProperties
    <3> QED BY <3>2, <3>3
  <2>2. AddTo(text, p, all) = u
    BY <1>1, <1>4, <2>1 DEF AddTo
  <2>3. u # <<>>
    <3>1. PICK t \in Seq(Byte) : t = text \o <<Ampersand>>
      <4>1. <<Ampersand>> \in Seq(Byte) /\ text \in Seq(Byte)
        BY <1>2 DEF Text
      <4>2. text \o <<Ampersand>> \in Seq(Byte)
        BY <4>1, ConcatProperties
      <4> QED BY <4>2
    <3>2. Len(u) = Len(t) + Len(w) /\ Len(w) # 0
      BY <1>1, <1>2, <2>1, <3>1, ConcatProperties, EmptySeq
    <3>3. Len(u) # 0
      BY <1>2, <3>2
    <3> QED BY <3>3, EmptySeq
  <2>4. PICK parts \in Seq(Text) : parts = StrSplit(text, Ampersand)
    BY SplitType DEF Text, Texts
  <2>5. StrSplit(u, Ampersand) = Append(parts, w)
    BY <1>2, <2>1, <2>4, SplitAtLast DEF Text
  <2> DEFINE C == {readParam(t) : t \in Text}
             f == [t \in Text |-> readParam(t)]
  <2>6. f \in [Text -> C]
    OBVIOUS
  <2>7. w \in Text /\ f[w] = p
    BY <1>1, <1>2 DEF Text
  <2>8. ASSUME NEW q \in Seq(Text)
        PROVE  [k \in DOMAIN q |-> readParam(q[k])] = Mapped(f, q)
    <3>1. \A k \in DOMAIN q : f[q[k]] = readParam(q[k])
      OBVIOUS
    <3> QED BY <3>1 DEF Mapped
  <2> HIDE DEF f, C
  <2>9. Mapped(f, Append(parts, w)) = Append(Mapped(f, parts), p)
    BY <2>6, <2>7, MapAppend
  <2>10. Append(parts, w) \in Seq(Text)
    BY <2>7, AppendProperties
  <2>11. readParams(u) = Mapped(f, Append(parts, w))
    BY <2>5, <2>8, <2>10 DEF readParams
  <2>12. readParams(text) = Mapped(f, parts)
    BY <2>4, <2>8 DEF readParams
  <2> QED BY <1>4, <2>2, <2>3, <2>9, <2>11, <2>12 DEF ParamsOf, Text
<1> QED BY <1>3, <1>4

-----------------------------------------------------------------------------
(***************************************************************************)
(* OAuth: the string that is signed.                                       *)
(***************************************************************************)
Encoded == Seq(Codes) \X Seq(Codes)
Signs == Codes \cup {Ampersand, Equals}
NamesAreValues(pairs) == [k \in DOMAIN pairs |-> NameIsValue(pairs[k])]

LEMMA SignsAre ==
  /\ Codes \subseteq Signs /\ Ampersand \in Signs /\ Equals \in Signs
  /\ Signs \subseteq TwoDigit /\ Signs \subseteq Byte
  /\ Ampersand \notin Codes /\ Equals \notin Codes /\ Ampersand # Equals
BY DEF Codes, Signs, TwoDigit, Byte, Ampersand, Equals

LEMMA NameIsValueIs ==
  ASSUME NEW p \in Encoded
  PROVE  /\ NameIsValue(p) \in Seq(Signs \ {Ampersand})
         /\ StrSplit(NameIsValue(p), Equals) = p
<1>1. PICK a \in Seq(Codes), b \in Seq(Codes) : a = p[1] /\ b = p[2] /\ p = <<a, b>>
  BY DEF Encoded
<1>2. NameIsValue(p) = (a \o <<Equals>>) \o b
  BY <1>1 DEF NameIsValue
<1>3. StrSplit((a \o <<Equals>>) \o b, Equals) = <<a, b>>
  BY SignsAre, SplitTwo
<1> DEFINE R == Signs \ {Ampersand}
<1>4. Codes \subseteq R /\ Equals \in R
  BY SignsAre
<1> HIDE DEF R
<1>5. a \in Seq(R) /\ b \in Seq(R) /\ <<Equals>> \in Seq(R)
  BY <1>4, SeqMonotonic
<1>6. (a \o <<Equals>>) \o b \in Seq(R)
  BY <1>5, ConcatProperties
<1> QED BY <1>1, <1>2, <1>3, <1>6 DEF R

LEMMA JoinAppend ==
  ASSUME NEW l \in Seq(Encoded), NEW p \in Encoded
  PROVE  Join(Append(l, p)) = Join(l) \o ((IF l = <<>> THEN <<>> ELSE <<Ampersand>>) \o NameIsValue(p))
<1> DEFINE Piece(q, k) == (IF k = 1 THEN <<>> ELSE <<Ampersand>>) \o NameIsValue(q)
           Pieces(s) == [k \in DOMAIN s |-> Piece(s[k], k)]
<1>1. ASSUME NEW q \in Encoded, NEW k \in Nat PROVE Piece(q, k) \in Seq(Signs)
  <2>1. Signs \ {Ampersand} \subseteq Signs
    OBVIOUS
  <2>2. NameIsValue(q) \in Seq(Signs)
    BY <2>1, NameIsValueIs, SeqMonotonic
  <2>3. <<>> \in Seq(Signs) /\ <<Ampersand>> \in Seq(Signs)
    BY SignsAre, EmptySeq
  <2> QED BY <2>2, <2>3, ConcatProperties
<1> HIDE DEF Piece
<1>2. ASSUME NEW s \in Seq(Encoded)
      PROVE  Pieces(s) \in Seq(Seq(Signs)) /\ Len(Pieces(s)) = Len(s)
  <2>1. PICK n \in Nat : n = Len(s) /\ DOMAIN s = 1 .. n
    OBVIOUS
  <2>2. \A k \in 1 .. n : Piece(s[k], k) \in Seq(Signs)
    BY <1>1, <2>1
  <2>3. PICK v : v = [k \in 1 .. n |-> Piece(s[k], k)]
    OBVIOUS
  <2>4. v \in [1 .. n -> Seq(Signs)]
    BY <2>2, <2>3
  <2>5. v \in Seq(Seq(Signs)) /\ Len(v) = n
    BY <2>4
  <2> QED BY <2>1, <2>3, <2>5
<1>3. PICK t \in Seq(Encoded), n \in Nat : IsLonger(t, l, p, n)
  BY AppendIs
<1>4. PICK q \in Seq(Seq(Signs)) : q = Pieces(l) /\ Len(q) = Len(l)
  BY <1>2
<1>5. PICK r \in Seq(Seq(Signs)) : r = Pieces(t) /\ Len(r) = Len(t)
  BY <1>2
<1>6. PICK x \in Seq(Signs) : x = Piece(p, n + 1)
  BY <1>1
<1>7. PICK v \in Seq(Seq(Signs)), m \in Nat : IsLonger(v, q, x, m)
  BY AppendIs
<1>8. DOMAIN l = 1 .. n /\ DOMAIN t = 1 .. n + 1 /\ Len(q) = n /\ Len(r) = n + 1 /\ Len(l) = n
  BY <1>3, <1>4, <1>5 DEF IsLonger
<1>9. m = n /\ Len(v) = n + 1 /\ v = Append(q, x)
  BY <1>7, <1>8 DEF IsLonger
<1>10. ASSUME NEW i \in 1 .. n + 1 PROVE r[i] = v[i]
  <2>1. r[i] = Piece(t[i], i)
    BY <1>5, <1>8
  <2>2. CASE i = n + 1
    BY <1>3, <1>6, <1>7, <1>9, <2>1, <2>2 DEF IsLonger
  <2>3. CASE i # n + 1
    <3>1. i \in 1 .. n
      BY <2>3
    <3>2. t[i] = l[i] /\ v[i] = q[i]
      BY <1>3, <1>7, <1>9, <3>1 DEF IsLonger
    <3>3. q[i] = Piece(l[i], i)
      BY <1>4, <1>8, <3>1
    <3> QED BY <2>1, <3>2, <3>3
  <2> QED BY <2>2, <2>3
<1>11. r = v
  BY <1>8, <1>9, <1>10, SeqEqual
<1>12. FlattenSeq(v) = FlattenSeq(q) \o x
  BY <1>9, FlattenAppend
<1>13. Join(l) = FlattenSeq(q) /\ Join(t) = FlattenSeq(r)
  BY <1>4, <1>5 DEF Join, Piece
<1>14. x = (IF l = <<>> THEN <<>> ELSE <<Ampersand>>) \o NameIsValue(p)
  <2>1. l = <<>> <=> n + 1 = 1
    BY <1>8, EmptySeq
  <2> QED BY <1>6, <2>1 DEF Piece
<1>15. t = Append(l, p)
  BY <1>3 DEF IsLonger
<1> QED BY <1>11, <1>12, <1>13, <1>14, <1>15

\* The string can be taken apart again.
JoinIs(l) ==
  /\ Join(l) \in Seq(Signs)
  /\ l = <<>> \/ StrSplit(Join(l), Ampersand) = NamesAreValues(l)

LEMMA JoinSplits ==
  ASSUME NEW l \in Seq(Encoded)
  PROVE  JoinIs(l)
<1> DEFINE A == {s \in Seq(Encoded) : JoinIs(s)}
           f == [p \in Encoded |-> NameIsValue(p)]
<1>1. <<>> \in A
  <2>1. [k \in DOMAIN <<>> |->
           (IF k = 1 THEN <<>> ELSE <<Ampersand>>) \o NameIsValue((<<>>)[k])] = <<>>
    OBVIOUS
  <2>2. Join(<<>>) = <<>>
    BY <2>1, FlattenEmpty DEF Join
  <2> QED BY <2>2, EmptySeq DEF JoinIs
<1>2. f \in [Encoded -> Seq(Signs)]
  <2>1. Signs \ {Ampersand} \subseteq Signs
    OBVIOUS
  <2>2. \A p \in Encoded : NameIsValue(p) \in Seq(Signs)
    BY <2>1, NameIsValueIs, SeqMonotonic
  <2> QED BY <2>2
<1>3. ASSUME NEW s \in Seq(Encoded) PROVE NamesAreValues(s) = Mapped(f, s)
  <2>1. \A k \in DOMAIN s : f[s[k]] = NameIsValue(s[k])
    OBVIOUS
  <2> QED BY <2>1 DEF NamesAreValues, Mapped
<1>4. ASSUME NEW s \in Seq(Encoded), s \in A, NEW p \in Encoded PROVE Append(s, p) \in A
  <2>1. PICK nv \in Seq(Signs \ {Ampersand}) : nv = NameIsValue(p) /\ nv = f[p]
    BY NameIsValueIs
  <2>2. nv \in Seq(Signs)
    BY <1>2, <2>1
  <2>3. PICK j \in Seq(Signs) : j = Join(s)
    BY <1>4 DEF JoinIs
  <2>4. PICK sp \in Seq(Encoded) : sp = Append(s, p)
    BY AppendProperties
  <2> HIDE DEF f
  <2>5. NamesAreValues(sp) = Append(NamesAreValues(s), nv)
    <3>1. Mapped(f, Append(s, p)) = Append(Mapped(f, s), f[p])
      BY <1>2, MapAppend
    <3> QED BY <1>3, <2>1, <2>4, <3>1
  <2>6. CASE s = <<>>
    <3>1. <<>> \o nv = nv /\ <<>> \in Seq(Signs) /\ <<>> \o (<<>> \o nv) = nv
      BY <2>2, ConcatEmptySeq, EmptySeq
    <3>2. Join(<<>>) = <<>>
      <4>1. [k \in DOMAIN <<>> |->
               (IF k = 1 THEN <<>> ELSE <<Ampersand>>) \o NameIsValue((<<>>)[k])] = <<>>
        OBVIOUS
      <4> QED BY <4>1, FlattenEmpty DEF Join
    <3>3. Join(sp) = nv
      BY <2>1, <2>4, <2>6, <3>1, <3>2, JoinAppend
    <3>4. Ampersand \notin Signs \ {Ampersand}
      OBVIOUS
    <3>5. StrSplit(nv, Ampersand) = <<nv>>
      BY <3>4, SplitNone
    <3>6. NamesAreValues(<<>>) = <<>>
      BY DEF NamesAreValues
    <3>7. Append(<<>>, nv) = <<nv>>
      OBVIOUS
    <3> QED BY <2>2, <2>4, <2>5, <2>6, <3>3, <3>5, <3>6, <3>7 DEF JoinIs
  <2>7. CASE s # <<>>
    <3>1. Join(sp) = j \o (<<Ampersand>> \o nv)
      BY <2>1, <2>3, <2>4, <2>7, JoinAppend
    <3>2. <<Ampersand>> \in Seq(Signs)
      BY SignsAre
    <3>3. j \o (<<Ampersand>> \o nv) = (j \o <<Ampersand>>) \o nv
      BY <2>2, <3>2, ConcatAssociative
    <3>4. PICK ja \in Seq(Signs) : ja = j \o <<Ampersand>> /\ ja = Append(j, Ampersand)
      BY SignsAre, AppendIsConcat, AppendProperties
    <3>5. ja \o nv \in Seq(Signs)
      BY <2>2, ConcatProperties
    <3>6. StrSplit(Append(j, Ampersand) \o nv, Ampersand) = Append(StrSplit(j, Ampersand), nv)
      BY SignsAre, SplitAtLast
    <3>7. StrSplit(j, Ampersand) = NamesAreValues(s)
      BY <1>4, <2>3, <2>7 DEF JoinIs
    <3> QED BY <2>4, <2>5, <3>1, <3>3, <3>4, <3>5, <3>6, <3>7 DEF JoinIs
  <2> QED BY <2>6, <2>7
<1>5. ClosedByAppend(A, Encoded)
  BY <1>1, <1>4 DEF ClosedByAppend
<1> HIDE DEF A
<1>6. l \in A
  BY <1>5, SequenceInduction
<1> QED BY <1>6 DEF A

\* What the server finds in the base string is what was sorted.
Parsed(string) ==
  LET pairs == StrSplit(decode(Last(StrSplit(string, Ampersand))), Ampersand)
  IN  [k \in DOMAIN pairs |-> StrSplit(pairs[k], Equals)]

LEMMA BaseParses ==
  ASSUME NEW l \in Seq(Encoded), l # <<>>, NEW prefix \in Text
  PROVE  Parsed(prefix \o <<Ampersand>> \o appendEncoded(Join(l))) = l
<1>1. PICK j \in Seq(Signs) : j = Join(l)
  BY JoinSplits DEF JoinIs
<1>2. j \in Seq(TwoDigit) /\ j \in Text
  BY SignsAre, SeqMonotonic DEF Text
<1>3. PICK e \in Seq(Codes) : e = appendEncoded(j) /\ decode(e) = j
  BY <1>2, EncodeType, EncodeDecodes
<1>4. Ampersand \in Byte
  BY SignsAre
<1>5. e \in Seq(Byte \ {Ampersand})
  <2>1. Codes \subseteq Byte \ {Ampersand}
    BY SignsAre
  <2> QED BY <2>1, SeqMonotonic
<1>6. prefix \o <<Ampersand>> = Append(prefix, Ampersand)
  BY <1>4, AppendIsConcat DEF Text
<1>7. PICK s \in Seq(Text) : s = StrSplit(prefix, Ampersand)
  BY SplitType DEF Text, Texts
<1>8. StrSplit(Append(prefix, Ampersand) \o e, Ampersand) = Append(s, e)
  BY <1>4, <1>5, <1>7, SplitAtLast DEF Text
<1>9. Last(Append(s, e)) = e
  <2>1. e \in Text
    BY CodesAreText
  <2>2. PICK t \in Seq(Text), n \in Nat : IsLonger(t, s, e, n)
    BY <2>1, AppendIs
  <2> QED BY <2>2 DEF IsLonger, Last
<1>10. StrSplit(j, Ampersand) = NamesAreValues(l)
  BY <1>1, JoinSplits DEF JoinIs
<1>11. Parsed(Append(prefix, Ampersand) \o e)
         = [k \in DOMAIN NamesAreValues(l) |-> StrSplit(NamesAreValues(l)[k], Equals)]
  BY <1>3, <1>8, <1>9, <1>10 DEF Parsed
<1>12. DOMAIN NamesAreValues(l) = DOMAIN l
  BY DEF NamesAreValues
<1>13. \A k \in DOMAIN l : StrSplit(NamesAreValues(l)[k], Equals) = l[k]
  BY NameIsValueIs DEF NamesAreValues
<1>14. [k \in DOMAIN l |-> l[k]] = l
  OBVIOUS
<1> QED BY <1>1, <1>3, <1>6, <1>11, <1>12, <1>13, <1>14

-----------------------------------------------------------------------------
(***************************************************************************)
(* OAuth: the inductive invariant.                                         *)
(***************************************************************************)
\* What buildBaseString reads, in its order, and what it makes of its sorted list.
Collected ==
  readParams(query) \o (IF hasForm THEN readParams(form) ELSE <<>>) \o OAuthParams

BaseOf(l) == Prefix \o <<Ampersand>> \o appendEncoded(Join(l))

SortedFrom(l, c) ==
  \E order \in Orderings[Len(c)] :
    l = [k \in DOMAIN c |-> reEncode(c[order[k]])] /\ Ascending(l)

\* Query and form together have the parameters of the request.
RequestInv ==
  /\ query \in Text /\ form \in Text /\ hasForm \in BOOLEAN /\ params \in Seq(Pair)
  /\ form # <<>> => hasForm
  /\ ParamsOf(query) \in Seq(Pair) /\ ParamsOf(form) \in Seq(Pair)
  /\ ToBag(ParamsOf(query) \o ParamsOf(form)) = ToBag(params)
  /\ Len(ParamsOf(query)) + Len(ParamsOf(form)) = Len(params)
  /\ Len(params) <= MaxParams

ListInv ==
  /\ at \in {"request", "read", "sorted", "built", "checked"}
  /\ at = "read" => list = Collected
  /\ at \in {"sorted", "built", "checked"} => SortedFrom(list, Collected)
  /\ at \in {"built", "checked"} => base = BaseOf(list)
  /\ at = "checked" => signed = list

OAuthInv == RequestInv /\ ListInv

-----------------------------------------------------------------------------
(***************************************************************************)
(* OAuth: what is read.                                                    *)
(***************************************************************************)
Blank == << <<>>, <<>> >>

\* An empty text is read as one nameless parameter.
LEMMA ReadsParams ==
  ASSUME NEW text \in Text, ParamsOf(text) \in Seq(Pair)
  PROVE  /\ readParams(text) \in Seq(Pair) /\ readParams(text) # <<>>
         /\ text = <<>> => readParams(text) = <<Blank>>
         /\ text # <<>> => readParams(text) = ParamsOf(text)
<1>1. CASE text = <<>>
  <2>1. PICK parts : parts = StrSplit(text, Ampersand) /\ parts = << <<>> >>
    BY <1>1, SplitEmpty
  <2>2. readParam(<<>>) = Blank
    <3>1. PICK nv : nv = StrSplit(<<>>, Equals) /\ nv = << <<>> >>
      BY SplitEmpty
    <3>2. nv[1] = <<>> /\ ~(Len(nv) > 1)
      <4>1. PICK e \in Text : e = <<>>
        BY EmptySeq DEF Text
      <4>2. nv = <<e>>
        BY <3>1, <4>1
      <4>3. nv[1] = e /\ Len(nv) = 1
        BY <4>2
      <4> QED BY <4>1, <4>3
    <3> QED BY <3>1, <3>2, DecodeEmpty DEF readParam, Blank
  <2>3. readParams(text) = <<Blank>>
    <3>1. DOMAIN parts = 1 .. 1 /\ parts[1] = <<>>
      BY <2>1
    <3>2. [k \in DOMAIN parts |-> readParam(parts[k])] = <<Blank>>
      BY <2>2, <3>1
    <3> QED BY <2>1, <3>2 DEF readParams
  <2>4. Blank \in Pair
    BY EmptySeq DEF Blank, Pair, Text
  <2>5. <<Blank>> \in Seq(Pair) /\ <<Blank>> # <<>>
    BY <2>4
  <2> QED BY <1>1, <2>3, <2>5
<1>2. CASE text # <<>>
  <2>1. readParams(text) = ParamsOf(text)
    BY <1>2 DEF ParamsOf
  <2>2. PICK parts \in Seq(Text) : parts = StrSplit(text, Ampersand) /\ parts # <<>>
    BY SplitType DEF Text, Texts
  <2>3. DOMAIN readParams(text) = DOMAIN parts
    BY <2>2 DEF readParams
  <2>4. 1 \in DOMAIN parts
    BY <2>2
  <2>5. DOMAIN (<<>>) = {}
    OBVIOUS
  <2> QED BY <1>2, <2>1, <2>3, <2>4, <2>5
<1> QED BY <1>1, <1>2

FormPart == IF hasForm THEN readParams(form) ELSE <<>>
Blanks == (IF query = <<>> THEN <<Blank>> ELSE <<>>)
          \o (IF hasForm /\ form = <<>> THEN <<Blank>> ELSE <<>>)

\* How often one is read.
ReadOften(x) ==
  CountIn(Collected, {x}) = CountIn(params, {x}) + CountIn(OAuthParams, {x}) + CountIn(Blanks, {x})

LEMMA CountInEmpty ==
  ASSUME NEW P
  PROVE  CountIn(<<>>, P) = 0
<1>1. PlacesOf(<<>>, P) = {}
  BY DEF PlacesOf
<1> QED BY <1>1, FS_EmptySet DEF CountIn

LEMMA CollectedIs ==
  ASSUME RequestInv
  PROVE  /\ Collected \in Seq(Pair) /\ Collected # <<>>
         /\ Len(Collected) \in 0 .. MaxParams + Len(OAuthParams) + 2
         /\ \A x : ReadOften(x)
<1>0. OAuthParams \in Seq(Pair) /\ MaxParams \in Nat
  BY OAuthAssumption DEF Pair, Text, Byte
<1>1. PICK q \in Seq(Pair), pq \in Seq(Pair) :
        /\ q = readParams(query) /\ pq = ParamsOf(query) /\ q # <<>>
        /\ query = <<>> => q = <<Blank>> /\ pq = <<>>
        /\ query # <<>> => q = pq
  BY ReadsParams DEF RequestInv, ParamsOf
<1>2. PICK f \in Seq(Pair), pf \in Seq(Pair) :
        /\ f = FormPart /\ pf = ParamsOf(form)
        /\ ~hasForm => f = <<>> /\ pf = <<>>
        /\ hasForm /\ form = <<>> => f = <<Blank>> /\ pf = <<>>
        /\ hasForm /\ form # <<>> => f = pf
  <2>1. <<>> \in Seq(Pair)
    BY EmptySeq
  <2>2. /\ readParams(form) \in Seq(Pair)
        /\ form = <<>> => readParams(form) = <<Blank>>
        /\ form # <<>> => readParams(form) = ParamsOf(form)
    BY ReadsParams DEF RequestInv
  <2>3. ~hasForm => form = <<>>
    BY DEF RequestInv
  <2>4. form = <<>> => ParamsOf(form) = <<>>
    BY DEF ParamsOf
  <2>5. ParamsOf(form) \in Seq(Pair)
    BY DEF RequestInv
  <2>6. FormPart \in Seq(Pair)
    BY <2>1, <2>2 DEF FormPart
  <2>7. /\ ~hasForm => FormPart = <<>> /\ ParamsOf(form) = <<>>
        /\ hasForm /\ form = <<>> => FormPart = <<Blank>> /\ ParamsOf(form) = <<>>
        /\ hasForm /\ form # <<>> => FormPart = ParamsOf(form)
    BY <2>2, <2>3, <2>4 DEF FormPart
  <2> QED BY <2>5, <2>6, <2>7
<1>3. PICK qf \in Seq(Pair) : qf = q \o f /\ Len(qf) = Len(q) + Len(f)
  <2>1. q \o f \in Seq(Pair) /\ Len(q \o f) = Len(q) + Len(f)
    BY ConcatProperties
  <2> QED BY <2>1
<1>4. PICK c \in Seq(Pair) : c = qf \o OAuthParams /\ Len(c) = Len(qf) + Len(OAuthParams)
  <2>1. qf \o OAuthParams \in Seq(Pair) /\ Len(qf \o OAuthParams) = Len(qf) + Len(OAuthParams)
    BY <1>0, ConcatProperties
  <2> QED BY <2>1
<1>5. Collected = c
  BY <1>1, <1>2, <1>3, <1>4 DEF Collected, FormPart
<1>6. Blank \in Pair
  BY EmptySeq DEF Blank, Pair, Text
<1>7. PICK bq \in Seq(Pair) : bq = IF query = <<>> THEN <<Blank>> ELSE <<>>
  <2>1. <<Blank>> \in Seq(Pair) /\ <<>> \in Seq(Pair)
    BY <1>6, EmptySeq
  <2> QED BY <2>1
<1>8. PICK bf \in Seq(Pair) : bf = IF hasForm /\ form = <<>> THEN <<Blank>> ELSE <<>>
  <2>1. <<Blank>> \in Seq(Pair) /\ <<>> \in Seq(Pair)
    BY <1>6, EmptySeq
  <2> QED BY <2>1
<1>9. hasForm \in BOOLEAN /\ params \in Seq(Pair)
  BY DEF RequestInv
<1>10. ASSUME NEW x PROVE ReadOften(x)
  <2>1. CountIn(c, {x}) = CountIn(qf, {x}) + CountIn(OAuthParams, {x})
    BY <1>0, <1>4, CountInConcat
  <2>2. CountIn(qf, {x}) = CountIn(q, {x}) + CountIn(f, {x})
    BY <1>3, CountInConcat
  <2>3. CountIn(bq \o bf, {x}) = CountIn(bq, {x}) + CountIn(bf, {x})
    BY CountInConcat
  <2>4. CountIn(pq \o pf, {x}) = CountIn(pq, {x}) + CountIn(pf, {x})
    BY CountInConcat
  <2>5. CountIn(pq \o pf, {x}) = CountIn(params, {x})
    <3>1. pq \o pf \in Seq(Pair)
      BY ConcatProperties
    <3>2. ToBag(pq \o pf) = ToBag(params)
      BY <1>1, <1>2 DEF RequestInv
    <3>3. SameCounts(pq \o pf, params)
      BY <1>9, <3>1, <3>2, BagSame
    <3> QED BY <3>3 DEF SameCounts
  <2>6. CountIn(<<>>, {x}) = 0
    BY CountInEmpty
  <2>7. /\ CountIn(pq, {x}) \in Nat /\ CountIn(pf, {x}) \in Nat /\ CountIn(q, {x}) \in Nat
        /\ CountIn(f, {x}) \in Nat /\ CountIn(bq, {x}) \in Nat /\ CountIn(bf, {x}) \in Nat
    BY PlacesOfFinite
  <2>8. CountIn(OAuthParams, {x}) \in Nat
    BY <1>0, PlacesOfFinite
  <2>9. CountIn(q, {x}) = CountIn(pq, {x}) + CountIn(bq, {x})
    <3>1. (q = bq /\ pq = <<>>) \/ (q = pq /\ bq = <<>>)
      BY <1>1, <1>7
    <3> QED BY <2>6, <2>7, <3>1
  <2>10. CountIn(f, {x}) = CountIn(pf, {x}) + CountIn(bf, {x})
    <3>1. (f = bf /\ pf = <<>>) \/ (f = pf /\ bf = <<>>)
      BY <1>2, <1>8, <1>9
    <3> QED BY <2>6, <2>7, <3>1
  <2>11. Blanks = bq \o bf
    BY <1>7, <1>8 DEF Blanks
  <2>12. CountIn(Collected, {x}) = CountIn(c, {x}) /\ CountIn(Blanks, {x}) = CountIn(bq \o bf, {x})
    BY <1>5, <2>11
  <2>13. PICK nq \in Nat, nf \in Nat, no \in Nat, nbq \in Nat, nbf \in Nat, npq \in Nat, npf \in Nat :
           /\ nq = CountIn(q, {x}) /\ nf = CountIn(f, {x}) /\ no = CountIn(OAuthParams, {x})
           /\ nbq = CountIn(bq, {x}) /\ nbf = CountIn(bf, {x})
           /\ npq = CountIn(pq, {x}) /\ npf = CountIn(pf, {x})
    BY <2>7, <2>8
  <2>14. /\ CountIn(Collected, {x}) = (nq + nf) + no /\ CountIn(Blanks, {x}) = nbq + nbf
         /\ CountIn(params, {x}) = npq + npf
    BY <2>1, <2>2, <2>3, <2>4, <2>5, <2>12, <2>13
  <2>15. nq = npq + nbq /\ nf = npf + nbf
    BY <2>9, <2>10, <2>13
  <2>16. (nq + nf) + no = (npq + npf) + no + (nbq + nbf)
    BY <2>15
  <2> QED BY <2>13, <2>14, <2>16 DEF ReadOften
<1>11. Len(c) \in 0 .. MaxParams + Len(OAuthParams) + 2
  <2>1. Len(q) <= Len(pq) + 1 /\ Len(f) <= Len(pf) + 1
    <3>1. Len(<<Blank>>) = 1 /\ Len(<<>>) = 0
      OBVIOUS
    <3>2. ASSUME NEW a \in Seq(Pair), NEW b \in Seq(Pair), Len(a) \in {0, 1} \/ a = b
          PROVE  Len(a) <= Len(b) + 1
      <4>1. PICK m \in Nat, n \in Nat : m = Len(a) /\ n = Len(b)
        OBVIOUS
      <4>2. m \in {0, 1} \/ m = n
        BY <3>2, <4>1
      <4>3. m <= n + 1
        BY <4>2
      <4> QED BY <4>1, <4>3
    <3>3. Len(q) \in {0, 1} \/ q = pq
      BY <1>1, <3>1
    <3>4. Len(f) \in {0, 1} \/ f = pf
      BY <1>2, <1>9, <3>1
    <3> QED BY <3>2, <3>3, <3>4
  <2>2. Len(pq) + Len(pf) <= MaxParams
    BY <1>1, <1>2, <1>9 DEF RequestInv
  <2>3. Len(pq) \in Nat /\ Len(pf) \in Nat /\ Len(q) \in Nat /\ Len(f) \in Nat /\ Len(OAuthParams) \in Nat
    BY <1>0
  <2> QED BY <1>0, <1>3, <1>4, <2>1, <2>2, <2>3
<1>12. c # <<>>
  <2>1. Len(q) # 0
    BY <1>1, EmptySeq
  <2>2. Len(q) \in Nat /\ Len(f) \in Nat /\ Len(OAuthParams) \in Nat
    BY <1>0
  <2>3. Len(c) # 0
    BY <1>3, <1>4, <2>1, <2>2
  <2> QED BY <2>3, EmptySeq
<1> QED BY <1>5, <1>10, <1>11, <1>12

-----------------------------------------------------------------------------
(***************************************************************************)
(* OAuth: what is sorted.                                                  *)
(***************************************************************************)
LEMMA SortedFromIs ==
  ASSUME RequestInv, NEW l, SortedFrom(l, Collected)
  PROVE  l \in Seq(Encoded) /\ l # <<>> /\ Ascending(l)
<1>1. PICK c \in Seq(Pair), n \in Nat :
        c = Collected /\ c # <<>> /\ n = Len(c) /\ DOMAIN c = 1 .. n
        /\ n \in 0 .. MaxParams + Len(OAuthParams) + 2
  BY CollectedIs
<1>2. Orderings[n] = {p \in [1 .. n -> 1 .. n] : IsInjective(p)}
  BY <1>1 DEF Orderings
<1>3. PICK order \in [1 .. n -> 1 .. n] :
        l = [k \in DOMAIN c |-> reEncode(c[order[k]])] /\ Ascending(l)
  BY <1>1, <1>2 DEF SortedFrom
<1>4. ASSUME NEW k \in 1 .. n PROVE reEncode(c[order[k]]) \in Encoded
  <2>1. PICK p \in Pair : p = c[order[k]]
    BY <1>1, <1>3
  <2>2. p[1] \in Text /\ p[2] \in Text
    BY DEF Pair
  <2>3. appendEncoded(p[1]) \in Seq(Codes) /\ appendEncoded(p[2]) \in Seq(Codes)
    BY <2>2, EncodeType
  <2> QED BY <2>1, <2>3 DEF reEncode, Encoded
<1>5. PICK v : v = [k \in 1 .. n |-> reEncode(c[order[k]])]
  OBVIOUS
<1>6. v \in [1 .. n -> Encoded]
  BY <1>4, <1>5
<1>7. v \in Seq(Encoded) /\ Len(v) = n
  BY <1>6
<1>8. n # 0
  BY <1>1, EmptySeq
<1>9. v # <<>>
  BY <1>7, <1>8
<1> QED BY <1>1, <1>3, <1>5, <1>7, <1>9

-----------------------------------------------------------------------------
(***************************************************************************)
(* OAuth: the theorems.                                                    *)
(***************************************************************************)
LEMMA OAuthStarts ==
  ASSUME Init
  PROVE  OAuthInv
<1>1. <<>> \in Text /\ <<>> \in Seq(Pair)
  BY EmptySeq DEF Text
<1>2. ParamsOf(<<>>) = <<>>
  BY DEF ParamsOf
<1>3. <<>> \o <<>> = <<>>
  BY <1>1, ConcatEmptySeq
<1>4. Len(<<>>) = 0
  OBVIOUS
<1>5. MaxParams \in Nat
  BY OAuthAssumption
<1>6. RequestInv
  <2>1. query = <<>> /\ form = <<>> /\ hasForm \in BOOLEAN /\ params = <<>>
    BY DEF Init
  <2>2. ParamsOf(query) = <<>> /\ ParamsOf(form) = <<>>
    BY <1>2, <2>1
  <2>3. ToBag(ParamsOf(query) \o ParamsOf(form)) = ToBag(params)
    BY <1>3, <2>1, <2>2
  <2>4. Len(ParamsOf(query)) = 0 /\ Len(ParamsOf(form)) = 0 /\ Len(params) = 0
    BY <1>4, <2>1, <2>2
  <2>5. Len(ParamsOf(query)) + Len(ParamsOf(form)) = Len(params) /\ Len(params) <= MaxParams
    BY <1>5, <2>4
  <2>6. query \in Text /\ form \in Text /\ params \in Seq(Pair)
        /\ ParamsOf(query) \in Seq(Pair) /\ ParamsOf(form) \in Seq(Pair)
    BY <1>1, <2>1, <2>2
  <2> QED BY <2>1, <2>3, <2>5, <2>6 DEF RequestInv
<1>7. ListInv
  BY DEF Init, ListInv
<1> QED BY <1>6, <1>7 DEF OAuthInv

\* A parameter goes to the end of one of two texts.
Added(q, f, p, r, s) ==
  \/ q = Append(r, p) /\ f = s
  \/ q = r /\ f = Append(s, p)

LEMMA AddedOften ==
  ASSUME NEW ps \in Seq(Pair), NEW r \in Seq(Pair), NEW s \in Seq(Pair), NEW p \in Pair,
         NEW q \in Seq(Pair), NEW f \in Seq(Pair), Added(q, f, p, r, s),
         ToBag(r \o s) = ToBag(ps), Len(r) + Len(s) = Len(ps)
  PROVE  ToBag(q \o f) = ToBag(Append(ps, p)) /\ Len(q) + Len(f) = Len(Append(ps, p))
<1>1. r \o s \in Seq(Pair) /\ q \o f \in Seq(Pair) /\ Append(ps, p) \in Seq(Pair)
  BY ConcatProperties, AppendProperties
<1>2. SameCounts(r \o s, ps)
  BY <1>1, BagSame
<1>3. ASSUME NEW x PROVE CountIn(q \o f, {x}) = CountIn(Append(ps, p), {x})
  <2>1. PICK o \in Nat : o = CountIn(<<p>>, {x})
    <3>1. <<p>> \in Seq(Pair)
      OBVIOUS
    <3> QED BY <3>1, PlacesOfFinite
  <2>2. CountIn(Append(ps, p), {x}) = CountIn(ps, {x}) + o
    BY <2>1, CountInAppend
  <2>3. CountIn(Append(r, p), {x}) = CountIn(r, {x}) + o
    BY <2>1, CountInAppend
  <2>4. CountIn(Append(s, p), {x}) = CountIn(s, {x}) + o
    BY <2>1, CountInAppend
  <2>5. CountIn(r \o s, {x}) = CountIn(r, {x}) + CountIn(s, {x})
    BY CountInConcat
  <2>6. CountIn(q \o f, {x}) = CountIn(q, {x}) + CountIn(f, {x})
    BY CountInConcat
  <2>7. CountIn(r, {x}) \in Nat /\ CountIn(s, {x}) \in Nat /\ CountIn(ps, {x}) \in Nat
    BY PlacesOfFinite
  <2>8. CountIn(r \o s, {x}) = CountIn(ps, {x})
    BY <1>2 DEF SameCounts
  <2>9. CASE q = Append(r, p) /\ f = s
    <3>1. CountIn(q, {x}) = CountIn(r, {x}) + o /\ CountIn(f, {x}) = CountIn(s, {x})
      BY <2>3, <2>9
    <3> QED BY <2>2, <2>5, <2>6, <2>7, <2>8, <3>1
  <2>10. CASE q = r /\ f = Append(s, p)
    <3>1. CountIn(q, {x}) = CountIn(r, {x}) /\ CountIn(f, {x}) = CountIn(s, {x}) + o
      BY <2>4, <2>10
    <3> QED BY <2>2, <2>5, <2>6, <2>7, <2>8, <3>1
  <2> QED BY <2>9, <2>10 DEF Added
<1>4. SameCounts(q \o f, Append(ps, p))
  BY <1>3 DEF SameCounts
<1>5. ToBag(q \o f) = ToBag(Append(ps, p))
  BY <1>1, <1>4, SameBag
<1>6. Len(Append(ps, p)) = Len(ps) + 1 /\ Len(Append(r, p)) = Len(r) + 1 /\ Len(Append(s, p)) = Len(s) + 1
  BY AppendProperties
<1>7. PICK m \in Nat, n \in Nat : m = Len(r) /\ n = Len(s) /\ m + n = Len(ps)
  <2>1. Len(r) \in Nat /\ Len(s) \in Nat
    OBVIOUS
  <2> QED BY <2>1
<1>8. Len(q) + Len(f) = Len(Append(ps, p))
  <2>1. CASE q = Append(r, p) /\ f = s
    <3>1. Len(q) = m + 1 /\ Len(f) = n
      BY <1>6, <1>7, <2>1
    <3>2. Len(Append(ps, p)) = (m + n) + 1
      BY <1>6, <1>7
    <3> QED BY <3>1, <3>2
  <2>2. CASE q = r /\ f = Append(s, p)
    <3>1. Len(q) = m /\ Len(f) = n + 1
      BY <1>6, <1>7, <2>2
    <3> QED BY <1>6, <1>7, <3>1
  <2> QED BY <2>1, <2>2 DEF Added
<1> QED BY <1>5, <1>8

LEMMA OAuthAddParam ==
  ASSUME OAuthInv, NEW p \in Names \X Values, NEW all \in BOOLEAN, AddParam(p, all)
  PROVE  OAuthInv'
<1>1. p \in Pair /\ p[1] # <<>>
  <2>1. p[1] \in Names /\ p[2] \in Values /\ p = <<p[1], p[2]>>
    OBVIOUS
  <2>2. p[1] \in Seq(0 .. 255) /\ p[1] # <<>> /\ p[2] \in Seq(0 .. 255)
    BY <2>1, OAuthAssumption
  <2> QED BY <2>1, <2>2 DEF Pair, Text, Byte
<1>2. /\ query \in Text /\ form \in Text /\ hasForm \in BOOLEAN /\ params \in Seq(Pair)
      /\ ParamsOf(query) \in Seq(Pair) /\ ParamsOf(form) \in Seq(Pair)
      /\ ToBag(ParamsOf(query) \o ParamsOf(form)) = ToBag(params)
      /\ Len(ParamsOf(query)) + Len(ParamsOf(form)) = Len(params)
      /\ MaxParams \in Nat
  BY OAuthAssumption DEF OAuthInv, RequestInv
<1>3. /\ params' = Append(params, p) /\ Len(params) < MaxParams /\ hasForm' = hasForm
      /\ at' = "request"
  BY DEF AddParam
<1>4. /\ query' \in Text /\ form' \in Text /\ (form' # <<>> => hasForm')
      /\ ParamsOf(query') \in Seq(Pair) /\ ParamsOf(form') \in Seq(Pair)
      /\ Added(ParamsOf(query'), ParamsOf(form'), p, ParamsOf(query), ParamsOf(form))
  <2>1. CASE query' = AddTo(query, p, all) /\ form' = form
    <3>1. query' \in Text /\ ParamsOf(query') = Append(ParamsOf(query), p)
      BY <1>1, <1>2, <2>1, ReadAdded
    <3>2. Append(ParamsOf(query), p) \in Seq(Pair)
      BY <1>1, <1>2, AppendProperties
    <3> QED BY <1>2, <1>3, <2>1, <3>1, <3>2 DEF Added, OAuthInv, RequestInv
  <2>2. CASE hasForm /\ form' = AddTo(form, p, all) /\ query' = query
    <3>1. form' \in Text /\ ParamsOf(form') = Append(ParamsOf(form), p)
      BY <1>1, <1>2, <2>2, ReadAdded
    <3>2. Append(ParamsOf(form), p) \in Seq(Pair)
      BY <1>1, <1>2, AppendProperties
    <3> QED BY <1>2, <1>3, <2>2, <3>1, <3>2 DEF Added
  <2> QED BY <2>1, <2>2 DEF AddParam
<1>6. ToBag(ParamsOf(query') \o ParamsOf(form')) = ToBag(params')
      /\ Len(ParamsOf(query')) + Len(ParamsOf(form')) = Len(params')
  BY <1>1, <1>2, <1>3, <1>4, AddedOften
<1>7. params' \in Seq(Pair) /\ Len(params') <= MaxParams
  <2>1. Append(params, p) \in Seq(Pair) /\ Len(Append(params, p)) = Len(params) + 1
    BY <1>1, <1>2, AppendProperties
  <2>2. Len(params) \in Nat
    BY <1>2
  <2> QED BY <1>2, <1>3, <2>1, <2>2
<1>8. ParamsOf(query)' = ParamsOf(query') /\ ParamsOf(form)' = ParamsOf(form')
  BY DEF ParamsOf
<1>9. RequestInv'
  BY <1>2, <1>3, <1>4, <1>6, <1>7, <1>8 DEF RequestInv
<1>10. ListInv'
  BY <1>3 DEF ListInv
<1> QED BY <1>9, <1>10 DEF OAuthInv

\* The request stays when it is taken apart.
LEMMA RequestStays ==
  ASSUME UNCHANGED request
  PROVE  (RequestInv => RequestInv') /\ Collected' = Collected
<1>1. query' = query /\ form' = form /\ hasForm' = hasForm /\ params' = params
  BY DEF request
<1> QED BY <1>1 DEF RequestInv, Collected

LEMMA OAuthRead ==
  ASSUME OAuthInv, Read
  PROVE  OAuthInv'
<1>1. RequestInv' /\ Collected' = Collected
  BY RequestStays DEF OAuthInv, Read
<1>2. list' = Collected /\ at' = "read"
  BY DEF Read, Collected
<1> QED BY <1>1, <1>2 DEF OAuthInv, ListInv

LEMMA OAuthEncodeAndSort ==
  ASSUME OAuthInv, EncodeAndSort
  PROVE  OAuthInv'
<1>1. RequestInv' /\ Collected' = Collected
  BY RequestStays DEF OAuthInv, EncodeAndSort
<1>2. PICK c \in Seq(Pair), n \in Nat :
        c = Collected /\ n = Len(c) /\ DOMAIN c = 1 .. n
        /\ n \in 0 .. MaxParams + Len(OAuthParams) + 2
  BY CollectedIs DEF OAuthInv
<1>3. list = c /\ at' = "sorted"
  BY <1>2 DEF OAuthInv, ListInv, EncodeAndSort
<1>4. Orderings[n] = {p \in [1 .. n -> 1 .. n] : IsInjective(p)}
  BY <1>2 DEF Orderings
<1>5. DOMAIN list = 1 .. n /\ Len(list) = n
  BY <1>2, <1>3
<1>6. PICK encoded \in {[k \in DOMAIN list |-> reEncode(list[k])]}, order \in Orderings[Len(list)] :
        /\ Ascending([k \in DOMAIN list |-> encoded[order[k]]])
        /\ list' = [k \in DOMAIN list |-> encoded[order[k]]]
  BY DEF EncodeAndSort
<1>7. \A k \in 1 .. n : order[k] \in 1 .. n /\ encoded[order[k]] = reEncode(c[order[k]])
  <2>1. \A k \in 1 .. n : order[k] \in 1 .. n
    BY <1>4, <1>5, <1>6
  <2>2. encoded = [k \in 1 .. n |-> reEncode(c[k])]
    BY <1>3, <1>5, <1>6
  <2> QED BY <2>1, <2>2
<1>8. list' = [k \in DOMAIN c |-> reEncode(c[order[k]])]
  BY <1>2, <1>5, <1>6, <1>7
<1>9. SortedFrom(list', c)
  <2>1. Ascending(list') /\ order \in Orderings[Len(c)]
    BY <1>2, <1>5, <1>6
  <2> QED BY <1>8, <2>1 DEF SortedFrom
<1> QED BY <1>1, <1>2, <1>3, <1>9 DEF OAuthInv, ListInv

LEMMA OAuthBuild ==
  ASSUME OAuthInv, Build
  PROVE  OAuthInv'
<1>1. RequestInv' /\ Collected' = Collected
  BY RequestStays DEF OAuthInv, Build
<1>2. at = "sorted" /\ at' = "built" /\ list' = list /\ base' = BaseOf(list)
  BY DEF Build, BaseOf
<1>3. SortedFrom(list, Collected)
  BY <1>2 DEF OAuthInv, ListInv
<1> QED BY <1>1, <1>2, <1>3 DEF OAuthInv, ListInv

LEMMA OAuthCheck ==
  ASSUME OAuthInv, Check
  PROVE  OAuthInv'
<1>1. RequestInv' /\ Collected' = Collected
  BY RequestStays DEF OAuthInv, Check
<1>2. at = "built" /\ at' = "checked" /\ list' = list /\ base' = base
  BY DEF Check
<1>3. SortedFrom(list, Collected) /\ base = BaseOf(list)
  BY <1>2 DEF OAuthInv, ListInv
<1>4. list \in Seq(Encoded) /\ list # <<>>
  BY <1>3, SortedFromIs DEF OAuthInv
<1>5. signed' = Parsed(base)
  BY DEF Check, Parsed
<1>6. Prefix \in Text
  BY OAuthAssumption DEF Text, Byte
<1>7. signed' = list
  BY <1>3, <1>4, <1>5, <1>6, BaseParses DEF BaseOf
<1> QED BY <1>1, <1>2, <1>3, <1>7 DEF OAuthInv, ListInv

LEMMA OAuthInvariant == Spec => []OAuthInv
<1>1. Init => OAuthInv
  BY OAuthStarts
<1>2. OAuthInv /\ [Next]_vars => OAuthInv'
  <2> SUFFICES ASSUME OAuthInv, [Next]_vars
               PROVE  OAuthInv'
    OBVIOUS
  <2>1. ASSUME NEW p \in Names \X Values, NEW all \in BOOLEAN, AddParam(p, all) PROVE OAuthInv'
    BY <2>1, OAuthAddParam
  <2>2. CASE Read
    BY <2>2, OAuthRead
  <2>3. CASE EncodeAndSort
    BY <2>3, OAuthEncodeAndSort
  <2>4. CASE Build
    BY <2>4, OAuthBuild
  <2>5. CASE Check
    BY <2>5, OAuthCheck
  <2>6. CASE UNCHANGED vars
    <3>1. UNCHANGED request /\ at' = at /\ list' = list /\ base' = base /\ signed' = signed
      BY <2>6 DEF vars, request
    <3>2. RequestInv' /\ Collected' = Collected
      BY <3>1, RequestStays DEF OAuthInv
    <3> QED BY <3>1, <3>2 DEF OAuthInv, ListInv
  <2> QED BY <2>1, <2>2, <2>3, <2>4, <2>5, <2>6 DEF Next
<1> QED BY <1>1, <1>2, PTL DEF Spec

PlainPair == Seq(TwoDigit) \X Seq(TwoDigit)

\* A request with plain bytes is read as one.
LEMMA CollectedPlain ==
  ASSUME RequestInv, Plain, NEW x \in Range(Collected)
  PROVE  x \in PlainPair
<1>1. OAuthParams \in Seq(Pair) /\ params \in Seq(Pair)
  BY OAuthAssumption DEF RequestInv, Pair, Text, Byte
<1>2. Blank \in Pair /\ Blank \in PlainPair
  BY EmptySeq DEF Blank, Pair, Text, PlainPair
<1>3. Blanks \in Seq(Pair) /\ \A y \in Range(Blanks) : y = Blank
  <2>1. PICK e \in Seq(Pair), o \in Seq(Pair), b \in Seq(Pair) :
          e = <<>> /\ o = <<Blank>> /\ b = <<Blank, Blank>>
    <3>1. <<>> \in Seq(Pair) /\ <<Blank>> \in Seq(Pair)
      BY <1>2, EmptySeq
    <3>2. <<Blank, Blank>> \in Seq(Pair)
      BY <1>2
    <3> QED BY <3>1, <3>2
  <2>2. e \o e = e /\ e \o o = o /\ o \o e = o
    BY <2>1, ConcatEmptySeq
  <2>3. o \o o = b
    <3>1. o \o o = Append(o, Blank)
      BY <1>2, <2>1, AppendIsConcat
    <3> QED BY <1>2, <2>1, <3>1, AppendOne
  <2>4. Blanks \in {e, o, b}
    BY <2>1, <2>2, <2>3 DEF Blanks
  <2>5. (\A y \in Range(e) : y = Blank) /\ (\A y \in Range(o) : y = Blank)
        /\ (\A y \in Range(b) : y = Blank)
    BY <2>1 DEF Range
  <2> QED BY <2>4, <2>5
<1>4. Collected \in Seq(Pair) /\ ReadOften(x)
  BY CollectedIs
<1>5. CountIn(Collected, {x}) # 0
  BY <1>4, InRange
<1>6. CountIn(params, {x}) # 0 \/ CountIn(OAuthParams, {x}) # 0 \/ CountIn(Blanks, {x}) # 0
  BY <1>4, <1>5 DEF ReadOften
<1>7. x \in Range(params) \/ x \in Range(OAuthParams) \/ x \in Range(Blanks)
  BY <1>1, <1>3, <1>6, InRange
<1>8. ASSUME NEW ps \in {params, OAuthParams}, x \in Range(ps) PROVE x \in PlainPair
  <2>1. PICK k \in DOMAIN ps : x = ps[k]
    BY <1>8 DEF Range
  <2>2. x \in Pair /\ ps \in Seq(Pair)
    BY <1>1, <2>1
  <2>3. PICK a \in Text, b \in Text : x = <<a, b>> /\ x[1] = a /\ x[2] = b
    BY <2>2 DEF Pair
  <2>4. \A i \in DOMAIN a : a[i] \in TwoDigit
    BY <2>1, <2>3 DEF Plain, TwoDigit
  <2>5. \A i \in DOMAIN b : b[i] \in TwoDigit
    BY <2>1, <2>3 DEF Plain, TwoDigit
  <2>6. ASSUME NEW s \in Text, \A i \in DOMAIN s : s[i] \in TwoDigit PROVE s \in Seq(TwoDigit)
    <3>1. PICK n \in Nat : n = Len(s) /\ DOMAIN s = 1 .. n /\ s \in Seq(Byte)
      BY DEF Text
    <3>2. s \in [1 .. n -> TwoDigit]
      BY <2>6, <3>1
    <3> QED BY <3>2
  <2>7. a \in Seq(TwoDigit) /\ b \in Seq(TwoDigit)
    BY <2>4, <2>5, <2>6
  <2> QED BY <2>3, <2>7 DEF PlainPair
<1> QED BY <1>2, <1>3, <1>7, <1>8

\* Encoding a plain parameter can be undone.
LEMMA ReEncodeDecodes ==
  ASSUME NEW p \in PlainPair
  PROVE  <<decode(reEncode(p)[1]), decode(reEncode(p)[2])>> = p
<1>1. PICK a \in Seq(TwoDigit), b \in Seq(TwoDigit) : p = <<a, b>> /\ p[1] = a /\ p[2] = b
  BY DEF PlainPair
<1>2. decode(appendEncoded(a)) = a /\ decode(appendEncoded(b)) = b
  BY EncodeDecodes
<1>3. reEncode(p)[1] = appendEncoded(a) /\ reEncode(p)[2] = appendEncoded(b)
  BY <1>1 DEF reEncode
<1> QED BY <1>1, <1>2, <1>3

\* For plain bytes the code encodes as the RFC does.
LEMMA PlainSpecified ==
  ASSUME NEW s \in Seq(TwoDigit)
  PROVE  Specified(s) = appendEncoded(s)
<1>1. ASSUME NEW i \in DOMAIN s PROVE SpecifiedByte(s[i]) = encodedByte(s[i])
  <2>1. PICK b \in TwoDigit : b = s[i]
    OBVIOUS
  <2>2. Hex(b) = <<HexDigit(b \div 16), HexDigit(b % 16)>>
    <3>1. b \in 16 .. 127 /\ ~(b < 16) /\ ~(b > 127)
      BY DEF TwoDigit
    <3> QED BY <3>1 DEF Hex
  <2>3. <<Percent>> \o Hex(b) = <<Percent, HexDigit(b \div 16), HexDigit(b % 16)>>
    <3>1. b \in Byte
      BY DEF TwoDigit, Byte
    <3>2. HexDigit(b \div 16) \in HexDigits /\ HexDigit(b % 16) \in HexDigits
      BY <3>1, HexDigitsOf
    <3>3. Percent \in Int /\ HexDigit(b \div 16) \in Int /\ HexDigit(b % 16) \in Int
      BY <3>2 DEF HexDigits, Percent
    <3>4. <<Percent>> \o <<HexDigit(b \div 16), HexDigit(b % 16)>>
            = <<Percent, HexDigit(b \div 16), HexDigit(b % 16)>>
      BY <3>3, OneAndTwo
    <3> QED BY <2>2, <3>4
  <2> QED BY <2>1, <2>3 DEF SpecifiedByte, encodedByte
<1>2. [i \in DOMAIN s |-> SpecifiedByte(s[i])] = [i \in DOMAIN s |-> encodedByte(s[i])]
  BY <1>1
<1> QED BY <1>2 DEF Specified, appendEncoded

\* What the server finds is the encoding of plain parameters.
LEMMA SignedPlain ==
  ASSUME OAuthInv, at = "checked", Plain, NEW k \in DOMAIN signed
  PROVE  \E p \in PlainPair : signed[k] = reEncode(p)
<1>1. RequestInv /\ SortedFrom(signed, Collected)
  BY DEF OAuthInv, ListInv
<1>2. PICK c \in Seq(Pair), n \in Nat :
        c = Collected /\ n = Len(c) /\ DOMAIN c = 1 .. n
        /\ n \in 0 .. MaxParams + Len(OAuthParams) + 2
  BY <1>1, CollectedIs
<1>3. Orderings[n] = {p \in [1 .. n -> 1 .. n] : IsInjective(p)}
  BY <1>2 DEF Orderings
<1>4. PICK order \in Orderings[n] : signed = [i \in DOMAIN c |-> reEncode(c[order[i]])]
  BY <1>1, <1>2 DEF SortedFrom
<1>5. k \in 1 .. n /\ order[k] \in 1 .. n
  BY <1>2, <1>3, <1>4
<1>6. c[order[k]] \in PlainPair
  BY <1>1, <1>2, <1>5, CollectedPlain DEF Range
<1> QED BY <1>2, <1>4, <1>5, <1>6

\* Whatever the parameters and whichever ascending order std::sort leaves, when
\* all bytes are plain the server finds in the base string pairs that are encoded
\* as RFC 5849 says, in the order that it asks for.
THEOREM OrderSigned == Spec => []SignedInOrder
<1>1. OAuthInv => SignedInOrder
  <2> SUFFICES ASSUME OAuthInv, at = "checked", Plain
               PROVE  /\ \A k \in DOMAIN signed, n \in {1, 2} :
                           signed[k][n] = Specified(decode(signed[k][n]))
                      /\ \A k \in 1 .. Len(signed) - 1 :
                           LET p == signed[k]  q == signed[k + 1]
                           IN  ~Less(q[1], p[1]) /\ (q[1] = p[1] => ~Less(q[2], p[2]))
    BY DEF SignedInOrder
  <2>1. PICK l \in Seq(Encoded) : l = signed /\ Ascending(l)
    BY SortedFromIs DEF OAuthInv, ListInv
  <2>2. ASSUME NEW k \in 1 .. Len(l) - 1
        PROVE  ~Less(l[k + 1][1], l[k][1]) /\ (l[k + 1][1] = l[k][1] => ~Less(l[k + 1][2], l[k][2]))
    <3>1. k \in DOMAIN l /\ k + 1 \in DOMAIN l /\ k < k + 1
      OBVIOUS
    <3>2. ~compareParam(l[k + 1], l[k])
      BY <2>1, <3>1 DEF Ascending
    <3> QED BY <3>2 DEF compareParam
  <2>3. ASSUME NEW k \in DOMAIN signed, NEW n \in {1, 2}
        PROVE  signed[k][n] = Specified(decode(signed[k][n]))
    <3>1. PICK p \in PlainPair : signed[k] = reEncode(p)
      BY SignedPlain
    <3>2. p[1] \in Seq(TwoDigit) /\ p[2] \in Seq(TwoDigit)
      BY DEF PlainPair
    <3>3. p[n] \in Seq(TwoDigit)
      BY <3>2
    <3>4. signed[k][n] = appendEncoded(p[n])
      BY <3>1 DEF reEncode
    <3>5. decode(signed[k][n]) = p[n]
      BY <3>3, <3>4, EncodeDecodes
    <3> QED BY <3>3, <3>4, <3>5, PlainSpecified
  <2> QED BY <2>1, <2>2, <2>3
<1> QED BY <1>1, OAuthInvariant, PTL

\* Whatever the parameters, their escaping and their places, when all bytes are
\* plain the base string that buildBaseString makes holds every one of them once.
THEOREM EveryParameterSigned == Spec => []SignsEveryParameter
<1>1. OAuthInv => SignsEveryParameter
  <2> SUFFICES ASSUME OAuthInv, at = "checked", Plain
               PROVE  ToBag([k \in DOMAIN signed |-> <<decode(signed[k][1]), decode(signed[k][2])>>])
                        = ToBag(params \o OAuthParams \o Blanks)
    BY DEF SignsEveryParameter, Blanks, Blank
  <2>1. RequestInv /\ SortedFrom(signed, Collected)
    BY DEF OAuthInv, ListInv
  <2>2. PICK c \in Seq(Pair), n \in Nat :
          c = Collected /\ n = Len(c) /\ DOMAIN c = 1 .. n
          /\ n \in 0 .. MaxParams + Len(OAuthParams) + 2
    BY <2>1, CollectedIs
  <2>3. Orderings[n] = {p \in [1 .. n -> 1 .. n] : IsInjective(p)}
    BY <2>2 DEF Orderings
  <2>4. PICK order \in [1 .. n -> 1 .. n] :
          IsInjective(order) /\ signed = [k \in DOMAIN c |-> reEncode(c[order[k]])]
    BY <2>1, <2>2, <2>3 DEF SortedFrom
  <2>5. ASSUME NEW k \in 1 .. n
        PROVE  <<decode(signed[k][1]), decode(signed[k][2])>> = c[order[k]]
    <3>1. order[k] \in 1 .. n
      BY <2>4
    <3>2. c[order[k]] \in PlainPair
      BY <2>1, <2>2, <3>1, CollectedPlain DEF Range
    <3>3. signed[k] = reEncode(c[order[k]])
      BY <2>2, <2>4
    <3> QED BY <3>2, <3>3, ReEncodeDecodes
  <2>6. PICK d : d = [k \in 1 .. n |-> c[order[k]]]
    OBVIOUS
  <2>7. d = [k \in DOMAIN signed |-> <<decode(signed[k][1]), decode(signed[k][2])>>]
    <3>1. DOMAIN signed = 1 .. n
      BY <2>2, <2>4
    <3> QED BY <2>5, <2>6, <3>1
  <2>8. d \in Seq(Pair)
    <3>1. \A k \in 1 .. n : c[order[k]] \in Pair
      BY <2>2, <2>4
    <3>2. d \in [1 .. n -> Pair]
      BY <2>6, <3>1
    <3> QED BY <3>2
  <2>9. Reordered(c, d, order)
    <3>1. order \in Bijection(1 .. n, 1 .. n)
      BY <2>4, OrderBijection
    <3>2. DOMAIN d = 1 .. n /\ \A k \in 1 .. n : d[k] = c[order[k]]
      BY <2>6
    <3> QED BY <2>2, <3>1, <3>2 DEF Reordered
  <2>10. OAuthParams \in Seq(Pair) /\ params \in Seq(Pair)
    BY <2>1, OAuthAssumption DEF RequestInv, Pair, Text, Byte
  <2>11. Blanks \in Seq(Pair)
    <3>1. Blank \in Pair
      BY EmptySeq DEF Blank, Pair, Text
    <3>2. <<Blank>> \in Seq(Pair) /\ <<>> \in Seq(Pair)
      BY <3>1, EmptySeq
    <3> QED BY <3>2, ConcatProperties DEF Blanks
  <2>12. PICK po \in Seq(Pair), t \in Seq(Pair) : po = params \o OAuthParams /\ t = po \o Blanks
    BY <2>10, <2>11, ConcatProperties
  <2>13. ASSUME NEW x PROVE CountIn(d, {x}) = CountIn(t, {x})
    <3>1. CountIn(d, {x}) = CountIn(c, {x})
      BY <2>8, <2>9, CountInOrdered
    <3>2. CountIn(c, {x}) = CountIn(params, {x}) + CountIn(OAuthParams, {x}) + CountIn(Blanks, {x})
      BY <2>1, <2>2, CollectedIs DEF ReadOften
    <3>3. CountIn(po, {x}) = CountIn(params, {x}) + CountIn(OAuthParams, {x})
      BY <2>10, <2>12, CountInConcat
    <3>4. CountIn(t, {x}) = CountIn(po, {x}) + CountIn(Blanks, {x})
      <4>1. PICK b \in Seq(Pair) : b = Blanks
        BY <2>11
      <4>2. CountIn(po \o b, {x}) = CountIn(po, {x}) + CountIn(b, {x})
        BY CountInConcat
      <4> QED BY <2>12, <4>1, <4>2
    <3> QED BY <3>1, <3>2, <3>3, <3>4
  <2>14. SameCounts(d, t)
    BY <2>13 DEF SameCounts
  <2>15. ToBag(d) = ToBag(t)
    BY <2>8, <2>12, <2>14, SameBag
  <2> QED BY <2>7, <2>12, <2>15
<1> QED BY <1>1, OAuthInvariant, PTL
=============================================================================
