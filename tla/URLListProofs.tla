---------------------------- MODULE URLListProofs ----------------------------
(***************************************************************************)
(* Proofs about LineState and URLList, for any buffer, input and division  *)
(* into reads: the loop is given the lines of what was read, and the list  *)
(* is what they spell.                                                     *)
(***************************************************************************)
EXTENDS URLList, SumsProofs

-----------------------------------------------------------------------------
(***************************************************************************)
(* The lines of a sequence of bytes, by where they end.                    *)
(***************************************************************************)
Input == Seq(Bytes)

\* The lines that end among the first n bytes, and what each is.
Ends(s, n) == {j \in 2 .. n : isNewline(s[j]) /\ ~isNewline(s[j - 1])}
Newlines(s, j) == {0} \cup {i \in 1 .. j - 1 : isNewline(s[i])}
Before(s, j) == Max(Newlines(s, j))
Piece(s, j) == SubSeq(s, Before(s, j) + 1, j - 1)

\* The kth line is one of those that end among the first n bytes.
IsLine(s, n, k, line) ==
  \E j \in Ends(s, n) : Cardinality(Ends(s, j)) = k /\ line = Piece(s, j)

LEMMA EndsFinite ==
  ASSUME NEW s, NEW n \in Nat
  PROVE  IsFiniteSet(Ends(s, n)) /\ Cardinality(Ends(s, n)) \in Nat
<1>1. IsFiniteSet(2 .. n)
  BY FS_Interval
<1>2. Ends(s, n) \subseteq 2 .. n
  BY DEF Ends
<1>3. IsFiniteSet(Ends(s, n))
  BY <1>1, <1>2, FS_Subset
<1> QED BY <1>3, FS_CardinalityType

LEMMA EndsGrow ==
  ASSUME NEW s, NEW n \in Nat, NEW m \in Nat, n <= m
  PROVE  Ends(s, n) \subseteq Ends(s, m)
         /\ Cardinality(Ends(s, n)) <= Cardinality(Ends(s, m))
<1>1. Ends(s, n) \subseteq Ends(s, m)
  BY DEF Ends
<1>2. IsFiniteSet(Ends(s, m))
  BY EndsFinite
<1> QED BY <1>1, <1>2, FS_Subset

\* A later line has a higher number.
LEMMA EndsCount ==
  ASSUME NEW s, NEW i \in Nat, NEW j \in Nat, NEW n \in Nat, j \in Ends(s, n), i < j
  PROVE  Cardinality(Ends(s, i)) < Cardinality(Ends(s, j))
<1>1. j \in Ends(s, j) /\ Ends(s, i) \subseteq Ends(s, j) \ {j}
  BY DEF Ends
<1>2. IsFiniteSet(Ends(s, j)) /\ Cardinality(Ends(s, j)) \in Nat
  BY EndsFinite
<1>3. IsFiniteSet(Ends(s, j) \ {j})
      /\ Cardinality(Ends(s, j) \ {j}) = Cardinality(Ends(s, j)) - 1
  BY <1>1, <1>2, FS_RemoveElement
<1>4. Cardinality(Ends(s, i)) <= Cardinality(Ends(s, j) \ {j})
  BY <1>1, <1>3, FS_Subset
<1>5. Cardinality(Ends(s, i)) \in Nat
  BY EndsFinite
<1> QED BY <1>2, <1>3, <1>4, <1>5

LEMMA LinesAre ==
  ASSUME NEW s \in Input
  PROVE  /\ Len(LinesOf(s)) = Cardinality(Ends(s, Len(s)))
         /\ DOMAIN LinesOf(s) = 1 .. Cardinality(Ends(s, Len(s)))
         /\ LinesOf(s) = [k \in DOMAIN LinesOf(s) |-> LinesOf(s)[k]]
         /\ \A n \in 0 .. Len(s) : \A k, line :
              IsLine(s, n, k, line) => k \in DOMAIN LinesOf(s) /\ LinesOf(s)[k] = line
<1>1. Len(s) \in Nat
  BY DEF Input
<1> DEFINE ends == Ends(s, Len(s))
           End(k) == CHOOSE j \in ends : Cardinality({i \in ends : i <= j}) = k
<1>2. LinesOf(s) = [k \in 1 .. Cardinality(ends) |-> Piece(s, End(k))]
  BY DEF LinesOf, Ends, Piece, Before, Newlines
<1>3. Cardinality(ends) \in Nat
  BY <1>1, EndsFinite
<1>4. ASSUME NEW n \in 0 .. Len(s), NEW k, NEW line, IsLine(s, n, k, line)
      PROVE  k \in 1 .. Cardinality(ends) /\ Piece(s, End(k)) = line
  <2>1. PICK j \in Ends(s, n) : Cardinality(Ends(s, j)) = k /\ line = Piece(s, j)
    BY <1>4 DEF IsLine
  <2>2. j \in Nat /\ 0 < j /\ j <= Len(s) /\ n \in Nat /\ j \in ends
    BY <1>1 DEF Ends
  <2>3. \A i \in ends : {x \in ends : x <= i} = Ends(s, i) /\ i \in Nat
    BY <1>1 DEF Ends
  <2>4. ASSUME NEW i \in ends, Cardinality(Ends(s, i)) = k PROVE i = j
    <3>1. i \in Nat /\ Cardinality(Ends(s, i)) \in Nat /\ Cardinality(Ends(s, j)) \in Nat
      BY <2>2, <2>3, EndsFinite
    <3>2. CASE i < j
      <4>1. Cardinality(Ends(s, i)) < Cardinality(Ends(s, j))
        BY <1>1, <2>2, <3>1, <3>2, EndsCount
      <4> QED BY <2>1, <2>4, <3>1, <4>1
    <3>3. CASE j < i
      <4>1. Cardinality(Ends(s, j)) < Cardinality(Ends(s, i))
        BY <1>1, <2>2, <2>4, <3>1, <3>3, EndsCount
      <4> QED BY <2>1, <2>4, <3>1, <4>1
    <3> QED BY <2>2, <3>1, <3>2, <3>3
  <2>5. End(k) = j
    BY <2>1, <2>2, <2>3, <2>4
  <2>6. Cardinality(Ends(s, 0)) < Cardinality(Ends(s, j))
    BY <2>2, EndsCount
  <2>7. Cardinality(Ends(s, j)) <= Cardinality(ends)
    BY <1>1, <2>2, EndsGrow
  <2>8. Cardinality(Ends(s, 0)) \in Nat /\ Cardinality(Ends(s, j)) \in Nat
    BY <2>2, EndsFinite
  <2> HIDE DEF ends, End
  <2> QED BY <1>3, <2>1, <2>5, <2>6, <2>7, <2>8
<1> HIDE DEF ends, End
<1>5. Len(LinesOf(s)) = Cardinality(ends) /\ DOMAIN LinesOf(s) = 1 .. Cardinality(ends)
  BY <1>2, <1>3
<1>6. \A n \in 0 .. Len(s) : \A k, line :
        IsLine(s, n, k, line) => k \in DOMAIN LinesOf(s) /\ LinesOf(s)[k] = line
  BY <1>2, <1>4, <1>5
<1>7. LinesOf(s) = [k \in DOMAIN LinesOf(s) |-> LinesOf(s)[k]]
  BY <1>2
<1> QED BY <1>5, <1>6, <1>7 DEF ends

\* The last newline before a position.
LEMMA BeforeIs ==
  ASSUME NEW s \in Input, NEW j \in Nat, NEW n \in Nat, n < j, j <= Len(s),
         n = 0 \/ isNewline(s[n]), \A i \in n + 1 .. j - 1 : ~isNewline(s[i])
  PROVE  Before(s, j) = n
<1>1. n \in Newlines(s, j) /\ \A y \in Newlines(s, j) : n >= y
  BY DEF Newlines
<1>2. \A x \in Newlines(s, j) : (\A y \in Newlines(s, j) : x >= y) => x = n
  BY <1>1 DEF Newlines
<1> QED BY <1>1, <1>2 DEF Before, Max

LEMMA BeforeType ==
  ASSUME NEW s, NEW j \in Nat \ {0}
  PROVE  Before(s, j) \in 0 .. j - 1
<1> DEFINE S == Newlines(s, j)
           T == {i \in 0 .. j - 1 : j - 1 - i \in S}
           m == j - 1 - Min(T)
<1>1. S \subseteq 0 .. j - 1 /\ 0 \in S
  BY DEF Newlines
<1>2. T \in SUBSET Nat /\ j - 1 \in T
  BY <1>1
<1>3. Min(T) \in T /\ \A y \in T : Min(T) <= y
  BY <1>2, MinIn
<1>4. m \in S /\ \A y \in S : m >= y
  <2>1. m \in S
    BY <1>3
  <2>2. ASSUME NEW y \in S PROVE m >= y
    <3>1. y \in 0 .. j - 1 /\ j - 1 - (j - 1 - y) = y
      BY <1>1
    <3>2. j - 1 - y \in T
      BY <3>1
    <3>3. Min(T) <= j - 1 - y /\ Min(T) \in 0 .. j - 1
      BY <1>3, <3>2
    <3> QED BY <3>1, <3>3
  <2> QED BY <2>1, <2>2
<1> HIDE DEF m, S, T
<1>5. \A x \in S : (\A y \in S : x >= y) => x = m
  BY <1>1, <1>4
<1>6. Max(S) = m
  BY <1>4, <1>5 DEF Max
<1> QED BY <1>1, <1>4, <1>6 DEF Before, S

\* What is read later changes no line before it.
LEMMA LinesKept ==
  ASSUME NEW s \in Input, NEW x \in Input, NEW n \in 0 .. Len(s)
  PROVE  /\ Ends(s \o x, n) = Ends(s, n)
         /\ \A k, line : IsLine(s, n, k, line) => IsLine(s \o x, n, k, line)
<1> DEFINE t == s \o x
<1>1. t \in Input /\ Len(t) >= Len(s) /\ Len(s) \in Nat /\ \A i \in 1 .. Len(s) : t[i] = s[i]
  BY DEF Input
<1> HIDE DEF t
<1>2. ASSUME NEW m \in 0 .. Len(s) PROVE Ends(t, m) = Ends(s, m)
  <2>1. \A j \in 2 .. m : j \in 1 .. Len(s) /\ j - 1 \in 1 .. Len(s)
    BY <1>1
  <2>2. \A j \in 2 .. m : t[j] = s[j] /\ t[j - 1] = s[j - 1]
    BY <1>1, <2>1
  <2> QED BY <2>2 DEF Ends
<1>3. ASSUME NEW j \in 1 .. Len(s) PROVE Piece(t, j) = Piece(s, j)
  <2>1. Newlines(t, j) = Newlines(s, j)
    BY <1>1 DEF Newlines
  <2>2. Before(t, j) = Before(s, j)
    BY <2>1 DEF Before
  <2>3. PICK b \in 0 .. j - 1 : b = Before(s, j) /\ b = Before(t, j)
    BY <1>1, <2>2, BeforeType
  <2>4. \A i \in b + 1 .. j - 1 : t[i] = s[i]
    BY <1>1
  <2>5. SubSeq(t, b + 1, j - 1) = SubSeq(s, b + 1, j - 1)
    BY <1>1, <2>4 DEF Input
  <2> QED BY <2>3, <2>5 DEF Piece
<1>4. \A j \in Ends(s, n) : j \in 1 .. Len(s)
  BY <1>1 DEF Ends
<1> QED BY <1>1, <1>2, <1>3, <1>4 DEF IsLine, t

\* One more newline and those that follow it: after a line, or after a newline.
NextEnd(s, n, e, m) ==
  /\ n < e /\ e <= m /\ m <= Len(s)
  /\ n = 0 \/ isNewline(s[n])
  /\ \A i \in n + 1 .. e - 1 : ~isNewline(s[i])
  /\ \A i \in e .. m : isNewline(s[i])

LEMMA EndsNext ==
  ASSUME NEW s \in Input, NEW n \in Nat, NEW e \in Nat, NEW m \in Nat, NextEnd(s, n, e, m)
  PROVE  /\ e = n + 1 => Ends(s, m) = Ends(s, n)
         /\ e > n + 1 => /\ e \in Ends(s, m) /\ Before(s, e) = n
                         /\ Ends(s, m) = Ends(s, e)
                         /\ Cardinality(Ends(s, e)) = Cardinality(Ends(s, n)) + 1
<1> USE DEF NextEnd
<1>1. Len(s) \in Nat
  BY DEF Input
<1>2. ASSUME e = n + 1 PROVE Ends(s, m) = Ends(s, n)
  <2>1. ASSUME NEW j \in n + 1 .. m, j >= 2 PROVE isNewline(s[j - 1])
    <3>1. CASE j = n + 1
      BY <2>1, <3>1
    <3>2. CASE j # n + 1
      <4>1. j - 1 \in e .. m
        BY <1>2, <2>1, <3>2
      <4> QED BY <4>1
    <3> QED BY <3>1, <3>2
  <2>2. \A j \in Ends(s, m) : j \in 2 .. n
    BY <2>1 DEF Ends
  <2> QED BY <2>2 DEF Ends
<1>3. ASSUME e > n + 1
      PROVE  /\ e \in Ends(s, m) /\ Before(s, e) = n /\ Ends(s, m) = Ends(s, e)
             /\ Cardinality(Ends(s, e)) = Cardinality(Ends(s, n)) + 1
  <2>1. e - 1 \in n + 1 .. e - 1 /\ e \in e .. m /\ e \in 2 .. m /\ e \in 2 .. e
    BY <1>3
  <2>2. isNewline(s[e]) /\ ~isNewline(s[e - 1])
    BY <2>1
  <2>3. e \in Ends(s, m) /\ e \in Ends(s, e)
    BY <2>1, <2>2 DEF Ends
  <2>4. Before(s, e) = n
    BY BeforeIs
  <2>5. ASSUME NEW j \in e + 1 .. m PROVE isNewline(s[j - 1])
    <3>1. j - 1 \in e .. m
      OBVIOUS
    <3> QED BY <3>1
  <2>6. Ends(s, m) = Ends(s, e)
    <3>1. \A j \in Ends(s, m) : j \in 2 .. e
      BY <2>5 DEF Ends
    <3> QED BY <3>1 DEF Ends
  <2>7. Ends(s, e) = Ends(s, n) \cup {e} /\ e \notin Ends(s, n)
    <3>1. \A j \in Ends(s, e) : j \in 2 .. n \/ j = e
      BY DEF Ends
    <3>2. \A j \in Ends(s, n) : j \in 2 .. e /\ j < e
      BY DEF Ends
    <3> QED BY <2>3, <3>1, <3>2 DEF Ends
  <2>8. IsFiniteSet(Ends(s, n))
    BY EndsFinite
  <2>9. Cardinality(Ends(s, n) \cup {e}) = Cardinality(Ends(s, n)) + 1
    BY <2>7, <2>8, FS_AddElement
  <2> QED BY <2>3, <2>4, <2>6, <2>7, <2>9
<1> QED BY <1>2, <1>3

\* One more line that was given.
LEMMA OneGiven ==
  ASSUME NEW L, NEW some \in Seq(L), NEW line \in L
  PROVE  LET more == Append(some, line) IN
         /\ \A i \in 1 .. Len(some) : NotBlank(more, i) = NotBlank(some, i)
         /\ Cardinality(NotBlank(more, Len(some) + 1))
              = Cardinality(NotBlank(some, Len(some))) + (IF line # <<>> THEN 1 ELSE 0)
<1> DEFINE more == Append(some, line)
           n == Len(some)
<1>1. n \in Nat /\ more[n + 1] = line /\ \A i \in 1 .. n : more[i] = some[i]
  OBVIOUS
<1> HIDE DEF more, n
<1>2. \A i \in 1 .. n : NotBlank(more, i) = NotBlank(some, i)
  BY <1>1 DEF NotBlank
<1>3. NotBlank(more, n + 1) = IF line # <<>> THEN NotBlank(some, n) \cup {n + 1}
                              ELSE NotBlank(some, n)
  <2>1. NotBlank(more, n + 1) \subseteq 1 .. n + 1 /\ NotBlank(some, n) \subseteq 1 .. n
    BY DEF NotBlank
  <2>2. \A i \in 1 .. n : i \in NotBlank(more, n + 1) <=> i \in NotBlank(some, n)
    BY <1>1 DEF NotBlank
  <2>3. n + 1 \in NotBlank(more, n + 1) <=> line # <<>>
    BY <1>1 DEF NotBlank
  <2>4. PICK m, A, B : /\ m \in Nat /\ A \in SUBSET (1 .. m) /\ B \in SUBSET (1 .. m + 1)
                       /\ m = n /\ A = NotBlank(some, n) /\ B = NotBlank(more, n + 1)
    BY <1>1, <2>1
  <2>5. B = IF m + 1 \in B THEN A \cup {m + 1} ELSE A
    <3>1. \A i \in 1 .. m : i \in B <=> i \in A
      BY <2>2, <2>4
    <3>2. \A i \in 1 .. m + 1 : i \in 1 .. m \/ i = m + 1
      BY <2>4
    <3>3. ASSUME NEW i PROVE i \in B <=> i \in (IF m + 1 \in B THEN A \cup {m + 1} ELSE A)
      <4>1. i \in A => i \in 1 .. m
        BY <2>4
      <4>2. i \in B => i \in 1 .. m + 1
        BY <2>4
      <4> QED BY <3>1, <3>2, <4>1, <4>2
    <3> QED BY <3>3
  <2> QED BY <2>3, <2>4, <2>5
<1>4. IsFiniteSet(NotBlank(some, n)) /\ n + 1 \notin NotBlank(some, n)
  <2>1. IsFiniteSet(1 .. n)
    <3>1. PICK m \in Nat : m = n
      BY <1>1
    <3>2. IsFiniteSet(1 .. m)
      BY FS_Interval
    <3> QED BY <3>1, <3>2
  <2>2. NotBlank(some, n) \subseteq 1 .. n
    BY DEF NotBlank
  <2> QED BY <1>1, <2>1, <2>2, FS_Subset
<1>5. Cardinality(NotBlank(some, n) \cup {n + 1}) = Cardinality(NotBlank(some, n)) + 1
      /\ Cardinality(NotBlank(some, n)) \in Nat
  BY <1>4, FS_AddElement, FS_CardinalityType
<1>6. Cardinality(NotBlank(more, n + 1))
        = Cardinality(NotBlank(some, n)) + (IF line # <<>> THEN 1 ELSE 0)
  BY <1>3, <1>5
<1> QED BY <1>2, <1>6 DEF more, n

-----------------------------------------------------------------------------
(***************************************************************************)
(* The buffer.                                                             *)
(***************************************************************************)
\* How many bytes have left the buffer, and how many are of lines given.
Gone == Len(received) - Len(buf)
Taken == Gone + (IF at = "consume" THEN lineStart ELSE lineEnd)

\* The buffer is the end of what was read.  What is taken ends with a newline; none
\* follows it in the buffer it was found in, and none at all while next is not called.
BufferInv ==
  /\ Len(buf) <= Len(received) /\ \A q \in 1 .. Len(buf) : buf[q] = received[Gone + q]
  /\ at = "consume" => ~lineComplete /\ lineEnd = Len(buf)
  /\ at \in {"read", "done", "failed"} => lineEnd = 0
  /\ at = "next" /\ lineEnd \in 1 .. Len(buf) - 1 => ~isNewline(buf[lineEnd + 1])
  /\ Taken = 0 \/ isNewline(received[Taken])
  /\ at # "next" => \A q \in Taken + 1 .. Len(received) : ~isNewline(received[q])
  /\ at = "done" /\ input # <<>> => Len(buf) = bufSize

\* The lines that were given are those that end in what is taken.
Given(some, n) == Cardinality(NotBlank(some, n))
LinesInv ==
  /\ \A i \in 1 .. Len(lines) :
       lines[i] # <<>> => IsLine(received, Taken, Given(lines, i), lines[i])
  /\ Cardinality(Ends(received, Taken)) = Given(lines, Len(lines))

LineInv == TypeOK /\ BufferInv /\ LinesInv

Line == Seq({"x"})

LEMMA TypesAre ==
  ASSUME TypeOK
  PROVE  /\ input \in Input /\ received \in Input /\ buf \in Input /\ lines \in Seq(Line)
         /\ Len(input) \in Nat /\ Len(received) \in Nat /\ Len(buf) \in Nat /\ Len(lines) \in Nat
         /\ lineStart \in 0 .. Len(buf) /\ lineEnd \in 0 .. Len(buf) /\ bufSize \in Nat \ {0}
<1>1. /\ input \in Input /\ received \in Input /\ buf \in Input /\ lines \in Seq(Line)
      /\ lineEnd \in 0 .. Len(buf) /\ lineStart \in 0 .. lineEnd
  BY DEF TypeOK, Input, Line
<1>2. Len(input) \in Nat /\ Len(received) \in Nat /\ Len(buf) \in Nat /\ Len(lines) \in Nat
  BY <1>1 DEF Input
<1> QED BY <1>1, <1>2, LineAssumption

LEMMA TakenType ==
  ASSUME TypeOK, Len(buf) <= Len(received)
  PROVE  Gone \in Nat /\ Taken \in 0 .. Len(received)
BY TypesAre DEF Gone, Taken

LEMMA Slice ==
  ASSUME NEW s \in Input, NEW m \in Nat \ {0}, NEW n \in Nat, m <= n + 1, n <= Len(s)
  PROVE  /\ SubSeq(s, m, n) \in Input /\ Len(SubSeq(s, m, n)) = n - m + 1
         /\ \A q \in 1 .. n - m + 1 : SubSeq(s, m, n)[q] = s[m + q - 1]
<1>1. ASSUME NEW q \in 1 .. n - m + 1 PROVE s[m + q - 1] \in Bytes
  <2>1. m + q - 1 \in 1 .. Len(s)
    OBVIOUS
  <2> QED BY <2>1 DEF Input
<1>2. SubSeq(s, m, n) = [q \in 1 .. n - m + 1 |-> s[m + q - 1]]
  BY DEF Input
<1>3. n - m + 1 \in Nat
  OBVIOUS
<1> QED BY <1>1, <1>2, <1>3 DEF Input

LEMMA SameSlice ==
  ASSUME NEW s \in Input, NEW t \in Input, NEW d \in Nat, NEW m \in Nat \ {0}, NEW n \in Nat,
         m <= n + 1, n <= Len(s), n + d <= Len(t),
         \A q \in m .. n : s[q] = t[d + q]
  PROVE  SubSeq(s, m, n) = SubSeq(t, m + d, n + d)
<1>1. SubSeq(s, m, n) = [q \in 1 .. n - m + 1 |-> s[m + q - 1]]
  BY DEF Input
<1>2. SubSeq(t, m + d, n + d) = [q \in 1 .. n - m + 1 |-> t[m + d + q - 1]]
  <2>1. n + d - (m + d) + 1 = n - m + 1
    OBVIOUS
  <2> QED BY <2>1 DEF Input
<1>3. \A q \in 1 .. n - m + 1 : s[m + q - 1] = t[m + d + q - 1]
  <2> SUFFICES ASSUME NEW q \in 1 .. n - m + 1 PROVE s[m + q - 1] = t[m + d + q - 1]
    OBVIOUS
  <2>1. m + q - 1 \in m .. n /\ d + (m + q - 1) = m + d + q - 1
    OBVIOUS
  <2> QED BY <2>1
<1> QED BY <1>1, <1>2, <1>3

LEMMA LineInit == Init => LineInv
<1> SUFFICES ASSUME Init PROVE LineInv
  OBVIOUS
<1>0. Len(<<>>) = 0 /\ <<>> \in Seq(Bytes) /\ <<>> \in Seq(Line)
  OBVIOUS
<1>1. input \in Seq(Bytes)
  <2>1. PICK m \in 0 .. MaxInput : input \in [1 .. m -> Bytes]
    BY DEF Init, BoundedSeq, SeqOf
  <2>2. m \in Nat
    BY LineAssumption
  <2> QED BY <2>1, <2>2
<1>2. TypeOK
  <2>1. lineEnd \in 0 .. Len(buf) /\ lineStart \in 0 .. lineEnd /\ Len(buf) <= bufSize
    BY <1>0, LineAssumption DEF Init
  <2>2. at = "read" /\ reader \in Readers /\ lineComplete \in BOOLEAN
        /\ buf \in Seq(Bytes) /\ received \in Seq(Bytes) /\ lines \in Seq(Seq({"x"}))
    BY <1>0 DEF Init, Line
  <2> QED BY <1>1, <2>1, <2>2 DEF TypeOK
<1>3. BufferInv
  BY <1>0 DEF Init, BufferInv, Gone, Taken
<1>4. LinesInv
  <2>1. Taken = 0 /\ lines = <<>>
    BY <1>0 DEF Init, Taken, Gone
  <2>2. Ends(received, 0) = {} /\ NotBlank(lines, 0) = {}
    BY DEF Ends, NotBlank
  <2> QED BY <1>0, <2>1, <2>2 DEF LinesInv, Given
<1> QED BY <1>2, <1>3, <1>4 DEF LineInv

\* ReadLengths, for the file and for the socket.
LEMMA LengthsAre ==
  ASSUME TypeOK, NEW len \in ReadLengths
  PROVE  /\ len \in Nat /\ len <= bufSize - Len(buf) /\ len <= Len(input)
         /\ len = 0 => Len(buf) = bufSize \/ Len(input) = 0
<1> DEFINE most == Min({bufSize - Len(buf), Len(input)})
<1>1. bufSize - Len(buf) \in Nat /\ Len(input) \in Nat
  <2>1. Len(buf) \in Nat /\ Len(buf) <= bufSize
    BY TypesAre DEF TypeOK
  <2> QED BY <2>1, TypesAre
<1>2. most \in {bufSize - Len(buf), Len(input)}
      /\ \A y \in {bufSize - Len(buf), Len(input)} : most <= y
  BY <1>1, MinIn
<1>3. most \in Nat /\ most <= bufSize - Len(buf) /\ most <= Len(input)
  BY <1>1, <1>2
<1>4. len \in 0 .. most /\ (len = 0 => most = 0)
  BY <1>3 DEF ReadLengths
<1> HIDE DEF most
<1>5. most = 0 => bufSize - Len(buf) = 0 \/ Len(input) = 0
  BY <1>2
<1>6. bufSize - Len(buf) = 0 => Len(buf) = bufSize
  BY TypesAre
<1> QED BY <1>1, <1>3, <1>4, <1>5, <1>6

LEMMA ReadStep == LineInv /\ Read => LineInv'
<1> SUFFICES ASSUME LineInv, Read PROVE LineInv'
  OBVIOUS
<1>1. TypeOK /\ BufferInv /\ LinesInv /\ at = "read" /\ lineEnd = 0
  BY DEF LineInv, Read, BufferInv
<1>0. CASE at' = "failed" /\ UNCHANGED <<buf, received, input>>
  <2>1. UNCHANGED <<reader, lineStart, lineEnd, lineComplete, lines>>
    BY DEF Read
  <2>2. TypeOK'
    BY <1>0, <1>1, <2>1 DEF TypeOK
  <2>3. Gone' = Gone /\ Taken' = Taken
    BY <1>0, <1>1, <2>1 DEF Gone, Taken
  <2>4. BufferInv'
    BY <1>0, <1>1, <2>1, <2>3 DEF BufferInv
  <2>5. LinesInv'
    BY <1>0, <1>1, <2>1, <2>3 DEF LinesInv
  <2> QED BY <2>2, <2>4, <2>5 DEF LineInv
<1> SUFFICES ASSUME ~(at' = "failed" /\ UNCHANGED <<buf, received, input>>) PROVE LineInv'
  BY <1>0
<1>2. PICK len \in ReadLengths :
        /\ buf' = buf \o SubSeq(input, 1, len)
        /\ received' = received \o SubSeq(input, 1, len)
        /\ input' = SubSeq(input, len + 1, Len(input))
        /\ at' = IF len = 0 THEN "done" ELSE "next"
  BY DEF Read
<1>3. UNCHANGED <<reader, lineStart, lineEnd, lineComplete, lines>>
  BY DEF Read
<1>4. /\ len \in Nat /\ len <= bufSize - Len(buf) /\ len <= Len(input)
      /\ len = 0 => Len(buf) = bufSize \/ Len(input) = 0
  BY <1>1, LengthsAre
<1>5. PICK x \in Input : x = SubSeq(input, 1, len) /\ Len(x) = len
  <2>1. input \in Input /\ Len(input) \in Nat /\ 1 <= len + 1
    BY <1>1, <1>4, TypesAre
  <2>2. SubSeq(input, 1, len) \in Input /\ Len(SubSeq(input, 1, len)) = len - 1 + 1
    BY <1>4, <2>1, Slice
  <2>3. PICK y : y = SubSeq(input, 1, len)
    OBVIOUS
  <2>4. y \in Input /\ Len(y) = len
    BY <1>4, <2>2, <2>3
  <2> QED BY <2>3, <2>4
<1>6. /\ buf' \in Input /\ received' \in Input /\ input' \in Input
      /\ Len(buf') = Len(buf) + len /\ Len(received') = Len(received) + len
      /\ Len(buf) \in Nat /\ Len(received) \in Nat
      /\ \A q \in 1 .. Len(buf) : buf'[q] = buf[q]
      /\ \A q \in 1 .. Len(received) : received'[q] = received[q]
      /\ \A q \in 1 .. len : buf'[Len(buf) + q] = x[q] /\ received'[Len(received) + q] = x[q]
  BY <1>1, <1>2, <1>4, <1>5, TypesAre DEF Input
<1>7. Len(buf) <= Len(received) /\ Gone \in Nat /\ Taken \in 0 .. Len(received)
  BY <1>1, TakenType DEF BufferInv
<1>8. Gone' = Gone /\ Taken' = Taken
  BY <1>1, <1>2, <1>3, <1>4, <1>6 DEF Gone, Taken
<1>9. at' \in {"next", "done"} /\ (at' = "done" => len = 0)
  BY <1>2
<1>10. TypeOK'
  <2>1. Len(buf') <= bufSize /\ lineEnd' \in 0 .. Len(buf') /\ lineStart' \in 0 .. lineEnd'
    <3>1. bufSize \in Nat /\ lineEnd \in 0 .. Len(buf) /\ lineStart \in 0 .. lineEnd
      BY <1>1, TypesAre DEF TypeOK
    <3> QED BY <1>3, <1>4, <1>6, <3>1
  <2> QED BY <1>1, <1>3, <1>6, <1>9, <2>1 DEF TypeOK, Input
<1>11. BufferInv'
  <2>1. \A q \in 1 .. Len(buf') : buf'[q] = received'[Gone' + q]
    <3> SUFFICES ASSUME NEW q \in 1 .. Len(buf') PROVE buf'[q] = received'[Gone + q]
      BY <1>8
    <3>1. CASE q <= Len(buf)
      <4>1. buf[q] = received[Gone + q] /\ Gone + q \in 1 .. Len(received)
        BY <1>1, <1>6, <1>7, <3>1 DEF BufferInv, Gone
      <4> QED BY <1>6, <3>1, <4>1
    <3>2. CASE q > Len(buf)
      <4> DEFINE r == q - Len(buf)
      <4>1. r \in 1 .. len /\ q = Len(buf) + r
        BY <1>4, <1>6, <3>2
      <4>2. Gone + q = Len(received) + r
        BY <1>6, <4>1 DEF Gone
      <4> QED BY <1>6, <4>1, <4>2
    <3> QED BY <1>6, <3>1, <3>2
  <2>2. Taken' = 0 \/ isNewline(received'[Taken'])
    BY <1>1, <1>6, <1>7, <1>8 DEF BufferInv
  <2>3. at' # "next" => /\ \A q \in Taken' + 1 .. Len(received') : ~isNewline(received'[q])
                        /\ input' # <<>> => Len(buf') = bufSize
    <3> SUFFICES ASSUME len = 0
                 PROVE  /\ \A q \in Taken + 1 .. Len(received) : ~isNewline(received'[q])
                        /\ input' # <<>> => Len(buf') = bufSize
      BY <1>6, <1>8, <1>9
    <3>1. \A q \in Taken + 1 .. Len(received) : ~isNewline(received'[q])
      BY <1>1, <1>6, <1>7 DEF BufferInv
    <3>2. Len(input) = 0 => input' = <<>>
      BY <1>1, <1>2, TypesAre DEF Input
    <3> QED BY <1>4, <1>6, <3>1, <3>2
  <2>4. Len(buf') <= Len(received') /\ lineEnd' = 0 /\ at' # "consume"
    BY <1>1, <1>3, <1>4, <1>6, <1>7, <1>9
  <2> QED BY <2>1, <2>2, <2>3, <2>4 DEF BufferInv
<1>12. LinesInv'
  <2>1. PICK s \in Input : s = received
    BY <1>1, TypesAre
  <2>2. PICK n \in 0 .. Len(s) : n = Taken
    BY <1>7, <2>1
  <2>3. /\ Ends(s \o x, n) = Ends(s, n)
        /\ \A k, line : IsLine(s, n, k, line) => IsLine(s \o x, n, k, line)
    BY LinesKept
  <2>4. received' = s \o x /\ Taken' = n /\ lines' = lines
    BY <1>2, <1>3, <1>5, <1>8, <2>1, <2>2
  <2> QED BY <1>1, <2>1, <2>2, <2>3, <2>4 DEF LinesInv
<1> QED BY <1>10, <1>11, <1>12 DEF LineInv

\* What next finds: a line that is complete, with the newlines after it, or none.
Found(newline, after) ==
  /\ newline \in lineEnd .. Len(buf) /\ after \in newline .. Len(buf)
  /\ \A q \in lineEnd + 1 .. newline : ~isNewline(buf[q])
  /\ \A q \in newline + 1 .. after : isNewline(buf[q])
  /\ newline < Len(buf) => newline < after
  /\ after < Len(buf) => ~isNewline(buf[after + 1])
  /\ lineStart' = lineEnd /\ lineEnd' = after /\ lineComplete' = (newline < Len(buf))
  /\ IF newline < Len(buf)
     THEN lines' = Append(lines, SubSeq(buf, lineEnd + 1, newline)) /\ at' = at
     ELSE lines' = lines /\ at' = "consume"

LEMMA NextFinds ==
  ASSUME TypeOK, next
  PROVE  /\ at = "next" /\ UNCHANGED <<reader, input, buf, received>>
         /\ \E newline, after : Found(newline, after)
<1> DEFINE newline == FirstFrom(lineEnd, isNewline)
           after == FirstFrom(newline, LAMBDA b : ~isNewline(b))
<1>1. /\ at = "next" /\ UNCHANGED <<reader, input, buf, received>>
      /\ lineStart' = (IF lineEnd > 0 THEN lineEnd ELSE lineStart)
      /\ lineComplete' = (newline < Len(buf)) /\ lineEnd' = after
      /\ IF newline < Len(buf)
         THEN lines' = Append(lines, SubSeq(buf, lineStart' + 1, newline)) /\ at' = at
         ELSE lines' = lines /\ at' = "consume"
  BY DEF next
<1>2. /\ Len(buf) \in Nat /\ lineEnd \in Nat /\ lineEnd <= Len(buf)
      /\ lineStart \in 0 .. lineEnd
  BY TypesAre DEF TypeOK
<1>3. lineStart' = lineEnd
  BY <1>1, <1>2
<1>4. PICK n \in Nat : n = Len(buf)
  BY <1>2
<1>5. PICK first : first = newline
  OBVIOUS
<1>6. /\ first \in lineEnd .. n /\ (first # n => isNewline(buf[first + 1]))
      /\ \A q \in lineEnd .. first - 1 : ~isNewline(buf[q + 1])
  <2>0. PICK p \in Nat : p = lineEnd /\ p <= n
    BY <1>2, <1>4
  <2>1. PICK S : S = {q \in p .. n - 1 : isNewline(buf[q + 1])}
    OBVIOUS
  <2>2. first = Min({n} \cup S) /\ S \subseteq p .. n - 1
    BY <1>4, <1>5, <2>0, <2>1 DEF FirstFrom
  <2>3. IsFirst(Min({n} \cup S), p, n, S)
    BY <2>0, <2>2, FirstIs
  <2> QED BY <2>0, <2>1, <2>2, <2>3 DEF IsFirst
<1>7. PICK last : last = after
  OBVIOUS
<1>8. /\ last \in first .. n
      /\ \A q \in first .. last - 1 : isNewline(buf[q + 1])
      /\ (last # n => ~isNewline(buf[last + 1]))
  <2>1. PICK S : S = {q \in first .. n - 1 : ~isNewline(buf[q + 1])}
    OBVIOUS
  <2>2. last = Min({n} \cup S) /\ S \subseteq first .. n - 1
    BY <1>4, <1>5, <1>7, <2>1 DEF FirstFrom
  <2>3. first \in Nat /\ first <= n
    BY <1>2, <1>6
  <2>4. IsFirst(Min({n} \cup S), first, n, S)
    BY <2>2, <2>3, FirstIs
  <2> QED BY <2>1, <2>2, <2>3, <2>4 DEF IsFirst
<1> HIDE DEF newline, after
<1>9. \A q \in lineEnd + 1 .. first : ~isNewline(buf[q])
  <2> SUFFICES ASSUME NEW q \in lineEnd + 1 .. first PROVE ~isNewline(buf[q])
    OBVIOUS
  <2>1. q - 1 \in lineEnd .. first - 1 /\ q - 1 + 1 = q
    BY <1>2, <1>4, <1>6
  <2> QED BY <1>6, <2>1
<1>10. \A q \in first + 1 .. last : isNewline(buf[q])
  <2> SUFFICES ASSUME NEW q \in first + 1 .. last PROVE isNewline(buf[q])
    OBVIOUS
  <2>1. q - 1 \in first .. last - 1 /\ q - 1 + 1 = q
    BY <1>2, <1>4, <1>6, <1>8
  <2> QED BY <1>8, <2>1
<1>11. first < n => first < last
  BY <1>2, <1>4, <1>6, <1>8
<1>12. last < n => ~isNewline(buf[last + 1])
  BY <1>8
<1>13. Found(first, last)
  BY <1>1, <1>2, <1>3, <1>4, <1>5, <1>6, <1>7, <1>8, <1>9, <1>10, <1>11, <1>12 DEF Found
<1> QED BY <1>1, <1>13

\* The buffer begins with a newline that ends no line.
BeginsBlank ==
  LET j == Len(received) - Len(buf) + 1 IN
  isNewline(received[j]) /\ (j = 1 \/ isNewline(received[j - 1]))

GivesALine ==
  \E line \in Line : lines' = Append(lines, line) /\ (line = <<>> => BeginsBlank)

LEMMA NextStep ==
  ASSUME LineInv, next
  PROVE  LineInv' /\ (UNCHANGED lines \/ GivesALine)
<1>1. TypeOK /\ BufferInv /\ LinesInv
  BY DEF LineInv
<1>2. at = "next" /\ UNCHANGED <<reader, input, buf, received>>
  BY <1>1, NextFinds
<1>3. PICK newline, after : Found(newline, after)
  BY <1>1, NextFinds
<1>4. /\ received \in Input /\ buf \in Input /\ Len(received) \in Nat /\ Len(buf) \in Nat
      /\ lines \in Seq(Line) /\ Len(lines) \in Nat /\ lineEnd \in Nat /\ lineEnd <= Len(buf)
  BY <1>1, TypesAre
<1>5. /\ newline \in Nat /\ after \in Nat /\ lineEnd <= newline /\ newline <= after
      /\ after <= Len(buf) /\ (newline < Len(buf) => newline < after)
  BY <1>3, <1>4 DEF Found
<1>6. PICK g \in Nat : g = Gone /\ Len(received) = g + Len(buf)
  <2>1. Gone \in Nat
    BY <1>1, TakenType DEF BufferInv
  <2>2. Len(received) = Gone + Len(buf)
    BY <1>4 DEF Gone
  <2> QED BY <2>1, <2>2
<1>7. \A q \in 1 .. Len(buf) : buf[q] = received[g + q]
  BY <1>1, <1>6 DEF BufferInv
<1>8. Gone' = g /\ Taken = g + lineEnd /\ (g + lineEnd = 0 \/ isNewline(received[g + lineEnd]))
  BY <1>1, <1>2, <1>6 DEF Gone, Taken, BufferInv
<1>9. lineStart' = lineEnd /\ lineEnd' = after /\ lineComplete' = (newline < Len(buf))
  BY <1>3 DEF Found
<1>10. \A i \in g + lineEnd + 1 .. g + newline : ~isNewline(received[i])
  <2> SUFFICES ASSUME NEW i \in g + lineEnd + 1 .. g + newline PROVE ~isNewline(received[i])
    OBVIOUS
  <2>1. i - g \in lineEnd + 1 .. newline /\ i - g \in 1 .. Len(buf) /\ g + (i - g) = i
    BY <1>4, <1>5
  <2> QED BY <1>3, <1>7, <2>1 DEF Found
<1>11. CASE newline < Len(buf)
  <2> DEFINE line == SubSeq(buf, lineEnd + 1, newline)
  <2>1. lines' = Append(lines, line) /\ at' = "next"
    BY <1>2, <1>3, <1>11 DEF Found
  <2>2. PICK n \in Nat, e \in Nat, m \in Nat :
          n = g + lineEnd /\ e = g + newline + 1 /\ m = g + after
    BY <1>4, <1>5
  <2>3. Taken = n /\ Taken' = m
    BY <1>8, <1>9, <2>1, <2>2 DEF Taken
  <2>4. NextEnd(received, n, e, m)
    <3>1. n < e /\ e <= m /\ m <= Len(received)
      BY <1>4, <1>5, <1>6, <1>11, <2>2
    <3>2. \A i \in e .. m : isNewline(received[i])
      <4> SUFFICES ASSUME NEW i \in e .. m PROVE isNewline(received[i])
        OBVIOUS
      <4>1. i - g \in newline + 1 .. after /\ i - g \in 1 .. Len(buf) /\ g + (i - g) = i
        BY <1>4, <1>5, <2>2
      <4> QED BY <1>3, <1>7, <4>1 DEF Found
    <3>3. \A i \in n + 1 .. e - 1 : ~isNewline(received[i])
      <4>1. e - 1 = g + newline
        BY <1>5, <2>2
      <4> QED BY <1>10, <2>2, <4>1
    <3>4. n = 0 \/ isNewline(received[n])
      BY <1>8, <2>2
    <3> QED BY <3>1, <3>2, <3>3, <3>4 DEF NextEnd
  <2>5. /\ e = n + 1 => Ends(received, m) = Ends(received, n)
        /\ e > n + 1 => /\ e \in Ends(received, m) /\ Before(received, e) = n
                        /\ Ends(received, m) = Ends(received, e)
                        /\ Cardinality(Ends(received, e)) = Cardinality(Ends(received, n)) + 1
    BY <1>4, <2>4, EndsNext
  <2>6. line \in Line /\ Len(line) = newline - lineEnd
    <3>1. line \in Input /\ Len(line) = newline - (lineEnd + 1) + 1
          /\ \A q \in 1 .. newline - (lineEnd + 1) + 1 : line[q] = buf[lineEnd + 1 + q - 1]
      <4>1. PICK b \in Input, f \in Nat \ {0}, t \in Nat :
              b = buf /\ f = lineEnd + 1 /\ t = newline
        BY <1>4, <1>5
      <4>2. f <= t + 1 /\ t <= Len(b)
        BY <1>4, <1>5, <4>1
      <4>3. /\ SubSeq(b, f, t) \in Input /\ Len(SubSeq(b, f, t)) = t - f + 1
            /\ \A q \in 1 .. t - f + 1 : SubSeq(b, f, t)[q] = b[f + q - 1]
        BY <4>2, Slice
      <4> QED BY <4>1, <4>3
    <3>2. Len(line) = newline - lineEnd
      BY <1>4, <1>5, <3>1
    <3>3. ASSUME NEW q \in 1 .. newline - lineEnd PROVE line[q] = "x"
      <4>1. newline - (lineEnd + 1) + 1 = newline - lineEnd /\ lineEnd + 1 + q - 1 = lineEnd + q
            /\ lineEnd + q \in lineEnd + 1 .. newline /\ lineEnd + q \in 1 .. Len(buf)
        BY <1>4, <1>5
      <4>2. line[q] = buf[lineEnd + q] /\ ~isNewline(buf[lineEnd + q])
        BY <1>3, <3>1, <4>1 DEF Found
      <4>3. buf[lineEnd + q] \in Bytes
        BY <1>4, <4>1 DEF Input
      <4> QED BY <4>2, <4>3 DEF Bytes, isNewline
    <3> HIDE DEF line
    <3>4. line \in Seq({"x"})
      BY <3>1, <3>2, <3>3 DEF Input
    <3> QED BY <3>2, <3>4 DEF Line
  <2>7. line = SubSeq(received, n + 1, e - 1)
    <3>1. /\ lineEnd + 1 \in Nat \ {0} /\ lineEnd + 1 <= newline + 1
          /\ newline <= Len(buf) /\ newline + g <= Len(received)
      BY <1>4, <1>5, <1>6
    <3>2. \A q \in lineEnd + 1 .. newline : buf[q] = received[g + q]
      BY <1>4, <1>5, <1>7
    <3>3. line = SubSeq(received, lineEnd + 1 + g, newline + g)
      BY <1>4, <1>5, <3>1, <3>2, SameSlice
    <3>4. lineEnd + 1 + g = n + 1 /\ newline + g = e - 1
      BY <1>4, <1>5, <2>2
    <3> QED BY <3>3, <3>4
  <2>8. (line # <<>> <=> e > n + 1) /\ (line = <<>> => e = n + 1)
    <3>1. Len(<<>>) = 0 /\ (Len(line) = 0 => line = <<>>)
      BY <2>6 DEF Line
    <3> HIDE DEF line
    <3> QED BY <1>4, <1>5, <2>2, <2>6, <3>1
  <2> HIDE DEF line
  <2>9. line = <<>> => BeginsBlank
    <3> SUFFICES ASSUME line = <<>> PROVE BeginsBlank
      OBVIOUS
    <3>1. e = n + 1 /\ e \in e .. m /\ e \in 1 .. Len(received) /\ e - 1 = n
      BY <1>4, <2>4, <2>8 DEF NextEnd
    <3>2. isNewline(received[e]) /\ (e = 1 \/ isNewline(received[e - 1]))
      BY <2>4, <3>1 DEF NextEnd
    <3>3. newline = lineEnd /\ lineEnd + 1 \in 1 .. Len(buf) /\ g + (lineEnd + 1) = e
      BY <1>4, <1>5, <1>11, <2>2, <3>1
    <3>4. isNewline(buf[lineEnd + 1])
      BY <1>7, <3>2, <3>3
    <3>5. lineEnd = 0
      BY <1>1, <1>2, <1>4, <1>5, <1>11, <3>3, <3>4 DEF BufferInv
    <3>6. e = Len(received) - Len(buf) + 1
      BY <1>4, <1>6, <3>3, <3>5
    <3> QED BY <3>2, <3>6 DEF BeginsBlank
  <2>10. TypeOK'
    <3>1. lines' \in Seq(Line)
      BY <1>4, <2>1, <2>6
    <3>2. lineEnd' \in 0 .. Len(buf') /\ lineStart' \in 0 .. lineEnd' /\ lineComplete' \in BOOLEAN
      BY <1>2, <1>4, <1>5, <1>9
    <3> QED BY <1>1, <1>2, <2>1, <3>1, <3>2 DEF TypeOK, Line
  <2>11. BufferInv'
    <3>1. Taken' = m /\ isNewline(received[m])
      <4>1. m \in e .. m
        BY <2>4 DEF NextEnd
      <4> QED BY <2>3, <2>4, <4>1 DEF NextEnd
    <3>2. Len(buf') <= Len(received') /\ \A q \in 1 .. Len(buf') : buf'[q] = received'[Gone' + q]
      BY <1>2, <1>4, <1>6, <1>7, <1>8
    <3>3. lineEnd' < Len(buf') => ~isNewline(buf'[lineEnd' + 1])
      BY <1>2, <1>3, <1>9 DEF Found
    <3>4. lineEnd' \in 1 .. Len(buf') - 1 => lineEnd' < Len(buf')
      BY <1>2, <1>4, <1>5, <1>9
    <3> QED BY <1>2, <2>1, <3>1, <3>2, <3>3, <3>4 DEF BufferInv
  <2>12. LinesInv'
    <3>1. /\ \A i \in 1 .. Len(lines) : NotBlank(lines', i) = NotBlank(lines, i)
          /\ Cardinality(NotBlank(lines', Len(lines) + 1))
               = Cardinality(NotBlank(lines, Len(lines))) + (IF line # <<>> THEN 1 ELSE 0)
      BY <1>4, <2>1, <2>6, OneGiven
    <3>2. /\ Len(lines') = Len(lines) + 1 /\ lines'[Len(lines) + 1] = line
          /\ \A i \in 1 .. Len(lines) : lines'[i] = lines[i]
      BY <1>4, <2>1, <2>6
    <3>3. Cardinality(Ends(received, n)) = Given(lines, Len(lines))
          /\ Cardinality(Ends(received, n)) \in Nat
      BY <1>1, <2>3, EndsFinite DEF LinesInv
    <3>4. Cardinality(Ends(received, m)) = Given(lines', Len(lines) + 1)
      BY <2>5, <2>8, <3>1, <3>3 DEF Given
    <3>5. ASSUME NEW i \in 1 .. Len(lines), lines[i] # <<>>
          PROVE  IsLine(received, m, Given(lines', i), lines'[i])
      <4>1. IsLine(received, n, Given(lines, i), lines[i])
        BY <1>1, <2>3, <3>5 DEF LinesInv
      <4>2. n <= m
        BY <2>4 DEF NextEnd
      <4>3. Ends(received, n) \subseteq Ends(received, m)
        BY <4>2, EndsGrow
      <4>4. Given(lines', i) = Given(lines, i) /\ lines'[i] = lines[i]
        BY <3>1, <3>2 DEF Given
      <4> QED BY <4>1, <4>3, <4>4 DEF IsLine
    <3>6. ASSUME line # <<>>
          PROVE  IsLine(received, m, Given(lines', Len(lines) + 1), line)
      <4>1. /\ e \in Ends(received, m) /\ Ends(received, m) = Ends(received, e)
            /\ line = Piece(received, e)
        BY <2>5, <2>7, <2>8, <3>6 DEF Piece
      <4> QED BY <3>4, <4>1 DEF IsLine
    <3>7. \A i \in 1 .. Len(lines') : i \in 1 .. Len(lines) \/ i = Len(lines) + 1
      BY <1>4, <3>2
    <3>8. ASSUME NEW i \in 1 .. Len(lines'), lines'[i] # <<>>
          PROVE  IsLine(received, m, Given(lines', i), lines'[i])
      <4>1. CASE i \in 1 .. Len(lines)
        BY <3>2, <3>5, <3>8, <4>1
      <4>2. CASE i = Len(lines) + 1
        BY <3>2, <3>6, <3>8, <4>2
      <4> QED BY <3>7, <4>1, <4>2
    <3> QED BY <1>2, <2>3, <3>2, <3>4, <3>8 DEF LinesInv
  <2>13. GivesALine
    BY <2>1, <2>6, <2>9 DEF GivesALine
  <2> QED BY <2>10, <2>11, <2>12, <2>13 DEF LineInv
<1>12. CASE ~(newline < Len(buf))
  <2>1. newline = Len(buf) /\ after = Len(buf)
    BY <1>4, <1>5, <1>12
  <2>2. UNCHANGED lines /\ at' = "consume"
    BY <1>3, <1>12 DEF Found
  <2>3. Taken' = Taken /\ Taken = g + lineEnd
    BY <1>8, <1>9, <2>2 DEF Taken
  <2>4. TypeOK'
    <3>1. lineEnd' \in 0 .. Len(buf') /\ lineStart' \in 0 .. lineEnd' /\ lineComplete' \in BOOLEAN
      BY <1>2, <1>4, <1>9, <2>1
    <3> QED BY <1>1, <1>2, <2>2, <3>1 DEF TypeOK
  <2>5. BufferInv'
    <3>1. Len(buf') <= Len(received') /\ \A q \in 1 .. Len(buf') : buf'[q] = received'[Gone' + q]
      BY <1>2, <1>4, <1>6, <1>7, <1>8
    <3>2. ~lineComplete' /\ lineEnd' = Len(buf')
      BY <1>2, <1>9, <1>12, <2>1
    <3>3. Taken' = 0 \/ isNewline(received'[Taken'])
      BY <1>2, <1>8, <2>3
    <3>4. \A q \in Taken' + 1 .. Len(received') : ~isNewline(received'[q])
      BY <1>2, <1>6, <1>10, <2>1, <2>3
    <3> QED BY <2>2, <3>1, <3>2, <3>3, <3>4 DEF BufferInv
  <2>6. LinesInv'
    BY <1>1, <1>2, <2>2, <2>3 DEF LinesInv
  <2> QED BY <2>2, <2>4, <2>5, <2>6 DEF LineInv
<1> QED BY <1>11, <1>12

\* What is kept of an incomplete line is all that is not taken.
LEMMA ConsumeStep ==
  ASSUME LineInv, consume
  PROVE  LineInv' /\ UNCHANGED <<reader, input, received, lines>>
<1>1. TypeOK /\ BufferInv /\ LinesInv
  BY DEF LineInv
<1>2. /\ at = "consume" /\ UNCHANGED <<reader, input, received, lines>>
      /\ lineStart' = 0 /\ lineEnd' = 0 /\ lineComplete' = FALSE
      /\ at' = IF reader = "socket" /\ Len(buf') = bufSize THEN "done" ELSE "read"
  BY DEF consume
<1>3. ~lineComplete
  BY <1>1, <1>2 DEF BufferInv
<1>4. buf' = SubSeq(buf, lineStart + 1, Len(buf))
  BY <1>3 DEF consume
<1>5. PICK b \in Input, d \in Nat, n \in Nat :
        b = buf /\ d = lineStart /\ n = Len(buf) /\ d <= n /\ n <= bufSize
  <2>1. buf \in Input /\ Len(buf) \in Nat /\ lineStart \in 0 .. Len(buf)
    BY <1>1, TypesAre
  <2>2. lineStart \in Nat /\ lineStart <= Len(buf)
    BY <2>1
  <2>3. Len(buf) <= bufSize
    BY <1>1 DEF TypeOK
  <2> QED BY <2>1, <2>2, <2>3
<1>6. /\ buf' \in Input /\ Len(buf') = n - d
      /\ \A q \in 1 .. n - d : buf'[q] = buf[d + q]
  <2>1. PICK f \in Nat \ {0} : f = d + 1 /\ n - f + 1 = n - d
    BY <1>5
  <2>2. f <= n + 1 /\ n <= Len(b)
    BY <1>5, <2>1
  <2>3. /\ SubSeq(b, f, n) \in Input /\ Len(SubSeq(b, f, n)) = n - f + 1
        /\ \A q \in 1 .. n - f + 1 : SubSeq(b, f, n)[q] = b[f + q - 1]
    BY <2>2, Slice
  <2>4. buf' = SubSeq(b, f, n)
    BY <1>4, <1>5, <2>1
  <2>5. \A q \in 1 .. n - d : f + q - 1 = d + q
    BY <1>5, <2>1
  <2> QED BY <1>5, <2>1, <2>3, <2>4, <2>5
<1>7. PICK g \in Nat, r \in Nat : g = Gone /\ r = Len(received) /\ r = g + n
  <2>1. Gone \in Nat /\ Len(received) \in Nat
    BY <1>1, TakenType, TypesAre DEF BufferInv
  <2>2. Len(received) = Gone + Len(buf)
    BY <1>1, TypesAre DEF Gone
  <2> QED BY <1>5, <2>1, <2>2
<1>8. Gone' = g + d /\ Taken = g + d /\ Taken' = g + d
  <2>1. Gone' = r - (n - d)
    BY <1>2, <1>6, <1>7 DEF Gone
  <2>2. Gone' = g + d
    BY <1>5, <1>7, <2>1
  <2>3. Taken = g + d
    BY <1>2, <1>5, <1>7 DEF Taken
  <2>4. Taken' = Gone' + 0
    BY <1>2 DEF Taken
  <2> QED BY <1>5, <1>7, <2>2, <2>3, <2>4
<1>9. TypeOK'
  <2>1. Len(buf') \in Nat /\ Len(buf') <= bufSize
    BY <1>1, <1>5, <1>6, TypesAre
  <2>2. lineEnd' \in 0 .. Len(buf') /\ lineStart' \in 0 .. lineEnd'
    BY <1>2, <2>1
  <2> QED BY <1>1, <1>2, <1>6, <2>1, <2>2 DEF TypeOK, Input
<1>10. BufferInv'
  <2>1. ASSUME NEW q \in 1 .. Len(buf') PROVE buf'[q] = received'[Gone' + q]
    <3>1. q \in 1 .. n - d /\ d + q \in 1 .. n /\ g + (d + q) = (g + d) + q
      BY <1>5, <1>6, <1>7
    <3>2. buf[d + q] = received[g + (d + q)]
      BY <1>1, <1>5, <1>7, <3>1 DEF BufferInv
    <3> QED BY <1>2, <1>6, <1>8, <3>1, <3>2
  <2>2. Len(buf') <= Len(received')
    BY <1>2, <1>5, <1>6, <1>7
  <2>3. /\ Taken' = 0 \/ isNewline(received'[Taken'])
        /\ \A q \in Taken' + 1 .. Len(received') : ~isNewline(received'[q])
    BY <1>1, <1>2, <1>8 DEF BufferInv
  <2>4. at' # "consume" /\ (at' = "done" => Len(buf') = bufSize)
    BY <1>2
  <2> QED BY <1>2, <2>1, <2>2, <2>3, <2>4 DEF BufferInv
<1>11. LinesInv'
  BY <1>1, <1>2, <1>8 DEF LinesInv
<1> QED BY <1>2, <1>9, <1>10, <1>11 DEF LineInv

LEMMA LineStays ==
  ASSUME LineInv, UNCHANGED vars
  PROVE  LineInv'
BY DEF LineInv, TypeOK, BufferInv, LinesInv, Gone, Taken, Given, vars

LEMMA LinesFromInv ==
  ASSUME LineInv
  PROVE  LinesAgree
<1>1. TypeOK /\ BufferInv /\ LinesInv
  BY DEF LineInv
<1>2. PICK s \in Input, n \in Nat : s = received /\ n = Taken /\ n \in 0 .. Len(s)
  BY <1>1, TypesAre, TakenType DEF BufferInv
<1>3. /\ Len(LinesOf(s)) = Cardinality(Ends(s, Len(s)))
      /\ \A m \in 0 .. Len(s) : \A k, line :
           IsLine(s, m, k, line) => k \in DOMAIN LinesOf(s) /\ LinesOf(s)[k] = line
  BY LinesAre
<1>4. Len(s) \in Nat /\ Len(buf) \in Nat /\ bufSize \in Nat \ {0} /\ lines \in Seq(Line)
  BY <1>1, <1>2, TypesAre
<1>5. ASSUME NEW i \in DOMAIN lines, lines[i] # <<>>
      PROVE  LET k == Cardinality(NotBlank(lines, i)) IN
             k \in DOMAIN LinesOf(received) /\ lines[i] = LinesOf(received)[k]
  <2>1. IsLine(s, n, Given(lines, i), lines[i])
    BY <1>1, <1>2, <1>4, <1>5 DEF LinesInv
  <2> QED BY <1>2, <1>3, <2>1 DEF Given
<1>6. ASSUME at # "next"
      PROVE  Cardinality(NotBlank(lines, Len(lines))) = Len(LinesOf(received))
  <2>1. \A q \in n + 1 .. Len(s) : ~isNewline(s[q])
    BY <1>1, <1>2, <1>6 DEF BufferInv
  <2>2. \A j \in Ends(s, Len(s)) : j \in 2 .. n
    BY <1>2, <1>4, <2>1 DEF Ends
  <2>3. Ends(s, Len(s)) = Ends(s, n)
    BY <1>2, <1>4, <2>2 DEF Ends
  <2> QED BY <1>1, <1>2, <1>3, <2>3 DEF LinesInv, Given
<1>7. ASSUME at = "done", input # <<>>
      PROVE  /\ Len(received) >= bufSize
             /\ \A i \in Len(received) - bufSize + 1 .. Len(received) : ~isNewline(received[i])
  <2>1. Len(buf) = bufSize /\ lineEnd = 0 /\ Len(buf) <= Len(received)
        /\ \A q \in Taken + 1 .. Len(received) : ~isNewline(received[q])
    BY <1>1, <1>7 DEF BufferInv
  <2>2. Taken = Len(received) - bufSize
    BY <1>2, <1>4, <1>7, <2>1 DEF Taken, Gone
  <2> QED BY <1>2, <1>4, <2>1, <2>2
<1> QED BY <1>5, <1>6, <1>7 DEF LinesAgree

-----------------------------------------------------------------------------
(***************************************************************************)
(* The list.                                                               *)
(***************************************************************************)
ListedURL ==
  {u \in URLInfo : u.port = IF u.text.port # 0 THEN u.text.port
                            ELSE IF u.text.isSsl THEN 443 ELSE 80}

\* The list spells the lines that were given, none of which is blank.
Matches ==
  /\ Len(urls) = Len(lines)
  /\ \A i \in 1 .. Len(lines) : lines[i] # <<>> /\ urls[i].text = TextOf(lines[i])

\* The file is refused for the last line that was given.
Refused ==
  /\ lines # <<>> /\ Len(urls) = Len(lines) - 1
  /\ TextOf(Last(lines)) = BadURL
  /\ Last(lines) = <<>> => BeginsBlank

ListInv ==
  /\ LineInv
  /\ urls \in Seq(ListedURL) /\ initialized \in BOOLEAN
  /\ result \in {"none", "ok", "invalid URL", "I/O error"}
  /\ result = "none" => ~initialized
  /\ (result = "none" /\ reader = "file") => Matches
  /\ result = "invalid URL" => ~initialized /\ (FromFile => Refused)
  /\ (FromFile /\ initialized) => at \in {"done", "failed"} /\ Matches

LEMMA InitListed ==
  ASSUME NEW text \in Text, NEW u \in init(text)
  PROVE  u \in ListedURL /\ u.text = text
<1>1. text.host \in Hosts /\ text.isSsl \in BOOLEAN /\ text.port \in Nat
  BY DEF Text
<1> DEFINE port == IF text.port # 0 THEN text.port ELSE IF text.isSsl THEN 443 ELSE 80
<1>2. port \in Nat \ {0}
  BY <1>1
<1>3. HostAddresses[text.host] \in Seq(Nat) /\ <<>> \in Seq(Nat)
  BY <1>1, URLListAssumption
<1>4. PICK a \in Seq(Nat) : u = [text |-> text, port |-> port, addresses |-> a]
  <2>1. PICK a \in lookup(text.host) :
          u = [text |-> text, port |-> port, addresses |-> a]
    BY DEF init
  <2>2. a \in Seq(Nat)
    BY <1>3, <2>1 DEF lookup
  <2> QED BY <2>1, <2>2
<1>5. u.text = text /\ u.port = port
  BY <1>4
<1> HIDE DEF port
<1>6. u \in URLInfo
  BY <1>2, <1>4 DEF URLInfo
<1> QED BY <1>5, <1>6 DEF ListedURL, port

\* No text is spelled by a blank line.
LEMMA BlankIsBad == TextOf(<<>>) = BadURL
BY URLListAssumption DEF TextOf

LEMMA TextIs ==
  ASSUME NEW line, TextOf(line) # BadURL
  PROVE  TextOf(line) \in Text
BY URLListAssumption DEF TextOf

LEMMA ListFirst ==
  ASSUME ListInit
  PROVE  ListInv
<1>1. Init /\ urls = <<>> /\ initialized = FALSE /\ result = "none" /\ lines = <<>>
  BY DEF ListInit, Init
<1>2. LineInv
  BY <1>1, LineInit
<1>3. Matches
  BY <1>1 DEF Matches
<1>4. urls \in Seq(ListedURL)
  <2>1. <<>> \in Seq(ListedURL)
    OBVIOUS
  <2> QED BY <1>1, <2>1
<1> QED BY <1>1, <1>2, <1>3, <1>4 DEF ListInv, FromFile

LEMMA ListStep ==
  ASSUME ListInv, [ListNext]_<<vars, listVars>>
  PROVE  ListInv'
<1>1. LineInv
  BY DEF ListInv
<1>2. CASE InitOne
  <2>1. UNCHANGED vars /\ received = <<>> /\ result = "none" /\ ~initialized
    BY <1>2 DEF InitOne, ListInv
  <2>2. PICK n \in DOMAIN Texts :
          IF Texts[n] = BadURL
          THEN result' = "invalid URL" /\ UNCHANGED <<urls, initialized>>
          ELSE /\ \E u \in init(Texts[n]) : urls' = <<u>>
               /\ initialized' = TRUE /\ result' = "ok"
    BY <1>2 DEF InitOne
  <2>3. LineInv' /\ ~FromFile'
    BY <1>1, <2>1, LineStays DEF vars, FromFile
  <2>4. CASE Texts[n] = BadURL
    BY <2>1, <2>2, <2>3, <2>4 DEF ListInv
  <2>5. CASE Texts[n] # BadURL
    <3>1. Texts[n] \in Text
      BY <2>5, URLListAssumption
    <3>2. PICK u \in init(Texts[n]) : urls' = <<u>>
      BY <2>2, <2>5
    <3>3. urls' \in Seq(ListedURL)
      BY <3>1, <3>2, InitListed
    <3> QED BY <2>2, <2>3, <2>5, <3>3 DEF ListInv
  <2> QED BY <2>4, <2>5
<1>3. CASE OpenFails
  <2>1. /\ UNCHANGED <<vars, urls, initialized>> /\ received = <<>>
        /\ result' = "I/O error"
    BY <1>3 DEF OpenFails
  <2>2. LineInv' /\ ~FromFile'
    BY <1>1, <2>1, LineStays DEF vars, FromFile
  <2> QED BY <2>1, <2>2 DEF ListInv
<1>4. CASE ReadMore
  <2>1. /\ result = "none" /\ Read /\ UNCHANGED urls
        /\ initialized' = (reader = "file" /\ at' # "next")
        /\ result' = IF initialized' THEN "ok" ELSE "none"
    BY <1>4 DEF ReadMore
  <2>2. LineInv'
    BY <1>1, <2>1, ReadStep
  <2>3. UNCHANGED <<reader, lines>>
    BY <2>1 DEF Read
  <2>4. reader = "file" => Matches'
    BY <2>1, <2>3 DEF ListInv, Matches
  <2>5. initialized' \in BOOLEAN /\ (result' = "none" => ~initialized')
        /\ result' \in {"ok", "none"} /\ (initialized' => at' \in {"done", "failed"} /\ reader = "file")
    <3>1. at' \in {"next", "done", "failed"}
      BY <2>1 DEF Read
    <3> QED BY <2>1, <3>1
  <2>6. urls' \in Seq(ListedURL)
    BY <2>1 DEF ListInv
  <2> QED BY <2>2, <2>3, <2>4, <2>5, <2>6 DEF ListInv
<1>5. CASE NextLine
  <2>1. /\ result = "none" /\ next /\ UNCHANGED initialized /\ ~initialized
        /\ reader = "file" => Matches
        /\ IF reader = "file" /\ NewLine
           THEN IF TextOf(Last(lines')) = BadURL
                THEN result' = "invalid URL" /\ UNCHANGED urls
                ELSE /\ \E u \in init(TextOf(Last(lines'))) : urls' = Append(urls, u)
                     /\ UNCHANGED result
           ELSE UNCHANGED <<urls, result>>
    BY <1>5 DEF NextLine, ListInv
  <2>2. LineInv' /\ (UNCHANGED lines \/ GivesALine)
    BY <1>1, <2>1, NextStep
  <2>3. UNCHANGED <<reader, received, buf>>
    BY <2>1 DEF next
  <2>4. urls \in Seq(ListedURL) /\ lines \in Seq(Line) /\ Len(lines) \in Nat /\ Len(urls) \in Nat
    <3>1. urls \in Seq(ListedURL) /\ TypeOK
      BY <1>1 DEF ListInv, LineInv
    <3>2. lines \in Seq(Line) /\ Len(lines) \in Nat
      BY <3>1, TypesAre
    <3>3. Len(urls) \in Nat
      BY <3>1
    <3> QED BY <3>1, <3>2, <3>3
  <2>5. CASE UNCHANGED lines
    <3>1. ~NewLine
      BY <2>4, <2>5 DEF NewLine
    <3>2. UNCHANGED <<urls, result>>
      BY <2>1, <3>1
    <3>3. reader = "file" => Matches'
      BY <2>1, <2>5, <3>2 DEF Matches
    <3> QED BY <2>1, <2>2, <2>3, <2>4, <3>2, <3>3 DEF ListInv
  <2>6. CASE GivesALine
    <3>1. PICK line \in Line : lines' = Append(lines, line) /\ (line = <<>> => BeginsBlank)
      BY <2>6 DEF GivesALine
    <3>2. /\ Len(lines') = Len(lines) + 1 /\ Last(lines') = line /\ lines' # <<>>
          /\ lines'[Len(lines) + 1] = line /\ \A i \in 1 .. Len(lines) : lines'[i] = lines[i]
      BY <2>4, <3>1 DEF Last
    <3>3. NewLine
      BY <2>4, <3>2 DEF NewLine
    <3>4. CASE reader # "file"
      <4>1. UNCHANGED <<urls, result>> /\ reader' # "file"
        BY <2>1, <2>3, <3>4
      <4> QED BY <2>1, <2>2, <2>4, <4>1 DEF ListInv, FromFile
    <3>5. CASE reader = "file" /\ TextOf(line) = BadURL
      <4>1. result' = "invalid URL" /\ UNCHANGED urls
        BY <2>1, <3>2, <3>3, <3>5
      <4>2. Refused'
        <5>1. Len(urls') = Len(lines') - 1
          <6>1. Len(urls) = Len(lines)
            BY <2>1, <3>5 DEF Matches
          <6>2. Len(urls') = Len(urls)
            BY <4>1
          <6> QED BY <2>4, <3>2, <6>1, <6>2
        <5>2. BeginsBlank' <=> BeginsBlank
          BY <2>3 DEF BeginsBlank
        <5>3. TextOf(Last(lines')) = BadURL /\ (Last(lines') = <<>> => BeginsBlank')
          BY <3>1, <3>2, <3>5, <5>2
        <5> QED BY <3>2, <5>1, <5>3 DEF Refused
      <4> QED BY <2>1, <2>2, <2>4, <4>1, <4>2 DEF ListInv
    <3>6. CASE reader = "file" /\ TextOf(line) # BadURL
      <4>1. UNCHANGED result /\ \E u \in init(TextOf(line)) : urls' = Append(urls, u)
        BY <2>1, <3>2, <3>3, <3>6
      <4>2. PICK u \in init(TextOf(line)) : urls' = Append(urls, u)
        BY <4>1
      <4>3. u \in ListedURL /\ u.text = TextOf(line)
        BY <3>6, TextIs, InitListed
      <4>4. urls' \in Seq(ListedURL) /\ Len(urls') = Len(urls) + 1 /\ urls'[Len(urls) + 1] = u
            /\ \A i \in 1 .. Len(urls) : urls'[i] = urls[i]
        BY <2>4, <4>2, <4>3
      <4>5. line # <<>>
        BY <3>6, BlankIsBad
      <4>6. Len(urls) = Len(lines)
            /\ \A i \in 1 .. Len(lines) : lines[i] # <<>> /\ urls[i].text = TextOf(lines[i])
        BY <2>1, <3>6 DEF Matches
      <4>7. \A i \in 1 .. Len(lines) + 1 : i \in 1 .. Len(lines) \/ i = Len(lines) + 1
        BY <2>4
      <4>8. Matches'
        BY <3>2, <4>3, <4>4, <4>5, <4>6, <4>7 DEF Matches
      <4> QED BY <2>1, <2>2, <4>1, <4>4, <4>8 DEF ListInv
    <3> QED BY <3>4, <3>5, <3>6
  <2> QED BY <2>2, <2>5, <2>6
<1>6. CASE KeepRest
  <2>1. result = "none" /\ consume /\ UNCHANGED listVars
    BY <1>6 DEF KeepRest
  <2>2. LineInv' /\ UNCHANGED <<reader, input, received, lines>>
    BY <1>1, <2>1, ConsumeStep
  <2> QED BY <2>1, <2>2 DEF ListInv, listVars, Matches, FromFile
<1>7. CASE UNCHANGED <<vars, listVars>>
  <2>1. LineInv' /\ UNCHANGED <<vars, listVars>>
    BY <1>1, <1>7, LineStays
  <2> QED BY <2>1 DEF ListInv, listVars, vars, Matches, Refused, BeginsBlank, FromFile
<1> QED BY <1>2, <1>3, <1>4, <1>5, <1>6, <1>7 DEF ListNext, Returned

THEOREM ListInvariant == ListSpec => []ListInv
BY ListFirst, ListStep, PTL DEF ListSpec

-----------------------------------------------------------------------------
(***************************************************************************)
(* The theorems.                                                           *)
(***************************************************************************)
\* InitFile and socketLoop are given every complete line of what was read, in order,
\* and nothing else but blank lines, for every size of the buffer and every division
\* into reads.
THEOREM LinesFound == ListSpec => []LinesAgree
<1>1. ListInv => LinesAgree
  BY LinesFromInv DEF ListInv
<1> QED BY <1>1, ListInvariant, PTL

\* The lines are those of what was read when none of them is blank.
LEMMA AllLines ==
  ASSUME LineInv, at \in {"done", "failed"}, \A i \in 1 .. Len(lines) : lines[i] # <<>>
  PROVE  lines = LinesOf(received)
<1>1. LinesAgree /\ TypeOK
  BY LinesFromInv DEF LineInv
<1>2. PICK n \in Nat, s \in Input : n = Len(lines) /\ s = received /\ lines \in Seq(Line)
  BY <1>1, TypesAre
<1>3. ASSUME NEW i \in 0 .. n PROVE Cardinality(NotBlank(lines, i)) = i
  <2>1. NotBlank(lines, i) = 1 .. i
    BY <1>2 DEF NotBlank
  <2>2. Cardinality(1 .. i) = i
    BY <1>3, FS_Interval
  <2> QED BY <2>1, <2>2
<1>4. Len(LinesOf(s)) = n
  BY <1>1, <1>2, <1>3 DEF LinesAgree
<1>5. DOMAIN LinesOf(s) = 1 .. n
  BY <1>4, LinesAre
<1>6. ASSUME NEW i \in 1 .. n PROVE lines[i] = LinesOf(s)[i]
  <2>1. Cardinality(NotBlank(lines, i)) = i
    BY <1>3
  <2>2. i \in DOMAIN lines /\ lines[i] # <<>>
    BY <1>2
  <2> QED BY <1>1, <1>2, <2>1, <2>2 DEF LinesAgree
<1>7. LinesOf(s) = [k \in DOMAIN LinesOf(s) |-> LinesOf(s)[k]]
  BY LinesAre
<1>8. lines = [k \in 1 .. n |-> lines[k]]
  BY <1>2
<1> QED BY <1>2, <1>5, <1>6, <1>7, <1>8

\* What the refused line shows of the file.
LEMMA RefusedFor ==
  ASSUME ListInv
  PROVE  RefusedForALine
<1>1. LinesAgree /\ TypeOK
  BY LinesFromInv DEF ListInv, LineInv
<1>2. lines \in Seq(Line) /\ Len(lines) \in Nat
  BY <1>1, TypesAre
<1>3. ASSUME result = "invalid URL", FromFile
      PROVE  /\ \/ \E k \in DOMAIN LinesOf(received) : TextOf(LinesOf(received)[k]) = BadURL
                \/ Last(lines) = <<>> /\ BeginsBlank
             /\ Len(urls) = Len(lines) - 1
  <2>1. Refused
    BY <1>3 DEF ListInv
  <2>2. Len(lines) \in DOMAIN lines /\ Last(lines) = lines[Len(lines)]
    BY <1>2, <2>1 DEF Refused, Last
  <2>3. CASE Last(lines) = <<>>
    BY <2>1, <2>3 DEF Refused
  <2>4. CASE Last(lines) # <<>>
    <3>1. PICK k : k \in DOMAIN LinesOf(received) /\ lines[Len(lines)] = LinesOf(received)[k]
      BY <1>1, <2>2, <2>4 DEF LinesAgree
    <3> QED BY <2>1, <2>2, <3>1 DEF Refused
  <2> QED BY <2>1, <2>3, <2>4 DEF Refused
<1>4. result = "invalid URL" => ~initialized
  BY DEF ListInv
<1> QED BY <1>3, <1>4 DEF RefusedForALine, BeginsBlank

\* While reads do not fail and no line fills the buffer, all of the file was read.
LEMMA AllRead ==
  ASSUME LineInv, at = "done", Fits(received)
  PROVE  input = <<>>
<1> SUFFICES ASSUME input # <<>> PROVE FALSE
  OBVIOUS
<1>1. /\ Len(received) >= bufSize
      /\ \A i \in Len(received) - bufSize + 1 .. Len(received) : ~isNewline(received[i])
  BY LinesFromInv DEF LinesAgree
<1>2. Len(received) \in Nat /\ bufSize \in Nat
  BY TypesAre DEF LineInv
<1>3. Len(received) \in bufSize .. Len(received)
  BY <1>1, <1>2
<1> QED BY <1>1, <1>3 DEF Fits

\* A list that InitFile says is good is the lines of what was read, and that is the
\* whole file unless a read failed or a line filled the buffer; a file that it
\* refuses holds what it is refused for.
THEOREM FileListed == ListSpec => []ListIsTheFile
<1>1. ASSUME ListInv PROVE ListIsTheFile
  <2>1. RefusedForALine
    BY <1>1, RefusedFor
  <2>2. ListTypeOK
    <3>1. urls \in Seq(ListedURL) /\ ListedURL \subseteq URLInfo
      BY <1>1 DEF ListInv, ListedURL
    <3>2. urls \in Seq(URLInfo)
      BY <3>1
    <3> QED BY <1>1, <3>2 DEF ListInv, LineInv, ListTypeOK
  <2>3. ASSUME FromFile, initialized
        PROVE  /\ at # "failed" /\ Fits(received) => input = <<>>
               /\ lines = LinesOf(received)
               /\ [i \in DOMAIN urls |-> urls[i].text] = [i \in DOMAIN lines |-> TextOf(lines[i])]
    <3>1. LineInv /\ at \in {"done", "failed"} /\ Matches /\ urls \in Seq(ListedURL)
      BY <1>1, <2>3 DEF ListInv
    <3>2. lines \in Seq(Line)
      BY <3>1, TypesAre DEF LineInv
    <3>3. DOMAIN urls = 1 .. Len(lines) /\ DOMAIN lines = 1 .. Len(lines)
      BY <3>1, <3>2 DEF Matches
    <3>4. \A i \in DOMAIN lines : urls[i].text = TextOf(lines[i]) /\ lines[i] # <<>>
      BY <3>1, <3>3 DEF Matches
    <3>5. lines = LinesOf(received)
      BY <3>1, <3>3, <3>4, AllLines
    <3>6. [i \in DOMAIN urls |-> urls[i].text] = [i \in DOMAIN lines |-> TextOf(lines[i])]
      BY <3>3, <3>4
    <3>7. at # "failed" /\ Fits(received) => input = <<>>
      BY <3>1, AllRead
    <3> QED BY <3>5, <3>6, <3>7
  <2> QED BY <2>1, <2>2, <2>3 DEF ListIsTheFile
<1> QED BY <1>1, ListInvariant, PTL

\* A connection is kept for a URL of the other scheme only where the port is
\* written: 443 and 80 differ.
THEOREM SchemesApart == ListSpec => []OtherSchemeOtherServer
<1>1. ASSUME ListInv PROVE OtherSchemeOtherServer
  <2>1. \A u \in GetNext : u \in ListedURL
    <3>1. PICK list \in Seq(ListedURL) : list = urls
      BY <1>1 DEF ListInv
    <3>2. \A i \in DOMAIN list : list[i] \in ListedURL
      OBVIOUS
    <3> QED BY <3>1, <3>2 DEF GetNext
  <2>2. ASSUME NEW u1 \in ListedURL, NEW u2 \in ListedURL, NEW thread \in 0 .. NumThreads - 1,
               IsSameServer(u1, u2, thread), u1.text.isSsl # u2.text.isSsl,
               u1.text.port = 0, u2.text.port = 0
        PROVE  address(u1, thread) = NoAddress /\ address(u2, thread) = NoAddress
    <3>1. u1.port # u2.port
      BY <2>2 DEF ListedURL, URLInfo, Text
    <3>2. CASE u1.addresses = <<>> \/ u2.addresses = <<>>
      BY <2>2, <3>2 DEF IsSameServer, address, get
    <3>3. CASE u1.addresses # <<>> /\ u2.addresses # <<>>
      <4>1. PICK a1, a2 : address(u1, thread) = <<a1, u1.port>>
                          /\ address(u2, thread) = <<a2, u2.port>>
        BY <3>3 DEF address, get
      <4>2. <<a1, u1.port>> = <<a2, u2.port>>
        BY <2>2, <4>1 DEF IsSameServer
      <4> QED BY <3>1, <4>2
    <3> QED BY <3>2, <3>3
  <2> QED BY <2>1, <2>2 DEF OtherSchemeOtherServer
<1> QED BY <1>1, ListInvariant, PTL
=============================================================================
