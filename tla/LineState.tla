------------------------------ MODULE LineState ------------------------------
(***************************************************************************)
(* Breaking input into lines (apib_lines.cc), as the two loops drive it    *)
(* that fill its buffer more than once: URLInfo::InitFile over a file and  *)
(* MonServerConnection::socketLoop over a socket.                          *)
(*                                                                         *)
(* The buffer holds the bytes read so far, buf_[0 .. bufLen_ - 1]; a       *)
(* position counts the bytes before it, as in the code.  Two kinds of      *)
(* bytes end a line, the others are alike.  HTTP mode and tokens are not   *)
(* used by either loop.                                                    *)
(***************************************************************************)
EXTENDS Integers, FiniteSets, SequencesExt, FiniteSetsExt

CONSTANTS
  bufSize,      \* bytes the buffer has room for
  MaxInput,     \* bound: bytes there are to read
  Readers       \* which loops: "file", "socket"

ASSUME LineAssumption ==
  /\ bufSize \in Nat \ {0} /\ MaxInput \in Nat
  /\ Readers \subseteq {"file", "socket"}

VARIABLES
  reader,           \* which loop it is
  input,            \* bytes not read yet
  at,               \* where the loop is
  buf, lineStart, lineEnd, lineComplete,
  received,         \* history: bytes read
  lines             \* history: lines the loop was given

vars == <<reader, input, at, buf, lineStart, lineEnd, lineComplete, received, lines>>

CR == "cr"
LF == "lf"
Bytes == {CR, LF, "x"}
isNewline(b) == b \in {CR, LF}

TypeOK ==
  /\ reader \in Readers /\ at \in {"read", "next", "consume", "done", "failed"}
  /\ input \in Seq(Bytes) /\ received \in Seq(Bytes)
  /\ buf \in Seq(Bytes) /\ Len(buf) <= bufSize
  /\ lineEnd \in 0 .. Len(buf) /\ lineStart \in 0 .. lineEnd
  /\ lineComplete \in BOOLEAN
  /\ lines \in Seq(Seq({"x"}))

Init ==
  /\ reader \in Readers /\ at = "read"
  /\ input \in BoundedSeq(Bytes, MaxInput)
  /\ buf = <<>> /\ lineStart = 0 /\ lineEnd = 0 /\ lineComplete = FALSE
  /\ received = <<>> /\ lines = <<>>

-----------------------------------------------------------------------------
\* readStream fills the buffer as far as the file goes; readFd takes what has
\* arrived.
ReadLengths ==
  LET most == Min({bufSize - Len(buf), Len(input)}) IN
  IF reader = "file" \/ most = 0 THEN {most} ELSE 1 .. most

\* Zero bytes end the loop, be it the end of the input or a full buffer.  So does
\* a read that fails: readStream counts no byte then, readFd returns less than 0.
Read ==
  /\ at = "read"
  /\ \/ \E len \in ReadLengths :
          /\ buf' = buf \o SubSeq(input, 1, len)
          /\ received' = received \o SubSeq(input, 1, len)
          /\ input' = SubSeq(input, len + 1, Len(input))
          /\ at' = IF len = 0 THEN "done" ELSE "next"
     \/ at' = "failed" /\ UNCHANGED <<buf, received, input>>
  /\ UNCHANGED <<reader, lineStart, lineEnd, lineComplete, lines>>

\* The first position from p on where test holds, or the end of the buffer.
FirstFrom(p, test(_)) ==
  Min({Len(buf)} \cup {q \in p .. Len(buf) - 1 : test(buf[q + 1])})

\* next(), and on success line(): all newlines that follow the line belong to it.
next ==
  LET newline == FirstFrom(lineEnd, isNewline)
      after   == FirstFrom(newline, LAMBDA b : ~isNewline(b))
  IN  /\ at = "next"
      /\ lineStart' = IF lineEnd > 0 THEN lineEnd ELSE lineStart
      /\ lineComplete' = (newline < Len(buf))
      /\ lineEnd' = after
      /\ IF newline < Len(buf)
         THEN lines' = Append(lines, SubSeq(buf, lineStart' + 1, newline)) /\ at' = at
         ELSE lines' = lines /\ at' = "consume"
      /\ UNCHANGED <<reader, input, buf, received>>

\* Mutant: what follows the last complete line is forgotten.
consume_All ==
  /\ at = "consume"
  /\ buf' = <<>> /\ lineStart' = 0 /\ lineEnd' = 0 /\ lineComplete' = FALSE
  /\ at' = "read"
  /\ UNCHANGED <<reader, input, received, lines>>

\* consume(): an incomplete line moves to the start of the buffer.  socketLoop
\* gives up when it fills the buffer; InitFile ignores the result.
consume ==
  /\ at = "consume"
  /\ buf' = IF lineComplete THEN <<>> ELSE SubSeq(buf, lineStart + 1, Len(buf))
  /\ lineStart' = 0 /\ lineEnd' = 0 /\ lineComplete' = FALSE
  /\ at' = IF reader = "socket" /\ Len(buf') = bufSize THEN "done" ELSE "read"
  /\ UNCHANGED <<reader, input, received, lines>>

Terminated == at \in {"done", "failed"} /\ UNCHANGED vars

Next == Read \/ next \/ consume \/ Terminated

Spec == Init /\ [][Next]_vars

-----------------------------------------------------------------------------
(***************************************************************************)
(* Properties.                                                             *)
(***************************************************************************)
\* The lines of s, one for each newline that follows another byte.
LinesOf(s) ==
  LET ends == {j \in 2 .. Len(s) : isNewline(s[j]) /\ ~isNewline(s[j - 1])}
      End(k) == CHOOSE j \in ends : Cardinality({i \in ends : i <= j}) = k
      Before(j) == Max({0} \cup {i \in 1 .. j - 1 : isNewline(s[i])})
  IN  [k \in 1 .. Cardinality(ends) |-> SubSeq(s, Before(End(k)) + 1, End(k) - 1)]

\* Of the first n of some lines, those that are not blank.
NotBlank(some, n) == {i \in 1 .. n : some[i] # <<>>}

\* However the input is cut into reads, the loop is given every complete line of
\* what was read, in order, none lost, repeated, joined or torn.  It is given blank
\* lines besides: NoBlankLines is about these.  While reads do not fail the loop
\* ends early only at a line that does not fit into the buffer.
LinesAgree ==
  /\ \A i \in DOMAIN lines :
       LET k == Cardinality(NotBlank(lines, i)) IN
       lines[i] # <<>> => k \in DOMAIN LinesOf(received) /\ lines[i] = LinesOf(received)[k]
  /\ at # "next" =>
       Cardinality(NotBlank(lines, Len(lines))) = Len(LinesOf(received))
  /\ (at = "done" /\ input # <<>>) =>
     /\ Len(received) >= bufSize
     /\ \A i \in Len(received) - bufSize + 1 .. Len(received) : ~isNewline(received[i])

=============================================================================
