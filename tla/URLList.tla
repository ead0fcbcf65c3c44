------------------------------- MODULE URLList -------------------------------
(***************************************************************************)
(* The list of URLs (apib_url.cc, addresses.cc): one that is given, or     *)
(* those in a file that LineState breaks into lines.  A line is known by   *)
(* its length, which names the text of a URL or of something that is none. *)
(* The socket reader of LineState, apibmon's, goes on beside it.           *)
(***************************************************************************)
EXTENDS LineState

CONSTANTS
  Hosts,
  Texts,       \* for each length of a line the URL it spells, or BadURL
  BadURL,
  HostAddresses,   \* for each host its addresses, in getaddrinfo's order
  NoAddress,   \* the empty Address, of family AF_UNSPEC
  NumThreads   \* bound: threads, which are the sequence of an address

\* The text of a URL; port zero means that none is written.
Text == [host : Hosts, isSsl : BOOLEAN, port : Nat]

ASSUME URLListAssumption ==
  /\ DOMAIN Texts \subseteq Nat \ {0} /\ \A n \in DOMAIN Texts : Texts[n] \in Text \cup {BadURL}
  /\ BadURL \notin Text
  /\ DOMAIN HostAddresses = Hosts /\ \A h \in Hosts : HostAddresses[h] \in Seq(Nat)
  /\ NumThreads \in Nat

VARIABLES
  urls,           \* urls_: records of a text, its port and its addresses
  initialized,    \* initialized_
  result          \* "none", or what InitOne or InitFile returned

listVars == <<urls, initialized, result>>
URLInfo == [text : Text, port : Nat \ {0}, addresses : Seq(Nat)]

ListTypeOK ==
  /\ TypeOK
  /\ urls \in Seq(URLInfo) /\ initialized \in BOOLEAN
  /\ result \in {"none", "ok", "invalid URL", "I/O error"}

ListInit == Init /\ urls = <<>> /\ initialized = FALSE /\ result = "none"

TextOf(line) == IF Len(line) \in DOMAIN Texts THEN Texts[Len(line)] ELSE BadURL

\* getaddrinfo answers or it does not; init goes on with no addresses then.
lookup(host) == {HostAddresses[host], <<>>}

\* URLInfo::init: what a text may become.
init(text) ==
  LET port == IF text.port # 0 THEN text.port ELSE IF text.isSsl THEN 443 ELSE 80 IN
  {[text |-> text, port |-> port, addresses |-> a] : a \in lookup(text.host)}

\* Mutant: the port stays zero.
get_NoPort(addresses, port, sequence) ==
  IF addresses = <<>> THEN NoAddress ELSE <<addresses[(sequence % Len(addresses)) + 1], 0>>

\* Addresses::get
get(addresses, port, sequence) ==
  IF addresses = <<>> THEN NoAddress ELSE <<addresses[(sequence % Len(addresses)) + 1], port>>

address(u, sequence) == get(u.addresses, u.port, sequence)

IsSameServer(u1, u2, sequence) == address(u1, sequence) = address(u2, sequence)

\* The URLs that GetNext may draw.
GetNext == {urls[i] : i \in DOMAIN urls}

-----------------------------------------------------------------------------
\* Called instead of InitFile, before any of the file is read.
InitOne ==
  /\ reader = "file" /\ result = "none" /\ received = <<>> /\ at = "read"
  /\ \E n \in DOMAIN Texts :
       IF Texts[n] = BadURL
       THEN result' = "invalid URL" /\ UNCHANGED <<urls, initialized>>
       ELSE /\ \E u \in init(Texts[n]) : urls' = <<u>>
            /\ initialized' = TRUE /\ result' = "ok"
  /\ UNCHANGED vars

\* The file cannot be opened.
OpenFails ==
  /\ reader = "file" /\ result = "none" /\ received = <<>> /\ at = "read"
  /\ result' = "I/O error"
  /\ UNCHANGED <<vars, urls, initialized>>

\* readStream.  InitFile returns Ok at the first read of nothing, for whatever
\* reason nothing was read.
ReadMore ==
  /\ result = "none"
  /\ Read
  /\ initialized' = (reader = "file" /\ at' # "next")
  /\ result' = IF initialized' THEN "ok" ELSE "none"
  /\ UNCHANGED urls

NewLine == Len(lines') > Len(lines)

\* Mutant: a line that is no URL is passed over.
NextLine_Tolerant ==
  /\ result = "none" /\ next
  /\ IF reader = "file" /\ NewLine /\ TextOf(Last(lines')) # BadURL
     THEN \E u \in init(TextOf(Last(lines'))) : urls' = Append(urls, u)
     ELSE UNCHANGED urls
  /\ UNCHANGED <<result, initialized>>

\* The next line of the file.  InitFile returns at one that is no URL and keeps
\* those before it.
NextLine ==
  /\ result = "none" /\ next
  /\ IF reader = "file" /\ NewLine
     THEN IF TextOf(Last(lines')) = BadURL
          THEN result' = "invalid URL" /\ UNCHANGED urls
          ELSE /\ \E u \in init(TextOf(Last(lines'))) : urls' = Append(urls, u)
               /\ UNCHANGED result
     ELSE UNCHANGED <<urls, result>>
  /\ UNCHANGED initialized

KeepRest == result = "none" /\ consume /\ UNCHANGED listVars

Returned == (result # "none" \/ at \in {"done", "failed"}) /\ UNCHANGED <<vars, listVars>>

ListNext == InitOne \/ OpenFails \/ ReadMore \/ NextLine \/ KeepRest \/ Returned

ListSpec == ListInit /\ [][ListNext]_<<vars, listVars>>

-----------------------------------------------------------------------------
(***************************************************************************)
(* Properties.                                                             *)
(***************************************************************************)
FromFile == reader = "file" /\ received # <<>>

\* InitFile refuses a file only for a line that is no URL, or where the buffer
\* begins with a newline that ends no line: it ended between the two newlines of a
\* CRLF, in a file that is as good as any, or the file begins with one.  It then
\* leaves the URLs before that line, and the list is not initialized.
RefusedForALine ==
  result = "invalid URL" =>
    /\ ~initialized
    /\ FromFile =>
         /\ \/ \E k \in DOMAIN LinesOf(received) : TextOf(LinesOf(received)[k]) = BadURL
            \/ LET j == Len(received) - Len(buf) + 1 IN
               /\ Last(lines) = <<>> /\ isNewline(received[j])
               /\ j = 1 \/ isNewline(received[j - 1])
         /\ Len(urls) = Len(lines) - 1

\* No line fills the buffer.
Fits(s) ==
  \A n \in bufSize .. Len(s) : \E i \in n - bufSize + 1 .. n : isNewline(s[i])

\* When InitFile returns Ok, the file was read to its end unless a read failed or
\* a line filled the buffer: what follows is dropped then and the list passes for
\* the whole.  The list is the complete lines of what was read, each once and in
\* order, however they lay in the buffer; a last line that no newline follows is
\* not in it.  Otherwise the file is refused for a reason that is in it.
ListIsTheFile ==
  /\ ListTypeOK /\ RefusedForALine
  /\ (FromFile /\ initialized) =>
       /\ at # "failed" /\ Fits(received) => input = <<>>
       /\ lines = LinesOf(received)
       /\ [i \in DOMAIN urls |-> urls[i].text] = [i \in DOMAIN lines |-> TextOf(lines[i])]

\* Two URLs of the list, one http and one https, pass for the same server, and a
\* connection for one is used for the other, only if one of them has its port
\* written, or neither has an address, and so no connection.
OtherSchemeOtherServer ==
  \A u1, u2 \in GetNext, thread \in 0 .. NumThreads - 1 :
    IsSameServer(u1, u2, thread) /\ u1.text.isSsl # u2.text.isSsl =>
      \/ u1.text.port # 0 \/ u2.text.port # 0
      \/ address(u1, thread) = NoAddress /\ address(u2, thread) = NoAddress
=============================================================================
