-------------------------------- MODULE OAuth --------------------------------
(***************************************************************************)
(* The base string of an OAuth signature (apib_oauth.cc).  The parameters  *)
(* of a request are put into its query and its form one at a time, escaped *)
(* as clients do it; then buildBaseString takes the two apart again and    *)
(* makes the string to be signed of all parameters, and the server takes   *)
(* that string apart.                                                      *)
(*                                                                         *)
(* Strings are sequences of bytes.  The host and the path of the URL, the  *)
(* names that OAuth gives its own parameters and the HMAC are left out.    *)
(***************************************************************************)
EXTENDS Integers, SequencesExt

CONSTANTS
  Names, Values,    \* of parameters
  OAuthParams,      \* the pairs that buildBaseString adds
  Prefix,           \* the method and the URL, encoded
  MaxParams         \* bound: parameters of a request

ASSUME OAuthAssumption ==
  /\ Names \subseteq Seq(0 .. 255) \ {<<>>} /\ Values \subseteq Seq(0 .. 255)
  /\ OAuthParams \in Seq(Seq(0 .. 255) \X Seq(0 .. 255))
  /\ Prefix \in Seq(0 .. 255) /\ MaxParams \in Nat

VARIABLES
  query,     \* the URL's query
  form,      \* the form body
  hasForm,   \* there is one
  params,    \* history: the parameters put into them, as pairs
  at,        \* "request" "read" "sorted" "built" "checked": how far it is
  list,      \* buildBaseString's params
  base,      \* its result
  signed     \* the pairs the server finds in it

vars == <<query, form, hasForm, params, at, list, base, signed>>
request == <<query, form, hasForm, params>>

Space == 32  Percent == 37  Ampersand == 38  Plus == 43  Equals == 61

isalnum(b) == b \in 48 .. 57 \cup 65 .. 90 \cup 97 .. 122
Unreserved(b) == isalnum(b) \/ b \in {45, 46, 95, 126}     \* - . _ ~

HexDigit(d) == IF d < 10 THEN 48 + d ELSE 55 + d

-----------------------------------------------------------------------------
(***************************************************************************)
(* Taking a request apart and encoding it again.                           *)
(***************************************************************************)
\* operator<< of an int made of a char: no leading zero, and a char is signed.
Hex(b) ==
  CASE b < 16   -> <<HexDigit(b)>>
    [] b \in 16 .. 127 -> <<HexDigit(b \div 16), HexDigit(b % 16)>>
    [] b > 127  -> [i \in 1 .. 6 |-> 70] \o <<HexDigit(b \div 16), HexDigit(b % 16)>>

encodedByte(b) == IF Unreserved(b) THEN <<b>> ELSE <<Percent>> \o Hex(b)

appendEncoded(str) == FlattenSeq([i \in DOMAIN str |-> encodedByte(str[i])])

HexValue(b) ==
  CASE b \in 48 .. 57  -> b - 48
    [] b \in 65 .. 70  -> b - 55
    [] b \in 97 .. 102 -> b - 87

InEscape(str, i) == \E d \in {1, 2} : i - d \in DOMAIN str /\ str[i - d] = Percent

\* Mutant: a plus stands for itself.
decodedAt_KeepsPlus(str, i) ==
  IF InEscape(str, i) THEN <<>>
  ELSE IF str[i] # Percent THEN <<str[i]>>
  ELSE IF i + 2 > Len(str) THEN <<>>
  ELSE <<16 * HexValue(str[i + 1]) + HexValue(str[i + 2])>>

\* What position i adds.  An escape that is cut off ends the string.  (One with
\* other than two digits is not among the inputs: std::stoi throws, or reads
\* one digit.)
decodedAt(str, i) ==
  IF InEscape(str, i) THEN <<>>
  ELSE IF str[i] = Plus THEN <<Space>>
  ELSE IF str[i] # Percent THEN <<str[i]>>
  ELSE IF i + 2 > Len(str) THEN <<>>
  ELSE <<16 * HexValue(str[i + 1]) + HexValue(str[i + 2])>>

decode(str) == FlattenSeq([i \in DOMAIN str |-> decodedAt(str, i)])

\* The next byte begins a part or belongs to the last one.
AddByte(parts, b, separator) ==
  IF b = separator THEN Append(parts, <<>>)
  ELSE [parts EXCEPT ![Len(parts)] = Append(@, b)]

\* absl::StrSplit: the parts between the separators, at least one.
StrSplit(str, separator) ==
  LET parts[i \in 0 .. Len(str)] ==
        IF i = 0 THEN << <<>> >> ELSE AddByte(parts[i - 1], str[i], separator)
  IN  parts[Len(str)]

\* What follows a second "=" in a parameter is lost.
readParam(str) ==
  LET nv == StrSplit(str, Equals)
  IN  <<decode(nv[1]), IF Len(nv) > 1 THEN decode(nv[2]) ELSE <<>> >>

readParams(str) ==
  LET parts == StrSplit(str, Ampersand)
  IN  [k \in DOMAIN parts |-> readParam(parts[k])]

\* The order of std::string.
Less(s, t) ==
  \/ IsStrictPrefix(s, t)
  \/ \E i \in DOMAIN s \cap DOMAIN t :
       s[i] < t[i] /\ SubSeq(s, 1, i - 1) = SubSeq(t, 1, i - 1)

compareParam(p1, p2) == Less(p1[1], p2[1]) \/ (p1[1] = p2[1] /\ Less(p1[2], p2[2]))

\* std::sort may leave what it sorts in any order that ascends.
Ascending(pairs) ==
  \A i, j \in DOMAIN pairs : i < j => ~compareParam(pairs[j], pairs[i])

Orderings ==
  [n \in 0 .. MaxParams + Len(OAuthParams) + 2 |-> {p \in [1 .. n -> 1 .. n] : IsInjective(p)}]

reEncode(p) == <<appendEncoded(p[1]), appendEncoded(p[2])>>

NameIsValue(p) == p[1] \o <<Equals>> \o p[2]

Join(pairs) ==
  FlattenSeq([k \in DOMAIN pairs |->
    (IF k = 1 THEN <<>> ELSE <<Ampersand>>) \o NameIsValue(pairs[k])])

-----------------------------------------------------------------------------
(***************************************************************************)
(* The requests.                                                           *)
(***************************************************************************)
\* As little as possible is escaped, or everything is.
EscapedByte(b, all) ==
  IF b = Space /\ ~all THEN <<Plus>>
  ELSE IF Unreserved(b) /\ ~all THEN <<b>>
  ELSE <<Percent, HexDigit(b \div 16), HexDigit(b % 16)>>

Escape(str, all) == FlattenSeq([i \in DOMAIN str |-> EscapedByte(str[i], all)])

\* A parameter without a value may do without the "=".
Written(p, all) ==
  Escape(p[1], all) \o (IF p[2] = <<>> /\ ~all THEN <<>> ELSE <<Equals>> \o Escape(p[2], all))

AddTo(text, p, all) ==
  (IF text = <<>> THEN <<>> ELSE text \o <<Ampersand>>) \o Written(p, all)

Init ==
  /\ query = <<>> /\ form = <<>> /\ hasForm \in BOOLEAN /\ params = <<>>
  /\ at = "request" /\ list = <<>> /\ base = <<>> /\ signed = <<>>

AddParam(p, all) ==
  /\ at = "request" /\ Len(params) < MaxParams
  /\ params' = Append(params, p)
  /\ \/ query' = AddTo(query, p, all) /\ UNCHANGED form
     \/ hasForm /\ form' = AddTo(form, p, all) /\ UNCHANGED query
  /\ UNCHANGED <<hasForm, at, list, base, signed>>

-----------------------------------------------------------------------------
(***************************************************************************)
(* buildBaseString, in the order of its parts.                             *)
(***************************************************************************)
\* An empty query is read all the same, and has one parameter without a name.
Read ==
  /\ at = "request" /\ at' = "read"
  /\ list' = readParams(query) \o (IF hasForm THEN readParams(form) ELSE <<>>) \o OAuthParams
  /\ UNCHANGED <<request, base, signed>>

\* Mutant: sorted first and encoded afterwards.
EncodeAndSort_Raw ==
  /\ at = "read" /\ at' = "sorted"
  /\ \E order \in Orderings[Len(list)] :
       LET sorted == [k \in DOMAIN list |-> list[order[k]]] IN
       Ascending(sorted) /\ list' = [k \in DOMAIN list |-> reEncode(sorted[k])]
  /\ UNCHANGED <<request, base, signed>>

EncodeAndSort ==
  /\ at = "read" /\ at' = "sorted"
  /\ \E encoded \in {[k \in DOMAIN list |-> reEncode(list[k])]},
        order \in Orderings[Len(list)] :
       LET sorted == [k \in DOMAIN list |-> encoded[order[k]]] IN
       Ascending(sorted) /\ list' = sorted
  /\ UNCHANGED <<request, base, signed>>

Build ==
  /\ at = "sorted" /\ at' = "built"
  /\ base' = Prefix \o <<Ampersand>> \o appendEncoded(Join(list))
  /\ UNCHANGED <<request, list, signed>>

\* The server's reading of the string: its last part, decoded once, is a list of
\* pairs, each still encoded.
Check ==
  /\ at = "built" /\ at' = "checked"
  /\ \E pairs \in {StrSplit(decode(Last(StrSplit(base, Ampersand))), Ampersand)} :
       signed' = [k \in DOMAIN pairs |-> StrSplit(pairs[k], Equals)]
  /\ UNCHANGED <<request, list, base>>

Next ==
  \/ \E p \in Names \X Values, all \in BOOLEAN : AddParam(p, all)
  \/ Read \/ EncodeAndSort \/ Build \/ Check

Spec == Init /\ [][Next]_vars

-----------------------------------------------------------------------------
(***************************************************************************)
(* Properties.                                                             *)
(***************************************************************************)
\* All bytes have two hexadecimal digits and are not negative.  Others are
\* written with one digit, or with eight.
Plain ==
  \A pairs \in {params, OAuthParams} : \A k \in DOMAIN pairs, n \in {1, 2} :
    \A i \in DOMAIN pairs[k][n] : pairs[k][n][i] \in 16 .. 127

\* Every parameter of the request and of OAuth is signed once, with its own name
\* and value whatever plain bytes they have, and nothing else, but for a nameless
\* one for each of query and form that is empty.  Requests that differ in a
\* parameter have different base strings, those that differ in the order, the
\* place or the escaping of their parameters the same.
SignsEveryParameter ==
  at = "checked" /\ Plain =>
    LET nothing == << <<>>, <<>> >>
        blanks == (IF query = <<>> THEN <<nothing>> ELSE <<>>)
                  \o (IF hasForm /\ form = <<>> THEN <<nothing>> ELSE <<>>)
        decoded == [k \in DOMAIN signed |-> <<decode(signed[k][1]), decode(signed[k][2])>>]
    IN  ToBag(decoded) = ToBag(params \o OAuthParams \o blanks)

\* What RFC 5849 says of a string: a byte that is reserved is a percent sign and
\* two digits.
SpecifiedByte(b) ==
  IF Unreserved(b) THEN <<b>> ELSE <<Percent, HexDigit(b \div 16), HexDigit(b % 16)>>
Specified(str) == FlattenSeq([i \in DOMAIN str |-> SpecifiedByte(str[i])])

\* When all bytes are plain the server, which encodes and sorts the parameters by
\* the RFC, gets the same string: what it finds is encoded as the RFC says, and
\* ascends by encoded name and then by encoded value.  (Other bytes are encoded
\* and so sorted otherwise: a line feed is %A, after the %20 of a space, where the
\* RFC has %0A before it.)
SignedInOrder ==
  at = "checked" /\ Plain =>
    /\ \A k \in DOMAIN signed, n \in {1, 2} : signed[k][n] = Specified(decode(signed[k][n]))
    /\ \A k \in 1 .. Len(signed) - 1 :
         LET p == signed[k]  q == signed[k + 1]
         IN  ~Less(q[1], p[1]) /\ (q[1] = p[1] => ~Less(q[2], p[2]))
=============================================================================
