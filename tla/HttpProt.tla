------------------------------- MODULE HttpProt -------------------------------
(***************************************************************************)
(* http_parse_message (http_prot.c): what the parser makes of the bytes    *)
(* that are in the receive buffer so far.                                  *)
(*                                                                         *)
(* A stream of bytes is cut into units at the delimiters the parser looks  *)
(* for, each unit beginning with its delimiter:                            *)
(*   "verb"     POST                      "host"    \r\nHost: localhost    *)
(*   "uri"      space /imgfs/insert?...   "length"  \r\nContent-Length: n  *)
(*   "version"  space HTTP/1.1            "end"     \r\n\r\n               *)
(* and "body" units, in which Content-Length counts.  "host" stands for    *)
(* any header line but Content-Length.  A read that ends inside a unit is, *)
(* for the parser, one that ends before it.                                *)
(***************************************************************************)
EXTENDS Naturals, Sequences, FiniteSets

CONSTANTS
  Requests,  \* the requests that clients make
  Lines,     \* the kinds of the header lines of each
  Length,    \* the size of its body
  MAX_HEADERS

LineKinds == {"host", "length"}
Kinds     == {"verb", "uri", "version", "end", "body"} \union LineKinds

Announces(r) == \E i \in DOMAIN Lines[r] : Lines[r][i] = "length"

(***************************************************************************)
(* A client announces the body it sends, once.                             *)
(***************************************************************************)
ASSUME RequestsAssumption ==
  /\ Lines \in [Requests -> Seq(LineKinds)]
  /\ Length \in [Requests -> Nat]
  /\ MAX_HEADERS \in Nat \ {0}
  /\ \A r \in Requests :
       /\ \A i, j \in DOMAIN Lines[r] :
            Lines[r][i] = "length" /\ Lines[r][j] = "length" => i = j
       /\ Length[r] # 0 => Announces(r)

Unit(kind, r) == [kind |-> kind, of |-> r]
Units == [kind : Kinds, of : Requests]

\* The bytes of a request.
RequestHead(r) ==
  LET kinds == <<"verb", "uri", "version">> \o Lines[r] \o <<"end">>
  IN  [i \in 1..Len(kinds) |-> Unit(kinds[i], r)]

Body(r) == [i \in 1..Length[r] |-> Unit("body", r)]

Message(r) == RequestHead(r) \o Body(r)

-----------------------------------------------------------------------------
Least(S) == CHOOSE x \in S : \A y \in S : x <= y

Places(buf, kinds) == {i \in DOMAIN buf : buf[i].kind \in kinds}

\* Where the first and the second space are: a header line has one as well.
Spaces(buf) == Places(buf, {"uri", "version"} \union LineKinds)
FirstSpace(buf)  == Least(Spaces(buf))
SecondSpace(buf) == Least(Spaces(buf) \ {FirstSpace(buf)})
TwoSpaces(buf)   == Cardinality(Spaces(buf)) >= 2

\* The line ends behind the request line, and the blank line among them.
LineEnds(buf) ==
  LET second == SecondSpace(buf)
  IN  {i \in Places(buf, LineKinds \union {"end"}) : i > second}
Ends(buf) == {i \in LineEnds(buf) : buf[i].kind = "end"}
BlankLine(buf) == Least(Ends(buf))

\* The first n header lines before the blank line.
LinesUpTo(buf, n) ==
  LET all  == LineEnds(buf)
      ends == Ends(buf)
  IN  {i \in all : /\ \A j \in ends : i < j
                   /\ Cardinality({j \in all : j < i}) < n}

\* One line less than there is place for.
KeptLinesFewer == MAX_HEADERS - 1

\* How many lines http_parse_headers reads at most.
KeptLines == MAX_HEADERS

HeaderLines(buf) == LinesUpTo(buf, KeptLines)

\* Content-Length among them.
Lengths(buf) == {i \in HeaderLines(buf) : buf[i].kind = "length"}

(***************************************************************************)
(* What http_parse_headers leaves in num_headers: a line counts once its   *)
(* end is there.                                                           *)
(***************************************************************************)
CompleteLines(buf) ==
  LET all == LineEnds(buf)
  IN  Cardinality({i \in HeaderLines(buf) : \E j \in all : i < j})

\* There is no place for another line.
LinesFull(buf) == CompleteLines(buf) = KeptLines

\* What follows the last line is then taken for the body, the blank line included.
HeadLength(buf) ==
  IF LinesFull(buf)
  THEN Least({i \in LineEnds(buf) : \A j \in HeaderLines(buf) : j < i}) - 1
  ELSE BlankLine(buf)

(***************************************************************************)
(* The value of http_parse_message and what it leaves behind.  result      *)
(* "partial" is a return of 0 and "whole" a return of 1; "undefined" is a  *)
(* pointer that is none, an error code that get_next_token returned for a  *)
(* NULL argument; "any" is each of the three, decided by what is left of   *)
(* the struct http_message of an earlier connection.                       *)
(***************************************************************************)
Parsed(result, content_len, num_headers, body) ==
  [result |-> result, content_len |-> content_len,
   num_headers |-> num_headers, body |-> body]

\* One byte more than the body is waited for.
BodyMissingLong(received, head, len) ==
  len = 0 \/ (head <= received /\ received - head <= len)

\* A difference of size_t that would be negative is large instead: a head that
\* ends behind what has been received is not missing its body.
BodyMissing(received, head, len) ==
  len = 0 \/ (head <= received /\ received - head < len)

\* The head has ended.  The body is all that has been received behind it.
ParseHeaded(buf, received, content_len) ==
  LET lines == CompleteLines(buf)
      head  == HeadLength(buf)
      len   == IF Lengths(buf) = {} THEN content_len
                                    ELSE Length[buf[Least(Lengths(buf))].of]
  IN  IF lines # 0 /\ Lengths(buf) = {} THEN Parsed("whole", len, lines, <<>>)
      ELSE IF BodyMissing(received, head, len)
        THEN Parsed("partial", len, lines, <<>>)
      ELSE Parsed("whole", len, lines, SubSeq(buf, head + 1, received))

Parse(buf, received, content_len, num_headers) ==
  IF ~TwoSpaces(buf) THEN Parsed("undefined", content_len, num_headers, <<>>)
  ELSE IF LineEnds(buf) = {}
    THEN Parsed(IF num_headers = 0 THEN "partial" ELSE "any",
                content_len, num_headers, <<>>)
  ELSE IF Ends(buf) = {} /\ ~LinesFull(buf)
    THEN Parsed("partial", content_len, CompleteLines(buf), <<>>)
    ELSE ParseHeaded(buf, received, content_len)

=============================================================================
