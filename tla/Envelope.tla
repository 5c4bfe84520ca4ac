------------------------------ MODULE Envelope ------------------------------
(***************************************************************************)
(* The wire format: the parser of internal/envelope and the encoder of the *)
(* JavaScript SDK's transport.                                             *)
(*                                                                         *)
(* A body is a sequence of units, each of length one: a newline, a JSON    *)
(* object (all the parser reads of one is a type and a length), another    *)
(* JSON value, or a byte that is no JSON.  It ends properly, or is cut off *)
(* by a sender that hangs up, or by a cap on its size.                     *)
(***************************************************************************)
EXTENDS Integers, Sequences, FiniteSets

CONSTANTS
  MaxEnvelopeItems,  \* Limits.MaxItems
  MaxItemBytes,      \* Limits.MaxItemBytes
  MaxHeaderLine      \* maxHeaderLine

\* A limit that is not set is the default (withDefaults).
ASSUME EnvelopeAssumption ==
  {MaxEnvelopeItems, MaxItemBytes, MaxHeaderLine} \subseteq Nat \ {0}

NewLine == [is |-> "newline"]
Value   == [is |-> "value"]
Junk    == [is |-> "junk"]
Object(type, length) == [is |-> "object", type |-> type, length |-> length]

\* The type that an object gives, and "none" of one that gives none.
HeaderType == STRING \cup {"none"}
Unit == {NewLine, Value, Junk} \cup [is : {"object"}, type : HeaderType, length : Int]

Kinds == {"error", "log", "span", "metric", "session", "client_report"}

----------------------------------------------------------------------------
\* Parse's results.  The error kinds become 400, 413 and 400 again.
Parsed(items, skipped) == [verdict |-> "ok", items |-> items, skipped |-> skipped]
Refused(why)           == [verdict |-> why, items |-> <<>>, skipped |-> 0]
Malformed  == Refused("malformed")
TooLarge   == Refused("too large")
Unreadable == Refused("unreadable")

\* An item in front of what the rest of the body gave.
WithItem(item, rest) ==
  IF rest.verdict = "ok" THEN [rest EXCEPT !.items = <<item>> \o @] ELSE rest
WithSkipped(rest) ==
  IF rest.verdict = "ok" THEN [rest EXCEPT !.skipped = @ + 1] ELSE rest

\* readLine: up to a newline or the end of the body, however it ended.  A body
\* that is cut inside a line still gives that line.
LineEnd(body, i) ==
  LET breaks == {j \in i .. Len(body) : body[j] = NewLine}
  IN  IF breaks = {} THEN Len(body) + 1
      ELSE CHOOSE j \in breaks : \A k \in breaks : j <= k
Line(body, i)      == SubSeq(body, i, LineEnd(body, i) - 1)
AfterLine(body, i) == IF LineEnd(body, i) > Len(body) THEN Len(body) + 1
                      ELSE LineEnd(body, i) + 1
IsObject(line)     == Len(line) = 1 /\ line[1].is = "object"

\* Mutant: every error of the reader is an end.
AtAnyEnd(end, atItem) == IF atItem THEN Parsed(<<>>, 0) ELSE Malformed

\* Reading on where the body has ended.
AtEnd(end, atItem) ==
  CASE end = "eof" -> IF atItem THEN Parsed(<<>>, 0) ELSE Malformed
    [] end = "cap" -> TooLarge
    [] OTHER       -> Unreadable

\* A payload that the body ends in: the cap is told apart, a hang-up is not.
ShortPayload(end) == IF end = "cap" THEN TooLarge ELSE Malformed

\* The newline after a payload is optional.
AfterPayload(body, i) == IF i <= Len(body) /\ body[i] = NewLine THEN i + 1 ELSE i

ParseHeaderLine(body, i) ==
  IF Len(Line(body, i)) > MaxHeaderLine THEN TooLarge
  ELSE IF ~IsObject(Line(body, i)) THEN Malformed
  ELSE Parsed(<<>>, 0)

\* The item whose header is the line at unit i, when n were taken before it; rest
\* gives what the body holds further on.
PayloadAt(body, end, rest, i, n) ==
  LET header == Line(body, i)[1]
      from   == AfterLine(body, i)
      past   == from + header.length
      next   == AfterPayload(body, past)
      item   == [type |-> header.type, payload |-> SubSeq(body, from, past - 1)]
  IN
  IF header.length < 0 THEN Malformed
  ELSE IF header.length > MaxItemBytes THEN TooLarge
  ELSE IF past > Len(body) + 1 THEN ShortPayload(end)
  ELSE IF item.type \in Kinds THEN WithItem(item, rest[next][n + 1])
  ELSE WithSkipped(rest[next][n])

\* The loop at unit i.
ItemAt(body, end, rest, i, n) ==
  IF i > Len(body) THEN AtEnd(end, TRUE)
  ELSE IF Line(body, i) = <<>> THEN rest[AfterLine(body, i)][n]
  ELSE IF n >= MaxEnvelopeItems THEN TooLarge
  ELSE IF ParseHeaderLine(body, i).verdict # "ok" THEN ParseHeaderLine(body, i)
  ELSE PayloadAt(body, end, rest, i, n)

ItemsFrom(body, end) ==
  LET from[i \in 1 .. Len(body) + 1] ==
        [n \in 0 .. MaxEnvelopeItems |-> ItemAt(body, end, from, i, n)]
  IN  from

Parse(body, end) ==
  IF body = <<>> THEN AtEnd(end, FALSE)
  ELSE IF ParseHeaderLine(body, 1).verdict # "ok" THEN ParseHeaderLine(body, 1)
  ELSE ItemsFrom(body, end)[AfterLine(body, 1)][0]

\* json.Marshal of a job checks its RawMessage: one JSON value, white space
\* around it.
Encodable(payload) ==
  \E i \in DOMAIN payload :
    /\ payload[i] # Junk /\ payload[i] # NewLine
    /\ \A j \in DOMAIN payload \ {i} : payload[j] = NewLine

----------------------------------------------------------------------------
\* transport.ts encode: the header, then a header and a payload per item, all
\* joined by newlines and ended by one.
EncodedItem(item) ==
  <<Object(item.type, Len(item.payload)), NewLine>> \o item.payload \o <<NewLine>>

\* The item at i and those after it, in front of what is given of these.
EncodedAt(items, rest, i) ==
  IF i > Len(items) THEN <<>> ELSE EncodedItem(items[i]) \o rest[i + 1]

EncodedFrom(items) ==
  LET from[i \in 1 .. Len(items) + 1] == EncodedAt(items, from, i) IN from

Encode(items) == <<Object("none", 0), NewLine>> \o EncodedFrom(items)[1]

----------------------------------------------------------------------------
(***************************************************************************)
(* Properties, of any item sequence and of any body.                       *)
(***************************************************************************)
\* The items of a type this build knows, and how many of them come before another.
Known(items)     == {i \in DOMAIN items : items[i].type \in Kinds}
Before(items, i) == Cardinality({j \in Known(items) : j < i})

\* A limit is met when an item is too long, or comes after MaxItems that were taken.
Fits(items) ==
  \A i \in DOMAIN items :
    Len(items[i].payload) <= MaxItemBytes /\ Before(items, i) < MaxEnvelopeItems

\* What the SDK encodes the gateway parses back in its order (transport.ts:170,
\* parse.go:23), whatever bytes the payloads hold; items of a type this build does not
\* know are skipped and counted and cost the items around them nothing.
RoundTrip(items) ==
  LET parsed == Parse(Encode(items), "eof")
      known  == Known(items)
  IN
  IF Fits(items)
  THEN /\ parsed.verdict = "ok"
       /\ Len(parsed.items) = Cardinality(known)
       /\ parsed.skipped = Len(items) - Cardinality(known)
       /\ \A i \in known : parsed.items[Before(items, i) + 1] = items[i]
  ELSE parsed = TooLarge

\* A body that was cut or that hit a cap is never taken for a whole one
\* (parse.go:76-82, 158-181), wherever the cut falls; and an accepted envelope is
\* within its limits.
AcceptedIsWhole(body, end) ==
  LET parsed == Parse(body, end)
  IN  parsed.verdict = "ok" =>
        /\ end = "eof"
        /\ Len(parsed.items) <= MaxEnvelopeItems
        /\ \A i \in DOMAIN parsed.items : Len(parsed.items[i].payload) <= MaxItemBytes
=============================================================================
