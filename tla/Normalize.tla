----------------------------- MODULE Normalize -----------------------------
(***************************************************************************)
(* What a processor makes of a job's payload before it is written:         *)
(* normalize and its four payloads (internal/processor), with the row each *)
(* pipeline builds of the result.                                          *)
(*                                                                         *)
(* A payload is one record for all kinds: its time, its id, who and where  *)
(* it came from, its tags, the one word that is checked against a list     *)
(* (level, severity, status, type), and a span's duration.                 *)
(***************************************************************************)
EXTENDS Integers

CONSTANTS
  MaxClockSkew,  \* 24 hours
  Ahead,         \* the minute an event may be in the future
  TwoTo64        \* the range of duration_ns

ASSUME NormalizeAssumption ==
  MaxClockSkew \in Nat \ {0} /\ Ahead \in Nat /\ TwoTo64 \in Nat \ {0}

\* time.Time's zero: no time was sent.
NoTime == -1000000

Decoded == {"error", "log", "span", "metric"}

----------------------------------------------------------------------------
\* Mutant: the skew is taken the wrong way round.
correctTimestampBack(ts, job) ==
  LET skew    == job.sent - job.received
      shifted == IF job.sent = NoTime THEN ts ELSE ts + skew
  IN
  IF \/ ts = NoTime
     \/ job.sent # NoTime /\ skew \notin -MaxClockSkew .. MaxClockSkew
     \/ shifted > job.received + Ahead
     \/ shifted < job.received - MaxClockSkew
  THEN job.received ELSE shifted

correctTimestamp(ts, job) ==
  LET skew    == job.received - job.sent
      shifted == IF job.sent = NoTime THEN ts ELSE ts + skew
  IN
  IF \/ ts = NoTime
     \/ job.sent # NoTime /\ skew \notin -MaxClockSkew .. MaxClockSkew
     \/ shifted > job.received + Ahead
     \/ shifted < job.received - MaxClockSkew
  THEN job.received ELSE shifted

Severities == <<"trace", "debug", "info", "warn", "error", "fatal">>

\* The other spellings, in any case and with spaces around them.
Spellings ==
  [verbose |-> "debug", warning |-> "warn", err |-> "error", critical |-> "fatal",
   crit |-> "fatal", panic |-> "fatal", emerg |-> "fatal"]

normalizeSeverity(word) ==
  CASE word \in DOMAIN Spellings -> Spellings[word]
    [] \E i \in DOMAIN Severities : Severities[i] = word -> word
    [] OTHER -> "info"

severityNumber(severity) ==
  1 + 4 * ((CHOOSE i \in DOMAIN Severities : Severities[i] = severity) - 1)

\* Level.Valid, SpanStatus, MetricType.Valid; the first is taken for any other word.
Words == [error |-> <<"error", "fatal", "warning", "info", "debug">>,
          span  |-> <<"ok", "error", "cancelled">>,
          metric |-> <<"counter", "gauge", "distribution", "set">>]

Classified(kind, word) ==
  IF kind = "log" THEN normalizeSeverity(word)
  ELSE IF \E i \in DOMAIN Words[kind] : Words[kind][i] = word THEN word ELSE Words[kind][1]

\* A span's tags are decoded, and nothing passes them on.
Tagged == {"error", "metric"}

\* The id that an item without one is given.
NewId == "new id"

\* normalize and the row: the project, the receipt and the address are the
\* gateway's, whatever the payload says.
RowOf(job) ==
  LET p == job.payload  IN
  [project  |-> job.project,
   received |-> job.received,
   time     |-> correctTimestamp(p.time, job),
   id       |-> IF job.type \in {"error", "span"} /\ p.id # "" THEN p.id ELSE NewId,
   ip       |-> IF job.type \in {"error", "span"} /\ p.ip \notin {"", "{{auto}}"}
                THEN p.ip ELSE job.clientIP,
   environment |-> IF p.environment = "" THEN "production" ELSE p.environment,
   tags     |-> IF job.type \in Tagged THEN p.tags ELSE {},
   word     |-> Classified(job.type, p.word),
   duration |-> IF job.type = "span" THEN p.duration % TwoTo64 ELSE 0]

Unsupported == [project |-> 0]
normalize(job) == IF job.type \in Decoded THEN RowOf(job) ELSE Unsupported

----------------------------------------------------------------------------
(***************************************************************************)
(* The other reader of severities: severityNumber of internal/query.       *)
(***************************************************************************)
Searchable == {"warning", "err", "critical"}
SearchedSeverity(word) ==
  severityNumber(IF word \in Searchable THEN Spellings[word] ELSE word)

(***************************************************************************)
(* Property, of a device and an envelope of it.  Its clock is off by some  *)
(* time; something happens, then the envelope is flushed, and then it is   *)
(* received.                                                               *)
(***************************************************************************)
JobOf(device, happened, payload, type) ==
  [type |-> type, project |-> 1, received |-> device.received, clientIP |-> "client",
   sent |-> IF device.stamps THEN device.flushed + device.off ELSE NoTime,
   payload |-> [payload EXCEPT !.time = happened + device.off]]

\* A stored time is between a day before the receipt and a minute after it, and it
\* is when the thing happened, late by the way from the device at most, if the device
\* stamps its envelopes, its clock is less than a day off and the thing no older than
\* that: then two events keep their distance, however wrong the clock
\* (normalize.go:13-20, 162-167).  What cannot be believed happened when it was
\* received.
TimesAreTrue(device, happened, other, payload, type) ==
  LET stored(t) == normalize(JobOf(device, t, payload, type)).time
      delay     == device.received - device.flushed
      believed(t) == /\ device.stamps
                     /\ delay - device.off \in -MaxClockSkew .. MaxClockSkew
                     /\ t + delay >= device.received - MaxClockSkew
  IN
  /\ stored(happened) \in device.received - MaxClockSkew .. device.received + Ahead
  /\ believed(happened) => stored(happened) = happened + delay
  /\ believed(happened) /\ believed(other) => stored(happened) - stored(other) = happened - other
  /\ device.stamps /\ ~believed(happened) => stored(happened) = device.received

\* A search by a severity finds every log that was sent with that word, in each
\* spelling the search takes (parse.go:157-159, normalize_log.go:49-52); what a span
\* lasted is stored unless it is negative, which wraps around; tags are stored, but
\* for a span's.
ValuesAreTrue(job) ==
  LET row == normalize(job)  IN
  /\ job.type = "log" /\ job.payload.word \in Searchable \cup {Severities[i] : i \in DOMAIN Severities}
       => severityNumber(row.word) = SearchedSeverity(job.payload.word)
  /\ job.type = "span" => (row.duration = job.payload.duration <=> job.payload.duration >= 0)
  /\ job.type # "log" => (row.tags = job.payload.tags <=> job.type # "span" \/ job.payload.tags = {})

RowsAreTrue(device, happened, other, payload, type) ==
  /\ TimesAreTrue(device, happened, other, payload, type)
  /\ ValuesAreTrue(JobOf(device, happened, payload, type))
=============================================================================
