----------------------------- MODULE CallsProofs -----------------------------
(***************************************************************************)
(* What the services' functions promise, of every call: a stored row tells *)
(* when a thing happened and with what, an accepted rule that can page     *)
(* does when it is due, a migration file is cut between its statements, a  *)
(* bug is one issue, two bugs are two, and a search selects what it says.  *)
(* (Of envelopes: GatewayProofs.)                                          *)
(***************************************************************************)
EXTENDS Calls, FiniteSetTheorems, SequenceTheorems, TLAPS

----------------------------------------------------------------------------
(***************************************************************************)
(* Products, quotients and remainders.                                     *)
(***************************************************************************)
\* Multiples keep their order.
LEMMA MultiplesGrow ==
  ASSUME NEW m \in Nat, NEW a \in Int, NEW b \in Int, a <= b
  PROVE  m * a <= m * b
<1>1. PICK d \in Nat : b = a + d
  <2>1. b - a \in Nat /\ b = a + (b - a)
    OBVIOUS
  <2> QED BY <2>1
<1>2. m * (a + d) = m * a + m * d /\ m * d \in Nat /\ m * a \in Int
  OBVIOUS
<1> QED BY <1>1, <1>2

\* A number is its quotient's multiple and its remainder.
LEMMA DivisionIs ==
  ASSUME NEW a \in Int, NEW m \in Nat \ {0}
  PROVE  /\ a \div m \in Int /\ a % m \in 0 .. m - 1
         /\ a = m * (a \div m) + (a % m) /\ m * (a \div m) \in Int
OBVIOUS

\* A number below the modulus is its own remainder.
LEMMA SmallModulo ==
  ASSUME NEW m \in Nat \ {0}, NEW a \in 0 .. m - 1
  PROVE  a % m = a
<1> DEFINE q == a \div m
<1>1. q \in Int /\ a % m \in 0 .. m - 1 /\ a = m * q + (a % m) /\ m * q \in Int
  BY DivisionIs
<1> HIDE DEF q
<1>2. q < 1
  <2> SUFFICES ASSUME q >= 1 PROVE FALSE
    BY <1>1
  <2>1. m * 1 <= m * q
    BY <1>1, MultiplesGrow
  <2> QED BY <1>1, <2>1
<1>3. q > -1
  <2> SUFFICES ASSUME q <= -1 PROVE FALSE
    BY <1>1
  <2>1. m * q <= m * (-1)
    BY <1>1, MultiplesGrow
  <2>2. m * (-1) = -m
    OBVIOUS
  <2> QED BY <1>1, <2>1, <2>2
<1>4. q = 0 /\ m * 0 = 0
  BY <1>1, <1>2, <1>3
<1> QED BY <1>1, <1>4

----------------------------------------------------------------------------
(***************************************************************************)
(* Normalization, of every payload from every device.                      *)
(***************************************************************************)
\* What correctTimestamp stores for a device with and without stamps.
LEMMA StoredTimeIs ==
  ASSUME NEW device \in Device, device.flushed + device.off # NoTime,
         NEW t \in Int, Timed(device, t), NEW payload \in AnyPayload, NEW type \in Decoded
  PROVE  normalize(JobOf(device, t, payload, type)).time =
           IF device.stamps
           THEN LET skew == device.received - (device.flushed + device.off)
                    shifted == t + device.off + skew
                IN  IF \/ skew \notin -MaxClockSkew .. MaxClockSkew
                       \/ shifted > device.received + Ahead
                       \/ shifted < device.received - MaxClockSkew
                    THEN device.received ELSE shifted
           ELSE IF \/ t + device.off > device.received + Ahead
                   \/ t + device.off < device.received - MaxClockSkew
                THEN device.received ELSE t + device.off
<1> DEFINE job == JobOf(device, t, payload, type)
<1>1. /\ job.type = type /\ job.received = device.received
      /\ job.sent = IF device.stamps THEN device.flushed + device.off ELSE NoTime
      /\ job.payload.time = t + device.off
  BY DEF JobOf, AnyPayload
<1>2. normalize(job).time = correctTimestamp(job.payload.time, job)
  BY <1>1 DEF normalize, RowOf
<1>3. t + device.off # NoTime
  BY DEF Timed
<1> HIDE DEF job
<1>4. device.stamps \in BOOLEAN
  BY DEF Device
<1>5. CASE device.stamps
  BY <1>1, <1>2, <1>3, <1>5 DEF correctTimestamp, job
<1>6. CASE ~device.stamps
  BY <1>1, <1>2, <1>3, <1>6 DEF correctTimestamp, job
<1> QED BY <1>4, <1>5, <1>6

\* A stored time is near the receipt, and true where the clock can be believed.
LEMMA StoredTimesAreTrue ==
  ASSUME NEW device \in Device, device.flushed <= device.received,
         device.flushed + device.off # NoTime,
         NEW happened \in Int, Timed(device, happened), NEW other \in Int, Timed(device, other),
         NEW payload \in AnyPayload, NEW type \in Decoded
  PROVE  TimesAreTrue(device, happened, other, payload, type)
<1> DEFINE stored(t) == normalize(JobOf(device, t, payload, type)).time
           delay == device.received - device.flushed
           believed(t) == /\ device.stamps
                          /\ delay - device.off \in -MaxClockSkew .. MaxClockSkew
                          /\ t + delay >= device.received - MaxClockSkew
<1>1. /\ device.received \in Int /\ device.flushed \in Int /\ device.off \in Int
      /\ device.stamps \in BOOLEAN /\ MaxClockSkew \in Nat /\ Ahead \in Nat
  BY NormalizeAssumption DEF Device
<1>2. ASSUME NEW t \in Int, Timed(device, t)
      PROVE  /\ stored(t) \in device.received - MaxClockSkew .. device.received + Ahead
             /\ believed(t) => stored(t) = t + delay
             /\ device.stamps /\ ~believed(t) => stored(t) = device.received
  <2> DEFINE skew == device.received - (device.flushed + device.off)
             shifted == t + device.off + skew
  <2>1. shifted = t + delay /\ skew = delay - device.off /\ t <= device.flushed
    BY <1>1, <1>2 DEF Timed
  <2>2. CASE device.stamps
    <3>1. stored(t) = IF \/ skew \notin -MaxClockSkew .. MaxClockSkew
                         \/ shifted > device.received + Ahead
                         \/ shifted < device.received - MaxClockSkew
                      THEN device.received ELSE shifted
      BY <1>2, <2>2, StoredTimeIs
    <3>2. ~(shifted > device.received + Ahead)
      BY <1>1, <2>1
    <3> HIDE DEF stored
    <3> QED BY <1>1, <1>2, <2>1, <2>2, <3>1, <3>2
  <2>3. CASE ~device.stamps
    <3>1. stored(t) = IF \/ t + device.off > device.received + Ahead
                         \/ t + device.off < device.received - MaxClockSkew
                      THEN device.received ELSE t + device.off
      BY <1>2, <2>3, StoredTimeIs
    <3> HIDE DEF stored
    <3> QED BY <1>1, <1>2, <2>3, <3>1
  <2> QED BY <1>1, <2>2, <2>3
<1> HIDE DEF stored, believed
<1>3. believed(happened) /\ believed(other) => stored(happened) - stored(other) = happened - other
  <2> SUFFICES ASSUME believed(happened), believed(other)
               PROVE  stored(happened) - stored(other) = happened - other
    OBVIOUS
  <2>1. stored(happened) = happened + delay /\ stored(other) = other + delay
    BY <1>2
  <2> QED BY <1>1, <2>1
<1>4. /\ stored(happened) \in device.received - MaxClockSkew .. device.received + Ahead
      /\ believed(happened) => stored(happened) = happened + delay
      /\ device.stamps /\ ~believed(happened) => stored(happened) = device.received
  BY <1>2
<1> QED BY <1>3, <1>4 DEF TimesAreTrue, stored, believed

\* Another spelling becomes the severity it means.
LEMMA KnownSpelling ==
  ASSUME NEW word \in DOMAIN Spellings
  PROVE  normalizeSeverity(word) = Spellings[word]
<1>1. word \in {"verbose", "warning", "err", "critical", "crit", "panic", "emerg"}
  BY DEF Spellings
<1> QED BY <1>1 DEF normalizeSeverity, Spellings, Severities

\* A severity by its own name stays what it is.
LEMMA KnownSeverity ==
  ASSUME NEW word \in {"trace", "debug", "info", "warn", "error", "fatal"}
  PROVE  normalizeSeverity(word) = word
BY DEF normalizeSeverity, Spellings, Severities

\* A stored severity is found by the word it was sent with; a duration wraps around
\* only below zero; only a span's tags are dropped.
LEMMA StoredValuesAreTrue ==
  ASSUME NEW device \in Device, NEW t \in Int, NEW payload \in AnyPayload, NEW type \in Decoded
  PROVE  ValuesAreTrue(JobOf(device, t, payload, type))
<1> DEFINE job == JobOf(device, t, payload, type)
           row == normalize(job)
<1>1. /\ job.type = type /\ job.payload.word = payload.word
      /\ job.payload.tags = payload.tags /\ job.payload.duration = payload.duration
  BY DEF JobOf, AnyPayload
<1>2. /\ row.word = Classified(type, payload.word)
      /\ row.tags = IF type \in Tagged THEN payload.tags ELSE {}
      /\ row.duration = IF type = "span" THEN payload.duration % TwoTo64 ELSE 0
  BY <1>1 DEF normalize, RowOf
<1>3. ASSUME type = "log",
             payload.word \in Searchable \cup {Severities[i] : i \in DOMAIN Severities}
      PROVE  severityNumber(row.word) = SearchedSeverity(payload.word)
  <2>1. row.word = IF payload.word \in Searchable THEN Spellings[payload.word] ELSE payload.word
    <3>1. row.word = normalizeSeverity(payload.word)
      BY <1>2, <1>3 DEF Classified
    <3>2. CASE payload.word \in Searchable
      <4>1. payload.word \in DOMAIN Spellings
        BY <3>2 DEF Searchable, Spellings
      <4> HIDE DEF job, row
      <4> QED BY <3>1, <3>2, <4>1, KnownSpelling
    <3>3. CASE payload.word \notin Searchable
      <4>1. PICK i \in DOMAIN Severities : Severities[i] = payload.word
        BY <1>3, <3>3
      <4>2. payload.word \in {"trace", "debug", "info", "warn", "error", "fatal"}
        BY <4>1 DEF Severities
      <4>3. normalizeSeverity(payload.word) = payload.word
        BY <4>2, KnownSeverity
      <4> HIDE DEF job, row
      <4> QED BY <3>1, <3>3, <4>3
    <3> QED BY <3>2, <3>3
  <2> QED BY <2>1 DEF SearchedSeverity
<1>4. ASSUME type = "span" PROVE row.duration = payload.duration <=> payload.duration >= 0
  <2> DEFINE d == payload.duration
             m == TwoTo64
  <2>1. d \in Int /\ m \in Nat /\ m > 0 /\ d < m /\ row.duration = d % m
    BY <1>2, <1>4, NormalizeAssumption DEF AnyPayload
  <2> HIDE DEF d, m, row
  <2>2. d % m \in 0 .. m - 1
    BY <2>1
  <2>3. d >= 0 => d % m = d
    BY <2>1, SmallModulo
  <2> QED BY <2>1, <2>2, <2>3 DEF d
<1>5. ASSUME type # "log"
      PROVE  row.tags = payload.tags <=> type # "span" \/ payload.tags = {}
  BY <1>2, <1>5 DEF Tagged, Decoded
<1> HIDE DEF job
<1> QED BY <1>1, <1>3, <1>4, <1>5 DEF ValuesAreTrue, job

\* Whatever a device's clock shows, and whatever its payload holds: a row's time is that
\* of the thing or of the receipt, and its word, tags, environment and duration are what
\* RowsAreTrue says.
THEOREM StoredRowsTellTheTruth ==
  ASSUME NEW device \in Device, device.flushed <= device.received,
         device.flushed + device.off # NoTime,
         NEW happened \in Int, Timed(device, happened), NEW other \in Int, Timed(device, other),
         NEW payload \in AnyPayload, NEW type \in Decoded
  PROVE  RowsAreTrue(device, happened, other, payload, type)
BY StoredTimesAreTrue, StoredValuesAreTrue DEF RowsAreTrue

\* A stored row tells when a thing happened, or when it was received, and with what, but
\* for a span's tags, which are dropped, and a duration below zero, which wraps around
\* (normalize.go:13-20); of every payload from every device.
THEOREM RowsAreAsStored == CallTypes => StoredRowsAreTrue
BY StoredRowsTellTheTruth DEF CallTypes, StoredRowsAreTrue

----------------------------------------------------------------------------
(***************************************************************************)
(* Alert rules, on whatever is observed.  A request's fields have the      *)
(* types of alert_handlers.go and alert.go:169-182.                        *)
(***************************************************************************)
\* What is stored of a request is the request, with a throttle above zero.
LEMMA StoredIs ==
  ASSUME NEW request \in RuleRequest
  PROVE  /\ Stored(request) \in RuleRequest
         /\ Stored(request).kind = request.kind
         /\ Stored(request).conditions = request.conditions
         /\ Stored(request).throttle > 0
<1>1. throttleOrDefault(request.throttle) \in Int /\ throttleOrDefault(request.throttle) > 0
  BY DEF throttleOrDefault, RuleRequest
<1> QED BY <1>1 DEF Stored, RuleRequest

\* The conditions are read for an evaluation when they are an object without a mistyped
\* field.
LEMMA ReadWhenTyped ==
  ASSUME NEW c \in Conditions
  PROVE  Unmarshals(c, conditionFields) <=> c.object /\ c.mistyped = {}
<1>1. c.mistyped \cap conditionFields = c.mistyped
  BY DEF Conditions
<1> QED BY <1>1 DEF Unmarshals

\* A signal pages exactly when the rule can page and asks for its kind, level,
\* environment and release.
LEMMA SignalsPageWhenDue ==
  ASSUME NEW rule \in RuleRequest, NEW signal
  PROVE  SignalRulesPage(rule, signal)
<1>1. Unmarshals(rule.conditions, conditionFields) <=>
        rule.conditions.object /\ rule.conditions.mistyped = {}
  BY ReadWhenTyped DEF RuleRequest
<1> QED BY <1>1 DEF SignalRulesPage, SignalPages, CanPage, matchesSignal, MayNotify

\* The groups that occurred, and of them those that occurred as often as one.
GroupsOf(events) == {e.group : e \in events}
Crowd(events, since, g) ==
  {h \in GroupsOf(events) \ {g} : CountOf(events, since, h) >= CountOf(events, since, g)}

\* What is counted occurred.
LEMMA CountedOccurred ==
  ASSUME NEW events, IsFiniteSet(events), NEW since \in Int, NEW g
  PROVE  /\ CountOf(events, since, g) \in Nat
         /\ CountOf(events, since, g) > 0 => g \in GroupsOf(events)
<1> DEFINE mine == {e \in events : e.group = g /\ e.at >= since}
<1>1. IsFiniteSet(mine) /\ Cardinality(mine) \in Nat
  BY FS_Subset, FS_CardinalityType
<1>2. Cardinality(mine) > 0 => mine # {}
  BY <1>1, FS_EmptySet
<1>3. CountOf(events, since, g) = Cardinality(mine)
  BY DEF CountOf
<1> QED BY <1>1, <1>2, <1>3 DEF GroupsOf

\* What a query leaves out of the groups that reached the threshold was crowded out
\* by the limit's worth of groups that occurred as often.
LEMMA LeftOutIsCrowded ==
  ASSUME NEW events, IsFiniteSet(events), NEW since \in Int, NEW threshold \in Nat, threshold > 0,
         NEW top \in FrequentGroups(events, since, threshold), NEW g, g \notin top,
         CountOf(events, since, g) >= threshold
  PROVE  Cardinality(Crowd(events, since, g)) >= GroupLimit
<1> DEFINE over == {h \in GroupsOf(events) : CountOf(events, since, h) >= threshold
                                            /\ CountOf(events, since, h) > 0}
           crowd == Crowd(events, since, g)
<1>1. IsFiniteSet(GroupsOf(events))
  <2> DEFINE f == [e \in events |-> e.group]
  <2>1. f \in Surjection(events, GroupsOf(events))
    BY DEF Surjection, GroupsOf
  <2> QED BY <2>1, FS_Surjection
<1>2. /\ top \in SUBSET over
      /\ Cardinality(top) = IF Cardinality(over) < GroupLimit THEN Cardinality(over) ELSE GroupLimit
      /\ \A h \in top, o \in over \ top : CountOf(events, since, h) >= CountOf(events, since, o)
  BY DEF FrequentGroups, GroupsOf
<1>3. g \in over \ top
  BY CountedOccurred
<1>4. IsFiniteSet(over) /\ IsFiniteSet(crowd)
  BY <1>1, FS_Subset DEF Crowd
<1>5. Cardinality(top) = GroupLimit
  <2> HIDE DEF over
  <2>1. CASE Cardinality(over) < GroupLimit
    <3>1. Cardinality(over) = Cardinality(top)
      BY <1>2, <2>1
    <3>2. over = top
      BY <1>2, <1>4, <3>1, FS_Subset
    <3> QED BY <1>3, <3>2
  <2>2. CASE ~(Cardinality(over) < GroupLimit)
    BY <1>2, <2>2
  <2> QED BY <2>1, <2>2
<1>6. top \in SUBSET crowd
  BY <1>2, <1>3 DEF Crowd
<1> HIDE DEF crowd, over
<1>7. Cardinality(top) <= Cardinality(crowd) /\ Cardinality(crowd) \in Nat
  BY <1>4, <1>6, FS_Subset, FS_CardinalityType
<1> QED BY <1>5, <1>7, AlertRulesAssumption DEF crowd

\* A frequency rule pages for the groups that are due, but those that were crowded out.
LEMMA FrequenciesPageWhenDue ==
  ASSUME NEW rule \in RuleRequest, NEW events, IsFiniteSet(events), NEW levels, NEW now \in Int
  PROVE  FrequencyRulesPage(rule, events, levels, now)
<1> DEFINE c == rule.conditions
           since == now - c.window
           count(g) == CountOf(events, since, g)
           groups == {e.group : e \in events}
           sound == CanPage(rule) /\ c.threshold > 0 /\ c.window > 0
           due == {g \in DOMAIN levels : count(g) >= c.threshold /\ c.level \in {"", levels[g]}}
           crowded(g) == Cardinality({h \in groups \ {g} : count(h) >= count(g)}) >= GroupLimit
<1>1. c.threshold \in Nat /\ c.window \in Int /\ since \in Int
  BY DEF RuleRequest, Conditions
<1>2. SUFFICES ASSUME rule.kind = "frequency",
                      NEW top \in FrequentGroups(events, since, c.threshold)
               PROVE  IF sound
                      THEN /\ FrequencyPages(rule, levels, top) \subseteq due
                           /\ \A g \in due \ FrequencyPages(rule, levels, top) : crowded(g)
                      ELSE FrequencyPages(rule, levels, top) = {}
  BY DEF FrequencyRulesPage
<1>3. FrequencyPages(rule, levels, top) =
        IF sound THEN {g \in top \cap DOMAIN levels : c.level \in {"", levels[g]}} ELSE {}
  <2>1. Unmarshals(c, conditionFields) <=> c.object /\ c.mistyped = {}
    BY ReadWhenTyped DEF RuleRequest
  <2>2. sound <=> /\ rule.enabled /\ rule.kind = "frequency"
                  /\ Unmarshals(rule.conditions, conditionFields)
                  /\ rule.conditions.threshold # 0 /\ rule.conditions.window > 0
                  /\ MayNotify(rule)
    BY <1>1, <1>2, <2>1 DEF MayNotify, CanPage
  <2> HIDE DEF sound
  <2> QED BY <2>2 DEF FrequencyPages
<1> HIDE DEF sound
<1>4. CASE ~sound
  BY <1>3, <1>4
<1>5. CASE sound
  <2>1. c.threshold > 0
    BY <1>5 DEF sound
  <2>2. \A g \in top : count(g) >= c.threshold
    BY DEF FrequentGroups
  <2>3. ASSUME NEW g \in due \ FrequencyPages(rule, levels, top) PROVE crowded(g)
    <3>1. g \notin top /\ CountOf(events, since, g) >= c.threshold
      BY <1>3, <1>5, <2>3
    <3>2. since \in Int /\ c.threshold \in Nat /\ top \in FrequentGroups(events, since, c.threshold)
      BY <1>1, <1>2
    <3>3. Cardinality(Crowd(events, since, g)) >= GroupLimit
      <4> HIDE DEF since, c
      <4> QED BY <2>1, <3>1, <3>2, LeftOutIsCrowded
    <3> QED BY <3>3 DEF Crowd, GroupsOf
  <2> QED BY <1>3, <1>5, <2>2, <2>3
<1> QED BY <1>4, <1>5

\* Between two multiples lies the number itself.
LEMMA MultiplesApart ==
  ASSUME NEW m \in Nat, NEW a \in Int, NEW b \in Int, m * a < m * b
  PROVE  m * a + m <= m * b
<1>1. m * a \in Int /\ m * b \in Int
  OBVIOUS
<1>2. a < b
  <2> SUFFICES ASSUME b <= a PROVE FALSE
    OBVIOUS
  <2>1. m * b <= m * a
    BY MultiplesGrow
  <2> QED BY <1>1, <2>1
<1>3. m * (a + 1) <= m * b
  BY <1>2, MultiplesGrow
<1>4. m * (a + 1) = m * a + m
  OBVIOUS
<1> QED BY <1>3, <1>4

\* A sample falls into the bucket that begins no later and has not ended, also when
\* the bucket is made of others.
LEMMA BucketsHold ==
  ASSUME NEW width \in {Minute, Hour}, NEW t \in Int
  PROVE  BucketOf(width, t) \in Int /\ BucketOf(width, t) <= t /\ t < BucketOf(width, t) + width
<1> DEFINE minute == StartOf(Minute, t)
           start == StartOf(width, minute)
<1>1. Minute \in Nat \ {0} /\ Hour \in Nat \ {0} /\ width \in Nat \ {0} /\ Hour % Minute = 0
  BY AlertRulesAssumption
<1>2. PICK k \in Int : width = Minute * k
  <2>1. Minute * 1 = Minute
    BY <1>1
  <2>2. Hour = Minute * (Hour \div Minute) /\ Hour \div Minute \in Int
    BY <1>1, DivisionIs
  <2> QED BY <2>1, <2>2
<1>3. PICK q \in Int : minute = Minute * q /\ minute \in Int /\ minute <= t /\ t < minute + Minute
  <2>1. /\ t \div Minute \in Int /\ t % Minute \in 0 .. Minute - 1
        /\ t = Minute * (t \div Minute) + (t % Minute) /\ Minute * (t \div Minute) \in Int
    BY <1>1, DivisionIs
  <2>2. minute = t - (t % Minute)
    BY DEF StartOf
  <2> HIDE DEF minute
  <2>3. minute = Minute * (t \div Minute) /\ minute \in Int /\ minute <= t /\ t < minute + Minute
    BY <1>1, <2>1, <2>2
  <2> QED BY <2>1, <2>3
<1> HIDE DEF minute
<1>4. PICK p \in Int : start = width * p /\ start \in Int /\ start <= minute /\ minute < start + width
  <2>1. /\ minute \div width \in Int /\ minute % width \in 0 .. width - 1
        /\ minute = width * (minute \div width) + (minute % width) /\ width * (minute \div width) \in Int
    BY <1>1, <1>3, DivisionIs
  <2>2. start = minute - (minute % width)
    BY DEF StartOf
  <2> HIDE DEF start
  <2>3. start = width * (minute \div width)
    BY <1>1, <1>3, <2>1, <2>2
  <2> QED BY <1>1, <1>3, <2>1, <2>2, <2>3
<1> HIDE DEF start
<1>5. start + width = Minute * (k * (p + 1))
  BY <1>1, <1>2, <1>4
<1>6. minute + Minute <= start + width
  BY <1>1, <1>2, <1>3, <1>4, <1>5, MultiplesApart
<1>7. start \in Int /\ start <= t /\ t < start + width
  BY <1>1, <1>3, <1>4, <1>6
<1> QED BY <1>7 DEF BucketOf, start, minute

\* What validateMetricRule lets through has a name, an aggregation, an operator and a
\* window.
LEMMA ValidatedIsComplete ==
  ASSUME NEW c \in Conditions, validateMetricRule(c)
  PROVE  c.metric # "" /\ c.agg # "" /\ c.operator # "" /\ c.window > 0
<1>1. "" \notin Aggs /\ "" \notin Operators
  BY DEF Aggs, Operators
<1> QED BY <1>1 DEF validateMetricRule

\* A metric rule that was accepted and can page compares the aggregate of its window, if
\* the buckets hold no others.
LEMMA MetricsPageWhenDue ==
  ASSUME NEW rule \in RuleRequest, rule.kind = "metric" => validateMetricRule(rule.conditions),
         NEW samples, \A s \in samples : s.at \in Int, NEW now \in Int
  PROVE  MetricRulesPage(rule, samples, now)
<1> DEFINE c == rule.conditions
           width == IF c.window > Cutover THEN Hour ELSE Minute
           from == now - c.window
           missed == {s \in samples : from <= s.at /\ BucketOf(width, s.at) < from}
           early == {s \in samples : s.at >= now}
           window == {s \in samples : from <= s.at /\ s.at < now}
           read == InBuckets(samples, width, from, now)
<1>1. /\ c.window \in Int /\ from \in Int /\ width \in {Minute, Hour} /\ width \in Nat
      /\ RollupOf(c.window) = width
  BY AlertRulesAssumption DEF RuleRequest, Conditions, RollupOf
<1>2. \A s \in samples : /\ BucketOf(width, s.at) \in Int /\ BucketOf(width, s.at) <= s.at
                         /\ s.at < BucketOf(width, s.at) + width
  BY <1>1, BucketsHold
<1>3. \A s \in missed : s.at < from + width
  BY <1>1, <1>2
<1>4. missed = {} /\ early = {} => read = window
  BY <1>1, <1>2 DEF InBuckets
<1>5. rule.kind = "metric" =>
        (MetricPages(rule, samples, now) <=>
           CanPage(rule) /\ read # {} /\ breached(c, Aggregate(c.agg, read)))
  <2> SUFFICES ASSUME rule.kind = "metric"
               PROVE  MetricPages(rule, samples, now) <=>
                        CanPage(rule) /\ read # {} /\ breached(c, Aggregate(c.agg, read))
    OBVIOUS
  <2>1. c \in Conditions
    BY DEF RuleRequest
  <2>2. MetricEvaluated(c) <=> c.object /\ c.mistyped = {}
    BY <2>1, ReadWhenTyped, ValidatedIsComplete DEF MetricEvaluated
  <2> QED BY <1>1, <2>2 DEF MetricPages, MayNotify, CanPage
<1> HIDE DEF read, width, from
<1>6. SUFFICES ASSUME rule.kind = "metric"
               PROVE  /\ \A s \in missed : s.at < from + width
                      /\ missed = {} /\ early = {} =>
                           (MetricPages(rule, samples, now) <=>
                              CanPage(rule) /\ window # {} /\ breached(c, Aggregate(c.agg, window)))
  BY DEF MetricRulesPage, width, from
<1> HIDE DEF missed, early, window
<1> QED BY <1>3, <1>4, <1>5, <1>6

\* A rule that was accepted and can page does when it is due, and no rule does otherwise,
\* whatever signal, events or samples there are.
THEOREM RulesPageAsAsked ==
  ASSUME NEW request \in RuleRequest, NEW signal, NEW events, IsFiniteSet(events), NEW levels,
         NEW samples, \A s \in samples : s.at \in Int, NEW now \in Int
  PROVE  RulesPageWhenDue(request, signal, events, levels, samples, now)
<1> DEFINE rule == Stored(request)
<1>1. SUFFICES ASSUME Accepted(request)
               PROVE  /\ rule.throttle > 0 /\ SignalRulesPage(rule, signal)
                      /\ FrequencyRulesPage(rule, events, levels, now)
                      /\ MetricRulesPage(rule, samples, now)
  BY DEF RulesPageWhenDue
<1>2. rule \in RuleRequest /\ rule.throttle > 0
  BY StoredIs
<1>3. rule.kind = "metric" => validateMetricRule(rule.conditions)
  BY <1>1, StoredIs DEF Accepted
<1> HIDE DEF rule
<1> QED BY <1>2, <1>3, SignalsPageWhenDue, FrequenciesPageWhenDue, MetricsPageWhenDue

\* An accepted rule pages for what it asks for and for nothing else, unless it is off,
\* has no channel, or has conditions that the alerter does not read (alert.go:226-241,
\* frequency.go:36-43, metrics.go:151-156); whatever is observed.
THEOREM RulesPage == CallTypes => AcceptedRulesPage
BY RulesPageAsAsked DEF CallTypes, AcceptedRulesPage

----------------------------------------------------------------------------
(***************************************************************************)
(* Migration files.  The machine is followed through a text from character *)
(* to character (Steps), through a piece (Walks), through a statement's    *)
(* pieces and through a file's statements; each is an induction over the   *)
(* places at which it stops (UpTo).                                        *)
(***************************************************************************)
\* Of some subsets of a finite set there is one that holds no other of them.
LEMMA LeastSubset ==
  ASSUME NEW S, IsFiniteSet(S), NEW B \in SUBSET (SUBSET S), B # {}
  PROVE  \E T \in B : \A U \in SUBSET T : U # T => U \notin B
<1>1. IsWellFoundedOn(StrictSubsetOrdering(S), FiniteSubsetsOf(S)) /\ FiniteSubsetsOf(S) = SUBSET S
  BY FS_StrictSubsetOrderingWellFounded, FS_FiniteSubsetsOfFinite
<1>2. PICK T \in B : \A U \in B : ~(<<U, T>> \in StrictSubsetOrdering(S))
  BY <1>1, WFMin
<1>3. ASSUME NEW U \in SUBSET T, U # T, U \in B PROVE FALSE
  BY <1>2, <1>3 DEF StrictSubsetOrdering
<1> QED BY <1>2, <1>3

\* Induction up to N, of a set: what holds of 0, and of a number after the one before.
LEMMA UpTo ==
  ASSUME NEW N \in Nat, NEW B, 0 \in B, \A k \in 0 .. N : k \in B /\ k < N => k + 1 \in B
  PROVE  \A k \in 0 .. N : k \in B
<1> DEFINE below(k) == 0 .. k
           C == {below(k) : k \in {j \in 0 .. N : j \notin B}}
<1>1. SUFFICES ASSUME C # {} PROVE FALSE
  OBVIOUS
<1>2. PICK U \in C : \A V \in SUBSET U : V # U => V \notin C
  <2>1. ASSUME NEW k \in 0 .. N PROVE below(k) \in SUBSET (0 .. N)
    OBVIOUS
  <2>2. C \in SUBSET (SUBSET (0 .. N))
    BY <2>1
  <2>3. IsFiniteSet(0 .. N)
    BY FS_Interval
  <2> HIDE DEF C
  <2> QED BY <1>1, <2>2, <2>3, LeastSubset
<1>3. PICK m \in 0 .. N : m \notin B /\ U = below(m)
  OBVIOUS
<1>4. m # 0
  BY <1>3
<1>5. m - 1 \in 0 .. N /\ m - 1 < N /\ (m - 1) + 1 = m
  BY <1>4
<1>6. m - 1 \notin B
  BY <1>3, <1>5
<1>7. below(m - 1) \in SUBSET U /\ below(m - 1) # U
  <2>1. m \in below(m) /\ m \notin below(m - 1) /\ below(m - 1) \subseteq below(m)
    BY <1>5
  <2> QED BY <1>3, <2>1
<1>8. below(m - 1) \in C
  BY <1>5, <1>6
<1> QED BY <1>2, <1>7, <1>8

----------------------------------------------------------------------------
State(i, state, current, out) == [i |-> i, state |-> state, current |-> current, out |-> out]

\* The turns of the loop over a text.
Runs(run, text) ==
  /\ run[0] = State(1, "code", <<>>, <<>>)
  /\ \A n \in 0 .. Len(text) : n < Len(text) => run[n + 1] = Turn(text, run[n])

LEMMA RunExists ==
  ASSUME NEW text \in Chars
  PROVE  \E run : /\ Runs(run, text)
                  /\ splitStatements(text) = run[Len(text)].out \o Flushed(run[Len(text)].current)
<1> DEFINE N == Len(text)
           first == [i |-> 1, state |-> "code", current |-> <<>>, out |-> <<>>]
           step(f) == [n \in 0 .. N |-> IF n = 0 THEN first ELSE Turn(text, f[n - 1])]
           Solves(f, k) == f[0] = first /\ \A n \in 0 .. k : n # 0 => f[n] = Turn(text, f[n - 1])
           B == {k \in 0 .. N : \E f : Solves(f, k)}
<1>1. N \in Nat
  OBVIOUS
<1>2. 0 \in B
  <2> DEFINE f == [n \in 0 .. N |-> first]
  <2>1. f[0] = first /\ \A n \in 0 .. 0 : n = 0
    BY <1>1
  <2> HIDE DEF f, first
  <2> QED BY <1>1, <2>1
<1>3. ASSUME NEW k \in 0 .. N, k \in B, k < N PROVE k + 1 \in B
  <2>1. PICK f : Solves(f, k)
    BY <1>3
  <2> DEFINE g == [n \in 0 .. N |-> IF n = k + 1 THEN Turn(text, f[k]) ELSE f[n]]
  <2>2. /\ \A n \in 0 .. k : g[n] = f[n]
        /\ g[k + 1] = Turn(text, f[k]) /\ k \in 0 .. k /\ 0 \in 0 .. k
    BY <1>1, <1>3
  <2>3. ASSUME NEW n \in 0 .. k + 1, n # 0 PROVE g[n] = Turn(text, g[n - 1])
    <3>1. \/ n = k + 1 /\ n - 1 = k
          \/ n \in 0 .. k /\ n - 1 \in 0 .. k
      BY <1>1, <2>3
    <3> HIDE DEF g, first
    <3> QED BY <2>1, <2>2, <2>3, <3>1
  <2>4. g[0] = first
    <3> HIDE DEF g, first
    <3> QED BY <2>1, <2>2
  <2>5. k + 1 \in 0 .. N
    BY <1>1, <1>3
  <2> HIDE DEF g, first
  <2> QED BY <2>3, <2>4, <2>5
<1>4. N \in B
  <2>1. \A k \in 0 .. N : k \in B /\ k < N => k + 1 \in B
    BY <1>3
  <2> HIDE DEF B
  <2>2. N \in 0 .. N /\ N \in Nat
    BY <1>1
  <2> HIDE DEF N
  <2> QED BY <1>2, <2>1, <2>2, UpTo
<1>5. PICK f : Solves(f, N)
  BY <1>4
<1> DEFINE h == [n \in 0 .. N |-> f[n]]
<1>6. h = step(h)
  <2>1. \A n \in 0 .. N : n # 0 => n - 1 \in 0 .. N
    BY <1>1
  <2>2. 0 \in 0 .. N
    BY <1>1
  <2> HIDE DEF N, first
  <2> QED BY <1>5, <2>1, <2>2
<1> DEFINE run == CHOOSE f1 : f1 = step(f1)
<1>7. run = step(run)
  <2> HIDE DEF step, h
  <2> QED BY <1>6
<1>8. splitStatements(text) = run[N].out \o Flushed(run[N].current)
  BY DEF splitStatements
<1> HIDE DEF run
<1>9. Runs(run, text)
  <2>1. 0 \in 0 .. N
    BY <1>1
  <2>2. run[0] = State(1, "code", <<>>, <<>>)
    BY <1>7, <2>1 DEF State
  <2>3. ASSUME NEW n \in 0 .. N, n < N PROVE run[n + 1] = Turn(text, run[n])
    <3>1. n + 1 \in 0 .. N /\ n + 1 # 0 /\ (n + 1) - 1 = n
      BY <1>1, <2>3
    <3> HIDE DEF N, first
    <3> QED BY <1>7, <3>1
  <2> QED BY <2>2, <2>3 DEF Runs
<1> QED BY <1>8, <1>9

LEMMA TextIs ==
  ASSUME NEW text \in Chars
  PROVE  Len(text) \in Nat /\ \A n \in 1 .. Len(text) : text[n] \in Character
  BY DEF Chars

LEMMA PairIs ==
  ASSUME NEW a, NEW b
  PROVE  <<a>> \o <<b>> = <<a, b>>
<1> DEFINE x == <<a>>
           y == <<b>>
           s == x \o y
<1>1. x \in Seq({a, b}) /\ y \in Seq({a, b}) /\ Len(x) = 1 /\ Len(y) = 1 /\ x[1] = a /\ y[1] = b
  OBVIOUS
<1>2. <<a, b>> \in Seq({a, b}) /\ Len(<<a, b>>) = 2 /\ <<a, b>>[1] = a /\ <<a, b>>[2] = b
  OBVIOUS
<1> HIDE DEF x, y
<1>3. s \in Seq({a, b}) /\ Len(s) = 2 /\ s[1] = a /\ s[2] = b
  <2> DEFINE S == {a, b}
  <2>1. x \in Seq(S) /\ y \in Seq(S)
    BY <1>1
  <2> HIDE DEF S
  <2>2. /\ s \in Seq(S) /\ Len(s) = Len(x) + Len(y)
        /\ \A i \in 1 .. Len(x) + Len(y) : s[i] = IF i <= Len(x) THEN x[i] ELSE y[i - Len(x)]
    BY <2>1, ConcatProperties
  <2> HIDE DEF s
  <2>3. Len(s) = 2 /\ s[1] = x[1] /\ s[2] = y[1]
    BY <1>1, <2>2
  <2> QED BY <1>1, <2>2, <2>3 DEF S
<1> HIDE DEF s
<1>4. s = <<a, b>>
  BY <1>2, <1>3, SeqEqual
<1> QED BY <1>4 DEF s, x, y

LEMMA Associates ==
  ASSUME NEW x \in Chars, NEW y \in Chars, NEW z \in Chars
  PROVE  (x \o y) \o z = x \o (y \o z)
  BY ConcatAssociative DEF Chars

\* The algebra of texts.
LEMMA Joined ==
  /\ <<>> \in Chars /\ \A c \in Character : <<c>> \in Chars
  /\ \A x \in Chars, y \in Chars :
       x \o y \in Chars /\ Len(x \o y) = Len(x) + Len(y) /\ x \o <<>> = x /\ <<>> \o x = x
<1>1. <<>> \in Chars /\ \A c \in Character : <<c>> \in Chars
  BY DEF Chars
<1>2. ASSUME NEW x \in Chars, NEW y \in Chars
      PROVE  x \o y \in Chars /\ Len(x \o y) = Len(x) + Len(y) /\ x \o <<>> = x /\ <<>> \o x = x
  BY ConcatProperties, ConcatEmptySeq DEF Chars
<1> QED BY <1>1, <1>2

----------------------------------------------------------------------------
\* What the machine does with a character.
LEMMA CodeSteps ==
  ASSUME NEW text, NEW i
  PROVE  LET c == text[i]
             next == IF i < Len(text) THEN text[i + 1] ELSE "end"
             after(n, s) == After(text, i, "code") = [takes |-> n, state |-> s]
         IN  /\ c = "'" => after(1, "quote")
             /\ c = "tick" => after(1, "backtick")
             /\ c = "-" /\ next = "-" => after(2, "line")
             /\ c = "#" => after(1, "line")
             /\ c = "/" /\ next = "*" => after(2, "block")
             /\ c \notin {"'", "tick", "#"} /\ ~(c = "-" /\ next = "-") /\ ~(c = "/" /\ next = "*")
                  => after(1, "code")
  BY DEF After

LEMMA TextSteps ==
  ASSUME NEW text, NEW i
  PROVE  LET c == text[i]
             next == IF i < Len(text) THEN text[i + 1] ELSE "end"
             after(t, n, s) == After(text, i, t) = [takes |-> n, state |-> s]
         IN  /\ c = "\\" /\ next # "end" => after("quote", 2, "quote")
             /\ c = "'" => after("quote", 1, "code")
             /\ c \notin {"'", "\\"} => after("quote", 1, "quote")
             /\ c = "tick" => after("backtick", 1, "code")
             /\ c # "tick" => after("backtick", 1, "backtick")
             /\ c = "\n" => after("line", 1, "code")
             /\ c # "\n" => after("line", 1, "line")
             /\ c = "*" /\ next = "/" => after("block", 2, "code")
             /\ ~(c = "*" /\ next = "/") => after("block", 1, "block")
  BY DEF After

LEMMA CutOut ==
  ASSUME NEW text \in Chars, NEW j \in 1 .. Len(text)
  PROVE  /\ SubSeq(text, j, j) = <<text[j]>>
         /\ j < Len(text) => SubSeq(text, j, j + 1) = <<text[j], text[j + 1]>>
<1>1. Len(text) \in Nat /\ \A n \in 1 .. Len(text) : text[n] \in Character
  BY DEF Chars
<1>2. SubSeq(text, j, j) = <<text[j]>>
  <2> DEFINE s == SubSeq(text, j, j)
  <2>1. s \in Seq(Character) /\ Len(s) = 1 /\ s[1] = text[j]
    BY <1>1, SubSeqProperties
  <2>2. <<text[j]>> \in Seq(Character) /\ Len(<<text[j]>>) = 1 /\ <<text[j]>>[1] = text[j]
    BY <1>1
  <2> HIDE DEF s
  <2>3. s = <<text[j]>>
    BY <2>1, <2>2, SeqEqual
  <2> QED BY <2>3 DEF s
<1>3. ASSUME j < Len(text) PROVE SubSeq(text, j, j + 1) = <<text[j], text[j + 1]>>
  <2>1. j + 1 \in j .. Len(text) /\ (j + 1) - 1 = j
    BY <1>1, <1>3
  <2>2. SubSeq(text, j, j + 1) = SubSeq(text, j, j) \o <<text[j + 1]>>
    BY <2>1, SubSeqRecursiveSecond DEF Chars
  <2>3. <<text[j]>> \o <<text[j + 1]>> = <<text[j], text[j + 1]>>
    BY PairIs
  <2> QED BY <1>2, <2>2, <2>3
<1> QED BY <1>2, <1>3

\* One step: n characters, the state after them, and what is written of them.
Step(text, i, state, n, t, kept) ==
  After(text, i, state) = [takes |-> n, state |-> t] /\ Writes(text, i, state) = kept

Following(text, i) == IF i < Len(text) THEN text[i + 1] ELSE "end"

\* What is written of a character, or of two, that are kept or not.
LEMMA Kept ==
  ASSUME NEW text \in Chars, NEW i \in 1 .. Len(text), NEW state, NEW t
  PROVE  /\ After(text, i, state) = [takes |-> 1, state |-> t]
              /\ (state \in {"quote", "backtick"} \/ (state = "line" /\ text[i] = "\n")
                   \/ (state = "code" /\ t \notin {"line", "block"} /\ text[i] # ";"))
              => Step(text, i, state, 1, t, <<text[i]>>)
         /\ After(text, i, state) = [takes |-> 2, state |-> t] /\ state = "quote" /\ i < Len(text)
              => Step(text, i, state, 2, t, <<text[i], text[i + 1]>>)
         /\ \A n \in {1, 2} :
              After(text, i, state) = [takes |-> n, state |-> t]
              /\ (state = "block" \/ (state = "line" /\ text[i] # "\n")
                   \/ (state = "code" /\ (t \in {"line", "block"} \/ text[i] = ";")))
              => Step(text, i, state, n, t, <<>>)
<1> DEFINE after == After(text, i, state)
           cut == SubSeq(text, i, i + after.takes - 1)
           keeps == \/ state \in {"quote", "backtick"} \/ (state = "line" /\ text[i] = "\n")
                    \/ (state = "code" /\ after.state \notin {"line", "block"} /\ text[i] # ";")
           drops == \/ state = "block" \/ (state = "line" /\ text[i] # "\n")
                    \/ (state = "code" /\ (after.state \in {"line", "block"} \/ text[i] = ";"))
<1>1. i \in Int /\ i + 1 - 1 = i /\ i + 2 - 1 = i + 1
  BY TextIs
<1>2. SubSeq(text, i, i + 1 - 1) = <<text[i]>>
  BY <1>1, CutOut
<1>3. i < Len(text) => SubSeq(text, i, i + 2 - 1) = <<text[i], text[i + 1]>>
  BY <1>1, CutOut
<1>4. keeps => Writes(text, i, state) = cut
  <2>1. state \in {"quote", "backtick"} => Writes(text, i, state) = cut
    BY DEF Writes
  <2>2. state = "line" /\ text[i] = "\n" => Writes(text, i, state) = cut
    BY DEF Writes
  <2>3. state = "code" /\ after.state \notin {"line", "block"} /\ text[i] # ";"
          => Writes(text, i, state) = cut
    BY DEF Writes
  <2> QED BY <2>1, <2>2, <2>3
<1>5. drops => Writes(text, i, state) = <<>>
  <2>1. state = "block" => Writes(text, i, state) = <<>>
    BY DEF Writes
  <2>2. state = "line" /\ text[i] # "\n" => Writes(text, i, state) = <<>>
    BY DEF Writes
  <2>3. state = "code" /\ (after.state \in {"line", "block"} \/ text[i] = ";")
          => Writes(text, i, state) = <<>>
    BY DEF Writes
  <2> QED BY <2>1, <2>2, <2>3
<1>6. ASSUME NEW n \in {1, 2}, after = [takes |-> n, state |-> t]
      PROVE  after.takes = n /\ after.state = t
  BY ONLY <1>6
<1>7. after = [takes |-> 1, state |-> t] => cut = <<text[i]>>
  BY ONLY <1>2, <1>6
<1>8. after = [takes |-> 2, state |-> t] /\ i < Len(text) => cut = <<text[i], text[i + 1]>>
  BY ONLY <1>3, <1>6
<1> HIDE DEF after, cut
<1> QED BY <1>4, <1>5, <1>6, <1>7, <1>8 DEF Step, after

LEMMA AllSteps ==
  ASSUME NEW text \in Chars, NEW i \in 1 .. Len(text)
  PROVE  /\ text[i] = "'" => Step(text, i, "code", 1, "quote", <<text[i]>>)
         /\ text[i] = "tick" => Step(text, i, "code", 1, "backtick", <<text[i]>>)
         /\ text[i] = "-" /\ Following(text, i) = "-" => Step(text, i, "code", 2, "line", <<>>)
         /\ text[i] = "#" => Step(text, i, "code", 1, "line", <<>>)
         /\ text[i] = "/" /\ Following(text, i) = "*" => Step(text, i, "code", 2, "block", <<>>)
         /\ text[i] = ";" => Step(text, i, "code", 1, "code", <<>>)
         /\ (/\ text[i] \notin {"'", "tick", "#", ";"} /\ ~(text[i] = "-" /\ Following(text, i) = "-")
             /\ ~(text[i] = "/" /\ Following(text, i) = "*"))
              => Step(text, i, "code", 1, "code", <<text[i]>>)
         /\ text[i] = "\\" /\ Following(text, i) # "end" =>
              Step(text, i, "quote", 2, "quote", <<text[i], text[i + 1]>>)
         /\ text[i] = "'" => Step(text, i, "quote", 1, "code", <<text[i]>>)
         /\ text[i] \notin {"'", "\\"} => Step(text, i, "quote", 1, "quote", <<text[i]>>)
         /\ text[i] = "tick" => Step(text, i, "backtick", 1, "code", <<text[i]>>)
         /\ text[i] # "tick" => Step(text, i, "backtick", 1, "backtick", <<text[i]>>)
         /\ text[i] = "\n" => Step(text, i, "line", 1, "code", <<text[i]>>)
         /\ text[i] # "\n" => Step(text, i, "line", 1, "line", <<>>)
         /\ text[i] = "*" /\ Following(text, i) = "/" => Step(text, i, "block", 2, "code", <<>>)
         /\ ~(text[i] = "*" /\ Following(text, i) = "/") => Step(text, i, "block", 1, "block", <<>>)
<1> DEFINE c == text[i]
           next == Following(text, i)
<1>1. /\ c = "'" => After(text, i, "code") = [takes |-> 1, state |-> "quote"]
      /\ c = "tick" => After(text, i, "code") = [takes |-> 1, state |-> "backtick"]
      /\ c = "-" /\ next = "-" => After(text, i, "code") = [takes |-> 2, state |-> "line"]
      /\ c = "#" => After(text, i, "code") = [takes |-> 1, state |-> "line"]
      /\ c = "/" /\ next = "*" => After(text, i, "code") = [takes |-> 2, state |-> "block"]
      /\ c \notin {"'", "tick", "#"} /\ ~(c = "-" /\ next = "-") /\ ~(c = "/" /\ next = "*")
           => After(text, i, "code") = [takes |-> 1, state |-> "code"]
  BY CodeSteps DEF Following
<1>2. /\ c = "\\" /\ next # "end" => After(text, i, "quote") = [takes |-> 2, state |-> "quote"]
      /\ c = "'" => After(text, i, "quote") = [takes |-> 1, state |-> "code"]
      /\ c \notin {"'", "\\"} => After(text, i, "quote") = [takes |-> 1, state |-> "quote"]
      /\ c = "tick" => After(text, i, "backtick") = [takes |-> 1, state |-> "code"]
      /\ c # "tick" => After(text, i, "backtick") = [takes |-> 1, state |-> "backtick"]
      /\ c = "\n" => After(text, i, "line") = [takes |-> 1, state |-> "code"]
      /\ c # "\n" => After(text, i, "line") = [takes |-> 1, state |-> "line"]
      /\ c = "*" /\ next = "/" => After(text, i, "block") = [takes |-> 2, state |-> "code"]
      /\ ~(c = "*" /\ next = "/") => After(text, i, "block") = [takes |-> 1, state |-> "block"]
  BY TextSteps DEF Following
<1>3. next # "end" => i < Len(text)
  BY DEF Following
<1> HIDE DEF next
<1>4. /\ c = "'" => Step(text, i, "code", 1, "quote", <<c>>)
      /\ c = "tick" => Step(text, i, "code", 1, "backtick", <<c>>)
  BY <1>1, Kept
<1>5. /\ c = "-" /\ next = "-" => Step(text, i, "code", 2, "line", <<>>)
      /\ c = "#" => Step(text, i, "code", 1, "line", <<>>)
      /\ c = "/" /\ next = "*" => Step(text, i, "code", 2, "block", <<>>)
  BY <1>1, Kept
<1>6. c = ";" => Step(text, i, "code", 1, "code", <<>>)
  BY <1>1, Kept
<1>7. c \notin {"'", "tick", "#", ";"} /\ ~(c = "-" /\ next = "-") /\ ~(c = "/" /\ next = "*")
        => Step(text, i, "code", 1, "code", <<c>>)
  BY <1>1, Kept
<1>8. /\ c = "\\" /\ next # "end" => Step(text, i, "quote", 2, "quote", <<c, text[i + 1]>>)
      /\ c = "'" => Step(text, i, "quote", 1, "code", <<c>>)
      /\ c \notin {"'", "\\"} => Step(text, i, "quote", 1, "quote", <<c>>)
  BY <1>2, <1>3, Kept
<1>9. /\ c = "tick" => Step(text, i, "backtick", 1, "code", <<c>>)
      /\ c # "tick" => Step(text, i, "backtick", 1, "backtick", <<c>>)
  BY <1>2, Kept
<1>10. /\ c = "\n" => Step(text, i, "line", 1, "code", <<c>>)
       /\ c # "\n" => Step(text, i, "line", 1, "line", <<>>)
  BY <1>2, Kept
<1>11. /\ c = "*" /\ next = "/" => Step(text, i, "block", 2, "code", <<>>)
       /\ ~(c = "*" /\ next = "/") => Step(text, i, "block", 1, "block", <<>>)
  BY <1>2, Kept
<1> QED BY <1>4, <1>5, <1>6, <1>7, <1>8, <1>9, <1>10, <1>11 DEF next

\* The machine comes to character i in a state, with current and out written so far.
Comes(run, text, i, state, current, out) ==
  \E n \in 0 .. Len(text) : n < i /\ run[n] = State(i, state, current, out)

\* From there it takes n characters, unless a semicolon ends a statement.
LEMMA Takes ==
  ASSUME NEW text \in Chars, NEW run, Runs(run, text),
         NEW i \in 1 .. Len(text), NEW state, NEW current \in Chars, NEW out,
         Comes(run, text, i, state, current, out),
         NEW n \in {1, 2}, NEW t, NEW kept, Step(text, i, state, n, t, kept), ~(state = "code" /\ text[i] = ";")
  PROVE  Comes(run, text, i + n, t, current \o kept, out)
<1>1. PICK m \in 0 .. Len(text) : m < i /\ run[m] = State(i, state, current, out)
  BY DEF Comes
<1>2. Len(text) \in Nat /\ i \in Int /\ i <= Len(text) /\ n \in Int /\ n >= 1
  BY ONLY text \in Chars, i \in 1 .. Len(text), n \in {1, 2}, TextIs
<1>3. m + 1 \in 0 .. Len(text) /\ m + 1 < i + n /\ m < Len(text)
  BY ONLY m \in 0 .. Len(text), <1>1, <1>2
<1>4. run[m + 1] = Turn(text, run[m])
  BY <1>3 DEF Runs
<1>5. Turn(text, State(i, state, current, out)) = State(i + n, t, current \o kept, out)
  <2> DEFINE s == State(i, state, current, out)
             a == After(text, i, state)
  <2>1. s.i = i /\ s.state = state /\ s.current = current /\ s.out = out
    BY DEF State
  <2>2. a.takes = n /\ a.state = t /\ Writes(text, i, state) = kept
    BY ONLY Step(text, i, state, n, t, kept) DEF Step
  <2>3. ~(i > Len(text))
    BY ONLY <1>2
  <2> HIDE DEF s
  <2>4. Turn(text, s) = State(i + a.takes, a.state, current \o kept, out)
    BY <2>1, <2>2, <2>3 DEF Turn, State
  <2> QED BY <2>2, <2>4 DEF s
<1> QED BY <1>1, <1>3, <1>4, <1>5 DEF Comes

LEMMA Ends ==
  ASSUME NEW text \in Chars, NEW run, Runs(run, text),
         NEW i \in 1 .. Len(text), NEW current \in Chars, NEW out,
         Comes(run, text, i, "code", current, out), text[i] = ";"
  PROVE  Comes(run, text, i + 1, "code", <<>>, out \o Flushed(current))
<1>1. PICK m \in 0 .. Len(text) : m < i /\ run[m] = State(i, "code", current, out)
  BY DEF Comes
<1>2. Len(text) \in Nat /\ i \in Int /\ i <= Len(text)
  BY ONLY text \in Chars, i \in 1 .. Len(text), TextIs
<1>3. m + 1 \in 0 .. Len(text) /\ m + 1 < i + 1 /\ m < Len(text)
  BY ONLY m \in 0 .. Len(text), <1>1, <1>2
<1>4. run[m + 1] = Turn(text, run[m])
  BY <1>3 DEF Runs
<1>6. Step(text, i, "code", 1, "code", <<>>)
  BY AllSteps
<1>7. current \o <<>> = current
  BY ConcatEmptySeq DEF Chars
<1>8. Turn(text, State(i, "code", current, out)) = State(i + 1, "code", <<>>, out \o Flushed(current))
  <2> DEFINE s == State(i, "code", current, out)
             a == After(text, i, "code")
  <2>1. s.i = i /\ s.state = "code" /\ s.current = current /\ s.out = out
    BY DEF State
  <2>2. a.takes = 1 /\ a.state = "code" /\ Writes(text, i, "code") = <<>>
    BY ONLY <1>6 DEF Step
  <2>3. ~(i > Len(text))
    BY ONLY <1>2
  <2> HIDE DEF s
  <2>4. Turn(text, s) = State(i + a.takes, a.state, <<>>, out \o Flushed(current))
    BY <1>7, <2>1, <2>2, <2>3 DEF Turn, State
  <2> QED BY <2>2, <2>4 DEF s
<1> QED BY <1>1, <1>3, <1>4, <1>8 DEF Comes

----------------------------------------------------------------------------
\* A text that stands in another one, from character i on.
Stands(w, text, i) ==
  /\ i \in 1 .. Len(text) + 1 /\ i + Len(w) <= Len(text) + 1
  /\ \A k \in 1 .. Len(w) : text[i + k - 1] = w[k]

LEMMA StandsIs ==
  ASSUME NEW text \in Chars, NEW w \in Chars, NEW i \in Int, Stands(w, text, i), NEW k \in 0 .. Len(w), k < Len(w)
  PROVE  /\ i + k \in 1 .. Len(text) /\ text[i + k] = w[k + 1] /\ k + 1 \in 1 .. Len(w)
         /\ SubSeq(text, i + k, i + k) = <<w[k + 1]>>
         /\ k + 1 < Len(w) => /\ i + k < Len(text) /\ text[i + k + 1] = w[k + 2]
                              /\ SubSeq(text, i + k, i + k + 1) = <<w[k + 1], w[k + 2]>>
<1>1. Len(text) \in Nat /\ Len(w) \in Nat /\ i \in Int /\ k \in Int
  BY DEF Stands, Chars
<1>2. k + 1 \in 1 .. Len(w) /\ i + k = i + (k + 1) - 1 /\ i + k \in 1 .. Len(text)
  BY <1>1 DEF Stands
<1>3. text[i + k] = w[k + 1]
  BY <1>2 DEF Stands
<1>4. SubSeq(text, i + k, i + k) = <<w[k + 1]>>
  BY <1>1, <1>2, <1>3, CutOut
<1>5. ASSUME k + 1 < Len(w)
      PROVE  /\ i + k < Len(text) /\ text[i + k + 1] = w[k + 2]
             /\ SubSeq(text, i + k, i + k + 1) = <<w[k + 1], w[k + 2]>>
  <2>1. k + 2 \in 1 .. Len(w) /\ i + k + 1 = i + (k + 2) - 1 /\ i + k + 1 \in 1 .. Len(text)
    BY <1>1, <1>5 DEF Stands
  <2>2. text[i + k + 1] = w[k + 2]
    BY <2>1 DEF Stands
  <2>3. i + k < Len(text)
    BY <1>1, <2>1
  <2>4. SubSeq(text, i + k, i + k + 1) = <<w[k + 1], w[k + 2]>>
    BY <1>1, <1>2, <1>3, <2>1, <2>2, CutOut
  <2> QED BY <2>2, <2>3, <2>4
<1> QED BY <1>2, <1>3, <1>4, <1>5

\* What is written of a text that is kept, one or two characters further.
LEMMA Grows ==
  ASSUME NEW w \in Chars, NEW k \in 0 .. Len(w), k < Len(w)
  PROVE  /\ SubSeq(w, 1, k + 1) = SubSeq(w, 1, k) \o <<w[k + 1]>>
         /\ k + 1 < Len(w) => SubSeq(w, 1, k + 2) = SubSeq(w, 1, k) \o <<w[k + 1], w[k + 2]>>
<1> DEFINE portion(n) == SubSeq(w, 1, n)
<1>1. Len(w) \in Nat /\ \A n \in 1 .. Len(w) : w[n] \in Character
  BY TextIs
<1>2. \A n \in 0 .. Len(w) : portion(n) \in Chars
  BY <1>1, SubSeqProperties DEF Chars
<1>3. ASSUME NEW n \in 1 .. Len(w) PROVE portion(n) = portion(n - 1) \o <<w[n]>>
  <2>1. 1 \in 1 .. Len(w) /\ n \in 1 .. Len(w)
    BY <1>1
  <2> QED BY <2>1, SubSeqRecursiveSecond DEF Chars
<1>4. \A n \in 1 .. Len(w) : <<w[n]>> \in Chars
  BY <1>1, Joined
<1> HIDE DEF portion
<1>5. k + 1 \in 1 .. Len(w) /\ (k + 1) - 1 = k /\ (k + 1 < Len(w) => k + 2 \in 1 .. Len(w)) /\ (k + 2) - 1 = k + 1
  BY <1>1
<1>6. portion(k + 1) = portion(k) \o <<w[k + 1]>>
  BY <1>3, <1>5
<1>7. ASSUME k + 1 < Len(w) PROVE portion(k + 2) = portion(k) \o <<w[k + 1], w[k + 2]>>
  <2> DEFINE p == portion(k)
             x == <<w[k + 1]>>
             y == <<w[k + 2]>>
  <2>1. x \o y = <<w[k + 1], w[k + 2]>>
    BY PairIs
  <2>2. p \in Chars /\ x \in Chars /\ y \in Chars
    BY <1>2, <1>4, <1>5, <1>7
  <2>3. portion(k + 2) = (p \o x) \o y
    BY <1>3, <1>5, <1>6, <1>7
  <2> HIDE DEF p, x, y
  <2>4. (p \o x) \o y = p \o (x \o y)
    BY <2>2, Associates
  <2> QED BY <2>1, <2>3, <2>4 DEF p
<1> QED BY <1>6, <1>7 DEF portion

\* A way through a text w that stands at i: the states at its characters, what is kept
\* up to each, and the characters at which the machine does not stop.
Walks(text, w, i, at, kept, skip) ==
  /\ at[0] = "code" /\ kept[0] = <<>> /\ 0 \notin skip
  /\ \A k \in 0 .. Len(w) : kept[k] \in Chars
  /\ \A k \in 0 .. Len(w) : k < Len(w) /\ k \notin skip =>
       \E n \in {1, 2}, cut \in Chars :
         /\ k + n <= Len(w) /\ k + n \notin skip
         /\ Step(text, i + k, at[k], n, at[k + n], cut) /\ kept[k + n] = kept[k] \o cut
         /\ ~(at[k] = "code" /\ w[k + 1] = ";")

LEMMA Walked ==
  ASSUME NEW text \in Chars, NEW run, Runs(run, text),
         NEW w \in Chars, NEW i \in Int, Stands(w, text, i),
         NEW at, NEW kept, NEW skip, Walks(text, w, i, at, kept, skip),
         NEW c \in Chars, NEW out, Comes(run, text, i, "code", c, out)
  PROVE  Comes(run, text, i + Len(w), at[Len(w)], c \o kept[Len(w)], out)
<1> DEFINE N == Len(w)
           comes(k) == Comes(run, text, i + k, at[k], c \o kept[k], out)
           B == {k \in 0 .. N : \E m \in k .. N : m \notin skip /\ comes(m)}
<1>1. N \in Nat
  BY TextIs
<1>2. comes(0)
  <2>1. i + 0 = i /\ c \o <<>> = c
    BY Joined
  <2> QED BY <2>1 DEF Walks
<1>3. ASSUME NEW k \in 0 .. N, k < N, k \notin skip, comes(k)
      PROVE  \E m \in k + 1 .. N : m \notin skip /\ comes(m)
  <2>1. PICK n \in {1, 2}, cut \in Chars :
          /\ k + n <= Len(w) /\ k + n \notin skip
          /\ Step(text, i + k, at[k], n, at[k + n], cut) /\ kept[k + n] = kept[k] \o cut
          /\ ~(at[k] = "code" /\ w[k + 1] = ";")
    BY <1>3 DEF Walks
  <2>2. i + k \in 1 .. Len(text) /\ text[i + k] = w[k + 1]
    BY <1>3, StandsIs
  <2>3. kept[k] \in Chars
    BY <1>3 DEF Walks
  <2>4. c \o kept[k] \in Chars /\ (c \o kept[k]) \o cut = c \o (kept[k] \o cut)
    <3> DEFINE x == kept[k]
    <3>1. x \in Chars
      BY <2>3
    <3> HIDE DEF x
    <3>2. c \o x \in Chars
      BY <3>1, Joined
    <3>3. (c \o x) \o cut = c \o (x \o cut)
      BY <3>1, Associates
    <3> QED BY <3>2, <3>3 DEF x
  <2>5. ~(at[k] = "code" /\ text[i + k] = ";")
    BY ONLY <2>1, <2>2
  <2> DEFINE j == i + k
             b == c \o kept[k]
  <2>6. /\ j \in 1 .. Len(text) /\ b \in Chars /\ ~(at[k] = "code" /\ text[j] = ";")
        /\ Step(text, j, at[k], n, at[k + n], cut) /\ Comes(run, text, j, at[k], b, out)
    BY <1>3, <2>1, <2>2, <2>4, <2>5
  <2>7. Comes(run, text, j + n, at[k + n], b \o cut, out)
    <3> HIDE DEF j, b, comes
    <3> QED BY <2>6, Takes
  <2>8. j + n = i + (k + n) /\ k + n \in k + 1 .. N
    <3>1. k + n <= N
      BY <2>1
    <3> QED BY ONLY <1>1, <3>1, k \in 0 .. N, n \in {1, 2}, i \in Int
  <2>9. b \o cut = c \o kept[k + n]
    <3>1. kept[k + n] = kept[k] \o cut
      BY <2>1
    <3>2. b \o cut = c \o (kept[k] \o cut)
      BY <2>4
    <3> HIDE DEF b
    <3> QED BY ONLY <3>1, <3>2
  <2>10. comes(k + n)
    <3> HIDE DEF j, b
    <3> QED BY <2>7, <2>8, <2>9
  <2> HIDE DEF comes, j, b
  <2> QED BY <2>1, <2>8, <2>10
<1> HIDE DEF comes
<1>4. 0 \in B
  <2>1. 0 \notin skip
    BY DEF Walks
  <2> HIDE DEF N
  <2> QED BY <1>1, <1>2, <2>1
<1>5. ASSUME NEW k \in 0 .. N, k \in B, k < N PROVE k + 1 \in B
  <2> HIDE DEF N
  <2>1. PICK m \in k .. N : m \notin skip /\ comes(m)
    BY <1>5
  <2>2. m \in 0 .. N /\ k + 1 \in 0 .. N /\ (m = k \/ m \in k + 1 .. N)
    BY <1>1, <1>5
  <2> QED BY <1>3, <1>5, <2>1, <2>2
<1>6. N \in B
  <2> HIDE DEF B, N
  <2>1. \A k \in 0 .. N : k \in B /\ k < N => k + 1 \in B
    BY <1>5
  <2>2. N \in 0 .. N
    BY <1>1
  <2> QED BY <1>1, <1>4, <2>1, <2>2, UpTo
<1>7. comes(N)
  <2> HIDE DEF N
  <2>1. \A m \in N .. N : m = N
    BY <1>1
  <2> QED BY <1>6, <2>1
<1> QED BY <1>7 DEF comes

\* What the machine does at the character k + 1 of a text that stands at i.
LEMMA StepsIn ==
  ASSUME NEW text \in Chars, NEW w \in Chars, NEW i \in Int, Stands(w, text, i),
         NEW k \in 0 .. Len(w), k < Len(w)
  PROVE  LET c == w[k + 1]
             one(state, t, cut) == Step(text, i + k, state, 1, t, cut)
             two(state, t, cut) == Step(text, i + k, state, 2, t, cut)
         IN  /\ c = "'" => one("code", "quote", <<c>>) /\ one("quote", "code", <<c>>)
             /\ c = "tick" => one("code", "backtick", <<c>>) /\ one("backtick", "code", <<c>>)
             /\ c = "#" => one("code", "line", <<>>)
             /\ c \notin {"'", "\\"} => one("quote", "quote", <<c>>)
             /\ c # "tick" => one("backtick", "backtick", <<c>>)
             /\ c = "\n" => one("line", "code", <<c>>)
             /\ c # "\n" => one("line", "line", <<>>)
             /\ c \notin {"'", "tick", "#", "-", "/", ";"} => one("code", "code", <<c>>)
             /\ k + 1 < Len(w) =>
                  LET next == w[k + 2]
                  IN  /\ c = "-" /\ next = "-" => two("code", "line", <<>>)
                      /\ c = "/" /\ next = "*" => two("code", "block", <<>>)
                      /\ c = "-" /\ next # "-" => one("code", "code", <<c>>)
                      /\ c = "/" /\ next # "*" => one("code", "code", <<c>>)
                      /\ c = "\\" => two("quote", "quote", <<c, next>>)
                      /\ c = "*" /\ next = "/" => two("block", "code", <<>>)
                      /\ ~(c = "*" /\ next = "/") => one("block", "block", <<>>)
<1> DEFINE j == i + k
           c == w[k + 1]
           next == Following(text, j)
<1>1. /\ j \in 1 .. Len(text) /\ text[j] = c
      /\ k + 1 < Len(w) => /\ next = w[k + 2] /\ text[j + 1] = w[k + 2] /\ w[k + 2] # "end"
  <2>1. j \in 1 .. Len(text) /\ text[j] = c
    BY StandsIs
  <2>2. ASSUME k + 1 < Len(w) PROVE next = w[k + 2] /\ text[j + 1] = w[k + 2]
    BY <2>2, StandsIs DEF Following
  <2>3. ASSUME k + 1 < Len(w) PROVE w[k + 2] # "end"
    <3>1. k + 2 \in 1 .. Len(w)
      BY <2>3, TextIs
    <3> QED BY <3>1, TextIs DEF Character
  <2> QED BY <2>1, <2>2, <2>3
<1> HIDE DEF j, next
<1>2. /\ c = "'" => Step(text, j, "code", 1, "quote", <<c>>)
      /\ c = "tick" => Step(text, j, "code", 1, "backtick", <<c>>)
      /\ c = "-" /\ next = "-" => Step(text, j, "code", 2, "line", <<>>)
      /\ c = "#" => Step(text, j, "code", 1, "line", <<>>)
      /\ c = "/" /\ next = "*" => Step(text, j, "code", 2, "block", <<>>)
      /\ (/\ c \notin {"'", "tick", "#", ";"} /\ ~(c = "-" /\ next = "-")
          /\ ~(c = "/" /\ next = "*"))
           => Step(text, j, "code", 1, "code", <<c>>)
      /\ c = "\\" /\ next # "end" => Step(text, j, "quote", 2, "quote", <<c, text[j + 1]>>)
      /\ c = "'" => Step(text, j, "quote", 1, "code", <<c>>)
      /\ c \notin {"'", "\\"} => Step(text, j, "quote", 1, "quote", <<c>>)
      /\ c = "tick" => Step(text, j, "backtick", 1, "code", <<c>>)
      /\ c # "tick" => Step(text, j, "backtick", 1, "backtick", <<c>>)
      /\ c = "\n" => Step(text, j, "line", 1, "code", <<c>>)
      /\ c # "\n" => Step(text, j, "line", 1, "line", <<>>)
      /\ c = "*" /\ next = "/" => Step(text, j, "block", 2, "code", <<>>)
      /\ ~(c = "*" /\ next = "/") => Step(text, j, "block", 1, "block", <<>>)
  <2> HIDE DEF c
  <2> QED BY <1>1, AllSteps DEF next
<1> HIDE DEF c
<1>3. /\ c = "'" => Step(text, j, "code", 1, "quote", <<c>>) /\ Step(text, j, "quote", 1, "code", <<c>>)
      /\ c = "tick" => Step(text, j, "code", 1, "backtick", <<c>>) /\ Step(text, j, "backtick", 1, "code", <<c>>)
      /\ c = "#" => Step(text, j, "code", 1, "line", <<>>)
      /\ c \notin {"'", "\\"} => Step(text, j, "quote", 1, "quote", <<c>>)
      /\ c # "tick" => Step(text, j, "backtick", 1, "backtick", <<c>>)
      /\ c = "\n" => Step(text, j, "line", 1, "code", <<c>>)
      /\ c # "\n" => Step(text, j, "line", 1, "line", <<>>)
      /\ c \notin {"'", "tick", "#", "-", "/", ";"} => Step(text, j, "code", 1, "code", <<c>>)
  BY ONLY <1>2
<1>4. ASSUME k + 1 < Len(w)
      PROVE  LET d == w[k + 2]
             IN  /\ c = "-" /\ d = "-" => Step(text, j, "code", 2, "line", <<>>)
                 /\ c = "/" /\ d = "*" => Step(text, j, "code", 2, "block", <<>>)
                 /\ c = "-" /\ d # "-" => Step(text, j, "code", 1, "code", <<c>>)
                 /\ c = "/" /\ d # "*" => Step(text, j, "code", 1, "code", <<c>>)
                 /\ c = "\\" => Step(text, j, "quote", 2, "quote", <<c, d>>)
                 /\ c = "*" /\ d = "/" => Step(text, j, "block", 2, "code", <<>>)
                 /\ ~(c = "*" /\ d = "/") => Step(text, j, "block", 1, "block", <<>>)
  <2> DEFINE d == w[k + 2]
  <2>1. next = d /\ text[j + 1] = d /\ d # "end"
    BY <1>1, <1>4
  <2> HIDE DEF d
  <2>2. /\ c = "-" /\ d = "-" => Step(text, j, "code", 2, "line", <<>>)
        /\ c = "/" /\ d = "*" => Step(text, j, "code", 2, "block", <<>>)
        /\ c = "-" /\ d # "-" => Step(text, j, "code", 1, "code", <<c>>)
        /\ c = "/" /\ d # "*" => Step(text, j, "code", 1, "code", <<c>>)
        /\ c = "\\" => Step(text, j, "quote", 2, "quote", <<c, d>>)
        /\ c = "*" /\ d = "/" => Step(text, j, "block", 2, "code", <<>>)
        /\ ~(c = "*" /\ d = "/") => Step(text, j, "block", 1, "block", <<>>)
    BY ONLY <1>2, <2>1
  <2> QED BY <2>2 DEF d
<1> QED BY <1>3, <1>4 DEF j, c

----------------------------------------------------------------------------
\* The pieces of a file, and the machine's way through each.
LEMMA PartsAre ==
  ASSUME NEW w \in Chars
  PROVE  /\ SubSeq(w, 1, 0) = <<>> /\ SubSeq(w, 1, Len(w)) = w
         /\ \A k \in 0 .. Len(w) : SubSeq(w, 1, k) \in Chars
<1>1. Len(w) \in Nat /\ \A n \in 1 .. Len(w) : w[n] \in Character
  BY TextIs
<1>2. \A k \in 0 .. Len(w) : SubSeq(w, 1, k) \in Chars
  BY <1>1, SubSeqProperties DEF Chars
<1>3. SubSeq(w, 1, 0) = <<>>
  BY SubSeqEmpty
<1>4. SubSeq(w, 1, Len(w)) = w
  BY SubSeqFull DEF Chars
<1> QED BY <1>2, <1>3, <1>4

\* A way on which every character is kept.
Keeping(text, w, i, at, skip) ==
  /\ at[0] = "code" /\ 0 \notin skip
  /\ \A k \in 0 .. Len(w) : k < Len(w) /\ k \notin skip =>
       /\ ~(at[k] = "code" /\ w[k + 1] = ";")
       /\ \/ k + 1 \notin skip /\ Step(text, i + k, at[k], 1, at[k + 1], <<w[k + 1]>>)
          \/ /\ k + 1 < Len(w) /\ k + 2 \notin skip
             /\ Step(text, i + k, at[k], 2, at[k + 2], <<w[k + 1], w[k + 2]>>)

LEMMA KeptWalk ==
  ASSUME NEW text \in Chars, NEW w \in Chars, NEW i \in Int, NEW at, NEW skip, Keeping(text, w, i, at, skip)
  PROVE  Walks(text, w, i, at, [k \in 0 .. Len(w) |-> SubSeq(w, 1, k)], skip)
<1> DEFINE N == Len(w)
           kept == [k \in 0 .. Len(w) |-> SubSeq(w, 1, k)]
<1>1. N \in Nat /\ \A n \in 1 .. N : w[n] \in Character
  BY TextIs
<1>2. kept[0] = <<>> /\ \A k \in 0 .. N : kept[k] \in Chars
  <2>1. 0 \in 0 .. N
    BY <1>1
  <2> QED BY <2>1, PartsAre
<1>3. ASSUME NEW k \in 0 .. N, k < N, k \notin skip
      PROVE  \E n \in {1, 2}, cut \in Chars :
               /\ k + n <= N /\ k + n \notin skip
               /\ Step(text, i + k, at[k], n, at[k + n], cut) /\ kept[k + n] = kept[k] \o cut
               /\ ~(at[k] = "code" /\ w[k + 1] = ";")
  <2>1. k + 1 \in 1 .. N /\ k + 1 \in 0 .. N /\ (k + 1 < N => k + 2 \in 1 .. N /\ k + 2 \in 0 .. N)
    BY <1>1, <1>3
  <2>2. ~(at[k] = "code" /\ w[k + 1] = ";")
    BY <1>3 DEF Keeping
  <2>3. CASE k + 1 \notin skip /\ Step(text, i + k, at[k], 1, at[k + 1], <<w[k + 1]>>)
    <3>1. <<w[k + 1]>> \in Chars /\ k + 1 <= N
      BY <1>1, <2>1, Joined
    <3>2. kept[k + 1] = kept[k] \o <<w[k + 1]>>
      BY <1>3, <2>1, Grows
    <3> HIDE DEF kept, N
    <3> QED BY <2>2, <2>3, <3>1, <3>2
  <2>4. CASE /\ k + 1 < Len(w) /\ k + 2 \notin skip
             /\ Step(text, i + k, at[k], 2, at[k + 2], <<w[k + 1], w[k + 2]>>)
    <3>1. <<w[k + 1], w[k + 2]>> \in Chars
      <4>1. <<w[k + 1]>> \in Chars /\ <<w[k + 2]>> \in Chars
        BY <1>1, <2>1, <2>4, Joined
      <4>2. <<w[k + 1], w[k + 2]>> = <<w[k + 1]>> \o <<w[k + 2]>>
        BY PairIs
      <4> DEFINE x == <<w[k + 1]>>
                 y == <<w[k + 2]>>
      <4> HIDE DEF x, y
      <4>3. x \o y \in Chars
        BY <4>1, Joined DEF x, y
      <4> QED BY <4>2, <4>3 DEF x, y
    <3>2. kept[k + 2] = kept[k] \o <<w[k + 1], w[k + 2]>> /\ k + 2 <= N
      BY <1>1, <1>3, <2>1, <2>4, Grows
    <3> HIDE DEF kept, N
    <3> QED BY <2>2, <2>4, <3>1, <3>2
  <2> QED BY <1>3, <2>3, <2>4 DEF Keeping
<1>4. at[0] = "code" /\ 0 \notin skip
  BY DEF Keeping
<1> HIDE DEF kept
<1>5. Walks(text, w, i, at, kept, skip)
  BY <1>2, <1>3, <1>4 DEF Walks
<1> QED BY <1>5 DEF kept

LEMMA BareWalk ==
  ASSUME NEW text \in Chars, NEW w \in Chars, NEW i \in Int, Stands(w, text, i), Bare(w)
  PROVE  Walks(text, w, i, [k \in 0 .. Len(w) |-> "code"], [k \in 0 .. Len(w) |-> SubSeq(w, 1, k)], {})
<1> DEFINE N == Len(w)
           at == [k \in 0 .. Len(w) |-> "code"]
<1>1. N \in Nat
  BY TextIs
<1>2. ASSUME NEW k \in 0 .. N, k < N
      PROVE  w[k + 1] # ";" /\ Step(text, i + k, "code", 1, "code", <<w[k + 1]>>)
  <2>1. k + 1 \in 1 .. N /\ (k + 1) + 1 = k + 2
    BY <1>1, <1>2
  <2> DEFINE x == w[k + 1]
             y == w[k + 2]
  <2>2. /\ x \notin {"'", "tick", "#", ";"}
        /\ x = "-" => k + 1 < N /\ y # "-"
        /\ x = "/" => k + 1 < N /\ y # "*"
    BY <2>1 DEF Bare
  <2>3. /\ x \notin {"'", "tick", "#", "-", "/", ";"} => Step(text, i + k, "code", 1, "code", <<x>>)
        /\ k + 1 < N => /\ x = "-" /\ y # "-" => Step(text, i + k, "code", 1, "code", <<x>>)
                        /\ x = "/" /\ y # "*" => Step(text, i + k, "code", 1, "code", <<x>>)
    BY <1>2, StepsIn
  <2> HIDE DEF x, y, N
  <2>4. x # ";" /\ Step(text, i + k, "code", 1, "code", <<x>>)
    BY ONLY <2>2, <2>3
  <2> QED BY <2>4 DEF x
<1>3. 0 \in 0 .. N /\ \A k \in 0 .. N : k < N => k + 1 \in 0 .. N
  BY <1>1
<1>4. at[0] = "code" /\ \A k \in 0 .. N : at[k] = "code"
  BY <1>3
<1> HIDE DEF at
<1>5. Keeping(text, w, i, at, {})
  BY <1>2, <1>3, <1>4 DEF Keeping
<1>6. Walks(text, w, i, at, [k \in 0 .. Len(w) |-> SubSeq(w, 1, k)], {})
  BY <1>5, KeptWalk
<1> QED BY <1>6 DEF at

\* The states on the way through a text that opens and closes something.
Within(w, state) == [k \in 0 .. Len(w) |-> IF k \in {0, Len(w)} THEN "code" ELSE state]

LEMMA WithinIs ==
  ASSUME NEW w \in Chars, NEW state
  PROVE  /\ Within(w, state)[0] = "code" /\ Within(w, state)[Len(w)] = "code"
         /\ \A k \in 0 .. Len(w) : k > 0 /\ k < Len(w) => Within(w, state)[k] = state
<1>1. Len(w) \in Nat
  BY TextIs
<1>2. 0 \in 0 .. Len(w) /\ Len(w) \in 0 .. Len(w)
  BY <1>1
<1>3. \A k \in 0 .. Len(w) : k > 0 /\ k < Len(w) => k \notin {0, Len(w)}
  BY <1>1
<1> QED BY <1>2, <1>3 DEF Within

LEMMA TickedWalk ==
  ASSUME NEW text \in Chars, NEW w \in Chars, NEW i \in Int, Stands(w, text, i), Ticked(w)
  PROVE  Walks(text, w, i, Within(w, "backtick"), [k \in 0 .. Len(w) |-> SubSeq(w, 1, k)], {})
<1> DEFINE N == Len(w)
           at == Within(w, "backtick")
<1>1. N \in Nat
  BY TextIs
<1>2. N >= 2 /\ w[1] = "tick" /\ w[N] = "tick" /\ \A k \in 2 .. N - 1 : w[k] # "tick"
  BY DEF Ticked
<1>3. at[0] = "code" /\ at[N] = "code" /\ \A k \in 0 .. N : k > 0 /\ k < N => at[k] = "backtick"
  BY WithinIs
<1>4. ASSUME NEW k \in 0 .. N, k < N
      PROVE  ~(at[k] = "code" /\ w[k + 1] = ";") /\ Step(text, i + k, at[k], 1, at[k + 1], <<w[k + 1]>>)
  <2> DEFINE x == w[k + 1]
  <2>1. /\ x = "tick" => Step(text, i + k, "code", 1, "backtick", <<x>>)
        /\ x = "tick" => Step(text, i + k, "backtick", 1, "code", <<x>>)
        /\ x # "tick" => Step(text, i + k, "backtick", 1, "backtick", <<x>>)
    BY <1>4, StepsIn
  <2>2. N >= 2
    BY <1>2
  <2>3. \/ k = 0 /\ k + 1 = 1 /\ 1 < N /\ 1 > 0 /\ 1 \in 0 .. N
        \/ k > 0 /\ k < N /\ k + 1 < N /\ k + 1 > 0 /\ k + 1 \in 0 .. N /\ k + 1 \in 2 .. N - 1
        \/ k > 0 /\ k < N /\ k + 1 = N
    BY ONLY <1>1, <1>4, <2>2, k \in 0 .. N
  <2> HIDE DEF at, N
  <2>4. \/ x = "tick" /\ at[k] = "code" /\ at[k + 1] = "backtick"
        \/ x # "tick" /\ at[k] = "backtick" /\ at[k + 1] = "backtick"
        \/ x = "tick" /\ at[k] = "backtick" /\ at[k + 1] = "code"
    BY ONLY <1>2, <1>3, <2>3, k \in 0 .. N
  <2> HIDE DEF x
  <2>5. ~(at[k] = "code" /\ x = ";") /\ Step(text, i + k, at[k], 1, at[k + 1], <<x>>)
    BY ONLY <2>1, <2>4
  <2> QED BY <2>5 DEF x
<1> HIDE DEF at
<1>5. Keeping(text, w, i, at, {})
  BY <1>3, <1>4 DEF Keeping
<1>6. Walks(text, w, i, at, [k \in 0 .. Len(w) |-> SubSeq(w, 1, k)], {})
  BY <1>5, KeptWalk
<1> QED BY <1>6 DEF at

LEMMA QuotedWalk ==
  ASSUME NEW text \in Chars, NEW w \in Chars, NEW i \in Int, Stands(w, text, i), Quoted(w)
  PROVE  \E skip : /\ Walks(text, w, i, Within(w, "quote"), [k \in 0 .. Len(w) |-> SubSeq(w, 1, k)], skip)
<1> DEFINE N == Len(w)
           at == Within(w, "quote")
<1>1. N \in Nat
  BY TextIs
<1>2. N >= 2 /\ w[1] = "'" /\ w[N] = "'"
  BY DEF Quoted
<1>3. PICK escapes \in SUBSET (2 .. N - 2) : \A k \in 2 .. N - 1 :
        IF k \in escapes THEN w[k] = "\\" /\ k + 1 \notin escapes
        ELSE w[k] \in {"'", "\\"} => k - 1 \in escapes
  BY DEF Quoted
<1>4. at[0] = "code" /\ at[N] = "code" /\ \A k \in 0 .. N : k > 0 /\ k < N => at[k] = "quote"
  BY WithinIs
<1>5. 0 \notin escapes /\ 1 \notin escapes /\ N \notin escapes /\ \A k \in escapes : k < N - 1
  BY ONLY <1>1, escapes \in SUBSET (2 .. N - 2)
<1>6. ASSUME NEW k \in 0 .. N, k < N, k \notin escapes
      PROVE  /\ ~(at[k] = "code" /\ w[k + 1] = ";")
             /\ \/ k + 1 \notin escapes /\ Step(text, i + k, at[k], 1, at[k + 1], <<w[k + 1]>>)
                \/ /\ k + 1 < N /\ k + 2 \notin escapes
                   /\ Step(text, i + k, at[k], 2, at[k + 2], <<w[k + 1], w[k + 2]>>)
  <2> DEFINE x == w[k + 1]
             y == w[k + 2]
             one == Step(text, i + k, at[k], 1, at[k + 1], <<x>>)
             two == Step(text, i + k, at[k], 2, at[k + 2], <<x, y>>)
  <2>1. /\ x = "'" => Step(text, i + k, "code", 1, "quote", <<x>>)
        /\ x = "'" => Step(text, i + k, "quote", 1, "code", <<x>>)
        /\ x \notin {"'", "\\"} => Step(text, i + k, "quote", 1, "quote", <<x>>)
        /\ k + 1 < N /\ x = "\\" => Step(text, i + k, "quote", 2, "quote", <<x, y>>)
    BY <1>6, StepsIn
  <2>2. N >= 2 /\ (k + 1 \in escapes => k + 1 < N - 1)
    BY <1>2, <1>5
  <2>3. \/ k = 0 /\ k + 1 = 1 /\ 1 < N /\ 1 > 0 /\ 1 \in 0 .. N
        \/ /\ k > 0 /\ k < N /\ k + 1 < N /\ k + 1 > 0 /\ k + 1 \in 0 .. N /\ k + 1 \in 2 .. N - 1
           /\ (k + 1) - 1 = k /\ (k + 1) + 1 = k + 2
           /\ k + 1 \in escapes => k + 2 < N /\ k + 2 > 0 /\ k + 2 \in 0 .. N
        \/ k > 0 /\ k < N /\ k + 1 = N
    BY ONLY <1>1, <1>6, <2>2, k \in 0 .. N
  <2> HIDE DEF at, N
  <2>4. \/ k + 1 \notin escapes /\ x = "'" /\ at[k] = "code" /\ at[k + 1] = "quote"
        \/ k + 1 \notin escapes /\ x \notin {"'", "\\"} /\ at[k] = "quote" /\ at[k + 1] = "quote"
        \/ k + 1 \notin escapes /\ x = "'" /\ at[k] = "quote" /\ at[k + 1] = "code"
        \/ k + 1 < N /\ k + 2 \notin escapes /\ x = "\\" /\ at[k] = "quote" /\ at[k + 2] = "quote"
    BY ONLY <1>2, <1>3, <1>4, <1>5, <1>6, <2>3, k \in 0 .. N
  <2> HIDE DEF x, y
  <2>5. /\ ~(at[k] = "code" /\ x = ";")
        /\ \/ k + 1 \notin escapes /\ one
           \/ k + 1 < N /\ k + 2 \notin escapes /\ two
    BY ONLY <2>1, <2>4
  <2> QED BY <2>5 DEF x, y
<1> HIDE DEF at
<1>7. Keeping(text, w, i, at, escapes)
  BY <1>4, <1>5, <1>6 DEF Keeping
<1>8. Walks(text, w, i, at, [k \in 0 .. Len(w) |-> SubSeq(w, 1, k)], escapes)
  BY <1>7, KeptWalk
<1> QED BY <1>8 DEF at

LEMMA LineWalk ==
  ASSUME NEW text \in Chars, NEW w \in Chars, NEW i \in Int, Stands(w, text, i), LineComment(w)
  PROVE  \E skip : Walks(text, w, i, Within(w, "line"),
                         [k \in 0 .. Len(w) |-> IF k = Len(w) THEN <<"\n">> ELSE <<>>], skip)
<1> DEFINE N == Len(w)
           at == Within(w, "line")
           kept == [k \in 0 .. Len(w) |-> IF k = Len(w) THEN <<"\n">> ELSE <<>>]
<1>1. N \in Nat
  BY TextIs
<1>2. PICK n \in {1, 2} :
        /\ N > n /\ w[N] = "\n"
        /\ IF n = 1 THEN w[1] = "#" ELSE w[1] = "-" /\ w[2] = "-"
        /\ \A k \in n + 1 .. N - 1 : w[k] # "\n"
  BY DEF LineComment
<1>3. at[0] = "code" /\ at[N] = "code" /\ \A k \in 0 .. N : k > 0 /\ k < N => at[k] = "line"
  BY WithinIs
<1> DEFINE skip == 1 .. n - 1
<1>4. <<>> \in Chars /\ <<"\n">> \in Chars
  <2>1. "\n" \in Character
    BY DEF Character
  <2> QED BY <2>1, Joined
<1>5. kept[N] = <<"\n">> /\ \A k \in 0 .. N : k < N => kept[k] = <<>>
  BY <1>1
<1>6. \A k \in 0 .. N : kept[k] \in Chars
  BY <1>4
<1>7. kept[0] = <<>> /\ 0 \notin skip
  <2>1. N > n
    BY <1>2
  <2>2. 0 \in 0 .. N /\ 0 < N /\ 0 \notin skip
    BY ONLY <1>1, <2>1, n \in {1, 2}
  <2> QED BY <1>5, <2>2
<1>8. ASSUME NEW k \in 0 .. N, k < N, k \notin skip
      PROVE  \E m \in {1, 2}, cut \in Chars :
               /\ k + m <= N /\ k + m \notin skip
               /\ Step(text, i + k, at[k], m, at[k + m], cut) /\ kept[k + m] = kept[k] \o cut
               /\ ~(at[k] = "code" /\ w[k + 1] = ";")
  <2> DEFINE x == w[k + 1]
             y == w[k + 2]
  <2>1. /\ x = "#" => Step(text, i + k, "code", 1, "line", <<>>)
        /\ x = "\n" => Step(text, i + k, "line", 1, "code", <<x>>)
        /\ x # "\n" => Step(text, i + k, "line", 1, "line", <<>>)
        /\ k + 1 < N => (x = "-" /\ y = "-" => Step(text, i + k, "code", 2, "line", <<>>))
    BY <1>8, StepsIn
  <2>2. N > n
    BY <1>2
  <2>3. \/ /\ k = 0 /\ k + n = n /\ k + 1 = 1 /\ k + 2 = 2 /\ k + 1 < N /\ n < N /\ n > 0
           /\ n \in 0 .. N /\ k + n <= N /\ n \notin skip
        \/ /\ k > 0 /\ k < N /\ k + 1 < N /\ k + 1 > 0 /\ k + 1 \in 0 .. N /\ k + 1 \in n + 1 .. N - 1
           /\ k + 1 \notin skip /\ k + 1 <= N
        \/ k > 0 /\ k < N /\ k + 1 = N /\ k + 1 \notin skip /\ k + 1 <= N
    BY ONLY <1>1, <1>8, <2>2, k \in 0 .. N, n \in {1, 2}
  <2> HIDE DEF skip, at, kept, N
  <2>4. /\ <<>> \o <<>> = <<>> /\ <<>> \o <<"\n">> = <<"\n">>
    BY <1>4, Joined
  <2>5. CASE /\ k = 0 /\ k + n = n /\ k + 1 = 1 /\ k + 2 = 2 /\ k + 1 < N /\ n < N /\ n > 0
             /\ n \in 0 .. N /\ k + n <= N /\ n \notin skip
    <3>1. at[k] = "code" /\ at[k + n] = "line" /\ kept[k + n] = <<>> /\ kept[k] = <<>>
      BY ONLY <1>3, <1>5, <1>8, <2>5, k \in 0 .. N
    <3>2. (n = 1 /\ x = "#") \/ (n = 2 /\ x = "-" /\ y = "-")
      BY ONLY <1>2, <2>5, n \in {1, 2}
    <3> HIDE DEF x, y
    <3>3. Step(text, i + k, at[k], n, at[k + n], <<>>) /\ x # ";"
      BY ONLY <2>1, <2>5, <3>1, <3>2
    <3>4. k + n <= N /\ k + n \notin skip /\ kept[k + n] = kept[k] \o <<>>
      BY ONLY <2>4, <2>5, <3>1
    <3> QED BY <1>4, <3>3, <3>4 DEF x
  <2>6. CASE /\ k > 0 /\ k < N /\ k + 1 < N /\ k + 1 > 0 /\ k + 1 \in 0 .. N /\ k + 1 \in n + 1 .. N - 1
             /\ k + 1 \notin skip /\ k + 1 <= N
    <3>1. at[k] = "line" /\ at[k + 1] = "line" /\ kept[k + 1] = <<>> /\ kept[k] = <<>>
      BY ONLY <1>3, <1>5, <2>6, k \in 0 .. N
    <3>2. x # "\n"
      BY ONLY <1>2, <2>6
    <3> HIDE DEF x, y
    <3>3. Step(text, i + k, at[k], 1, at[k + 1], <<>>) /\ at[k] # "code"
      BY ONLY <2>1, <3>1, <3>2
    <3>4. k + 1 <= N /\ k + 1 \notin skip /\ kept[k + 1] = kept[k] \o <<>>
      BY ONLY <2>4, <2>6, <3>1
    <3> QED BY <1>4, <3>3, <3>4
  <2>7. CASE k > 0 /\ k < N /\ k + 1 = N /\ k + 1 \notin skip /\ k + 1 <= N
    <3>1. at[k] = "line" /\ at[k + 1] = "code" /\ kept[k + 1] = <<"\n">> /\ kept[k] = <<>>
      BY ONLY <1>3, <1>5, <2>7, k \in 0 .. N
    <3>2. x = "\n"
      BY ONLY <1>2, <2>7
    <3> HIDE DEF x, y
    <3>3. Step(text, i + k, at[k], 1, at[k + 1], <<"\n">>) /\ at[k] # "code"
      BY ONLY <2>1, <3>1, <3>2
    <3>4. k + 1 <= N /\ k + 1 \notin skip /\ kept[k + 1] = kept[k] \o <<"\n">>
      BY ONLY <2>4, <2>7, <3>1
    <3> QED BY <1>4, <3>3, <3>4
  <2> QED BY ONLY <2>3, <2>5, <2>6, <2>7
<1> HIDE DEF at, kept, skip
<1>9. Walks(text, w, i, at, kept, skip)
  BY <1>3, <1>6, <1>7, <1>8 DEF Walks
<1> QED BY <1>9 DEF at, kept

LEMMA BlockWalk ==
  ASSUME NEW text \in Chars, NEW w \in Chars, NEW i \in Int, Stands(w, text, i), BlockComment(w)
  PROVE  Walks(text, w, i, Within(w, "block"), [k \in 0 .. Len(w) |-> <<>>], {1, Len(w) - 1})
<1> DEFINE N == Len(w)
           at == Within(w, "block")
           kept == [k \in 0 .. Len(w) |-> <<>>]
           skip == {1, Len(w) - 1}
<1>1. N \in Nat
  BY TextIs
<1>2. /\ N >= 4 /\ w[1] = "/" /\ w[2] = "*" /\ w[N - 1] = "*" /\ w[N] = "/"
      /\ \A k \in 3 .. N - 2 : ~(w[k] = "*" /\ w[k + 1] = "/")
  BY DEF BlockComment
<1>3. at[0] = "code" /\ at[N] = "code" /\ \A k \in 0 .. N : k > 0 /\ k < N => at[k] = "block"
  BY WithinIs
<1>4. <<>> \in Chars /\ <<>> \o <<>> = <<>>
  BY Joined
<1>5. \A k \in 0 .. N : kept[k] = <<>>
  OBVIOUS
<1>6. N >= 4
  BY <1>2
<1>7. 0 \in 0 .. N /\ 0 \notin skip
  <2> HIDE DEF N
  <2>1. 0 \in 0 .. N /\ 0 # 1 /\ 0 # N - 1
    BY <1>1, <1>6
  <2> QED BY <2>1 DEF N
<1>8. ASSUME NEW k \in 0 .. N, k < N, k \notin skip
      PROVE  \E m \in {1, 2}, cut \in Chars :
               /\ k + m <= N /\ k + m \notin skip
               /\ Step(text, i + k, at[k], m, at[k + m], cut) /\ kept[k + m] = kept[k] \o cut
               /\ ~(at[k] = "code" /\ w[k + 1] = ";")
  <2> DEFINE x == w[k + 1]
             y == w[k + 2]
  <2>1. k + 1 < N
    BY ONLY <1>1, <1>6, <1>8, k \in 0 .. N
  <2>2. /\ x = "/" /\ y = "*" => Step(text, i + k, "code", 2, "block", <<>>)
        /\ x = "*" /\ y = "/" => Step(text, i + k, "block", 2, "code", <<>>)
        /\ ~(x = "*" /\ y = "/") => Step(text, i + k, "block", 1, "block", <<>>)
    BY <1>8, <2>1, StepsIn
  <2>3. \/ /\ k = 0 /\ k + 1 = 1 /\ k + 2 = 2 /\ 2 < N /\ 2 > 0 /\ 2 \in 0 .. N /\ 2 \notin skip /\ 2 <= N
        \/ /\ k > 0 /\ k < N /\ k + 1 < N /\ k + 1 > 0 /\ k + 1 \in 0 .. N /\ k + 1 \in 3 .. N - 2
           /\ (k + 1) + 1 = k + 2 /\ k + 1 \notin skip /\ k + 1 <= N
        \/ /\ k > 0 /\ k < N /\ k + 1 = N - 1 /\ k + 2 = N /\ N \notin skip /\ N <= N /\ N \in 0 .. N
    <3>1. \/ k = 0 /\ k + 1 = 1 /\ k + 2 = 2 /\ 2 < N /\ 2 > 0 /\ 2 \in 0 .. N /\ 2 # 1 /\ 2 # N - 1 /\ 2 <= N
          \/ /\ k > 0 /\ k < N /\ k + 1 < N /\ k + 1 > 0 /\ k + 1 \in 0 .. N /\ k + 1 \in 3 .. N - 2
             /\ (k + 1) + 1 = k + 2 /\ k + 1 # 1 /\ k + 1 # N - 1 /\ k + 1 <= N
          \/ /\ k > 0 /\ k < N /\ k + 1 = N - 1 /\ k + 2 = N /\ N # 1 /\ N # N - 1 /\ N <= N /\ N \in 0 .. N
      <4>1. k # 1 /\ k # N - 1
        BY ONLY <1>8
      <4>2. k < N
        BY ONLY <1>8
      <4> HIDE DEF N
      <4> QED BY ONLY <1>1, <1>6, <4>1, <4>2, k \in 0 .. N
    <3>2. \A m : m \notin skip <=> m # 1 /\ m # N - 1
      OBVIOUS
    <3> HIDE DEF skip
    <3> QED BY ONLY <3>1, <3>2
  <2> HIDE DEF skip, at, kept, N
  <2>4. CASE /\ k = 0 /\ k + 1 = 1 /\ k + 2 = 2 /\ 2 < N /\ 2 > 0 /\ 2 \in 0 .. N /\ 2 \notin skip /\ 2 <= N
    <3>1. at[k] = "code" /\ at[k + 2] = "block" /\ kept[k + 2] = <<>> /\ kept[k] = <<>>
      BY ONLY <1>3, <1>5, <2>4, k \in 0 .. N
    <3>2. x = "/" /\ y = "*"
      BY ONLY <1>2, <2>4
    <3> HIDE DEF x, y
    <3>3. Step(text, i + k, at[k], 2, at[k + 2], <<>>) /\ x # ";"
      BY ONLY <2>2, <3>1, <3>2
    <3>4. k + 2 <= N /\ k + 2 \notin skip /\ kept[k + 2] = kept[k] \o <<>>
      BY ONLY <1>4, <2>4, <3>1
    <3> QED BY <1>4, <3>3, <3>4 DEF x
  <2>5. CASE /\ k > 0 /\ k < N /\ k + 1 < N /\ k + 1 > 0 /\ k + 1 \in 0 .. N /\ k + 1 \in 3 .. N - 2
             /\ (k + 1) + 1 = k + 2 /\ k + 1 \notin skip /\ k + 1 <= N
    <3>1. at[k] = "block" /\ at[k + 1] = "block" /\ kept[k + 1] = <<>> /\ kept[k] = <<>>
      BY ONLY <1>3, <1>5, <2>5, k \in 0 .. N
    <3>2. ~(x = "*" /\ y = "/")
      BY ONLY <1>2, <2>5
    <3> HIDE DEF x, y
    <3>3. Step(text, i + k, at[k], 1, at[k + 1], <<>>) /\ at[k] # "code"
      BY ONLY <2>2, <3>1, <3>2
    <3>4. k + 1 <= N /\ k + 1 \notin skip /\ kept[k + 1] = kept[k] \o <<>>
      BY ONLY <1>4, <2>5, <3>1
    <3> QED BY <1>4, <3>3, <3>4
  <2>6. CASE k > 0 /\ k < N /\ k + 1 = N - 1 /\ k + 2 = N /\ N \notin skip /\ N <= N /\ N \in 0 .. N
    <3>1. at[k] = "block" /\ at[k + 2] = "code" /\ kept[k + 2] = <<>> /\ kept[k] = <<>>
      BY ONLY <1>3, <1>5, <2>6, k \in 0 .. N
    <3>2. x = "*" /\ y = "/"
      BY ONLY <1>2, <2>6
    <3> HIDE DEF x, y
    <3>3. Step(text, i + k, at[k], 2, at[k + 2], <<>>) /\ at[k] # "code"
      BY ONLY <2>2, <3>1, <3>2
    <3>4. k + 2 <= N /\ k + 2 \notin skip /\ kept[k + 2] = kept[k] \o <<>>
      BY ONLY <1>4, <2>6, <3>1
    <3> QED BY <1>4, <3>3, <3>4
  <2> QED BY ONLY <2>3, <2>4, <2>5, <2>6
<1>9. kept[0] = <<>> /\ \A k \in 0 .. N : kept[k] \in Chars
  BY <1>4, <1>5, <1>7
<1> HIDE DEF at, kept, skip
<1>10. Walks(text, w, i, at, kept, skip)
  BY <1>3, <1>7, <1>8, <1>9 DEF Walks
<1> QED BY <1>10 DEF at, kept, skip

LEMMA PieceTaken ==
  ASSUME NEW text \in Chars, NEW run, Runs(run, text),
         NEW p \in Piece, NEW i \in Int, Stands(p.written, text, i),
         NEW c \in Chars, NEW out, Comes(run, text, i, "code", c, out)
  PROVE  Comes(run, text, i + Len(p.written), "code", c \o p.kept, out)
<1> DEFINE w == p.written
           N == Len(w)
<1>1. w \in Chars /\ p.kept \in Chars
  BY DEF Piece
<1>2. N \in Nat /\ N \in 0 .. N /\ SubSeq(w, 1, N) = w
  <2>1. N \in Nat /\ SubSeq(w, 1, N) = w
    BY <1>1, TextIs, PartsAre
  <2> QED BY <2>1
<1>3. \/ p.kept = w /\ (Bare(w) \/ Ticked(w) \/ Quoted(w))
      \/ p.kept = <<"\n">> /\ LineComment(w)
      \/ p.kept = <<>> /\ BlockComment(w)
  BY DEF Piece
<1>4. \E at, kept, skip : Walks(text, w, i, at, kept, skip) /\ at[N] = "code" /\ kept[N] = p.kept
  <2> DEFINE all == [k \in 0 .. N |-> SubSeq(w, 1, k)]
  <2>1. all[N] = w
    BY <1>2
  <2>2. Within(w, "quote")[N] = "code" /\ Within(w, "backtick")[N] = "code"
        /\ Within(w, "line")[N] = "code" /\ Within(w, "block")[N] = "code"
    BY <1>1, WithinIs
  <2>3. CASE p.kept = w /\ Bare(w)
    <3>1. Walks(text, w, i, [k \in 0 .. N |-> "code"], all, {})
      BY <1>1, <2>3, BareWalk
    <3>2. [k \in 0 .. N |-> "code"][N] = "code"
      BY <1>2
    <3> HIDE DEF all, w
    <3> QED BY <2>1, <2>3, <3>1, <3>2
  <2>4. CASE p.kept = w /\ Ticked(w)
    <3>1. Walks(text, w, i, Within(w, "backtick"), all, {})
      BY <1>1, <2>4, TickedWalk
    <3> HIDE DEF all, w
    <3> QED BY <2>1, <2>2, <2>4, <3>1
  <2>5. CASE p.kept = w /\ Quoted(w)
    <3>1. PICK skip : Walks(text, w, i, Within(w, "quote"), all, skip)
      BY <1>1, <2>5, QuotedWalk
    <3> HIDE DEF all, w
    <3> QED BY <2>1, <2>2, <2>5, <3>1
  <2>6. CASE p.kept = <<"\n">> /\ LineComment(w)
    <3> DEFINE kept == [k \in 0 .. N |-> IF k = N THEN <<"\n">> ELSE <<>>]
    <3>1. PICK skip : Walks(text, w, i, Within(w, "line"), kept, skip)
      BY <1>1, <2>6, LineWalk
    <3>2. kept[N] = <<"\n">>
      BY <1>2
    <3> HIDE DEF kept, w
    <3> QED BY <2>2, <2>6, <3>1, <3>2
  <2>7. CASE p.kept = <<>> /\ BlockComment(w)
    <3> DEFINE kept == [k \in 0 .. N |-> <<>>]
    <3>1. Walks(text, w, i, Within(w, "block"), kept, {1, N - 1})
      BY <1>1, <2>7, BlockWalk
    <3>2. kept[N] = <<>>
      BY <1>2
    <3> HIDE DEF kept, w
    <3> QED BY <2>2, <2>7, <3>1, <3>2
  <2> QED BY ONLY <1>3, <2>3, <2>4, <2>5, <2>6, <2>7
<1>5. PICK at, kept, skip : Walks(text, w, i, at, kept, skip) /\ at[N] = "code" /\ kept[N] = p.kept
  BY <1>4
<1>6. Comes(run, text, i + Len(w), at[Len(w)], c \o kept[Len(w)], out)
  <2> HIDE DEF w
  <2>1. Stands(w, text, i)
    BY DEF w
  <2> QED BY <1>1, <1>5, <2>1, Walked
<1> QED BY <1>5, <1>6

----------------------------------------------------------------------------
\* Pieces put together.  prefix[k] holds the first k of them.
Joins(prefix, seqs) ==
  /\ prefix[0] = <<>>
  /\ \A k \in 0 .. Len(seqs) :
       prefix[k] \in Chars /\ (k < Len(seqs) => prefix[k + 1] = prefix[k] \o seqs[k + 1])

LEMMA Flat ==
  ASSUME NEW seqs \in Seq(Chars)
  PROVE  \E prefix : Joins(prefix, seqs) /\ FlattenSeq(seqs) = prefix[Len(seqs)]
<1> DEFINE N == Len(seqs)
           flat(f) == [k \in 1 .. N |-> IF k = 1 THEN seqs[k] ELSE f[k - 1] \o seqs[k]]
           B == {k \in 0 .. N : \E f : f[0] = <<>> /\ \A n \in 0 .. k :
                   f[n] \in Chars /\ (n # 0 => f[n] = f[n - 1] \o seqs[n])}
<1>1. N \in Nat /\ \A k \in 1 .. N : seqs[k] \in Chars
  OBVIOUS
<1>2. 0 \in B
  <2> DEFINE f == [n \in 0 .. 0 |-> <<>>]
  <2>1. f[0] = <<>> /\ \A n \in 0 .. 0 : n = 0
    OBVIOUS
  <2>2. <<>> \in Chars
    BY Joined
  <2> HIDE DEF f
  <2>3. \A n \in 0 .. 0 : f[n] \in Chars /\ (n # 0 => f[n] = f[n - 1] \o seqs[n])
    BY <2>1, <2>2
  <2>4. 0 \in 0 .. N
    BY <1>1
  <2> HIDE DEF N
  <2> QED BY <2>1, <2>3, <2>4
<1>3. ASSUME NEW k \in 0 .. N, k \in B, k < N PROVE k + 1 \in B
  <2>1. PICK f : f[0] = <<>> /\ \A n \in 0 .. k : f[n] \in Chars /\ (n # 0 => f[n] = f[n - 1] \o seqs[n])
    BY <1>3
  <2> DEFINE g == [n \in 0 .. N |-> IF n = k + 1 THEN f[k] \o seqs[k + 1] ELSE f[n]]
  <2>2. /\ \A n \in 0 .. k : g[n] = f[n]
        /\ g[k + 1] = f[k] \o seqs[k + 1] /\ k \in 0 .. k /\ 0 \in 0 .. k /\ k + 1 \in 1 .. N
    BY <1>1, <1>3
  <2> HIDE DEF g
  <2>3. g[0] = <<>>
    BY <2>1, <2>2
  <2>4. g[k + 1] \in Chars
    <3>1. f[k] \in Chars /\ seqs[k + 1] \in Chars
      BY <1>1, <2>1, <2>2
    <3> DEFINE x == f[k]
               y == seqs[k + 1]
    <3> HIDE DEF x, y
    <3>2. x \o y \in Chars
      BY <3>1, Joined DEF x, y
    <3> QED BY <2>2, <3>2 DEF x, y
  <2>5. ASSUME NEW n \in 0 .. k + 1 PROVE g[n] \in Chars /\ (n # 0 => g[n] = g[n - 1] \o seqs[n])
    <3>1. \/ n = k + 1 /\ n - 1 = k
          \/ n \in 0 .. k /\ (n # 0 => n - 1 \in 0 .. k)
      BY <1>1
    <3> QED BY <2>1, <2>2, <2>4, <3>1
  <2>6. k + 1 \in 0 .. N
    BY <1>1, <1>3
  <2> QED BY <2>3, <2>5, <2>6
<1>4. N \in B
  <2>1. \A k \in 0 .. N : k \in B /\ k < N => k + 1 \in B
    BY <1>3
  <2>2. N \in 0 .. N /\ N \in Nat
    BY <1>1
  <2> HIDE DEF B, N
  <2> QED BY <1>2, <2>1, <2>2, UpTo
<1>5. PICK f : f[0] = <<>> /\ \A n \in 0 .. N : f[n] \in Chars /\ (n # 0 => f[n] = f[n - 1] \o seqs[n])
  BY <1>4
<1>6. Joins(f, seqs)
  <2>1. ASSUME NEW k \in 0 .. N, k < N PROVE f[k + 1] = f[k] \o seqs[k + 1]
    <3>1. k + 1 \in 0 .. N /\ k + 1 # 0 /\ (k + 1) - 1 = k
      BY <1>1, <2>1
    <3> HIDE DEF N
    <3> QED BY <1>5, <3>1
  <2> HIDE DEF N
  <2>2. f[0] = <<>> /\ \A k \in 0 .. N : f[k] \in Chars /\ (k < N => f[k + 1] = f[k] \o seqs[k + 1])
    BY <1>5, <2>1
  <2> QED BY <2>2 DEF Joins, N
<1>7. FlattenSeq(seqs) = f[N]
  <2>1. CASE N = 0
    <3>1. seqs = <<>>
      BY <2>1, EmptySeq
    <3> QED BY <1>5, <2>1, <3>1 DEF FlattenSeq
  <2>2. CASE N # 0
    <3> DEFINE h == [n \in 1 .. N |-> f[n]]
               F == CHOOSE f1 : f1 = flat(f1)
    <3>1. h = flat(h)
      <4>1. ASSUME NEW n \in 1 .. N PROVE f[n] = IF n = 1 THEN seqs[n] ELSE h[n - 1] \o seqs[n]
        <5>1. n \in 0 .. N /\ n # 0 /\ (n # 1 => n - 1 \in 1 .. N) /\ 1 - 1 = 0
          BY <1>1
        <5>2. f[n] = f[n - 1] \o seqs[n] /\ (n # 1 => h[n - 1] = f[n - 1])
          BY <1>5, <5>1
        <5>3. <<>> \o seqs[n] = seqs[n]
          <6> DEFINE x == seqs[n]
          <6>1. x \in Chars
            BY <1>1
          <6> HIDE DEF x
          <6>2. <<>> \o x = x
            BY <6>1, Joined
          <6> QED BY <6>2 DEF x
        <5> HIDE DEF h, N
        <5> QED BY <1>5, <5>1, <5>2, <5>3
      <4> QED BY <4>1
    <3>2. F = flat(F)
      <4> HIDE DEF flat, h
      <4> QED BY <3>1
    <3>3. FlattenSeq(seqs) = F[N]
      BY <2>2 DEF FlattenSeq
    <3> HIDE DEF F
    <3> DEFINE A == {k \in 0 .. N : k # 0 => F[k] = f[k]}
    <3>4. \A k \in 1 .. N : F[k] = IF k = 1 THEN seqs[k] ELSE F[k - 1] \o seqs[k]
      BY <3>2
    <3>5. \A k \in 1 .. N : f[k] = IF k = 1 THEN seqs[k] ELSE f[k - 1] \o seqs[k]
      <4>1. \A n \in 1 .. N : h[n] = IF n = 1 THEN seqs[n] ELSE h[n - 1] \o seqs[n]
        <5> HIDE DEF h
        <5> QED BY <3>1
      <4>2. \A n \in 1 .. N : h[n] = f[n] /\ (n # 1 => n - 1 \in 1 .. N)
        BY <1>1
      <4>3. \A n \in 1 .. N : n # 1 => h[n - 1] = f[n - 1]
        BY <4>2
      <4> HIDE DEF h
      <4> QED BY <4>1, <4>2, <4>3
    <3>6. 0 \in A
      BY <1>1
    <3>7. ASSUME NEW k \in 0 .. N, k \in A, k < N PROVE k + 1 \in A
      <4>1. k + 1 \in 1 .. N /\ k + 1 \in 0 .. N /\ (k + 1) - 1 = k /\ (k + 1 # 1 => k # 0)
        BY <1>1, <3>7
      <4> HIDE DEF N
      <4> QED BY <3>4, <3>5, <3>7, <4>1
    <3>8. N \in A
      <4>1. N \in 0 .. N
        BY <1>1
      <4>2. \A k \in 0 .. N : k \in A /\ k < N => k + 1 \in A
        BY <3>7
      <4> HIDE DEF A, N
      <4> QED BY <1>1, <3>6, <4>1, <4>2, UpTo
    <3> QED BY <2>2, <3>3, <3>8
  <2> QED BY <2>1, <2>2
<1> QED BY <1>6, <1>7

LEMMA StandsApart ==
  ASSUME NEW text \in Chars, NEW x \in Chars, NEW y \in Chars, NEW i \in Int, Stands(x \o y, text, i)
  PROVE  Stands(x, text, i) /\ Stands(y, text, i + Len(x))
<1> DEFINE z == x \o y
<1>1. /\ Len(x) \in Nat /\ Len(y) \in Nat /\ Len(z) = Len(x) + Len(y) /\ Len(text) \in Nat
      /\ \A n \in 1 .. Len(x) + Len(y) : z[n] = IF n <= Len(x) THEN x[n] ELSE y[n - Len(x)]
  BY ConcatProperties DEF Chars
<1> HIDE DEF z
<1>2. /\ i \in 1 .. Len(text) + 1 /\ i + Len(z) <= Len(text) + 1
      /\ \A k \in 1 .. Len(z) : text[i + k - 1] = z[k]
  BY DEF Stands, z
<1>3. ASSUME NEW k \in 1 .. Len(x) PROVE text[i + k - 1] = x[k]
  <2>1. k \in 1 .. Len(z) /\ k \in 1 .. Len(x) + Len(y) /\ k <= Len(x)
    BY <1>1
  <2> QED BY <1>1, <1>2, <2>1
<1>4. ASSUME NEW k \in 1 .. Len(y) PROVE text[(i + Len(x)) + k - 1] = y[k]
  <2> DEFINE n == Len(x) + k
  <2>1. /\ n \in 1 .. Len(z) /\ n \in 1 .. Len(x) + Len(y) /\ ~(n <= Len(x)) /\ n - Len(x) = k
        /\ (i + Len(x)) + k - 1 = i + n - 1
    BY <1>1
  <2> HIDE DEF n
  <2> QED BY <1>1, <1>2, <2>1
<1>5. /\ i + Len(x) \in 1 .. Len(text) + 1 /\ i + Len(x) <= Len(text) + 1
      /\ (i + Len(x)) + Len(y) <= Len(text) + 1
  BY <1>1, <1>2
<1> QED BY <1>2, <1>3, <1>4, <1>5 DEF Stands

\* Where the pieces of a text stand.
Stand(prefix, seqs, text, i) ==
  \A k \in 0 .. Len(seqs) : k < Len(seqs) =>
    /\ Stands(seqs[k + 1], text, i + Len(prefix[k])) /\ seqs[k + 1] \in Chars
    /\ prefix[k] \in Chars /\ Len(prefix[k + 1]) = Len(prefix[k]) + Len(seqs[k + 1])

LEMMA PiecesStand ==
  ASSUME NEW text \in Chars, NEW seqs \in Seq(Chars), NEW prefix, Joins(prefix, seqs),
         NEW i \in Int, Stands(prefix[Len(seqs)], text, i)
  PROVE  Stand(prefix, seqs, text, i)
<1> DEFINE N == Len(seqs)
           B == {k \in 0 .. N : Stands(prefix[N - k], text, i)}
<1>1. N \in Nat /\ \A k \in 1 .. N : seqs[k] \in Chars
  OBVIOUS
<1>2. \A k \in 0 .. N : prefix[k] \in Chars /\ (k < N => prefix[k + 1] = prefix[k] \o seqs[k + 1])
  BY DEF Joins
<1>3. ASSUME NEW k \in 0 .. N, k < N
      PROVE  /\ seqs[k + 1] \in Chars /\ prefix[k] \in Chars
             /\ Len(prefix[k + 1]) = Len(prefix[k]) + Len(seqs[k + 1])
             /\ Stands(prefix[k + 1], text, i) =>
                  Stands(prefix[k], text, i) /\ Stands(seqs[k + 1], text, i + Len(prefix[k]))
  <2> DEFINE x == prefix[k]
             y == seqs[k + 1]
  <2>1. k + 1 \in 1 .. N
    BY <1>1, <1>3
  <2>2. x \in Chars /\ y \in Chars /\ prefix[k + 1] = x \o y
    BY <1>1, <1>2, <1>3, <2>1
  <2> HIDE DEF x, y
  <2>3. Len(x \o y) = Len(x) + Len(y)
    BY <2>2, Joined
  <2>4. Stands(x \o y, text, i) => Stands(x, text, i) /\ Stands(y, text, i + Len(x))
    BY <2>2, StandsApart
  <2>5. x \in Chars /\ y \in Chars /\ Len(prefix[k + 1]) = Len(x) + Len(y)
        /\ (Stands(prefix[k + 1], text, i) => Stands(x, text, i) /\ Stands(y, text, i + Len(x)))
    BY <2>2, <2>3, <2>4
  <2> QED BY <2>5 DEF x, y
<1>4. 0 \in B
  <2>1. N - 0 = N /\ 0 \in 0 .. N
    BY <1>1
  <2> QED BY <2>1
<1>5. ASSUME NEW k \in 0 .. N, k \in B, k < N PROVE k + 1 \in B
  <2> DEFINE m == N - (k + 1)
  <2>1. m \in 0 .. N /\ m < N /\ m + 1 = N - k /\ k + 1 \in 0 .. N
    BY <1>1, <1>5
  <2> HIDE DEF m, N
  <2>2. Stands(prefix[m + 1], text, i)
    BY <1>5, <2>1
  <2>3. Stands(prefix[m], text, i)
    BY <1>3, <2>1, <2>2
  <2> QED BY <2>1, <2>3 DEF m
<1>6. \A k \in 0 .. N : k \in B
  <2>1. \A k \in 0 .. N : k \in B /\ k < N => k + 1 \in B
    BY <1>5
  <2> HIDE DEF B, N
  <2> QED BY <1>1, <1>4, <2>1, UpTo
<1>7. ASSUME NEW k \in 0 .. N, k < N PROVE Stands(prefix[k + 1], text, i)
  <2> DEFINE m == N - (k + 1)
  <2>1. m \in 0 .. N /\ N - m = k + 1
    BY <1>1, <1>7
  <2> HIDE DEF m, N
  <2> QED BY <1>6, <2>1
<1> QED BY <1>3, <1>7 DEF Stand

----------------------------------------------------------------------------
\* Statements and files.
Texts(s) == [k \in DOMAIN s |-> s[k].written]
Keeps(s) == [k \in DOMAIN s |-> s[k].kept]
WrittenText(s) == FlattenSeq(Texts(s)) \o <<";">>
KeptText(s) == FlattenSeq(Keeps(s))

LEMMA Semicolon == <<";">> \in Chars /\ Len(<<";">>) = 1 /\ <<";">>[1] = ";"
<1>1. ";" \in Character
  BY DEF Character
<1>2. Len(<<";">>) = 1 /\ <<";">>[1] = ";"
  OBVIOUS
<1> QED BY <1>1, <1>2, Joined

LEMMA TextsAre ==
  ASSUME NEW s \in Seq(Piece)
  PROVE  /\ Texts(s) \in Seq(Chars) /\ Keeps(s) \in Seq(Chars)
         /\ Len(Texts(s)) = Len(s) /\ Len(Keeps(s)) = Len(s) /\ Len(s) \in Nat
         /\ \A k \in 1 .. Len(s) : s[k] \in Piece /\ Texts(s)[k] = s[k].written /\ Keeps(s)[k] = s[k].kept
<1>1. Len(s) \in Nat /\ \A k \in 1 .. Len(s) : s[k] \in Piece
  OBVIOUS
<1>2. \A p \in Piece : p.written \in Chars /\ p.kept \in Chars
  BY DEF Piece
<1>3. \A k \in 1 .. Len(s) : s[k].written \in Chars /\ s[k].kept \in Chars
  BY <1>1, <1>2
<1>4. DOMAIN s = 1 .. Len(s)
  OBVIOUS
<1>5. Texts(s) = [k \in 1 .. Len(s) |-> s[k].written] /\ Keeps(s) = [k \in 1 .. Len(s) |-> s[k].kept]
  BY <1>4 DEF Texts, Keeps
<1> DEFINE written == [k \in 1 .. Len(s) |-> s[k].written]
           kept == [k \in 1 .. Len(s) |-> s[k].kept]
<1>6. written \in Seq(Chars) /\ Len(written) = Len(s)
  BY <1>1, <1>3
<1>7. kept \in Seq(Chars) /\ Len(kept) = Len(s)
  BY <1>1, <1>3
<1> QED BY <1>1, <1>5, <1>6, <1>7

LEMMA StatementTaken ==
  ASSUME NEW text \in Chars, NEW run, Runs(run, text),
         NEW s \in Seq(Piece), NEW i \in Int, Stands(WrittenText(s), text, i),
         NEW out, Comes(run, text, i, "code", <<>>, out)
  PROVE  Comes(run, text, i + Len(WrittenText(s)), "code", <<>>, out \o Flushed(KeptText(s)))
<1> DEFINE N == Len(s)
<1>1. /\ Texts(s) \in Seq(Chars) /\ Keeps(s) \in Seq(Chars)
      /\ Len(Texts(s)) = N /\ Len(Keeps(s)) = N /\ N \in Nat
      /\ \A k \in 1 .. N : s[k] \in Piece /\ Texts(s)[k] = s[k].written /\ Keeps(s)[k] = s[k].kept
  BY TextsAre
<1>2. PICK W : Joins(W, Texts(s)) /\ FlattenSeq(Texts(s)) = W[N]
  BY <1>1, Flat
<1>3. PICK K : Joins(K, Keeps(s)) /\ FlattenSeq(Keeps(s)) = K[N]
  BY <1>1, Flat
<1>4. N \in 0 .. N /\ 0 \in 0 .. N
  BY <1>1
<1>5. W[N] \in Chars /\ K[N] \in Chars
  BY <1>1, <1>2, <1>3, <1>4 DEF Joins
<1>6. WrittenText(s) = W[N] \o <<";">> /\ KeptText(s) = K[N]
  BY <1>2, <1>3 DEF WrittenText, KeptText
<1>7. Stands(W[N], text, i) /\ Stands(<<";">>, text, i + Len(W[N])) /\ Len(WrittenText(s)) = Len(W[N]) + 1
  <2> DEFINE x == W[N]
             y == <<";">>
  <2>1. x \in Chars /\ y \in Chars /\ Len(y) = 1 /\ WrittenText(s) = x \o y
    BY <1>5, <1>6, Semicolon
  <2> HIDE DEF x, y
  <2>2. Len(x \o y) = Len(x) + Len(y)
    BY <2>1, Joined
  <2>3. Stands(x, text, i) /\ Stands(y, text, i + Len(x))
    BY <2>1, StandsApart
  <2>4. Stands(x, text, i) /\ Stands(y, text, i + Len(x)) /\ Len(WrittenText(s)) = Len(x) + 1
    BY <2>1, <2>2, <2>3
  <2> QED BY <2>4 DEF x, y
<1> DEFINE comes(k) == Comes(run, text, i + Len(W[k]), "code", K[k], out)
           B == {k \in 0 .. N : comes(k)}
<1>8. 0 \in B
  <2>1. W[0] = <<>> /\ K[0] = <<>>
    BY <1>2, <1>3 DEF Joins
  <2>2. Len(<<>>) = 0 /\ i + 0 = i
    OBVIOUS
  <2>3. i + Len(W[0]) = i
    BY <2>1, <2>2
  <2>4. comes(0)
    BY <2>1, <2>3
  <2> HIDE DEF comes
  <2> QED BY <1>4, <2>4
<1>9. ASSUME NEW k \in 0 .. N, k \in B, k < N PROVE k + 1 \in B
  <2> DEFINE p == s[k + 1]
             j == i + Len(W[k])
             c == K[k]
  <2>1. k + 1 \in 1 .. N /\ k + 1 \in 0 .. N
    BY <1>1, <1>9
  <2>2. p \in Piece /\ Texts(s)[k + 1] = p.written /\ Keeps(s)[k + 1] = p.kept
    BY <1>1, <2>1
  <2>3. /\ Stands(Texts(s)[k + 1], text, i + Len(W[k])) /\ W[k] \in Chars /\ Texts(s)[k + 1] \in Chars
        /\ Len(W[k + 1]) = Len(W[k]) + Len(Texts(s)[k + 1])
    <3> DEFINE S == Texts(s)
    <3>1. S \in Seq(Chars) /\ Len(S) = N /\ Joins(W, S)
      BY <1>1, <1>2
    <3>2. Stands(W[Len(S)], text, i)
      BY <1>7, <3>1
    <3> HIDE DEF S
    <3>3. Stand(W, S, text, i)
      BY <3>1, <3>2, PiecesStand
    <3> HIDE DEF N
    <3>4. /\ Stands(S[k + 1], text, i + Len(W[k])) /\ S[k + 1] \in Chars
          /\ W[k] \in Chars /\ Len(W[k + 1]) = Len(W[k]) + Len(S[k + 1])
      BY ONLY <1>9, <3>1, <3>3, k \in 0 .. N DEF Stand
    <3> QED BY <3>4 DEF S
  <2>4. c \in Chars /\ K[k + 1] = c \o p.kept
    BY <1>1, <1>3, <1>9, <2>2 DEF Joins
  <2>5. Len(W[k]) \in Nat /\ Len(p.written) \in Nat
    BY <2>2, <2>3, TextIs
  <2>6. j \in Int /\ j + Len(p.written) = i + (Len(W[k]) + Len(p.written))
    <3> DEFINE a == Len(W[k])
               b == Len(p.written)
    <3>1. a \in Nat /\ b \in Nat
      BY <2>5
    <3> HIDE DEF a, b
    <3>2. i + a \in Int /\ (i + a) + b = i + (a + b)
      BY <3>1
    <3> QED BY <3>2 DEF a, b
  <2>7. Comes(run, text, j, "code", c, out) /\ Stands(p.written, text, j)
    BY <1>9, <2>2, <2>3
  <2> HIDE DEF p, j, c
  <2>8. Comes(run, text, j + Len(p.written), "code", c \o p.kept, out)
    BY <2>2, <2>4, <2>6, <2>7, PieceTaken
  <2>9. i + Len(W[k + 1]) = j + Len(p.written)
    BY <2>2, <2>3, <2>6
  <2>10. comes(k + 1)
    BY <2>4, <2>8, <2>9
  <2> HIDE DEF comes
  <2> QED BY <2>1, <2>10
<1>10. comes(N)
  <2>1. \A k \in 0 .. N : k \in B /\ k < N => k + 1 \in B
    BY <1>9
  <2>2. N \in B
    <3> HIDE DEF B, N
    <3> QED BY <1>1, <1>4, <1>8, <2>1, UpTo
  <2> HIDE DEF comes
  <2> QED BY <2>2
<1>11. Comes(run, text, (i + Len(W[N])) + 1, "code", <<>>, out \o Flushed(K[N]))
  <2> DEFINE j == i + Len(W[N])
             c == K[N]
  <2>1. Len(W[N]) \in Nat
    BY <1>5, TextIs
  <2>2. j \in Int /\ j + 0 = j /\ 0 + 1 = 1
    BY <2>1
  <2>3. c \in Chars /\ Comes(run, text, j, "code", c, out) /\ Stands(<<";">>, text, j)
    BY <1>5, <1>7, <1>10
  <2> HIDE DEF j, c
  <2> DEFINE y == <<";">>
  <2>4. y \in Chars /\ Len(y) = 1 /\ y[1] = ";" /\ Stands(y, text, j)
    BY <2>3, Semicolon
  <2>5. Len(y) = 1 => 0 \in 0 .. Len(y) /\ 0 < Len(y)
    OBVIOUS
  <2> HIDE DEF y
  <2>6. j + 0 \in 1 .. Len(text) /\ text[j + 0] = y[0 + 1]
    BY <2>2, <2>4, <2>5, StandsIs
  <2>7. j \in 1 .. Len(text) /\ text[j] = ";"
    BY <2>2, <2>4, <2>6
  <2>8. Comes(run, text, j + 1, "code", <<>>, out \o Flushed(c))
    BY <2>3, <2>7, Ends
  <2> QED BY <2>8 DEF j, c
<1>12. (i + Len(W[N])) + 1 = i + Len(WrittenText(s))
  <2>1. Len(W[N]) \in Nat
    BY <1>5, TextIs
  <2> DEFINE a == Len(W[N])
             b == Len(WrittenText(s))
  <2>2. a \in Nat /\ b = a + 1
    BY <1>7, <2>1
  <2> HIDE DEF a, b
  <2>3. (i + a) + 1 = i + b
    BY <2>2
  <2> QED BY <2>3 DEF a, b
<1> QED BY <1>6, <1>11, <1>12

\* Behind its last character the loop ends.
LEMMA Settles ==
  ASSUME NEW text \in Chars, NEW run, Runs(run, text),
         NEW out, Comes(run, text, Len(text) + 1, "code", <<>>, out)
  PROVE  run[Len(text)] = State(Len(text) + 1, "code", <<>>, out)
<1> DEFINE N == Len(text)
           end == State(N + 1, "code", <<>>, out)
<1>1. N \in Nat
  BY TextIs
<1>2. PICK n \in 0 .. N : run[n] = end
  BY DEF Comes
<1> DEFINE B == {k \in 0 .. N : n <= k => run[k] = end}
<1>3. 0 \in B
  <2>1. 0 \in 0 .. N /\ (n <= 0 => n = 0)
    BY <1>1
  <2> HIDE DEF N, end
  <2> QED BY <1>2, <2>1
<1>4. Turn(text, end) = end
  <2>1. end.i = N + 1 /\ N + 1 > N
    BY <1>1 DEF State
  <2> HIDE DEF end
  <2> QED BY <2>1 DEF Turn
<1>5. ASSUME NEW k \in 0 .. N, k \in B, k < N PROVE k + 1 \in B
  <2>1. run[k + 1] = Turn(text, run[k])
    BY <1>5 DEF Runs
  <2>2. k + 1 \in 0 .. N /\ (n <= k + 1 => n = k + 1 \/ n <= k)
    BY <1>1, <1>5
  <2> HIDE DEF N, end
  <2> QED BY <1>2, <1>4, <1>5, <2>1, <2>2
<1>6. N \in B
  <2>1. \A k \in 0 .. N : k \in B /\ k < N => k + 1 \in B
    BY <1>5
  <2>2. N \in 0 .. N
    BY <1>1
  <2> HIDE DEF B, N
  <2> QED BY <1>1, <1>3, <2>1, <2>2, UpTo
<1>7. n <= N
  BY <1>1
<1> HIDE DEF end
<1> QED BY <1>6, <1>7 DEF end

\* The statements expected of a file, from each on.
Expects(expected, file) ==
  /\ expected[Len(file) + 1] = <<>>
  /\ \A k \in 1 .. Len(file) : expected[k] = Flushed(KeptText(file[k])) \o expected[k + 1]

LEMMA ExpectedIs ==
  ASSUME NEW file \in Seq(Seq(Piece)), NEW M \in Nat, M = Len(file) + 1
  PROVE  \E f : f = [i \in 1 .. M |->
                       IF i > Len(file) THEN <<>> ELSE Flushed(KeptText(file[i])) \o f[i + 1]]
<1> DEFINE N == Len(file)
           portion(k) == Flushed(KeptText(file[k]))
           B == {k \in 0 .. N : \E f : f[M] = <<>> /\ \A n \in 1 .. N : n > N - k => f[n] = portion(n) \o f[n + 1]}
<1>1. N \in Nat /\ M = N + 1
  OBVIOUS
<1>2. 0 \in B
  <2> DEFINE f == [n \in 1 .. M |-> <<>>]
  <2>1. M \in 1 .. M /\ 0 \in 0 .. N /\ \A n \in 1 .. N : ~(n > N - 0)
    BY <1>1
  <2>2. f[M] = <<>>
    BY <2>1
  <2> HIDE DEF f, N, portion
  <2> QED BY <2>1, <2>2
<1>3. ASSUME NEW k \in 0 .. N, k \in B, k < N PROVE k + 1 \in B
  <2>1. PICK f : f[M] = <<>> /\ \A n \in 1 .. N : n > N - k => f[n] = portion(n) \o f[n + 1]
    BY <1>3
  <2> DEFINE m == N - k
             g == [n \in 1 .. M |-> IF n = m THEN portion(m) \o f[m + 1] ELSE f[n]]
  <2>2. /\ m \in 1 .. N /\ M \in 1 .. M /\ M # m /\ m + 1 \in 1 .. M /\ m + 1 # m /\ m \in 1 .. M
        /\ \A n \in 1 .. N : n > N - (k + 1) => n = m \/ n > m
        /\ \A n \in 1 .. N : n > m => n \in 1 .. M /\ n + 1 \in 1 .. M /\ n # m /\ n + 1 # m
        /\ k + 1 \in 0 .. N
    BY <1>1, <1>3
  <2> HIDE DEF m, N, portion
  <2>3. g[M] = <<>> /\ g[m] = portion(m) \o g[m + 1]
    BY <2>1, <2>2
  <2>4. ASSUME NEW n \in 1 .. N, n > m PROVE g[n] = portion(n) \o g[n + 1]
    BY <2>1, <2>2, <2>4 DEF m
  <2> HIDE DEF g
  <2>5. \A n \in 1 .. N : n > N - (k + 1) => g[n] = portion(n) \o g[n + 1]
    BY <2>2, <2>3, <2>4
  <2> QED BY <2>2, <2>3, <2>5
<1>4. N \in B
  <2>1. \A k \in 0 .. N : k \in B /\ k < N => k + 1 \in B
    BY <1>3
  <2>2. N \in 0 .. N
    BY <1>1
  <2> HIDE DEF B, N
  <2> QED BY <1>1, <1>2, <2>1, <2>2, UpTo
<1>5. PICK f : f[M] = <<>> /\ \A n \in 1 .. N : n > N - N => f[n] = portion(n) \o f[n + 1]
  BY <1>4
<1> DEFINE h == [n \in 1 .. M |-> f[n]]
<1>6. \A n \in 1 .. M : f[n] = IF n > N THEN <<>> ELSE portion(n) \o h[n + 1]
  <2>1. ASSUME NEW n \in 1 .. M PROVE f[n] = IF n > N THEN <<>> ELSE portion(n) \o h[n + 1]
    <3>1. \/ n > N /\ n = M
          \/ ~(n > N) /\ n \in 1 .. N /\ n > N - N /\ n + 1 \in 1 .. M
      BY <1>1
    <3> HIDE DEF N, portion
    <3> QED BY <1>5, <3>1
  <2> QED BY <2>1
<1>7. h = [n \in 1 .. M |-> IF n > N THEN <<>> ELSE portion(n) \o h[n + 1]]
  <2> HIDE DEF N, portion
  <2> QED BY <1>6
<1> QED BY <1>7

\* A file of any statements of any pieces is cut at the semicolons between them, and
\* only there.
THEOREM AnyFileIsCutWell ==
  ASSUME NEW file \in Seq(Seq(Piece))
  PROVE  CutsOnlyBetween(file)
<1> DEFINE N == Len(file)
           seqs == [k \in DOMAIN file |-> WrittenText(file[k])]
           text == FlattenSeq(seqs)
           S == {Trim(KeptText(file[k])) : k \in 1 .. N}
           expected == CHOOSE f : f = [i \in 1 .. N + 1 |->
                         IF i > N THEN <<>> ELSE Flushed(KeptText(file[i])) \o f[i + 1]]
<1>1. N \in Nat /\ \A k \in 1 .. N : file[k] \in Seq(Piece)
  OBVIOUS
<1>2. \A k \in 1 .. N : WrittenText(file[k]) \in Chars
  <2>1. ASSUME NEW s \in Seq(Piece) PROVE WrittenText(s) \in Chars
    <3>1. Texts(s) \in Seq(Chars)
      BY TextsAre
    <3>2. PICK W : Joins(W, Texts(s)) /\ FlattenSeq(Texts(s)) = W[Len(Texts(s))]
      BY <3>1, Flat
    <3>3. Len(Texts(s)) \in 0 .. Len(Texts(s))
      BY <3>1
    <3>4. FlattenSeq(Texts(s)) \in Chars
      BY <3>2, <3>3 DEF Joins
    <3> DEFINE x == FlattenSeq(Texts(s))
               y == <<";">>
    <3>5. x \in Chars /\ y \in Chars
      BY <3>4, Semicolon
    <3> HIDE DEF x, y
    <3>6. x \o y \in Chars
      BY <3>5, Joined
    <3> QED BY <3>6 DEF x, y, WrittenText
  <2> QED BY <1>1, <2>1
<1>3. seqs \in Seq(Chars) /\ Len(seqs) = N /\ \A k \in 1 .. N : seqs[k] = WrittenText(file[k])
  <2>1. DOMAIN file = 1 .. N
    OBVIOUS
  <2> DEFINE texts == [k \in 1 .. N |-> WrittenText(file[k])]
  <2>2. seqs = texts
    BY <2>1
  <2>3. texts \in Seq(Chars) /\ Len(texts) = N /\ \A k \in 1 .. N : texts[k] = WrittenText(file[k])
    BY <1>1, <1>2
  <2> QED BY <2>2, <2>3
<1>4. PICK W : Joins(W, seqs) /\ text = W[N]
  <2> HIDE DEF seqs
  <2> QED BY <1>3, Flat
<1>5. N \in 0 .. N /\ 0 \in 0 .. N
  BY <1>1
<1>6. text \in Chars /\ Len(text) \in Nat
  <2> HIDE DEF seqs, text
  <2>1. text \in Chars
    BY <1>3, <1>4, <1>5 DEF Joins
  <2> QED BY <2>1, TextIs
<1>7. Stand(W, seqs, text, 1)
  <2> HIDE DEF seqs, text
  <2>1. Stands(text, text, 1)
    <3>1. 1 \in 1 .. Len(text) + 1 /\ 1 + Len(text) <= Len(text) + 1 /\ \A k \in 1 .. Len(text) : 1 + k - 1 = k
      BY <1>6
    <3> QED BY <3>1 DEF Stands
  <2> QED BY <1>3, <1>4, <1>6, <2>1, PiecesStand
<1>8. PICK run : /\ Runs(run, text)
                 /\ splitStatements(text) = run[Len(text)].out \o Flushed(run[Len(text)].current)
  <2> HIDE DEF text
  <2> QED BY <1>6, RunExists
<1>9. Expects(expected, file)
  <2>1. expected = [i \in 1 .. N + 1 |->
                      IF i > N THEN <<>> ELSE Flushed(KeptText(file[i])) \o expected[i + 1]]
    <3>1. N + 1 \in Nat
      BY <1>1
    <3>2. \E f : f = [i \in 1 .. N + 1 |->
                        IF i > N THEN <<>> ELSE Flushed(KeptText(file[i])) \o f[i + 1]]
      BY <3>1, ExpectedIs
    <3> QED BY <3>2
  <2> HIDE DEF expected
  <2>2. N + 1 \in 1 .. N + 1 /\ N + 1 > N /\ \A k \in 1 .. N : k \in 1 .. N + 1 /\ ~(k > N)
    BY <1>1
  <2> HIDE DEF N
  <2>3. expected[N + 1] = <<>> /\ \A k \in 1 .. N : expected[k] = Flushed(KeptText(file[k])) \o expected[k + 1]
    BY <2>1, <2>2
  <2> QED BY <2>3 DEF Expects, N
<1> HIDE DEF seqs, text, expected
<1>10. \A k \in 1 .. N + 1 : expected[k] \in Seq(S)
  <2> DEFINE B == {k \in 0 .. N : expected[N + 1 - k] \in Seq(S)}
  <2>0. \A k \in 1 .. N : Flushed(KeptText(file[k])) \in Seq(S)
    <3>1. ASSUME NEW k \in 1 .. N PROVE Flushed(KeptText(file[k])) \in Seq(S)
      <4> DEFINE x == Trim(KeptText(file[k]))
      <4>1. x \in S
        OBVIOUS
      <4> HIDE DEF x, S
      <4>2. <<x>> \in Seq(S) /\ <<>> \in Seq(S)
        BY <4>1
      <4> QED BY <4>2 DEF Flushed, x
    <3> QED BY <3>1
  <2>1. 0 \in B
    <3>1. N + 1 - 0 = N + 1
      BY <1>1
    <3> HIDE DEF S
    <3>2. <<>> \in Seq(S)
      OBVIOUS
    <3> QED BY <1>5, <1>9, <3>1, <3>2 DEF Expects
  <2>2. ASSUME NEW k \in 0 .. N, k \in B, k < N PROVE k + 1 \in B
    <3> DEFINE m == N + 1 - (k + 1)
    <3>1. m \in 1 .. N /\ m + 1 = N + 1 - k /\ k + 1 \in 0 .. N
      BY <1>1, <2>2
    <3> HIDE DEF m, S
    <3>2. expected[m] = Flushed(KeptText(file[m])) \o expected[m + 1]
      BY <1>9, <3>1 DEF Expects
    <3>3. Flushed(KeptText(file[m])) \in Seq(S) /\ expected[m + 1] \in Seq(S)
      BY <2>0, <2>2, <3>1
    <3>4. expected[m] \in Seq(S)
      BY <3>2, <3>3, ConcatProperties
    <3> QED BY <3>1, <3>4 DEF m
  <2>3. \A k \in 0 .. N : k \in B
    <3>1. \A k \in 0 .. N : k \in B /\ k < N => k + 1 \in B
      BY <2>2
    <3> HIDE DEF B, N
    <3> QED BY <1>1, <2>1, <3>1, UpTo
  <2>4. ASSUME NEW k \in 1 .. N + 1 PROVE expected[k] \in Seq(S)
    <3> DEFINE m == N + 1 - k
    <3>1. m \in 0 .. N /\ N + 1 - m = k
      BY <1>1
    <3> HIDE DEF m, N, S
    <3> QED BY <2>3, <3>1
  <2> QED BY <2>4
<1> DEFINE comes(k, out) == Comes(run, text, 1 + Len(W[k]), "code", <<>>, out)
           C == {k \in 0 .. N : \E out \in Seq(S) : comes(k, out) /\ out \o expected[k + 1] = expected[1]}
<1>11. 0 \in C
  <2>1. W[0] = <<>> /\ Len(<<>>) = 0 /\ 1 + 0 = 1 /\ 0 + 1 = 1
    BY <1>4 DEF Joins
  <2>2. comes(0, <<>>)
    <3>1. 0 \in 0 .. Len(text) /\ 0 < 1
      BY <1>6
    <3>2. Comes(run, text, 1, "code", <<>>, <<>>)
      BY <1>8, <3>1 DEF Comes, Runs
    <3> QED BY <2>1, <3>2
  <2>3. <<>> \in Seq(S) /\ <<>> \o expected[0 + 1] = expected[1]
    <3>1. 1 \in 1 .. N + 1
      BY <1>1
    <3> HIDE DEF S
    <3>2. expected[1] \in Seq(S)
      BY <1>10, <3>1
    <3>3. <<>> \o expected[1] = expected[1] /\ <<>> \in Seq(S)
      BY <3>2, ConcatEmptySeq
    <3> QED BY <2>1, <3>3
  <2> HIDE DEF comes, S
  <2> QED BY <1>5, <2>2, <2>3
<1>12. ASSUME NEW k \in 0 .. N, k \in C, k < N PROVE k + 1 \in C
  <2>1. PICK out \in Seq(S) : comes(k, out) /\ out \o expected[k + 1] = expected[1]
    BY <1>12
  <2>2. k + 1 \in 1 .. N /\ k + 1 \in 0 .. N /\ k + 1 \in 1 .. N + 1 /\ (k + 1) + 1 \in 1 .. N + 1
    BY <1>1, <1>12
  <2> DEFINE s == file[k + 1]
             x == Flushed(KeptText(s))
             rest == expected[(k + 1) + 1]
             i == 1 + Len(W[k])
  <2>3. s \in Seq(Piece) /\ seqs[k + 1] = WrittenText(s)
    BY <1>1, <1>3, <2>2
  <2>4. /\ Stands(WrittenText(s), text, i) /\ W[k] \in Chars
        /\ Len(W[k + 1]) = Len(W[k]) + Len(WrittenText(s)) /\ WrittenText(s) \in Chars
    BY <1>3, <1>7, <1>12, <2>3 DEF Stand
  <2>5. expected[k + 1] = x \o rest
    BY <1>9, <2>2 DEF Expects
  <2>6. rest \in Seq(S) /\ x \in Seq(S)
    <3> DEFINE t == Trim(KeptText(s))
    <3>1. t \in S
      BY <2>2
    <3>2. rest \in Seq(S)
      BY <1>10, <2>2
    <3> HIDE DEF t, S
    <3>3. <<t>> \in Seq(S) /\ <<>> \in Seq(S)
      BY <3>1
    <3> QED BY <3>2, <3>3 DEF Flushed, t
  <2>7. i \in Int /\ i + Len(WrittenText(s)) = 1 + Len(W[k + 1])
    <3> DEFINE a == Len(W[k])
               b == Len(WrittenText(s))
    <3>1. a \in Nat /\ b \in Nat /\ Len(W[k + 1]) = a + b
      BY <2>4, TextIs
    <3> HIDE DEF a, b
    <3>2. 1 + a \in Int /\ (1 + a) + b = 1 + (a + b)
      BY <3>1
    <3> QED BY <3>1, <3>2 DEF a, b
  <2>8. Comes(run, text, i, "code", <<>>, out)
    BY <2>1
  <2> HIDE DEF i, s
  <2>9. Comes(run, text, i + Len(WrittenText(s)), "code", <<>>, out \o x)
    BY <1>6, <1>8, <2>3, <2>4, <2>7, <2>8, StatementTaken
  <2>10. comes(k + 1, out \o x)
    BY <2>7, <2>9
  <2> HIDE DEF x, rest, S, comes
  <2>11. out \o x \in Seq(S) /\ (out \o x) \o rest = out \o (x \o rest)
    BY <2>1, <2>6, ConcatProperties, ConcatAssociative
  <2>12. (out \o x) \o rest = expected[1]
    BY <2>1, <2>5, <2>11
  <2> QED BY <2>2, <2>10, <2>11, <2>12 DEF rest
<1>13. PICK out \in Seq(S) : comes(N, out) /\ out \o expected[N + 1] = expected[1]
  <2>1. \A k \in 0 .. N : k \in C /\ k < N => k + 1 \in C
    BY <1>12
  <2>2. N \in C
    <3> HIDE DEF C, N
    <3> QED BY <1>1, <1>5, <1>11, <2>1, UpTo
  <2> HIDE DEF comes, S
  <2> QED BY <2>2
<1>14. out = expected[1]
  <2> HIDE DEF S
  <2>1. out \o <<>> = out
    BY <1>13, ConcatEmptySeq
  <2> QED BY <1>9, <1>13, <2>1 DEF Expects
<1>15. splitStatements(text) = out
  <2>1. Comes(run, text, Len(text) + 1, "code", <<>>, out)
    <3>1. 1 + Len(text) = Len(text) + 1
      BY <1>6
    <3> QED BY <1>4, <1>13, <3>1
  <2>2. run[Len(text)] = State(Len(text) + 1, "code", <<>>, out)
    BY <1>6, <1>8, <2>1, Settles
  <2>3. run[Len(text)].out = out /\ run[Len(text)].current = <<>>
    BY <2>2 DEF State
  <2>4. Flushed(<<>>) = <<>>
    <3>1. DOMAIN <<>> = {}
      OBVIOUS
    <3> QED BY <3>1 DEF Flushed, Trim
  <2> HIDE DEF S
  <2>5. out \o <<>> = out
    BY <1>13, ConcatEmptySeq
  <2> QED BY <1>8, <2>3, <2>4, <2>5
<1>16. /\ text = FlattenSeq([i \in DOMAIN file |-> FlattenSeq([k \in DOMAIN file[i] |-> file[i][k].written]) \o <<";">>])
       /\ expected = CHOOSE f : f = [i \in 1 .. Len(file) + 1 |-> IF i > Len(file) THEN <<>>
              ELSE Flushed(FlattenSeq([k \in DOMAIN file[i] |-> file[i][k].kept])) \o f[i + 1]]
  BY DEF text, seqs, expected, WrittenText, KeptText, Texts, Keeps
<1> QED BY <1>14, <1>15, <1>16 DEF CutsOnlyBetween

\* A migration file is cut at the ends of its statements (statements.go:5-12), whatever
\* its pieces are.
THEOREM FilesAreCut == CallTypes => FilesAreCutWell
BY AnyFileIsCutWell DEF CallTypes, FilesAreCutWell

----------------------------------------------------------------------------
(***************************************************************************)
(* Grouping.  Only, the operator that keeps some elements of a sequence,   *)
(* keeps those of the same positions of sequences that are as long.        *)
(***************************************************************************)
\* kept[n] is what is kept of the first n elements.
Collects(kept, s, P) ==
  /\ kept[0] = <<>>
  /\ \A n \in 0 .. Len(s) : n # 0 =>
       kept[n] = IF n \in P THEN Append(kept[n - 1], s[n]) ELSE kept[n - 1]

LEMMA OnlyKeeps ==
  ASSUME NEW S, NEW s \in Seq(S), NEW P
  PROVE  \E kept : Collects(kept, s, P) /\ Only(s, P) = kept[Len(s)]
<1> DEFINE N == Len(s)
           next(f, n) == IF n = 0 THEN <<>> ELSE IF n \in P THEN Append(f[n - 1], s[n]) ELSE f[n - 1]
           step(f) == [n \in 0 .. Len(s) |->
                         IF n = 0 THEN <<>>
                         ELSE IF n \in P THEN Append(f[n - 1], s[n]) ELSE f[n - 1]]
           F == CHOOSE f : f = step(f)
           B == {k \in 0 .. N : \E f : \A n \in 0 .. k : f[n] = next(f, n)}
<1>1. N \in Nat
  OBVIOUS
<1>2. 0 \in B
  <2> DEFINE f == [n \in 0 .. 0 |-> <<>>]
  <2>1. \A n \in 0 .. 0 : f[n] = next(f, n)
    OBVIOUS
  <2>2. 0 \in 0 .. N
    BY <1>1
  <2> HIDE DEF f, next, N
  <2> QED BY <2>1, <2>2
<1>3. ASSUME NEW k \in 0 .. N, k \in B, k < N PROVE k + 1 \in B
  <2>1. PICK f : \A n \in 0 .. k : f[n] = next(f, n)
    BY <1>3
  <2> DEFINE g == [n \in 0 .. k + 1 |-> IF n = k + 1 THEN next(f, k + 1) ELSE f[n]]
  <2>2. /\ \A n \in 0 .. k : g[n] = f[n]
        /\ g[k + 1] = next(f, k + 1) /\ k + 1 \in 0 .. N
    <3> HIDE DEF next, N
    <3> QED BY <1>1, <1>3
  <2> HIDE DEF g
  <2>3. ASSUME NEW n \in 0 .. k + 1 PROVE g[n] = next(g, n)
    <3>1. n # 0 => n - 1 \in 0 .. k /\ g[n - 1] = f[n - 1]
      BY <2>2
    <3>2. next(g, n) = next(f, n)
      BY <3>1
    <3>3. n \in 0 .. k \/ n = k + 1
      OBVIOUS
    <3> HIDE DEF next
    <3> QED BY <2>1, <2>2, <3>2, <3>3
  <2> HIDE DEF next, N
  <2> QED BY <2>2, <2>3
<1>4. N \in B
  <2>1. \A k \in 0 .. N : k \in B /\ k < N => k + 1 \in B
    BY <1>3
  <2>2. N \in 0 .. N
    BY <1>1
  <2> HIDE DEF B, N
  <2> QED BY <1>1, <1>2, <2>1, <2>2, UpTo
<1>5. PICK f : \A n \in 0 .. N : f[n] = next(f, n)
  BY <1>4
<1>6. F = step(F)
  <2> DEFINE g == [n \in 0 .. Len(s) |-> f[n]]
  <2>1. ASSUME NEW n \in 0 .. Len(s) PROVE g[n] = next(g, n)
    <3>1. n # 0 => n - 1 \in 0 .. Len(s) /\ g[n - 1] = f[n - 1]
      BY <1>1
    <3>2. next(g, n) = next(f, n)
      BY <3>1
    <3> HIDE DEF next
    <3> QED BY <1>5, <3>2
  <2>2. g = step(g)
    BY <2>1
  <2> HIDE DEF step, g
  <2> QED BY <2>2
<1>7. Only(s, P) = F[Len(s)]
  BY DEF Only
<1> HIDE DEF F
<1>8. Collects(F, s, P)
  <2>1. \A n \in 0 .. Len(s) : F[n] = next(F, n)
    BY <1>6
  <2>2. 0 \in 0 .. Len(s)
    BY <1>1
  <2> QED BY <2>1, <2>2 DEF Collects
<1> QED BY <1>7, <1>8

\* What is kept of two sequences that are as long stems from the same positions.
LEMMA OnlyAlike ==
  ASSUME NEW S, NEW s \in Seq(S), NEW T, NEW t \in Seq(T), Len(s) = Len(t), NEW P
  PROVE  /\ Only(s, P) \in Seq(S) /\ Only(t, P) \in Seq(T) /\ Len(Only(s, P)) = Len(Only(t, P))
         /\ \A i \in 1 .. Len(Only(s, P)) : \E k \in 1 .. Len(s) :
              k \in P /\ Only(s, P)[i] = s[k] /\ Only(t, P)[i] = t[k]
<1> DEFINE N == Len(s)
           Alike(a, b) ==
             /\ a \in Seq(S) /\ b \in Seq(T) /\ Len(a) = Len(b)
             /\ \A i \in 1 .. Len(a) : \E k \in 1 .. N : k \in P /\ a[i] = s[k] /\ b[i] = t[k]
<1>1. PICK a : Collects(a, s, P) /\ Only(s, P) = a[N]
  BY OnlyKeeps
<1>2. PICK b : Collects(b, t, P) /\ Only(t, P) = b[N]
  BY OnlyKeeps
<1> DEFINE B == {k \in 0 .. N : Alike(a[k], b[k])}
<1>3. N \in Nat /\ \A k \in 1 .. N : s[k] \in S /\ t[k] \in T
  OBVIOUS
<1>4. 0 \in B
  <2>1. a[0] = <<>> /\ b[0] = <<>>
    BY <1>1, <1>2 DEF Collects
  <2>2. Alike(<<>>, <<>>)
    OBVIOUS
  <2> HIDE DEF Alike
  <2> QED BY <1>3, <2>1, <2>2
<1>5. ASSUME NEW k \in 0 .. N, k \in B, k < N PROVE k + 1 \in B
  <2>1. k + 1 \in 1 .. N /\ k + 1 \in 0 .. N /\ k + 1 # 0 /\ (k + 1) - 1 = k
    BY <1>3, <1>5
  <2>2. /\ a[k + 1] = IF k + 1 \in P THEN Append(a[k], s[k + 1]) ELSE a[k]
        /\ b[k + 1] = IF k + 1 \in P THEN Append(b[k], t[k + 1]) ELSE b[k]
    <3> HIDE DEF N
    <3>1. Len(s) = N /\ Len(t) = N
      BY DEF N
    <3> QED BY <1>1, <1>2, <2>1, <3>1 DEF Collects
  <2>3. ASSUME k + 1 \in P, NEW x, NEW y, Alike(x, y)
        PROVE  Alike(Append(x, s[k + 1]), Append(y, t[k + 1]))
    <3>1. x \in Seq(S) /\ y \in Seq(T) /\ Len(x) = Len(y) /\ Len(x) \in Nat
      BY <2>3
    <3>2. s[k + 1] \in S /\ t[k + 1] \in T
      BY <1>3, <2>1
    <3>3. /\ Append(x, s[k + 1]) \in Seq(S) /\ Append(y, t[k + 1]) \in Seq(T)
          /\ Len(Append(x, s[k + 1])) = Len(x) + 1 /\ Len(Append(y, t[k + 1])) = Len(x) + 1
          /\ \A i \in 1 .. Len(x) : Append(x, s[k + 1])[i] = x[i] /\ Append(y, t[k + 1])[i] = y[i]
          /\ Append(x, s[k + 1])[Len(x) + 1] = s[k + 1] /\ Append(y, t[k + 1])[Len(x) + 1] = t[k + 1]
      BY <3>1, <3>2, AppendProperties
    <3>4. \A i \in 1 .. Len(x) + 1 : i \in 1 .. Len(x) \/ i = Len(x) + 1
      BY <3>1
    <3> DEFINE c == Append(x, s[k + 1])
               d == Append(y, t[k + 1])
    <3>5. \A i \in 1 .. Len(x) : \E j \in 1 .. N : j \in P /\ x[i] = s[j] /\ y[i] = t[j]
      BY <2>3
    <3> HIDE DEF N, c, d
    <3>6. ASSUME NEW i \in 1 .. Len(x) + 1
          PROVE  \E j \in 1 .. N : j \in P /\ c[i] = s[j] /\ d[i] = t[j]
      BY <2>1, <2>3, <3>3, <3>4, <3>5 DEF c, d
    <3> QED BY <3>3, <3>6 DEF c, d
  <2> HIDE DEF Alike
  <2> QED BY <1>5, <2>1, <2>2, <2>3
<1>6. Alike(a[N], b[N])
  <2>1. \A k \in 0 .. N : k \in B /\ k < N => k + 1 \in B
    BY <1>5
  <2>2. N \in 0 .. N
    BY <1>3
  <2>3. N \in B
    <3> HIDE DEF B, N
    <3> QED BY <1>3, <1>4, <2>1, <2>2, UpTo
  <2> QED BY <2>3
<1> QED BY <1>1, <1>2, <1>6

\* What is put behind the sequence and is not kept changes nothing.
LEMMA OnlyIgnores ==
  ASSUME NEW S, NEW s \in Seq(S), NEW t \in Seq(S), NEW P, NEW Q, Len(s) <= Len(t),
         \A k \in 1 .. Len(s) : t[k] = s[k] /\ (k \in P <=> k \in Q),
         \A k \in Len(s) + 1 .. Len(t) : k \notin Q
  PROVE  Only(t, Q) = Only(s, P)
<1> DEFINE N == Len(t)
           M == Len(s)
<1>1. PICK a : Collects(a, s, P) /\ Only(s, P) = a[M]
  BY OnlyKeeps
<1>2. PICK b : Collects(b, t, Q) /\ Only(t, Q) = b[N]
  BY OnlyKeeps
<1> DEFINE B == {k \in 0 .. N : b[k] = IF k <= M THEN a[k] ELSE a[M]}
<1>3. N \in Nat /\ M \in Nat /\ M <= N
  OBVIOUS
<1>4. 0 \in B
  BY <1>1, <1>2, <1>3 DEF Collects
<1>5. ASSUME NEW k \in 0 .. N, k \in B, k < N PROVE k + 1 \in B
  <2>1. k + 1 \in 0 .. N /\ k + 1 # 0 /\ (k + 1) - 1 = k
    BY <1>3, <1>5
  <2>2. b[k + 1] = IF k + 1 \in Q THEN Append(b[k], t[k + 1]) ELSE b[k]
    <3> HIDE DEF M
    <3> QED BY <1>2, <2>1 DEF Collects
  <2>3. CASE k + 1 <= M
    <3>1. k + 1 \in 0 .. M /\ k + 1 \in 1 .. M /\ k <= M
      BY <1>3, <2>3
    <3>2. a[k + 1] = IF k + 1 \in P THEN Append(a[k], s[k + 1]) ELSE a[k]
      <4> HIDE DEF N
      <4> QED BY <1>1, <2>1, <3>1 DEF Collects
    <3>3. t[k + 1] = s[k + 1] /\ (k + 1 \in P <=> k + 1 \in Q)
      BY <3>1
    <3> HIDE DEF N, M
    <3> QED BY <1>5, <2>1, <2>2, <2>3, <3>1, <3>2, <3>3
  <2>4. CASE k + 1 > M
    <3>1. k + 1 \in M + 1 .. N /\ ~(k + 1 <= M) /\ (k <= M => k = M)
      BY <1>3, <2>1, <2>4
    <3>2. k + 1 \notin Q
      BY <3>1
    <3> HIDE DEF N, M
    <3> QED BY <1>5, <2>1, <2>2, <3>1, <3>2
  <2> QED BY <1>3, <2>1, <2>3, <2>4
<1>6. b[N] = a[M]
  <2>1. \A k \in 0 .. N : k \in B /\ k < N => k + 1 \in B
    BY <1>5
  <2>2. N \in 0 .. N /\ (N <= M => N = M)
    BY <1>3
  <2>3. N \in B
    <3> HIDE DEF B, N
    <3> QED BY <1>3, <1>4, <2>1, <2>2, UpTo
  <2> QED BY <2>2, <2>3
<1> QED BY <1>1, <1>2, <1>6

LEMMA OnlyAll ==
  ASSUME NEW S, NEW s \in Seq(S), NEW P, \A k \in 1 .. Len(s) : k \in P
  PROVE  Only(s, P) = s
<1> DEFINE N == Len(s)
<1>1. PICK a : Collects(a, s, P) /\ Only(s, P) = a[N]
  BY OnlyKeeps
<1> DEFINE B == {k \in 0 .. N : a[k] \in Seq(S) /\ Len(a[k]) = k /\ \A i \in 1 .. k : a[k][i] = s[i]}
<1>2. N \in Nat /\ \A k \in 1 .. N : s[k] \in S
  OBVIOUS
<1>3. 0 \in B
  <2>1. a[0] = <<>> /\ <<>> \in Seq(S) /\ Len(<<>>) = 0 /\ 0 \in 0 .. N
    BY <1>1, <1>2 DEF Collects
  <2>2. \A i \in 1 .. 0 : FALSE
    OBVIOUS
  <2>3. a[0] \in Seq(S) /\ Len(a[0]) = 0
    BY <2>1
  <2> HIDE DEF N
  <2> QED BY <2>1, <2>2, <2>3
<1>4. ASSUME NEW k \in 0 .. N, k \in B, k < N PROVE k + 1 \in B
  <2>1. k + 1 \in 0 .. N /\ k + 1 \in 1 .. N /\ k + 1 # 0 /\ (k + 1) - 1 = k
    BY <1>2, <1>4
  <2>2. a[k + 1] = Append(a[k], s[k + 1])
    BY <1>1, <2>1 DEF Collects
  <2> DEFINE x == a[k]
  <2>3. x \in Seq(S) /\ Len(x) = k /\ \A i \in 1 .. k : x[i] = s[i]
    BY <1>4
  <2>4. s[k + 1] \in S
    BY <1>2, <2>1
  <2> HIDE DEF x, N
  <2>5. /\ Append(x, s[k + 1]) \in Seq(S) /\ Len(Append(x, s[k + 1])) = k + 1
        /\ \A i \in 1 .. k : Append(x, s[k + 1])[i] = x[i]
        /\ Append(x, s[k + 1])[k + 1] = s[k + 1]
    BY <2>3, <2>4, AppendProperties
  <2>6. \A i \in 1 .. k + 1 : i \in 1 .. k \/ i = k + 1
    BY <1>4
  <2>7. a[k + 1] = Append(x, s[k + 1])
    BY <2>2 DEF x
  <2> QED BY <2>1, <2>3, <2>5, <2>6, <2>7
<1>5. N \in B
  <2>1. \A k \in 0 .. N : k \in B /\ k < N => k + 1 \in B
    BY <1>4
  <2>2. N \in 0 .. N
    BY <1>2
  <2> HIDE DEF B, N
  <2> QED BY <1>2, <1>3, <2>1, <2>2, UpTo
<1>6. a[N] \in Seq(S) /\ Len(a[N]) = Len(s) /\ \A i \in 1 .. Len(s) : a[N][i] = s[i]
  BY <1>5
<1> QED BY <1>1, <1>6, SeqEqual

\* Nothing is kept of a sequence only if no position is.
LEMMA OnlyNone ==
  ASSUME NEW S, NEW s \in Seq(S), NEW P
  PROVE  Only(s, P) = <<>> <=> \A k \in 1 .. Len(s) : k \notin P
<1> DEFINE N == Len(s)
<1>1. PICK a : Collects(a, s, P) /\ Only(s, P) = a[N]
  BY OnlyKeeps
<1> DEFINE B == {k \in 0 .. N : a[k] \in Seq(S) /\ (a[k] = <<>> <=> \A i \in 1 .. k : i \notin P)}
<1>2. N \in Nat /\ \A k \in 1 .. N : s[k] \in S
  OBVIOUS
<1>3. 0 \in B
  <2>1. a[0] = <<>> /\ <<>> \in Seq(S) /\ Len(<<>>) = 0 /\ 0 \in 0 .. N
    BY <1>1, <1>2 DEF Collects
  <2>2. \A i \in 1 .. 0 : FALSE
    OBVIOUS
  <2>3. a[0] \in Seq(S) /\ Len(a[0]) = 0
    BY <2>1
  <2> HIDE DEF N
  <2> QED BY <2>1, <2>2, <2>3
<1>4. ASSUME NEW k \in 0 .. N, k \in B, k < N PROVE k + 1 \in B
  <2>1. k + 1 \in 0 .. N /\ k + 1 \in 1 .. N /\ k + 1 # 0 /\ (k + 1) - 1 = k
    BY <1>2, <1>4
  <2> DEFINE x == a[k]
  <2>2. a[k + 1] = IF k + 1 \in P THEN Append(x, s[k + 1]) ELSE x
    BY <1>1, <2>1 DEF Collects
  <2>3. x \in Seq(S) /\ (x = <<>> <=> \A i \in 1 .. k : i \notin P)
    BY <1>4
  <2>4. s[k + 1] \in S
    BY <1>2, <2>1
  <2> HIDE DEF x, N
  <2>5. Append(x, s[k + 1]) \in Seq(S) /\ Append(x, s[k + 1]) # <<>>
    BY <2>3, <2>4, AppendProperties
  <2>6. /\ \A i \in 1 .. k + 1 : i \in 1 .. k \/ i = k + 1
        /\ \A i \in 1 .. k : i \in 1 .. k + 1 
        /\ k + 1 \in 1 .. k + 1
    BY <1>4
  <2> QED BY <2>1, <2>2, <2>3, <2>5, <2>6
<1>5. N \in B
  <2>1. \A k \in 0 .. N : k \in B /\ k < N => k + 1 \in B
    BY <1>4
  <2>2. N \in 0 .. N
    BY <1>2
  <2> HIDE DEF B, N
  <2> QED BY <1>2, <1>3, <2>1, <2>2, UpTo
<1> QED BY <1>1, <1>5

----------------------------------------------------------------------------
\* What symbolication makes of a place of the source that occurs in a frame: where the
\* frame is and what it is called, for the fingerprint.
Hidden(o)   == o.bundled /\ ~o.mapped
Main(o)     == BundleFile("", <<>>, o.build.hash)
Where(place, o) ==
  IF Hidden(o) THEN normalizeFilename(Main(o))
  ELSE IF o.bundled THEN moduleFor(place.source) ELSE normalizeFilename(place.source)
Called(place, o) ==
  IF Hidden(o) \/ (o.bundled /\ place.function = "") THEN o.build.hash ELSE place.function
InApp(place, o) == IF Hidden(o) THEN TRUE ELSE isInApp(place.source)

Artifacts(o)       == IF o.bundled THEN ArtifactsOf(o, Places) ELSE <<>>
FrameAt(place, o)  == symbolicateFrame(FrameIn(place, o), Artifacts(o))
AllPlaces          == Places \cup {LibraryPlace}

LEMMA PlacesAre ==
  /\ \A p \in AllPlaces : p.position \in Nat \ {0} /\ {"base", "suffix", "ext"} \subseteq DOMAIN p.source
  /\ \A p, q \in AllPlaces : p.position = q.position => p = q
<1>1. ASSUME NEW p \in Places
      PROVE  p.position \in Nat \ {0} /\ {"base", "suffix", "ext"} \subseteq DOMAIN p.source
  BY PlacesAssumption DEF SourcePlace, SourceFile
<1>2. LibraryPlace.position = 9 /\ LibraryPlace.source = LibraryFile
  BY DEF LibraryPlace
<1>3. {"base", "suffix", "ext"} \subseteq DOMAIN LibraryFile
  BY DEF LibraryFile
<1>4. 9 \in Nat \ {0}
  OBVIOUS
<1> QED BY <1>1, <1>2, <1>3, <1>4, PlacesAssumption DEF AllPlaces

\* The directories of the bundle and of the patterns.
LEMMA ScoreIs ==
  ASSUME NEW file, NEW pattern,
         <<file.base, file.suffix, file.ext>> = <<pattern.base, pattern.suffix, pattern.ext>>,
         file.dirs = <<"static", "js">>
  PROVE  /\ pattern.dirs = <<"admin", "js">> => matchScore(file, pattern) = 2
         /\ pattern.dirs = <<"dist", "static", "js">> => matchScore(file, pattern) = 3
<1> DEFINE agree(n) == \A i \in 1 .. n :
                    file.dirs[Len(file.dirs) + 1 - i] = pattern.dirs[Len(pattern.dirs) + 1 - i]
           shorter  == IF Len(file.dirs) <= Len(pattern.dirs) THEN Len(file.dirs) ELSE Len(pattern.dirs)
           is(n) == agree(n) /\ (n < shorter => ~agree(n + 1))
<1>1. matchScore(file, pattern) = 1 + CHOOSE n \in 0 .. shorter : is(n)
  BY DEF matchScore
<1>2. Len(file.dirs) = 2 /\ file.dirs[1] = "static" /\ file.dirs[2] = "js"
  OBVIOUS
<1>3. CASE pattern.dirs = <<"admin", "js">>
  <2>1. Len(pattern.dirs) = 2 /\ pattern.dirs[1] = "admin" /\ pattern.dirs[2] = "js"
    BY <1>3
  <2>2. shorter = 2 /\ agree(0) /\ agree(1) /\ ~agree(2)
    BY <1>2, <2>1
  <2>3. is(1) /\ ~is(0) /\ ~is(2) /\ 0 .. shorter = {0, 1, 2}
    <3> HIDE DEF agree, shorter
    <3> QED BY <2>2
  <2> HIDE DEF is, agree, shorter
  <2> DEFINE m == CHOOSE n \in 0 .. shorter : is(n)
  <2>4. m = 1 /\ matchScore(file, pattern) = 1 + m
    BY <1>1, <2>3
  <2> HIDE DEF m
  <2>5. matchScore(file, pattern) = 2
    BY <2>4
  <2> QED BY <1>3, <2>5
<1>4. CASE pattern.dirs = <<"dist", "static", "js">>
  <2>1. Len(pattern.dirs) = 3 /\ pattern.dirs[2] = "static" /\ pattern.dirs[3] = "js"
    BY <1>4
  <2>2. shorter = 2 /\ agree(0) /\ agree(1) /\ agree(2)
    BY <1>2, <2>1
  <2>3. is(2) /\ ~is(0) /\ ~is(1) /\ 0 .. shorter = {0, 1, 2}
    <3> HIDE DEF agree, shorter
    <3> QED BY <2>2
  <2> HIDE DEF is, agree, shorter
  <2> DEFINE m == CHOOSE n \in 0 .. shorter : is(n)
  <2>4. m = 2 /\ matchScore(file, pattern) = 1 + m
    BY <1>1, <2>3
  <2> HIDE DEF m
  <2>5. matchScore(file, pattern) = 3
    BY <2>4
  <2> QED BY <1>4, <2>5
<1> QED BY <1>3, <1>4

LEMMA FrameIs ==
  ASSUME NEW o \in BugOccurrence, NEW place \in AllPlaces
  PROVE  /\ FrameAt(place, o).inApp = InApp(place, o)
         /\ frameComponent(FrameAt(place, o)) = <<"frame", Where(place, o), Called(place, o)>>
<1> DEFINE frame == FrameIn(place, o)
           at    == place.position + o.build.shift
<1>1. /\ o.build.hash \in STRING /\ o.build.hash # "0old" /\ o.build.shift \in Nat
      /\ o.bundled \in BOOLEAN /\ o.mapped \in BOOLEAN
  BY DEF BugOccurrence
<1>2. place.position \in Nat \ {0} /\ {"base", "suffix", "ext"} \subseteq DOMAIN place.source
  BY PlacesAre
<1>3. CASE ~o.bundled
  <2>1. frame = [file |-> [place.source EXCEPT !.host = o.host], module |-> <<>>,
        function |-> place.function, inApp |-> isInApp(place.source),
        position |-> at]
    BY <1>3 DEF FrameIn
  <2>2. FrameAt(place, o) = frame
    <3>1. Artifacts(o) = <<>>
      BY <1>3 DEF Artifacts
    <3>2. matchArtifact(frame.file, <<>>) = 0
      BY DEF matchArtifact
    <3> DEFINE i == IF frame.position > 0 THEN matchArtifact(frame.file, <<>>) ELSE 0
    <3>3. i = 0
      BY <3>2
    <3> HIDE DEF frame
    <3>4. symbolicateFrame(frame, <<>>) = frame
      BY <3>3 DEF symbolicateFrame
    <3> QED BY <3>1, <3>4 DEF FrameAt, frame
  <2>3. normalizeFilename(frame.file) = normalizeFilename(place.source)
    <3> DEFINE f == place.source
               g == [f EXCEPT !.host = o.host]
    <3>1. g.base = f.base /\ g.suffix = f.suffix /\ g.ext = f.ext
      <4>1. {"base", "suffix", "ext"} \subseteq DOMAIN f
        BY <1>2
      <4> HIDE DEF f
      <4> QED BY <4>1
    <3>2. frame.file = g
      BY <2>1
    <3> HIDE DEF frame, f, g
    <3>3. normalizeFilename(g) = normalizeFilename(f)
      BY <3>1 DEF normalizeFilename
    <3> QED BY <3>2, <3>3 DEF f
  <2>4. frame.inApp = isInApp(place.source) /\ frame.module = <<>> /\ frame.function = place.function
    BY <2>1
  <2> HIDE DEF frame
  <2> QED BY <1>3, <2>2, <2>3, <2>4 DEF frameComponent, InApp, Where, Called, Hidden
<1>4. CASE o.bundled
  <2>1. frame = [file |-> BundleFile(o.host, <<"static", "js">>, o.build.hash),
        module |-> <<>>, function |-> o.build.hash, inApp |-> TRUE, position |-> at]
    BY <1>4 DEF FrameIn
  <2> DEFINE all == Places \cup {LibraryPlace}
             map == [p \in {q.position + o.build.shift : q \in all} |->
                       CHOOSE q \in all : q.position + o.build.shift = p]
             wrong == [p \in DOMAIN map |-> LibraryPlace]
             p1 == BundleFile("", <<"js">>, "0old")
             p2 == BundleFile("", <<"admin", "js">>, o.build.hash)
             p3 == BundleFile("", <<"dist", "static", "js">>, o.build.hash)
             read == o.mapped
             arts == Artifacts(o)
  <2>2. /\ DOMAIN arts = 1 .. 3
        /\ arts[1].pattern = p1 /\ arts[2].pattern = p2 /\ arts[3].pattern = p3
        /\ arts[3].fetched = read /\ arts[3].map = map
    <3>1. arts = <<[pattern |-> p1, fetched |-> TRUE, map |-> wrong],
                   [pattern |-> p2, fetched |-> TRUE, map |-> wrong],
                   [pattern |-> p3, fetched |-> read, map |-> map]>>
      BY <1>4 DEF Artifacts, ArtifactsOf
    <3> HIDE DEF wrong, map, arts, p1, p2, p3, read
    <3> DEFINE a == [pattern |-> p1, fetched |-> TRUE, map |-> wrong]
               b == [pattern |-> p2, fetched |-> TRUE, map |-> wrong]
               c == [pattern |-> p3, fetched |-> read, map |-> map]
    <3>2. a.pattern = p1 /\ b.pattern = p2 /\ c.pattern = p3 /\ c.fetched = read /\ c.map = map
      OBVIOUS
    <3>3. arts = <<a, b, c>>
      BY <3>1
    <3> HIDE DEF a, b, c
    <3>4. DOMAIN arts = 1 .. 3 /\ arts[1] = a /\ arts[2] = b /\ arts[3] = c
      BY <3>3
    <3> QED BY <3>2, <3>4
  <2>3. map[at] = place /\ at \in DOMAIN map
    <3>1. place \in all /\ \A q \in all : q.position + o.build.shift = at => q = place
      <4>1. \A q \in all : q.position \in Nat /\ (q.position = place.position => q = place)
        BY PlacesAre DEF AllPlaces, SourcePlace
      <4> QED BY <1>1, <1>2, <4>1 DEF AllPlaces
    <3> HIDE DEF all
    <3> QED BY <3>1
  <2>4. frame.position > 0 /\ frame.position = at
    BY <1>1, <1>2, <2>1
  <2>5. matchArtifact(frame.file, arts) = 3
    <3> DEFINE score == [i \in DOMAIN arts |-> matchScore(frame.file, arts[i].pattern)]
               best  == {i \in DOMAIN arts : score[i] > 0 /\ \A j \in DOMAIN arts : score[j] <= score[i]}
               name(f) == <<f.base, f.suffix, f.ext>>
               file == frame.file
    <3>1. file = BundleFile(o.host, <<"static", "js">>, o.build.hash)
      BY <2>1
    <3>2. name(file) = name(p2) /\ name(file) = name(p3)
      <4>1. name(p2) = <<"main", o.build.hash, "js">>
        BY ONLY DEF BundleFile
      <4>2. name(p3) = <<"main", o.build.hash, "js">>
        BY ONLY DEF BundleFile
      <4>3. name(file) = <<"main", o.build.hash, "js">>
        BY ONLY <3>1 DEF BundleFile
      <4> HIDE DEF name
      <4> QED BY ONLY <4>1, <4>2, <4>3
    <3>3. name(file) # name(p1)
      <4>1. name(p1) = <<"main", "0old", "js">>
        BY ONLY DEF BundleFile
      <4>2. name(file) = <<"main", o.build.hash, "js">>
        BY ONLY <3>1 DEF BundleFile
      <4>3. <<"main", "0old", "js">> # <<"main", o.build.hash, "js">>
        BY <1>1
      <4> HIDE DEF name
      <4> QED BY ONLY <4>1, <4>2, <4>3
    <3>4. file.dirs = <<"static", "js">> /\ p2.dirs = <<"admin", "js">> /\ p3.dirs = <<"dist", "static", "js">>
      <4>1. file.dirs = <<"static", "js">>
        BY ONLY <3>1 DEF BundleFile
      <4>2. p2.dirs = <<"admin", "js">>
        BY ONLY DEF BundleFile
      <4>3. p3.dirs = <<"dist", "static", "js">>
        BY ONLY DEF BundleFile
      <4> QED BY ONLY <4>1, <4>2, <4>3
    <3>5. matchScore(file, p1) = 0
      BY <3>3 DEF matchScore
    <3>6. matchScore(file, p2) = 2 /\ matchScore(file, p3) = 3
      <4> HIDE DEF file, p2, p3
      <4> QED BY <3>2, <3>4, ScoreIs
    <3>7. score[1] = 0 /\ score[2] = 2 /\ score[3] = 3
      <4>1. DOMAIN arts = 1 .. 3 /\ arts[1].pattern = p1 /\ arts[2].pattern = p2 /\ arts[3].pattern = p3
        BY <2>2
      <4> HIDE DEF file, p1, p2, p3, arts
      <4> QED BY ONLY <4>1, <3>5, <3>6 DEF file
    <3>8. best = {3}
      <4>1. DOMAIN arts = 1 .. 3
        BY <2>2
      <4> HIDE DEF score, arts
      <4> QED BY ONLY <3>7, <4>1
    <3>9. file # NoFile
      <4>1. NoFile.base = ""
        BY DEF NoFile
      <4>2. file.base = "main"
        BY <3>1 DEF BundleFile
      <4> HIDE DEF file
      <4> QED BY <4>1, <4>2
    <3>10. matchArtifact(file, arts) =
            IF best = {} \/ file = NoFile THEN 0 ELSE CHOOSE i \in best : \A j \in best : i <= j
      BY DEF matchArtifact
    <3>11. (CHOOSE i \in {3} : \A j \in {3} : i <= j) = 3
      OBVIOUS
    <3> HIDE DEF best, file, arts
    <3> QED BY <3>8, <3>9, <3>10, <3>11 DEF file
  <2>6. CASE ~o.mapped
    <3>1. FrameAt(place, o) = frame
      <4> HIDE DEF frame, arts, map, at
      <4>1. symbolicateFrame(frame, arts) = frame
        BY <2>2, <2>4, <2>5, <2>6 DEF symbolicateFrame
      <4> QED BY <4>1 DEF FrameAt, frame, arts
    <3>2. normalizeFilename(frame.file) = normalizeFilename(Main(o))
      <4>1. /\ frame.file.base = Main(o).base /\ frame.file.suffix = Main(o).suffix
            /\ frame.file.ext = Main(o).ext
        BY <2>1 DEF Main, BundleFile
      <4> HIDE DEF frame
      <4> QED BY <4>1 DEF normalizeFilename
    <3>3. frame.inApp /\ frame.module = <<>> /\ frame.function = o.build.hash
      BY <2>1
    <3>4. frame.inApp = TRUE
      BY <2>1
    <3> HIDE DEF frame
    <3> QED BY <1>4, <2>6, <3>1, <3>2, <3>3, <3>4 DEF frameComponent, InApp, Where, Called, Hidden
  <2>7. CASE o.mapped
    <3> DEFINE f == [file     |-> place.source, module   |-> moduleFor(place.source),
                     function |-> IF place.function # "" THEN place.function ELSE o.build.hash,
                     inApp    |-> isInApp(place.source), position |-> place.position]
    <3>1. FrameAt(place, o) = f
      <4>1. symbolicateFrame(frame, arts) =
              [file     |-> map[at].source, module   |-> moduleFor(map[at].source),
               function |-> IF map[at].function # "" THEN map[at].function ELSE frame.function,
               inApp    |-> isInApp(map[at].source), position |-> map[at].position]
        <5> DEFINE i == IF frame.position > 0 THEN matchArtifact(frame.file, arts) ELSE 0
        <5>1. i = 3
          <6> HIDE DEF frame, arts, at
          <6> QED BY <2>4, <2>5
        <5>2. /\ arts[i].fetched /\ frame.position \in DOMAIN arts[i].map
              /\ arts[i].map[frame.position] = map[at] /\ i # 0
          <6>1. arts[3].fetched = o.mapped /\ arts[3].map = map
            BY <2>2
          <6> HIDE DEF frame, arts, map, at, i
          <6> QED BY ONLY <2>3, <2>4, <2>7, <5>1, <6>1
        <5> HIDE DEF i
        <5> DEFINE q == arts[i].map[frame.position]
        <5>3. symbolicateFrame(frame, arts) =
                [file |-> q.source, module |-> moduleFor(q.source),
                 function |-> IF q.function # "" THEN q.function ELSE frame.function,
                 inApp |-> isInApp(q.source), position |-> q.position]
          <6>1. symbolicateFrame(frame, arts) =
                  IF i = 0 \/ ~arts[i].fetched \/ frame.position \notin DOMAIN arts[i].map THEN frame
                  ELSE [file |-> q.source, module |-> moduleFor(q.source),
                        function |-> IF q.function # "" THEN q.function ELSE frame.function,
                        inApp |-> isInApp(q.source), position |-> q.position]
            BY DEF symbolicateFrame, i
          <6> HIDE DEF frame, arts, q
          <6> QED BY <5>2, <6>1
        <5>4. q = map[at]
          BY <5>2
        <5> HIDE DEF q, map, at, frame, arts
        <5> QED BY <5>3, <5>4
      <4>2. frame.function = o.build.hash
        BY <2>1
      <4> HIDE DEF frame, arts, map, at
      <4>3. symbolicateFrame(frame, arts) = f
        BY <2>3, <4>1, <4>2
      <4> QED BY <4>3 DEF FrameAt, frame, arts
    <3>2. f.module # <<>>
      BY DEF moduleFor
    <3>3. /\ f.module = moduleFor(place.source) /\ f.inApp = isInApp(place.source)
          /\ f.function = IF place.function # "" THEN place.function ELSE o.build.hash
      OBVIOUS
    <3> HIDE DEF f
    <3> QED BY <1>4, <2>7, <3>1, <3>2, <3>3 DEF frameComponent, InApp, Where, Called, Hidden
  <2> QED BY <2>6, <2>7
<1> QED BY <1>3, <1>4

----------------------------------------------------------------------------
\* What an occurrence of a bug throws, once it is symbolicated.
StackOf(bug, o)  == bug.stack \o (IF o.library /\ bug.stack # <<>> THEN <<LibraryPlace>> ELSE <<>>)
SaidBy(bug, o)   == bug.message \o <<IdOf(o.id)>>
FramesOf(bug, o) == [i \in DOMAIN StackOf(bug, o) |-> FrameAt(StackOf(bug, o)[i], o)]
Thrown(bug, o)   == [type |-> bug.type, value |-> SaidBy(bug, o), frames |-> FramesOf(bug, o)]
Occurred(bug, o) == Symbolicate(EventOf(bug, o), Artifacts(o))

LEMMA StackIs ==
  ASSUME NEW bug \in Bug, NEW o \in BugOccurrence
  PROVE  /\ StackOf(bug, o) \in Seq(AllPlaces)
         /\ bug.stack \in Seq(AllPlaces) /\ bug.stack \in Seq(Places)
         /\ \A k \in 1 .. Len(bug.stack) : StackOf(bug, o)[k] = bug.stack[k]
         /\ o.library /\ bug.stack # <<>> =>
              /\ Len(StackOf(bug, o)) = Len(bug.stack) + 1
              /\ StackOf(bug, o)[Len(bug.stack) + 1] = LibraryPlace
         /\ ~(o.library /\ bug.stack # <<>>) => StackOf(bug, o) = bug.stack
<1>1. bug.stack \in Seq(Places) /\ Places \subseteq AllPlaces /\ LibraryPlace \in AllPlaces
  BY DEF Bug, AllPlaces
<1>2. bug.stack \in Seq(AllPlaces) /\ <<LibraryPlace>> \in Seq(AllPlaces)
  BY <1>1
<1> DEFINE s == bug.stack
           t == <<LibraryPlace>>
<1>3. Len(t) = 1 /\ t[1] = LibraryPlace
  OBVIOUS
<1>4. s \in Seq(AllPlaces) /\ t \in Seq(AllPlaces) /\ s \in Seq(Places)
  BY <1>1, <1>2
<1> HIDE DEF t, s
<1>5. CASE o.library /\ s # <<>>
  <2>1. StackOf(bug, o) = s \o t
    BY <1>5 DEF StackOf, s, t
  <2>2. /\ s \o t \in Seq(AllPlaces) /\ Len(s \o t) = Len(s) + 1
        /\ \A k \in 1 .. Len(s) : (s \o t)[k] = s[k]
        /\ (s \o t)[Len(s) + 1] = LibraryPlace
    BY <1>3, <1>4, ConcatProperties
  <2> QED BY <1>4, <1>5, <2>1, <2>2 DEF s
<1>6. CASE ~(o.library /\ s # <<>>)
  <2>1. StackOf(bug, o) = s \o <<>>
    BY <1>6 DEF StackOf, s
  <2>2. s \o <<>> = s
    BY <1>4, ConcatEmptySeq
  <2> QED BY <1>4, <1>6, <2>1, <2>2 DEF s
<1> QED BY <1>5, <1>6

LEMMA SaidIs ==
  ASSUME NEW bug \in Bug, NEW o \in BugOccurrence
  PROVE  /\ SaidBy(bug, o) # <<>> /\ DOMAIN SaidBy(bug, o) = 1 .. Len(bug.message) + 1
         /\ Len(bug.message) \in Nat
         /\ \A k \in 1 .. Len(bug.message) : SaidBy(bug, o)[k] = bug.message[k] /\ bug.message[k] \in Word
         /\ SaidBy(bug, o)[Len(bug.message) + 1] = IdOf(o.id)
<1> DEFINE S == Word \cup {IdOf(o.id)}
           s == bug.message
           t == <<IdOf(o.id)>>
<1>1. s \in Seq(Word) /\ s \in Seq(S)
  <2>1. s \in Seq(Word) /\ Word \subseteq S
    BY DEF Bug
  <2> HIDE DEF s, S
  <2> QED BY <2>1
<1>2. t \in Seq(S) /\ Len(t) = 1 /\ t[1] = IdOf(o.id)
  <2> DEFINE w == IdOf(o.id)
  <2> HIDE DEF w
  <2> QED OBVIOUS
<1>3. SaidBy(bug, o) = s \o t
  BY DEF SaidBy
<1> HIDE DEF s, t, S
<1>4. /\ s \o t \in Seq(S) /\ Len(s \o t) = Len(s) + 1 /\ Len(s) \in Nat
      /\ \A k \in 1 .. Len(s) : (s \o t)[k] = s[k] /\ s[k] \in Word
      /\ (s \o t)[Len(s) + 1] = IdOf(o.id)
  BY <1>1, <1>2, ConcatProperties
<1>5. DOMAIN (s \o t) = 1 .. Len(s) + 1 /\ s \o t # <<>>
  BY <1>4
<1> QED BY <1>3, <1>4, <1>5 DEF s

LEMMA WithFrames ==
  ASSUME NEW type, NEW value, NEW frames, NEW others
  PROVE  [[type |-> type, value |-> value, frames |-> frames] EXCEPT !.frames = others]
           = [type |-> type, value |-> value, frames |-> others]
OBVIOUS

LEMMA WithExceptions ==
  ASSUME NEW fingerprint, NEW exceptions, NEW others
  PROVE  [[fingerprint |-> fingerprint, message |-> <<>>, exceptions |-> exceptions] EXCEPT !.exceptions = others]
           = [fingerprint |-> fingerprint, message |-> <<>>, exceptions |-> others]
OBVIOUS

LEMMA OccurredIs ==
  ASSUME NEW bug \in Bug, NEW o \in BugOccurrence
  PROVE  /\ innermost(Occurred(bug, o)) = Thrown(bug, o)
         /\ Occurred(bug, o).message = <<>> /\ Occurred(bug, o).fingerprint = o.fingerprint
         /\ GroupOf(bug, o, Places) = Fingerprint(Occurred(bug, o))
<1> DEFINE stack == StackOf(bug, o)
           says  == SaidBy(bug, o)
           fs    == [i \in DOMAIN stack |-> FrameIn(stack[i], o)]
           x     == [type |-> bug.type, value |-> says, frames |-> fs]
           outer == [type |-> "Wrapped", value |-> <<>>, frames |-> <<>>]
           thrown == IF o.wrapped THEN <<outer, x>> ELSE <<x>>
           map(f) == symbolicateException(f, Artifacts(o))
           v      == [fingerprint |-> o.fingerprint, message |-> <<>>, exceptions |-> thrown]
           e      == Occurred(bug, o)
<1>1. EventOf(bug, o) = v
  BY DEF EventOf, StackOf, SaidBy
<1>2. /\ e.exceptions = [i \in DOMAIN thrown |-> map(thrown[i])]
      /\ e.message = <<>> /\ e.fingerprint = o.fingerprint
  <2> DEFINE mapped == [i \in DOMAIN thrown |-> map(thrown[i])]
  <2>1. e = [EventOf(bug, o) EXCEPT !.exceptions = [i \in DOMAIN EventOf(bug, o).exceptions |->
                                                      map(EventOf(bug, o).exceptions[i])]]
    BY DEF Occurred, Symbolicate
  <2> HIDE DEF thrown, map, e
  <2>2. v.exceptions = thrown
    OBVIOUS
  <2>3. e = [v EXCEPT !.exceptions = mapped]
    <3> HIDE DEF v
    <3> QED BY <1>1, <2>1, <2>2
  <2> HIDE DEF mapped
  <2>4. e = [fingerprint |-> o.fingerprint, message |-> <<>>, exceptions |-> mapped]
    BY <2>3, WithExceptions
  <2> QED BY <2>4 DEF mapped
<1>3. map(x) = Thrown(bug, o)
  <2> DEFINE ms == [j \in DOMAIN fs |-> symbolicateFrame(fs[j], Artifacts(o))]
  <2>1. map(x) = [x EXCEPT !.frames = [j \in DOMAIN x.frames |-> symbolicateFrame(x.frames[j], Artifacts(o))]]
    BY DEF symbolicateException
  <2>2. x.frames = fs
    <3> HIDE DEF says, fs
    <3> QED OBVIOUS
  <2>3. ms = FramesOf(bug, o)
    BY DEF FramesOf, FrameAt
  <2>4. map(x) = [x EXCEPT !.frames = ms]
    <3> HIDE DEF x, fs, map
    <3> QED BY <2>1, <2>2
  <2>5. [x EXCEPT !.frames = ms] = [type |-> bug.type, value |-> says, frames |-> ms]
    <3> HIDE DEF says, ms, fs
    <3> QED BY WithFrames
  <2> HIDE DEF ms, x, map
  <2> QED BY <2>3, <2>4, <2>5 DEF Thrown
<1>4. Thrown(bug, o).value # <<>>
  BY SaidIs DEF Thrown
<1>5. innermost(e) = Thrown(bug, o)
  <2> DEFINE tells(f) == f.frames # <<>> \/ f.type # "" \/ f.value # <<>>
             telling  == {i \in DOMAIN e.exceptions : tells(e.exceptions[i])}
             m == CHOOSE i \in telling : \A j \in telling : j <= i
  <2>1. PICK N \in 1 .. 2 : DOMAIN thrown = 1 .. N /\ thrown[N] = x
    <3> HIDE DEF x, outer
    <3>1. CASE o.wrapped
      <4>1. thrown = <<outer, x>>
        BY <3>1
      <4> HIDE DEF thrown
      <4>2. DOMAIN thrown = 1 .. 2 /\ thrown[2] = x
        BY <4>1
      <4> QED BY <4>2
    <3>2. CASE ~o.wrapped
      <4>1. thrown = <<x>>
        BY <3>2
      <4> HIDE DEF thrown
      <4>2. DOMAIN thrown = 1 .. 1 /\ thrown[1] = x
        BY <4>1
      <4> QED BY <4>2
    <3> QED BY <3>1, <3>2
  <2>2. DOMAIN e.exceptions = 1 .. N /\ e.exceptions[N] = Thrown(bug, o)
    <3> HIDE DEF thrown, map, x, e
    <3> QED BY <1>2, <1>3, <2>1
  <2>3. N \in telling /\ telling \subseteq 1 .. N
    <3>1. tells(e.exceptions[N])
      BY <1>4, <2>2
    <3> HIDE DEF e, tells
    <3> QED BY <2>2, <3>1
  <2>4. m = N
    <3> HIDE DEF telling
    <3>1. N \in 1 .. 2
      OBVIOUS
    <3>2. \A j \in telling : j \in Int /\ j <= N
      BY ONLY <3>1, <2>3
    <3>3. \A i \in telling : (\A j \in telling : j <= i) <=> i = N
      BY ONLY <3>1, <3>2, <2>3
    <3> QED BY ONLY <3>3, <2>3
  <2>5. innermost(e) = IF telling = {} THEN [type |-> "", value |-> <<>>, frames |-> <<>>] ELSE e.exceptions[m]
    BY DEF innermost, Telling
  <2> HIDE DEF telling, m, e
  <2> QED BY <2>2, <2>3, <2>4, <2>5
<1>6. GroupOf(bug, o, Places) = Fingerprint(e)
  BY DEF GroupOf, Process, Artifacts, Occurred
<1> QED BY <1>2, <1>5, <1>6

\* The components of all frames, of those that count, and of a stack.
Components(bug, o) ==
  [i \in DOMAIN StackOf(bug, o) |-> <<"frame", Where(StackOf(bug, o)[i], o), Called(StackOf(bug, o)[i], o)>>]
OwnFrames(bug, o) == {i \in DOMAIN StackOf(bug, o) : InApp(StackOf(bug, o)[i], o)}
Counting(bug, o) ==
  LET own == Only(Components(bug, o), OwnFrames(bug, o))
  IN  IF own # <<>> THEN own ELSE Components(bug, o)
Placed(type, all) ==
  LET placed == Only(all, {i \in DOMAIN all : all[i][2] # <<>> \/ all[i][3] # ""})
  IN  IF placed = <<>> THEN <<>>
      ELSE (IF type # "" THEN <<<<"type", type>>>> ELSE <<>>) \o placed

LEMMA ComponentsAre ==
  ASSUME NEW bug \in Bug, NEW o \in BugOccurrence
  PROVE  stackComponents(Occurred(bug, o)) = Placed(bug.type, Counting(bug, o))
<1> DEFINE stack == StackOf(bug, o)
           S == {FrameAt(p, o) : p \in AllPlaces}
           f == FramesOf(bug, o)
           c == Components(bug, o)
           T == {<<"frame", Where(p, o), Called(p, o)>> : p \in AllPlaces}
           P == OwnFrames(bug, o)
           x == innermost(Occurred(bug, o))
           inApp  == Only(x.frames, {i \in DOMAIN x.frames : x.frames[i].inApp})
           frames == IF inApp # <<>> THEN inApp ELSE x.frames
           all    == [i \in DOMAIN frames |-> frameComponent(frames[i])]
           placed == Only(all, {i \in DOMAIN all : all[i][2] # <<>> \/ all[i][3] # ""})
<1>1. stackComponents(Occurred(bug, o)) = Placed(x.type, all)
  BY DEF stackComponents, Placed
<1>2. stack \in Seq(AllPlaces) /\ DOMAIN stack = 1 .. Len(stack) /\ \A i \in 1 .. Len(stack) : stack[i] \in AllPlaces
  BY StackIs
<1>3. /\ f \in Seq(S) /\ c \in Seq(T) /\ Len(f) = Len(stack) /\ Len(c) = Len(stack)
      /\ \A i \in 1 .. Len(stack) : f[i] = FrameAt(stack[i], o) /\ frameComponent(f[i]) = c[i]
  <2> DEFINE fr(i) == FrameAt(stack[i], o)
             co(i) == <<"frame", Where(stack[i], o), Called(stack[i], o)>>
  <2>1. f = [i \in 1 .. Len(stack) |-> fr(i)] /\ c = [i \in 1 .. Len(stack) |-> co(i)]
    BY <1>2 DEF FramesOf, Components
  <2>2. \A i \in 1 .. Len(stack) : fr(i) \in S /\ co(i) \in T /\ frameComponent(fr(i)) = co(i)
    BY <1>2, FrameIs
  <2> HIDE DEF fr, co, S, T, f, c
  <2>3. Len(stack) \in Nat
    BY <1>2
  <2>4. /\ f \in Seq(S) /\ c \in Seq(T) /\ Len(f) = Len(stack) /\ Len(c) = Len(stack)
        /\ \A i \in 1 .. Len(stack) : f[i] = fr(i) /\ frameComponent(f[i]) = c[i]
    BY <2>1, <2>2, <2>3
  <2> QED BY <2>4 DEF fr
<1>4. x.type = bug.type /\ x.frames = f
  <2>1. x = Thrown(bug, o)
    BY OccurredIs
  <2> QED BY <2>1 DEF Thrown
<1>5. inApp = Only(f, P)
  <2>1. {i \in DOMAIN x.frames : x.frames[i].inApp} = P
    <3>1. DOMAIN f = 1 .. Len(stack)
      <4> HIDE DEF f, S, stack
      <4> QED BY <1>3
    <3>2. \A i \in 1 .. Len(stack) : f[i].inApp = InApp(stack[i], o)
      <4> HIDE DEF f, stack
      <4> QED BY <1>2, <1>3, FrameIs
    <3> HIDE DEF x, f
    <3> QED BY <1>2, <1>4, <3>1, <3>2 DEF OwnFrames
  <2> HIDE DEF x, f, P
  <2> QED BY <1>4, <2>1
<1> DEFINE a == Only(f, P)
           b == Only(c, P)
<1>6. /\ a \in Seq(S) /\ b \in Seq(T) /\ Len(a) = Len(b)
      /\ \A i \in 1 .. Len(a) : frameComponent(a[i]) = b[i]
  <2> HIDE DEF f, c, P, S, T, stack
  <2>1. /\ a \in Seq(S) /\ b \in Seq(T) /\ Len(a) = Len(b)
        /\ \A i \in 1 .. Len(a) : \E k \in 1 .. Len(f) : k \in P /\ a[i] = f[k] /\ b[i] = c[k]
    BY <1>3, OnlyAlike
  <2> HIDE DEF a, b
  <2> QED BY <1>3, <2>1
<1>7. ASSUME NEW s \in Seq(S), NEW t \in Seq(T), Len(s) = Len(t),
             \A i \in 1 .. Len(s) : frameComponent(s[i]) = t[i]
      PROVE  [i \in DOMAIN s |-> frameComponent(s[i])] = t
  <2>1. DOMAIN s = 1 .. Len(s) /\ DOMAIN t = 1 .. Len(s) /\ t = [i \in 1 .. Len(s) |-> t[i]]
    BY <1>7
  <2> HIDE DEF S, T
  <2> QED BY <1>7, <2>1
<1>8. a = <<>> <=> b = <<>>
  <2> HIDE DEF a, b, S, T
  <2> QED BY <1>6
<1>9. all = Counting(bug, o)
  <2>1. frames = IF a # <<>> THEN a ELSE f
    <3> HIDE DEF f, P, x, inApp
    <3> QED BY <1>4, <1>5
  <2>2. Counting(bug, o) = IF b # <<>> THEN b ELSE c
    BY DEF Counting
  <2>3. [i \in DOMAIN a |-> frameComponent(a[i])] = b
    <3> HIDE DEF a, b, S, T
    <3> QED BY <1>6, <1>7
  <2>4. [i \in DOMAIN f |-> frameComponent(f[i])] = c
    <3> HIDE DEF f, c, S, T, stack
    <3> QED BY <1>3, <1>7
  <2> HIDE DEF a, b, f, c, frames
  <2> QED BY <1>8, <2>1, <2>2, <2>3, <2>4
<1> HIDE DEF x, all
<1> QED BY <1>1, <1>4, <1>9

----------------------------------------------------------------------------
\* The components of an event of a bug: the caller's own, or those of its stack, or what
\* it says.
OwnOf(o)   == IF "default" \in Range(o.fingerprint) THEN <<>>
              ELSE Only(o.fingerprint, {i \in DOMAIN o.fingerprint : o.fingerprint[i] # ""})
Customs(s) == [i \in DOMAIN s |-> <<"custom", s[i]>>]

LEMMA CustomsAre ==
  ASSUME NEW s \in Seq(STRING)
  PROVE  Customs(s) = <<>> <=> s = <<>>
<1>1. Customs(s) \in Seq({<<"custom", x>> : x \in STRING}) /\ Len(Customs(s)) = Len(s)
  <2> DEFINE own(x) == <<"custom", x>>
             S == {own(x) : x \in STRING}
  <2>1. Customs(s) = [i \in 1 .. Len(s) |-> own(s[i])] /\ Len(s) \in Nat
    BY DEF Customs
  <2> HIDE DEF own
  <2>2. \A i \in 1 .. Len(s) : own(s[i]) \in S
    <3>1. \A i \in 1 .. Len(s) : s[i] \in STRING
      OBVIOUS
    <3> QED BY <3>1
  <2> HIDE DEF S
  <2>3. Customs(s) \in Seq(S) /\ Len(Customs(s)) = Len(s)
    BY <2>1, <2>2
  <2> QED BY <2>3 DEF own, S
<1> QED BY <1>1, EmptySeq

LEMMA OwnIs ==
  ASSUME NEW o \in BugOccurrence
  PROVE  OwnOf(o) \in Seq(STRING)
<1>1. o.fingerprint \in Seq(STRING)
  BY DEF BugOccurrence
<1> DEFINE s == o.fingerprint
           P == {i \in DOMAIN o.fingerprint : o.fingerprint[i] # ""}
<1>2. Only(s, P) \in Seq(STRING)
  <2> HIDE DEF P, s
  <2>1. s \in Seq(STRING)
    BY <1>1 DEF s
  <2> QED BY <2>1, OnlyAlike
<1>3. <<>> \in Seq(STRING)
  OBVIOUS
<1> HIDE DEF P
<1> QED BY <1>2, <1>3 DEF OwnOf, P

LEMMA GroupIs ==
  ASSUME NEW bug \in Bug, NEW o \in BugOccurrence
  PROVE  LET stack == Placed(bug.type, Counting(bug, o))
         IN  GroupOf(bug, o, Places) =
               IF OwnOf(o) # <<>> THEN Customs(OwnOf(o))
               ELSE IF stack # <<>> THEN stack
               ELSE <<<<"message", Parameterize(SaidBy(bug, o))>>>>
<1> DEFINE e == Occurred(bug, o)
           stack == Placed(bug.type, Counting(bug, o))
           message == <<<<"message", Parameterize(SaidBy(bug, o))>>>>
<1>1. customComponents(e) = Customs(OwnOf(o))
  <2> DEFINE given == e.fingerprint
             own   == Only(given, {i \in DOMAIN given : given[i] # ""})
  <2>1. customComponents(e) = IF "default" \in Range(e.fingerprint) THEN <<>> ELSE Customs(own)
    BY DEF customComponents, Customs
  <2>2. e.fingerprint = o.fingerprint
    BY OccurredIs
  <2>3. Customs(<<>>) = <<>>
    <3>1. <<>> \in Seq(STRING)
      OBVIOUS
    <3> QED BY <3>1, CustomsAre
  <2>4. own = Only(o.fingerprint, {i \in DOMAIN o.fingerprint : o.fingerprint[i] # ""})
    <3> HIDE DEF e
    <3> QED BY <2>2
  <2> HIDE DEF own, e
  <2>5. CASE "default" \in Range(o.fingerprint)
    BY <2>1, <2>2, <2>3, <2>5 DEF OwnOf
  <2>6. CASE ~("default" \in Range(o.fingerprint))
    BY <2>1, <2>2, <2>4, <2>6 DEF OwnOf
  <2> QED BY <2>5, <2>6
<1>2. stackComponents(e) = stack
  BY ComponentsAre
<1>3. messageComponents(e) = message
  <2> DEFINE says == IF e.message # <<>> THEN e.message ELSE innermost(e).value
  <2>1. messageComponents(e) = IF says = <<>> THEN <<>> ELSE <<<<"message", Parameterize(says)>>>>
    BY DEF messageComponents
  <2>2. says = SaidBy(bug, o)
    <3>1. e.message = <<>> /\ innermost(e) = Thrown(bug, o)
      BY OccurredIs
    <3> HIDE DEF e
    <3> QED BY <3>1 DEF Thrown
  <2> HIDE DEF says, e
  <2> QED BY <2>1, <2>2, SaidIs
<1>4. message # <<>>
  <2> DEFINE c == <<"message", Parameterize(SaidBy(bug, o))>>
  <2> HIDE DEF c
  <2>1. <<c>> # <<>>
    OBVIOUS
  <2> QED BY <2>1 DEF c
<1>5. Customs(OwnOf(o)) = <<>> <=> OwnOf(o) = <<>>
  BY OwnIs, CustomsAre
<1>6. GroupOf(bug, o, Places) = Fingerprint(e)
  BY OccurredIs
<1> HIDE DEF e, stack, message
<1>7. Fingerprint(e) = IF customComponents(e) # <<>> THEN customComponents(e)
                       ELSE IF stackComponents(e) # <<>> THEN stackComponents(e)
                       ELSE IF messageComponents(e) # <<>> THEN messageComponents(e)
                       ELSE fallbackComponents(e)
  BY DEF Fingerprint
<1>8. GroupOf(bug, o, Places) = IF OwnOf(o) # <<>> THEN Customs(OwnOf(o))
                                ELSE IF stack # <<>> THEN stack ELSE message
  BY <1>1, <1>2, <1>3, <1>4, <1>5, <1>6, <1>7
<1> QED BY <1>8 DEF stack, message

----------------------------------------------------------------------------
\* What a word of a message is replaced by.
Shown(w) ==
  LET matches == {n \in DOMAIN replacements : replacements[n] \in w.looks}
  IN  IF matches = {} THEN w.text ELSE replacements[CHOOSE n \in matches : \A o \in matches : n <= o]

LEMMA ReplacementsAre == DOMAIN replacements = 1 .. 7 /\ replacements[4] = "hex"
BY DEF replacements

\* Ids are all replaced by the same.
LEMMA IdsAreShownAlike ==
  ASSUME NEW m, NEW n
  PROVE  Shown(IdOf(m)) = Shown(IdOf(n))
<1> DEFINE kinds(w) == {k \in DOMAIN replacements : replacements[k] \in w.looks}
           first(K) == replacements[CHOOSE k \in K : \A j \in K : k <= j]
<1>1. \A w : Shown(w) = IF kinds(w) = {} THEN w.text ELSE first(kinds(w))
  BY DEF Shown
<1>2. IdOf(m).looks = {"number", "hex"} /\ IdOf(n).looks = {"number", "hex"}
  BY DEF IdOf
<1>3. 4 \in kinds(IdOf(m))
  BY <1>2, ReplacementsAre
<1>4. kinds(IdOf(m)) = kinds(IdOf(n))
  BY <1>2
<1> HIDE DEF kinds, first
<1> QED BY <1>1, <1>3, <1>4

LEMMA SayAlike ==
  ASSUME NEW bug \in Bug, NEW o \in BugOccurrence, NEW p \in BugOccurrence
  PROVE  Parameterize(SaidBy(bug, o)) = Parameterize(SaidBy(bug, p))
<1> DEFINE N == Len(bug.message)
<1>1. \A m : Parameterize(m) = [i \in DOMAIN m |-> Shown(m[i])]
  BY DEF Parameterize, Shown
<1>2. /\ DOMAIN SaidBy(bug, o) = 1 .. N + 1 /\ DOMAIN SaidBy(bug, p) = 1 .. N + 1 /\ N \in Nat
      /\ \A k \in 1 .. N : SaidBy(bug, o)[k] = SaidBy(bug, p)[k]
      /\ SaidBy(bug, o)[N + 1] = IdOf(o.id) /\ SaidBy(bug, p)[N + 1] = IdOf(p.id)
  BY SaidIs
<1>3. Shown(IdOf(o.id)) = Shown(IdOf(p.id))
  BY IdsAreShownAlike
<1> HIDE DEF N
<1>4. ASSUME NEW k \in 1 .. N + 1 PROVE Shown(SaidBy(bug, o)[k]) = Shown(SaidBy(bug, p)[k])
  <2>1. k \in 1 .. N \/ k = N + 1
    BY <1>2
  <2> QED BY <1>2, <1>3, <2>1
<1> QED BY <1>1, <1>2, <1>4

----------------------------------------------------------------------------
\* The components of the places of a bug, and those of its own code.
SourceOf(bug, o) == [i \in DOMAIN bug.stack |-> <<"frame", Where(bug.stack[i], o), Called(bug.stack[i], o)>>]
OwnPlaces(bug)   == {i \in DOMAIN bug.stack : isInApp(bug.stack[i].source)}

LEMMA LibraryIsNotOwn == ~isInApp(LibraryPlace.source) /\ LibraryPlace.function # ""
<1>1. LibraryPlace.source = LibraryFile /\ LibraryPlace.function = "call"
  BY DEF LibraryPlace
<1>2. LibraryFile.dirs = <<"node_modules">>
  BY DEF LibraryFile
<1>3. 1 \in DOMAIN LibraryFile.dirs /\ LibraryFile.dirs[1] \in Vendor
  BY <1>2 DEF Vendor
<1>4. ~isInApp(LibraryFile)
  BY <1>3 DEF isInApp
<1> QED BY <1>1, <1>4

LEMMA PlacesAgree ==
  ASSUME NEW o \in BugOccurrence, NEW p \in BugOccurrence, NEW place \in AllPlaces,
         o.bundled = p.bundled,
         \/ Readable(o) /\ Readable(p) /\ (o.bundled => place.function # "")
         \/ o.mapped = p.mapped /\ o.build = p.build
  PROVE  /\ Where(place, o) = Where(place, p) /\ Called(place, o) = Called(place, p)
         /\ InApp(place, o) = InApp(place, p)
<1>1. CASE Readable(o) /\ Readable(p) /\ (o.bundled => place.function # "")
  <2>1. ~Hidden(o) /\ ~Hidden(p)
    BY <1>1 DEF Readable, Hidden
  <2> QED BY <1>1, <2>1 DEF Where, Called, InApp
<1>2. CASE o.mapped = p.mapped /\ o.build = p.build
  <2>1. Hidden(o) <=> Hidden(p)
    BY <1>2 DEF Hidden
  <2>2. Main(o) = Main(p) /\ o.build.hash = p.build.hash
    BY <1>2 DEF Main
  <2>3. Hidden(o) = Hidden(p)
    BY <1>2 DEF Hidden
  <2> QED BY <1>2, <2>2, <2>3 DEF Where, Called, InApp
<1> QED BY <1>1, <1>2

\* The frame of the library counts only for a bug that has no own code.
LEMMA CountingIs ==
  ASSUME NEW bug \in Bug, NEW o \in BugOccurrence, Readable(o)
  PROVE  /\ ~o.library => /\ Components(bug, o) = SourceOf(bug, o)
                          /\ OwnFrames(bug, o) = OwnPlaces(bug)
         /\ OwnPlaces(bug) # {} => /\ Counting(bug, o) = Only(SourceOf(bug, o), OwnPlaces(bug))
<1> DEFINE c(x) == <<"frame", Where(x, o), Called(x, o)>>
           T == {c(x) : x \in AllPlaces}
           stack == StackOf(bug, o)
           own   == bug.stack
           M == Len(own)
           N == Len(stack)
<1>1. /\ stack \in Seq(AllPlaces) /\ own \in Seq(AllPlaces) /\ \A k \in 1 .. M : stack[k] = own[k]
      /\ DOMAIN stack = 1 .. N /\ DOMAIN own = 1 .. M /\ M \in Nat /\ N \in Nat
      /\ \/ stack = own
         \/ N = M + 1 /\ stack[N] = LibraryPlace
      /\ ~o.library => stack = own
  BY StackIs
<1>0. ASSUME NEW s \in Seq(AllPlaces) PROVE \A i \in 1 .. Len(s) : s[i] \in AllPlaces
  OBVIOUS
<1>2. \A x \in AllPlaces : InApp(x, o) = isInApp(x.source)
  BY DEF InApp, Hidden, Readable
<1>3. Components(bug, o) = [i \in 1 .. N |-> c(stack[i])] /\ SourceOf(bug, o) = [i \in 1 .. M |-> c(own[i])]
  BY <1>1 DEF Components, SourceOf
<1>4. /\ OwnFrames(bug, o) = {i \in 1 .. N : isInApp(stack[i].source)}
      /\ OwnPlaces(bug) = {i \in 1 .. M : isInApp(own[i].source)}
  <2>1. OwnFrames(bug, o) = {i \in 1 .. N : InApp(stack[i], o)}
    BY <1>1 DEF OwnFrames
  <2>2. OwnPlaces(bug) = {i \in 1 .. M : isInApp(own[i].source)}
    BY <1>1 DEF OwnPlaces
  <2>3. \A i \in 1 .. N : InApp(stack[i], o) = isInApp(stack[i].source)
    <3>1. \A i \in 1 .. N : stack[i] \in AllPlaces
      BY <1>0, <1>1
    <3> QED BY <1>2, <3>1
  <2> QED BY <2>1, <2>2, <2>3
<1>5. ~o.library => Components(bug, o) = SourceOf(bug, o) /\ OwnFrames(bug, o) = OwnPlaces(bug)
  <2>1. ~o.library => stack = own /\ N = M
    BY <1>1
  <2> HIDE DEF c, stack, own, N, M
  <2> QED BY <1>3, <1>4, <2>1
<1>6. ASSUME OwnPlaces(bug) # {} PROVE Counting(bug, o) = Only(SourceOf(bug, o), OwnPlaces(bug))
  <2> DEFINE C == Components(bug, o)
             S == SourceOf(bug, o)
             P == OwnPlaces(bug)
             Q == OwnFrames(bug, o)
  <2>1. /\ C \in Seq(T) /\ S \in Seq(T) /\ Len(C) = N /\ Len(S) = M
        /\ \A k \in 1 .. N : C[k] = c(stack[k])
        /\ \A k \in 1 .. M : S[k] = c(own[k])
    <3>1. (\A k \in 1 .. N : c(stack[k]) \in T) /\ (\A k \in 1 .. M : c(own[k]) \in T)
      <4>1. (\A k \in 1 .. N : stack[k] \in AllPlaces) /\ (\A k \in 1 .. M : own[k] \in AllPlaces)
        BY <1>0, <1>1
      <4> HIDE DEF c, stack, own, N, M
      <4> QED BY <4>1
    <3>2. N \in Nat /\ M \in Nat
      BY <1>1
    <3> HIDE DEF c, T, stack, own, N, M
    <3> QED BY <1>3, <3>1, <3>2
  <2>2. /\ \A k \in 1 .. M : C[k] = S[k] /\ (k \in P <=> k \in Q)
        /\ M <= N
        /\ \A k \in M + 1 .. N : k \notin Q
    <3>1. M <= N /\ (\A k \in 1 .. M : k \in 1 .. N /\ stack[k] = own[k])
      <4> HIDE DEF N
      <4>1. stack = own => N = M
        BY DEF N
      <4> HIDE DEF stack, own, M
      <4> QED BY <1>1, <4>1
    <3>2. \A k \in M + 1 .. N : stack[k] = LibraryPlace
      <4>1. stack = own => N = M
        OBVIOUS
      <4> HIDE DEF stack, own, N, M
      <4> QED BY <1>1, <4>1
    <3>3. \A k \in 1 .. M : k \in P <=> k \in Q
      <4> HIDE DEF stack, own, N, M
      <4> QED BY <1>4, <3>1
    <3>4. \A k \in M + 1 .. N : k \notin Q
      <4> HIDE DEF stack, own, N, M
      <4> QED BY <1>4, <3>2, LibraryIsNotOwn
    <3> HIDE DEF stack, own, N, M, C, S, P, Q, c
    <3> QED BY <2>1, <3>1, <3>3, <3>4
  <2>3. Only(C, Q) = Only(S, P)
    <3> HIDE DEF stack, own, N, M, C, S, P, Q, T
    <3> QED BY <2>1, <2>2, OnlyIgnores
  <2>4. Only(S, P) # <<>>
    <3>1. \E k \in 1 .. M : k \in P
      BY <1>4, <1>6
    <3> HIDE DEF C, S, P, Q, T, M, N, stack, own
    <3> QED BY <2>1, <3>1, OnlyNone
  <2>5. Counting(bug, o) = IF Only(C, Q) # <<>> THEN Only(C, Q) ELSE C
    BY DEF Counting
  <2> HIDE DEF C, S, P, Q
  <2>6. Counting(bug, o) = Only(S, P)
    BY <2>3, <2>4, <2>5
  <2> QED BY <2>6 DEF S, P
<1> QED BY <1>5, <1>6

LEMMA FramesAgree ==
  ASSUME NEW bug \in Bug, NEW o \in BugOccurrence, NEW p \in BugOccurrence,
         o.bundled = p.bundled,
         \/ Readable(o) /\ Readable(p) /\ (o.bundled => Named(bug))
         \/ o.mapped = p.mapped /\ o.build = p.build,
         \/ o.library = p.library
         \/ /\ \E i \in DOMAIN bug.stack : isInApp(bug.stack[i].source)
            /\ Readable(o) /\ Readable(p)
  PROVE  Counting(bug, o) = Counting(bug, p)
<1>1. ASSUME NEW place \in AllPlaces,
             (\E i \in DOMAIN bug.stack : bug.stack[i] = place) \/ place = LibraryPlace
      PROVE  /\ Where(place, o) = Where(place, p) /\ Called(place, o) = Called(place, p)
             /\ InApp(place, o) = InApp(place, p)
  <2>1. Named(bug) => place.function # ""
    BY <1>1, LibraryIsNotOwn DEF Named
  <2> QED BY <2>1, PlacesAgree
<1>2. \A i \in DOMAIN bug.stack : bug.stack[i] \in AllPlaces
  <2>1. bug.stack \in Seq(AllPlaces)
    BY StackIs
  <2> QED BY <2>1
<1>3. CASE o.library = p.library
  <2> DEFINE stack == StackOf(bug, o)
  <2>1. StackOf(bug, p) = stack
    BY <1>3 DEF StackOf
  <2>2. ASSUME NEW i \in DOMAIN stack
        PROVE  stack[i] \in AllPlaces /\ ((\E j \in DOMAIN bug.stack : bug.stack[j] = stack[i]) \/ stack[i] = LibraryPlace)
    <3>1. stack \in Seq(AllPlaces) /\ bug.stack \in Seq(AllPlaces)
      BY StackIs
    <3>2. /\ \A k \in 1 .. Len(bug.stack) : stack[k] = bug.stack[k]
          /\ \/ stack = bug.stack
             \/ Len(stack) = Len(bug.stack) + 1 /\ stack[Len(bug.stack) + 1] = LibraryPlace
      BY StackIs
    <3> DEFINE s == bug.stack
               M == Len(s)
               N == Len(stack)
    <3>3. DOMAIN s = 1 .. M /\ DOMAIN stack = 1 .. N /\ M \in Nat
      BY <3>1
    <3> HIDE DEF stack
    <3>4. stack[i] \in AllPlaces
      BY <2>2, <3>1
    <3> HIDE DEF s, M, N
    <3>5. \/ stack = s
          \/ N = M + 1 /\ stack[M + 1] = LibraryPlace
      BY <3>2 DEF s, M, N
    <3>6. \A k \in 1 .. M : stack[k] = s[k]
      BY <3>2 DEF s, M
    <3>7. (\E j \in DOMAIN s : s[j] = stack[i]) \/ stack[i] = LibraryPlace
      <4>1. i \in 1 .. N
        BY <2>2, <3>3
      <4>2. CASE stack = s
        BY <2>2, <4>2
      <4>3. CASE N = M + 1 /\ stack[M + 1] = LibraryPlace
        <5>1. i \in 1 .. M \/ i = M + 1
          BY <3>3, <4>1, <4>3
        <5> QED BY <3>3, <3>6, <4>3, <5>1
      <4> QED BY <3>5, <4>2, <4>3
    <3> QED BY <3>4, <3>7 DEF s
  <2>3. Components(bug, o) = Components(bug, p) /\ OwnFrames(bug, o) = OwnFrames(bug, p)
    <3>1. \A i \in DOMAIN stack : /\ Where(stack[i], o) = Where(stack[i], p) /\ Called(stack[i], o) = Called(stack[i], p)
                                  /\ InApp(stack[i], o) = InApp(stack[i], p)
      <4> HIDE DEF stack
      <4> QED BY <1>1, <2>2
    <3>2. /\ Components(bug, o) = [i \in DOMAIN stack |-> <<"frame", Where(stack[i], o), Called(stack[i], o)>>]
          /\ OwnFrames(bug, o) = {i \in DOMAIN stack : InApp(stack[i], o)}
      BY DEF Components, OwnFrames
    <3>3. /\ Components(bug, p) = [i \in DOMAIN stack |-> <<"frame", Where(stack[i], p), Called(stack[i], p)>>]
          /\ OwnFrames(bug, p) = {i \in DOMAIN stack : InApp(stack[i], p)}
      <4> HIDE DEF stack
      <4> QED BY <2>1 DEF Components, OwnFrames
    <3> HIDE DEF stack
    <3> QED BY <3>1, <3>2, <3>3
  <2> QED BY <2>3 DEF Counting
<1>4. CASE o.library # p.library
  <2>1. OwnPlaces(bug) # {} /\ Readable(o) /\ Readable(p)
    BY <1>4 DEF OwnPlaces
  <2>2. SourceOf(bug, o) = SourceOf(bug, p)
    <3>1. \A i \in DOMAIN bug.stack : /\ Where(bug.stack[i], o) = Where(bug.stack[i], p)
                                      /\ Called(bug.stack[i], o) = Called(bug.stack[i], p)
      BY <1>1, <1>2
    <3> QED BY <3>1 DEF SourceOf
  <2>3. /\ Counting(bug, o) = Only(SourceOf(bug, o), OwnPlaces(bug))
        /\ Counting(bug, p) = Only(SourceOf(bug, p), OwnPlaces(bug))
    BY <2>1, CountingIs
  <2> QED BY <2>2, <2>3
<1> QED BY <1>3, <1>4

LEMMA OneBugIsOneGroup ==
  ASSUME NEW bug \in Bug, NEW o \in BugOccurrence, NEW p \in BugOccurrence
  PROVE  OneBugOneGroup(bug, o, p, Places)
<1> DEFINE alike == /\ o.bundled = p.bundled
                    /\ \/ Readable(o) /\ Readable(p) /\ (o.bundled => Named(bug))
                       \/ o.mapped = p.mapped /\ o.build = p.build
           library == \/ o.library = p.library
                      \/ /\ \E i \in DOMAIN bug.stack : isInApp(bug.stack[i].source)
                         /\ Readable(o) /\ Readable(p)
<1>1. OwnOf(o) = OwnOf(p) /\ OwnOf(o) # <<>> => GroupOf(bug, o, Places) = GroupOf(bug, p, Places)
  BY GroupIs
<1>2. OwnOf(o) = <<>> /\ OwnOf(p) = <<>> /\ Extras(o) = Extras(p) /\ alike /\ library => GroupOf(bug, o, Places) = GroupOf(bug, p, Places)
  <2>1. alike /\ library => Counting(bug, o) = Counting(bug, p)
    BY FramesAgree
  <2>2. Parameterize(SaidBy(bug, o)) = Parameterize(SaidBy(bug, p))
    BY SayAlike
  <2> HIDE DEF alike, library
  <2> QED BY <2>1, <2>2, GroupIs
<1> HIDE DEF alike, library
<1>3. OneBugOneGroup(bug, o, p, Places) <=>
        /\ OwnOf(o) = OwnOf(p) /\ OwnOf(o) # <<>> => GroupOf(bug, o, Places) = GroupOf(bug, p, Places)
        /\ OwnOf(o) = <<>> /\ OwnOf(p) = <<>> /\ Extras(o) = Extras(p) /\ alike /\ library
             => GroupOf(bug, o, Places) = GroupOf(bug, p, Places)
  BY DEF OneBugOneGroup, OwnOf, alike, library
<1> QED BY <1>1, <1>2, <1>3

\* A deploy does not split an issue.
THEOREM BugsAreOneGroup == CallTypes => BugsStayWhole
<1> SUFFICES ASSUME CallTypes, part = "one bug"
             PROVE  OneBugOneGroup(call.bug, call.one, call.two, Places)
  BY DEF BugsStayWhole
<1>1. call \in [bug : Bug, one : BugOccurrence, two : BugOccurrence]
  BY DEF CallTypes
<1>2. call.bug \in Bug /\ call.one \in BugOccurrence /\ call.two \in BugOccurrence
  BY <1>1
<1> QED BY <1>2, OneBugIsOneGroup

----------------------------------------------------------------------------
\* Of a readable event of a bug's own code, every place of the stack that Essence looks
\* at makes a component.
Counted(bug) == LET own == Only(bug.stack, OwnPlaces(bug)) IN IF own = <<>> THEN bug.stack ELSE own
FrameOf(place, o) == <<"frame", Where(place, o), Called(place, o)>>

LEMMA CountedAre ==
  ASSUME NEW bug \in Bug, NEW o \in BugOccurrence, Readable(o), ~o.library
  PROVE  /\ Counted(bug) \in Seq(Places) /\ (Counted(bug) = <<>> <=> bug.stack = <<>>)
         /\ Counting(bug, o) = [i \in DOMAIN Counted(bug) |-> FrameOf(Counted(bug)[i], o)]
         /\ \A i \in DOMAIN Counted(bug) : \E k \in DOMAIN bug.stack : Counted(bug)[i] = bug.stack[k]
<1> DEFINE s == bug.stack
           T == {FrameOf(x, o) : x \in Places}
           P == OwnPlaces(bug)
           c == SourceOf(bug, o)
           a == Only(s, P)
           b == Only(c, P)
<1>1. s \in Seq(Places)
  BY DEF Bug
<1>2. c \in Seq(T) /\ Len(c) = Len(s) /\ \A i \in 1 .. Len(s) : c[i] = FrameOf(s[i], o)
  <2>1. c = [i \in 1 .. Len(s) |-> FrameOf(s[i], o)] /\ Len(s) \in Nat
    BY <1>1 DEF SourceOf, FrameOf
  <2>2. \A i \in 1 .. Len(s) : FrameOf(s[i], o) \in T
    <3>1. \A i \in 1 .. Len(s) : s[i] \in Places
      BY <1>1
    <3> HIDE DEF s
    <3> QED BY <3>1
  <2> HIDE DEF s, T, c
  <2> QED BY <2>1, <2>2
<1>3. /\ a \in Seq(Places) /\ b \in Seq(T) /\ Len(a) = Len(b)
      /\ \A i \in 1 .. Len(a) : \E k \in 1 .. Len(s) : a[i] = s[k] /\ b[i] = c[k]
  <2> HIDE DEF s, c, P, T
  <2>1. /\ a \in Seq(Places) /\ b \in Seq(T) /\ Len(a) = Len(b)
        /\ \A i \in 1 .. Len(a) : \E k \in 1 .. Len(s) : k \in P /\ a[i] = s[k] /\ b[i] = c[k]
    BY <1>1, <1>2, OnlyAlike
  <2> HIDE DEF a, b
  <2> QED BY <2>1
<1>4. \A i \in 1 .. Len(a) : b[i] = FrameOf(a[i], o)
  <2> HIDE DEF a, b, c, s
  <2> QED BY <1>2, <1>3
<1>5. ASSUME NEW x \in Seq(Places), NEW y \in Seq(T), Len(x) = Len(y),
             \A i \in 1 .. Len(x) : y[i] = FrameOf(x[i], o)
      PROVE  y = [i \in DOMAIN x |-> FrameOf(x[i], o)]
  <2>1. DOMAIN x = 1 .. Len(x) /\ DOMAIN y = 1 .. Len(x) /\ y = [i \in 1 .. Len(x) |-> y[i]]
    BY <1>5
  <2> HIDE DEF T
  <2> QED BY <1>5, <2>1
<1>6. a = <<>> <=> b = <<>>
  <2> HIDE DEF a, b, T
  <2> QED BY <1>3
<1>7. Counting(bug, o) = IF b # <<>> THEN b ELSE c
  <2>1. Components(bug, o) = c /\ OwnFrames(bug, o) = P
    BY CountingIs
  <2> HIDE DEF c, P
  <2> QED BY <2>1 DEF Counting
<1>8. Counted(bug) = IF a = <<>> THEN s ELSE a
  BY DEF Counted
<1>9. \A i \in 1 .. Len(s) : \E k \in 1 .. Len(s) : s[i] = s[k]
  OBVIOUS
<1>10. DOMAIN a = 1 .. Len(a) /\ DOMAIN s = 1 .. Len(s)
  <2> HIDE DEF a, s
  <2> QED BY <1>1, <1>3
<1>11. a # <<>> => s # <<>>
  <2>1. s = <<>> => Len(s) = 0
    OBVIOUS
  <2>2. \A k \in 1 .. 0 : FALSE
    OBVIOUS
  <2>3. a # <<>> => 1 \in 1 .. Len(a)
    <3>1. Len(a) \in Nat /\ (Len(a) = 0 => a = <<>>)
      <4> HIDE DEF a
      <4> QED BY <1>3
    <3> HIDE DEF a
    <3> QED BY <3>1
  <2> HIDE DEF a, s, b, c
  <2> QED BY <1>3, <2>1, <2>2, <2>3
<1>12. CASE a = <<>>
  <2>1. Counted(bug) = s /\ Counting(bug, o) = c
    <3> HIDE DEF s, a, b, c
    <3> QED BY <1>6, <1>7, <1>8, <1>12
  <2>2. c = [i \in DOMAIN s |-> FrameOf(s[i], o)]
    <3> HIDE DEF s, c, T
    <3> QED BY <1>1, <1>2, <1>5
  <2> HIDE DEF c, a, b
  <2> QED BY <1>1, <1>9, <1>10, <2>1, <2>2
<1>13. CASE a # <<>>
  <2>1. Counted(bug) = a /\ Counting(bug, o) = b
    <3> HIDE DEF s, a, b, c
    <3> QED BY <1>6, <1>7, <1>8, <1>13
  <2>2. b = [i \in DOMAIN a |-> FrameOf(a[i], o)]
    <3> HIDE DEF a, b, T
    <3> QED BY <1>3, <1>4, <1>5
  <2>3. \A i \in DOMAIN a : \E k \in DOMAIN s : a[i] = s[k]
    <3> HIDE DEF s, c, a, b
    <3> QED BY <1>3, <1>10
  <2> HIDE DEF c, a, b
  <2> QED BY <1>3, <1>11, <1>13, <2>1, <2>2, <2>3
<1> QED BY <1>12, <1>13

LEMMA WhereIs ==
  ASSUME NEW place \in Places, NEW o \in BugOccurrence, Readable(o)
  PROVE  /\ Where(place, o) # <<>>
         /\ Where(place, o) = IF o.bundled THEN moduleFor(place.source) ELSE normalizeFilename(place.source)
<1>1. place.source.base # ""
  BY PlacesAssumption DEF SourcePlace, SourceFile
<1>2. ~Hidden(o)
  BY DEF Hidden, Readable
<1>3. moduleFor(place.source) # <<>>
  BY DEF moduleFor
<1>4. normalizeFilename(place.source) # <<>>
  BY <1>1 DEF normalizeFilename
<1> QED BY <1>2, <1>3, <1>4 DEF Where

LEMMA PlacedIs ==
  ASSUME NEW type, NEW s \in Seq(Places), NEW o \in BugOccurrence, Readable(o)
  PROVE  LET all == [i \in DOMAIN s |-> FrameOf(s[i], o)]
         IN  /\ all \in Seq({FrameOf(x, o) : x \in Places}) /\ Len(all) = Len(s)
             /\ Placed(type, all) = IF s = <<>> THEN <<>>
                                    ELSE (IF type # "" THEN <<<<"type", type>>>> ELSE <<>>) \o all
<1> DEFINE T == {FrameOf(x, o) : x \in Places}
           all == [i \in DOMAIN s |-> FrameOf(s[i], o)]
           P == {i \in DOMAIN all : all[i][2] # <<>> \/ all[i][3] # ""}
           head == IF type # "" THEN <<<<"type", type>>>> ELSE <<>>
<1>1. all \in Seq(T) /\ Len(all) = Len(s)
  <2>1. \A i \in 1 .. Len(s) : FrameOf(s[i], o) \in T
    <3>1. \A i \in 1 .. Len(s) : s[i] \in Places
      OBVIOUS
    <3> QED BY <3>1
  <2>2. all = [i \in 1 .. Len(s) |-> FrameOf(s[i], o)] /\ Len(s) \in Nat
    OBVIOUS
  <2> HIDE DEF T, all
  <2> QED BY <2>1, <2>2
<1>2. \A k \in 1 .. Len(all) : k \in P
  <2>1. \A k \in DOMAIN s : s[k] \in Places
    OBVIOUS
  <2>2. \A k \in DOMAIN all : all[k] = FrameOf(s[k], o) /\ k \in DOMAIN s
    OBVIOUS
  <2>3. \A x \in Places : FrameOf(x, o)[2] # <<>>
    BY WhereIs DEF FrameOf
  <2>4. DOMAIN all = 1 .. Len(all)
    <3> HIDE DEF all, T
    <3> QED BY <1>1
  <2> HIDE DEF all
  <2> QED BY <2>1, <2>2, <2>3, <2>4
<1>3. Only(all, P) = all
  <2> HIDE DEF all, P, T
  <2> QED BY <1>1, <1>2, OnlyAll
<1>4. Placed(type, all) = IF Only(all, P) = <<>> THEN <<>> ELSE head \o Only(all, P)
  BY DEF Placed
<1>5. all = <<>> <=> s = <<>>
  <2>1. Len(s) = 0 <=> s = <<>>
    OBVIOUS
  <2> HIDE DEF all, T
  <2> QED BY <1>1, <2>1
<1>6. Placed(type, all) = IF s = <<>> THEN <<>> ELSE head \o all
  <2> HIDE DEF all, P, head
  <2> QED BY <1>3, <1>4, <1>5
<1> QED BY <1>1, <1>6

\* What stands before the components of two stacks is told apart from them.
Heads(h, S) == \E a : a \notin S /\ h \in {<<>>, <<a>>}

LEMMA HeadsTell ==
  ASSUME NEW S, NEW c \in Seq(S), NEW d \in Seq(S), c # <<>>, d # <<>>,
         NEW h, NEW k, Heads(h, S), Heads(k, S), h \o c = k \o d
  PROVE  h = k /\ c = d
<1>1. PICK a, b : a \notin S /\ b \notin S /\ h \in {<<>>, <<a>>} /\ k \in {<<>>, <<b>>}
  BY DEF Heads
<1>2. <<>> \o c = c /\ <<>> \o d = d
  BY ConcatEmptySeq
<1>3. ASSUME NEW x, NEW e \in Seq(S)
      PROVE  /\ Len(<<x>> \o e) = Len(e) + 1 /\ (<<x>> \o e)[1] = x
             /\ \A i \in 1 .. Len(e) : (<<x>> \o e)[i + 1] = e[i]
  <2> DEFINE X == S \cup {x}
  <2>1. e \in Seq(X) /\ <<x>> \in Seq(X) /\ Len(<<x>>) = 1 /\ <<x>>[1] = x
    <3>1. S \subseteq X /\ x \in X
      OBVIOUS
    <3> HIDE DEF X
    <3> QED BY <3>1
  <2> HIDE DEF X
  <2> QED BY <2>1, ConcatProperties
<1>4. c[1] \in S /\ d[1] \in S
  OBVIOUS
<1>5. CASE h = <<a>> /\ k = <<b>>
  <2>1. <<a>> \o c = <<b>> \o d
    BY <1>5
  <2>2. Len(c) + 1 = Len(d) + 1 /\ a = b
    BY <1>3, <2>1
  <2>3. Len(c) = Len(d)
    BY <2>2
  <2>4. \A i \in 1 .. Len(c) : c[i] = d[i]
    BY <1>3, <2>1, <2>3
  <2>5. c = d
    BY <2>3, <2>4, SeqEqual
  <2> QED BY <1>5, <2>2, <2>5
<1>6. CASE h = <<a>> /\ k = <<>>
  <2>1. <<a>> \o c = d
    BY <1>2, <1>6
  <2> QED BY <1>1, <1>3, <1>4, <2>1
<1>7. CASE h = <<>> /\ k = <<b>>
  <2>1. <<b>> \o d = c
    BY <1>2, <1>7
  <2> QED BY <1>1, <1>3, <1>4, <2>1
<1>8. CASE h = <<>> /\ k = <<>>
  BY <1>2, <1>8
<1> QED BY <1>1, <1>5, <1>6, <1>7, <1>8

----------------------------------------------------------------------------
\* Places of one component are told alike, or their files' names are all that is kept.
LEMMA PlacesTell ==
  ASSUME NEW x \in Places, NEW y \in Places, NEW o \in BugOccurrence, Readable(o), Unlike(o),
         FrameOf(x, o) = FrameOf(y, o), Told(x) # Told(y)
  PROVE  /\ ~o.bundled /\ x.function = y.function /\ x.source.base = y.source.base
         /\ \/ x.source.dirs # y.source.dirs
            \/ {x.source.suffix, y.source.suffix} \subseteq BundleHash \cup {""}
<1>1. Where(x, o) = Where(y, o) /\ Called(x, o) = Called(y, o)
  BY DEF FrameOf
<1>2. ~Hidden(o)
  BY DEF Hidden, Readable
<1>3. x.source.base # "" /\ y.source.base # ""
  BY PlacesAssumption DEF SourcePlace, SourceFile
<1>4. x.function = y.function
  <2>1. x.function # o.build.hash /\ y.function # o.build.hash
    BY DEF Unlike
  <2> QED BY <1>1, <1>2, <2>1 DEF Called
<1>5. ~o.bundled
  <2>1. SUFFICES ASSUME o.bundled PROVE FALSE
    OBVIOUS
  <2>2. moduleFor(x.source) = moduleFor(y.source)
    BY <1>1, <2>1, WhereIs
  <2>3. x.source.dirs = y.source.dirs /\ x.source.base = y.source.base /\ x.source.suffix = y.source.suffix
    BY <2>2 DEF moduleFor
  <2> QED BY <1>4, <2>3 DEF Told
<1>6. normalizeFilename(x.source) = normalizeFilename(y.source)
  BY <1>1, <1>5, WhereIs
<1> DEFINE short(f) == f.suffix = "" \/ f.suffix \in BundleHash
<1>7. ASSUME NEW f, f.base # ""
      PROVE  normalizeFilename(f) = IF short(f) THEN <<f.base, f.ext>> ELSE <<f.base, f.suffix, f.ext>>
  <2>1. CASE short(f)
    BY <1>7, <2>1 DEF normalizeFilename
  <2>2. CASE ~short(f)
    BY <1>7, <2>2 DEF normalizeFilename
  <2> QED BY <2>1, <2>2
<1>8. \/ x.source.base = y.source.base /\ short(x.source) /\ short(y.source)
      \/ x.source.base = y.source.base /\ x.source.suffix = y.source.suffix
  <2> DEFINE f == x.source
             g == y.source
  <2>1. \A t1, t2, u1, u2, u3 : <<t1, t2>> # <<u1, u2, u3>>
    OBVIOUS
  <2> HIDE DEF short, f, g
  <2>2. f.base # "" /\ g.base # "" /\ normalizeFilename(f) = normalizeFilename(g)
    BY <1>3, <1>6 DEF f, g
  <2>3. CASE short(f) /\ short(g)
    <3>1. <<f.base, f.ext>> = <<g.base, g.ext>>
      BY <1>7, <2>2, <2>3
    <3> QED BY <2>3, <3>1 DEF f, g
  <2>4. CASE ~short(f) /\ ~short(g)
    <3>1. <<f.base, f.suffix, f.ext>> = <<g.base, g.suffix, g.ext>>
      BY <1>7, <2>2, <2>4
    <3> QED BY <3>1 DEF f, g
  <2>5. CASE short(f) /\ ~short(g)
    BY <1>7, <2>1, <2>2, <2>5
  <2>6. CASE ~short(f) /\ short(g)
    BY <1>7, <2>1, <2>2, <2>6
  <2> QED BY <2>3, <2>4, <2>5, <2>6
<1>9. ASSUME x.source.dirs = y.source.dirs PROVE short(x.source) /\ short(y.source)
  <2>1. x.source.base = y.source.base /\ x.source.suffix = y.source.suffix => Told(x) = Told(y)
    BY <1>4, <1>9 DEF Told
  <2> HIDE DEF short
  <2> QED BY <1>8, <2>1
<1> QED BY <1>4, <1>5, <1>8, <1>9

\* Of some naturals one is the least.
LEMMA LeastNumber ==
  ASSUME NEW K \in SUBSET Nat, K # {}
  PROVE  \E k \in K : \A j \in K : k <= j
<1>1. SUFFICES ASSUME \A k \in K : \E j \in K : j < k PROVE FALSE
  OBVIOUS
<1>2. PICK n \in K : TRUE
  OBVIOUS
<1> DEFINE B == {k \in 0 .. n : \A j \in K : j > k}
<1>3. 0 \in B
  BY <1>1, <1>2
<1>4. ASSUME NEW k \in 0 .. n, k \in B, k < n PROVE k + 1 \in B
  <2>1. \A j \in K : j > k /\ j \in Nat
    BY <1>4
  <2>2. k + 1 \notin K
    BY <1>1, <2>1
  <2> QED BY <1>4, <2>1, <2>2
<1>5. n \in B
  <2>1. \A k \in 0 .. n : k \in B /\ k < n => k + 1 \in B
    BY <1>4
  <2> HIDE DEF B
  <2> QED BY <1>2, <1>3, <2>1, UpTo
<1> QED BY <1>2, <1>5

\* Messages whose words are replaced by the same say the same.
LEMMA WordsTell ==
  ASSUME NEW v \in Word, NEW w \in Word, Shown(v) = Shown(w)
  PROVE  (IF v.looks = {} THEN v.text ELSE "") = (IF w.looks = {} THEN w.text ELSE "")
<1> DEFINE kinds(x) == {k \in DOMAIN replacements : replacements[k] \in x.looks}
           first(x) == replacements[CHOOSE k \in kinds(x) : \A j \in kinds(x) : k <= j]
           R == Range(replacements)
<1>1. ASSUME NEW x \in Word
      PROVE  /\ x.looks = {} => Shown(x) = x.text /\ x.text \notin R
             /\ x.looks # {} => Shown(x) \in R
  <2>1. x.text \notin R /\ x.looks \subseteq R
    BY DEF Word
  <2>2. R = {replacements[i] : i \in DOMAIN replacements}
    BY DEF Range
  <2>3. Shown(x) = IF kinds(x) = {} THEN x.text ELSE first(x)
    BY DEF Shown
  <2>4. kinds(x) = {} <=> x.looks = {}
    <3> HIDE DEF R
    <3> QED BY <2>1, <2>2
  <2>5. kinds(x) # {} => first(x) \in R
    <3> DEFINE m == CHOOSE k \in kinds(x) : \A j \in kinds(x) : k <= j
    <3>1. kinds(x) # {} => m \in kinds(x)
      <4>1. kinds(x) \subseteq Nat
        BY ReplacementsAre
      <4> DEFINE K == kinds(x)
      <4> HIDE DEF K, kinds
      <4>2. K # {} => \E k \in K : \A j \in K : k <= j
        <5>1. K \in SUBSET Nat
          BY <4>1 DEF K
        <5> QED BY <5>1, LeastNumber
      <4>3. K # {} => (CHOOSE k \in K : \A j \in K : k <= j) \in K
        BY <4>2
      <4> QED BY <4>3 DEF K
    <3> HIDE DEF m
    <3>2. kinds(x) # {} => m \in DOMAIN replacements
      BY <3>1
    <3> HIDE DEF kinds, R
    <3>3. kinds(x) # {} => replacements[m] \in R
      BY <2>2, <3>2
    <3> QED BY <3>3 DEF m
  <2> HIDE DEF kinds, first, R
  <2> QED BY <2>1, <2>3, <2>4, <2>5
<1> HIDE DEF R
<1> QED BY <1>1

LEMMA MessagesTell ==
  ASSUME NEW bug \in Bug, NEW other \in Bug, NEW o \in BugOccurrence,
         Parameterize(SaidBy(bug, o)) = Parameterize(SaidBy(other, o))
  PROVE  LET said(w) == IF w.looks = {} THEN w.text ELSE ""
         IN  [i \in DOMAIN bug.message |-> said(bug.message[i])]
               = [i \in DOMAIN other.message |-> said(other.message[i])]
<1> DEFINE said(w) == IF w.looks = {} THEN w.text ELSE ""
           M == Len(bug.message)
           N == Len(other.message)
<1>1. \A m : Parameterize(m) = [i \in DOMAIN m |-> Shown(m[i])]
  BY DEF Parameterize, Shown
<1>2. /\ DOMAIN SaidBy(bug, o) = 1 .. M + 1 /\ M \in Nat
      /\ \A k \in 1 .. M : SaidBy(bug, o)[k] = bug.message[k] /\ bug.message[k] \in Word
  BY SaidIs
<1>3. /\ DOMAIN SaidBy(other, o) = 1 .. N + 1 /\ N \in Nat
      /\ \A k \in 1 .. N : SaidBy(other, o)[k] = other.message[k] /\ other.message[k] \in Word
  BY SaidIs
<1>4. DOMAIN bug.message = 1 .. M /\ DOMAIN other.message = 1 .. N
  <2>1. bug.message \in Seq(Word) /\ other.message \in Seq(Word)
    BY DEF Bug
  <2> QED BY <2>1
<1> HIDE DEF M, N
<1>5. 1 .. M + 1 = 1 .. N + 1 /\ \A k \in 1 .. M + 1 : Shown(SaidBy(bug, o)[k]) = Shown(SaidBy(other, o)[k])
  <2>1. /\ Parameterize(SaidBy(bug, o)) = [k \in 1 .. M + 1 |-> Shown(SaidBy(bug, o)[k])]
        /\ Parameterize(SaidBy(other, o)) = [k \in 1 .. N + 1 |-> Shown(SaidBy(other, o)[k])]
    BY <1>1, <1>2, <1>3
  <2> DEFINE u == Parameterize(SaidBy(bug, o))
  <2>2. /\ u = [k \in 1 .. M + 1 |-> Shown(SaidBy(bug, o)[k])]
        /\ u = [k \in 1 .. N + 1 |-> Shown(SaidBy(other, o)[k])]
    BY <2>1
  <2>3. DOMAIN u = 1 .. M + 1 /\ DOMAIN u = 1 .. N + 1
    BY <2>2
  <2>4. 1 .. M + 1 = 1 .. N + 1
    BY <2>3
  <2> HIDE DEF u
  <2>5. /\ \A k \in 1 .. M + 1 : u[k] = Shown(SaidBy(bug, o)[k])
        /\ \A k \in 1 .. N + 1 : u[k] = Shown(SaidBy(other, o)[k])
    BY <2>2
  <2> QED BY <2>4, <2>5
<1>6. M = N
  BY <1>2, <1>3, <1>5
<1>7. \A k \in 1 .. M : said(bug.message[k]) = said(other.message[k])
  <2>1. ASSUME NEW k \in 1 .. M PROVE said(bug.message[k]) = said(other.message[k])
    <3>1. k \in 1 .. M + 1 /\ k \in 1 .. N
      BY <1>2, <1>6
    <3>2. /\ bug.message[k] \in Word /\ other.message[k] \in Word
          /\ Shown(bug.message[k]) = Shown(other.message[k])
      BY <1>2, <1>3, <1>5, <3>1
    <3> QED BY <3>2, WordsTell
  <2> QED BY <2>1
<1> HIDE DEF said
<1>8. [i \in DOMAIN bug.message |-> said(bug.message[i])] = [i \in DOMAIN other.message |-> said(other.message[i])]
  BY <1>4, <1>6, <1>7
<1> QED BY <1>8 DEF said

\* The first component of a group without fingerprints.
LEMMA ReadableGroupIs ==
  ASSUME NEW bug \in Bug, NEW o \in BugOccurrence, Readable(o), o.fingerprint = <<>>, ~o.library
  PROVE  LET all == [i \in DOMAIN Counted(bug) |-> FrameOf(Counted(bug)[i], o)]
         IN  GroupOf(bug, o, Places) =
               IF bug.stack = <<>> THEN <<<<"message", Parameterize(SaidBy(bug, o))>>>>
               ELSE (IF bug.type # "" THEN <<<<"type", bug.type>>>> ELSE <<>>) \o all
<1> DEFINE all == [i \in DOMAIN Counted(bug) |-> FrameOf(Counted(bug)[i], o)]
           head == IF bug.type # "" THEN <<<<"type", bug.type>>>> ELSE <<>>
           said == <<<<"message", Parameterize(SaidBy(bug, o))>>>>
           T == {FrameOf(x, o) : x \in Places}
<1>1. OwnOf(o) = <<>>
  <2>1. Only(<<>>, {i \in DOMAIN <<>> : <<>>[i] # ""}) = <<>>
    <3> DEFINE P == {i \in DOMAIN <<>> : <<>>[i] # ""}
    <3>1. <<>> \in Seq(STRING) /\ \A k \in 1 .. Len(<<>>) : k \notin P
      OBVIOUS
    <3> HIDE DEF P
    <3>2. Only(<<>>, P) = <<>>
      BY <3>1, OnlyNone
    <3> QED BY <3>2 DEF P
  <2> QED BY <2>1 DEF OwnOf
<1>2. Counted(bug) \in Seq(Places) /\ (Counted(bug) = <<>> <=> bug.stack = <<>>) /\ Counting(bug, o) = all
  BY CountedAre
<1>3. /\ all \in Seq(T) /\ Len(all) = Len(Counted(bug))
      /\ Placed(bug.type, all) = IF Counted(bug) = <<>> THEN <<>> ELSE head \o all
  BY <1>2, PlacedIs
<1>4. bug.stack # <<>> => head \o all # <<>>
  <2>1. bug.stack # <<>> => all # <<>>
    <3>1. Counted(bug) # <<>> => Len(Counted(bug)) # 0
      BY <1>2
    <3> HIDE DEF all, T
    <3> QED BY <1>2, <1>3, <3>1
  <2>2. head = <<>> => head \o all = all
    <3> HIDE DEF head, all, T
    <3> QED BY <1>3, ConcatEmptySeq
  <2>3. ASSUME NEW x PROVE <<x>> \o all # <<>>
    <3> DEFINE X == T \cup {x}
    <3>1. all \in Seq(X) /\ <<x>> \in Seq(X) /\ Len(<<x>>) = 1
      <4>1. T \subseteq X /\ x \in X
        OBVIOUS
      <4>2. all \in Seq(T)
        BY <1>3
      <4> HIDE DEF X, T, all
      <4> QED BY <4>1, <4>2
    <3> HIDE DEF X, all
    <3>2. Len(<<x>> \o all) = 1 + Len(all) /\ Len(all) \in Nat
      BY <3>1, ConcatProperties
    <3> QED BY <3>2
  <2>4. head # <<>> => head = <<<<"type", bug.type>>>>
    OBVIOUS
  <2> HIDE DEF head, all, T
  <2> QED BY <2>1, <2>2, <2>3, <2>4
<1>5. GroupOf(bug, o, Places) =
        IF OwnOf(o) # <<>> THEN Customs(OwnOf(o))
        ELSE IF Placed(bug.type, Counting(bug, o)) # <<>> THEN Placed(bug.type, Counting(bug, o)) ELSE said
  BY GroupIs
<1> HIDE DEF all, head, said
<1>6. GroupOf(bug, o, Places) = IF bug.stack = <<>> THEN said ELSE head \o all
  BY <1>1, <1>2, <1>3, <1>4, <1>5
<1> QED BY <1>6 DEF all, head, said

\* No message is taken for a stack.
LEMMA KindsTell ==
  ASSUME NEW S, NEW c \in Seq(S), c # <<>>, NEW m, m \notin S, NEW a, a # m, NEW h \in {<<>>, <<a>>}
  PROVE  h \o c # <<m>>
<1>1. c[1] \in S /\ <<m>>[1] = m
  OBVIOUS
<1>2. CASE h = <<>>
  <2>1. <<>> \o c = c
    BY ConcatEmptySeq
  <2> QED BY <1>1, <1>2, <2>1
<1>3. CASE h = <<a>>
  <2> DEFINE X == S \cup {a}
  <2>1. c \in Seq(X) /\ <<a>> \in Seq(X) /\ Len(<<a>>) = 1 /\ <<a>>[1] = a
    <3>1. S \subseteq X /\ a \in X
      OBVIOUS
    <3> HIDE DEF X
    <3> QED BY <3>1
  <2> HIDE DEF X
  <2>2. (<<a>> \o c)[1] = a
    BY <2>1, ConcatProperties
  <2> QED BY <1>1, <1>3, <2>2
<1> QED BY <1>2, <1>3

LEMMA TwoBugsAreTwoGroups ==
  ASSUME NEW bug \in Bug, NEW other \in Bug, NEW o \in BugOccurrence, Unlike(o)
  PROVE  TwoBugsTwoGroups(bug, other, o, Places)
<1> DEFINE merged(x, y) == /\ Told(x) # Told(y)
                           /\ x.function = y.function /\ x.source.base = y.source.base
                           /\ \/ x.source.dirs # y.source.dirs
                              \/ {x.source.suffix, y.source.suffix} \subseteq BundleHash \cup {""}
           blurred == \E i \in DOMAIN bug.stack, j \in DOMAIN other.stack : merged(bug.stack[i], other.stack[j])
           T == {FrameOf(x, o) : x \in Places}
           c == [i \in DOMAIN Counted(bug) |-> FrameOf(Counted(bug)[i], o)]
           d == [i \in DOMAIN Counted(other) |-> FrameOf(Counted(other)[i], o)]
<1>1. SUFFICES ASSUME Readable(o), o.fingerprint = <<>>, ~o.library,
                      GroupOf(bug, o, Places) = GroupOf(other, o, Places), o.bundled \/ ~blurred
               PROVE  Essence(bug) = Essence(other)
  BY DEF TwoBugsTwoGroups
<1> DEFINE a == <<"type", bug.type>>
           b == <<"type", other.type>>
           h == IF bug.type # "" THEN <<a>> ELSE <<>>
           k == IF other.type # "" THEN <<b>> ELSE <<>>
           m == <<"message", Parameterize(SaidBy(bug, o))>>
           n == <<"message", Parameterize(SaidBy(other, o))>>
<1>2. /\ Counted(bug) \in Seq(Places) /\ (Counted(bug) = <<>> <=> bug.stack = <<>>)
      /\ Counted(other) \in Seq(Places) /\ (Counted(other) = <<>> <=> other.stack = <<>>)
      /\ \A i \in DOMAIN Counted(bug) : \E j \in DOMAIN bug.stack : Counted(bug)[i] = bug.stack[j]
      /\ \A i \in DOMAIN Counted(other) : \E j \in DOMAIN other.stack : Counted(other)[i] = other.stack[j]
  BY <1>1, CountedAre
<1>3. c \in Seq(T) /\ Len(c) = Len(Counted(bug)) /\ d \in Seq(T) /\ Len(d) = Len(Counted(other))
  BY <1>1, <1>2, PlacedIs
<1>4. /\ GroupOf(bug, o, Places) = IF bug.stack = <<>> THEN <<m>> ELSE h \o c
      /\ GroupOf(other, o, Places) = IF other.stack = <<>> THEN <<n>> ELSE k \o d
  BY <1>1, ReadableGroupIs
<1>5. ASSUME NEW x \in Bug
      PROVE  Essence(x) = IF Counted(x) = <<>>
                          THEN <<"message", [i \in DOMAIN x.message |->
                                   IF x.message[i].looks = {} THEN x.message[i].text ELSE ""]>>
                          ELSE <<"stack", x.type, [i \in DOMAIN Counted(x) |-> Told(Counted(x)[i])]>>
  BY DEF Essence, Counted, OwnPlaces
<1>6. (Counted(bug) # <<>> => c # <<>>) /\ (Counted(other) # <<>> => d # <<>>)
  <2>1. (Counted(bug) # <<>> => Len(Counted(bug)) # 0) /\ (Counted(other) # <<>> => Len(Counted(other)) # 0)
    BY <1>2
  <2>2. Len(<<>>) = 0
    OBVIOUS
  <2> HIDE DEF c, d, T
  <2> QED BY <1>3, <2>1, <2>2
<1>7. /\ {a, b, m, n} \cap T = {} /\ a # n /\ b # m
      /\ h \in {<<>>, <<a>>} /\ k \in {<<>>, <<b>>}
  <2>1. \A x \in T : x[1] = "frame"
    BY DEF FrameOf
  <2>2. /\ a[1] = "type" /\ b[1] = "type" /\ m[1] = "message" /\ n[1] = "message"
        /\ "type" # "frame" /\ "message" # "frame" /\ "message" # "type"
    OBVIOUS
  <2>3. h \in {<<>>, <<a>>} /\ k \in {<<>>, <<b>>}
    <3> HIDE DEF a, b
    <3> QED OBVIOUS
  <2> HIDE DEF a, b, m, n, T, h, k
  <2> QED BY <2>1, <2>2, <2>3
<1>8. CASE bug.stack = <<>> /\ other.stack = <<>>
  <2>1. m = n
    <3>1. <<m>> = <<n>>
      <4> HIDE DEF m, n
      <4> QED BY <1>1, <1>4, <1>8
    <3> HIDE DEF m, n
    <3> QED BY <3>1
  <2>2. Parameterize(SaidBy(bug, o)) = Parameterize(SaidBy(other, o))
    BY <2>1
  <2>3. [i \in DOMAIN bug.message |-> IF bug.message[i].looks = {} THEN bug.message[i].text ELSE ""]
          = [i \in DOMAIN other.message |-> IF other.message[i].looks = {} THEN other.message[i].text ELSE ""]
    BY <2>2, MessagesTell
  <2> QED BY <1>2, <1>5, <1>8, <2>3
<1>9. CASE bug.stack # <<>> /\ other.stack = <<>>
  <2> HIDE DEF c, T, h, a, n
  <2>1. c # <<>> /\ n \notin T /\ a # n /\ h \in {<<>>, <<a>>} /\ c \in Seq(T)
    BY <1>2, <1>3, <1>6, <1>7, <1>9
  <2>2. h \o c # <<n>>
    BY <2>1, KindsTell
  <2> QED BY <1>1, <1>4, <1>9, <2>2
<1>10. CASE bug.stack = <<>> /\ other.stack # <<>>
  <2> HIDE DEF d, T, k, b, m
  <2>1. d # <<>> /\ m \notin T /\ b # m /\ k \in {<<>>, <<b>>} /\ d \in Seq(T)
    BY <1>2, <1>3, <1>6, <1>7, <1>10
  <2>2. k \o d # <<m>>
    BY <2>1, KindsTell
  <2> QED BY <1>1, <1>4, <1>10, <2>2
<1>11. CASE bug.stack # <<>> /\ other.stack # <<>>
  <2>1. h = k /\ c = d
    <3> HIDE DEF a, b, c, d, T, h, k
    <3>1. h \o c = k \o d /\ c # <<>> /\ d # <<>> /\ a \notin T /\ b \notin T
      BY <1>1, <1>2, <1>4, <1>6, <1>7, <1>11
    <3>2. c \in Seq(T) /\ d \in Seq(T)
      BY <1>3
    <3>3. Heads(h, T) /\ Heads(k, T)
      BY <1>7, <3>1 DEF Heads
    <3> QED BY ONLY <3>1, <3>2, <3>3, HeadsTell
  <2>2. bug.type = other.type
    <3>1. a = b => bug.type = other.type
      OBVIOUS
    <3>2. <<a>> # <<>> /\ <<b>> # <<>> /\ (<<a>> = <<b>> => a = b)
      <4> HIDE DEF a, b
      <4> QED OBVIOUS
    <3>3. CASE bug.type # "" /\ other.type # ""
      <4>1. h = <<a>> /\ k = <<b>>
        <5> HIDE DEF a, b
        <5> QED BY <3>3
      <4> HIDE DEF h, k, a, b
      <4> QED BY <2>1, <3>1, <3>2, <4>1
    <3>4. CASE bug.type # "" /\ other.type = ""
      <4>1. h = <<a>> /\ k = <<>>
        <5> HIDE DEF a, b
        <5> QED BY <3>4
      <4> HIDE DEF h, k, a, b
      <4> QED BY <2>1, <3>2, <4>1
    <3>5. CASE bug.type = "" /\ other.type # ""
      <4>1. h = <<>> /\ k = <<b>>
        <5> HIDE DEF a, b
        <5> QED BY <3>5
      <4> HIDE DEF h, k, a, b
      <4> QED BY <2>1, <3>2, <4>1
    <3> QED BY <3>3, <3>4, <3>5
  <2> DEFINE s == Counted(bug)
             t == Counted(other)
  <2>3. DOMAIN s = DOMAIN t /\ \A i \in DOMAIN s : FrameOf(s[i], o) = FrameOf(t[i], o) /\ s[i] \in Places /\ t[i] \in Places
    <3>1. DOMAIN c = DOMAIN s /\ DOMAIN d = DOMAIN t /\ c = d
      BY <2>1
    <3>2. /\ \A i \in DOMAIN s : c[i] = FrameOf(s[i], o) /\ s[i] \in Places
          /\ \A i \in DOMAIN t : d[i] = FrameOf(t[i], o) /\ t[i] \in Places
      BY <1>2
    <3> HIDE DEF c, d, s, t
    <3> QED BY <3>1, <3>2
  <2>4. ASSUME NEW i \in DOMAIN s PROVE Told(s[i]) = Told(t[i])
    <3>1. SUFFICES ASSUME Told(s[i]) # Told(t[i]) PROVE FALSE
      OBVIOUS
    <3>2. ~o.bundled /\ merged(s[i], t[i])
      BY <1>1, <2>3, <3>1, PlacesTell
    <3>3. PICK u \in DOMAIN bug.stack, v \in DOMAIN other.stack : s[i] = bug.stack[u] /\ t[i] = other.stack[v]
      BY <1>2, <2>3
    <3>4. blurred
      <4> HIDE DEF merged, s, t
      <4> QED BY <3>2, <3>3
    <3> HIDE DEF blurred
    <3> QED BY <1>1, <3>2, <3>4
  <2>5. [i \in DOMAIN s |-> Told(s[i])] = [i \in DOMAIN t |-> Told(t[i])]
    BY <2>3, <2>4
  <2> QED BY <1>2, <1>5, <1>11, <2>2, <2>5
<1> QED BY <1>8, <1>9, <1>10, <1>11

\* Two bugs are not one issue.
THEOREM BugsAreTwoGroups == CallTypes => BugsStayApart
<1> SUFFICES ASSUME CallTypes, part = "two bugs"
             PROVE  TwoBugsTwoGroups(call.bug, call.other, call.one, Places)
  BY DEF BugsStayApart
<1>1. call \in [bug : Bug, other : Bug, one : BugOccurrence] /\ Unlike(call.one)
  BY DEF CallTypes
<1>2. call.bug \in Bug /\ call.other \in Bug /\ call.one \in BugOccurrence
  BY <1>1
<1> QED BY <1>1, <1>2, TwoBugsAreTwoGroups

----------------------------------------------------------------------------
(***************************************************************************)
(* Searches.  The lexer is followed over what a clause is written with,    *)
(* part by part (Reads), then over the clauses one after the other; what   *)
(* it makes of a clause is then compared with what the clause says.        *)
(***************************************************************************)
\* The lexer, its state s before it reads text, is in the state t behind it.
Reads(s, text, t) ==
  \E run : /\ run[0] = s /\ run[Len(text)] = t
           /\ \A n \in 0 .. Len(text) : n < Len(text) => run[n + 1] = LexChar(run[n], text[n + 1])

LEMMA ReadsNothing ==
  ASSUME NEW s
  PROVE  Reads(s, <<>>, s)
<1> DEFINE run == [n \in 0 .. 0 |-> s]
<1>1. run[0] = s /\ Len(<<>>) = 0
  OBVIOUS
<1> HIDE DEF run
<1> QED BY <1>1 DEF Reads

\* What is read in two parts is read.
LEMMA ReadsOn ==
  ASSUME NEW s, NEW t, NEW r, NEW u \in Chars, NEW v \in Chars, Reads(s, u, t), Reads(t, v, r)
  PROVE  Reads(s, u \o v, r)
<1>1. PICK f : /\ f[0] = s /\ f[Len(u)] = t
               /\ \A n \in 0 .. Len(u) : n < Len(u) => f[n + 1] = LexChar(f[n], u[n + 1])
  BY DEF Reads
<1>2. PICK g : /\ g[0] = t /\ g[Len(v)] = r
               /\ \A n \in 0 .. Len(v) : n < Len(v) => g[n + 1] = LexChar(g[n], v[n + 1])
  BY DEF Reads
<1> DEFINE U == Len(u)
           V == Len(v)
           w == u \o v
           run == [n \in 0 .. U + V |-> IF n <= U THEN f[n] ELSE g[n - U]]
<1>3. /\ U \in Nat /\ V \in Nat /\ w \in Chars /\ Len(w) = U + V
      /\ \A i \in 1 .. U + V : w[i] = IF i <= U THEN u[i] ELSE v[i - U]
  BY ConcatProperties DEF Chars
<1>4. /\ \A n \in 0 .. U : run[n] = f[n]
      /\ \A n \in 0 .. V : run[U + n] = g[n]
  <2>1. \A n \in 0 .. U : n \in 0 .. U + V /\ n <= U
    BY <1>3
  <2>2. \A n \in 0 .. V : U + n \in 0 .. U + V /\ (U + n <= U => n = 0 /\ U + n = U) /\ (U + n) - U = n
    BY <1>3
  <2> HIDE DEF U, V
  <2> QED BY <1>1, <1>2, <2>1, <2>2 DEF U
<1> HIDE DEF run, w
<1>5. ASSUME NEW n \in 0 .. U + V, n < U + V PROVE run[n + 1] = LexChar(run[n], w[n + 1])
  <2>1. CASE n < U
    <3>1. n \in 0 .. U /\ n + 1 \in 0 .. U /\ n + 1 \in 1 .. U + V /\ n + 1 <= U
      BY <1>3, <2>1
    <3>2. w[n + 1] = u[n + 1] /\ run[n] = f[n] /\ run[n + 1] = f[n + 1]
      BY <1>3, <1>4, <3>1
    <3> QED BY <1>1, <2>1, <3>1, <3>2
  <2>2. CASE U <= n
    <3> DEFINE m == n - U
    <3>1. m \in 0 .. V /\ m < V /\ m + 1 \in 0 .. V /\ U + m = n /\ U + (m + 1) = n + 1
          /\ n + 1 \in 1 .. U + V /\ ~(n + 1 <= U) /\ (n + 1) - U = m + 1
      BY <1>3, <1>5, <2>2
    <3> HIDE DEF m
    <3>2. w[n + 1] = v[m + 1] /\ run[n] = g[m] /\ run[n + 1] = g[m + 1]
      BY <1>3, <1>4, <3>1
    <3> QED BY <1>2, <3>1, <3>2
  <2> QED BY <1>3, <2>1, <2>2
<1>6. run[0] = s /\ run[U + V] = r
  <2>1. 0 \in 0 .. U /\ V \in 0 .. V
    BY <1>3
  <2> QED BY <1>1, <1>2, <1>4, <2>1
<1> HIDE DEF U, V
<1>7. run[Len(w)] = r /\ \A n \in 0 .. Len(w) : n < Len(w) => run[n + 1] = LexChar(run[n], w[n + 1])
  BY <1>3, <1>5, <1>6
<1> QED BY <1>6, <1>7 DEF Reads, w

LEMMA ReadsOne ==
  ASSUME NEW s, NEW c
  PROVE  Reads(s, <<c>>, LexChar(s, c))
<1> DEFINE t == LexChar(s, c)
           w == <<c>>
           run == [n \in 0 .. 1 |-> IF n = 0 THEN s ELSE t]
<1>1. run[0] = s /\ run[1] = t /\ Len(w) = 1 /\ w[1] = c
  OBVIOUS
<1>2. t = LexChar(s, c)
  OBVIOUS
<1> HIDE DEF run, t, w
<1>3. \A n \in 0 .. Len(w) : n < Len(w) => n = 0 /\ n + 1 = 1
  BY <1>1
<1>4. \A n \in 0 .. Len(w) : n < Len(w) => run[n + 1] = LexChar(run[n], w[n + 1])
  BY <1>1, <1>2, <1>3
<1>5. Reads(s, w, t)
  BY <1>1, <1>4 DEF Reads
<1> QED BY <1>5 DEF t, w

\* The text is read to its end, and the last token is flushed.
LEMMA LexIs ==
  ASSUME NEW text \in Chars, NEW t, Reads(NoToken, text, t)
  PROVE  lex(text) = flush(t).tokens
<1> DEFINE N == Len(text)
           step(f) == [n \in 0 .. N |-> IF n = 0 THEN NoToken ELSE LexChar(f[n - 1], text[n])]
<1>1. PICK run : /\ run[0] = NoToken /\ run[N] = t
                 /\ \A n \in 0 .. N : n < N => run[n + 1] = LexChar(run[n], text[n + 1])
  BY DEF Reads
<1>2. N \in Nat
  BY TextIs
<1> DEFINE h == [n \in 0 .. N |-> run[n]]
<1>3. h = step(h)
  <2>1. ASSUME NEW n \in 0 .. N, n # 0 PROVE h[n - 1] = run[n - 1] /\ run[n] = LexChar(run[n - 1], text[n])
    <3> DEFINE m == n - 1
    <3>1. m \in 0 .. N /\ m < N /\ m + 1 = n
      BY <1>2, <2>1
    <3> HIDE DEF m, N
    <3>2. h[m] = run[m] /\ run[m + 1] = LexChar(run[m], text[m + 1])
      BY <1>1, <3>1
    <3> QED BY <3>1, <3>2 DEF m
  <2>2. \A n \in 0 .. N : run[n] = IF n = 0 THEN NoToken ELSE LexChar(h[n - 1], text[n])
    <3> HIDE DEF h, N
    <3> QED BY <1>1, <2>1
  <2> HIDE DEF N
  <2> QED BY <2>2
<1> DEFINE after == CHOOSE f : f = step(f)
<1>4. after = step(after)
  <2> HIDE DEF step, h
  <2> QED BY <1>3
<1>5. lex(text) = flush(after[N]).tokens
  BY DEF lex
<1> HIDE DEF after
<1> DEFINE B == {k \in 0 .. N : after[k] = run[k]}
<1>6. 0 \in B
  <2>1. 0 \in 0 .. N
    BY <1>2
  <2> HIDE DEF N
  <2> QED BY <1>1, <1>4, <2>1
<1>7. ASSUME NEW k \in 0 .. N, k \in B, k < N PROVE k + 1 \in B
  <2>1. k + 1 \in 0 .. N /\ k + 1 # 0 /\ (k + 1) - 1 = k
    BY <1>2, <1>7
  <2> HIDE DEF N
  <2>2. after[k + 1] = LexChar(after[(k + 1) - 1], text[k + 1])
    BY <1>4, <2>1
  <2> QED BY <1>1, <1>7, <2>1, <2>2
<1>8. N \in B
  <2>1. N \in 0 .. N /\ \A k \in 0 .. N : k \in B /\ k < N => k + 1 \in B
    BY <1>2, <1>7
  <2> HIDE DEF B, N
  <2> QED BY <1>2, <1>6, <2>1, UpTo
<1> QED BY <1>1, <1>5, <1>8
----------------------------------------------------------------------------
\* The lexer's variables in a name or a word, in a value, between its quotes, and
\* behind them.
Holds(tokens, current, field, negated, inQuote, quoted, hasPair) ==
  [tokens |-> tokens, current |-> current, field |-> field, negated |-> negated,
   inQuote |-> inQuote, quoted |-> quoted, hasPair |-> hasPair]
InName(made, n, w)   == Holds(made, w, <<>>, n, FALSE, FALSE, FALSE)
InValue(made, c, w)  == Holds(made, w, c.field, c.negated, FALSE, FALSE, c.field # <<>>)
InQuotes(made, c, w) == Holds(made, w, c.field, c.negated, TRUE, TRUE, c.field # <<>>)
Behind(made, c, w)   == Holds(made, w, c.field, c.negated, FALSE, TRUE, c.field # <<>>)

\* Between two clauses.
Fresh(made) == InName(made, FALSE, <<>>)

\* What a clause is made into.
TokenOf(c, w) ==
  [pair |-> c.field # <<>>, field |-> c.field, value |-> w, negated |-> c.negated, quoted |-> c.quoted]

\* What is no more than itself in a name, in a value and between quotes.
InNames(w, a) == a # "\"" /\ a # " " /\ (a = ":" => w = <<>>) /\ (a \in {"!", "-"} => w # <<>>)
InValues(a)   == a # "\"" /\ a # " "
Quotable(a)   == a # "\""

LEMMA LexNot ==
  ASSUME NEW made
  PROVE  LexChar(Fresh(made), "!") = InName(made, TRUE, <<>>)
  BY DEF Fresh, InName, Holds, LexChar, Space

LEMMA LexInName ==
  ASSUME NEW made, NEW n, NEW w, NEW a, InNames(w, a)
  PROVE  LexChar(InName(made, n, w), a) = InName(made, n, Append(w, a))
  BY DEF InNames, InName, Holds, LexChar, Space

LEMMA LexColon ==
  ASSUME NEW made, NEW c, c.field # <<>>
  PROVE  LexChar(InName(made, c.negated, c.field), ":") = InValue(made, c, <<>>)
  BY DEF InName, InValue, Holds, LexChar, Space

LEMMA LexInValue ==
  ASSUME NEW made, NEW c, NEW w, NEW a, InValues(a), c.field # <<>>
  PROVE  LexChar(InValue(made, c, w), a) = InValue(made, c, Append(w, a))
  BY DEF InValues, InValue, Holds, LexChar, Space

LEMMA LexOpens ==
  ASSUME NEW made, NEW c, NEW w
  PROVE  LexChar(InValue(made, c, w), "\"") = InQuotes(made, c, w)
  BY DEF InValue, InQuotes, Holds, LexChar

LEMMA LexInQuotes ==
  ASSUME NEW made, NEW c, NEW w, NEW a, Quotable(a)
  PROVE  LexChar(InQuotes(made, c, w), a) = InQuotes(made, c, Append(w, a))
  BY DEF Quotable, InQuotes, Holds, LexChar

LEMMA LexCloses ==
  ASSUME NEW made, NEW c, NEW w
  PROVE  LexChar(InQuotes(made, c, w), "\"") = Behind(made, c, w)
  BY DEF InQuotes, Behind, Holds, LexChar

\* A word without quotes.
LEMMA WordIsValue ==
  ASSUME NEW made, NEW c, NEW w, c.field = <<>>
  PROVE  InValue(made, c, w) = InName(made, c.negated, w)
  BY DEF InName, InValue, Holds

\* A space ends a clause, with a token unless there is nothing.
Alike(a, b, tokens) == [tokens |-> tokens, current |-> a, field |-> a, negated |-> b,
                        inQuote |-> b, quoted |-> b, hasPair |-> b]

LEMMA FreshIs ==
  ASSUME NEW more
  PROVE  [NoToken EXCEPT !.inQuote = FALSE, !.tokens = more] = Fresh(more)
<1> DEFINE none == <<>>
           no == FALSE
<1>1. NoToken = Alike(none, no, none) /\ Fresh(more) = Alike(none, no, more) /\ no = FALSE
  BY DEF NoToken, Alike, Fresh, InName, Holds
<1> HIDE DEF none, no
<1>2. [Alike(none, no, none) EXCEPT !.inQuote = no] = Alike(none, no, none)
  BY DEF Alike
<1>3. [Alike(none, no, none) EXCEPT !.tokens = more] = Alike(none, no, more)
  BY DEF Alike
<1> QED BY <1>1, <1>2, <1>3

LEMMA Flushes ==
  ASSUME NEW s, s.inQuote = FALSE
  PROVE  flush(s) = Fresh(IF s.current = <<>> /\ ~s.quoted THEN s.tokens
                          ELSE Append(s.tokens, [pair |-> s.hasPair, field |-> s.field, value |-> s.current,
                                                 negated |-> s.negated, quoted |-> s.quoted]))
<1> DEFINE x == IF s.current = <<>> /\ ~s.quoted THEN s.tokens
                ELSE Append(s.tokens, [pair |-> s.hasPair, field |-> s.field, value |-> s.current,
                                       negated |-> s.negated, quoted |-> s.quoted])
<1>1. flush(s) = [NoToken EXCEPT !.inQuote = FALSE, !.tokens = x]
  BY DEF flush
<1> HIDE DEF x
<1>2. flush(s) = Fresh(x)
  BY <1>1, FreshIs
<1> QED BY <1>2 DEF x

IsQuoted(c)    == c.quoted = TRUE
IsNotQuoted(c) == c.quoted = FALSE

LEMMA LexSpace ==
  ASSUME NEW made, NEW c, NEW w, IsNotQuoted(c)
  PROVE  LexChar(InValue(made, c, w), " ")
           = Fresh(IF w = <<>> THEN made ELSE Append(made, TokenOf(c, w)))
<1> DEFINE s == InValue(made, c, w)
<1>1. c.quoted = FALSE
  BY DEF IsNotQuoted
<1>2. LexChar(s, " ") = flush(s)
  BY DEF InValue, Holds, LexChar, Space
<1>3. /\ s.inQuote = FALSE /\ s.current = w /\ s.tokens = made /\ s.field = c.field
      /\ s.negated = c.negated /\ s.quoted = FALSE /\ s.hasPair = (c.field # <<>>)
  BY DEF InValue, Holds
<1> HIDE DEF s
<1>4. CASE w = <<>>
  BY <1>2, <1>3, <1>4, Flushes DEF s
<1>5. CASE w # <<>>
  <2>1. [pair |-> s.hasPair, field |-> s.field, value |-> s.current,
         negated |-> s.negated, quoted |-> s.quoted] = TokenOf(c, w)
    BY <1>1, <1>3 DEF TokenOf
  <2> QED BY <1>2, <1>3, <1>5, <2>1, Flushes DEF s
<1> QED BY <1>4, <1>5

LEMMA LexSpaceBehind ==
  ASSUME NEW made, NEW c, NEW w, IsQuoted(c)
  PROVE  LexChar(Behind(made, c, w), " ") = Fresh(Append(made, TokenOf(c, w)))
<1> DEFINE s == Behind(made, c, w)
<1>1. c.quoted = TRUE
  BY DEF IsQuoted
<1>2. LexChar(s, " ") = flush(s)
  BY DEF Behind, Holds, LexChar, Space
<1>3. /\ s.inQuote = FALSE /\ s.current = w /\ s.tokens = made /\ s.field = c.field
      /\ s.negated = c.negated /\ s.quoted = TRUE /\ s.hasPair = (c.field # <<>>)
  BY DEF Behind, Holds
<1> HIDE DEF s
<1>4. [pair |-> s.hasPair, field |-> s.field, value |-> s.current,
       negated |-> s.negated, quoted |-> s.quoted] = TokenOf(c, w)
  BY <1>1, <1>3 DEF TokenOf
<1> QED BY <1>2, <1>3, <1>4, Flushes DEF s

----------------------------------------------------------------------------
\* Text that is written as it stands.
LEMMA WrittenOn ==
  ASSUME NEW u \in Chars, NEW w \in Chars
  PROVE  /\ u \o SubSeq(w, 1, 0) = u /\ u \o SubSeq(w, 1, Len(w)) = u \o w
         /\ \A n \in 0 .. Len(w) : n < Len(w) =>
              Append(u \o SubSeq(w, 1, n), w[n + 1]) = u \o SubSeq(w, 1, n + 1)
<1>1. u \in Seq(Character) /\ w \in Seq(Character) /\ Len(w) \in Nat
  BY DEF Chars
<1>2. SubSeq(w, 1, 0) = <<>> /\ SubSeq(w, 1, Len(w)) = w
  BY <1>1
<1>3. u \o <<>> = u
  BY Joined
<1>4. ASSUME NEW n \in 0 .. Len(w), n < Len(w)
      PROVE  Append(u \o SubSeq(w, 1, n), w[n + 1]) = u \o SubSeq(w, 1, n + 1)
  <2> DEFINE x == SubSeq(w, 1, n)
             y == SubSeq(w, 1, n + 1)
             a == w[n + 1]
  <2>1. a \in Character
    BY <1>1, <1>4
  <2>2. x \in Seq(Character) /\ y = Append(x, a)
    BY <1>1, <1>4
  <2> HIDE DEF x, y, a
  <2>3. Append(u \o x, a) = u \o Append(x, a)
    <3>1. u \o x \in Seq(Character)
      BY <1>1, <2>2, ConcatProperties
    <3>2. Append(u \o x, a) = (u \o x) \o <<a>> /\ Append(x, a) = x \o <<a>> /\ <<a>> \in Seq(Character)
      BY <2>1, <2>2, <3>1
    <3>3. (u \o x) \o <<a>> = u \o (x \o <<a>>)
      BY <1>1, <2>2, <3>2, ConcatAssociative
    <3> QED BY <3>2, <3>3
  <2>4. Append(u \o x, a) = u \o y
    BY <2>2, <2>3
  <2> QED BY <2>4 DEF x, y, a
<1> QED BY <1>2, <1>3, <1>4

\* Characters that are written behind what there is.
With(s, w)       == Holds(s.tokens, w, s.field, s.negated, s.inQuote, s.quoted, s.hasPair)
Appends(s, w, a) == LexChar(With(s, w), a) = With(s, Append(w, a))

LEMMA ReadsText ==
  ASSUME NEW s, NEW u \in Chars, NEW w \in Chars,
         \A k \in 0 .. Len(w) : k < Len(w) => Appends(s, u \o SubSeq(w, 1, k), w[k + 1])
  PROVE  Reads(With(s, u), w, With(s, u \o w))
<1> DEFINE N == Len(w)
           run == [k \in 0 .. N |-> With(s, u \o SubSeq(w, 1, k))]
<1>1. N \in Nat
  BY TextIs
<1>2. run[0] = With(s, u) /\ run[N] = With(s, u \o w)
  <2>1. 0 \in 0 .. N /\ N \in 0 .. N
    BY ONLY <1>1
  <2> QED BY <2>1, WrittenOn
<1>3. ASSUME NEW k \in 0 .. N, k < N PROVE run[k + 1] = LexChar(run[k], w[k + 1])
  <2> DEFINE x == u \o SubSeq(w, 1, k)
             a == w[k + 1]
  <2>1. k + 1 \in 0 .. N
    BY ONLY <1>1, <1>3
  <2>2. run[k + 1] = With(s, Append(x, a)) /\ run[k] = With(s, x)
    BY <1>3, <2>1, WrittenOn
  <2>3. LexChar(With(s, x), a) = With(s, Append(x, a))
    BY <1>3 DEF Appends
  <2> HIDE DEF run, x
  <2> QED BY <2>2, <2>3
<1> HIDE DEF run
<1> QED BY <1>2, <1>3 DEF Reads

\* The characters of a text, by their places.
LEMMA PlacesIn ==
  ASSUME NEW w \in Chars
  PROVE  \A k \in 0 .. Len(w) : k < Len(w) =>
           /\ k + 1 \in 1 .. Len(w)
           /\ (k + 1 \notin 2 .. Len(w) => k = 0)
           /\ (SubSeq(w, 1, k) = <<>> <=> k = 0)
           /\ (k = 0 => w # <<>> /\ w[k + 1] = w[1])
<1> DEFINE N == Len(w)
<1>1. N \in Nat /\ w \in Seq(Character)
  BY TextIs DEF Chars
<1> SUFFICES ASSUME NEW k \in 0 .. N, k < N
             PROVE  /\ k + 1 \in 1 .. N
                    /\ (k + 1 \notin 2 .. N => k = 0)
                    /\ (SubSeq(w, 1, k) = <<>> <=> k = 0)
                    /\ (k = 0 => w # <<>> /\ w[k + 1] = w[1])
  OBVIOUS
<1>2. Len(SubSeq(w, 1, k)) = k
  BY <1>1
<1>3. k + 1 \in 1 .. N /\ (k + 1 \notin 2 .. N => k = 0)
  BY <1>1
<1>4. SubSeq(w, 1, k) = <<>> <=> k = 0
  BY <1>1, <1>2
<1>5. k = 0 => w # <<>> /\ w[k + 1] = w[1]
  BY <1>1
<1> QED BY <1>3, <1>4, <1>5

LEMMA WithIs ==
  /\ \A made, n, u, x : With(InName(made, n, u), x) = InName(made, n, x)
  /\ \A made, c, u, x : With(InValue(made, c, u), x) = InValue(made, c, x)
  /\ \A made, c, u, x : With(InQuotes(made, c, u), x) = InQuotes(made, c, x)
  BY DEF With, InName, InValue, InQuotes, Holds

LEMMA NamesAppend ==
  ASSUME NEW made, NEW n, NEW u, NEW w, NEW a, InNames(w, a)
  PROVE  Appends(InName(made, n, u), w, a)
  BY LexInName, WithIs DEF Appends

LEMMA ValuesAppend ==
  ASSUME NEW made, NEW c, NEW u, NEW w, NEW a, InValues(a), c.field # <<>>
  PROVE  Appends(InValue(made, c, u), w, a)
  BY LexInValue, WithIs DEF Appends

LEMMA QuotesAppend ==
  ASSUME NEW made, NEW c, NEW u, NEW w, NEW a, Quotable(a)
  PROVE  Appends(InQuotes(made, c, u), w, a)
  BY LexInQuotes, WithIs DEF Appends

LEMMA ReadsName ==
  ASSUME NEW made, NEW n, NEW w \in Chars,
         \A k \in 0 .. Len(w) : k < Len(w) => InNames(SubSeq(w, 1, k), w[k + 1])
  PROVE  Reads(InName(made, n, <<>>), w, InName(made, n, w))
<1> DEFINE s == InName(made, n, <<>>)
<1>1. \A x : With(s, x) = InName(made, n, x)
  BY WithIs
<1>2. <<>> \in Chars /\ <<>> \o w = w
  BY TextIs, Joined
<1>3. ASSUME NEW k \in 0 .. Len(w), k < Len(w) PROVE Appends(s, <<>> \o SubSeq(w, 1, k), w[k + 1])
  <2> DEFINE x == SubSeq(w, 1, k)
             a == w[k + 1]
  <2>1. <<>> \o x = x
    BY DEF Chars
  <2>2. InNames(x, a)
    BY <1>3
  <2> HIDE DEF x, a
  <2>3. Appends(s, x, a)
    BY <2>2, NamesAppend
  <2> QED BY <2>1, <2>3 DEF x, a
<1> HIDE DEF s
<1>4. Reads(With(s, <<>>), w, With(s, <<>> \o w))
  BY <1>2, <1>3, ReadsText
<1> QED BY <1>1, <1>2, <1>4

LEMMA ReadsValue ==
  ASSUME NEW made, NEW c, NEW u \in Chars, NEW w \in Chars, c.field # <<>>,
         \A i \in 1 .. Len(w) : InValues(w[i])
  PROVE  Reads(InValue(made, c, u), w, InValue(made, c, u \o w))
<1> DEFINE s == InValue(made, c, u)
<1>1. With(s, u) = InValue(made, c, u) /\ With(s, u \o w) = InValue(made, c, u \o w)
  BY WithIs
<1>2. ASSUME NEW k \in 0 .. Len(w), k < Len(w) PROVE Appends(s, u \o SubSeq(w, 1, k), w[k + 1])
  BY <1>2, PlacesIn, ValuesAppend
<1> HIDE DEF s
<1>3. Reads(With(s, u), w, With(s, u \o w))
  BY <1>2, ReadsText
<1>4. Reads(InValue(made, c, u), w, InValue(made, c, u \o w))
  BY ONLY <1>1, <1>3
<1> QED BY <1>4

LEMMA ReadsQuotes ==
  ASSUME NEW made, NEW c, NEW u \in Chars, NEW w \in Chars, \A i \in 1 .. Len(w) : Quotable(w[i])
  PROVE  Reads(InQuotes(made, c, u), w, InQuotes(made, c, u \o w))
<1> DEFINE s == InQuotes(made, c, u)
<1>1. With(s, u) = InQuotes(made, c, u) /\ With(s, u \o w) = InQuotes(made, c, u \o w)
  BY WithIs
<1>2. ASSUME NEW k \in 0 .. Len(w), k < Len(w) PROVE Appends(s, u \o SubSeq(w, 1, k), w[k + 1])
  BY <1>2, PlacesIn, QuotesAppend
<1> HIDE DEF s
<1>3. Reads(With(s, u), w, With(s, u \o w))
  BY <1>2, ReadsText
<1>4. Reads(InQuotes(made, c, u), w, InQuotes(made, c, u \o w))
  BY ONLY <1>1, <1>3
<1> QED BY <1>4

----------------------------------------------------------------------------
\* A name may hold no colon, unless it is in front, and no mark in front.
NotColon(a) == a # ":"
NoMark(a)   == a \notin {"!", "-"}
IsName(w)   == \A k \in 0 .. Len(w) : k < Len(w) => InNames(SubSeq(w, 1, k), w[k + 1])
IsValue(w)  == \A i \in 1 .. Len(w) : InValues(w[i])

LEMMA InNamesIs ==
  ASSUME NEW w, NEW a, InValues(a), NotColon(a) \/ w = <<>>, NoMark(a) \/ w # <<>>
  PROVE  InNames(w, a)
  BY Zenon DEF InNames, InValues, NotColon, NoMark

LEMMA NamesAre ==
  ASSUME NEW w \in Chars, IsValue(w), \A i \in 2 .. Len(w) : NotColon(w[i]),
         w # <<>> => NoMark(w[1])
  PROVE  IsName(w)
<1>1. ASSUME NEW k \in 0 .. Len(w), k < Len(w) PROVE InNames(SubSeq(w, 1, k), w[k + 1])
  <2> DEFINE x == SubSeq(w, 1, k)
             a == w[k + 1]
  <2>1. /\ k + 1 \in 1 .. Len(w) /\ (k + 1 \notin 2 .. Len(w) => k = 0)
        /\ (x = <<>> <=> k = 0) /\ (k = 0 => w # <<>> /\ a = w[1])
    BY <1>1, PlacesIn
  <2>2. InValues(a)
    BY <2>1 DEF IsValue
  <2>3. NotColon(a) \/ x = <<>>
    BY <2>1
  <2>4. NoMark(a) \/ x # <<>>
    BY <2>1
  <2> HIDE DEF x, a
  <2>5. InNames(x, a)
    BY <2>2, <2>3, <2>4, InNamesIs
  <2> QED BY <2>5 DEF x, a
<1> QED BY <1>1 DEF IsName

\* What Writable says of the parts of a clause.
LEMMA WritableField ==
  ASSUME NEW c \in Clause, Writable(c)
  PROVE  IsName(c.field)
<1> DEFINE w == c.field
<1>1. w \in Chars
  BY DEF Clause
<1>2. IsValue(w)
  BY DEF IsValue, InValues, Writable
<1>3. \A i \in 2 .. Len(w) : NotColon(w[i])
  <2>1. \A i \in 1 .. Len(w) : NotColon(w[i])
    BY Zenon DEF NotColon, Writable
  <2>2. \A i \in 2 .. Len(w) : i \in 1 .. Len(w)
    BY ONLY <1>1, TextIs
  <2> HIDE DEF w
  <2> QED BY ONLY <2>1, <2>2
<1>4. w # <<>> => NoMark(w[1])
  BY Zenon DEF NoMark, Writable
<1> HIDE DEF w
<1>5. IsName(w)
  BY ONLY <1>1, <1>2, <1>3, <1>4, NamesAre
<1> QED BY <1>5 DEF w

LEMMA WritableOp ==
  ASSUME NEW c \in Clause, Writable(c)
  PROVE  c.op \in Chars /\ IsValue(c.op) /\ (c.field = <<>> => c.op = <<>>)
<1>1. c.op \in {<<>>, <<">">>, <<"<">>, <<">", "=">>, <<"<", "=">>}
  BY DEF Clause
<1>2. \A a : a \in {">", "<", "="} => InValues(a) /\ a \in Character
  BY DEF InValues, Character
<1>3. \A a : a \in {">", "<", "="} => <<a>> \in Chars /\ IsValue(<<a>>)
  <2> SUFFICES ASSUME NEW a, a \in {">", "<", "="} PROVE <<a>> \in Chars /\ IsValue(<<a>>)
    OBVIOUS
  <2>1. InValues(a) /\ a \in Character
    BY <1>2
  <2> QED BY ONLY <2>1 DEF IsValue, Chars
<1>4. \A a, b : a \in {">", "<", "="} /\ b \in {">", "<", "="} => <<a, b>> \in Chars /\ IsValue(<<a, b>>)
  <2> SUFFICES ASSUME NEW a, NEW b, a \in {">", "<", "="}, b \in {">", "<", "="}
               PROVE  <<a, b>> \in Chars /\ IsValue(<<a, b>>)
    OBVIOUS
  <2>1. InValues(a) /\ a \in Character /\ InValues(b) /\ b \in Character
    BY <1>2
  <2> QED BY ONLY <2>1 DEF IsValue, Chars
<1>5. <<>> \in Chars /\ IsValue(<<>>)
  <2>1. <<>> \in Chars
    BY Joined
  <2>2. \A i \in 1 .. 0 : FALSE
    OBVIOUS
  <2>3. Len(<<>>) = 0
    OBVIOUS
  <2>4. \A i \in 1 .. Len(<<>>) : FALSE
    BY ONLY <2>2, <2>3
  <2> QED BY ONLY <2>1, <2>4 DEF IsValue
<1>6. c.op \in Chars /\ IsValue(c.op)
  BY <1>1, <1>3, <1>4, <1>5
<1> QED BY <1>6 DEF Writable

LEMMA WritableValue ==
  ASSUME NEW c \in Clause, Writable(c)
  PROVE  /\ \A i \in 1 .. Len(c.value) : Quotable(c.value[i])
         /\ ~c.quoted => IsValue(c.value)
         /\ ~c.quoted /\ c.field = <<>> => IsName(c.value)
<1> DEFINE w == c.value
<1>1. w \in Chars
  BY DEF Clause
<1>2. \A i \in 1 .. Len(w) : Quotable(w[i])
  BY DEF Quotable, Writable
<1>3. ASSUME ~c.quoted PROVE IsValue(w)
  BY <1>3 DEF IsValue, InValues, Writable
<1>4. ASSUME ~c.quoted, c.field = <<>> PROVE IsName(w)
  <2>1. IsValue(w)
    BY <1>3, <1>4
  <2>2. \A i \in 2 .. Len(w) : NotColon(w[i])
    BY <1>4, Zenon DEF NotColon, Writable
  <2>3. w # <<>> => NoMark(w[1])
    BY <1>4, Zenon DEF NoMark, Writable
  <2> HIDE DEF w
  <2> QED BY ONLY <1>1, <2>1, <2>2, <2>3, NamesAre
<1> QED BY <1>2, <1>3, <1>4

----------------------------------------------------------------------------
\* A clause, part by part.
MarkOf(c) == IF c.negated THEN <<"!">> ELSE <<>>
FieldOf(c) == IF c.field # <<>> THEN Append(c.field, ":") ELSE <<>>

\* Nothing but a field.
Mute(c) == c.op \o c.value = <<>> /\ ~c.quoted

LEMMA ClauseIs ==
  ASSUME NEW c \in Clause
  PROVE  c.field \in Chars /\ c.value \in Chars /\ c.negated \in BOOLEAN /\ c.quoted \in BOOLEAN
  BY DEF Clause

LEMMA Marks == <<"!">> \in Chars /\ <<":">> \in Chars /\ <<"\"">> \in Chars /\ <<" ">> \in Chars
<1>1. "!" \in Character /\ ":" \in Character /\ "\"" \in Character /\ " " \in Character
  BY DEF Character
<1> QED BY <1>1, Joined

LEMMA AppendIs ==
  ASSUME NEW w \in Chars, NEW a
  PROVE  Append(w, a) = w \o <<a>>
  BY DEF Chars

LEMMA ReadsFront ==
  ASSUME NEW made, NEW c \in Clause
  PROVE  MarkOf(c) \in Chars /\ Reads(Fresh(made), MarkOf(c), InName(made, c.negated, <<>>))
<1>1. CASE c.negated
  <2>1. c.negated = TRUE /\ MarkOf(c) = <<"!">>
    BY <1>1 DEF Clause, MarkOf
  <2>2. Reads(Fresh(made), <<"!">>, LexChar(Fresh(made), "!"))
    BY ReadsOne
  <2>3. <<"!">> \in Chars
    BY DEF Chars, Character
  <2> QED BY <2>1, <2>2, <2>3, LexNot
<1>2. CASE ~c.negated
  <2>1. c.negated = FALSE /\ MarkOf(c) = <<>>
    BY <1>2 DEF Clause, MarkOf
  <2>2. <<>> \in Chars
    BY Joined
  <2> QED BY <2>1, <2>2, ReadsNothing DEF Fresh
<1> QED BY <1>1, <1>2

LEMMA ReadsHead ==
  ASSUME NEW made, NEW c \in Clause, Writable(c)
  PROVE  FieldOf(c) \in Chars /\ Reads(InName(made, c.negated, <<>>), FieldOf(c), InValue(made, c, <<>>))
<1>1. CASE c.field # <<>>
  <2> DEFINE w == c.field
             n == c.negated
             colon == <<":">>
             s == InName(made, n, <<>>)
             t == InName(made, n, w)
             r == InValue(made, c, <<>>)
  <2>1. w \in Chars /\ colon \in Chars
    BY ClauseIs, Marks
  <2>2. Reads(s, w, t)
    BY <2>1, WritableField, ReadsName DEF IsName
  <2>3. Reads(t, colon, r)
    <3>1. LexChar(t, ":") = r
      BY <1>1, LexColon
    <3>2. Reads(t, colon, LexChar(t, ":"))
      BY ReadsOne
    <3> HIDE DEF t, r, colon
    <3> QED BY ONLY <3>1, <3>2
  <2>4. FieldOf(c) = w \o colon
    <3>1. Append(w, ":") = w \o colon
      BY <2>1, AppendIs
    <3> QED BY <1>1, <3>1 DEF FieldOf
  <2> HIDE DEF w, colon, s, t, r
  <2>5. Reads(s, w \o colon, r) /\ w \o colon \in Chars
    BY ONLY <2>1, <2>2, <2>3, ReadsOn, Joined
  <2>6. Reads(s, FieldOf(c), r) /\ FieldOf(c) \in Chars
    BY ONLY <2>4, <2>5
  <2> QED BY <2>6 DEF s, r
<1>2. CASE c.field = <<>>
  <2> DEFINE none == <<>>
  <2>1. none \in Chars /\ FieldOf(c) = none /\ \A s : Reads(s, none, s)
    BY <1>2, Joined, ReadsNothing DEF FieldOf
  <2> HIDE DEF none
  <2>2. InValue(made, c, none) = InName(made, c.negated, none)
    BY <1>2, WordIsValue
  <2>3. Reads(InName(made, c.negated, none), FieldOf(c), InValue(made, c, none)) /\ FieldOf(c) \in Chars
    BY <2>1, <2>2
  <2> QED BY <2>3 DEF none
<1> QED BY <1>1, <1>2

LEMMA ReadsOp ==
  ASSUME NEW made, NEW c \in Clause, Writable(c)
  PROVE  Reads(InValue(made, c, <<>>), c.op, InValue(made, c, c.op))
<1>1. c.op \in Chars /\ IsValue(c.op) /\ (c.field = <<>> => c.op = <<>>) /\ <<>> \in Chars
  BY WritableOp, Joined
<1>2. CASE c.field = <<>>
  <2>1. c.op = <<>>
    BY <1>1, <1>2
  <2> QED BY <2>1, ReadsNothing
<1>3. CASE c.field # <<>>
  <2> DEFINE w == c.op
             none == <<>>
  <2>1. none \o w = w
    BY <1>1, Joined
  <2>2. w \in Chars /\ none \in Chars /\ \A i \in 1 .. Len(w) : InValues(w[i])
    BY <1>1 DEF IsValue
  <2> HIDE DEF w, none
  <2>3. Reads(InValue(made, c, none), w, InValue(made, c, none \o w))
    BY ONLY <1>3, <2>2, ReadsValue
  <2>4. Reads(InValue(made, c, none), w, InValue(made, c, w))
    BY ONLY <2>1, <2>3
  <2> QED BY <2>4 DEF w, none
<1> QED BY <1>2, <1>3

LEMMA ReadsPlainValue ==
  ASSUME NEW made, NEW c \in Clause, Writable(c), ~c.quoted
  PROVE  Reads(InValue(made, c, c.op), c.value, InValue(made, c, c.op \o c.value))
<1> DEFINE u == c.op
           w == c.value
<1>1. u \in Chars /\ w \in Chars /\ IsValue(w) /\ (c.field = <<>> => u = <<>> /\ IsName(w))
  BY WritableOp, WritableValue, ClauseIs
<1>2. CASE c.field # <<>>
  <2> HIDE DEF u, w
  <2>1. Reads(InValue(made, c, u), w, InValue(made, c, u \o w))
    BY ONLY <1>1, <1>2, ReadsValue DEF IsValue
  <2> QED BY <2>1 DEF u, w
<1>3. CASE c.field = <<>>
  <2>1. u = <<>> /\ IsName(w) /\ u \o w = w
    BY <1>1, <1>3, Joined
  <2> HIDE DEF u, w
  <2>2. Reads(InName(made, c.negated, <<>>), w, InName(made, c.negated, w))
    BY ONLY <1>1, <2>1, ReadsName DEF IsName
  <2>3. InValue(made, c, u) = InName(made, c.negated, <<>>)
        /\ InValue(made, c, u \o w) = InName(made, c.negated, w)
    BY <1>3, <2>1, WordIsValue
  <2>4. Reads(InValue(made, c, u), w, InValue(made, c, u \o w))
    BY <2>2, <2>3
  <2> QED BY <2>4 DEF u, w
<1> QED BY <1>2, <1>3

LEMMA ReadsQuoted ==
  ASSUME NEW made, NEW c \in Clause, Writable(c)
  PROVE  /\ Quote(c.value) \in Chars
         /\ Reads(InValue(made, c, c.op), Quote(c.value), Behind(made, c, c.op \o c.value))
<1> DEFINE u == c.op
           w == c.value
           q == "\""
           mark == <<q>>
           s == InValue(made, c, u)
           t == InQuotes(made, c, u)
           r == InQuotes(made, c, u \o w)
           e == Behind(made, c, u \o w)
<1>1. u \in Chars /\ w \in Chars /\ mark \in Chars /\ \A i \in 1 .. Len(w) : Quotable(w[i])
  BY WritableOp, WritableValue, ClauseIs, Marks
<1>2. LexChar(s, q) = t /\ LexChar(r, q) = e
  BY LexOpens, LexCloses
<1>3. Quote(c.value) = (mark \o w) \o mark
  BY DEF Quote
<1> HIDE DEF u, w, q
<1>4. Reads(t, w, r)
  BY ONLY <1>1, ReadsQuotes
<1> HIDE DEF s, t, r, e
<1>5. Reads(s, mark, t) /\ Reads(r, mark, e)
  BY <1>2, ReadsOne
<1> HIDE DEF mark
<1>6. mark \o w \in Chars /\ Reads(s, mark \o w, r)
  BY ONLY <1>1, <1>4, <1>5, Joined, ReadsOn
<1> DEFINE m == mark \o w
<1>7. m \in Chars /\ Reads(s, m, r)
  BY <1>6
<1> HIDE DEF m
<1>8. m \o mark \in Chars /\ Reads(s, m \o mark, e)
  BY ONLY <1>1, <1>5, <1>7, Joined, ReadsOn
<1>9. Quote(c.value) = m \o mark
  BY <1>3 DEF m
<1>10. Quote(c.value) \in Chars /\ Reads(s, Quote(c.value), e)
  BY ONLY <1>8, <1>9
<1> QED BY <1>10 DEF s, e, u, w

\* A clause and the space behind it are read, and make a token, if it says anything.
LEMMA SpelledIs ==
  ASSUME NEW c
  PROVE  /\ ~c.quoted => Spelled(c) = ((MarkOf(c) \o FieldOf(c)) \o c.op) \o c.value
         /\ c.quoted => Spelled(c) = ((MarkOf(c) \o FieldOf(c)) \o c.op) \o Quote(c.value)
  BY DEF Spelled, MarkOf, FieldOf

LEMMA ReadsClause ==
  ASSUME NEW made, NEW c \in Clause, Writable(c)
  PROVE  /\ Append(Spelled(c), " ") \in Chars
         /\ Reads(Fresh(made), Append(Spelled(c), " "),
                  Fresh(IF Mute(c) THEN made ELSE Append(made, TokenOf(c, c.op \o c.value))))
<1> DEFINE N == MarkOf(c)
           F == FieldOf(c)
           O == c.op
           V == IF c.quoted THEN Quote(c.value) ELSE c.value
           f == Fresh(made)
           m == InName(made, c.negated, <<>>)
           h == InValue(made, c, <<>>)
           o == InValue(made, c, c.op)
           v == IF c.quoted THEN Behind(made, c, c.op \o c.value) ELSE InValue(made, c, c.op \o c.value)
           e == Fresh(IF Mute(c) THEN made ELSE Append(made, TokenOf(c, c.op \o c.value)))
           space == <<" ">>
<1>1. c.quoted \in BOOLEAN
  BY ClauseIs
<1>2. N \in Chars /\ F \in Chars /\ O \in Chars /\ V \in Chars /\ space \in Chars
  BY ReadsFront, ReadsHead, WritableOp, ReadsQuoted, ClauseIs, Marks
<1>3. Reads(f, N, m)
  BY ReadsFront
<1>4. Reads(m, F, h)
  BY ReadsHead
<1>5. Reads(h, O, o)
  BY ReadsOp
<1>6. Reads(o, V, v)
  <2>1. CASE c.quoted
    BY <2>1, ReadsQuoted
  <2>2. CASE ~c.quoted
    BY <2>2, ReadsPlainValue
  <2> QED BY <2>1, <2>2
<1>7. Reads(v, space, e)
  <2>1. Reads(v, space, LexChar(v, " "))
    BY ReadsOne
  <2>2. LexChar(v, " ") = e
    <3>1. CASE c.quoted
      <4> DEFINE w == c.op \o c.value
      <4>2. ~Mute(c)
        BY <3>1 DEF Mute
      <4> HIDE DEF w
      <4>3. LexChar(Behind(made, c, w), " ") = Fresh(Append(made, TokenOf(c, w)))
        <5>1. IsQuoted(c)
          BY <1>1, <3>1 DEF IsQuoted
        <5> QED BY ONLY <5>1, LexSpaceBehind
      <4> QED BY <3>1, <4>2, <4>3 DEF w
    <3>2. CASE ~c.quoted
      <4> DEFINE w == c.op \o c.value
      <4>2. Mute(c) <=> w = <<>>
        BY <3>2 DEF Mute
      <4> HIDE DEF w
      <4>3. LexChar(InValue(made, c, w), " ") = Fresh(IF w = <<>> THEN made ELSE Append(made, TokenOf(c, w)))
        <5>1. IsNotQuoted(c)
          BY <1>1, <3>2 DEF IsNotQuoted
        <5> QED BY ONLY <5>1, LexSpace
      <4>4. (IF w = <<>> THEN made ELSE Append(made, TokenOf(c, w)))
              = IF Mute(c) THEN made ELSE Append(made, TokenOf(c, w))
        BY <4>2
      <4> QED BY <3>2, <4>3, <4>4 DEF w
    <3> QED BY <3>1, <3>2
  <2> QED BY <2>1, <2>2
<1>8. Append(Spelled(c), " ") = (((N \o F) \o O) \o V) \o space
  <2>1. Spelled(c) = ((N \o F) \o O) \o V
    BY SpelledIs
  <2> HIDE DEF N, F, O, V
  <2>2. ((N \o F) \o O) \o V \in Chars
    BY ONLY <1>2, Joined
  <2> QED BY <2>1, <2>2, AppendIs
<1> HIDE DEF N, F, O, V, f, m, h, o, v, e, space
<1> DEFINE a == N \o F
           b == a \o O
           d == b \o V
<1>9. a \in Chars /\ Reads(f, a, h)
  BY ONLY <1>2, <1>3, <1>4, Joined, ReadsOn
<1> HIDE DEF a
<1>10. b \in Chars /\ Reads(f, b, o)
  BY ONLY <1>2, <1>5, <1>9, Joined, ReadsOn
<1> HIDE DEF b
<1>11. d \in Chars /\ Reads(f, d, v)
  BY ONLY <1>2, <1>6, <1>10, Joined, ReadsOn
<1> HIDE DEF d
<1>12. d \o space \in Chars /\ Reads(f, d \o space, e)
  BY ONLY <1>2, <1>7, <1>11, Joined, ReadsOn
<1>13. Append(Spelled(c), " ") = d \o space
  BY <1>8 DEF a, b, d
<1>14. Append(Spelled(c), " ") \in Chars /\ Reads(f, Append(Spelled(c), " "), e)
  BY ONLY <1>12, <1>13
<1> QED BY <1>14 DEF f, e

----------------------------------------------------------------------------
\* One clause after the other.
Said(c) == TokenOf(c, c.op \o c.value)
SaidUpTo(clauses, n) == {Said(clauses[i]) : i \in {j \in 1 .. n : ~Mute(clauses[j])}}
AnyToken == {Said(c) : c \in Clause}

LEMMA RangeAppends ==
  ASSUME NEW T, NEW made \in Seq(T), NEW x \in T
  PROVE  Append(made, x) \in Seq(T) /\ Range(Append(made, x)) = Range(made) \cup {x}
<1> DEFINE N == Len(made)
           q == Append(made, x)
<1>1. /\ N \in Nat /\ DOMAIN made = 1 .. N /\ DOMAIN q = 1 .. N + 1
      /\ q[N + 1] = x /\ \A i \in 1 .. N : q[i] = made[i]
  OBVIOUS
<1>2. q \in Seq(T)
  OBVIOUS
<1>3. 1 .. N + 1 = (1 .. N) \cup {N + 1}
  BY <1>1
<1> HIDE DEF N, q
<1>4. Range(q) = Range(made) \cup {x}
  BY <1>1, <1>3 DEF Range
<1> QED BY <1>2, <1>4 DEF q

LEMMA SaidOn ==
  ASSUME NEW clauses, NEW n \in Nat
  PROVE  SaidUpTo(clauses, n + 1)
           = IF Mute(clauses[n + 1]) THEN SaidUpTo(clauses, n) ELSE SaidUpTo(clauses, n) \cup {Said(clauses[n + 1])}
<1> DEFINE D(m) == {j \in 1 .. m : ~Mute(clauses[j])}
<1>1. 1 .. n + 1 = (1 .. n) \cup {n + 1}
  OBVIOUS
<1>2. D(n + 1) = IF Mute(clauses[n + 1]) THEN D(n) ELSE D(n) \cup {n + 1}
  BY <1>1
<1> HIDE DEF D
<1>3. \A m : SaidUpTo(clauses, m) = {Said(clauses[i]) : i \in D(m)}
  BY DEF SaidUpTo, D
<1> DEFINE said(i) == Said(clauses[i])
<1>4. \A m : SaidUpTo(clauses, m) = {said(i) : i \in D(m)}
  BY <1>3
<1>5. said(n + 1) = Said(clauses[n + 1])
  OBVIOUS
<1> HIDE DEF said
<1>6. CASE Mute(clauses[n + 1])
  BY <1>2, <1>4, <1>6
<1>7. CASE ~Mute(clauses[n + 1])
  <2>1. {said(i) : i \in D(n) \cup {n + 1}} = {said(i) : i \in D(n)} \cup {said(n + 1)}
    OBVIOUS
  <2>2. SaidUpTo(clauses, n + 1) = {said(i) : i \in D(n) \cup {n + 1}}
    BY <1>2, <1>4, <1>7
  <2>3. SaidUpTo(clauses, n) = {said(i) : i \in D(n)}
    BY <1>4
  <2>4. SaidUpTo(clauses, n + 1) = SaidUpTo(clauses, n) \cup {said(n + 1)}
    BY ONLY <2>1, <2>2, <2>3
  <2> QED BY <1>5, <1>7, <2>4
<1> QED BY <1>6, <1>7

LEMMA FreshParts ==
  ASSUME NEW made
  PROVE  /\ NoToken = Fresh(<<>>)
         /\ flush(Fresh(made)).tokens = made
<1>1. NoToken = Fresh(<<>>)
  BY DEF NoToken, Fresh, InName, Holds
<1> DEFINE s == Fresh(made)
<1>2. s.inQuote = FALSE /\ s.current = <<>> /\ s.quoted = FALSE /\ s.tokens = made
  BY DEF Fresh, InName, Holds
<1> HIDE DEF s
<1>3. flush(s) = Fresh(made)
  BY <1>2, Flushes
<1>4. flush(s).tokens = made
  BY <1>2, <1>3 DEF s
<1> QED BY <1>1, <1>4 DEF s

\* The text of a query, and what it is cut into.
TextOf(clauses) == FlattenSeq([i \in DOMAIN clauses |-> Append(Spelled(clauses[i]), " ")])

LEMMA TokensAre ==
  ASSUME NEW clauses \in Seq(Clause), \A i \in 1 .. Len(clauses) : Writable(clauses[i])
  PROVE  Range(lex(TextOf(clauses))) = SaidUpTo(clauses, Len(clauses))
<1> DEFINE N == Len(clauses)
           line(c) == Append(Spelled(c), " ")
           seqs == [i \in DOMAIN clauses |-> line(clauses[i])]
<1>1. N \in Nat /\ DOMAIN clauses = 1 .. N /\ \A i \in 1 .. N : clauses[i] \in Clause
  OBVIOUS
<1>2. \A i \in 1 .. N : line(clauses[i]) \in Chars
  BY <1>1, ReadsClause
<1>3. seqs \in Seq(Chars) /\ Len(seqs) = N /\ \A i \in 1 .. N : seqs[i] = line(clauses[i])
  <2> HIDE DEF line
  <2> QED BY <1>1, <1>2
<1>4. PICK W : Joins(W, seqs) /\ FlattenSeq(seqs) = W[N]
  <2> HIDE DEF seqs
  <2> QED BY <1>3, Flat
<1>5. TextOf(clauses) = W[N]
  BY <1>4 DEF TextOf
<1>6. /\ W[0] = <<>>
      /\ \A k \in 0 .. N : W[k] \in Chars /\ (k < N => W[k + 1] = W[k] \o seqs[k + 1])
  <2> HIDE DEF seqs, N
  <2> QED BY <1>3, <1>4 DEF Joins
<1> DEFINE Up(k, made) == /\ made \in Seq(AnyToken) /\ Range(made) = SaidUpTo(clauses, k)
                          /\ Reads(Fresh(<<>>), W[k], Fresh(made))
           B == {k \in 0 .. N : \E made : Up(k, made)}
<1>7. 0 \in B
  <2> DEFINE none == <<>>
  <2>1. none \in Seq(AnyToken) /\ Range(none) = {}
    BY DEF Range
  <2>2. SaidUpTo(clauses, 0) = {}
    BY DEF SaidUpTo
  <2>3. Reads(Fresh(none), none, Fresh(none)) /\ W[0] = none
    BY <1>6, ReadsNothing
  <2>4. 0 \in 0 .. N
    BY <1>1
  <2>5. Up(0, none)
    <3> QED BY <2>1, <2>2, <2>3
  <2> HIDE DEF Up, N, none
  <2> QED BY <2>4, <2>5
<1>8. ASSUME NEW k \in 0 .. N, k \in B, k < N PROVE k + 1 \in B
  <2>1. PICK made : Up(k, made)
    BY <1>8
  <2> DEFINE c == clauses[k + 1]
             more == IF Mute(c) THEN made ELSE Append(made, Said(c))
  <2>2. k + 1 \in 1 .. N /\ k + 1 \in 0 .. N /\ k \in Nat
    BY <1>1, <1>8
  <2>3. c \in Clause /\ Writable(c) /\ Said(c) \in AnyToken
    BY <1>1, <2>2 DEF AnyToken
  <2>4. line(c) \in Chars /\ Reads(Fresh(made), line(c), Fresh(more))
    BY <2>3, ReadsClause DEF Said
  <2>5. W[k] \in Chars /\ W[k + 1] = W[k] \o line(c)
    <3> HIDE DEF line, seqs
    <3> QED BY <1>3, <1>6, <1>8, <2>2
  <2>6. Reads(Fresh(<<>>), W[k + 1], Fresh(more))
    <3> DEFINE f == Fresh(<<>>)
               m == Fresh(made)
               e == Fresh(more)
               u == W[k]
               v == line(c)
    <3>1. Reads(f, u, m) /\ Reads(m, v, e) /\ u \in Chars /\ v \in Chars
      BY <2>1, <2>4, <2>5
    <3> HIDE DEF f, m, e, u, v
    <3>2. Reads(f, u \o v, e)
      BY ONLY <3>1, ReadsOn
    <3> QED BY <2>5, <3>2 DEF f, e, u, v
  <2>7. more \in Seq(AnyToken) /\ Range(more) = SaidUpTo(clauses, k + 1)
    <3>1. SaidUpTo(clauses, k + 1) = IF Mute(c) THEN SaidUpTo(clauses, k) ELSE SaidUpTo(clauses, k) \cup {Said(c)}
      BY <2>2, SaidOn
    <3>2. made \in Seq(AnyToken) /\ Range(made) = SaidUpTo(clauses, k)
      BY <2>1
    <3> DEFINE x == Said(c)
    <3> HIDE DEF x, c
    <3>3. Append(made, x) \in Seq(AnyToken) /\ Range(Append(made, x)) = Range(made) \cup {x}
      BY <2>3, <3>2, RangeAppends DEF x
    <3> QED BY <3>1, <3>2, <3>3 DEF x
  <2>8. Up(k + 1, more)
    BY <2>6, <2>7
  <2> HIDE DEF Up, more, N
  <2> QED BY <2>2, <2>8
<1>9. N \in B
  <2>1. N \in 0 .. N /\ \A k \in 0 .. N : k \in B /\ k < N => k + 1 \in B
    BY <1>1, <1>8
  <2> HIDE DEF B, N
  <2> QED BY <1>1, <1>7, <2>1, UpTo
<1>10. PICK made : Up(N, made)
  BY <1>9
<1>11. Reads(NoToken, W[N], Fresh(made)) /\ W[N] \in Chars
  <2>1. N \in 0 .. N
    BY <1>1
  <2> QED BY <1>6, <1>10, <2>1, FreshParts
<1>12. lex(W[N]) = flush(Fresh(made)).tokens
  <2> DEFINE w == W[N]
             t == Fresh(made)
  <2> HIDE DEF w, t
  <2>1. lex(w) = flush(t).tokens
    BY <1>11, LexIs DEF w, t
  <2> QED BY <2>1 DEF w, t
<1>13. lex(W[N]) = made
  BY <1>12, FreshParts
<1> QED BY <1>5, <1>10, <1>13

----------------------------------------------------------------------------
(***************************************************************************)
(* What a token of a clause is taken for.                                  *)
(***************************************************************************)
Begins(v, a)      == Len(v) >= 1 /\ v[1] = a
BeginsOn(v, a, b) == Len(v) >= 2 /\ v[1] = a /\ v[2] = b
Cut(v, o, n)    == [op |-> o, raw |-> SubSeq(v, n + 1, Len(v))]

LEMMA BeginsIs ==
  ASSUME NEW v \in Chars, NEW a, NEW b
  PROVE  /\ Len(v) >= 1 /\ SubSeq(v, 1, 1) = <<a>> <=> Begins(v, a)
         /\ Len(v) >= 2 /\ SubSeq(v, 1, 2) = <<a, b>> <=> BeginsOn(v, a, b)
<1>1. v \in Seq(Character) /\ Len(v) \in Nat
  BY DEF Chars
<1>2. ASSUME Len(v) >= 1 PROVE SubSeq(v, 1, 1) = <<v[1]>>
  <2> DEFINE x == SubSeq(v, 1, 1)
             y == <<v[1]>>
  <2>1. x \in Seq(Character) /\ Len(x) = 1 /\ x[1] = v[1]
    BY <1>1, <1>2
  <2>2. y \in Seq(Character) /\ Len(y) = 1 /\ y[1] = v[1]
    BY <1>1, <1>2
  <2> HIDE DEF x, y
  <2>3. x = y
    BY <2>1, <2>2, SeqEqual
  <2> QED BY <2>3 DEF x, y
<1>3. ASSUME Len(v) >= 2 PROVE SubSeq(v, 1, 2) = <<v[1], v[2]>>
  <2> DEFINE x == SubSeq(v, 1, 2)
             y == <<v[1], v[2]>>
  <2>1. x \in Seq(Character) /\ Len(x) = 2 /\ x[1] = v[1] /\ x[2] = v[2]
    BY <1>1, <1>3
  <2>2. y \in Seq(Character) /\ Len(y) = 2 /\ y[1] = v[1] /\ y[2] = v[2]
    BY <1>1, <1>3
  <2> HIDE DEF x, y
  <2>3. x = y
    BY <2>1, <2>2, SeqEqual
  <2> QED BY <2>3 DEF x, y
<1>4. \A x, y : (<<x>> = <<a>> <=> x = a) /\ (<<x, y>> = <<a, b>> <=> x = a /\ y = b)
  OBVIOUS
<1> QED BY <1>2, <1>3, <1>4 DEF Begins, BeginsOn

LEMMA SplitIs ==
  ASSUME NEW token, token.value \in Chars
  PROVE  splitOp(token) =
           IF ~token.quoted /\ BeginsOn(token.value, ">", "=") THEN Cut(token.value, ">=", 2)
           ELSE IF ~token.quoted /\ BeginsOn(token.value, "<", "=") THEN Cut(token.value, "<=", 2)
           ELSE IF ~token.quoted /\ Begins(token.value, ">") THEN Cut(token.value, ">", 1)
           ELSE IF ~token.quoted /\ Begins(token.value, "<") THEN Cut(token.value, "<", 1)
           ELSE Cut(token.value, "=", 0)
<1> DEFINE v == token.value
           gt == ">"
           lt == "<"
           eq == "="
           ge == ">="
           le == "<="
           two(a, b) == Len(v) >= 2 /\ SubSeq(v, 1, 2) = <<a, b>>
           one(a) == Len(v) >= 1 /\ SubSeq(v, 1, 1) = <<a>>
<1>1. \A a, b : (two(a, b) <=> BeginsOn(v, a, b)) /\ (one(a) <=> Begins(v, a))
  BY BeginsIs
<1>2. splitOp(token) =
        IF ~token.quoted /\ two(gt, eq) THEN Cut(v, ge, 2)
        ELSE IF ~token.quoted /\ two(lt, eq) THEN Cut(v, le, 2)
        ELSE IF ~token.quoted /\ one(gt) THEN Cut(v, gt, 1)
        ELSE IF ~token.quoted /\ one(lt) THEN Cut(v, lt, 1)
        ELSE Cut(v, eq, 0)
  BY DEF splitOp, Cut
<1> HIDE DEF v, gt, lt, eq, ge, le, two, one
<1>3. splitOp(token) =
        IF ~token.quoted /\ BeginsOn(v, gt, eq) THEN Cut(v, ge, 2)
        ELSE IF ~token.quoted /\ BeginsOn(v, lt, eq) THEN Cut(v, le, 2)
        ELSE IF ~token.quoted /\ Begins(v, gt) THEN Cut(v, gt, 1)
        ELSE IF ~token.quoted /\ Begins(v, lt) THEN Cut(v, lt, 1)
        ELSE Cut(v, eq, 0)
  BY <1>1, <1>2
<1> QED BY <1>3 DEF v, gt, lt, eq, ge, le

\* What is behind a sign.
LEMMA CutIs ==
  ASSUME NEW u \in Chars, NEW w \in Chars
  PROVE  /\ u \o w \in Chars /\ Len(u \o w) = Len(u) + Len(w)
         /\ SubSeq(u \o w, Len(u) + 1, Len(u \o w)) = w
         /\ \A i \in 1 .. Len(u) : (u \o w)[i] = u[i]
         /\ \A i \in 1 .. Len(w) : (u \o w)[Len(u) + i] = w[i]
<1> DEFINE U == Len(u)
           W == Len(w)
           v == u \o w
           x == SubSeq(v, U + 1, U + W)
<1>1. /\ U \in Nat /\ W \in Nat /\ v \in Seq(Character) /\ Len(v) = U + W /\ w \in Seq(Character)
      /\ \A i \in 1 .. U + W : v[i] = IF i <= U THEN u[i] ELSE w[i - U]
  BY ConcatProperties DEF Chars
<1> HIDE DEF v
<1>2. \A i \in 1 .. U : v[i] = u[i]
  BY <1>1
<1>3. \A i \in 1 .. W : v[U + i] = w[i]
  <2> SUFFICES ASSUME NEW i \in 1 .. W PROVE v[U + i] = w[i]
    OBVIOUS
  <2>1. U + i \in 1 .. U + W /\ ~(U + i <= U) /\ (U + i) - U = i
    BY <1>1
  <2> HIDE DEF U, W
  <2> QED BY <1>1, <2>1
<1>4. x \in Seq(Character) /\ Len(x) = W /\ \A i \in 1 .. W : x[i] = v[U + i]
  BY <1>1
<1> HIDE DEF x
<1>5. x = w
  BY <1>1, <1>3, <1>4, SeqEqual
<1> QED BY <1>1, <1>2, <1>3, <1>5 DEF v, x, Chars

\* The signs in front of what a clause says: its own, if it has one.
LEMMA WritableSign ==
  ASSUME NEW c \in Clause, Writable(c), ~c.quoted, c.field # <<>>
  PROVE  /\ c.op = <<>> => ~Begins(c.value, ">") /\ ~Begins(c.value, "<")
         /\ c.op \in {<<">">>, <<"<">>} => ~Begins(c.value, "=")
<1>1. \A a : Begins(c.value, a) => c.value # <<>> /\ c.value[1] = a
  BY ClauseIs DEF Begins
<1>2. ASSUME c.op = <<>> PROVE c.value = <<>> \/ c.value[1] \notin {">", "<"}
  BY <1>2 DEF Writable
<1>3. ASSUME c.op \in {<<">">>, <<"<">>} PROVE c.value = <<>> \/ c.value[1] \notin {"="}
  BY <1>3 DEF Writable
<1> QED BY <1>1, <1>2, <1>3

LEMMA SignsDiffer ==
  /\ ">" # "<" /\ ">" # "=" /\ "<" # "="
  /\ \A a, b : <<a>> # <<>> /\ <<a, b>> # <<>>
  /\ \A a, b, x : <<x>> # <<a, b>> /\ (<<a>> = <<b>> => a = b) /\ (<<a, x>> = <<b, x>> => a = b)
<1>1. ">" # "<" /\ ">" # "=" /\ "<" # "="
  OBVIOUS
<1>2. \A a, b : Len(<<a>>) = 1 /\ Len(<<a, b>>) = 2 /\ <<a>>[1] = a /\ <<a, b>>[1] = a
  OBVIOUS
<1>3. Len(<<>>) = 0
  OBVIOUS
<1>4. ASSUME NEW a, NEW b PROVE <<a>> # <<>> /\ <<a, b>> # <<>>
  <2> DEFINE x == <<a>>
             y == <<a, b>>
             z == <<>>
  <2>1. Len(x) = 1 /\ Len(y) = 2 /\ Len(z) = 0
    BY <1>2, <1>3
  <2> HIDE DEF x, y, z
  <2>2. x # z /\ y # z
    BY ONLY <2>1
  <2> QED BY <2>2 DEF x, y, z
<1>5. ASSUME NEW a, NEW b, NEW c
      PROVE  <<c>> # <<a, b>> /\ (<<a>> = <<b>> => a = b) /\ (<<a, c>> = <<b, c>> => a = b)
  <2>1. <<a>>[1] = a /\ <<b>>[1] = b /\ <<a, c>>[1] = a /\ <<b, c>>[1] = b
        /\ Len(<<c>>) = 1 /\ Len(<<a, b>>) = 2
    OBVIOUS
  <2> DEFINE x == <<c>>
             y == <<a, b>>
  <2>2. Len(x) = 1 /\ Len(y) = 2
    BY <2>1
  <2> HIDE DEF x, y
  <2>3. x # y
    BY ONLY <2>2
  <2> QED BY <2>1, <2>3 DEF x, y
<1> QED BY <1>1, <1>4, <1>5

\* The five spellings of a sign.
LEMMA OpOfIs ==
  ASSUME NEW c
  PROVE  /\ c.op = <<>> => OpOf(c) = "="
         /\ c.op = <<">">> => OpOf(c) = ">"
         /\ c.op = <<"<">> => OpOf(c) = "<"
         /\ c.op = <<">", "=">> => OpOf(c) = ">="
         /\ c.op = <<"<", "=">> => OpOf(c) = "<="
<1> DEFINE e == <<>>
           g == <<">">>
           l == <<"<">>
           ge == <<">", "=">>
           le == <<"<", "=">>
           E == "="
           G == ">"
           L == "<"
           GE == ">="
           LE == "<="
           o == c.op
<1>1. e # g /\ e # l /\ e # ge /\ e # le /\ g # l /\ g # ge /\ g # le /\ l # ge /\ l # le /\ ge # le
  BY SignsDiffer
<1>2. OpOf(c) = IF o = e THEN E ELSE IF o = g THEN G ELSE IF o = l THEN L ELSE IF o = ge THEN GE ELSE LE
  BY DEF OpOf
<1> HIDE DEF e, g, l, ge, le, E, G, L, GE, LE, o
<1>3. /\ (o = e => OpOf(c) = E) /\ (o = g => OpOf(c) = G) /\ (o = l => OpOf(c) = L)
      /\ (o = ge => OpOf(c) = GE) /\ (o = le => OpOf(c) = LE)
  BY <1>1, <1>2
<1> QED BY <1>3 DEF e, g, l, ge, le, E, G, L, GE, LE, o

Split(o, r) == [op |-> o, raw |-> r]

LEMMA CutBehind ==
  ASSUME NEW u \in Chars, NEW w \in Chars
  PROVE  \A o : Cut(u \o w, o, Len(u)) = Split(o, w) /\ Cut(w, o, 0) = Split(o, w)
<1>1. SubSeq(u \o w, Len(u) + 1, Len(u \o w)) = w
  BY CutIs
<1>2. SubSeq(w, 0 + 1, Len(w)) = w
  BY DEF Chars
<1> QED BY <1>1, <1>2 DEF Cut, Split

\* Signs as they are found, with the value's own characters hidden behind them.
Signed(t, a, b, e) ==
  IF ~t.quoted /\ BeginsOn(t.value, a, e) THEN Cut(t.value, ">=", 2)
  ELSE IF ~t.quoted /\ BeginsOn(t.value, b, e) THEN Cut(t.value, "<=", 2)
  ELSE IF ~t.quoted /\ Begins(t.value, a) THEN Cut(t.value, ">", 1)
  ELSE IF ~t.quoted /\ Begins(t.value, b) THEN Cut(t.value, "<", 1)
  ELSE Cut(t.value, "=", 0)

LEMMA BeginsOne ==
  ASSUME NEW a \in Character, NEW w \in Chars
  PROVE  /\ Len(<<a>>) = 1 /\ <<a>> \in Chars
         /\ \A x : Begins(<<a>> \o w, x) <=> x = a
         /\ \A x, e : BeginsOn(<<a>> \o w, x, e) => x = a /\ Begins(w, e)
<1> DEFINE u == <<a>>
           v == u \o w
<1>1. u \in Chars /\ Len(u) = 1 /\ u[1] = a
  BY Joined
<1> HIDE DEF u
<1>2. /\ Len(v) = 1 + Len(w) /\ \A i \in 1 .. 1 : v[i] = u[i]
      /\ \A i \in 1 .. Len(w) : v[1 + i] = w[i]
  <2>1. /\ Len(v) = Len(u) + Len(w) /\ \A i \in 1 .. Len(u) : v[i] = u[i]
        /\ \A i \in 1 .. Len(w) : v[Len(u) + i] = w[i]
    BY <1>1, CutIs
  <2> HIDE DEF v
  <2> QED BY ONLY <1>1, <2>1
<1>3. v[1] = a
  BY <1>1, <1>2
<1>4. Len(w) \in Nat
  BY TextIs
<1> HIDE DEF v
<1>5. \A x : Begins(v, x) <=> x = a
  BY <1>2, <1>3, <1>4 DEF Begins
<1>6. ASSUME NEW x, NEW e, BeginsOn(v, x, e) PROVE x = a /\ Begins(w, e)
  <2>1. Len(v) >= 2 /\ v[1] = x /\ v[2] = e
    BY <1>6 DEF BeginsOn
  <2>2. Len(w) >= 1 /\ v[1 + 1] = w[1]
    BY <1>2, <1>4, <2>1
  <2> QED BY <1>3, <2>1, <2>2 DEF Begins
<1> QED BY <1>1, <1>5, <1>6 DEF v, u

LEMMA BeginsTwo ==
  ASSUME NEW a \in Character, NEW e \in Character, NEW w \in Chars
  PROVE  /\ Len(<<a, e>>) = 2 /\ <<a, e>> \in Chars
         /\ \A x, y : BeginsOn(<<a, e>> \o w, x, y) <=> x = a /\ y = e
<1> DEFINE u == <<a, e>>
           v == u \o w
<1>1. u \in Chars /\ Len(u) = 2 /\ u[1] = a /\ u[2] = e
  BY DEF Chars
<1> HIDE DEF u
<1>2. Len(v) = 2 + Len(w) /\ \A i \in 1 .. 2 : v[i] = u[i]
  <2>1. Len(v) = Len(u) + Len(w) /\ \A i \in 1 .. Len(u) : v[i] = u[i]
    BY <1>1, CutIs
  <2> HIDE DEF v
  <2> QED BY ONLY <1>1, <2>1
<1>3. v[1] = a /\ v[2] = e
  BY <1>1, <1>2
<1>4. Len(w) \in Nat
  BY TextIs
<1> HIDE DEF v
<1>5. \A x, y : BeginsOn(v, x, y) <=> x = a /\ y = e
  BY <1>2, <1>3, <1>4 DEF BeginsOn
<1> QED BY <1>1, <1>5 DEF v, u

LEMMA SignedIs ==
  ASSUME NEW c \in Clause, Writable(c), c.field # <<>>, ~c.quoted,
         NEW a \in Character, NEW b \in Character, NEW e \in Character, a # b,
         c.op = <<>> => ~Begins(c.value, a) /\ ~Begins(c.value, b),
         c.op \in {<<a>>, <<b>>} => ~Begins(c.value, e)
  PROVE  /\ c.op = <<>>     => Signed(Said(c), a, b, e) = Split("=", c.value)
         /\ c.op = <<a>>    => Signed(Said(c), a, b, e) = Split(">", c.value)
         /\ c.op = <<b>>    => Signed(Said(c), a, b, e) = Split("<", c.value)
         /\ c.op = <<a, e>> => Signed(Said(c), a, b, e) = Split(">=", c.value)
         /\ c.op = <<b, e>> => Signed(Said(c), a, b, e) = Split("<=", c.value)
<1> DEFINE w == c.value
           v == c.op \o w
           EQ == "="
           GT == ">"
           LT == "<"
           GE == ">="
           LE == "<="
           signed == IF BeginsOn(v, a, e) THEN Cut(v, GE, 2)
                     ELSE IF BeginsOn(v, b, e) THEN Cut(v, LE, 2)
                     ELSE IF Begins(v, a) THEN Cut(v, GT, 1)
                     ELSE IF Begins(v, b) THEN Cut(v, LT, 1)
                     ELSE Cut(v, EQ, 0)
<1>1. Signed(Said(c), a, b, e) = signed
  <2>1. Said(c).value = v /\ Said(c).quoted = c.quoted
    BY DEF Said, TokenOf
  <2> QED BY <2>1 DEF Signed
<1>2. w \in Chars /\ \A x, y : BeginsOn(w, x, y) => Begins(w, x)
  <2>1. w \in Chars
    BY ClauseIs
  <2>2. Len(w) \in Nat
    BY <2>1, TextIs
  <2> HIDE DEF w
  <2> QED BY <2>1, <2>2 DEF BeginsOn, Begins
<1> HIDE DEF EQ, GT, LT, GE, LE
<1>3. ASSUME c.op = <<>> PROVE signed = Split(EQ, w)
  <2>1. v = w
    BY <1>2, <1>3, Joined
  <2> HIDE DEF v
  <2>2. \A o : Cut(v, o, 0) = Split(o, w)
    BY <1>2, <2>1, CutBehind
  <2>3. ~Begins(v, a) /\ ~Begins(v, b) /\ ~BeginsOn(v, a, e) /\ ~BeginsOn(v, b, e)
    BY <1>2, <1>3, <2>1
  <2> QED BY <2>2, <2>3
<1>4. ASSUME NEW x \in {a, b}, c.op = <<x>> PROVE signed = Split(IF x = a THEN GT ELSE LT, w)
  <2>1. v = <<x>> \o w /\ x \in Character /\ ~Begins(w, e)
    BY <1>4
  <2>2. /\ Len(<<x>>) = 1 /\ <<x>> \in Chars /\ \A y : Begins(v, y) <=> y = x
        /\ \A y : BeginsOn(v, y, e) => Begins(w, e)
    BY <1>2, <2>1, BeginsOne
  <2>3. \A o : Cut(v, o, 1) = Split(o, w)
    BY <1>2, <2>1, <2>2, CutBehind
  <2> HIDE DEF v, w
  <2> QED BY <1>4, <2>1, <2>2, <2>3
<1>5. ASSUME NEW x \in {a, b}, c.op = <<x, e>> PROVE signed = Split(IF x = a THEN GE ELSE LE, w)
  <2>1. v = <<x, e>> \o w /\ x \in Character
    BY <1>5
  <2>2. /\ Len(<<x, e>>) = 2 /\ <<x, e>> \in Chars /\ \A y : BeginsOn(v, y, e) <=> y = x
    BY <1>2, <2>1, BeginsTwo
  <2>3. \A o : Cut(v, o, 2) = Split(o, w)
    BY <1>2, <2>1, <2>2, CutBehind
  <2> HIDE DEF v, w
  <2> QED BY <1>5, <2>2, <2>3
<1> HIDE DEF signed, w
<1>6. /\ c.op = <<>>     => signed = Split(EQ, w)
      /\ c.op = <<a>>    => signed = Split(GT, w)
      /\ c.op = <<b>>    => signed = Split(LT, w)
      /\ c.op = <<a, e>> => signed = Split(GE, w)
      /\ c.op = <<b, e>> => signed = Split(LE, w)
  BY <1>3, <1>4, <1>5
<1> QED BY <1>1, <1>6 DEF EQ, GT, LT, GE, LE, w

LEMMA SplitSaid ==
  ASSUME NEW c \in Clause, Writable(c), c.field # <<>>
  PROVE  splitOp(Said(c)) = Split(Sign(c), Literal(c))
<1> DEFINE a == ">"
           b == "<"
           e == "="
<1>1. a \in Character /\ b \in Character /\ e \in Character /\ a # b
  BY DEF Character
<1>2. c.op \in Chars /\ c.value \in Chars /\ c.op \o c.value \in Chars /\ c.quoted \in BOOLEAN
  BY WritableOp, ClauseIs, Joined
<1>3. Said(c).value = c.op \o c.value /\ Said(c).quoted = c.quoted
  BY DEF Said, TokenOf
<1>4. splitOp(Said(c)) = Signed(Said(c), a, b, e)
  <2> DEFINE t == Said(c)
  <2>1. t.value \in Chars
    BY <1>2, <1>3
  <2> HIDE DEF t
  <2>2. splitOp(t) = Signed(t, a, b, e)
    BY ONLY <2>1, SplitIs DEF Signed
  <2> QED BY <2>2 DEF t
<1>5. CASE c.quoted
  <2>1. Signed(Said(c), a, b, e) = Cut(c.op \o c.value, "=", 0)
    BY <1>3, <1>5 DEF Signed
  <2>2. Sign(c) = "=" /\ Literal(c) = c.op \o c.value
    BY <1>5 DEF Sign, Literal
  <2>3. Cut(c.op \o c.value, "=", 0) = Split("=", c.op \o c.value)
    <3> DEFINE v == c.op \o c.value
    <3>1. v \in Chars
      BY <1>2
    <3> HIDE DEF v
    <3>2. Cut(v, "=", 0) = Split("=", v)
      BY ONLY <3>1, CutBehind
    <3> QED BY <3>2 DEF v
  <2> QED BY <1>4, <2>1, <2>2, <2>3
<1>6. CASE ~c.quoted
  <2>1. /\ c.op = <<>> => ~Begins(c.value, a) /\ ~Begins(c.value, b)
        /\ c.op \in {<<a>>, <<b>>} => ~Begins(c.value, e)
    BY <1>6, WritableSign
  <2>2. /\ c.op = <<>>     => Signed(Said(c), a, b, e) = Split("=", c.value)
        /\ c.op = <<a>>    => Signed(Said(c), a, b, e) = Split(">", c.value)
        /\ c.op = <<b>>    => Signed(Said(c), a, b, e) = Split("<", c.value)
        /\ c.op = <<a, e>> => Signed(Said(c), a, b, e) = Split(">=", c.value)
        /\ c.op = <<b, e>> => Signed(Said(c), a, b, e) = Split("<=", c.value)
    <3> HIDE DEF a, b, e
    <3> QED BY <1>1, <1>6, <2>1, SignedIs
  <2>3. c.op = <<>> \/ c.op = <<a>> \/ c.op = <<b>> \/ c.op = <<a, e>> \/ c.op = <<b, e>>
    BY DEF Clause
  <2>4. Signed(Said(c), a, b, e) = Split(OpOf(c), c.value)
    BY <2>2, <2>3, OpOfIs
  <2>5. Sign(c) = OpOf(c) /\ Literal(c) = c.value
    BY <1>6 DEF Sign, Literal
  <2> QED BY <1>4, <2>4, <2>5
<1> QED BY <1>5, <1>6

----------------------------------------------------------------------------
(***************************************************************************)
(* What is searched for.                                                   *)
(***************************************************************************)
LEMMA LookupIs ==
  ASSUME NEW name
  PROVE  /\ Lookup(name).sort \in {"text", "number", "map"}
         /\ Lookup(name).sort = "number" => Lookup(name).column = "d"
<1> DEFINE n    == Strip(name)
           dots == {i \in DOMAIN n : n[i] = "."}
           dot  == IF dots = {} THEN 0 ELSE CHOOSE i \in dots : \A j \in dots : i <= j
           base == SubSeq(n, 1, dot - 1)
           on(column, sort, key) == [column |-> column, sort |-> sort, key |-> key]
           A == n = Dotted
           B == dot > 0 /\ base = <<"t">>
           C == Len(n) = 1 /\ n[1] \in DOMAIN Fields
           rest == SubSeq(n, dot + 1, Len(n))
           c == n[1]
<1>1. Lookup(name) = IF A THEN on("u.i", "text", NoTag)
                     ELSE IF B THEN on("t", "map", rest)
                     ELSE IF C THEN on(c, Fields[c], NoTag)
                     ELSE on("t", "map", n)
  BY DEF Lookup
<1>2. C => c \in {"l", "d", "t"} /\ Fields[c] \in {"text", "number", "map"} /\ (Fields[c] = "number" => c = "d")
  BY DEF Fields
<1> HIDE DEF A, B, C, n, rest, c
<1> QED BY <1>1, <1>2

LEMMA SaidParts ==
  ASSUME NEW c
  PROVE  /\ Said(c).pair = (c.field # <<>>) /\ Said(c).field = c.field
         /\ Said(c).value = c.op \o c.value /\ Said(c).negated = c.negated
  BY DEF Said, TokenOf

\* Nothing but a field is what has no sign, no value and no quotes.
LEMMA MuteIs ==
  ASSUME NEW c \in Clause, Writable(c)
  PROVE  Mute(c) <=> c.op = <<>> /\ c.value = <<>> /\ ~c.quoted
<1> DEFINE o == c.op
           v == c.value
           w == o \o v
           N == Len(o)
           M == Len(v)
<1>1. o \in Chars /\ v \in Chars
  BY WritableOp, ClauseIs
<1>2. w \in Chars /\ Len(w) = N + M /\ N \in Nat /\ M \in Nat
  BY <1>1, TextIs, Joined
<1>3. (w = <<>> <=> Len(w) = 0) /\ (o = <<>> <=> N = 0) /\ (v = <<>> <=> M = 0)
  <2>1. \A x \in Chars : x = <<>> <=> Len(x) = 0
    BY DEF Chars
  <2> HIDE DEF w, o, v
  <2> QED BY <1>1, <1>2, <2>1 DEF N, M
<1> HIDE DEF w, o, v, N, M
<1>4. w = <<>> <=> o = <<>> /\ v = <<>>
  BY <1>2, <1>3
<1> QED BY <1>4 DEF Mute, w, o, v

LEMMA RefusedIs ==
  ASSUME NEW c \in Clause, Writable(c), ~Mute(c)
  PROVE  ~Parseable(Said(c)) \/ (Said(c).pair /\ ~Compilable(Condition(Said(c)))) <=> Senseless(c)
<1>1. CASE c.field = <<>>
  BY <1>1, SaidParts DEF Parseable, Senseless
<1>2. CASE c.field # <<>>
  <2> DEFINE f == Lookup(c.field)
             t == Said(c)
             s == Sign(c)
             r == Literal(c)
             cond == Condition(t)
             text == f.sort = "text"
             number == f.sort = "number"
             map == f.sort = "map"
             num == Coercible("number", r)
             eq == s = "="
  <2>1. t.pair /\ Lookup(t.field) = f
    BY <1>2, SaidParts
  <2>2. splitOp(t).op = s /\ splitOp(t).raw = r
    BY <1>2, SplitSaid DEF Split
  <2>3. Coercible(f.sort, r) <=> (number => num)
    BY DEF Coercible
  <2>4. cond.field = f
    BY <2>1 DEF Condition
  <2>5. c.value # <<>> \/ c.op # <<>> \/ c.quoted
    BY MuteIs
  <2> HIDE DEF t, f, s, r, cond
  <2>6. Parseable(t) <=> (number => num) /\ (~eq => ~text)
    BY <2>1, <2>2, <2>3 DEF Parseable
  <2>7. Compilable(cond) <=> (map => f.key # NoTag)
    BY <2>4 DEF Compilable
  <2>8. Senseless(c) <=> (text /\ ~eq) \/ (number /\ ~num) \/ (map /\ f.key = NoTag)
    BY <1>2, <2>5 DEF Senseless, f, s, r
  <2> HIDE DEF text, number, map, num, eq
  <2>9. ~Parseable(t) \/ (t.pair /\ ~Compilable(cond)) <=> Senseless(c)
    BY <2>1, <2>6, <2>7, <2>8
  <2> QED BY <2>9 DEF cond, t
<1> QED BY <1>1, <1>2

LEMMA SignIs ==
  ASSUME NEW c
  PROVE  /\ Sign(c) \in {"=", ">", "<", ">=", "<="}
         /\ Sign(c) # "=" => ~c.quoted
  BY DEF Sign, OpOf

LEMMA ComparesIs ==
  ASSUME NEW a, NEW b
  PROVE  /\ Compares(a, "=", b) <=> a = b
         /\ Compares(a, "!=", b) <=> a # b
         /\ \A o : a \in Int /\ b \in Int => Compares(a, o, b) \in BOOLEAN
<1>1. Compares(a, "=", b) <=> a = b
  BY DEF Compares
<1>2. Compares(a, "!=", b) <=> a # b
  BY DEF Compares
<1>3. ASSUME NEW o, a \in Int, b \in Int PROVE Compares(a, o, b) \in BOOLEAN
  <2>1. /\ (a = b) \in BOOLEAN /\ (a # b) \in BOOLEAN /\ (a > b) \in BOOLEAN
        /\ (a >= b) \in BOOLEAN /\ (a < b) \in BOOLEAN /\ (a <= b) \in BOOLEAN
    BY ONLY <1>3
  <2> QED BY <2>1 DEF Compares
<1> QED BY <1>1, <1>2, <1>3

LEMMA NumbersAre ==
  ASSUME NEW r, Coercible("number", r)
  PROVE  coerce("number", r) \in Int
<1>1. Strip(r)[1] \in {"1", "2", "3"}
  BY DEF Coercible, Number
<1> DEFINE x == Strip(r)[1]
<1> HIDE DEF x
<1>2. coerce("number", r) = Number[x]
  BY DEF coerce, x
<1>3. Number[x] \in Int
  BY <1>1 DEF Number, x
<1> QED BY <1>2, <1>3

\* The condition that is made of a clause.
LEMMA ConditionIs ==
  ASSUME NEW c \in Clause, Writable(c), c.field # <<>>
  PROVE  LET f == Lookup(c.field)  cond == Condition(Said(c))  IN
         /\ cond.field = f /\ cond.value = coerce(f.sort, Literal(c)) /\ cond.negated = c.negated
         /\ cond.op = IF c.negated /\ Sign(c) = "=" THEN "!=" ELSE Sign(c)
<1> DEFINE t == Said(c)
           s == Sign(c)
           r == Literal(c)
<1>1. t.field = c.field /\ t.negated = c.negated
  BY SaidParts
<1>2. splitOp(t).op = s /\ splitOp(t).raw = r
  BY SplitSaid DEF Split
<1> HIDE DEF t, s, r
<1> QED BY <1>1, <1>2 DEF Condition, t, s, r

LEMMA SelectedByTag ==
  ASSUME NEW c \in Clause, Writable(c), c.field # <<>>, ~Mute(c), NEW row,
         Lookup(c.field).sort = "map"
  PROVE  Selects(Condition(Said(c)), row) <=> Gives(c, row)
<1> DEFINE f == Lookup(c.field)
           cond == Condition(Said(c))
           r == Literal(c)
           s == Sign(c)
           a == row.t[f.key]
           b == cond.value
<1>1. /\ cond.field = f /\ b = coerce(f.sort, r) /\ cond.negated = c.negated
      /\ cond.op = IF c.negated /\ s = "=" THEN "!=" ELSE s
  BY ConditionIs
<1>2. s \in {"=", ">", "<", ">=", "<="} /\ (s # "=" => ~c.quoted) /\ c.negated \in BOOLEAN
  BY SignIs, ClauseIs
<1>3. coerce(f.sort, r) = Strip(r) /\ (~c.quoted => r = c.value)
  BY DEF coerce, Literal
<1>4. ValueIn(c, row) = a
  BY DEF ValueIn
<1>5. ~(c.op = <<>> /\ c.value = <<>> /\ ~c.quoted)
  BY MuteIs
<1>6. Selects(cond, row) <=> Compares(a, IF cond.op = "!=" THEN "!=" ELSE "=", b)
  <2> HIDE DEF cond, r
  <2> QED BY <1>1 DEF Selects
<1>7. Gives(c, row) = IF s # "=" THEN a = Strip(c.value) ELSE Says(c, row)
  <2> HIDE DEF cond
  <2> QED BY <1>4, <1>5 DEF Gives
<1>8. Says(c, row) = (c.negated # Compares(a, s, coerce(f.sort, r)))
  <2> HIDE DEF cond
  <2> QED BY <1>4 DEF Says
<1> HIDE DEF f, cond, r, s, a, b
<1>9. CASE s # "="
  <2>1. cond.op # "!="
    BY ONLY <1>1, <1>2, <1>9
  <2>2. Selects(cond, row) <=> a = b
    BY ONLY <1>6, <2>1, ComparesIs
  <2>3. b = Strip(c.value)
    BY <1>1, <1>2, <1>3, <1>9
  <2>4. Gives(c, row) <=> a = b
    BY ONLY <1>7, <1>9, <2>3
  <2> QED BY <2>2, <2>4 DEF cond
<1>10. CASE s = "="
  <2>1. Compares(a, "=", b) <=> a = b
    BY ComparesIs
  <2>2. Compares(a, s, b) = (a = b)
    BY ONLY <1>10 DEF Compares
  <2>3. Gives(c, row) = (c.negated # (a = b))
    BY ONLY <1>1, <1>7, <1>8, <1>10, <2>2
  <2>4. CASE c.negated
    <3>1. c.negated = TRUE /\ cond.op = "!="
      BY ONLY <1>1, <1>2, <1>10, <2>4
    <3>2. Selects(cond, row) <=> a # b
      BY ONLY <1>6, <3>1, ComparesIs
    <3>3. Gives(c, row) <=> a # b
      BY ONLY <2>3, <3>1
    <3> QED BY <3>2, <3>3 DEF cond
  <2>5. CASE ~c.negated
    <3>1. c.negated = FALSE /\ cond.op # "!="
      BY ONLY <1>1, <1>2, <1>10, <2>5
    <3>2. Selects(cond, row) <=> a = b
      BY ONLY <1>6, <3>1, ComparesIs
    <3>3. Gives(c, row) <=> a = b
      BY ONLY <2>3, <3>1
    <3> QED BY <3>2, <3>3 DEF cond
  <2> QED BY <2>4, <2>5
<1> QED BY <1>9, <1>10

LEMMA SelectedByColumn ==
  ASSUME NEW c \in Clause, Writable(c), c.field # <<>>, ~Mute(c), ~Senseless(c), NEW row, row.d \in Int,
         Lookup(c.field).sort # "map"
  PROVE  Selects(Condition(Said(c)), row) <=> Gives(c, row)
<1> DEFINE f == Lookup(c.field)
           cond == Condition(Said(c))
           r == Literal(c)
           s == Sign(c)
           a == row[f.column]
           b == cond.value
           n == c.negated
<1>1. /\ cond.field = f /\ b = coerce(f.sort, r) /\ cond.negated = n
      /\ cond.op = IF n /\ s = "=" THEN "!=" ELSE s
  BY ConditionIs
<1>2. s \in {"=", ">", "<", ">=", "<="} /\ n \in BOOLEAN
  BY SignIs, ClauseIs
<1>3. ValueIn(c, row) = a
  BY DEF ValueIn
<1>4. ~(c.op = <<>> /\ c.value = <<>> /\ ~c.quoted)
  BY MuteIs
<1>5. Selects(cond, row) = LET holds == Compares(a, cond.op, b)
                           IN  IF n /\ cond.op # "!=" THEN ~holds ELSE holds
  <2> HIDE DEF cond, r
  <2> QED BY <1>1 DEF Selects
<1>6. Gives(c, row) = (n # Compares(a, s, b))
  <2>1. Gives(c, row) = Says(c, row)
    BY <1>4 DEF Gives
  <2>2. Says(c, row) = (n # Compares(ValueIn(c, row), s, coerce(f.sort, r)))
    BY DEF Says
  <2> HIDE DEF cond, f, r, s, a, b, n
  <2> QED BY <1>1, <1>3, <2>1, <2>2
<1>7. CASE s = "="
  <2> HIDE DEF f, cond, r, s, a, b, n
  <2>1. Compares(a, s, b) = (a = b)
    BY ONLY <1>7 DEF Compares
  <2>2. CASE n
    <3>1. n = TRUE /\ cond.op = "!="
      BY ONLY <1>1, <1>2, <1>7, <2>2
    <3>2. Compares(a, cond.op, b) <=> a # b
      BY ONLY <3>1, ComparesIs
    <3>3. Selects(cond, row) <=> a # b
      BY ONLY <1>5, <3>1, <3>2
    <3>4. Gives(c, row) <=> a # b
      BY ONLY <1>6, <2>1, <3>1
    <3> QED BY <3>3, <3>4 DEF cond
  <2>3. CASE ~n
    <3>1. n = FALSE /\ cond.op = s
      BY ONLY <1>1, <1>2, <2>3
    <3>2. Selects(cond, row) <=> a = b
      BY ONLY <1>5, <2>1, <3>1
    <3>3. Gives(c, row) <=> a = b
      BY ONLY <1>6, <2>1, <3>1
    <3> QED BY <3>2, <3>3 DEF cond
  <2> QED BY <2>2, <2>3
<1>8. CASE s # "="
  <2>1. f.sort = "number" /\ Coercible("number", r)
    <3>1. c.value # <<>> \/ c.op # <<>> \/ c.quoted
      BY <1>4
    <3>2. f.sort \in {"text", "number", "map"}
      BY LookupIs
    <3>3. ~(f.sort = "text" /\ s # "=") /\ ~(f.sort = "number" /\ ~Coercible("number", r))
      BY <3>1, Zenon DEF Senseless
    <3> HIDE DEF f, s, r
    <3>4. f.sort # "text" /\ f.sort # "map"
      BY <1>8, <3>3 DEF f
    <3> QED BY ONLY <3>2, <3>3, <3>4
  <2>2. f.column = "d"
    BY <2>1, LookupIs
  <2>3. b \in Int
    <3> HIDE DEF f, r, cond
    <3> QED BY <1>1, <2>1, NumbersAre
  <2>4. a \in Int
    BY <2>2
  <2> HIDE DEF f, cond, r, s, a, b, n
  <2>5. cond.op = s /\ cond.op # "!="
    BY ONLY <1>1, <1>2, <1>8
  <2> DEFINE holds == Compares(a, s, b)
  <2>6. holds \in BOOLEAN
    BY ONLY <2>3, <2>4, ComparesIs
  <2>7. Selects(cond, row) = IF n THEN ~holds ELSE holds
    BY ONLY <1>5, <2>5
  <2>8. Gives(c, row) = (n # holds)
    BY <1>6
  <2> HIDE DEF holds
  <2>9. Selects(cond, row) <=> Gives(c, row)
    BY ONLY <1>2, <2>6, <2>7, <2>8
  <2> QED BY <2>9 DEF cond
<1> QED BY <1>7, <1>8

\* A word is looked for as it stands, and nothing is found in every text.
LEMMA WordsAreFound ==
  ASSUME NEW c \in Clause, Writable(c), c.field = <<>>, NEW row, row.body \in Chars
  PROVE  (Said(c).value # <<>> => Finds(row.body, Said(c).value)) <=> Gives(c, row)
<1> DEFINE w == c.value
           text == row.body
<1>1. w \in Chars /\ c.op = <<>> /\ c.op \o w = w
  <2>1. w \in Chars /\ c.op = <<>>
    BY WritableOp, ClauseIs
  <2> HIDE DEF w
  <2> QED BY <2>1, Joined
<1>2. Said(c).value = w
  BY <1>1, SaidParts
<1>3. Gives(c, row) = Finds(text, w)
  BY DEF Gives
<1>4. w = <<>> => Finds(text, w)
  <2> SUFFICES ASSUME w = <<>> PROVE Finds(text, w)
    OBVIOUS
  <2>1. Len(text) \in Nat /\ text \in Seq(Character)
    BY TextIs DEF Chars
  <2>2. Len(w) = 0 /\ 0 \in 0 .. Len(text) - Len(w)
    BY <2>1
  <2>3. SubSeq(text, 0 + 1, 0 + Len(w)) = w
    BY <2>1, <2>2
  <2> HIDE DEF w, text
  <2> QED BY <2>2, <2>3 DEF Finds
<1> HIDE DEF w, text
<1>5. (w # <<>> => Finds(text, w)) <=> Gives(c, row)
  BY <1>3, <1>4
<1> QED BY <1>2, <1>5 DEF text

\* A clause that says nothing asks for nothing.
LEMMA MuteGives ==
  ASSUME NEW c \in Clause, Writable(c), Mute(c), NEW row
  PROVE  ~Senseless(c) /\ Gives(c, row)
<1>1. c.op = <<>> /\ c.value = <<>> /\ ~c.quoted
  BY MuteIs
<1>2. c.field # <<>>
  BY <1>1 DEF Writable
<1>3. ~Senseless(c)
  BY <1>1 DEF Senseless
<1>4. Gives(c, row)
  BY <1>1, <1>2 DEF Gives
<1> QED BY <1>3, <1>4

TokenSelects(token, row) ==
  IF token.pair THEN Selects(Condition(token), row)
  ELSE token.value # <<>> => Finds(row.body, token.value)

LEMMA SaidSelects ==
  ASSUME NEW c \in Clause, Writable(c), ~Mute(c), ~Senseless(c), NEW row, row.d \in Int, row.body \in Chars
  PROVE  TokenSelects(Said(c), row) <=> Gives(c, row)
<1>1. Said(c).pair = (c.field # <<>>)
  BY SaidParts
<1>2. CASE c.field = <<>>
  BY <1>1, <1>2, WordsAreFound DEF TokenSelects
<1>3. CASE c.field # <<>>
  <2>1. TokenSelects(Said(c), row) = Selects(Condition(Said(c)), row)
    BY <1>1, <1>3 DEF TokenSelects
  <2>2. CASE Lookup(c.field).sort = "map"
    BY <1>3, <2>1, <2>2, SelectedByTag
  <2>3. CASE Lookup(c.field).sort # "map"
    BY <1>3, <2>1, <2>3, SelectedByColumn
  <2> QED BY <2>2, <2>3
<1> QED BY <1>2, <1>3

TokenRefused(token) == ~Parseable(token) \/ (token.pair /\ ~Compilable(Condition(token)))

\* Every search that can be written is refused when a clause of it makes no sense, and
\* selects what its clauses give: the lexer cuts it at the clauses' ends whatever their
\* values and quotes hold, and no sign, quote or negation is lost on the way
\* (lex.go:39-42, parse.go:76-77, compile.go:20-26, filters.go:16-28).
THEOREM SearchesSelect == CallTypes => SearchesAreHonest
<1> SUFFICES ASSUME CallTypes, part = "searches"
             PROVE  SearchSelectsWhatItSays(call, Mine, Table)
  BY DEF SearchesAreHonest
<1> DEFINE N == Len(call)
           text == TextOf(call)
           tokens == lex(text)
<1>1. call \in Seq(Clause) /\ \A i \in 1 .. N : Writable(call[i])
  BY DEF CallTypes
<1>2. N \in Nat /\ DOMAIN call = 1 .. N /\ \A i \in 1 .. N : call[i] \in Clause
  BY <1>1
<1>3. Range(tokens) = SaidUpTo(call, N)
  <2> HIDE DEF N
  <2> QED BY <1>1, TokensAre DEF N
<1>4. Range(tokens) = {Said(call[i]) : i \in {j \in 1 .. N : ~Mute(call[j])}}
  BY <1>3 DEF SaidUpTo
<1>5. Range(call) = {call[i] : i \in 1 .. N}
  BY <1>2 DEF Range
<1> HIDE DEF tokens, N
<1>6. IsRefused(tokens) <=> \E token \in Range(tokens) : TokenRefused(token)
  BY DEF IsRefused, TokenRefused
<1>7. \A row : (\A token \in Range(tokens) : TokenSelects(token, row)) <=>
        \A token \in Range(tokens) :
          IF token.pair THEN Selects(Condition(token), row)
          ELSE token.value # <<>> => Finds(row.body, token.value)
  BY DEF TokenSelects
<1>8. \A i \in 1 .. N : ~Mute(call[i]) => (TokenRefused(Said(call[i])) <=> Senseless(call[i]))
  BY <1>1, <1>2, RefusedIs DEF TokenRefused
<1>9. \A i \in 1 .. N : Mute(call[i]) => ~Senseless(call[i]) /\ \A row : Gives(call[i], row)
  BY <1>1, <1>2, MuteGives
<1>10. IsRefused(tokens) <=> \E c \in Range(call) : Senseless(c)
  BY <1>4, <1>5, <1>6, <1>8, <1>9
<1>11. ASSUME ~IsRefused(tokens), NEW row \in Table
       PROVE  Search(tokens, Mine, row) <=>
                /\ row.project = Mine.project /\ row.time \in Mine.from .. Mine.to - 1
                /\ Mine.environment \in {"", row.environment}
                /\ \A c \in Range(call) : Gives(c, row)
  <2>1. row.time \in Int /\ row.d \in Int /\ row.body \in Chars /\ Mine.from \in Int /\ Mine.to \in Int
    BY TableAssumption
  <2>2. \A i \in 1 .. N : ~Senseless(call[i])
    BY <1>5, <1>10, <1>11
  <2>3. \A i \in 1 .. N : ~Mute(call[i]) => (TokenSelects(Said(call[i]), row) <=> Gives(call[i], row))
    BY <1>1, <1>2, <2>1, <2>2, SaidSelects
  <2>4. (\A token \in Range(tokens) : TokenSelects(token, row)) <=> \A c \in Range(call) : Gives(c, row)
    BY <1>4, <1>5, <1>9, <2>3
  <2>5. row.time \in Mine.from .. Mine.to - 1 <=> Mine.from <= row.time /\ row.time < Mine.to
    BY ONLY <2>1
  <2>6. Mine.environment \in {"", row.environment}
          <=> (Mine.environment # "" => row.environment = Mine.environment)
    OBVIOUS
  <2> QED BY <1>7, <2>4, <2>5, <2>6 DEF Search
<1>12. text = FlattenSeq([i \in DOMAIN call |-> Append(Spelled(call[i]), " ")])
  BY DEF TextOf
<1> QED BY <1>10, <1>11, <1>12 DEF SearchSelectsWhatItSays, tokens
=============================================================================
