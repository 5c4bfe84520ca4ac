----------------------------- MODULE AlertRules -----------------------------
(***************************************************************************)
(* Which rules page: a rule as handleCreateAlertRule accepts it, and what  *)
(* internal/alert makes of it when a signal comes or a timer ticks, with   *)
(* the numbers it reads from ClickHouse.                                   *)
(*                                                                         *)
(* The rollups of migration 0004 are modelled by what they merge to: a     *)
(* bucket is the samples that fell into it.  Of the percentiles there is   *)
(* the median.  An average is compared as sum against count * threshold.   *)
(* Throttling and dispatch are AlertThrottle's and Alerter's.              *)
(***************************************************************************)
EXTENDS Integers, FiniteSets, FiniteSetsExt

CONSTANTS
  Minute, Hour,   \* widths of the buckets; a multiple
  Cutover,        \* metricRollupCutover, 48 hours
  GroupLimit      \* the LIMIT of FrequentGroups

ASSUME AlertRulesAssumption ==
  {Minute, Hour, Cutover, GroupLimit} \subseteq Nat \ {0} /\ (Hour % Minute) = 0

----------------------------------------------------------------------------
(***************************************************************************)
(* metrics_1m, metrics_1h and issue_stats_1h.  Samples are a set of        *)
(* records with an id, a time and a value.                                 *)
(***************************************************************************)
StartOf(width, t) == t - (t % width)

\* The hour is made of the minutes, not of the samples.
BucketOf(width, t) == StartOf(width, StartOf(Minute, t))

\* Mutant: the bucket in which the range begins is read as well.
InBucketsToo(samples, width, from, to) ==
  {s \in samples : StartOf(width, from) <= BucketOf(width, s.at) /\ BucketOf(width, s.at) < to}

\* A read takes the buckets that begin in the range.
InBuckets(samples, width, from, to) ==
  {s \in samples : from <= BucketOf(width, s.at) /\ BucketOf(width, s.at) < to}

Values(samples) == {s.value : s \in samples}
Total(samples)  == MapThenSumSet(LAMBDA s : s.value, samples)

\* The two middle samples; n of them are ordered by value and id.
Ranked(samples, i) ==
  CHOOSE s \in samples :
    Cardinality({o \in samples : o.value < s.value \/ (o.value = s.value /\ o.id < s.id)}) = i - 1
TwiceMedian(samples) ==
  LET n == Cardinality(samples)
  IN  Ranked(samples, (n + 1) \div 2).value + Ranked(samples, (n + 2) \div 2).value

Aggs == {"sum", "count", "avg", "min", "max", "uniq", "p50"}

\* metricAgg's value as a fraction.
Aggregate(agg, samples) ==
  LET n == Cardinality(samples)
      whole(x) == [num |-> x, den |-> 1]
  IN
  CASE agg = "sum"   -> whole(Total(samples))
    [] agg = "count" -> whole(n)
    [] agg = "avg"   -> [num |-> Total(samples), den |-> n]
    [] agg = "min"   -> whole(CHOOSE v \in Values(samples) : \A u \in Values(samples) : v <= u)
    [] agg = "max"   -> whole(CHOOSE v \in Values(samples) : \A u \in Values(samples) : v >= u)
    [] agg = "uniq"  -> whole(Cardinality(Values(samples)))
    [] agg = "p50"   -> [num |-> TwiceMedian(samples), den |-> 2]

\* Minutes, or hours for a wide range.
RollupOf(window) == IF window > Cutover THEN Hour ELSE Minute

----------------------------------------------------------------------------
(***************************************************************************)
(* A rule is made.  Its conditions are JSON, which two structs are read    *)
(* from: metricConditions when a metric rule is made, conditions whenever  *)
(* a rule of any kind is evaluated.  A field that is not there is zero or  *)
(* empty; one whose value the wider struct has no room for (a threshold of *)
(* -1, a level of 3) is mistyped; and conditions may be no object at all.  *)
(***************************************************************************)
metricFields    == {"metric_name", "agg", "operator", "value", "window_minutes"}
conditionFields == metricFields \cup {"environment", "level", "release", "threshold"}

NoConditions ==
  [object |-> TRUE, mistyped |-> {}, level |-> "", environment |-> "", release |-> "",
   threshold |-> 0, window |-> 0, metric |-> "", agg |-> "", operator |-> "", value |-> 0]

\* json.Unmarshal into a struct of these fields, which says nothing of the others.
Unmarshals(c, fields) == c.object /\ c.mistyped \cap fields = {}

Operators == {"gt", "gte", "lt", "lte"}

validateMetricRule(c) ==
  /\ Unmarshals(c, metricFields)
  /\ c.metric # "" /\ c.agg \in Aggs /\ c.operator \in Operators /\ c.window > 0

\* How the channels of a request are spelled.  Only two spellings of none are known.
Channels == {"absent", "null", "[]", "[ ]", "{}", "one"}

Accepted(request) ==
  /\ request.kind \in {"new_issue", "regression", "frequency", "metric"}
  /\ request.kind = "metric" => validateMetricRule(request.conditions)
  /\ request.channels \notin {"absent", "[]"}

throttleOrDefault(seconds) == IF seconds <= 0 THEN 3600 ELSE seconds

\* CreateAlertRule.
Stored(request) == [request EXCEPT !.throttle = throttleOrDefault(@)]

----------------------------------------------------------------------------
(***************************************************************************)
(* A rule is evaluated.  What is observed: signals, events of groups, the  *)
(* issues Postgres knows with their levels, and samples of metrics.        *)
(***************************************************************************)
\* fire goes no further without a channel.
MayNotify(rule) == rule.channels = "one"

\* Mutant: a release does not narrow.
MatchesAnyRelease(c, signal) ==
  c.environment \in {"", signal.environment} /\ c.level \in {"", signal.level}

\* A level or an environment stands for its spellings in whatever case; a release is
\* compared as it is.
matchesSignal(c, signal) ==
  /\ c.environment \in {"", signal.environment}
  /\ c.level \in {"", signal.level}
  /\ c.release \in {"", signal.release}

\* HandleSignal.
SignalPages(rule, signal) ==
  /\ rule.enabled
  /\ rule.kind = signal.kind
  /\ Unmarshals(rule.conditions, conditionFields)
  /\ matchesSignal(rule.conditions, signal)
  /\ MayNotify(rule)

\* FrequentGroups: events from since on, whatever their environment; the groups
\* that occurred most, and a tie at the limit goes either way.
CountOf(events, since, g) == Cardinality({e \in events : e.group = g /\ e.at >= since})

FrequentGroups(events, since, threshold) ==
  LET count(g) == CountOf(events, since, g)
      over     == {g \in {e.group : e \in events} : count(g) >= threshold /\ count(g) > 0}
  IN  {top \in SUBSET over :
         /\ Cardinality(top) = IF Cardinality(over) < GroupLimit THEN Cardinality(over) ELSE GroupLimit
         /\ \A g \in top, h \in over \ top : count(g) >= count(h)}

\* evaluateProject: the groups a pass pages for, when the query returned top.  Of the
\* filters, only the level is looked at.
FrequencyPages(rule, levels, top) ==
  IF /\ rule.enabled /\ rule.kind = "frequency" /\ Unmarshals(rule.conditions, conditionFields)
     /\ rule.conditions.threshold # 0 /\ rule.conditions.window > 0
     /\ MayNotify(rule)
  THEN {g \in top \cap DOMAIN levels : rule.conditions.level \in {"", levels[g]}}
  ELSE {}

breached(c, observed) ==
  CASE c.operator = "gt"  -> observed.num > c.value * observed.den
    [] c.operator = "gte" -> observed.num >= c.value * observed.den
    [] c.operator = "lt"  -> observed.num < c.value * observed.den
    [] c.operator = "lte" -> observed.num <= c.value * observed.den

\* evaluateMetricProject does not skip a rule of these conditions.
MetricEvaluated(c) ==
  /\ Unmarshals(c, conditionFields)
  /\ c.metric # "" /\ c.agg # "" /\ c.operator # "" /\ c.window > 0

\* evaluateMetricProject and AggregateMetric.
MetricPages(rule, samples, now) ==
  LET c    == rule.conditions
      read == InBuckets(samples, RollupOf(c.window), now - c.window, now)
  IN  /\ rule.enabled /\ rule.kind = "metric" /\ MetricEvaluated(c)
      /\ read # {} /\ breached(c, Aggregate(c.agg, read))
      /\ MayNotify(rule)

----------------------------------------------------------------------------
(***************************************************************************)
(* Properties.                                                             *)
(***************************************************************************)
\* A rule that was accepted pages for what its owner asked for, and for nothing else, if
\* it can page at all: it is switched on, names a channel, and none of its conditions
\* is of the wrong type.  (Rules are accepted without: see NotifiesSomeone and
\* Evaluates.)
CanPage(rule) ==
  /\ rule.enabled /\ rule.channels = "one"
  /\ rule.conditions.object /\ rule.conditions.mistyped = {}

\* A signal: of its kind, and of the level, environment and release it asks for
\* (alert_test.go:168-182).
SignalRulesPage(rule, signal) ==
  LET c == rule.conditions
      due == /\ rule.kind = signal.kind
             /\ c.level = "" \/ c.level = signal.level
             /\ c.environment = "" \/ c.environment = signal.environment
             /\ c.release = "" \/ c.release = signal.release
  IN  SignalPages(rule, signal) <=> CanPage(rule) /\ due

\* A frequency: the groups of its level that reached the threshold within the window
\* (frequency.go:36-43), but those of which the limit's worth of groups, of any level,
\* occurred as often; and none without an issue.  Without a threshold or a window, which
\* are not asked for when it is made, nothing.
FrequencyRulesPage(rule, events, levels, now) ==
  LET c == rule.conditions
      sound == CanPage(rule) /\ c.threshold > 0 /\ c.window > 0
      count(g) == CountOf(events, now - c.window, g)
      due == {g \in DOMAIN levels : count(g) >= c.threshold /\ c.level \in {"", levels[g]}}
      crowded(g) == Cardinality({h \in {e.group : e \in events} \ {g} : count(h) >= count(g)}) >= GroupLimit
  IN  rule.kind = "frequency" =>
        \A top \in FrequentGroups(events, now - c.window, c.threshold) :
          LET pages == FrequencyPages(rule, levels, top)
          IN  IF sound THEN pages \subseteq due /\ \A g \in due \ pages : crowded(g) ELSE pages = {}

\* A metric: the aggregate over the window is what is compared (metrics.go:151-156),
\* except that the bucket in which the window begins is not read (less than a minute
\* of it, or an hour where it is longer than 48), and that one may reach beyond now
\* for samples ahead of the clock.
MetricRulesPage(rule, samples, now) ==
  LET c == rule.conditions
      width   == IF c.window > Cutover THEN Hour ELSE Minute
      from    == now - c.window
      missed  == {s \in samples : from <= s.at /\ BucketOf(width, s.at) < from}
      early   == {s \in samples : s.at >= now}
      window  == {s \in samples : from <= s.at /\ s.at < now}
  IN  rule.kind = "metric" =>
        /\ \A s \in missed : s.at < from + width
        /\ missed = {} /\ early = {} =>
             (MetricPages(rule, samples, now) <=>
                CanPage(rule) /\ window # {} /\ breached(c, Aggregate(c.agg, window)))

\* Whatever is observed, and of every request that is accepted.
RulesPageWhenDue(request, signal, events, levels, samples, now) ==
  LET rule == Stored(request)  IN
  Accepted(request) =>
    /\ rule.throttle > 0
    /\ SignalRulesPage(rule, signal)
    /\ FrequencyRulesPage(rule, events, levels, now)
    /\ MetricRulesPage(rule, samples, now)

\* "A rule with no channels can never notify anyone - reject it rather than let someone
\* believe they are covered when they are not" (alert_handlers.go:179-180).
NotifiesSomeone(request) == Accepted(request) => MayNotify(Stored(request))

\* "A rule that could never evaluate is rejected up front rather than skipped silently by
\* the alerter every tick" (alert_handlers.go:97-99).
Evaluates(request) ==
  Accepted(request) /\ request.kind = "metric" => MetricEvaluated(Stored(request).conditions)
=============================================================================
