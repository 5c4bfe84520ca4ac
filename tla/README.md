# Sabab, verified

TLA+ models of the Sabab back end (the Go services under `cmd/` and
`internal/`), the TLC configurations that check them, and theorems about them
that TLAPS proves. Read this beside the code: `PROJECT.json` maps every
definition to the lines it stands for.

## The system

An application's SDK sends envelopes to the **gateway**. The gateway checks the
ingest key, charges the rate limiter, and publishes one job per item to a Redis
stream. **Processor** workers read the stream in batches, fold errors into
*issues* (Postgres), write rows (ClickHouse, one table per signal), publish
alert signals to a second stream, and acknowledge. The **alerter** reads those
signals, matches them to rules, claims a throttle slot in Postgres and
notifies. The **dashboard API** lets people triage issues and manage projects.

| Part | State it keeps | Operations | Hard behaviour | What makes it correct |
|---|---|---|---|---|
| Queue (`internal/queue`) | stream, group's last id, pending list | Publish, Consume, Reclaim, Ack, trimming | a dead or slow consumer, trimming under a pending entry, half of a pipeline | an entry is unread, pending, acknowledged or trimmed; never nothing of these |
| Issue store (`store/postgres/issues*.go`) | status, times_seen per (project, group) | UpsertIssue, SetIssueStatus, assignment | two statements per upsert, workers on one group, triage in between | new once; one regression per resolve; the count covers the rows |
| Processor (`internal/processor`) | a batch in memory | Run, reclaim, handle, publishAlerts | any call fails, a crash between any two calls, redelivery to another worker | acknowledged implies stored; alerted implies stored; everything writable settles |
| Event store (`store/clickhouse`) | rows per table | batch inserts, searches, purge | a failed insert that wrote rows | pages skip nothing |
| Alerter (`cmd/alerter`, `internal/alert`) | throttle history | signals, frequency and metric timers | two replicas, a failed claim, no reclaim | one notification per throttle window; a signal is not lost |
| Gateway (`internal/gateway`) | the requests under way | authenticate, parse, limit, publish | limiter, database or queue down; a restart; half a pipeline | a 200 counts what is in the stream, any other answer but 503 means none of it is |
| Envelope (`internal/envelope`, the SDK's `encode`) | none | Parse, encode | a body that is cut or capped anywhere | what was sent is taken whole or refused |
| Rate limiter (`internal/ratelimit`) | tokens, last refill, expiry in Redis | AllowN | readings of the clock that overtake each other; a bucket that expires | burst and rate are kept; an honest Retry-After |
| Key cache (`internal/auth/ingestkey.go`) | key to project, with expiry | Authenticate | the cache is filled with an answer that is out of date | a revoked key, and a refusal, die within their lifetimes |
| SDK transport (`sdk/js/core`) | queue, timer, counters | enqueue, flush, backOff | a flush in flight, timeouts, 429 | every item is accounted for once; every flush ends |
| Projects and keys (`internal/api/project_handlers.go`) | projects, keys, a purge under way | create, mint, revoke, delete, purge | check-then-act over two statements; jobs in the pipeline of a deleted project | a project keeps a key; a purge leaves only late rows |
| Triage (`internal/api/issue_handlers.go`) | status, assignee, audit trail | SetIssueStatus, AssignIssue, an occurrence | an edit and its entry are two statements | the trail tells the state; a regression reopens |
| Lists and tail (`internal/api`, `internal/cursor`) | a cursor | pages, polls | rows arrive and change between pages; ties | nothing skipped, nothing shown twice |
| Migrations (`internal/migrate`) | applied versions, the lock | Run, two drivers, the splitter | overlapping runners, a lock session lost, a crash in a file | applied once, in order; recorded means there |
| Query language (`internal/query`) | none | lex, Parse, Compile | quotes, operators, colons inside words | a search selects what it says |
| Grouping, symbolication | none | MapFrame, Fingerprint | a new build, a bundle, a missing map | one bug one group, two bugs two |
| Normalization (`internal/processor/normalize*.go`) | none | normalize | a device whose clock is off | stored times are true |
| Alert rules (`internal/alert`, metrics rollups) | none | validate, matches, evaluate | two readings of a rule's conditions, widths of buckets, the cutover between rollups | an accepted rule pages when due |
| Config, logging, health, notify formats, scrub, enrich, deploy | none | wiring and I/O | none | not modelled |

## The modules

| Module | Models |
|---|---|
| `RedisStream` | one stream and its consumer group as `internal/queue/redis.go` uses it |
| `IssueStore` | the issues table, `UpsertIssue` and `SetIssueStatus` as interleaved transactions |
| `Processor` | the workers: EXTENDS both of the above and adds `Run`, `handle`, the event tables and the alert stream |
| `IngestContract` | what the path promises, without queues, workers, batches or retries |
| `AlertThrottle` | `alert_rules` and `alert_history`, `ClaimAlert` as a snapshot and a commit, edits of rules, the clock |
| `Alerter` | the alerter's replicas: EXTENDS `RedisStream` (for `sabab:alerts`) and `AlertThrottle`, adds the signal loop, the two timers, `fire` and dispatch |
| `Transport` | the JavaScript SDK's transport, and Node's exit after a crash |
| `Clock` | one time for the components that read it and are modelled together |
| `RateLimiter` | the token buckets in Redis, with readings of the clock under way to them |
| `IngestKeys` | the gateways' key caches: EXTENDS `Projects` |
| `Envelope` | the parser, and the SDK's encoder |
| `Gateway` | `handleEnvelope` for several requests: EXTENDS `IngestKeys`, `RateLimiter`, `Envelope` |
| `Projects` | projects, keys, deletion, the purge, and the jobs that race it |
| `Migrations`, `SplitSQL` | the migrator with its two drivers; the statement splitter |
| `Lists` | the paged lists and the live tail |
| `Triage` | an issue's status, assignee and audit trail |
| `Query` | the search language, as the rows a text selects |
| `Grouping` | from a frame and the uploaded maps to a fingerprint |
| `Normalize` | from a payload to a stored row |
| `AlertRules` | which rules are accepted, and when they page; the rollups |
| `Calls` | the calls of the functions: what a caller may give, and what is promised of it |
| `MCProcessor`, `MCAlerter`, `MCGateway`, `MCServices`, `MCPromises` | instances for TLC |
| `IssueStoreProofs`, `RedisStreamProofs`, `ProcessorProofs`, `AlerterProofs`, `TransportProofs`, `GatewayProofs`, `ServicesProofs`, `CallsProofs` | theorems |

**RedisStream.** An entry's id is its position in `entries`, which only grows;
`trimmed` counts the oldest ones MAXLEN has removed. `lastDelivered` and `pel`
are the group's cursor and pending list, `idle` the pending entries that reached
ReclaimMinIdle, `acked` a history. Each action is one command, atomic in Redis.
`Publish` is a pipeline: any non-empty prefix may arrive. `AutoClaim` follows
XAUTOCLAIM from `0-0`: it looks at up to ten pending entries per requested one,
takes the idle ones, and drops those that were trimmed. The owner of a pending
entry is left out, because no step of the code depends on it.

**IssueStore.** Per group: the row's status (or `"none"`) and `times_seen`. Per
worker: the transaction between its two statements, with the status the first
one read. A transaction that found a row holds its lock; one that found none
holds nothing, which is what `FOR UPDATE` does. The second statement and the
commit are one step, since nobody can see the new version or take the lock in
between. The title, culprit, release and time columns are left out.

**Processor.** `pc[w]` says where worker `w` stands: `"poll"` (the top of `Run`'s
loop), `"handle"` (the loop over the batch, oldest message first), a table's
name (the insert into it), `"publish"`, `"ack"`. The other variables are
`handle`'s locals and vanish when the worker is back at `"poll"`. The routing of
one message is an action per branch (`Park`, `Skip`, `Reject`, `CollectRow`,
`BeginUpsert`/`CommitUpsert`); each insert, the publication and the ack is one
action, with its failing twin. A failed call may have taken effect: any subset
of an insert's rows, any prefix of the signals, the commit, the ack. `Crash` may
come between any two steps; Postgres then rolls the transaction back. A job is
its kind, its group, and whether it normalizes. ClickHouse tables are sets, so a
row written twice (which the code accepts) is not told from a row written once.

`Run` goes on to `Consume` after every reclaim. The model makes the two
alternatives, because `Consume` may find nothing or fail and lead back to the
ticker.

**IngestContract.** Jobs are accepted, become durable, are announced, are
finished, and the oldest may be forgotten (MAXLEN). A job is finished only if it
is durable or of a kind that is never written; it is announced only if durable.
`Processor!Contract` is the refinement mapping.

**AlertThrottle.** A replica has three goroutines (`Thread`); a rule is served by
the goroutine of its kind. `history` is the table in commit order. `ClaimAlert`
is one statement, but under READ COMMITTED it decides from the snapshot taken
when it starts: `BeginClaim` takes the snapshot and the time, `WinClaim` commits
the row, `DropClaim` ends it otherwise. `ON DELETE CASCADE` removes a deleted
rule's rows; here they stay, as a record of what was claimed, and nothing can
look them up again. A dedupe key is a rule and a target. A statement whose
client died is taken to be cancelled; one that commits after its replica has
restarted, and claimed again, is left out.

**Alerter.** `stage[w]`: `"poll"`, `"load"` (`HandleSignal` for the oldest signal of
the batch), `"fire"` (its rules are being fired), `"ack"`. `work[t]` are the
targets a goroutine has still to fire and `page[t]` the row it won and is
dispatching. A signal is its issue, the rules whose conditions it meets, and
whether it decodes. A timer's pass may find any targets of the rules that are
on. `looked`, `owed` and `skipped` are history, for the properties. Faults: a
crash, and a failing rule query, claim, dispatch or ack. The `alerts` of
`Processor` are what `ProcessorPublish` puts on this stream; the two modules meet
in that step only.

**Transport.** JavaScript runs from one await to the next, so an action is such a
piece. `queue`, `timer`, `sending` are the fields; `counted` is the set of items
that the discard counters stand for, so that double counting shows. `requests`
are the exchanges under way; the network and the gateway decide them (`Takes200`,
`Refuses429`, `RequestFails`), and `Resolves` brings the answer back, in time for
the flush that awaits it or after `TimesOut`. Reasons and categories of a discard
are left out; a page that dies is not modelled, a Node process that exits is.

**RateLimiter.** `AllowN` reads the clock (`ReadClock`) and sends the reading to a
Lua script, which is one step (`RunScript`). In between, other calls may run
theirs: a reading is at most `MaxFlight` old. `bucket` is the Redis hash with the
time Redis wrote it, from which its expiry follows (`Found`). Tokens are whole
numbers in a unit that makes the rate per tick one too; time is in ticks. The
assumption `Burst <= Rate * (KeyTTL - MaxFlight)` says that a bucket which expires
would have been full; with the code's time to live of at least `2 * Burst / Rate`
it holds unless a call takes more than half of that to reach Redis.

**IngestKeys.** A lookup reads the cache (`StartLookup`), then the database
(`ProjectByIngestKey`), then writes the cache with the time of *that* step
(`Put`); keys are minted and revoked in between, by `Projects`' handlers.
Nothing in the program calls `Invalidate`, so no action does.

**Gateway.** `request[c].at` says where a handler stands: `"auth"`, `"limit"`,
`"publish"`. The body is read between the first two. `queued[c]` are the jobs of
a request that reached the stream: a failed pipeline leaves any prefix. A
limiter that does not answer lets the request through (`LimiterDown`).

**Envelope.** A body is a sequence of units of length one: a newline, an object
with a type and a length, another value, a byte that is no JSON. The parser's loop
is a function of the position and of the number of items taken (`ItemsFrom`), one
turn of it `ItemAt`; the ends are end of file, a hang-up and the cap.

**Projects.** A handler is a few statements; a slot (`admin`) keeps it between two.
A job carries whether its issue was upserted, which needs the project's row.
The tables of a signal include what the materialized views fill. A purge *submits* a
mutation per table (`PurgeTable`), which ClickHouse carries out when it gets to it
(`Mutate`): `pending` are those submitted. A mutation takes the rows that were
inserted before it was submitted; the rows of `late` were not.

**Migrations.** A runner goes through lock, read, apply. On Postgres a file is one
transaction, and its record's primary key is what catches a second runner once
a lock session was lost (`LoseLock`). On ClickHouse the lock is a no-op and the
statements commit one by one (`Exec`), their record last (`Record`).

**Lists.** One client reads one of the lists to its end, or one tail polls, while
rows arrive, change their place, match or cease to. A row is its sort value and
its tie-breaker; a cursor is both, or for logs and segments what their cursor
keeps of them.

**Triage.** An edit is an UPDATE and later an entry, which may fail. An occurrence
reopens a resolved issue and leaves no entry. Releases are numbered in the order they
were made; no step of the code compares them, only properties do.

**Query, Grouping, Normalize, AlertRules, SplitSQL** are functions. Each is checked
against a reference written from the promise and not from the code: a clause's
meaning, a bug and its occurrences, the time at which a thing happened, the
samples in a window, the pieces a file was put together from. Where the code
falls short of the promise the reference names the exception (see *What the
runs found*), so that the run fails if it falls short anywhere else. In `AlertRules` the
conditions of a rule are JSON that two Go structs are read from: the API's five
fields when a metric rule is made, the alerter's nine when any rule is evaluated
(`metricFields`, `conditionFields`); a value of the wrong type stops one of them only
if its struct has the field.

## The runs

| Run | Expect | Shows |
|---|---|---|
| `faults` | pass | all safety properties and the contract, with two workers, two messages, one triage step and any two faults |
| `recovery` | pass | `WritableJobsSettle`: under fairness, despite a crash or failed insert, a message that never normalizes, and a table that stays down |
| `parking` | pass | `EveryMessageSettles` when `MaxDeliveries` is 1, where parking works, for every way through the loop |
| `poison` | violation | `EveryMessageSettles` with the default `MaxDeliveries` of 5: poison is never parked |
| `lost_alert` | violation | `DetectedIsAnnounced`: a crash loses an alert |
| `paging` | pass | two replicas, a rule for each goroutine: one replica never pages twice in a window; an acknowledged signal was decided; a won claim leads to a page unless something failed |
| `double_page` | violation | `OneWinnerPerWindow`: the timers of two replicas, of frequency or of metric rules, both win (TLC shows a metric rule) |
| `unacked` | violation | `EverySignalSettles`: a signal left unacknowledged is never seen again |
| `ingress` | pass | two requests with bodies of every sort, two projects, keys that are minted and revoked, a restart, Redis and the database failing: the budget, the Retry-After, the age of what the cache says, what clients are told |
| `never500` | violation | `NeverServerError`: a payload that is no JSON is answered 500 |
| `services` | pass | the components that stand by themselves, each in its own behaviours: projects, migrators, lists, triage, the SDK's transport (every item is accounted for exactly once, one flush waits at a time, every flush ends, a crash's error is left behind only by a process that was sending something else); and every call of the functions over enumerated inputs |
| `promises` | violation | `SomePromiseIsKept`: one behaviour that breaks seven documented promises |

**Bounds and why they are enough.** `MaxEntries = 2` and `BatchSize = 2`: one
message per worker, or both in one batch; enough for two workers to hold the
same message, or two messages of one group. Three entries add no new pair of
actors. One group, because groups never touch each other's row. `MaxTriage = 1`
suffices for a resolve between the two occurrences. `MaxFaults = 2` lets a fault
hit the handling of a message and its redelivery. `MaxLen = 1` in `faults` makes
the stream trim a pending or unread entry. `MaxSeen` caps `times_seen`; it is
never below the number of messages. The theorems hold for every value of these
bounds.

For the alerter: two replicas (the pairs that race), one issue (the throttle
never compares two), a rule for each goroutine, two signals of one
issue (the second finds the first's row), a throttle of one tick and a clock
that ticks once (inside the window and past it), one edit, one fault, one pass
of a timer. The unacknowledged signal needs one signal; the double page needs a
pass on each replica. For the transport: a queue of one overflows with the
second item, and three items are one in flight, one queued and one dropped.

`ingress`: two requests (they race for a bucket and for a cache entry), two
projects and two keys (a key of another project; one revoked while the other
is minted), a burst of one and a body of two items (a cost no waiting makes
affordable), lifetimes of a tick and of none, a lookup and a flight of one tick,
a clock of two ticks (which expires a bucket and a cache entry), one restart.

`services`: two handlers of projects on two keys, an error (a table and the
statistics) and a metric (a table and two rollups; logs and spans have one table
each, as a metric without its rollups would); two migrators with three runs
over builds that add, edit and repeat a file, two statements to a file; three
rows over three times with pages of one and two and two changes; two editors,
three edits and two releases. The functions: files of up to two statements of two pieces;
envelopes of up to three items cut after every unit; bugs of one or two frames
with every difference that should not matter; searches of one or two clauses
over every sort of field; devices whose clocks are right, off by less than a
day or by more; rules and samples on both sides of every bucket's edge, conditions
with a field of the wrong type or that are no object, every spelling of the channels.

`promises` needs little: two workers and one resolve, one edit and two releases, one
project and one error, two rows of one trace and time, pages of one.

**Fairness.** A worker's own steps are weakly fair: a goroutine that can go on,
goes on. `Consume` and `Reclaim` are strongly fair, because `Run` alternates
them (the ticker first, then a read), so neither starves while the other keeps
being possible. Time passes for each pending entry. The call that always fails
(`Down`) is fair in its failure only. Nothing is owed by people, by the gateway
or by faults. The number of faults is bounded: a system whose every insert
fails for ever writes nothing.

An alerter replica takes its next step, if it has one; the timers, the people
and the clock owe nothing. In `services` the timers of the SDK's process fire
(the flush timer and the timeout); the network owes nothing. `ingress`, and the
other machines of `services`, are checked for safety only, under no fairness.

**Deadlock** is not checked: a drained queue with no more envelopes is a
legitimate end of a bounded behaviour, and so is a list read to its end.

## What is proved

All for every value of the constants: any number of workers, callers, gateways,
keys, groups and entries, any batch size, rate, burst and lifetime, any faults.
The assumptions on constants are those the modules name, which TLC evaluates too:

* `StreamAssumption`, `ProcessorAssumption`, `TransportAssumption`,
  `IngestKeysAssumption`, `GatewayAssumption`, `ListsAssumption`,
  `MigrationsAssumption`: types, and that there is a last time; `TriageAssumption`:
  releases are positive numbers;
* `IssueAssumption`: also that there are finitely many workers and at least one
  (`config.go:226-228`); `ProjectsAssumption`: finitely many keys;
* `ThrottleAssumption`: also that a throttle is not zero, which `throttleOrDefault`
  (`alerts.go:169`) sees to;
* `EnvelopeAssumption`: the limits are above zero (`withDefaults`, `envelope.go`);
  `BodiesAssumption`: a body is units, whichever and however many;
* `LimiterAssumption`, whose one condition on numbers is explained above.

* `PlacesAssumption`: source files have names, and a place of the source is compiled
  into a position of its own; `TableAssumption`: a row's time and its number are
  numbers, its body is a text.

One theorem of a specification has a hypothesis: `TimesSeenIsEnough` has `MaxEntries <=
MaxSeen`; the bound on `times_seen`, a BIGINT, is not what stops it from counting.

The theorems about functions read `CallTypes => Property`, with the properties of the
run `services`. `CallTypes` (in `Calls`) says what a call is of, and none of it bounds
anything; that the run's calls are among them is `CallsAssumption` of `MCServices`.
What it asks for:

* of a device, that it flushes before the request is received and after what it reports
  happened, and that its clock, however wrong, never shows the instant that Go takes for
  no time at all; durations below 2^64;
* of a rule, the fields' types (a threshold that can be read is a `uint64`,
  `alert.go:174`), finitely many events, and whole numbers for the times of samples;
* of a migration file, statements of *pieces*: a string, a name in backticks, a
  comment of either kind, or code in which none of these begins, each of any length
  and of any characters that it may hold (`Piece`). In a string any character may be
  escaped; a piece of code does not end in `-` or `/`, so that two pieces do not make
  a comment between them;
* of a bug, that no word of its message is spelled like a placeholder that `parameterize`
  puts for a variable part, that no build's hash is the one of the old upload, and, of two
  bugs, that no function of the source is called what the bundle calls it (`Unlike`);
* of a clause of a search, that it can be written (`Writable`): a value in quotes may
  hold anything but quotes; without them no space, and no sign of its own in front; a
  word, which has no field, has no mark that would make it one or negate it.

* `IssueStoreProofs`: types, `NewOnce`, `LockedStatusIsCurrent`,
  `OneRegressionPerResolve`, `OnlyTheOvertakenAreSilent`. `OneRegressionPerResolve` is not
  inductive. The invariant `IssueInv` adds
  `LockIsExclusive` (two transactions never hold one row) and `OpenResolves`: the
  regressions reported, plus one if the issue stands resolved now, never exceed
  the resolves. With the lock, a transaction that read `"resolved"` still finds it
  so, and spends the one resolve that is open. `OnlyTheOvertakenAreSilent` is about
  steps: an occurrence that reports a regression reopens the issue, and one that
  reopens it without a report had found no row. It needs no more than `IssueInv`
  (`UpsertReports`): a transaction that found the row holds its lock, so the status it
  reports is the one it changes.
* `RedisStreamProofs`: `NothingVanishes`. The core is that a read moves the
  cursor over a *prefix* of what is unread (`FirstNIsPrefix`).
* `ProcessorProofs`: the types of the whole system, `NoSilentLoss`,
  `AlertsAreDurable`, `NothingVanishes`, and that the processor implements the
  issue store (`Spec => IssueSpec`), the stream (`Spec => StreamSpec`, since every
  message a worker holds was handed out: `HoldsHanded`) and, if `MaxDeliveries >= 2`,
  the ingest contract (`Spec => MeetsContract`): then the parking test is false of
  everything the queue hands out. (With less, parked messages are finished without
  a row, as they are meant to be, and the contract is not the right one.)
  `NoSilentLoss` speaks of acknowledged
  messages only, so it needs to know what a worker is *about* to acknowledge:
  `LocalInv` says, per stage, that everything ackable is stored, skippable or
  parked, that the rows collected are of the table they are in, and that
  signals waiting to be published are of stored rows or of rows about to be
  inserted.

  Three more results count. `TimesSeenIsEnough`: `Folded` are the events whose rows
  are stored or collected, and each of them was counted by a commit
  (`RowsAreCounted`). `SignalsAreReports`: the alerts of a kind on the stream and the
  signals of it that workers hold (`Waiting`) are together no more than the upserts
  that reported it (`SignalsAreCounted`); publishing moves a signal from one to the
  other, a crash drops some, and only a commit adds one, which counts it in the
  same step. What remains, that a commit's report is about the row it found, is
  `OpenTxIsCurrent`: while a worker's transaction is open, it is of the message
  that the worker is at. With `NewOnce` and `OneRegressionPerResolve` this bounds the
  alerts: `AlertsAreNotRepeated`. `ProcessorReopensSilentlyIfOvertaken` follows from
  the refinement.
* `AlerterProofs`: three results, and that the alerter implements the stream
  (`AlertSpec => StreamSpec`). *One replica pages once* (`OnlyReplicasPageTwice`): a
  snapshot may miss rows that commit after it; `ClaimStandsClear` says that a claim
  about to be granted still finds no recent row *of its own replica*. That needs
  `WorkOfKind` and `ClaimOfKind`: a rule is served by one goroutine per replica,
  which claims one key at a time. *Pages are lost by faults* (`LostPagesAreFaults`)
  is a count: a won row is paged, in the hand of one goroutine, or lost, and a
  fault empties at most the hands of one replica, one per kind (`PagesOK`).
  *Acknowledged is decided* (`AckedIsDecided`): `HandInv` follows a signal. It is in
  one replica's hands, since the group hands it out once and nothing is reclaimed;
  until a claim decides it, each rule it matched is on that replica's list of
  work; and a claim that is blocked looked at a clock no earlier than that at which
  the rules were loaded, so the row that blocks it is recent enough.
* `TransportProofs`: `EveryItemHasOneFate` and `OneFlushWaits`, the safety of the
  transport in full. The invariant is a `Ledger` over what was captured, what is
  queued and what is counted. These three are parameters of it, because one step
  of the code enqueues an item and then flushes: `EnqueueKeepsLedger` and
  `FlushKeepsLedger` are proved apart and put together by their middle state. The
  ledger says that two requests share no item and no report, that at most one
  request is awaited, and that every item up to the last captured is entered once.
* `GatewayProofs`, of the limiter: `BudgetHolds` and `RetryAfterIsHonest`. The budget is
  inductive once one knows what an *absent* bucket stands for: `BucketsOK` says
  that a bucket lives at least until it would be full again, even for a reading
  of the clock that is still on its way to Redis, so a caller that finds none
  and starts from a full one is given nothing the bucket would not have held.
  The promise of a `Retry-After` is kept in `PromisesOK`: the tokens a refused
  caller was short of, against the time since; the rounding up of the division
  (`RoundsUp`) is what makes the answer honest and not one tick short.
* `GatewayProofs`, of the gateway: five results. *The caches*: `CacheInv` follows an answer from
  the database into a cache, a cache to its expiry. A key changes at most twice
  (minted, revoked), so what is out of date in a cache went out of date once, and
  at most `MaxLookup` before it was written; hence `StaleEntriesDie`. *The answers*:
  `AnswerInv` says what `queued` holds at each stage of a handler, and so
  `AnswersAreTrue`. *The limiter*: `GatewaySpec => LimiterSpec`; whatever the
  gateway does besides, it uses the buckets as `RateLimiter` says, and the two
  theorems about `RateLimiter` hold of it without being proved again. *The charge*
  (`GatewaysChargeEveryJob`): a request that was let through is *owed* its jobs until
  the pipeline has taken them or failed (`AllOwed`); what a project's requests are
  owed and what they have in the stream is at most what its bucket handed out, plus
  what was let through while Redis did not answer (`ChargeInv`). A restart forfeits
  what is owed; and a call on its way to the limiter bears the cost of the request
  that made it (`StampsMatch`).

  *The wire format* (`EnvelopesArriveWhole`, from `AcceptedBodiesAreWhole` and
  `EncodedItemsArrive`) is about
  functions of sequences, of any length. No induction over them is at hand, so each
  proof takes the greatest position at which what it shows would fail: the sets of
  the naturals below a position are well founded by inclusion (`LeastNatural`,
  `GreatestBelow`). First, the recursive functions exist: a function that solves the
  equation behind a position is extended by it (`ItemsAreDefined`,
  `EncodingIsDefined`). Then `Whole` holds from each position on: what is accepted
  ended properly, and with the items taken before stays within the limits. For the
  round trip, `Holds` says where each item's header, payload and newline are in an
  encoding; at such a place one turn of the parser takes just that item
  (`EncodedIsTaken`); and `Expected`, from the last item to the first, says what the
  rest of the body gives, for every number of items already taken. A payload may
  hold newlines and headers of its own: its length alone says where it ends.
* `ServicesProofs`: the machines of `services`, one invariant each.
  *Triage* (`TrailTellsState`, `RegressionsReopen`): `TrailOK` says that whoever is
  between an update and its entry will write what the field holds, unless two are,
  and then the field is unsure. `SilentSince` is stronger than `RegressionsReopen`:
  nothing at all has occurred since the resolution that stands, of whatever release.
  *Lists* (`ShownOnce`, `NothingSkipped`, `TailSendsWhatIsNew`): what was shown lies at
  or above the cursor, and a cursor only descends; a place is a pair, and
  `PlacesAreOrdered` says that their order is total. What a page leaves out ties with
  its last row or lies below it.
  *Projects* (`KeylessIsExplained`, `PurgeLeavesOnlyLateRows`): while a revocation is
  under way alone, the project has two live keys (`KeysOK`), so its one update leaves
  one; a purge that has got to the n-th table has submitted the mutations of the
  earlier ones, and a row from before is in one of these only while its mutation is
  pending (`PurgesOK`).
  *Migrations* (`AppliedOnceInOrder`, `RecordedIsWhole`): a version that is not muddled
  has been touched by the one runner that is midway through it, or was recorded
  whole (`Untouched`); and while no lock was lost, what its holder has not read of
  it has committed itself (`ReadAll`), so its own files, whose versions ascend, are
  not among it.
* `CallsProofs`: five functions. *Stored rows* (`StoredRowsAreTrue`): with stamps, a
  time that is believed is shifted by the difference of the two clocks, so that
  what is stored does not depend on the device's; a clock that is off by more than a
  day leaves the time of receipt. *Alert rules* (`AcceptedRulesPage`): an accepted rule that
  can page at all (`CanPage`: on, with a channel, its conditions of the right types)
  pages for the signals of its level, environment and release, for the groups that
  reached its threshold, and for the aggregate over the window it names, but for the
  exceptions that the properties name. The two structs agree on such conditions
  (`ReadWhenTyped`), and what `validateMetricRule` let through is evaluated
  (`ValidatedIsComplete`).

  *Migration files* (`FilesAreCutWell`): `StepsIn` says what the machine does
  at each kind of character; a way through a piece is given by its states, by what is
  kept up to each character, and by the characters at which the machine does not
  stop (`Walks`), the escapes of a string and the second half of `--`, `/*` and `*/`.
  Whatever such a way is given, the machine goes it (`Walked`); hence it takes each
  piece as it should (`PieceTaken`), each statement (`StatementTaken`) and the file.
  These are inductions over positions, each in the form of `UpTo`: a set that holds
  0 and with a number the next holds them all (or of `LeastSubset`, for finite sets).

  *Grouping* (`BugsStayWhole`, `BugsStayApart`). What is in the fingerprint of an
  occurrence is followed from the source outwards: a place is compiled, taken back by
  a map or not, and named. A map takes a position back to one place because no two
  places share one; that is what makes two builds agree. The lists involved are
  filters of lists (the frames of the application's own code, the fingerprints that are
  not blank). `OnlyKeeps` gives a filter as a sequence that is built up, and `OnlyAlike`
  says that two lists filtered at the same places stay side by side. For two bugs, equal
  fingerprints are taken apart again, down to the frame or word that differs.

  *Searches* (`SearchesAreHonest`). `Reads(s, text, t)` says that the lexer, in the
  state `s` before a text, is in `t` behind it; two texts that are read one after the
  other are read as one (`ReadsOn`), so a clause is read part by part: its mark, its
  field and colon, its sign, its value with or without quotes, and the space behind
  (`ReadsClause`). By induction over the clauses the tokens are those of the clauses that
  say something (`TokensAre`). The rest compares a token with its clause: the sign is
  found where it was written and nowhere else (`SplitSaid`), a token is refused when its
  clause makes no sense (`RefusedIs`), and otherwise selects the same rows
  (`SaidSelects`).

**Only model-checked:** liveness (TLAPS 1.4.5 proves neither fairness nor
ENABLED): `WritableJobsSettle`, `EveryMessageSettles`, `FlushEnds`; and the
counterexamples of the violation runs. Every other property that a passing run checks
is a theorem. No induction theorem of the library can be instantiated here, since
each takes an operator for a parameter; the inductions above are made by hand, from
least elements.
`IssueTypes` and `ProcessorTypes` are proved and are in no run: a state TLC meets
outside its types would be an error of every other check.

## What the runs found

Twelve places where the code does not do what a comment, a test or a document of
the repository says of it. Five have a run each:

* `poison`: `Reclaim` sets `Deliveries` to 2 for whatever it returns
  (`redis.go:187`), so the test against `MaxDeliveries = 5` (`processor.go:153`)
  never parks anything.
* `lost_alert`: signals exist only in memory between the upsert's commit and
  their publication. After a crash, the redelivered event is neither new nor a
  regression.
* `double_page`: `ClaimAlert` (`alerts.go:87`) takes no lock and `alert_history` has
  no unique index, so two replicas that claim at once both insert. The comment
  above it says that exactly one wins.
* `unacked`: the alerter calls `Consume` and never `Reclaim`, so "leave it unacked
  so it is redelivered" (`main.go:131`) redelivers nothing.
* `never500`: the parser never looks at a payload, and `json.Marshal` refuses a
  `RawMessage` that is no JSON, so `handleEnvelope` answers 500
  (`gateway.go:200`), which `envelope/errors.go:8-11` says it never does.
Seven are of components that share nothing, and are shown by one run, `promises`. Its
property says that one at least of seven promises is kept, which follows from each of
them; its counterexample is a behaviour in which they are broken one after another,
and it ends where none of them holds. It refutes all seven, each for the reasons that
its own component's steps show:

* *A reopening is reported* (`EveryReopenIsReported`, `issues.go:27`). An upsert that
  found no row holds no lock. If another worker creates the issue and somebody resolves
  it meanwhile, the upsert reopens it and reports `Regressed = false` (`issues.go:105`).
* *A straggler is no regression* (`StragglersAreExpected`, `issue_queries.go:172-175`).
  `UpsertIssue` never compares releases: an event of a release older than the fix
  reopens the issue and is reported.
* *A purge covers every event table* (`PurgeIsComplete`, `project.go:8-9`). `purgeTables`
  leaves out `issue_stats_1h`, which has a `project_id` like the others.
* *Segments are not skipped* (`SegmentsAreNotSkipped`, `spans.go:174-177`). The cursor is
  `(timestamp, trace_id)`, and a trace has a segment per service.
* *Extras beside `{{default}}` count* (`ExtrasTellApart`, `grouping.go:52-56, 95-98`,
  `grouping_test.go:185-187`). `customComponents` gives up at the first `{{default}}`, and
  nothing else looks at the fingerprint.
* *A rule that can notify nobody is refused* (`NotifiesSomeone`,
  `alert_handlers.go:179-181`). Channels spelled `null`, `[ ]` or `{}` are accepted.
* *A metric rule that cannot be evaluated is refused* (`Evaluates`,
  `alert_handlers.go:97-99`). `validateMetricRule` reads five fields of the conditions, the
  alerter nine; with a threshold of -1 the rule is accepted and fails to parse at every
  tick, silently.

These are the ones met; there may be more. Three were noticed and have no run, for what
is at stake is a wording: the comment on `ClaimAlert` says that a frequency alert is
throttled per rule, `frequency.go:129` throttles per rule and issue; `projects.go:23-25`
has a revocation take effect immediately and `ingestkey.go:47` within the cache's
lifetime, where it is the lifetime and the time a lookup takes (`StaleEntriesDie`);
and a frequency rule without a threshold or a window is accepted and skipped,
where the comment of `alert_handlers.go:97-99` is about metric rules only.

The properties that pass describe what the code does, its exceptions included;
each exception is a conjunct or a disjunct of a property, and a reader can
strike it to see the counterexample.

*Issues.* Only a worker that found no row reopens silently (`OnlyTheOvertakenAreSilent`).
An issue that stands resolved has had no occurrence since, but of releases older than
its fix: so much of the comment on releases holds (`RegressionsReopen`).

*The gateway.* Readings of the clock that overtake each other refill the same time
twice: `BudgetHolds` allows what the bucket's time was set back by. An envelope that
costs more than the burst is refused for ever, with a Retry-After every time. A key
that was looked up and then revoked is accepted for its whole lifetime *after* the
write into the cache, for nothing calls `Invalidate`.

*The SDK.* `flush` resolves at once while a send is in flight (`transport.ts:133`),
and `flushThenExit` takes that for sent: a fatal error queued meanwhile is lost
with the process (the second conjunct of `OneFlushWaits`: only a flush that was
under way leaves it behind). A client report is
cleared when it is encoded, and lost if that request fails.

*Projects.* Two revocations can leave a project without a key; so can a project
whose first key could not be made. Rows of a deleted project arrive after its
purge from jobs that were taken before, or after their table's mutation was
submitted. An answer of 204 means the mutations were submitted, not carried out;
what a purge leaves for ever is what came late, and `issue_stats_1h`.

*Migrations.* On Postgres a runner that lost its lock session meanwhile is stopped
by the primary key of the record, and its transaction rolls back. On ClickHouse
two runners may apply a file at once, and a file that was edited after half of
it ran is run from its new first statement.

*Lists.* Rows of logs and segments that tie with the last of a page may be skipped
(no unique tiebreaker in the cursor; of segments, `promises` shows it); the tail skips rows that arrive behind its
newest one, ties at the end of a full poll, and everything an hour after it was
opened.

*Grouping.* A source map that cannot be fetched, or that has no name for a frame,
splits an issue (`symbolicate.go:141-143`), and so does which of two maps of one
release a query without ORDER BY returns first (`releases.go:72-76`). The
pattern that drops a bundle's hash from its name also eats words of eight
letters, so two bugs may share a group. Extras beside `{{default}}` are dropped
(see `promises`), in every occurrence alike.
The proofs brought out more of the kind: a blank fingerprint of a client's counts for
none; a message with a word that is spelled like a placeholder is that of a variable
word; and a function of the source that is called what the bundle calls another
passes for it where a map has no name.

*Search.* A negated bare word loses its negation; an ordering on a map's key means
equality; `field:` with nothing after it is dropped. The severities `panic`,
`crit`, `emerg` and `verbose` are accepted on ingest and refused by the search.

*Stored rows.* A span that ends before it starts gets a duration that wraps around
2^64; a span's tags are decoded and dropped.

*Alert rules.* The bucket in which a window begins is not read. A frequency query
takes its `LIMIT 100` before it filters by level, has no upper bound in time,
and ignores the rule's environment and release. A frequency rule without a threshold
or a window is accepted, and skipped at each pass. What can page nobody at all
(`CanPage`) is left to `promises`.

## Plan

Done: the path from the stream to the row with its contract; the alerter and its
throttle; the SDK's transport; the gateway with its parser, limiter and key
cache; projects, triage, lists, migrations; the functions. What is left:

1. Reclaim with more failing messages than a batch holds, with the rate of
   reclaims against ReclaimMinIdle.
2. `Transport` composed with `Gateway`: what the client counts as lost against
   what was enqueued, and the envelope sent again after a 503.
3. The properties of functions that the proofs showed to hang on a hypothesis
   (`Unlike`, words that are spelled like placeholders): how much of a bug's
   identity is lost where it fails.

## Not modelled

* Of the event store: the APM and web-vitals reads, the charts (their points and
  their grouping by a tag), sparklines and facet counts; and rows that a list has
  twice because an event was stored twice. Each is one query of one statement, whose
  arithmetic is ClickHouse's.
* Sessions and passwords, beyond `CanAccessProject`: single statements around
  library cryptography.
* Scrubbing and enrichment: regular expressions over strings, and a table of user
  agents. Which characters a pattern matches is a question for a test.
* The rest of the SDK (instrumentation, stack parsing, the logger and metrics
  facades, which end in `enqueue`); a page that is closed.
* What go-redis does by itself: a pipeline or a script whose connection broke is sent
  again by the client, so a job, a signal or a charge may be there twice. Clocks that
  differ: one clock stands for every gateway. A `window_minutes` so large that it overflows a `time.Duration`.
* Formats of notifications, and which channel a page goes to.
* The upload and the decoding of source maps; what was uploaded is an input of
  `Grouping`.
* Configuration, logging, health, version, HTTP framing, seed data, deployment and
  the examples: no state that others depend on.
