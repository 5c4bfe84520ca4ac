----------------------------- MODULE Processor -----------------------------
(***************************************************************************)
(* The processor (internal/processor/processor.go and its pipeline): a     *)
(* group of workers that drain the ingest stream, fold errors into issues, *)
(* write rows to ClickHouse and acknowledge.                               *)
(*                                                                         *)
(* A worker's step is one call to a store: a read or claim of the stream,  *)
(* a statement of the issue transaction, the insert of one table's batch,  *)
(* the publication of the alert signals, the acknowledgement.  Between two *)
(* steps other workers, people changing issues, time and crashes have      *)
(* their turn.  Any of the calls may fail; a failed call may or may not    *)
(* have taken effect at the server.                                        *)
(***************************************************************************)
EXTENDS RedisStream, IssueStore

CONSTANTS
  Envelope,       \* what the gateway publishes: sequences of jobs
  MaxDeliveries,  \* Options.MaxDeliveries
  Faults,         \* which calls may fail, and whether workers may crash
  MaxFaults,      \* bound of the model: faults that happen
  Down            \* tables whose every insert fails

VARIABLES
  pc,        \* where each worker stands: a table's name is the insert into it
  todo,      \* ids of the worker's batch not yet routed
  reported,  \* Deliveries of the batch's messages, as the queue reports it
  rows,      \* per table, the ids whose rows and acks the batch collected
  ackable,   \* ids the batch will acknowledge
  signals,   \* alert signals collected, not yet published
  stored,    \* per table, ids with a row in ClickHouse
  alerts,    \* the alert stream
  parked,    \* history: ids parked as poison
  faults     \* faults so far

workerVars == <<pc, todo, reported, rows, ackable, signals>>
outputVars == <<stored, alerts, parked>>
vars == <<streamVars, issueVars, workerVars, outputVars, faults>>

Tables == {"errors", "logs", "spans", "metrics"}
Rank    == [errors |-> 1, logs |-> 2, spans |-> 3, metrics |-> 4]
TableOf == [error |-> "errors", log |-> "logs", span |-> "spans", metric |-> "metrics"]

WrittenKind == DOMAIN TableOf

(***************************************************************************)
(* A queued job, as far as routing can tell jobs apart.  "garbage" does    *)
(* not decode; "session" stands for the kinds that decode and are not      *)
(* ingested; a job that is not well formed decodes, and its payload does   *)
(* not (normalize returns an error, every time).                           *)
(***************************************************************************)
Job == [kind : WrittenKind \cup {"session", "garbage"}, group : Group, wellFormed : BOOLEAN]

Skippable(job) == job.kind \notin WrittenKind

Signal == [kind : {"new_issue", "regression"}, group : Group, id : Nat]

FaultKind == {"crash", "upsert", "insert", "publish", "ack"}

ASSUME ProcessorAssumption ==
  /\ Body = Job
  /\ Envelope \subseteq Seq(Job)
  /\ MaxDeliveries \in Nat
  /\ MaxFaults \in Nat
  /\ Faults \subseteq FaultKind
  /\ Down \subseteq Tables

Fault(kind) ==
  /\ kind \in Faults
  /\ faults < MaxFaults
  /\ faults' = faults + 1

NoRows == [t \in Tables |-> {}]

----------------------------------------------------------------------------
ProcessorInit ==
  /\ pc = [w \in Worker |-> "poll"]
  /\ todo = [w \in Worker |-> {}]
  /\ reported = [w \in Worker |-> 1]
  /\ rows = [w \in Worker |-> NoRows]
  /\ ackable = [w \in Worker |-> {}]
  /\ signals = [w \in Worker |-> <<>>]
  /\ stored = [t \in Tables |-> {}]
  /\ alerts = <<>>
  /\ parked = {}
  /\ faults = 0

Init == StreamInit /\ IssueInit /\ ProcessorInit

(***************************************************************************)
(* The worker's local state after a step: everything is local to handle,   *)
(* so it is gone when the worker is back at the top of Run's loop.         *)
(***************************************************************************)
Move(w, stage, left, r, a, sig) ==
  LET back == stage = "poll" IN
  /\ pc'       = [pc EXCEPT ![w] = stage]
  /\ todo'     = [todo EXCEPT ![w] = left]
  /\ reported' = [reported EXCEPT ![w] = IF back THEN 1 ELSE @]
  /\ rows'     = [rows EXCEPT ![w] = IF back THEN NoRows ELSE r]
  /\ ackable'  = [ackable EXCEPT ![w] = IF back THEN {} ELSE a]
  /\ signals'  = [signals EXCEPT ![w] = IF back THEN <<>> ELSE sig]

\* Tables after the k-th that the batch has rows for.
Pending(k, r) == {t \in Tables : Rank[t] > k /\ r[t] # {}}

\* handle's order: the tables with rows one after the other, then one ack of
\* everything that may be acknowledged, if there is anything.
NextStage(k, r, a) ==
  IF Pending(k, r) # {}
  THEN CHOOSE t \in Pending(k, r) : \A u \in Pending(k, r) : Rank[t] <= Rank[u]
  ELSE IF a # {} THEN "ack" ELSE "poll"

----------------------------------------------------------------------------
(***************************************************************************)
(* Run's loop.  After a reclaim the code goes on to Consume, which may     *)
(* fail and lead back to the ticker; so the two are alternatives here.     *)
(***************************************************************************)
Enter(w, ids, deliveries) ==
  /\ pc' = [pc EXCEPT ![w] = "handle"]
  /\ todo' = [todo EXCEPT ![w] = ids]
  /\ reported' = [reported EXCEPT ![w] = deliveries]
  /\ UNCHANGED <<rows, ackable, signals>>

Consume(w) ==
  /\ pc[w] = "poll"
  /\ Read
  /\ Enter(w, NextBatch, 1)
  /\ UNCHANGED <<issueVars, outputVars, faults>>

\* Mutant: what was claimed is not handled.
ReclaimAndForget(w) ==
  /\ pc[w] = "poll"
  /\ AutoClaim
  /\ UNCHANGED <<issueVars, workerVars, outputVars, faults>>

\* Redis does not return a delivery count, so Reclaim reports 2, always.
Reclaim(w) ==
  /\ pc[w] = "poll"
  /\ AutoClaim
  /\ IF Claimed = {} THEN UNCHANGED workerVars ELSE Enter(w, Claimed, 2)
  /\ UNCHANGED <<issueVars, outputVars, faults>>

----------------------------------------------------------------------------
(***************************************************************************)
(* handle's loop over the batch, in id order.                              *)
(***************************************************************************)
Current(w, i) ==
  /\ pc[w] = "handle"
  /\ i \in todo[w]
  /\ \A j \in todo[w] : i <= j

Poison(w) == reported[w] > MaxDeliveries

\* Message i is done with in the loop, leaving rows r, acks a, signals sig.
Route(w, i, r, a, sig) ==
  LET left == todo[w] \ {i} IN
  Move(w, IF left = {} THEN NextStage(0, r, a) ELSE "handle", left, r, a, sig)

AddRow(w, t, i) == [rows[w] EXCEPT ![t] = @ \cup {i}]

\* Mutant: parked, and left pending.
ParkUnacked(w, i) ==
  /\ Current(w, i)
  /\ Poison(w)
  /\ Route(w, i, rows[w], ackable[w], signals[w])
  /\ parked' = parked \cup {i}
  /\ UNCHANGED <<streamVars, issueVars, stored, alerts, faults>>

Park(w, i) ==
  /\ Current(w, i)
  /\ Poison(w)
  /\ Route(w, i, rows[w], ackable[w] \cup {i}, signals[w])
  /\ parked' = parked \cup {i}
  /\ UNCHANGED <<streamVars, issueVars, stored, alerts, faults>>

\* Undecodable, or a kind that is not ingested: acknowledged without a row.
Skip(w, i) ==
  /\ Current(w, i)
  /\ ~Poison(w)
  /\ Skippable(entries[i])
  /\ Route(w, i, rows[w], ackable[w] \cup {i}, signals[w])
  /\ UNCHANGED <<streamVars, issueVars, outputVars, faults>>

\* normalize fails: left unacked, for redelivery.
Reject(w, i) ==
  /\ Current(w, i)
  /\ ~Poison(w)
  /\ ~Skippable(entries[i]) /\ ~entries[i].wellFormed
  /\ Route(w, i, rows[w], ackable[w], signals[w])
  /\ UNCHANGED <<streamVars, issueVars, outputVars, faults>>

\* ProcessLog, ProcessSpan, ProcessMetric: a row, and nothing else.
CollectRow(w, i) ==
  /\ Current(w, i)
  /\ ~Poison(w)
  /\ entries[i].kind \in WrittenKind \ {"error"} /\ entries[i].wellFormed
  /\ Route(w, i, AddRow(w, TableOf[entries[i].kind], i), ackable[w], signals[w])
  /\ UNCHANGED <<streamVars, issueVars, outputVars, faults>>

IsError(w, i) ==
  /\ Current(w, i)
  /\ ~Poison(w)
  /\ entries[i].kind = "error" /\ entries[i].wellFormed

BeginUpsert(w, i) ==
  /\ IsError(w, i)
  /\ ReadPrior(w, entries[i].group)
  /\ UNCHANGED <<streamVars, workerVars, outputVars, faults>>

SignalsOf(w, i) ==
  LET signal(kind) == [kind |-> kind, group |-> entries[i].group, id |-> i] IN
  (IF IsNew(w) THEN <<signal("new_issue")>> ELSE <<>>)
    \o (IF IsRegressed(w) THEN <<signal("regression")>> ELSE <<>>)

CommitUpsert(w, i) ==
  /\ IsError(w, i)
  /\ Upsert(w)
  /\ Route(w, i, AddRow(w, "errors", i), ackable[w], signals[w] \o SignalsOf(w, i))
  /\ UNCHANGED <<streamVars, outputVars, faults>>

\* A statement fails, or the reply to the commit is lost.  Process returns
\* the error and the message is left unacked.
UpsertFails(w, i) ==
  /\ IsError(w, i)
  /\ Fault("upsert")
  /\ \/ tx[w] = NoTx /\ UNCHANGED issueVars
     \/ Rollback(w)
     \/ Upsert(w)
  /\ Route(w, i, rows[w], ackable[w], signals[w])
  /\ UNCHANGED <<streamVars, outputVars>>

----------------------------------------------------------------------------
(***************************************************************************)
(* The writes, one table at a time, each acknowledged only on success.     *)
(***************************************************************************)
Insert(w, t) ==
  /\ pc[w] = t
  /\ t \notin Down
  /\ stored' = [stored EXCEPT ![t] = @ \cup rows[w][t]]
  /\ LET a == ackable[w] \cup rows[w][t]
         publishes == t = "errors" /\ signals[w] # <<>>
     IN Move(w, IF publishes THEN "publish" ELSE NextStage(Rank[t], rows[w], a),
             {}, rows[w], a, signals[w])
  /\ UNCHANGED <<streamVars, issueVars, alerts, parked, faults>>

\* The insert returns an error; on a timeout some of the rows may be there.
FailedInsert(w, t) ==
  /\ pc[w] = t
  /\ \/ /\ Fault("insert")
        /\ \E landed \in SUBSET rows[w][t] :
             stored' = [stored EXCEPT ![t] = @ \cup landed]
     \/ t \in Down /\ UNCHANGED <<stored, faults>>

\* Mutant: the batch is acknowledged although its insert failed.
InsertFailsAcked(w, t) ==
  /\ FailedInsert(w, t)
  /\ LET a == ackable[w] \cup rows[w][t] IN
     Move(w, NextStage(Rank[t], rows[w], a), {}, rows[w], a, <<>>)
  /\ UNCHANGED <<streamVars, issueVars, alerts, parked>>

\* Mutant: the alerts are published although the insert failed.
InsertFailsAnnounced(w, t) ==
  /\ FailedInsert(w, t)
  /\ Move(w, IF t = "errors" /\ signals[w] # <<>> THEN "publish"
             ELSE NextStage(Rank[t], rows[w], ackable[w]),
          {}, rows[w], ackable[w], signals[w])
  /\ UNCHANGED <<streamVars, issueVars, alerts, parked>>

\* Mutant: handle returns at the first insert that fails.
InsertFailsReturns(w, t) ==
  /\ FailedInsert(w, t)
  /\ Move(w, "poll", {}, NoRows, {}, <<>>)
  /\ UNCHANGED <<streamVars, issueVars, alerts, parked>>

InsertFails(w, t) ==
  /\ FailedInsert(w, t)
  /\ Move(w, NextStage(Rank[t], rows[w], ackable[w]), {}, rows[w], ackable[w],
          IF t = "errors" THEN <<>> ELSE signals[w])
  /\ UNCHANGED <<streamVars, issueVars, alerts, parked>>

\* publishAlerts: best effort, the error is logged.
AfterPublish(w) == Move(w, NextStage(1, rows[w], ackable[w]), {}, rows[w], ackable[w], <<>>)

PublishAlerts(w) ==
  /\ pc[w] = "publish"
  /\ alerts' = alerts \o signals[w]
  /\ AfterPublish(w)
  /\ UNCHANGED <<streamVars, issueVars, stored, parked, faults>>

PublishFails(w) ==
  /\ pc[w] = "publish"
  /\ Fault("publish")
  /\ \E k \in 0 .. Len(signals[w]) : alerts' = alerts \o SubSeq(signals[w], 1, k)
  /\ AfterPublish(w)
  /\ UNCHANGED <<streamVars, issueVars, stored, parked>>

Return(w) == Move(w, "poll", {}, NoRows, {}, <<>>)

\* Mutant: every message of the batch that has a row is acknowledged.
AckEveryRow(w) ==
  /\ pc[w] = "ack"
  /\ XAck(ackable[w] \cup UNION {rows[w][t] : t \in Tables})
  /\ Return(w)
  /\ UNCHANGED <<issueVars, outputVars, faults>>

Ack(w) ==
  /\ pc[w] = "ack"
  /\ XAck(ackable[w])
  /\ Return(w)
  /\ UNCHANGED <<issueVars, outputVars, faults>>

\* Ack returns an error, which is logged; the command may have run.
AckFails(w) ==
  /\ pc[w] = "ack"
  /\ Fault("ack")
  /\ XAck(ackable[w]) \/ UNCHANGED streamVars
  /\ Return(w)
  /\ UNCHANGED <<issueVars, outputVars>>

\* The process dies, in a panic or by the machine, and is started again with
\* nothing in memory.  Postgres rolls its transaction back.
Crash(w) ==
  /\ pc[w] # "poll"
  /\ Fault("crash")
  /\ Return(w)
  /\ IF tx[w] = NoTx THEN UNCHANGED issueVars ELSE Rollback(w)
  /\ UNCHANGED <<streamVars, outputVars>>

----------------------------------------------------------------------------
\* The rest of the system: the gateway, people triaging issues, time.
GatewayPublish(bodies) ==
  /\ Publish(bodies)
  /\ UNCHANGED <<issueVars, workerVars, outputVars, faults>>

Triage(g, status) ==
  /\ SetIssueStatus(g, status)
  /\ UNCHANGED <<streamVars, workerVars, outputVars, faults>>

TimePasses(i) ==
  /\ Age(i)
  /\ UNCHANGED <<issueVars, workerVars, outputVars, faults>>

HandleMessage(w) ==
  \E i \in Ids :
    \/ Park(w, i)
    \/ Skip(w, i)
    \/ Reject(w, i)
    \/ CollectRow(w, i)
    \/ BeginUpsert(w, i)
    \/ CommitUpsert(w, i)

WriteBatch(w) == PublishAlerts(w) \/ Ack(w) \/ \E t \in Tables : Insert(w, t)

FailingStep(w) ==
  \/ \E i \in Ids : UpsertFails(w, i)
  \/ \E t \in Tables : InsertFails(w, t)
  \/ PublishFails(w)
  \/ AckFails(w)
  \/ Crash(w)

WorkerStep(w) == Consume(w) \/ Reclaim(w) \/ HandleMessage(w) \/ WriteBatch(w) \/ FailingStep(w)

Next ==
  \/ \E w \in Worker : WorkerStep(w)
  \/ \E bodies \in Envelope : GatewayPublish(bodies)
  \/ \E g \in Group, status \in Status : Triage(g, status)
  \/ \E i \in Ids : TimePasses(i)

Spec == Init /\ [][Next]_vars

(***************************************************************************)
(* Fairness: a worker that is running takes its next step, and time passes *)
(* for pending entries.  Consume and Reclaim are strongly fair: every turn *)
(* of Run's loop looks at the ticker and then consumes, so however busy    *)
(* one of the two keeps the worker, the other has its turn.  People and    *)
(* the gateway owe nothing, and faults are never owed.                     *)
(***************************************************************************)
Fairness ==
  /\ \A w \in Worker :
       /\ SF_vars(Consume(w))
       /\ SF_vars(Reclaim(w))
       /\ WF_vars(HandleMessage(w))
       /\ WF_vars(WriteBatch(w))
       /\ \A t \in Tables : WF_vars(t \in Down /\ InsertFails(w, t))
  /\ \A i \in 1 .. MaxEntries : WF_vars(TimePasses(i))

FairSpec == Spec /\ Fairness

----------------------------------------------------------------------------
\* Type invariant of the whole state.
Stages == Tables \cup {"poll", "handle", "publish", "ack"}

ProcessorTypeOK ==
  /\ pc \in [Worker -> Stages]
  /\ todo \in [Worker -> SUBSET Nat]
  /\ reported \in [Worker -> 1 .. 2]
  /\ rows \in [Worker -> [Tables -> SUBSET Nat]]
  /\ ackable \in [Worker -> SUBSET Nat]
  /\ signals \in [Worker -> Seq(Signal)]
  /\ stored \in [Tables -> SUBSET Nat]
  /\ alerts \in Seq(Signal)
  /\ parked \subseteq Nat
  /\ faults \in Nat

TypeOK == StreamTypeOK /\ IssueTypeOK /\ ProcessorTypeOK

HasRow(i) == ~Skippable(entries[i]) /\ i \in stored[TableOf[entries[i].kind]]

\* "Acking would report success for events that are nowhere, the silent data
\* loss that destroys trust permanently" (processor.go:232-234): whatever was
\* acknowledged is in its table, is of a kind that has none, or was parked.
NoSilentLoss == \A i \in acked : HasRow(i) \/ Skippable(entries[i]) \/ i \in parked

\* "An alert must only fire for an event we actually persisted"
\* (processor.go:179-180): what is on the alert stream has its row already,
\* whatever failed or was redelivered in between.
AlertsAreDurable == \A n \in DOMAIN alerts : alerts[n].id \in stored["errors"]

AlertsOf(kind, g) == {n \in DOMAIN alerts : alerts[n].kind = kind /\ alerts[n].group = g}

\* However often a message is redelivered or handled by two workers at once,
\* the alert stream carries at most one new-issue signal per group and one
\* regression signal per resolve.
NoDuplicateAlerts ==
  \A g \in Group :
    /\ Cardinality(AlertsOf("new_issue", g)) <= 1
    /\ Cardinality(AlertsOf("regression", g)) <= resolved[g]

\* The issue stream's count never falls short of the rows behind it: an event
\* reaches ClickHouse only after its upsert committed.  (It may exceed them:
\* a redelivered event is counted again.)
TimesSeenCoversRows ==
  \A g \in Group :
    Cardinality({i \in stored["errors"] : entries[i].group = g}) <= timesSeen[g]

\* The processor implements the contract of the ingest path.
Contract == INSTANCE IngestContract WITH
  accepted  <- entries,
  durable   <- UNION {stored[t] : t \in Tables},
  announced <- {alerts[n].id : n \in DOMAIN alerts},
  finished  <- acked,
  forgotten <- trimmed

MeetsContract == Contract!Spec

Writable(i) == i \in Ids /\ ~Skippable(entries[i]) /\ entries[i].wellFormed

\* Every job that can be written is written and acknowledged in the end, or
\* trimmed, though workers crash and calls fail (queue.go:46-53).  A table
\* that is down for good delays only its own jobs: "a failed error-write does
\* not throw away logs that were written fine" (processor.go:127-130).
WritableJobsSettle ==
  \A i \in 1 .. MaxEntries :
    (Writable(i) /\ TableOf[entries[i].kind] \notin Down)
      ~> (i \in acked \/ i <= trimmed)

\* "Park it and move on" (processor.go:150-152): every message, poison
\* included, leaves the pending list in the end.
EveryMessageSettles ==
  \A i \in 1 .. MaxEntries : i \in Ids ~> (i \in acked \/ i <= trimmed)

\* "A processor crash loses nothing" (queue.go:46-48): when the queue is
\* drained and every worker is back at its loop, each new issue and each
\* regression the upserts detected has been announced.
Drained == (\A w \in Worker : pc[w] = "poll") /\ pel = {} /\ Unread = {}

DetectedIsAnnounced ==
  Drained => \A g \in Group :
    /\ created[g] = Cardinality(AlertsOf("new_issue", g))
    /\ regressed[g] = Cardinality(AlertsOf("regression", g))

=============================================================================
