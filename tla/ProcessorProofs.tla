-------------------------- MODULE ProcessorProofs --------------------------
(***************************************************************************)
(* The processor's safety for any number of workers, groups, entries,      *)
(* faults and deliveries.                                                  *)
(*                                                                         *)
(* What a worker does to the issue store and to the stream are steps of    *)
(* those components, so their invariants carry over.  The invariant of the *)
(* processor itself says what a batch in a worker's memory stands for:     *)
(* each id it will acknowledge is already safe, each row it collected      *)
(* belongs to the table it is collected for, each signal it holds belongs  *)
(* to a collected error row, and at "publish" those rows are stored.       *)
(* Entries, stored rows and parked ids only grow, so what was safe stays   *)
(* safe whatever the other workers do.                                     *)
(*                                                                         *)
(* Then that the processor implements the stream's specification, the      *)
(* issue store's, and the ingest contract.  Last, by counting, that it     *)
(* announces nothing twice and counts every row it writes.                 *)
(***************************************************************************)
EXTENDS Processor, IssueStoreProofs, RedisStreamProofs

\* An id that may be acknowledged.
SafeIn(en, st, pk, i) ==
  \/ en[i].kind \in WrittenKind /\ i \in st[TableOf[en[i].kind]]
  \/ en[i].kind \notin WrittenKind
  \/ i \in pk

\* What the batch of a worker stands for, given the jobs, the stored rows and
\* the parked ids.
GoodBatch(en, st, pk, stage, left, r, a, sig) ==
  /\ stage \in Stages
  /\ left \subseteq DOMAIN en
  /\ a \subseteq DOMAIN en
  /\ r \in [Tables -> SUBSET (DOMAIN en)]
  /\ sig \in Seq(Signal)
  /\ \A t \in Tables : \A i \in r[t] :
       en[i].kind \in WrittenKind /\ TableOf[en[i].kind] = t
  /\ \A i \in a : SafeIn(en, st, pk, i)
  /\ \A n \in DOMAIN sig : sig[n].id \in r["errors"]
  /\ stage = "publish" => r["errors"] \subseteq st["errors"]

BatchesAreGood ==
  \A w \in Worker :
    GoodBatch(entries, stored, parked, pc[w], todo[w], rows[w], ackable[w], signals[w])

\* What every step leaves in place.
Grows ==
  /\ DOMAIN entries \subseteq DOMAIN entries'
  /\ \A i \in DOMAIN entries : entries'[i] = entries[i]
  /\ \A t \in Tables : stored[t] \subseteq stored'[t]
  /\ parked \subseteq parked'

----------------------------------------------------------------------------
(***************************************************************************)
(* The components: every step of the processor is a step of the issue      *)
(* store or leaves it alone.                                               *)
(***************************************************************************)
LEMMA EntriesAreJobs ==
  ASSUME StreamTypeOK
  PROVE  /\ entries \in Seq(Job)
         /\ Len(entries) \in Nat
         /\ DOMAIN entries = Ids
         /\ Ids \subseteq Nat
         /\ \A i \in Ids : entries[i] \in Job
BY ProcessorAssumption, LenProperties, ElementOfSeq DEF StreamTypeOK, Ids

LEMMA NextIsIssueStep == StreamTypeOK /\ [Next]_vars => [IssueNext]_issueVars
<1> SUFFICES ASSUME StreamTypeOK, [Next]_vars PROVE [IssueNext]_issueVars
  OBVIOUS
<1>1. CASE UNCHANGED vars
  BY <1>1 DEF vars
<1>2. ASSUME NEW w \in Worker, WorkerStep(w) PROVE [IssueNext]_issueVars
  <2>1. CASE Consume(w) \/ Reclaim(w)
    BY <2>1 DEF Consume, Reclaim
  <2>2. CASE HandleMessage(w)
    <3> SUFFICES ASSUME NEW i \in Ids,
                        \/ Park(w, i) \/ Skip(w, i) \/ Reject(w, i) \/ CollectRow(w, i)
                        \/ BeginUpsert(w, i) \/ CommitUpsert(w, i)
                 PROVE  [IssueNext]_issueVars
      BY <2>2 DEF HandleMessage
    <3>1. CASE Park(w, i) \/ Skip(w, i) \/ Reject(w, i) \/ CollectRow(w, i)
      BY <3>1 DEF Park, Skip, Reject, CollectRow
    <3>2. CASE BeginUpsert(w, i)
      <4>1. ReadPrior(w, entries[i].group)
        BY <3>2 DEF BeginUpsert
      <4>2. entries[i].group \in Group
        BY EntriesAreJobs DEF Job
      <4> QED BY <4>1, <4>2 DEF IssueNext
    <3>3. CASE CommitUpsert(w, i)
      BY <3>3 DEF CommitUpsert, IssueNext
    <3> QED BY <3>1, <3>2, <3>3
  <2>3. CASE WriteBatch(w)
    BY <2>3 DEF WriteBatch, PublishAlerts, Ack, Insert
  <2>4. CASE FailingStep(w)
    BY <2>4 DEF FailingStep, UpsertFails, InsertFails, FailedInsert, PublishFails,
                AckFails, Crash, IssueNext
  <2> QED BY <1>2, <2>1, <2>2, <2>3, <2>4 DEF WorkerStep
<1>3. ASSUME NEW bodies \in Envelope, GatewayPublish(bodies) PROVE [IssueNext]_issueVars
  BY <1>3 DEF GatewayPublish
<1>4. ASSUME NEW g \in Group, NEW status \in Status, Triage(g, status)
      PROVE  [IssueNext]_issueVars
  BY <1>4 DEF Triage, IssueNext
<1>5. ASSUME NEW i \in Ids, TimePasses(i) PROVE [IssueNext]_issueVars
  BY <1>5 DEF TimePasses
<1> QED BY <1>1, <1>2, <1>3, <1>4, <1>5 DEF Next

(***************************************************************************)
(* The stream's invariant is preserved by whatever a step does to the      *)
(* stream.                                                                 *)
(***************************************************************************)
LEMMA NextKeepsStream == StreamInv /\ [Next]_vars => StreamInv'
<1> SUFFICES ASSUME StreamInv, [Next]_vars PROVE StreamInv'
  OBVIOUS
<1>1. CASE UNCHANGED streamVars
  BY <1>1, StreamStepInv
<1>2. ASSUME UNCHANGED vars PROVE UNCHANGED streamVars
  BY <1>2 DEF vars
<1>3. ASSUME NEW w \in Worker, WorkerStep(w) PROVE StreamInv'
  <2>1. CASE Consume(w)
    BY <2>1, ReadInv DEF Consume
  <2>2. CASE Reclaim(w)
    BY <2>2, AutoClaimInv DEF Reclaim
  <2>3. CASE HandleMessage(w)
    BY <2>3, <1>1 DEF HandleMessage, Park, Skip, Reject, CollectRow, BeginUpsert, CommitUpsert
  <2>4. CASE WriteBatch(w)
    BY <2>4, <1>1, XAckInv DEF WriteBatch, PublishAlerts, Ack, Insert
  <2>5. CASE FailingStep(w)
    BY <2>5, <1>1, XAckInv
    DEF FailingStep, UpsertFails, InsertFails, FailedInsert, PublishFails, AckFails, Crash
  <2> QED BY <1>3, <2>1, <2>2, <2>3, <2>4, <2>5 DEF WorkerStep
<1>4. ASSUME NEW bodies \in Envelope, GatewayPublish(bodies) PROVE StreamInv'
  <2>1. bodies \in Seq(Body)
    BY ProcessorAssumption
  <2> QED BY <1>4, <2>1, PublishInv DEF GatewayPublish
<1>5. ASSUME NEW g \in Group, NEW status \in Status, Triage(g, status) PROVE StreamInv'
  BY <1>5, <1>1 DEF Triage
<1>6. ASSUME NEW i \in Ids, TimePasses(i) PROVE StreamInv'
  BY <1>6, AgeInv DEF TimePasses
<1> QED BY <1>1, <1>2, <1>3, <1>4, <1>5, <1>6 DEF Next

----------------------------------------------------------------------------
(***************************************************************************)
(* Batches.                                                                *)
(***************************************************************************)
LEMMA NextStageType ==
  ASSUME NEW k \in Nat, NEW r, NEW a
  PROVE  NextStage(k, r, a) \in Tables \cup {"ack", "poll"}
<1>1. CASE Pending(k, r) # {}
  <2>1. \A t \in Tables : Rank[t] \in 1 .. 4
    BY DEF Tables, Rank
  <2>2. Pending(k, r) \subseteq Tables
    BY DEF Pending
  <2>3. \E t \in Pending(k, r) : \A u \in Pending(k, r) : Rank[t] <= Rank[u]
    BY <1>1, <2>2 DEF Tables, Rank
  <2>4. NextStage(k, r, a) \in Pending(k, r)
    BY <1>1, <2>3 DEF NextStage
  <2> QED BY <2>2, <2>4
<1>2. CASE Pending(k, r) = {}
  BY <1>2 DEF NextStage
<1> QED BY <1>1, <1>2

\* What a step leaves in place keeps a batch good.
LEMMA GoodBatchStays ==
  ASSUME Grows, NEW stage, NEW left, NEW r, NEW a, NEW sig,
         GoodBatch(entries, stored, parked, stage, left, r, a, sig)
  PROVE  GoodBatch(entries', stored', parked', stage, left, r, a, sig)
<1> USE DEF GoodBatch
<1>1. r \in [Tables -> SUBSET (DOMAIN entries')]
  BY DEF Grows
<1>2. \A t \in Tables : \A i \in r[t] : i \in DOMAIN entries
  OBVIOUS
<1>3. \A t \in Tables : \A i \in r[t] :
        entries'[i].kind \in WrittenKind /\ TableOf[entries'[i].kind] = t
  BY <1>2 DEF Grows
<1>4. \A i \in a : SafeIn(entries', stored', parked', i)
  <2> SUFFICES ASSUME NEW i \in a PROVE SafeIn(entries', stored', parked', i)
    OBVIOUS
  <2>1. entries'[i] = entries[i] /\ SafeIn(entries, stored, parked, i)
    BY DEF Grows
  <2>2. \A k \in WrittenKind : TableOf[k] \in Tables
    BY DEF WrittenKind, TableOf, Tables
  <2> QED BY <2>1, <2>2 DEF SafeIn, Grows
<1>5. stage = "publish" => r["errors"] \subseteq stored'["errors"]
  BY DEF Grows, Tables
<1> QED BY <1>1, <1>3, <1>4, <1>5 DEF Grows

\* Only "publish" says more about a batch than the other stages.
LEMMA GoodBatchMoves ==
  ASSUME NEW en, NEW st, NEW pk, NEW stage, NEW left, NEW r, NEW a, NEW sig,
         GoodBatch(en, st, pk, stage, left, r, a, sig),
         NEW next \in Stages \ {"publish"}, NEW rest \in SUBSET left
  PROVE  GoodBatch(en, st, pk, next, rest, r, a, sig)
BY DEF GoodBatch

LEMMA EmptyBatchIsGood ==
  ASSUME NEW en, NEW st, NEW pk, NEW left \in SUBSET (DOMAIN en)
  PROVE  GoodBatch(en, st, pk, "poll", left, NoRows, {}, <<>>)
<1>1. <<>> \in Seq(Signal) /\ DOMAIN <<>> = {}
  BY EmptySeq, LenProperties
<1>2. NoRows \in [Tables -> SUBSET (DOMAIN en)] /\ \A t \in Tables : NoRows[t] = {}
  BY DEF NoRows
<1> QED BY <1>1, <1>2 DEF GoodBatch, Stages

\* The types of what a worker remembers.
WorkerTypeOK ==
  /\ pc \in [Worker -> Stages]
  /\ todo \in [Worker -> SUBSET Nat]
  /\ reported \in [Worker -> 1 .. 2]
  /\ rows \in [Worker -> [Tables -> SUBSET Nat]]
  /\ ackable \in [Worker -> SUBSET Nat]
  /\ signals \in [Worker -> Seq(Signal)]

\* A worker that moves on with a good batch leaves every batch good.
LEMMA MoveKeepsBatches ==
  ASSUME WorkerTypeOK, BatchesAreGood, Grows, StreamTypeOK',
         NEW w \in Worker, NEW stage, NEW left, NEW r, NEW a, NEW sig,
         Move(w, stage, left, r, a, sig),
         GoodBatch(entries', stored', parked', stage, left, r, a, sig)
  PROVE  WorkerTypeOK' /\ BatchesAreGood'
<1> DEFINE back == stage = "poll"
           r1 == IF back THEN NoRows ELSE r
           a1 == IF back THEN {} ELSE a
           sig1 == IF back THEN <<>> ELSE sig
<1>1. GoodBatch(entries', stored', parked', stage, left, r1, a1, sig1)
  <2>1. left \in SUBSET (DOMAIN entries')
    BY DEF GoodBatch
  <2> QED BY <2>1, EmptyBatchIsGood
<1>2. /\ \A v \in Worker : pc'[v] = IF v = w THEN stage ELSE pc[v]
      /\ \A v \in Worker : todo'[v] = IF v = w THEN left ELSE todo[v]
      /\ \A v \in Worker : rows'[v] = IF v = w THEN r1 ELSE rows[v]
      /\ \A v \in Worker : ackable'[v] = IF v = w THEN a1 ELSE ackable[v]
      /\ \A v \in Worker : signals'[v] = IF v = w THEN sig1 ELSE signals[v]
  BY DEF Move, WorkerTypeOK
<1>3. BatchesAreGood'
  <2> SUFFICES ASSUME NEW v \in Worker
               PROVE  GoodBatch(entries', stored', parked', pc'[v], todo'[v],
                                rows'[v], ackable'[v], signals'[v])
    BY DEF BatchesAreGood
  <2>1. CASE v = w
    BY <2>1, <1>1, <1>2
  <2>2. CASE v # w
    <3>1. GoodBatch(entries, stored, parked, pc[v], todo[v], rows[v], ackable[v], signals[v])
      BY DEF BatchesAreGood
    <3>2. GoodBatch(entries', stored', parked', pc[v], todo[v], rows[v], ackable[v], signals[v])
      BY <3>1, GoodBatchStays
    <3> QED BY <3>2, <2>2, <1>2
  <2> QED BY <2>1, <2>2
<1>4. WorkerTypeOK'
  <2>1. DOMAIN entries' \subseteq Nat
    BY LenProperties DEF StreamTypeOK
  <2>2. /\ stage \in Stages /\ left \subseteq Nat /\ a1 \subseteq Nat
        /\ r1 \in [Tables -> SUBSET Nat] /\ sig1 \in Seq(Signal)
    <3> HIDE DEF r1, a1, sig1
    <3> QED BY <1>1, <2>1 DEF GoodBatch
  <2>3. /\ pc' = [pc EXCEPT ![w] = stage]
        /\ todo' = [todo EXCEPT ![w] = left]
        /\ reported' = [reported EXCEPT ![w] = IF back THEN 1 ELSE @]
        /\ rows' = [rows EXCEPT ![w] = r1]
        /\ ackable' = [ackable EXCEPT ![w] = a1]
        /\ signals' = [signals EXCEPT ![w] = sig1]
    BY DEF Move
  <2> HIDE DEF r1, a1, sig1
  <2> QED BY <2>2, <2>3 DEF WorkerTypeOK
<1> QED BY <1>3, <1>4

\* In the loop: the current message is done with.
LEMMA RouteKeepsBatches ==
  ASSUME WorkerTypeOK, BatchesAreGood, Grows, StreamTypeOK',
         NEW w \in Worker, NEW i, NEW r, NEW a, NEW sig,
         Route(w, i, r, a, sig),
         GoodBatch(entries', stored', parked', "handle", todo[w], r, a, sig)
  PROVE  WorkerTypeOK' /\ BatchesAreGood'
<1> DEFINE left == todo[w] \ {i}
           stage == IF left = {} THEN NextStage(0, r, a) ELSE "handle"
<1>1. stage \in Stages \ {"publish"}
  BY NextStageType DEF Stages, Tables
<1>2. GoodBatch(entries', stored', parked', stage, left, r, a, sig)
  <2> HIDE DEF stage
  <2> QED BY <1>1, GoodBatchMoves
<1>3. Move(w, stage, left, r, a, sig)
  BY DEF Route
<1> HIDE DEF stage, left
<1> QED BY <1>2, <1>3, MoveKeepsBatches

----------------------------------------------------------------------------
(***************************************************************************)
(* Outputs.                                                                *)
(***************************************************************************)
OutputTypeOK ==
  /\ stored \in [Tables -> SUBSET Nat]
  /\ alerts \in Seq(Signal)
  /\ parked \subseteq Nat
  /\ faults \in Nat

\* The part of the invariant the processor's own variables are about.
LocalInv ==
  /\ WorkerTypeOK
  /\ OutputTypeOK
  /\ BatchesAreGood
  /\ NoSilentLoss
  /\ AlertsAreDurable

LEMMA SafeInIsSafe ==
  ASSUME NEW i
  PROVE  SafeIn(entries, stored, parked, i) <=>
           (HasRow(i) \/ Skippable(entries[i]) \/ i \in parked)
BY DEF SafeIn, HasRow, Skippable

LEMMA SafeStays ==
  ASSUME Grows, NEW i \in DOMAIN entries, SafeIn(entries, stored, parked, i)
  PROVE  SafeIn(entries', stored', parked', i)
<1>1. \A k \in WrittenKind : TableOf[k] \in Tables
  BY DEF WrittenKind, TableOf, Tables
<1> QED BY <1>1 DEF SafeIn, Grows

LEMMA AckingSafe ==
  ASSUME StreamTypeOK, Grows, NoSilentLoss,
         \A i \in acked' : i \in acked \/ SafeIn(entries', stored', parked', i)
  PROVE  NoSilentLoss'
<1> SUFFICES ASSUME NEW i \in acked' PROVE SafeIn(entries', stored', parked', i)
  BY DEF SafeIn, NoSilentLoss, HasRow, Skippable
<1>1. CASE i \in acked
  <2>1. i \in DOMAIN entries
    BY <1>1, EntriesAreJobs DEF StreamTypeOK, Ids
  <2>2. SafeIn(entries, stored, parked, i)
    BY <1>1, SafeInIsSafe DEF NoSilentLoss
  <2> QED BY <2>1, <2>2, SafeStays
<1> QED BY <1>1

LEMMA AnnouncingDurable ==
  ASSUME Grows, OutputTypeOK, AlertsAreDurable, NEW more \in Seq(Signal),
         alerts' = alerts \o more,
         \A n \in DOMAIN more : more[n].id \in stored'["errors"]
  PROVE  AlertsAreDurable' /\ alerts' \in Seq(Signal)
<1>1. alerts \in Seq(Signal) /\ "errors" \in Tables
  BY DEF OutputTypeOK, Tables
<1>2. /\ alerts' \in Seq(Signal)
      /\ Len(alerts) \in Nat /\ Len(more) \in Nat
      /\ DOMAIN alerts = 1 .. Len(alerts) /\ DOMAIN more = 1 .. Len(more)
      /\ DOMAIN alerts' = 1 .. Len(alerts) + Len(more)
      /\ \A n \in 1 .. Len(alerts) + Len(more) :
           alerts'[n] = IF n <= Len(alerts) THEN alerts[n] ELSE more[n - Len(alerts)]
  BY <1>1, ConcatProperties, LenProperties
<1>3. ASSUME NEW n \in DOMAIN alerts' PROVE alerts'[n].id \in stored'["errors"]
  <2>1. CASE n <= Len(alerts)
    BY <2>1, <1>1, <1>2 DEF AlertsAreDurable, Grows
  <2>2. CASE n > Len(alerts)
    <3>1. n - Len(alerts) \in DOMAIN more /\ alerts'[n] = more[n - Len(alerts)]
      BY <2>2, <1>2
    <3> QED BY <3>1
  <2> QED BY <2>1, <2>2, <1>2
<1> QED BY <1>2, <1>3 DEF AlertsAreDurable

\* A step that neither acknowledges nor announces.
LEMMA QuietStep ==
  ASSUME StreamTypeOK, Grows, NoSilentLoss, AlertsAreDurable, UNCHANGED <<acked, alerts>>
  PROVE  NoSilentLoss' /\ AlertsAreDurable'
<1>1. NoSilentLoss'
  BY AckingSafe
<1>2. AlertsAreDurable'
  BY DEF AlertsAreDurable, Grows, Tables
<1> QED BY <1>1, <1>2

----------------------------------------------------------------------------
(***************************************************************************)
(* One lemma per action.                                                   *)
(***************************************************************************)
LEMMA EnterInv ==
  ASSUME StreamTypeOK, LocalInv, NEW w \in Worker, NEW ids \in SUBSET Ids,
         NEW deliveries \in 1 .. 2, Enter(w, ids, deliveries),
         UNCHANGED <<entries, acked, outputVars, faults>>
  PROVE  LocalInv'
<1> USE DEF LocalInv
<1>1. Grows
  BY DEF Grows, outputVars
<1>2. NoSilentLoss' /\ AlertsAreDurable' /\ OutputTypeOK'
  BY <1>1, QuietStep DEF outputVars, OutputTypeOK
<1>3. WorkerTypeOK'
  BY EntriesAreJobs DEF WorkerTypeOK, Enter, Stages
<1>4. BatchesAreGood'
  <2> SUFFICES ASSUME NEW v \in Worker
               PROVE  GoodBatch(entries, stored, parked, pc'[v], todo'[v],
                                rows[v], ackable[v], signals[v])
    BY DEF BatchesAreGood, Enter, outputVars
  <2>1. GoodBatch(entries, stored, parked, pc[v], todo[v], rows[v], ackable[v], signals[v])
    BY DEF BatchesAreGood
  <2>2. CASE v = w
    <3>1. pc'[v] = "handle" /\ todo'[v] = ids
      BY <2>2 DEF Enter, WorkerTypeOK
    <3> QED BY <2>1, <3>1, EntriesAreJobs DEF GoodBatch, Stages
  <2>3. CASE v # w
    BY <2>1, <2>3 DEF Enter, WorkerTypeOK
  <2> QED BY <2>2, <2>3
<1> QED BY <1>2, <1>3, <1>4

LEMMA ConsumeInv ==
  ASSUME StreamTypeOK, LocalInv, NEW w \in Worker, Consume(w)
  PROVE  LocalInv'
<1>1. NextBatch \subseteq Ids
  BY BatchIsUnread
<1>2. Enter(w, NextBatch, 1) /\ UNCHANGED <<entries, acked, outputVars, faults>>
  BY DEF Consume, Read
<1> QED BY <1>1, <1>2, EnterInv

LEMMA UnchangedLocalInv ==
  ASSUME StreamTypeOK, LocalInv, Grows,
         UNCHANGED <<workerVars, acked, stored, alerts, parked, faults>>, StreamTypeOK'
  PROVE  LocalInv'
<1> USE DEF LocalInv
<1>1. NoSilentLoss' /\ AlertsAreDurable' /\ OutputTypeOK' /\ WorkerTypeOK'
  BY QuietStep DEF OutputTypeOK, WorkerTypeOK, workerVars
<1>2. BatchesAreGood'
  <2> SUFFICES ASSUME NEW v \in Worker
               PROVE  GoodBatch(entries', stored', parked', pc[v], todo[v],
                                rows[v], ackable[v], signals[v])
    BY DEF BatchesAreGood, workerVars
  <2> QED BY GoodBatchStays DEF BatchesAreGood
<1> QED BY <1>1, <1>2

LEMMA ReclaimInv ==
  ASSUME StreamTypeOK, LocalInv, NEW w \in Worker, Reclaim(w), StreamTypeOK'
  PROVE  LocalInv'
<1>1. UNCHANGED <<entries, acked, outputVars, faults>>
  BY DEF Reclaim, AutoClaim
<1>2. Claimed \subseteq Ids
  BY PickedArePending
<1>3. CASE Claimed = {}
  <2>1. UNCHANGED workerVars
    BY <1>3 DEF Reclaim
  <2>2. Grows
    BY <1>1 DEF Grows, outputVars
  <2> QED BY <2>1, <2>2, <1>1, UnchangedLocalInv DEF outputVars
<1>4. CASE Claimed # {}
  <2>1. Enter(w, Claimed, 2)
    BY <1>4 DEF Reclaim
  <2> QED BY <2>1, <1>1, <1>2, EnterInv
<1> QED BY <1>3, <1>4

\* A worker at a message of its batch: the batch is good and the message is a
\* job of the stream.
LEMMA AtMessage ==
  ASSUME StreamTypeOK, LocalInv, NEW w \in Worker, NEW i, Current(w, i)
  PROVE  /\ GoodBatch(entries, stored, parked, "handle", todo[w], rows[w], ackable[w], signals[w])
         /\ i \in DOMAIN entries /\ entries[i] \in Job
         /\ \A t \in Tables : rows[w][t] \in SUBSET (DOMAIN entries)
<1>1. GoodBatch(entries, stored, parked, "handle", todo[w], rows[w], ackable[w], signals[w])
  BY DEF LocalInv, BatchesAreGood, Current
<1> QED BY <1>1, EntriesAreJobs DEF GoodBatch, Current

\* A message is done with, and no store but the issue store and the parked
\* set has changed.
LEMMA RouteInv ==
  ASSUME StreamTypeOK, LocalInv, UNCHANGED <<streamVars, stored, alerts>>,
         parked \subseteq parked', parked' \subseteq Nat, faults' \in Nat,
         NEW w \in Worker, NEW i, NEW r, NEW a, NEW sig, Route(w, i, r, a, sig),
         GoodBatch(entries, stored, parked', "handle", todo[w], r, a, sig)
  PROVE  LocalInv'
<1> USE DEF LocalInv
<1>1. Grows /\ StreamTypeOK'
  BY DEF Grows, streamVars, StreamTypeOK
<1>2. entries' = entries /\ stored' = stored /\ acked' = acked
  BY DEF streamVars
<1>3. NoSilentLoss' /\ AlertsAreDurable' /\ OutputTypeOK'
  BY <1>1, <1>2, QuietStep DEF OutputTypeOK
<1>4. WorkerTypeOK' /\ BatchesAreGood'
  BY <1>1, <1>2, RouteKeepsBatches
<1> QED BY <1>3, <1>4

LEMMA ParkInv ==
  ASSUME StreamTypeOK, LocalInv, NEW w \in Worker, NEW i, Park(w, i)
  PROVE  LocalInv'
<1>1. Current(w, i) /\ Route(w, i, rows[w], ackable[w] \cup {i}, signals[w])
  BY DEF Park
<1>2. parked' = parked \cup {i} /\ UNCHANGED <<streamVars, stored, alerts, faults>>
  BY DEF Park
<1>3. GoodBatch(entries, stored, parked', "handle", todo[w], rows[w], ackable[w] \cup {i}, signals[w])
  BY <1>1, <1>2, AtMessage DEF GoodBatch, SafeIn
<1>4. i \in Nat /\ parked \subseteq Nat /\ faults \in Nat
  BY <1>1, AtMessage, EntriesAreJobs DEF LocalInv, OutputTypeOK
<1> QED BY <1>1, <1>2, <1>3, <1>4, RouteInv

LEMMA SkipInv ==
  ASSUME StreamTypeOK, LocalInv, NEW w \in Worker, NEW i, Skip(w, i)
  PROVE  LocalInv'
<1>1. Current(w, i) /\ Route(w, i, rows[w], ackable[w] \cup {i}, signals[w])
  BY DEF Skip
<1>2. UNCHANGED <<streamVars, outputVars, faults>> /\ Skippable(entries[i])
  BY DEF Skip
<1>3. GoodBatch(entries, stored, parked, "handle", todo[w], rows[w], ackable[w] \cup {i}, signals[w])
  BY <1>1, <1>2, AtMessage DEF GoodBatch, SafeIn, Skippable
<1> QED BY <1>1, <1>2, <1>3, RouteInv DEF outputVars, LocalInv, OutputTypeOK

LEMMA RejectInv ==
  ASSUME StreamTypeOK, LocalInv, NEW w \in Worker, NEW i, Reject(w, i)
  PROVE  LocalInv'
<1>1. Current(w, i) /\ Route(w, i, rows[w], ackable[w], signals[w])
  BY DEF Reject
<1>2. UNCHANGED <<streamVars, outputVars, faults>>
  BY DEF Reject
<1> QED BY <1>1, <1>2, AtMessage, RouteInv DEF outputVars, LocalInv, OutputTypeOK

\* Collecting the row of a job into its own table's batch.
LEMMA AddRowIsGood ==
  ASSUME StreamTypeOK, LocalInv, NEW w \in Worker, NEW i, Current(w, i),
         entries[i].kind \in WrittenKind, NEW t, t = TableOf[entries[i].kind]
  PROVE  GoodBatch(entries, stored, parked, "handle", todo[w], AddRow(w, t, i),
                   ackable[w], signals[w])
<1> DEFINE r == AddRow(w, t, i)
<1>1. /\ GoodBatch(entries, stored, parked, "handle", todo[w], rows[w], ackable[w], signals[w])
      /\ i \in DOMAIN entries
  BY AtMessage
<1>2. t \in Tables
  BY DEF WrittenKind, TableOf, Tables
<1>3. rows[w] \in [Tables -> SUBSET (DOMAIN entries)]
  BY <1>1 DEF GoodBatch
<1>4. /\ r \in [Tables -> SUBSET (DOMAIN entries)]
      /\ \A u \in Tables : r[u] = IF u = t THEN rows[w][u] \cup {i} ELSE rows[w][u]
  BY <1>1, <1>2, <1>3 DEF AddRow
<1>5. \A u \in Tables : \A j \in r[u] :
        entries[j].kind \in WrittenKind /\ TableOf[entries[j].kind] = u
  <2> SUFFICES ASSUME NEW u \in Tables, NEW j \in r[u]
               PROVE  entries[j].kind \in WrittenKind /\ TableOf[entries[j].kind] = u
    OBVIOUS
  <2>1. j \in rows[w][u] \/ (u = t /\ j = i)
    <3> HIDE DEF r
    <3> QED BY <1>4
  <2>2. CASE j \in rows[w][u]
    BY <2>2, <1>1 DEF GoodBatch
  <2> QED BY <2>1, <2>2
<1>6. rows[w]["errors"] \subseteq r["errors"]
  BY <1>4 DEF Tables
<1> HIDE DEF r
<1>7. GoodBatch(entries, stored, parked, "handle", todo[w], r, ackable[w], signals[w])
  BY <1>1, <1>4, <1>5, <1>6 DEF GoodBatch
<1> QED BY <1>7 DEF r

LEMMA CollectRowInv ==
  ASSUME StreamTypeOK, LocalInv, NEW w \in Worker, NEW i, CollectRow(w, i)
  PROVE  LocalInv'
<1> DEFINE t == TableOf[entries[i].kind]
<1>1. Current(w, i) /\ Route(w, i, AddRow(w, t, i), ackable[w], signals[w])
  BY DEF CollectRow
<1>2. UNCHANGED <<streamVars, outputVars, faults>> /\ entries[i].kind \in WrittenKind
  BY DEF CollectRow
<1>3. GoodBatch(entries, stored, parked, "handle", todo[w], AddRow(w, t, i), ackable[w], signals[w])
  BY <1>1, <1>2, AddRowIsGood
<1> QED BY <1>1, <1>2, <1>3, RouteInv DEF outputVars, LocalInv, OutputTypeOK

LEMMA SignalsOfType ==
  ASSUME NEW w \in Worker, NEW i \in Nat, entries[i] \in Job
  PROVE  /\ SignalsOf(w, i) \in Seq(Signal)
         /\ \A n \in DOMAIN SignalsOf(w, i) : SignalsOf(w, i)[n].id = i
<1> DEFINE signal(kind) == [kind |-> kind, group |-> entries[i].group, id |-> i]
           new == IF IsNew(w) THEN <<signal("new_issue")>> ELSE <<>>
           again == IF IsRegressed(w) THEN <<signal("regression")>> ELSE <<>>
<1>1. signal("new_issue") \in Signal /\ signal("regression") \in Signal
  BY DEF Signal, Job
<1>2. /\ new \in Seq(Signal) /\ \A n \in 1 .. Len(new) : new[n].id = i
      /\ again \in Seq(Signal) /\ \A n \in 1 .. Len(again) : again[n].id = i
      /\ Len(new) \in Nat /\ Len(again) \in Nat
  BY <1>1
<1>3. SignalsOf(w, i) = new \o again
  BY DEF SignalsOf
<1> HIDE DEF new, again
<1>4. /\ new \o again \in Seq(Signal)
      /\ DOMAIN (new \o again) = 1 .. Len(new) + Len(again)
      /\ \A n \in 1 .. Len(new) + Len(again) :
           (new \o again)[n] = IF n <= Len(new) THEN new[n] ELSE again[n - Len(new)]
  BY <1>2, ConcatProperties, LenProperties
<1>5. \A n \in DOMAIN (new \o again) : (new \o again)[n].id = i
  BY <1>2, <1>4
<1> QED BY <1>3, <1>4, <1>5

LEMMA CommitUpsertInv ==
  ASSUME StreamTypeOK, LocalInv, NEW w \in Worker, NEW i, CommitUpsert(w, i)
  PROVE  LocalInv'
<1> DEFINE more == SignalsOf(w, i)
           sig == signals[w] \o more
           r == AddRow(w, "errors", i)
<1>1. Current(w, i) /\ Route(w, i, r, ackable[w], sig)
  BY DEF CommitUpsert, IsError
<1>2. UNCHANGED <<streamVars, outputVars, faults>> /\ entries[i].kind = "error"
  BY DEF CommitUpsert, IsError
<1>3. GoodBatch(entries, stored, parked, "handle", todo[w], r, ackable[w], signals[w])
  BY <1>1, <1>2, AddRowIsGood DEF WrittenKind, TableOf
<1>4. more \in Seq(Signal) /\ \A n \in DOMAIN more : more[n].id = i
  BY <1>1, AtMessage, EntriesAreJobs, SignalsOfType
<1>5. i \in r["errors"]
  BY <1>1, AtMessage DEF AddRow, Tables, GoodBatch
<1> HIDE DEF more, r
<1>6. signals[w] \in Seq(Signal) /\ \A n \in DOMAIN signals[w] : signals[w][n].id \in r["errors"]
  BY <1>3 DEF GoodBatch
<1>7. /\ sig \in Seq(Signal)
      /\ Len(signals[w]) \in Nat /\ DOMAIN signals[w] = 1 .. Len(signals[w])
      /\ Len(more) \in Nat /\ DOMAIN more = 1 .. Len(more)
      /\ DOMAIN sig = 1 .. Len(signals[w]) + Len(more)
      /\ \A n \in 1 .. Len(signals[w]) + Len(more) :
           sig[n] = IF n <= Len(signals[w]) THEN signals[w][n] ELSE more[n - Len(signals[w])]
  BY <1>4, <1>6, ConcatProperties, LenProperties
<1>8. ASSUME NEW n \in DOMAIN sig PROVE sig[n].id \in r["errors"]
  <2>1. CASE n <= Len(signals[w])
    BY <2>1, <1>6, <1>7
  <2>2. CASE n > Len(signals[w])
    <3>1. n - Len(signals[w]) \in DOMAIN more /\ sig[n] = more[n - Len(signals[w])]
      BY <2>2, <1>7
    <3> QED BY <3>1, <1>4, <1>5
  <2> QED BY <2>1, <2>2, <1>7
<1> HIDE DEF sig
<1>9. GoodBatch(entries, stored, parked, "handle", todo[w], r, ackable[w], sig)
  BY <1>3, <1>7, <1>8 DEF GoodBatch
<1> QED BY <1>1, <1>2, <1>9, RouteInv DEF outputVars, LocalInv, OutputTypeOK

LEMMA UpsertFailsInv ==
  ASSUME StreamTypeOK, LocalInv, NEW w \in Worker, NEW i, UpsertFails(w, i)
  PROVE  LocalInv'
<1>1. Current(w, i) /\ Route(w, i, rows[w], ackable[w], signals[w])
  BY DEF UpsertFails, IsError
<1>2. UNCHANGED <<streamVars, outputVars>> /\ faults' = faults + 1
  BY DEF UpsertFails, Fault
<1> QED BY <1>1, <1>2, AtMessage, RouteInv DEF outputVars, LocalInv, OutputTypeOK

\* The acknowledgement a successful insert earns.
LEMMA StoredIsGood ==
  ASSUME NEW en, NEW st, NEW pk, NEW stage, NEW left, NEW r, NEW a, NEW sig,
         GoodBatch(en, st, pk, stage, left, r, a, sig),
         NEW t \in Tables, r[t] \subseteq st[t]
  PROVE  GoodBatch(en, st, pk, stage, left, r, a \cup r[t], sig)
<1>1. \A i \in r[t] : SafeIn(en, st, pk, i)
  BY DEF GoodBatch, SafeIn
<1> QED BY <1>1 DEF GoodBatch

LEMMA BatchOf ==
  ASSUME LocalInv, NEW w \in Worker
  PROVE  GoodBatch(entries, stored, parked, pc[w], todo[w], rows[w], ackable[w], signals[w])
BY DEF LocalInv, BatchesAreGood

LEMMA RankIsNat == \A t \in Tables : Rank[t] \in Nat /\ t \in Stages /\ t # "publish"
BY DEF Tables, Rank, Stages

LEMMA NextStageIsOther ==
  ASSUME NEW k \in Nat, NEW r, NEW a
  PROVE  NextStage(k, r, a) \in Stages \ {"publish"}
BY NextStageType DEF Stages, Tables

\* A step of the writes that neither acknowledges nor announces.
LEMMA WriteInv ==
  ASSUME StreamTypeOK, LocalInv, Grows, UNCHANGED <<streamVars, alerts, parked>>,
         stored' \in [Tables -> SUBSET Nat], faults' \in Nat,
         NEW w \in Worker, NEW stage, NEW left, NEW r, NEW a, NEW sig,
         Move(w, stage, left, r, a, sig),
         GoodBatch(entries, stored', parked, stage, left, r, a, sig)
  PROVE  LocalInv'
<1> USE DEF LocalInv
<1>1. StreamTypeOK' /\ entries' = entries /\ acked' = acked
  BY DEF streamVars, StreamTypeOK
<1>2. NoSilentLoss' /\ AlertsAreDurable' /\ OutputTypeOK'
  BY <1>1, QuietStep DEF OutputTypeOK
<1>3. WorkerTypeOK' /\ BatchesAreGood'
  BY <1>1, MoveKeepsBatches
<1> QED BY <1>2, <1>3

LEMMA InsertInv ==
  ASSUME StreamTypeOK, LocalInv, NEW w \in Worker, NEW t \in Tables, Insert(w, t)
  PROVE  LocalInv'
<1> DEFINE a == ackable[w] \cup rows[w][t]
           publishes == t = "errors" /\ signals[w] # <<>>
           stage == IF publishes THEN "publish" ELSE NextStage(Rank[t], rows[w], a)
<1>1. /\ pc[w] = t
      /\ stored' = [stored EXCEPT ![t] = @ \cup rows[w][t]]
      /\ Move(w, stage, {}, rows[w], a, signals[w])
      /\ UNCHANGED <<streamVars, alerts, parked, faults>>
  BY DEF Insert
<1>2. rows[w][t] \subseteq Nat /\ stored \in [Tables -> SUBSET Nat] /\ faults \in Nat
  BY DEF LocalInv, WorkerTypeOK, OutputTypeOK
<1>3. /\ stored' \in [Tables -> SUBSET Nat]
      /\ rows[w][t] \subseteq stored'[t]
      /\ \A u \in Tables : stored[u] \subseteq stored'[u]
  BY <1>1, <1>2
<1>4. Grows
  BY <1>1, <1>3 DEF Grows, streamVars
<1>5. GoodBatch(entries, stored', parked, pc[w], todo[w], rows[w], ackable[w], signals[w])
  BY <1>1, <1>4, BatchOf, GoodBatchStays DEF streamVars
<1>6. GoodBatch(entries, stored', parked, pc[w], todo[w], rows[w], a, signals[w])
  BY <1>3, <1>5, StoredIsGood
<1>7. GoodBatch(entries, stored', parked, stage, {}, rows[w], a, signals[w])
  <2>1. CASE publishes
    <3>1. rows[w]["errors"] \subseteq stored'["errors"]
      BY <1>3, <2>1
    <3> QED BY <3>1, <1>6, <2>1 DEF GoodBatch, Stages
  <2>2. CASE ~publishes
    <3>1. stage \in Stages \ {"publish"}
      BY <2>2, NextStageIsOther, RankIsNat
    <3> HIDE DEF stage, a
    <3> QED BY <3>1, <1>6, GoodBatchMoves
  <2> QED BY <2>1, <2>2
<1> HIDE DEF stage, a
<1> QED BY <1>1, <1>2, <1>3, <1>4, <1>7, WriteInv

LEMMA InsertFailsInv ==
  ASSUME StreamTypeOK, LocalInv, NEW w \in Worker, NEW t \in Tables, InsertFails(w, t)
  PROVE  LocalInv'
<1> DEFINE stage == NextStage(Rank[t], rows[w], ackable[w])
           sig == IF t = "errors" THEN <<>> ELSE signals[w]
<1>1. /\ Move(w, stage, {}, rows[w], ackable[w], sig)
      /\ UNCHANGED <<streamVars, alerts, parked>>
      /\ FailedInsert(w, t)
  BY DEF InsertFails
<1>2. rows[w][t] \subseteq Nat /\ stored \in [Tables -> SUBSET Nat] /\ faults \in Nat
  BY DEF LocalInv, WorkerTypeOK, OutputTypeOK
<1>3. /\ stored' \in [Tables -> SUBSET Nat]
      /\ \A u \in Tables : stored[u] \subseteq stored'[u]
      /\ faults' \in Nat
  BY <1>1, <1>2 DEF FailedInsert, Fault
<1>4. Grows
  BY <1>1, <1>3 DEF Grows, streamVars
<1>5. GoodBatch(entries, stored', parked, pc[w], todo[w], rows[w], ackable[w], signals[w])
  BY <1>1, <1>4, BatchOf, GoodBatchStays DEF streamVars
<1>6. GoodBatch(entries, stored', parked, pc[w], todo[w], rows[w], ackable[w], sig)
  BY <1>5, EmptySeq, LenProperties DEF GoodBatch
<1>7. stage \in Stages \ {"publish"}
  BY NextStageIsOther, RankIsNat
<1> HIDE DEF stage, sig
<1>8. GoodBatch(entries, stored', parked, stage, {}, rows[w], ackable[w], sig)
  BY <1>6, <1>7, GoodBatchMoves
<1> QED BY <1>1, <1>3, <1>4, <1>8, WriteInv

LEMMA AfterPublishInv ==
  ASSUME StreamTypeOK, LocalInv, NEW w \in Worker, pc[w] = "publish",
         NEW k \in 0 .. Len(signals[w]), alerts' = alerts \o SubSeq(signals[w], 1, k),
         AfterPublish(w), UNCHANGED <<streamVars, stored, parked>>, faults' \in Nat
  PROVE  LocalInv'
<1> DEFINE more == SubSeq(signals[w], 1, k)
           stage == NextStage(1, rows[w], ackable[w])
<1>1. GoodBatch(entries, stored, parked, "publish", todo[w], rows[w], ackable[w], signals[w])
  BY BatchOf
<1>2. /\ signals[w] \in Seq(Signal) /\ Len(signals[w]) \in Nat
      /\ \A n \in 1 .. Len(signals[w]) : signals[w][n].id \in stored["errors"]
      /\ \A n \in 1 .. Len(signals[w]) : signals[w][n] \in Signal
  <2>1. signals[w] \in Seq(Signal)
    BY <1>1 DEF GoodBatch
  <2>2. Len(signals[w]) \in Nat /\ DOMAIN signals[w] = 1 .. Len(signals[w])
    BY <2>1, LenProperties
  <2>3. \A n \in 1 .. Len(signals[w]) : signals[w][n] \in Signal
    BY <2>1, ElementOfSeq
  <2>4. \A n \in DOMAIN signals[w] : signals[w][n].id \in stored["errors"]
    BY <1>1 DEF GoodBatch
  <2> QED BY <2>1, <2>2, <2>3, <2>4
<1>3. /\ more \in Seq(Signal) /\ Len(more) = k /\ DOMAIN more = 1 .. k
      /\ \A n \in 1 .. k : more[n] = signals[w][n]
  <2>1. k \in Nat /\ \A n \in 1 .. k : signals[w][n] \in Signal
    BY <1>2
  <2>2. /\ more \in Seq(Signal)
        /\ Len(more) = IF 1 <= k THEN k - 1 + 1 ELSE 0
        /\ \A n \in 1 .. k - 1 + 1 : more[n] = signals[w][1 + n - 1]
    BY <2>1, SubSeqProperties
  <2> HIDE DEF more
  <2> QED BY <2>1, <2>2, LenProperties
<1>4. \A n \in DOMAIN more : more[n].id \in stored["errors"]
  <2> SUFFICES ASSUME NEW n \in DOMAIN more PROVE more[n].id \in stored["errors"]
    OBVIOUS
  <2> HIDE DEF more
  <2>1. n \in 1 .. Len(signals[w]) /\ more[n] = signals[w][n]
    BY <1>2, <1>3
  <2> QED BY <2>1, <1>2
<1>5. alerts' = alerts \o more
  OBVIOUS
<1> HIDE DEF more
<1>6. Grows /\ StreamTypeOK' /\ entries' = entries /\ acked' = acked /\ stored' = stored
  BY DEF Grows, streamVars, StreamTypeOK
<1>7. AlertsAreDurable' /\ alerts' \in Seq(Signal)
  BY <1>3, <1>4, <1>5, <1>6, AnnouncingDurable DEF LocalInv
<1>8. NoSilentLoss'
  BY <1>6, AckingSafe DEF LocalInv
<1>9. Move(w, stage, {}, rows[w], ackable[w], <<>>)
  BY DEF AfterPublish
<1>10. stage \in Stages \ {"publish"}
  BY NextStageIsOther
<1> HIDE DEF stage
<1>11. GoodBatch(entries, stored, parked, "publish", todo[w], rows[w], ackable[w], <<>>)
  BY <1>1, EmptySeq, LenProperties DEF GoodBatch
<1>12. GoodBatch(entries', stored', parked', stage, {}, rows[w], ackable[w], <<>>)
  BY <1>6, <1>10, <1>11, GoodBatchMoves
<1>13. WorkerTypeOK' /\ BatchesAreGood'
  BY <1>6, <1>9, <1>12, MoveKeepsBatches DEF LocalInv
<1> QED BY <1>6, <1>7, <1>8, <1>13 DEF LocalInv, OutputTypeOK

LEMMA PublishAlertsInv ==
  ASSUME StreamTypeOK, LocalInv, NEW w \in Worker, PublishAlerts(w)
  PROVE  LocalInv'
<1>1. signals[w] \in Seq(Signal)
  BY DEF LocalInv, WorkerTypeOK
<1>2. SubSeq(signals[w], 1, Len(signals[w])) = signals[w] /\ Len(signals[w]) \in Nat
  BY <1>1, SubSeqFull, LenProperties
<1>3. Len(signals[w]) \in 0 .. Len(signals[w])
  BY <1>2
<1> QED BY <1>2, <1>3, AfterPublishInv DEF PublishAlerts, LocalInv, OutputTypeOK

LEMMA PublishFailsInv ==
  ASSUME StreamTypeOK, LocalInv, NEW w \in Worker, PublishFails(w)
  PROVE  LocalInv'
<1>1. faults' \in Nat
  BY DEF PublishFails, Fault, LocalInv, OutputTypeOK
<1> QED BY <1>1, AfterPublishInv DEF PublishFails

\* The worker is back at its loop with nothing in memory; what is newly
\* acknowledged came from its batch.
LEMMA ReturnInv ==
  ASSUME StreamTypeOK, StreamTypeOK', LocalInv, NEW w \in Worker, Return(w),
         UNCHANGED <<entries, outputVars>>, faults' \in Nat,
         acked' \subseteq acked \cup ackable[w]
  PROVE  LocalInv'
<1>1. Grows
  BY DEF Grows, outputVars
<1>2. GoodBatch(entries, stored, parked, pc[w], todo[w], rows[w], ackable[w], signals[w])
  BY BatchOf
<1>3. NoSilentLoss'
  BY <1>1, <1>2, AckingSafe DEF LocalInv, GoodBatch, outputVars
<1>4. AlertsAreDurable' /\ OutputTypeOK'
  BY DEF AlertsAreDurable, OutputTypeOK, LocalInv, outputVars
<1>5. GoodBatch(entries', stored', parked', "poll", {}, NoRows, {}, <<>>)
  BY EmptyBatchIsGood
<1>6. WorkerTypeOK' /\ BatchesAreGood'
  BY <1>1, <1>5, MoveKeepsBatches DEF LocalInv, Return
<1> QED BY <1>3, <1>4, <1>6 DEF LocalInv

LEMMA AckInv ==
  ASSUME StreamTypeOK, StreamTypeOK', LocalInv, NEW w \in Worker,
         Ack(w) \/ AckFails(w) \/ Crash(w)
  PROVE  LocalInv'
<1>1. faults \in Nat
  BY DEF LocalInv, OutputTypeOK
<1>2. CASE Ack(w)
  BY <1>1, <1>2, ReturnInv DEF Ack, XAck, outputVars
<1>3. CASE AckFails(w)
  <2>1. faults' \in Nat /\ Return(w) /\ UNCHANGED outputVars
    BY <1>1, <1>3 DEF AckFails, Fault
  <2>2. entries' = entries /\ acked' \subseteq acked \cup ackable[w]
    BY <1>3 DEF AckFails, XAck, streamVars
  <2> QED BY <2>1, <2>2, ReturnInv
<1>4. CASE Crash(w)
  BY <1>1, <1>4, ReturnInv DEF Crash, Fault, streamVars
<1> QED BY <1>2, <1>3, <1>4

LEMMA GatewayPublishInv ==
  ASSUME StreamTypeOK, StreamTypeOK', LocalInv, NEW bodies \in Seq(Body), GatewayPublish(bodies)
  PROVE  LocalInv'
<1>1. Publish(bodies) /\ UNCHANGED <<workerVars, acked, stored, alerts, parked, faults>>
  BY DEF GatewayPublish, Publish, outputVars
<1>2. Grows
  <2>1. DOMAIN entries \subseteq DOMAIN entries'
    BY <1>1, PublishAppends, LenProperties DEF StreamTypeOK
  <2>2. \A i \in DOMAIN entries : entries'[i] = entries[i]
    BY <1>1, PublishAppends, EntriesAreJobs
  <2> QED BY <1>1, <2>1, <2>2 DEF Grows
<1> QED BY <1>1, <1>2, UnchangedLocalInv

\* Steps of others that touch neither workers, jobs nor outputs.
LEMMA BystanderInv ==
  ASSUME StreamTypeOK, StreamTypeOK', LocalInv,
         UNCHANGED <<entries, acked, workerVars, outputVars, faults>>
  PROVE  LocalInv'
<1>1. Grows
  BY DEF Grows, outputVars
<1> QED BY <1>1, UnchangedLocalInv DEF outputVars

----------------------------------------------------------------------------
LEMMA LocalInitInv == StreamTypeOK /\ Init => LocalInv
<1> SUFFICES ASSUME StreamTypeOK, Init PROVE LocalInv
  OBVIOUS
<1>1. <<>> \in Seq(Signal) /\ DOMAIN <<>> = {}
  BY EmptySeq, LenProperties
<1>2. WorkerTypeOK /\ OutputTypeOK
  BY <1>1 DEF Init, ProcessorInit, WorkerTypeOK, OutputTypeOK, NoRows, Stages
<1>3. BatchesAreGood
  BY EmptyBatchIsGood DEF Init, ProcessorInit, BatchesAreGood
<1>4. NoSilentLoss /\ AlertsAreDurable
  BY <1>1 DEF Init, StreamInit, ProcessorInit, NoSilentLoss, AlertsAreDurable
<1> QED BY <1>2, <1>3, <1>4 DEF LocalInv

LEMMA WorkerStepInv ==
  ASSUME StreamTypeOK, StreamTypeOK', LocalInv, NEW w \in Worker, WorkerStep(w)
  PROVE  LocalInv'
<1>1. CASE Consume(w) \/ Reclaim(w)
  BY <1>1, ConsumeInv, ReclaimInv
<1>2. CASE HandleMessage(w)
  <2>1. ASSUME NEW i, BeginUpsert(w, i) PROVE LocalInv'
    BY <2>1, BystanderInv DEF BeginUpsert, streamVars
  <2> QED BY <1>2, <2>1, ParkInv, SkipInv, RejectInv, CollectRowInv, CommitUpsertInv
          DEF HandleMessage
<1>3. CASE WriteBatch(w)
  BY <1>3, PublishAlertsInv, AckInv, InsertInv DEF WriteBatch
<1>4. CASE FailingStep(w)
  BY <1>4, UpsertFailsInv, InsertFailsInv, PublishFailsInv, AckInv DEF FailingStep
<1> QED BY <1>1, <1>2, <1>3, <1>4 DEF WorkerStep

LEMMA LocalStepInv ==
  ASSUME StreamTypeOK, StreamTypeOK', LocalInv, [Next]_vars
  PROVE  LocalInv'
<1>1. CASE UNCHANGED vars
  BY <1>1, BystanderInv DEF vars, streamVars
<1>2. ASSUME NEW w \in Worker, WorkerStep(w) PROVE LocalInv'
  BY <1>2, WorkerStepInv
<1>3. ASSUME NEW bodies \in Envelope, GatewayPublish(bodies) PROVE LocalInv'
  <2>1. bodies \in Seq(Body)
    BY ProcessorAssumption
  <2> QED BY <1>3, <2>1, GatewayPublishInv
<1>4. ASSUME NEW g \in Group, NEW status \in Status, Triage(g, status) PROVE LocalInv'
  BY <1>4, BystanderInv DEF Triage, streamVars
<1>5. ASSUME NEW i \in Ids, TimePasses(i) PROVE LocalInv'
  BY <1>5, BystanderInv DEF TimePasses, Age
<1> QED BY <1>1, <1>2, <1>3, <1>4, <1>5 DEF Next

ProcessorInv == IssueInv /\ StreamInv /\ LocalInv

\* The inductive invariant of the processor.
THEOREM ProcessorInvariant == Spec => []ProcessorInv
<1>1. Init => ProcessorInv
  BY StreamInitInv, IssueInitInv, LocalInitInv DEF Init, ProcessorInv, StreamInv
<1>2. ProcessorInv /\ [Next]_vars => ProcessorInv'
  <2> SUFFICES ASSUME ProcessorInv, [Next]_vars PROVE ProcessorInv'
    OBVIOUS
  <2>1. StreamTypeOK
    BY DEF ProcessorInv, StreamInv
  <2>2. StreamInv'
    BY NextKeepsStream DEF ProcessorInv
  <2>3. IssueInv'
    BY <2>1, NextIsIssueStep, IssueStepInv DEF ProcessorInv
  <2>4. LocalInv'
    BY <2>1, <2>2, LocalStepInv DEF ProcessorInv, StreamInv
  <2> QED BY <2>2, <2>3, <2>4 DEF ProcessorInv
<1> QED BY <1>1, <1>2, PTL DEF Spec

\* Every variable of the processor always has its type.
THEOREM ProcessorTypes == Spec => []TypeOK
<1>1. ProcessorInv => TypeOK
  BY DEF ProcessorInv, IssueInv, StreamInv, LocalInv, WorkerTypeOK, OutputTypeOK,
         TypeOK, ProcessorTypeOK
<1> QED BY <1>1, ProcessorInvariant, PTL

\* Whatever was acknowledged is in its table, is of a kind that is not
\* written, or was parked as poison, whatever crashes and whichever calls fail
\* (processor.go:232-234).
THEOREM AckedIsSafe == Spec => []NoSilentLoss
<1>1. ProcessorInv => NoSilentLoss
  BY DEF ProcessorInv, LocalInv
<1> QED BY <1>1, ProcessorInvariant, PTL

\* An alert on the stream is about an event that is in ClickHouse
\* (processor.go:179-180).
THEOREM AlertsFollowWrites == Spec => []AlertsAreDurable
<1>1. ProcessorInv => AlertsAreDurable
  BY DEF ProcessorInv, LocalInv
<1> QED BY <1>1, ProcessorInvariant, PTL

\* The stream under the processor loses nothing (queue.go:46-48).
THEOREM ProcessorLosesNothing == Spec => []NothingVanishes
<1>1. ProcessorInv => NothingVanishes
  BY DEF ProcessorInv, StreamInv
<1> QED BY <1>1, ProcessorInvariant, PTL

\* The processor uses the issue store as the store allows, so what is proved
\* of the store holds of the processor.
THEOREM ProcessorImplementsIssueStore == Spec => IssueSpec
<1>1. Init => IssueInit
  BY DEF Init
<1>2. ProcessorInv /\ [Next]_vars => [IssueNext]_issueVars
  BY NextIsIssueStep DEF ProcessorInv, StreamInv
<1> QED BY <1>1, <1>2, ProcessorInvariant, PTL DEF Spec, IssueSpec

----------------------------------------------------------------------------
(***************************************************************************)
(* The stream: a worker holds, and acknowledges, only ids it was handed.   *)
(***************************************************************************)
Handed == 1 .. lastDelivered

HoldsHanded ==
  \A w \in Worker :
    /\ todo[w] \subseteq Handed
    /\ ackable[w] \subseteq Handed
    /\ \A t \in Tables : rows[w][t] \subseteq Handed

LEMMA MoveHolds ==
  ASSUME WorkerTypeOK, HoldsHanded, UNCHANGED lastDelivered, NEW w \in Worker,
         NEW stage, NEW left, NEW r, NEW a, NEW sig, Move(w, stage, left, r, a, sig),
         left \subseteq Handed, a \subseteq Handed, \A t \in Tables : r[t] \subseteq Handed
  PROVE  HoldsHanded'
<1>1. ASSUME NEW v \in Worker
      PROVE  /\ todo'[v] = IF v = w THEN left ELSE todo[v]
             /\ ackable'[v] \in {a, {}, ackable[v]} /\ (v # w => ackable'[v] = ackable[v])
             /\ rows'[v] \in {r, NoRows, rows[v]} /\ (v # w => rows'[v] = rows[v])
  BY DEF Move, WorkerTypeOK
<1>2. ASSUME NEW v \in Worker
      PROVE  ackable'[v] \subseteq Handed /\ \A t \in Tables : rows'[v][t] \subseteq Handed
  BY <1>1 DEF HoldsHanded, NoRows
<1> QED BY <1>1, <1>2 DEF HoldsHanded, Handed

LEMMA BystanderHolds ==
  ASSUME HoldsHanded, UNCHANGED <<lastDelivered, todo, ackable, rows>>
  PROVE  HoldsHanded'
BY DEF HoldsHanded, Handed

LEMMA EnterHolds ==
  ASSUME WorkerTypeOK, HoldsHanded, NEW w \in Worker, NEW ids, NEW n, Enter(w, ids, n),
         Handed \subseteq Handed', ids \subseteq Handed'
  PROVE  HoldsHanded'
<1>1. \A v \in Worker : todo'[v] = ids \/ todo'[v] = todo[v]
  BY DEF Enter, WorkerTypeOK
<1> QED BY <1>1 DEF HoldsHanded, Enter

LEMMA HandleHolds ==
  ASSUME WorkerTypeOK, HoldsHanded, NEW w \in Worker, NEW i \in Ids,
         \/ Park(w, i) \/ Skip(w, i) \/ Reject(w, i) \/ CollectRow(w, i)
         \/ BeginUpsert(w, i) \/ CommitUpsert(w, i) \/ UpsertFails(w, i)
  PROVE  HoldsHanded'
<1>1. CASE BeginUpsert(w, i)
  BY <1>1, BystanderHolds DEF BeginUpsert, streamVars, workerVars
<1> SUFFICES ASSUME ~BeginUpsert(w, i)
             PROVE  HoldsHanded'
  BY <1>1
<1>2. UNCHANGED lastDelivered /\ i \in todo[w]
  BY DEF Park, Skip, Reject, CollectRow, CommitUpsert, UpsertFails, IsError, Current, streamVars
<1>3. /\ todo[w] \ {i} \subseteq Handed /\ i \in Handed
      /\ ackable[w] \subseteq Handed /\ ackable[w] \cup {i} \subseteq Handed
      /\ \A t \in Tables : rows[w][t] \subseteq Handed
  BY <1>2 DEF HoldsHanded
<1>4. ASSUME NEW t \in Tables, NEW u \in Tables
      PROVE  AddRow(w, t, i)[u] \subseteq Handed
  BY <1>3 DEF AddRow, WorkerTypeOK
<1>5. ASSUME NEW r, NEW a, NEW sig, Route(w, i, r, a, sig),
             a \in {ackable[w], ackable[w] \cup {i}},
             \A t \in Tables : r[t] \subseteq Handed
      PROVE  HoldsHanded'
  BY <1>2, <1>3, <1>5, MoveHolds DEF Route
<1>6. CASE Park(w, i) \/ Skip(w, i) \/ Reject(w, i) \/ UpsertFails(w, i)
  BY <1>3, <1>5, <1>6 DEF Park, Skip, Reject, UpsertFails
<1>7. CASE CollectRow(w, i)
  <2>1. TableOf[entries[i].kind] \in Tables
    BY <1>7 DEF CollectRow, TableOf, WrittenKind, Tables
  <2> QED BY <1>4, <1>5, <1>7, <2>1 DEF CollectRow
<1>8. CASE CommitUpsert(w, i)
  <2>1. "errors" \in Tables
    BY DEF Tables
  <2> QED BY <1>4, <1>5, <1>8, <2>1 DEF CommitUpsert
<1> QED BY <1>6, <1>7, <1>8

LEMMA WriteHolds ==
  ASSUME WorkerTypeOK, HoldsHanded, NEW w \in Worker,
         \/ \E t \in Tables : Insert(w, t) \/ InsertFails(w, t)
         \/ PublishAlerts(w) \/ PublishFails(w) \/ Ack(w) \/ AckFails(w) \/ Crash(w)
  PROVE  HoldsHanded'
<1>1. UNCHANGED lastDelivered
  BY DEF Insert, InsertFails, PublishAlerts, PublishFails, Ack, AckFails, Crash, XAck, streamVars
<1>2. /\ ackable[w] \subseteq Handed
      /\ \A t \in Tables : rows[w][t] \subseteq Handed /\ ackable[w] \cup rows[w][t] \subseteq Handed
  BY DEF HoldsHanded
<1>3. ASSUME NEW stage, NEW a, NEW sig, Move(w, stage, {}, rows[w], a, sig), a \subseteq Handed
      PROVE  HoldsHanded'
  BY <1>1, <1>2, <1>3, MoveHolds
<1>4. ASSUME NEW t \in Tables, Insert(w, t) \/ InsertFails(w, t)
      PROVE  HoldsHanded'
  BY <1>2, <1>3, <1>4 DEF Insert, InsertFails
<1>5. CASE PublishAlerts(w) \/ PublishFails(w)
  BY <1>2, <1>3, <1>5 DEF PublishAlerts, PublishFails, AfterPublish
<1>6. CASE Ack(w) \/ AckFails(w) \/ Crash(w)
  <2>1. Return(w)
    BY <1>6 DEF Ack, AckFails, Crash
  <2>2. {} \subseteq Handed /\ \A t \in Tables : NoRows[t] \subseteq Handed
    BY DEF NoRows
  <2> QED BY <1>1, <2>1, <2>2, MoveHolds DEF Return
<1> QED BY <1>4, <1>5, <1>6

LEMMA PollHolds ==
  ASSUME StreamTypeOK, WorkerTypeOK, HoldsHanded, NEW w \in Worker, Consume(w) \/ Reclaim(w)
  PROVE  HoldsHanded'
<1>1. CASE Consume(w)
  <2>1. NextBatch \subseteq Unread
    BY DEF NextBatch, FirstN
  <2>2. \A i \in Unread : i \in Nat /\ i > lastDelivered
    BY DEF Unread, Ids
  <2>3. /\ lastDelivered' \in NextBatch /\ \A i \in NextBatch : i <= lastDelivered'
        /\ Enter(w, NextBatch, 1)
    BY <1>1 DEF Consume, Read
  <2>4. Handed \subseteq Handed' /\ NextBatch \subseteq Handed'
    BY <2>1, <2>2, <2>3 DEF StreamTypeOK, Handed
  <2> QED BY <2>3, <2>4, EnterHolds
<1>2. CASE Reclaim(w)
  <2>1. UNCHANGED lastDelivered
    BY <1>2 DEF Reclaim, AutoClaim
  <2>2. Claimed \subseteq pel
    BY DEF Claimed, Picked, Claimable, FirstN
  <2>3. Handed' = Handed /\ Claimed \subseteq Handed'
    BY <2>1, <2>2 DEF StreamTypeOK, Handed
  <2>4. CASE Claimed = {}
    BY <1>2, <2>1, <2>4, BystanderHolds DEF Reclaim, workerVars
  <2>5. CASE Claimed # {}
    BY <1>2, <2>3, <2>5, EnterHolds DEF Reclaim
  <2> QED BY <2>4, <2>5
<1> QED BY <1>1, <1>2

LEMMA NextHolds ==
  ASSUME StreamTypeOK, WorkerTypeOK, HoldsHanded, [Next]_vars
  PROVE  HoldsHanded'
<1>1. ASSUME NEW w \in Worker, WorkerStep(w)
      PROVE  HoldsHanded'
  BY <1>1, PollHolds, HandleHolds, WriteHolds DEF WorkerStep, HandleMessage, WriteBatch, FailingStep
<1>2. ASSUME NEW bodies, GatewayPublish(bodies)
      PROVE  HoldsHanded'
  BY <1>2, BystanderHolds DEF GatewayPublish, Publish, workerVars
<1>3. ASSUME NEW g, NEW status, Triage(g, status)
      PROVE  HoldsHanded'
  BY <1>3, BystanderHolds DEF Triage, streamVars, workerVars
<1>4. ASSUME NEW i, TimePasses(i)
      PROVE  HoldsHanded'
  BY <1>4, BystanderHolds DEF TimePasses, Age, workerVars
<1>5. CASE UNCHANGED vars
  BY <1>5, BystanderHolds DEF vars, streamVars, workerVars
<1> QED BY <1>1, <1>2, <1>3, <1>4, <1>5 DEF Next

LEMMA NextIsStreamStep ==
  ASSUME StreamTypeOK, HoldsHanded, [Next]_vars
  PROVE  [StreamNext]_streamVars
<1>1. ASSUME NEW w \in Worker, XAck(ackable[w])
      PROVE  StreamNext
  <2>1. ackable[w] \in SUBSET (1 .. lastDelivered)
    BY DEF HoldsHanded, Handed
  <2> QED BY <1>1, <2>1 DEF StreamNext
<1>2. ASSUME NEW w \in Worker, WorkerStep(w)
      PROVE  [StreamNext]_streamVars
  <2>1. CASE Consume(w) \/ Reclaim(w)
    BY <2>1 DEF Consume, Reclaim, StreamNext
  <2>2. CASE HandleMessage(w)
    BY <2>2 DEF HandleMessage, Park, Skip, Reject, CollectRow, BeginUpsert, CommitUpsert
  <2>3. CASE WriteBatch(w)
    BY <1>1, <2>3 DEF WriteBatch, PublishAlerts, Ack, Insert
  <2>4. CASE FailingStep(w)
    BY <1>1, <2>4
    DEF FailingStep, UpsertFails, InsertFails, PublishFails, AckFails, Crash
  <2> QED BY <1>2, <2>1, <2>2, <2>3, <2>4 DEF WorkerStep
<1>3. ASSUME NEW bodies \in Envelope, GatewayPublish(bodies)
      PROVE  StreamNext
  <2>1. bodies \in Seq(Body) /\ Len(bodies) \in Nat
    BY ProcessorAssumption, LenProperties
  <2>2. Publish(bodies)
    BY <1>3 DEF GatewayPublish
  <2>3. Len(bodies) \in 1 .. MaxEntries
    <3>1. PICK k \in 1 .. Len(bodies) : TRUE
      BY <2>2 DEF Publish
    <3>2. Len(entries) \in Nat /\ Len(entries) + Len(bodies) <= MaxEntries
      BY <2>2, LenProperties DEF Publish, StreamTypeOK
    <3> QED BY <2>1, <3>1, <3>2, StreamAssumption
  <2>4. bodies \in [1 .. Len(bodies) -> Body]
    BY <2>1, LenProperties
  <2> QED BY <2>2, <2>3, <2>4 DEF StreamNext
<1>4. ASSUME NEW g, NEW status, Triage(g, status)
      PROVE  UNCHANGED streamVars
  BY <1>4 DEF Triage
<1>5. ASSUME NEW i \in Ids, TimePasses(i)
      PROVE  StreamNext
  BY <1>5 DEF TimePasses, StreamNext
<1> QED BY <1>2, <1>3, <1>4, <1>5 DEF Next, vars

\* The workers, the gateway and time together use the stream as RedisStream says; a
\* worker acknowledges only what it was handed (redis.go:131-207).
THEOREM ProcessorImplementsStream == Spec => StreamSpec
<1>1. Init => StreamInit /\ HoldsHanded
  BY DEF Init, ProcessorInit, NoRows, HoldsHanded
<1>2. ProcessorInv => StreamTypeOK /\ WorkerTypeOK
  BY DEF ProcessorInv, StreamInv, LocalInv
<1>3. ProcessorInv /\ HoldsHanded /\ [Next]_vars => HoldsHanded'
  BY <1>2, NextHolds
<1>4. ProcessorInv /\ HoldsHanded /\ [Next]_vars => [StreamNext]_streamVars
  BY <1>2, NextIsStreamStep
<1> QED BY <1>1, <1>3, <1>4, ProcessorInvariant, PTL DEF Spec, StreamSpec

----------------------------------------------------------------------------
(***************************************************************************)
(* The contract, as long as messages are not parked on their first         *)
(* redelivery: with MaxDeliveries of 2 or more nothing is ever parked,     *)
(* since the queue reports 2 at most.                                      *)
(***************************************************************************)
ContractInv ==
  /\ ProcessorInv
  /\ parked = {}
  /\ \A t \in Tables : stored[t] \subseteq Ids

durable   == UNION {stored[t] : t \in Tables}
announced == {alerts[n].id : n \in DOMAIN alerts}

LEMMA NothingIsPoison ==
  ASSUME MaxDeliveries >= 2, ProcessorInv, NEW w \in Worker
  PROVE  ~Poison(w)
<1>1. reported[w] \in 1 .. 2
  BY DEF ProcessorInv, LocalInv, WorkerTypeOK
<1> QED BY <1>1, ProcessorAssumption DEF Poison

\* The steps, by what they change of the state the contract sees.
Hidden    == UNCHANGED <<entries, trimmed, stored, alerts, acked, parked>>
Accepted  == \E bodies \in Envelope :
               Publish(bodies) /\ UNCHANGED <<stored, alerts, parked>>
Persisted == \E w \in Worker, t \in Tables :
               /\ \E landed \in SUBSET rows[w][t] :
                    stored' = [stored EXCEPT ![t] = @ \cup landed]
               /\ UNCHANGED <<entries, trimmed, alerts, acked, parked>>
Announced == /\ \E more \in Seq(Signal) : alerts' = alerts \o more
             /\ UNCHANGED <<entries, trimmed, stored, acked, parked>>
Finished  == /\ \E w \in Worker : acked \subseteq acked' /\ acked' \subseteq acked \cup ackable[w]
             /\ UNCHANGED <<entries, trimmed, stored, alerts, parked>>

LEMMA StepsByEffect ==
  ASSUME MaxDeliveries >= 2, ContractInv, [Next]_vars
  PROVE  Hidden \/ Accepted \/ Persisted \/ Announced \/ Finished
<1>1. CASE UNCHANGED vars
  BY <1>1 DEF vars, streamVars, outputVars, Hidden
<1>2. ASSUME NEW w \in Worker, WorkerStep(w)
      PROVE  Hidden \/ Persisted \/ Announced \/ Finished
  <2>1. CASE Consume(w) \/ Reclaim(w)
    BY <2>1 DEF Consume, Reclaim, Read, AutoClaim, outputVars, Hidden
  <2>2. CASE HandleMessage(w)
    <3>1. ASSUME NEW i \in Ids PROVE ~Park(w, i)
      BY NothingIsPoison DEF Park, ContractInv
    <3> QED BY <2>2, <3>1
            DEF HandleMessage, Skip, Reject, CollectRow, BeginUpsert, CommitUpsert,
                streamVars, outputVars, Hidden
  <2>3. ASSUME NEW t \in Tables, Insert(w, t) PROVE Persisted
    BY <2>3 DEF Insert, streamVars, Persisted
  <2>4. ASSUME NEW t \in Tables, InsertFails(w, t) PROVE Hidden \/ Persisted
    BY <2>4 DEF InsertFails, FailedInsert, streamVars, Persisted, Hidden
  <2>5. CASE PublishAlerts(w) \/ PublishFails(w)
    <3>1. signals[w] \in Seq(Signal)
      BY DEF ContractInv, ProcessorInv, LocalInv, WorkerTypeOK
    <3>2. ASSUME NEW k \in 0 .. Len(signals[w]) PROVE SubSeq(signals[w], 1, k) \in Seq(Signal)
      <4>1. k \in Nat /\ \A n \in 1 .. k : signals[w][n] \in Signal
        BY <3>1, LenProperties, ElementOfSeq
      <4> QED BY <4>1, SubSeqProperties
    <3> QED BY <2>5, <3>1, <3>2 DEF PublishAlerts, PublishFails, streamVars, Announced
  <2>6. CASE Ack(w) \/ AckFails(w) \/ Crash(w)
    BY <2>6 DEF Ack, AckFails, Crash, XAck, streamVars, outputVars, Finished, Hidden
  <2>7. ASSUME NEW i \in Ids, UpsertFails(w, i) PROVE Hidden
    BY <2>7 DEF UpsertFails, streamVars, outputVars, Hidden
  <2> QED BY <1>2, <2>1, <2>2, <2>3, <2>4, <2>5, <2>6, <2>7
          DEF WorkerStep, WriteBatch, FailingStep
<1>3. ASSUME NEW bodies \in Envelope, GatewayPublish(bodies) PROVE Accepted
  BY <1>3 DEF GatewayPublish, outputVars, Accepted
<1>4. ASSUME NEW g \in Group, NEW status \in Status, Triage(g, status) PROVE Hidden
  BY <1>4 DEF Triage, streamVars, outputVars, Hidden
<1>5. ASSUME NEW i \in Ids, TimePasses(i) PROVE Hidden
  BY <1>5 DEF TimePasses, Age, outputVars, Hidden
<1> QED BY <1>1, <1>2, <1>3, <1>4, <1>5 DEF Next

----------------------------------------------------------------------------
LEMMA ContractInitInv == Init /\ ProcessorInv => ContractInv
BY DEF Init, ProcessorInit, ContractInv

LEMMA CollectedIsInIds ==
  ASSUME ContractInv, NEW w \in Worker
  PROVE  /\ \A t \in Tables : rows[w][t] \subseteq Ids
         /\ ackable[w] \subseteq Ids
         /\ \A i \in ackable[w] : HasRow(i) \/ Skippable(entries[i])
<1>1. GoodBatch(entries, stored, parked, pc[w], todo[w], rows[w], ackable[w], signals[w])
  BY BatchOf DEF ContractInv, ProcessorInv
<1>2. DOMAIN entries = Ids
  BY EntriesAreJobs DEF ContractInv, ProcessorInv, StreamInv
<1> QED BY <1>1, <1>2 DEF GoodBatch, SafeIn, HasRow, Skippable, ContractInv

LEMMA StoredStaysInIds ==
  ASSUME MaxDeliveries >= 2, ContractInv, [Next]_vars
  PROVE  parked' = {} /\ \A t \in Tables : stored'[t] \subseteq Ids'
<1> USE DEF ContractInv
<1>1. CASE Hidden \/ Announced \/ Finished
  BY <1>1 DEF Hidden, Announced, Finished, Ids
<1>2. CASE Accepted
  <2>1. PICK bodies \in Seq(Body) : Publish(bodies)
    BY <1>2, ProcessorAssumption DEF Accepted
  <2>2. Ids \subseteq Ids'
    BY <2>1, PublishAppends DEF Ids, ProcessorInv, StreamInv
  <2> QED BY <1>2, <2>2 DEF Accepted
<1>3. CASE Persisted
  <2>1. PICK w \in Worker, t \in Tables :
          /\ \E landed \in SUBSET rows[w][t] : stored' = [stored EXCEPT ![t] = @ \cup landed]
          /\ UNCHANGED <<entries, parked>>
    BY <1>3 DEF Persisted
  <2>2. rows[w][t] \subseteq Ids
    BY CollectedIsInIds
  <2>3. stored \in [Tables -> SUBSET Nat]
    BY DEF ProcessorInv, LocalInv, OutputTypeOK
  <2> QED BY <2>1, <2>2, <2>3 DEF Ids
<1> QED BY <1>1, <1>2, <1>3, StepsByEffect

LEMMA StepImplementsContract ==
  ASSUME MaxDeliveries >= 2, ContractInv, ContractInv', [Next]_vars
  PROVE  [Contract!Next]_(Contract!contractVars)
<1> USE DEF Contract!Next, Contract!contractVars
<1>0. DOMAIN entries = Ids /\ DOMAIN entries' = Ids'
  BY EntriesAreJobs, LenProperties DEF ContractInv, ProcessorInv, StreamInv, StreamTypeOK, Ids
<1>1. CASE Hidden
  BY <1>1 DEF Hidden
<1>2. CASE Accepted
  <2>1. PICK bodies \in Seq(Body) : Publish(bodies)
    BY <1>2, ProcessorAssumption DEF Accepted
  <2>2. /\ entries' \in Seq(Job) /\ Len(entries') > Len(entries)
        /\ \A i \in DOMAIN entries : entries'[i] = entries[i]
        /\ trimmed' \in Nat /\ trimmed' >= trimmed
    BY <1>0, <2>1, PublishAppends, ProcessorAssumption DEF ContractInv, ProcessorInv, StreamInv
  <2>3. UNCHANGED <<stored, alerts, acked>>
    BY <1>2 DEF Accepted, Publish
  <2>4. Contract!Accept
    BY <2>2, <2>3 DEF Contract!Accept
  <2> QED BY <2>4
<1>3. CASE Persisted
  <2>1. UNCHANGED <<entries, trimmed, alerts, acked>>
    BY <1>3 DEF Persisted
  <2>2. \A t \in Tables : stored[t] \subseteq stored'[t]
    <3>1. stored \in [Tables -> SUBSET Nat]
      BY DEF ContractInv, ProcessorInv, LocalInv, OutputTypeOK
    <3> QED BY <1>3, <3>1 DEF Persisted
  <2>3. \A t \in Tables : stored'[t] \subseteq DOMAIN entries
    BY <1>0, <2>1 DEF ContractInv, Ids
  <2>4. Contract!Persist
    BY <2>1, <2>2, <2>3 DEF Contract!Persist
  <2> QED BY <2>4
<1>4. CASE Announced
  <2>1. UNCHANGED <<entries, trimmed, stored, acked>>
    BY <1>4 DEF Announced
  <2>2. announced \subseteq announced'
    <3>1. PICK more \in Seq(Signal) : alerts' = alerts \o more
      BY <1>4 DEF Announced
    <3>2. alerts \in Seq(Signal)
      BY DEF ContractInv, ProcessorInv, LocalInv, OutputTypeOK
    <3>3. /\ DOMAIN alerts \subseteq DOMAIN alerts'
          /\ \A n \in DOMAIN alerts : alerts'[n] = alerts[n]
      BY <3>1, <3>2, ConcatProperties, LenProperties
    <3> QED BY <3>3 DEF announced
  <2>3. announced' \subseteq stored["errors"] /\ "errors" \in Tables
    BY <2>1 DEF ContractInv, ProcessorInv, LocalInv, AlertsAreDurable, announced, Tables
  <2>4. Contract!Announce
    BY <2>1, <2>2, <2>3 DEF Contract!Announce, announced
  <2> QED BY <2>4
<1>5. CASE Finished
  <2>1. PICK w \in Worker : acked \subseteq acked' /\ acked' \subseteq acked \cup ackable[w]
    BY <1>5 DEF Finished
  <2>2. UNCHANGED <<entries, trimmed, stored, alerts>>
    BY <1>5 DEF Finished
  <2>3. ASSUME NEW i \in acked' \ acked
        PROVE  i \in DOMAIN entries /\ (i \in durable \/ Skippable(entries[i]))
    <3>1. i \in Ids /\ (HasRow(i) \/ Skippable(entries[i]))
      BY <2>1, CollectedIsInIds
    <3>2. ~Skippable(entries[i]) => TableOf[entries[i].kind] \in Tables
      BY DEF Skippable, WrittenKind, TableOf, Tables
    <3> QED BY <1>0, <3>1, <3>2 DEF HasRow, durable
  <2>4. Contract!Finish
    BY <2>1, <2>2, <2>3 DEF Contract!Finish, durable
  <2> QED BY <2>4
<1> QED BY <1>1, <1>2, <1>3, <1>4, <1>5, StepsByEffect

\* Unless it parks first redeliveries, the processor keeps the promises of the
\* ingest path: a job is finished only when it is durable or of a kind that is
\* never written, and an alert is raised only for what is durable
\* (queue.go:46-48, processor.go:127-130 and 179-180).
THEOREM ProcessorMeetsContract ==
  ASSUME MaxDeliveries >= 2
  PROVE  Spec => MeetsContract
<1>1. Init => Contract!Init
  <2> SUFFICES ASSUME Init PROVE Contract!Init
    OBVIOUS
  <2>1. stored = [t \in Tables |-> {}] /\ alerts = <<>>
    BY DEF Init, ProcessorInit
  <2>2. DOMAIN <<>> = {}
    OBVIOUS
  <2> QED BY <2>1, <2>2 DEF Init, StreamInit, Contract!Init
<1>2. Init /\ ProcessorInv => ContractInv
  BY ContractInitInv
<1>3. ContractInv /\ ProcessorInv' /\ [Next]_vars => ContractInv'
  BY StoredStaysInIds DEF ContractInv
<1>4. ContractInv /\ ContractInv' /\ [Next]_vars => [Contract!Next]_(Contract!contractVars)
  BY StepImplementsContract
<1> QED BY <1>1, <1>2, <1>3, <1>4, ProcessorInvariant, PTL DEF Spec, MeetsContract, Contract!Spec

----------------------------------------------------------------------------
(***************************************************************************)
(* Counting.  A signal is on the alert stream or in the memory of one      *)
(* worker, and each was put there by an upsert that reported it: so there  *)
(* are at most as many as reports.  An error's id is collected by a worker *)
(* only when its upsert has committed, and reaches ClickHouse from there.  *)
(* Both need that the transaction a worker has open is the current         *)
(* message's, so what it reports is about that message's group.            *)
(***************************************************************************)
OpenTxIsCurrent ==
  \A w \in Worker : tx[w] # NoTx =>
    \E i \in Ids : IsError(w, i) /\ tx[w].group = entries[i].group

SignalKind == {"new_issue", "regression"}

Detected(kind) == IF kind = "new_issue" THEN created ELSE regressed

IsSignal(s, kind, g) == s.kind = kind /\ s.group = g

\* Where workers hold signals of the kind about the group, not yet published.
Waiting(kind, g) ==
  UNION {{w} \X {n \in DOMAIN signals[w] : IsSignal(signals[w][n], kind, g)} : w \in Worker}

SignalsAreCounted ==
  \A kind \in SignalKind, g \in Group :
    /\ IsFiniteSet(Waiting(kind, g))
    /\ Cardinality(AlertsOf(kind, g)) + Cardinality(Waiting(kind, g)) <= Detected(kind)[g]

\* Ids whose upsert committed and whose row is stored or collected.
Folded == stored["errors"] \cup UNION {rows[w]["errors"] : w \in Worker}

FoldedOf(g) == {i \in Folded : entries[i].group = g}

RowsAreCounted ==
  /\ Folded \subseteq Ids
  /\ Len(entries) <= MaxEntries
  /\ \A g \in Group : Cardinality(FoldedOf(g)) <= timesSeen[g]
----------------------------------------------------------------------------
LEMMA MoveEffect ==
  ASSUME WorkerTypeOK, NEW w \in Worker, NEW stage, NEW left, NEW r, NEW a, NEW sig,
         Move(w, stage, left, r, a, sig)
  PROVE  /\ \A v \in Worker : v # w =>
              /\ pc'[v] = pc[v] /\ todo'[v] = todo[v] /\ reported'[v] = reported[v]
              /\ rows'[v] = rows[v] /\ signals'[v] = signals[v]
         /\ rows'[w] \in {r, NoRows}
         /\ signals'[w] \in {sig, <<>>}
BY DEF Move, WorkerTypeOK

\* No other worker's step touches what a worker has in memory.
OthersKeep(w) ==
  \A v \in Worker \ {w} :
    /\ pc'[v] = pc[v] /\ todo'[v] = todo[v] /\ reported'[v] = reported[v]
    /\ tx'[v] = tx[v]

LEMMA TxEffect ==
  ASSUME IssueTypeOK, NEW w \in Worker,
         \/ \E g \in Group : ReadPrior(w, g)
         \/ Upsert(w) \/ Rollback(w) \/ UNCHANGED issueVars
  PROVE  \A v \in Worker \ {w} : tx'[v] = tx[v]
BY DEF IssueTypeOK, ReadPrior, Upsert, Rollback, issueVars

LEMMA WorkerKeepsOthers ==
  ASSUME StreamTypeOK, IssueTypeOK, WorkerTypeOK, NEW w \in Worker, WorkerStep(w)
  PROVE  OthersKeep(w)
<1>1. ASSUME NEW stage, NEW left, NEW r, NEW a, NEW sig, Move(w, stage, left, r, a, sig),
             \A v \in Worker \ {w} : tx'[v] = tx[v]
      PROVE  OthersKeep(w)
  BY <1>1, MoveEffect DEF OthersKeep
<1>2. ASSUME NEW ids, NEW deliveries, Enter(w, ids, deliveries) PROVE
             \A v \in Worker \ {w} :
                pc'[v] = pc[v] /\ todo'[v] = todo[v] /\ reported'[v] = reported[v]
  BY <1>2 DEF Enter, WorkerTypeOK
<1>3. ASSUME UNCHANGED issueVars PROVE \A v \in Worker \ {w} : tx'[v] = tx[v]
  BY <1>3 DEF issueVars
<1>4. CASE Consume(w) \/ Reclaim(w)
  BY <1>2, <1>3, <1>4 DEF Consume, Reclaim, workerVars, OthersKeep
<1>5. ASSUME NEW i \in Ids, Park(w, i) \/ Skip(w, i) \/ Reject(w, i) \/ CollectRow(w, i)
      PROVE  OthersKeep(w)
  BY <1>1, <1>3, <1>5 DEF Park, Skip, Reject, CollectRow, Route
<1>6. ASSUME NEW i \in Ids, BeginUpsert(w, i) PROVE OthersKeep(w)
  <2>1. entries[i].group \in Group
    BY EntriesAreJobs DEF Job
  <2> QED BY <1>6, <2>1, TxEffect DEF BeginUpsert, workerVars, OthersKeep
<1>7. ASSUME NEW i \in Ids, CommitUpsert(w, i) \/ UpsertFails(w, i) PROVE OthersKeep(w)
  <2>1. \A v \in Worker \ {w} : tx'[v] = tx[v]
    BY <1>7, TxEffect DEF CommitUpsert, UpsertFails
  <2> QED BY <1>1, <1>7, <2>1 DEF CommitUpsert, UpsertFails, Route
<1>8. CASE WriteBatch(w)
  <2>1. UNCHANGED issueVars
    BY <1>8 DEF WriteBatch, PublishAlerts, Ack, Insert
  <2> QED BY <1>1, <1>3, <1>8, <2>1
          DEF WriteBatch, PublishAlerts, AfterPublish, Ack, Return, Insert
<1>9. ASSUME NEW t \in Tables, InsertFails(w, t) PROVE OthersKeep(w)
  BY <1>1, <1>3, <1>9 DEF InsertFails
<1>10. CASE PublishFails(w) \/ AckFails(w)
  BY <1>1, <1>3, <1>10 DEF PublishFails, AfterPublish, AckFails, Return
<1>11. CASE Crash(w)
  <2>1. \A v \in Worker \ {w} : tx'[v] = tx[v]
    BY <1>11, TxEffect DEF Crash
  <2> QED BY <1>1, <1>11, <2>1 DEF Crash, Return
<1> QED BY <1>4, <1>5, <1>6, <1>7, <1>8, <1>9, <1>10, <1>11
        DEF WorkerStep, HandleMessage, FailingStep
\* Entries stay where they are, and there are never more than MaxEntries.
LEMMA NextKeepsEntries ==
  ASSUME StreamTypeOK, [Next]_vars
  PROVE  /\ Ids \subseteq Ids'
         /\ \A i \in Ids : entries'[i] = entries[i]
         /\ Len(entries) <= MaxEntries => Len(entries') <= MaxEntries
<1>1. CASE entries' = entries
  BY <1>1 DEF Ids
<1>2. ASSUME NEW bodies \in Envelope, GatewayPublish(bodies), entries' # entries
      PROVE  /\ Ids \subseteq Ids'
             /\ \A i \in Ids : entries'[i] = entries[i]
             /\ Len(entries') <= MaxEntries
  <2>1. bodies \in Seq(Body) /\ Publish(bodies)
    BY <1>2, ProcessorAssumption DEF GatewayPublish
  <2>2. /\ Len(entries) \in Nat /\ Len(entries') \in Nat /\ Len(entries') > Len(entries)
        /\ \A i \in Ids : entries'[i] = entries[i]
    BY <2>1, PublishAppends
  <2>3. PICK k \in 1 .. Len(bodies) : entries' = entries \o SubSeq(bodies, 1, k)
    BY <2>1 DEF Publish
  <2>4. Len(bodies) \in Nat /\ \A i \in 1 .. k : bodies[i] \in Body
    BY <2>1, LenProperties, ElementOfSeq
  <2>5. SubSeq(bodies, 1, k) \in Seq(Body) /\ Len(SubSeq(bodies, 1, k)) = k
    BY <2>4, SubSeqProperties
  <2>6. Len(entries') = Len(entries) + k
    BY <2>3, <2>5, ConcatProperties DEF StreamTypeOK
  <2>7. Len(entries) + Len(bodies) <= MaxEntries
    BY <2>1 DEF Publish
  <2> QED BY <2>2, <2>4, <2>6, <2>7, StreamAssumption DEF Ids
<1>3. ASSUME NEW w \in Worker, WorkerStep(w) PROVE entries' = entries
  <2>1. CASE Consume(w) \/ Reclaim(w)
    BY <2>1 DEF Consume, Reclaim, Read, AutoClaim
  <2>2. CASE HandleMessage(w)
    BY <2>2 DEF HandleMessage, Park, Skip, Reject, CollectRow, BeginUpsert, CommitUpsert,
                streamVars
  <2>3. CASE WriteBatch(w)
    BY <2>3 DEF WriteBatch, PublishAlerts, Ack, Insert, XAck, streamVars
  <2>4. CASE FailingStep(w)
    BY <2>4 DEF FailingStep, UpsertFails, InsertFails, PublishFails, AckFails, Crash,
                XAck, streamVars
  <2> QED BY <1>3, <2>1, <2>2, <2>3, <2>4 DEF WorkerStep
<1>4. ASSUME NEW g, NEW status, Triage(g, status) PROVE entries' = entries
  BY <1>4 DEF Triage, streamVars
<1>5. ASSUME NEW i, TimePasses(i) PROVE entries' = entries
  BY <1>5 DEF TimePasses, Age
<1>6. ASSUME UNCHANGED vars PROVE entries' = entries
  BY <1>6 DEF vars, streamVars
<1>7. entries' = entries \/ \E bodies \in Envelope : GatewayPublish(bodies)
  BY <1>3, <1>4, <1>5, <1>6 DEF Next
<1> QED BY <1>1, <1>2, <1>7

----------------------------------------------------------------------------
LEMMA OneCurrent ==
  ASSUME StreamTypeOK, NEW w \in Worker, NEW i \in Ids, NEW j \in Ids,
         Current(w, i), Current(w, j)
  PROVE  i = j
<1>1. i \in Nat /\ j \in Nat /\ i <= j /\ j <= i
  BY EntriesAreJobs DEF Current
<1> QED BY <1>1

\* A worker with an open transaction has nothing else to do than the upsert,
\* its failure, or to die.
LEMMA OpenTxEnds ==
  ASSUME ProcessorInv, OpenTxIsCurrent, NEW w \in Worker, WorkerStep(w),
         tx'[w] # NoTx
  PROVE  \E i \in Ids : BeginUpsert(w, i)
<1> USE DEF ProcessorInv, StreamInv, IssueInv
<1>1. tx[w] # NoTx => \E i \in Ids : IsError(w, i) /\ tx[w].group = entries[i].group
  BY DEF OpenTxIsCurrent
<1>2. ASSUME tx'[w] = tx[w]
      PROVE  tx[w] # NoTx
  BY <1>2
<1>3. ASSUME Upsert(w) \/ Rollback(w) PROVE FALSE
  BY <1>3 DEF Upsert, Rollback, IssueTypeOK
<1>4. ASSUME UNCHANGED issueVars, pc[w] # "handle" PROVE FALSE
  BY <1>1, <1>4 DEF issueVars, IsError, Current
<1>5. ASSUME NEW i \in Ids, Park(w, i) \/ Skip(w, i) \/ Reject(w, i) \/ CollectRow(w, i)
      PROVE  FALSE
  <2>1. tx'[w] = tx[w]
    BY <1>5 DEF Park, Skip, Reject, CollectRow, issueVars
  <2>2. PICK j \in Ids : IsError(w, j)
    BY <1>1, <2>1
  <2>3. i = j
    BY <1>5, <2>2, OneCurrent DEF Park, Skip, Reject, CollectRow, IsError
  <2> QED BY <1>5, <2>2, <2>3
          DEF Park, Skip, Reject, CollectRow, IsError, Skippable, WrittenKind, TableOf
<1>6. CASE Consume(w) \/ Reclaim(w)
  BY <1>4, <1>6 DEF Consume, Reclaim
<1>7. ASSUME NEW i \in Ids, BeginUpsert(w, i) PROVE tx[w] = NoTx
  BY <1>7 DEF BeginUpsert, ReadPrior
<1>8. ASSUME NEW i \in Ids, CommitUpsert(w, i) PROVE FALSE
  BY <1>3, <1>8 DEF CommitUpsert
<1>9. ASSUME NEW i \in Ids, UpsertFails(w, i) PROVE FALSE
  BY <1>2, <1>3, <1>9 DEF UpsertFails, issueVars
<1>10. CASE WriteBatch(w)
  <2>1. \A t \in Tables : t # "handle"
    BY DEF Tables
  <2> QED BY <1>4, <1>10, <2>1 DEF WriteBatch, PublishAlerts, Ack, Insert
<1>11. CASE PublishFails(w) \/ AckFails(w) \/ \E t \in Tables : InsertFails(w, t)
  <2>1. \A t \in Tables : t # "handle"
    BY DEF Tables
  <2> QED BY <1>4, <1>11, <2>1 DEF PublishFails, AckFails, InsertFails, FailedInsert
<1>12. CASE Crash(w)
  BY <1>2, <1>3, <1>12 DEF Crash, issueVars
<1> QED BY <1>5, <1>6, <1>7, <1>8, <1>9, <1>10, <1>11, <1>12
        DEF WorkerStep, HandleMessage, FailingStep
\* What a worker works on stays what it is, whatever the others do.
LEMMA ErrorStays ==
  ASSUME StreamTypeOK, [Next]_vars, NEW v \in Worker, NEW i \in Ids, IsError(v, i),
         pc'[v] = pc[v], todo'[v] = todo[v], reported'[v] = reported[v]
  PROVE  i \in Ids' /\ IsError(v, i)' /\ entries'[i].group = entries[i].group
<1>1. i \in Ids' /\ entries'[i] = entries[i]
  BY NextKeepsEntries
<1> QED BY <1>1 DEF IsError, Current, Poison

LEMMA OpenTxStepInv ==
  ASSUME ProcessorInv, OpenTxIsCurrent, [Next]_vars
  PROVE  OpenTxIsCurrent'
<1> USE DEF ProcessorInv, StreamInv, IssueInv, LocalInv
<1>1. ASSUME NEW v \in Worker, tx'[v] = tx[v], tx[v] # NoTx,
             pc'[v] = pc[v], todo'[v] = todo[v], reported'[v] = reported[v]
      PROVE  \E i \in Ids' : IsError(v, i)' /\ tx'[v].group = entries'[i].group
  <2>1. PICK i \in Ids : IsError(v, i) /\ tx[v].group = entries[i].group
    BY <1>1 DEF OpenTxIsCurrent
  <2>2. i \in Ids' /\ IsError(v, i)' /\ entries'[i].group = entries[i].group
    BY <1>1, <2>1, ErrorStays
  <2> QED BY <1>1, <2>1, <2>2
<1>2. ASSUME NEW w \in Worker, WorkerStep(w) PROVE OpenTxIsCurrent'
  <2> SUFFICES ASSUME NEW v \in Worker, tx'[v] # NoTx
               PROVE  \E i \in Ids' : IsError(v, i)' /\ tx'[v].group = entries'[i].group
    BY DEF OpenTxIsCurrent
  <2>1. CASE v # w
    <3>1. OthersKeep(w)
      BY <1>2, WorkerKeepsOthers
    <3> QED BY <1>1, <2>1, <3>1 DEF OthersKeep
  <2>2. CASE v = w
    <3>1. PICK i \in Ids : BeginUpsert(w, i)
      BY <1>2, <2>2, OpenTxEnds
    <3>2. /\ IsError(w, i) /\ UNCHANGED <<pc, todo, reported>>
          /\ tx' = [tx EXCEPT ![w] = [group |-> entries[i].group, prior |-> issue[entries[i].group]]]
      BY <3>1 DEF BeginUpsert, ReadPrior, workerVars
    <3>3. tx'[w].group = entries[i].group
      BY <3>2 DEF IssueTypeOK
    <3>4. i \in Ids' /\ IsError(w, i)' /\ entries'[i].group = entries[i].group
      BY <3>2, ErrorStays
    <3> QED BY <2>2, <3>3, <3>4
  <2> QED BY <2>1, <2>2
<1>3. ASSUME UNCHANGED <<workerVars, tx>> PROVE OpenTxIsCurrent'
  BY <1>1, <1>3 DEF OpenTxIsCurrent, workerVars
<1>4. ASSUME NEW bodies, GatewayPublish(bodies) PROVE OpenTxIsCurrent'
  BY <1>3, <1>4 DEF GatewayPublish, issueVars
<1>5. ASSUME NEW g, NEW status, Triage(g, status) PROVE OpenTxIsCurrent'
  BY <1>3, <1>5 DEF Triage, SetIssueStatus
<1>6. ASSUME NEW i, TimePasses(i) PROVE OpenTxIsCurrent'
  BY <1>3, <1>6 DEF TimePasses, issueVars
<1>7. CASE UNCHANGED vars
  BY <1>3, <1>7 DEF vars, issueVars
<1> QED BY <1>2, <1>4, <1>5, <1>6, <1>7 DEF Next

----------------------------------------------------------------------------
(***************************************************************************)
(* The steps, by what they change of the counts.                           *)
(***************************************************************************)
RowsShrink == \A v \in Worker : rows'[v]["errors"] \subseteq rows[v]["errors"]

SignalsDrop == \A v \in Worker : signals'[v] \in {signals[v], <<>>}

\* Nothing is collected and nothing announced; rows may reach ClickHouse.
Uncounted ==
  /\ RowsShrink /\ SignalsDrop
  /\ stored'["errors"] \subseteq Folded
  /\ UNCHANGED alerts

\* A worker's signals leave its memory, the first k of them to the stream.
Announcing ==
  /\ RowsShrink
  /\ UNCHANGED <<stored, issueVars>>
  /\ \E w \in Worker : \E k \in 0 .. Len(signals[w]) :
       /\ alerts' = alerts \o SubSeq(signals[w], 1, k)
       /\ signals' = [signals EXCEPT ![w] = <<>>]

\* An error is folded into its issue and collected, with what the upsert reports.
Folding ==
  \E w \in Worker, i \in Ids :
    /\ Upsert(w)
    /\ tx[w].group = entries[i].group
    /\ UNCHANGED <<stored, alerts>>
    /\ \A v \in Worker \ {w} : rows'[v] = rows[v] /\ signals'[v] = signals[v]
    /\ rows'[w]["errors"] \subseteq rows[w]["errors"] \cup {i}
    /\ signals'[w] \in {signals[w] \o SignalsOf(w, i), <<>>}

LEMMA MoveDrops ==
  ASSUME WorkerTypeOK, NEW w \in Worker, NEW stage, NEW left, NEW r, NEW a, NEW sig,
         Move(w, stage, left, r, a, sig), r["errors"] = rows[w]["errors"],
         sig \in {signals[w], <<>>}
  PROVE  RowsShrink /\ SignalsDrop
<1>1. NoRows["errors"] = {}
  BY DEF NoRows, Tables
<1> QED BY <1>1, MoveEffect DEF RowsShrink, SignalsDrop

LEMMA AfterPublishDrops ==
  ASSUME WorkerTypeOK, NEW w \in Worker, AfterPublish(w)
  PROVE  RowsShrink /\ signals' = [signals EXCEPT ![w] = <<>>]
<1>1. RowsShrink
  BY MoveDrops DEF AfterPublish
<1>2. signals' = [signals EXCEPT ![w] = <<>>]
  BY DEF AfterPublish, Move
<1> QED BY <1>1, <1>2

LEMMA WorkerCounts ==
  ASSUME ProcessorInv, OpenTxIsCurrent, NEW w \in Worker, WorkerStep(w)
  PROVE  Uncounted \/ Announcing \/ Folding
<1> USE DEF ProcessorInv, StreamInv, IssueInv, LocalInv
<1>1. ASSUME UNCHANGED <<rows, signals, stored, alerts>> PROVE Uncounted
  BY <1>1 DEF Uncounted, RowsShrink, SignalsDrop, Folded
<1>2. ASSUME NEW stage, NEW left, NEW a, NEW sig,
             Move(w, stage, left, rows[w], a, sig), sig \in {signals[w], <<>>},
             UNCHANGED <<stored, alerts>>
      PROVE  Uncounted
  BY <1>2, MoveDrops DEF Uncounted, Folded
<1>3. CASE Consume(w) \/ Reclaim(w)
  BY <1>1, <1>3 DEF Consume, Reclaim, Enter, workerVars, outputVars
<1>4. ASSUME NEW i \in Ids, Park(w, i) \/ Skip(w, i) \/ Reject(w, i) \/ UpsertFails(w, i)
      PROVE  Uncounted
  BY <1>2, <1>4 DEF Park, Skip, Reject, UpsertFails, Route, outputVars
<1>5. ASSUME NEW i \in Ids, CollectRow(w, i)
      PROVE  Uncounted
  <2> DEFINE t == TableOf[entries[i].kind]
  <2>1. t # "errors"
    BY <1>5 DEF CollectRow, WrittenKind, TableOf
  <2>2. AddRow(w, t, i)["errors"] = rows[w]["errors"]
    BY <2>1 DEF AddRow, WorkerTypeOK, Tables
  <2>3. UNCHANGED <<stored, alerts>>
    BY <1>5 DEF CollectRow, outputVars
  <2>4. \E stage : Move(w, stage, todo[w] \ {i}, AddRow(w, t, i), ackable[w], signals[w])
    BY <1>5 DEF CollectRow, Route
  <2> HIDE DEF t
  <2>5. RowsShrink /\ SignalsDrop
    BY <2>2, <2>4, MoveDrops
  <2> QED BY <2>3, <2>5 DEF Uncounted, Folded
<1>6. ASSUME NEW i \in Ids, BeginUpsert(w, i) PROVE Uncounted
  BY <1>1, <1>6 DEF BeginUpsert, workerVars, outputVars
<1>7. ASSUME NEW i \in Ids, CommitUpsert(w, i) PROVE Folding
  <2>1. /\ Upsert(w) /\ IsError(w, i) /\ UNCHANGED <<stored, alerts>>
        /\ Route(w, i, AddRow(w, "errors", i), ackable[w], signals[w] \o SignalsOf(w, i))
    BY <1>7 DEF CommitUpsert, outputVars
  <2>2. tx[w].group = entries[i].group
    <3>1. tx[w] # NoTx
      BY <2>1 DEF Upsert
    <3>2. PICK j \in Ids : IsError(w, j) /\ tx[w].group = entries[j].group
      BY <3>1 DEF OpenTxIsCurrent
    <3> QED BY <2>1, <3>2, OneCurrent DEF IsError
  <2>3. /\ \A v \in Worker \ {w} : rows'[v] = rows[v] /\ signals'[v] = signals[v]
        /\ rows'[w] \in {AddRow(w, "errors", i), NoRows}
        /\ signals'[w] \in {signals[w] \o SignalsOf(w, i), <<>>}
    <3>1. \E stage : Move(w, stage, todo[w] \ {i}, AddRow(w, "errors", i), ackable[w],
                          signals[w] \o SignalsOf(w, i))
      BY <2>1 DEF Route
    <3> QED BY <3>1, MoveEffect
  <2>4. rows'[w]["errors"] \subseteq rows[w]["errors"] \cup {i}
    BY <2>3 DEF AddRow, NoRows, WorkerTypeOK, Tables
  <2> QED BY <2>1, <2>2, <2>3, <2>4 DEF Folding
<1>8. ASSUME NEW t \in Tables, Insert(w, t) \/ InsertFails(w, t) PROVE Uncounted
  <2>1. \E landed \in SUBSET rows[w][t] :
          stored' = [stored EXCEPT ![t] = @ \cup landed] \/ stored' = stored
    BY <1>8 DEF Insert, InsertFails, FailedInsert
  <2>2. stored'["errors"] \subseteq Folded
    BY <2>1 DEF Folded, OutputTypeOK, Tables
  <2>3. /\ \E stage, a : \E sig \in {signals[w], <<>>} : Move(w, stage, {}, rows[w], a, sig)
        /\ UNCHANGED alerts
    BY <1>8 DEF Insert, InsertFails
  <2>4. RowsShrink /\ SignalsDrop
    BY <2>3, MoveDrops
  <2> QED BY <2>2, <2>3, <2>4 DEF Uncounted
<1>9. CASE PublishAlerts(w) \/ PublishFails(w)
  <2>1. signals[w] \in Seq(Signal)
    BY DEF WorkerTypeOK
  <2>2. SubSeq(signals[w], 1, Len(signals[w])) = signals[w] /\ Len(signals[w]) \in 0 .. Len(signals[w])
    BY <2>1, SubSeqFull, LenProperties
  <2>3. RowsShrink /\ signals' = [signals EXCEPT ![w] = <<>>] /\ UNCHANGED <<stored, issueVars>>
    BY <1>9, AfterPublishDrops DEF PublishAlerts, PublishFails
  <2>4. \E k \in 0 .. Len(signals[w]) : alerts' = alerts \o SubSeq(signals[w], 1, k)
    BY <1>9, <2>2 DEF PublishAlerts, PublishFails
  <2> QED BY <2>3, <2>4 DEF Announcing
<1>10. CASE Ack(w) \/ AckFails(w) \/ Crash(w)
  <2>1. Move(w, "poll", {}, NoRows, {}, <<>>) /\ UNCHANGED <<stored, alerts>>
    BY <1>10 DEF Ack, AckFails, Crash, Return, outputVars
  <2>2. NoRows["errors"] = {}
    BY DEF NoRows, Tables
  <2>3. RowsShrink /\ SignalsDrop
    BY <2>1, <2>2, MoveEffect DEF RowsShrink, SignalsDrop
  <2> QED BY <2>1, <2>3 DEF Uncounted, Folded
<1> QED BY <1>3, <1>4, <1>5, <1>6, <1>7, <1>8, <1>9, <1>10
        DEF WorkerStep, HandleMessage, WriteBatch, FailingStep

LEMMA NextCounts ==
  ASSUME ProcessorInv, OpenTxIsCurrent, [Next]_vars
  PROVE  Uncounted \/ Announcing \/ Folding
<1>1. ASSUME NEW w \in Worker, WorkerStep(w) PROVE Uncounted \/ Announcing \/ Folding
  BY <1>1, WorkerCounts
<1>2. ASSUME UNCHANGED <<workerVars, outputVars>> PROVE Uncounted
  BY <1>2 DEF workerVars, outputVars, Uncounted, RowsShrink, SignalsDrop, Folded
<1>3. CASE UNCHANGED vars
  BY <1>2, <1>3 DEF vars
<1> QED BY <1>1, <1>2, <1>3 DEF Next, GatewayPublish, Triage, TimePasses
----------------------------------------------------------------------------
LEMMA CountGrows ==
  ASSUME NEW history \in [Group -> Nat], NEW g \in Group, NEW happened
  PROVE  \A h \in Group :
           Count(history, g, happened)[h] =
             IF h = g /\ happened THEN history[h] + 1 ELSE history[h]
<1>1. PICK b \in BOOLEAN : b <=> happened
  OBVIOUS
<1>2. Count(history, g, happened) = Count(history, g, b)
  BY <1>1 DEF Count
<1> QED BY <1>1, <1>2, CountValue

LEMMA HistoriesGrow ==
  ASSUME IssueTypeOK, [IssueNext]_issueVars
  PROVE  \A g \in Group : /\ created'[g] >= created[g]
                          /\ regressed'[g] >= regressed[g]
                          /\ timesSeen'[g] >= timesSeen[g]
<1>1. /\ created \in [Group -> Nat] /\ regressed \in [Group -> Nat]
      /\ timesSeen \in [Group -> Nat]
  BY DEF IssueTypeOK
<1>2. CASE UNCHANGED <<created, regressed, timesSeen>>
  BY <1>1, <1>2
<1>3. ASSUME NEW w \in Worker, Upsert(w)
      PROVE  \A g \in Group : /\ created'[g] >= created[g]
                              /\ regressed'[g] >= regressed[g]
                              /\ timesSeen'[g] >= timesSeen[g]
  <2>1. PICK g \in Group : g = tx[w].group
    BY <1>3, TxFields DEF Upsert
  <2>2. /\ created' = Count(created, g, IsNew(w))
        /\ regressed' = Count(regressed, g, IsRegressed(w))
        /\ timesSeen' = Count(timesSeen, g, timesSeen[g] < MaxSeen)
    BY <1>3, <2>1 DEF Upsert
  <2>3. \A h \in Group : created'[h] = IF h = g /\ IsNew(w) THEN created[h] + 1 ELSE created[h]
    BY <1>1, <2>2, CountGrows
  <2>4. \A h \in Group : regressed'[h] =
          IF h = g /\ IsRegressed(w) THEN regressed[h] + 1 ELSE regressed[h]
    BY <1>1, <2>2, CountGrows
  <2>5. \A h \in Group : timesSeen'[h] =
          IF h = g /\ timesSeen[g] < MaxSeen THEN timesSeen[h] + 1 ELSE timesSeen[h]
    <3>1. PICK below \in BOOLEAN : below <=> timesSeen[g] < MaxSeen
      OBVIOUS
    <3>2. timesSeen' = Count(timesSeen, g, below)
      BY <2>2, <3>1 DEF Count
    <3> QED BY <1>1, <3>1, <3>2, CountGrows
  <2> QED BY <1>1, <2>3, <2>4, <2>5
<1> QED BY <1>2, <1>3 DEF IssueNext, ReadPrior, Rollback, SetIssueStatus, issueVars

\* What the upsert of an open transaction adds to the histories.
LEMMA UpsertAdds ==
  ASSUME IssueTypeOK, NEW w \in Worker, Upsert(w), NEW g \in Group, g = tx[w].group
  PROVE  /\ IsNew(w) => created'[g] = created[g] + 1
         /\ IsRegressed(w) => regressed'[g] = regressed[g] + 1
         /\ timesSeen[g] < MaxSeen => timesSeen'[g] = timesSeen[g] + 1
<1>1. /\ created \in [Group -> Nat] /\ regressed \in [Group -> Nat]
      /\ timesSeen \in [Group -> Nat]
  BY DEF IssueTypeOK
<1>2. /\ created' = Count(created, g, IsNew(w))
      /\ regressed' = Count(regressed, g, IsRegressed(w))
      /\ timesSeen' = Count(timesSeen, g, timesSeen[g] < MaxSeen)
  BY DEF Upsert
<1> QED BY <1>1, <1>2, CountGrows

----------------------------------------------------------------------------
LEMMA AddAtMostOne ==
  ASSUME NEW S, NEW x, IsFiniteSet(S)
  PROVE  /\ IsFiniteSet(S \cup {x}) /\ Cardinality(S \cup {x}) \in Nat
         /\ Cardinality(S \cup {x}) <= Cardinality(S) + 1
<1>1. Cardinality(S \cup {x}) = IF x \in S THEN Cardinality(S) ELSE Cardinality(S) + 1
  BY FS_AddElement
<1>2. IsFiniteSet(S \cup {x}) /\ Cardinality(S) \in Nat
  BY FS_AddElement, FS_CardinalityType
<1> QED BY <1>1, <1>2

LEMMA UpToIsFinite ==
  ASSUME NEW n \in Nat
  PROVE  IsFiniteSet(1 .. n) /\ Cardinality(1 .. n) = n
<1>1. 1 \in Int /\ n \in Int
  OBVIOUS
<1>2. IsFiniteSet(1 .. n) /\ Cardinality(1 .. n) = IF 1 > n THEN 0 ELSE n - 1 + 1
  BY <1>1, FS_Interval
<1> QED BY <1>2

LEMMA FoldedIsFinite ==
  ASSUME StreamTypeOK, Folded \subseteq Ids, NEW g
  PROVE  /\ IsFiniteSet(FoldedOf(g)) /\ Cardinality(FoldedOf(g)) \in Nat
         /\ Cardinality(FoldedOf(g)) <= Len(entries)
<1>1. FoldedOf(g) \subseteq 1 .. Len(entries) /\ Len(entries) \in Nat
  BY EntriesAreJobs DEF FoldedOf, Ids
<1>2. IsFiniteSet(1 .. Len(entries)) /\ Cardinality(1 .. Len(entries)) = Len(entries)
  BY <1>1, UpToIsFinite
<1> QED BY <1>1, <1>2, FS_Subset, FS_CardinalityType

LEMMA FoldedStep ==
  ASSUME ProcessorInv, RowsAreCounted, [Next]_vars, Uncounted \/ Announcing
  PROVE  RowsAreCounted'
<1> USE DEF ProcessorInv, StreamInv, IssueInv, LocalInv
<1>1. Folded' \subseteq Folded
  BY DEF Uncounted, Announcing, RowsShrink, Folded
<1>2. /\ Ids \subseteq Ids' /\ \A i \in Ids : entries'[i] = entries[i]
      /\ Len(entries') <= MaxEntries
  BY NextKeepsEntries DEF RowsAreCounted
<1>3. ASSUME NEW g \in Group PROVE Cardinality(FoldedOf(g)') <= timesSeen'[g]
  <2>1. FoldedOf(g)' \subseteq FoldedOf(g)
    BY <1>1, <1>2 DEF FoldedOf, RowsAreCounted
  <2>2. IsFiniteSet(FoldedOf(g)) /\ Cardinality(FoldedOf(g)) \in Nat
    BY FoldedIsFinite DEF RowsAreCounted
  <2>3. Cardinality(FoldedOf(g)') <= Cardinality(FoldedOf(g)) /\ Cardinality(FoldedOf(g)') \in Nat
    BY <2>1, <2>2, FS_Subset, FS_CardinalityType
  <2>4. Cardinality(FoldedOf(g)) <= timesSeen[g]
    BY DEF RowsAreCounted
  <2>5. timesSeen'[g] >= timesSeen[g] /\ timesSeen[g] \in Nat
    BY NextIsIssueStep, HistoriesGrow DEF IssueTypeOK
  <2>6. timesSeen'[g] \in Nat
    BY NextIsIssueStep, IssueStepInv DEF IssueTypeOK
  <2> QED BY <2>2, <2>3, <2>4, <2>5, <2>6
<1> QED BY <1>1, <1>2, <1>3 DEF RowsAreCounted

LEMMA FoldingStep ==
  ASSUME MaxEntries <= MaxSeen, ProcessorInv, RowsAreCounted, [Next]_vars, Folding
  PROVE  RowsAreCounted'
<1> USE DEF ProcessorInv, StreamInv, IssueInv, LocalInv
<1>1. PICK w \in Worker, i \in Ids :
        /\ Upsert(w)
        /\ tx[w].group = entries[i].group
        /\ UNCHANGED stored
        /\ \A v \in Worker \ {w} : rows'[v] = rows[v]
        /\ rows'[w]["errors"] \subseteq rows[w]["errors"] \cup {i}
  BY DEF Folding
<1>2. Folded' \subseteq Folded \cup {i}
  BY <1>1 DEF Folded
<1>3. /\ Ids \subseteq Ids' /\ \A j \in Ids : entries'[j] = entries[j]
      /\ Len(entries') <= MaxEntries
  BY NextKeepsEntries DEF RowsAreCounted
<1>4. Folded' \subseteq Ids /\ Folded' \subseteq Ids'
  BY <1>2, <1>3 DEF RowsAreCounted
<1>5. StreamTypeOK' /\ IssueTypeOK'
  BY NextKeepsStream, NextIsIssueStep, IssueStepInv
<1>6. ASSUME NEW g \in Group PROVE Cardinality(FoldedOf(g)') <= timesSeen'[g]
  <2>1. /\ Cardinality(FoldedOf(g)) <= timesSeen[g]
        /\ IsFiniteSet(FoldedOf(g)) /\ Cardinality(FoldedOf(g)) \in Nat
    BY FoldedIsFinite DEF RowsAreCounted
  <2>2. /\ timesSeen'[g] >= timesSeen[g]
        /\ timesSeen[g] \in Nat /\ timesSeen'[g] \in Nat
    BY <1>5, NextIsIssueStep, HistoriesGrow DEF IssueTypeOK
  <2>3. CASE g # entries[i].group
    <3>1. FoldedOf(g)' \subseteq FoldedOf(g)
      BY <1>2, <1>3, <1>4, <2>3 DEF FoldedOf
    <3>2. /\ Cardinality(FoldedOf(g)') <= Cardinality(FoldedOf(g))
          /\ Cardinality(FoldedOf(g)') \in Nat
      BY <2>1, <3>1, FS_Subset, FS_CardinalityType
    <3> QED BY <2>1, <2>2, <3>2
  <2>4. CASE g = entries[i].group /\ timesSeen[g] < MaxSeen
    <3>1. FoldedOf(g)' \subseteq FoldedOf(g) \cup {i}
      <4>1. ASSUME NEW j \in FoldedOf(g)' PROVE j = i \/ j \in FoldedOf(g)
        <5>1. j \in Folded' /\ entries'[j].group = g
          BY DEF FoldedOf
        <5>2. entries'[j] = entries[j] /\ (j \in Folded \/ j = i)
          BY <1>2, <1>3, <1>4, <5>1
        <5> QED BY <5>1, <5>2 DEF FoldedOf
      <4> QED BY <4>1
    <3>2. /\ IsFiniteSet(FoldedOf(g) \cup {i})
          /\ Cardinality(FoldedOf(g) \cup {i}) <= Cardinality(FoldedOf(g)) + 1
          /\ Cardinality(FoldedOf(g) \cup {i}) \in Nat
      BY <2>1, AddAtMostOne
    <3>3. /\ Cardinality(FoldedOf(g)') <= Cardinality(FoldedOf(g) \cup {i})
          /\ Cardinality(FoldedOf(g)') \in Nat
      BY <3>1, <3>2, FS_Subset, FS_CardinalityType
    <3>4. timesSeen'[g] = timesSeen[g] + 1
      BY <1>1, <2>4, UpsertAdds
    <3> QED BY <2>1, <2>2, <3>2, <3>3, <3>4
  <2>5. CASE timesSeen[g] >= MaxSeen
    <3>1. FoldedOf(g)' \subseteq 1 .. Len(entries')
      BY <1>4 DEF FoldedOf, Ids
    <3>2. Len(entries') \in Nat
      BY <1>5, LenProperties DEF StreamTypeOK
    <3>3. Cardinality(FoldedOf(g)') <= Len(entries') /\ Cardinality(FoldedOf(g)') \in Nat
      BY <3>1, <3>2, UpToIsFinite, FS_Subset, FS_CardinalityType
    <3> QED BY <1>3, <2>2, <2>5, <3>2, <3>3, StreamAssumption, IssueAssumption
  <2> QED BY <2>2, <2>3, <2>4, <2>5, IssueAssumption
<1> QED BY <1>3, <1>4, <1>6 DEF RowsAreCounted

LEMMA FoldedInit == Init /\ ProcessorInv => RowsAreCounted
<1> SUFFICES ASSUME Init, ProcessorInv PROVE RowsAreCounted
  OBVIOUS
<1>1. stored["errors"] = {} /\ \A w \in Worker : rows[w]["errors"] = {}
  BY DEF Init, ProcessorInit, NoRows, Tables
<1>2. Folded = {}
  BY <1>1 DEF Folded
<1>3. Len(entries) = 0
  BY EmptySeq, LenProperties DEF Init, StreamInit
<1>4. \A g : Cardinality(FoldedOf(g)) = 0
  BY <1>2, FS_EmptySet DEF FoldedOf
<1>5. \A g \in Group : timesSeen[g] = 0
  BY DEF Init, IssueInit
<1> QED BY <1>2, <1>3, <1>4, <1>5, StreamAssumption DEF RowsAreCounted

LEMMA OpenTxInit == Init => OpenTxIsCurrent
BY DEF Init, IssueInit, OpenTxIsCurrent

\* times_seen never falls short of the rows of the group in ClickHouse: a row
\* is collected only once its upsert has committed (processor.go:159-181).
\* The hypothesis says that the model's bound on times_seen, a BIGINT in the
\* schema, is not what stops it from counting.
THEOREM TimesSeenIsEnough ==
  ASSUME MaxEntries <= MaxSeen
  PROVE  Spec => []TimesSeenCoversRows
<1>1. Init /\ ProcessorInv => OpenTxIsCurrent /\ RowsAreCounted
  BY OpenTxInit, FoldedInit
<1>2. ProcessorInv /\ OpenTxIsCurrent /\ RowsAreCounted /\ [Next]_vars
        => OpenTxIsCurrent' /\ RowsAreCounted'
  BY OpenTxStepInv, NextCounts, FoldedStep, FoldingStep
<1>3. ProcessorInv /\ RowsAreCounted => TimesSeenCoversRows
  <2> SUFFICES ASSUME ProcessorInv, RowsAreCounted, NEW g \in Group
               PROVE  Cardinality({i \in stored["errors"] : entries[i].group = g}) <= timesSeen[g]
    BY DEF TimesSeenCoversRows
  <2>1. {i \in stored["errors"] : entries[i].group = g} \subseteq FoldedOf(g)
    BY DEF FoldedOf, Folded
  <2>2. IsFiniteSet(FoldedOf(g)) /\ Cardinality(FoldedOf(g)) \in Nat
    BY FoldedIsFinite DEF ProcessorInv, StreamInv, RowsAreCounted
  <2>3. /\ Cardinality({i \in stored["errors"] : entries[i].group = g}) <= Cardinality(FoldedOf(g))
        /\ Cardinality({i \in stored["errors"] : entries[i].group = g}) \in Nat
    BY <2>1, <2>2, FS_Subset, FS_CardinalityType
  <2>4. Cardinality(FoldedOf(g)) <= timesSeen[g] /\ timesSeen[g] \in Nat
    BY DEF RowsAreCounted, ProcessorInv, IssueInv, IssueTypeOK
  <2> QED BY <2>2, <2>3, <2>4
<1> QED BY <1>1, <1>2, <1>3, ProcessorInvariant, PTL DEF Spec
----------------------------------------------------------------------------
LEMMA WaitingElements ==
  ASSUME NEW kind, NEW g
  PROVE  \A p : p \in Waiting(kind, g) <=>
           \E v \in Worker : \E n \in DOMAIN signals[v] :
             p = <<v, n>> /\ IsSignal(signals[v][n], kind, g)
BY DEF Waiting

LEMMA AlertsAreFinite ==
  ASSUME alerts \in Seq(Signal), NEW kind, NEW g
  PROVE  IsFiniteSet(AlertsOf(kind, g)) /\ Cardinality(AlertsOf(kind, g)) \in Nat
<1>1. AlertsOf(kind, g) \subseteq 1 .. Len(alerts) /\ Len(alerts) \in Nat
  BY LenProperties DEF AlertsOf
<1> QED BY <1>1, UpToIsFinite, FS_Subset, FS_CardinalityType

LEMMA DetectedIsNat ==
  ASSUME IssueTypeOK, NEW kind, NEW g \in Group
  PROVE  Detected(kind)[g] \in Nat
BY DEF Detected, IssueTypeOK

LEMMA TwoSingletons ==
  ASSUME NEW a, NEW b
  PROVE  \A n \in DOMAIN (<<a>> \o <<b>>) :
           \/ n = 1 /\ (<<a>> \o <<b>>)[n] = a
           \/ n = 2 /\ (<<a>> \o <<b>>)[n] = b
<1>1. <<a>> \in Seq({a, b}) /\ <<b>> \in Seq({a, b}) /\ Len(<<a>>) = 1 /\ Len(<<b>>) = 1
  OBVIOUS
<1>2. /\ DOMAIN (<<a>> \o <<b>>) = 1 .. 1 + 1
      /\ \A n \in 1 .. 1 + 1 : (<<a>> \o <<b>>)[n] = IF n <= 1 THEN <<a>>[n] ELSE <<b>>[n - 1]
  BY <1>1, ConcatProperties, LenProperties
<1> QED BY <1>2

\* An upsert reports at most one signal of a kind, about the group it is of.
LEMMA SignalsOfKind ==
  ASSUME NEW w \in Worker, NEW i \in Nat, entries[i] \in Job,
         NEW kind \in SignalKind, NEW g \in Group
  PROVE  \E m \in Nat : \A n \in DOMAIN SignalsOf(w, i) :
           IsSignal(SignalsOf(w, i)[n], kind, g) =>
             /\ n = m /\ g = entries[i].group
             /\ \/ kind = "new_issue" /\ IsNew(w)
                \/ kind = "regression" /\ IsRegressed(w)
<1> DEFINE signal(k) == [kind |-> k, group |-> entries[i].group, id |-> i]
<1>1. signal("new_issue") \in Signal /\ signal("regression") \in Signal
  BY DEF Signal, Job
<1>2. CASE IsNew(w) /\ IsRegressed(w)
  <2>1. SignalsOf(w, i) = <<signal("new_issue")>> \o <<signal("regression")>>
    BY <1>2 DEF SignalsOf
  <2>2. \A n \in DOMAIN SignalsOf(w, i) :
           \/ n = 1 /\ SignalsOf(w, i)[n] = signal("new_issue")
           \/ n = 2 /\ SignalsOf(w, i)[n] = signal("regression")
    <3> HIDE DEF signal
    <3> QED BY <2>1, TwoSingletons
  <2> QED BY <1>2, <2>2 DEF IsSignal, SignalKind
<1>3. CASE IsNew(w) /\ ~IsRegressed(w)
  <2>1. SignalsOf(w, i) = <<signal("new_issue")>>
    BY <1>3 DEF SignalsOf
  <2>2. \A n \in DOMAIN SignalsOf(w, i) : n = 1 /\ SignalsOf(w, i)[n] = signal("new_issue")
    BY <2>1
  <2> QED BY <1>3, <2>2 DEF IsSignal, SignalKind
<1>4. CASE ~IsNew(w) /\ IsRegressed(w)
  <2>1. SignalsOf(w, i) = <<signal("regression")>>
    BY <1>4 DEF SignalsOf
  <2>2. \A n \in DOMAIN SignalsOf(w, i) : n = 1 /\ SignalsOf(w, i)[n] = signal("regression")
    BY <2>1
  <2> QED BY <1>4, <2>2 DEF IsSignal, SignalKind
<1>5. CASE ~IsNew(w) /\ ~IsRegressed(w)
  <2>1. SignalsOf(w, i) = <<>>
    BY <1>5 DEF SignalsOf
  <2> QED BY <2>1
<1> QED BY <1>2, <1>3, <1>4, <1>5

LEMMA UncountedSignals ==
  ASSUME ProcessorInv, SignalsAreCounted, [Next]_vars, Uncounted
  PROVE  SignalsAreCounted'
<1> USE DEF ProcessorInv, StreamInv, IssueInv, LocalInv
<1> SUFFICES ASSUME NEW kind \in SignalKind, NEW g \in Group
             PROVE  /\ IsFiniteSet(Waiting(kind, g)')
                    /\ Cardinality(AlertsOf(kind, g)') + Cardinality(Waiting(kind, g)')
                         <= Detected(kind)'[g]
  BY DEF SignalsAreCounted
<1>1. /\ IsFiniteSet(Waiting(kind, g))
      /\ Cardinality(AlertsOf(kind, g)) + Cardinality(Waiting(kind, g)) <= Detected(kind)[g]
  BY DEF SignalsAreCounted
<1>2. Waiting(kind, g)' \subseteq Waiting(kind, g)
  <2>1. DOMAIN <<>> = {}
    OBVIOUS
  <2>2. \A v \in Worker : signals'[v] = signals[v] \/ DOMAIN signals'[v] = {}
    BY <2>1 DEF Uncounted, SignalsDrop
  <2> QED BY <2>2 DEF Waiting
<1>3. AlertsOf(kind, g)' = AlertsOf(kind, g)
  BY DEF Uncounted, AlertsOf
<1>4. /\ IsFiniteSet(Waiting(kind, g)') /\ Cardinality(Waiting(kind, g)') \in Nat
      /\ Cardinality(Waiting(kind, g)') <= Cardinality(Waiting(kind, g))
      /\ Cardinality(Waiting(kind, g)) \in Nat
  BY <1>1, <1>2, FS_Subset, FS_CardinalityType
<1>5. Detected(kind)'[g] >= Detected(kind)[g]
  BY NextIsIssueStep, HistoriesGrow DEF Detected
<1>6. Detected(kind)'[g] \in Nat /\ Detected(kind)[g] \in Nat
  BY NextIsIssueStep, IssueStepInv DEF Detected, IssueTypeOK
<1>7. Cardinality(AlertsOf(kind, g)) \in Nat
  BY AlertsAreFinite DEF OutputTypeOK
<1> QED BY <1>1, <1>3, <1>4, <1>5, <1>6, <1>7

LEMMA FoldingSignals ==
  ASSUME ProcessorInv, SignalsAreCounted, [Next]_vars, Folding
  PROVE  SignalsAreCounted'
<1> USE DEF ProcessorInv, StreamInv, IssueInv, LocalInv
<1> SUFFICES ASSUME NEW kind \in SignalKind, NEW g \in Group
             PROVE  /\ IsFiniteSet(Waiting(kind, g)')
                    /\ Cardinality(AlertsOf(kind, g)') + Cardinality(Waiting(kind, g)')
                         <= Detected(kind)'[g]
  BY DEF SignalsAreCounted
<1>1. PICK w \in Worker, i \in Ids :
        /\ Upsert(w)
        /\ tx[w].group = entries[i].group
        /\ UNCHANGED alerts
        /\ \A v \in Worker \ {w} : signals'[v] = signals[v]
        /\ signals'[w] \in {signals[w] \o SignalsOf(w, i), <<>>}
  BY DEF Folding
<1>2. /\ IsFiniteSet(Waiting(kind, g)) /\ Cardinality(Waiting(kind, g)) \in Nat
      /\ Cardinality(AlertsOf(kind, g)) + Cardinality(Waiting(kind, g)) <= Detected(kind)[g]
      /\ Cardinality(AlertsOf(kind, g)) \in Nat
  BY AlertsAreFinite, FS_CardinalityType DEF SignalsAreCounted, OutputTypeOK
<1>3. AlertsOf(kind, g)' = AlertsOf(kind, g)
  BY <1>1 DEF AlertsOf
<1>4. /\ Detected(kind)'[g] >= Detected(kind)[g]
      /\ Detected(kind)'[g] \in Nat /\ Detected(kind)[g] \in Nat
  <2>1. Detected(kind)'[g] >= Detected(kind)[g]
    BY NextIsIssueStep, HistoriesGrow DEF Detected
  <2>2. Detected(kind)'[g] \in Nat /\ Detected(kind)[g] \in Nat
    BY NextIsIssueStep, IssueStepInv DEF Detected, IssueTypeOK
  <2> QED BY <2>1, <2>2
<1>5. i \in Nat /\ entries[i] \in Job
  BY EntriesAreJobs
<1>6. PICK m \in Nat : \A n \in DOMAIN SignalsOf(w, i) :
        IsSignal(SignalsOf(w, i)[n], kind, g) =>
          /\ n = m /\ g = entries[i].group
          /\ \/ kind = "new_issue" /\ IsNew(w)
             \/ kind = "regression" /\ IsRegressed(w)
  BY <1>5, SignalsOfKind
<1> DEFINE p == <<w, Len(signals[w]) + m>>
<1>7. PICK more \in Seq(Signal) : more = SignalsOf(w, i)
  BY <1>5, SignalsOfType
<1>8. /\ signals[w] \in Seq(Signal)
      /\ Len(signals[w]) \in Nat /\ DOMAIN signals[w] = 1 .. Len(signals[w])
      /\ Len(more) \in Nat /\ DOMAIN more = 1 .. Len(more)
  BY LenProperties DEF WorkerTypeOK
<1>9. \A n \in DOMAIN signals'[w] :
        \/ n \in DOMAIN signals[w] /\ signals'[w][n] = signals[w][n]
        \/ /\ n - Len(signals[w]) \in DOMAIN more
           /\ signals'[w][n] = more[n - Len(signals[w])]
  <2>1. CASE signals'[w] = <<>>
    BY <2>1
  <2>2. CASE signals'[w] = signals[w] \o more
    <3>1. /\ DOMAIN (signals[w] \o more) = 1 .. Len(signals[w]) + Len(more)
          /\ \A n \in 1 .. Len(signals[w]) + Len(more) :
               (signals[w] \o more)[n] =
                 IF n <= Len(signals[w]) THEN signals[w][n] ELSE more[n - Len(signals[w])]
      BY <1>8, ConcatProperties, LenProperties
    <3> QED BY <1>8, <2>2, <3>1
  <2> QED BY <1>1, <1>7, <2>1, <2>2
<1>10. ASSUME NEW q \in Waiting(kind, g)'
       PROVE  \/ q \in Waiting(kind, g)
              \/ /\ q = p /\ g = entries[i].group
                 /\ \/ kind = "new_issue" /\ IsNew(w)
                    \/ kind = "regression" /\ IsRegressed(w)
  <2>1. PICK v \in Worker : \E n \in DOMAIN signals'[v] :
          q = <<v, n>> /\ IsSignal(signals'[v][n], kind, g)
    BY DEF Waiting, IsSignal
  <2>2. PICK n \in DOMAIN signals'[v] : q = <<v, n>> /\ IsSignal(signals'[v][n], kind, g)
    BY <2>1
  <2>3. CASE n \in DOMAIN signals[v] /\ signals'[v][n] = signals[v][n]
    BY <2>2, <2>3, WaitingElements
  <2>4. CASE v = w /\ n - Len(signals[w]) \in DOMAIN more
               /\ signals'[w][n] = more[n - Len(signals[w])]
    <3>1. PICK d \in DOMAIN more : d = n - Len(signals[w])
      BY <2>4
    <3>2. IsSignal(more[d], kind, g)
      BY <2>2, <2>4, <3>1
    <3>3. /\ d = m /\ g = entries[i].group
          /\ \/ kind = "new_issue" /\ IsNew(w)
             \/ kind = "regression" /\ IsRegressed(w)
      BY <1>6, <1>7, <3>2
    <3>4. n = Len(signals[w]) + m
      <4>1. n \in Nat
        <5>1. signals'[w] \in Seq(Signal)
          <6>1. signals[w] \o more \in Seq(Signal) /\ <<>> \in Seq(Signal)
            BY <1>8, ConcatProperties, EmptySeq
          <6> QED BY <1>1, <1>7, <6>1
        <5> QED BY <2>4, <5>1, LenProperties
      <4> QED BY <1>8, <3>1, <3>3, <4>1
    <3> QED BY <2>2, <2>4, <3>3, <3>4
  <2>5. v # w => n \in DOMAIN signals[v] /\ signals'[v][n] = signals[v][n]
    BY <1>1
  <2> QED BY <1>9, <2>3, <2>4, <2>5
<1> HIDE DEF p
<1>11. CASE Waiting(kind, g)' \subseteq Waiting(kind, g)
  <2>1. /\ IsFiniteSet(Waiting(kind, g)') /\ Cardinality(Waiting(kind, g)') \in Nat
        /\ Cardinality(Waiting(kind, g)') <= Cardinality(Waiting(kind, g))
    BY <1>2, <1>11, FS_Subset, FS_CardinalityType
  <2> QED BY <1>2, <1>3, <1>4, <2>1
<1>12. CASE ~(Waiting(kind, g)' \subseteq Waiting(kind, g))
  <2>1. /\ g = entries[i].group
        /\ \/ kind = "new_issue" /\ IsNew(w)
           \/ kind = "regression" /\ IsRegressed(w)
    BY <1>10, <1>12
  <2>2. Waiting(kind, g)' \subseteq Waiting(kind, g) \cup {p}
    BY <1>10
  <2>3. /\ IsFiniteSet(Waiting(kind, g) \cup {p})
        /\ Cardinality(Waiting(kind, g) \cup {p}) <= Cardinality(Waiting(kind, g)) + 1
        /\ Cardinality(Waiting(kind, g) \cup {p}) \in Nat
    BY <1>2, AddAtMostOne
  <2>4. /\ IsFiniteSet(Waiting(kind, g)') /\ Cardinality(Waiting(kind, g)') \in Nat
        /\ Cardinality(Waiting(kind, g)') <= Cardinality(Waiting(kind, g) \cup {p})
    BY <2>2, <2>3, FS_Subset, FS_CardinalityType
  <2>5. Detected(kind)'[g] = Detected(kind)[g] + 1
    BY <1>1, <2>1, UpsertAdds DEF Detected
  <2> QED BY <1>2, <1>3, <1>4, <2>3, <2>4, <2>5
<1> QED BY <1>11, <1>12
\* Published signals go from a worker's memory to the stream, none of them twice.
LEMMA AnnouncingSignals ==
  ASSUME ProcessorInv, SignalsAreCounted, Announcing
  PROVE  SignalsAreCounted'
<1> USE DEF ProcessorInv, StreamInv, IssueInv, LocalInv
<1> SUFFICES ASSUME NEW kind \in SignalKind, NEW g \in Group
             PROVE  /\ IsFiniteSet(Waiting(kind, g)')
                    /\ Cardinality(AlertsOf(kind, g)') + Cardinality(Waiting(kind, g)')
                         <= Detected(kind)'[g]
  BY DEF SignalsAreCounted
<1>0. PICK w \in Worker : \E k \in 0 .. Len(signals[w]) :
        /\ alerts' = alerts \o SubSeq(signals[w], 1, k)
        /\ signals' = [signals EXCEPT ![w] = <<>>]
  BY DEF Announcing
<1>1. PICK k \in 0 .. Len(signals[w]) :
        /\ alerts' = alerts \o SubSeq(signals[w], 1, k)
        /\ signals' = [signals EXCEPT ![w] = <<>>]
  BY <1>0
<1>2. signals \in [Worker -> Seq(Signal)] /\ signals[w] \in Seq(Signal) /\ alerts \in Seq(Signal)
  BY DEF WorkerTypeOK, OutputTypeOK
<1>3. /\ Len(signals[w]) \in Nat /\ DOMAIN signals[w] = 1 .. Len(signals[w])
      /\ Len(alerts) \in Nat /\ DOMAIN alerts = 1 .. Len(alerts)
      /\ \A n \in 1 .. Len(signals[w]) : signals[w][n] \in Signal
  BY <1>2, LenProperties, ElementOfSeq
<1>4. PICK more \in Seq(Signal) :
        /\ more = SubSeq(signals[w], 1, k) /\ Len(more) = k
        /\ \A n \in 1 .. k : more[n] = signals[w][n]
  <2>1. k \in Nat /\ \A n \in 1 .. k : signals[w][n] \in Signal
    BY <1>3
  <2>2. /\ SubSeq(signals[w], 1, k) \in Seq(Signal)
        /\ Len(SubSeq(signals[w], 1, k)) = IF 1 <= k THEN k - 1 + 1 ELSE 0
        /\ \A n \in 1 .. k - 1 + 1 : SubSeq(signals[w], 1, k)[n] = signals[w][1 + n - 1]
    BY <2>1, SubSeqProperties
  <2>3. Len(SubSeq(signals[w], 1, k)) = k
    BY <2>1, <2>2
  <2>4. \A n \in 1 .. k : SubSeq(signals[w], 1, k)[n] = signals[w][n]
    BY <2>1, <2>2
  <2> QED BY <2>2, <2>3, <2>4
<1>5. /\ DOMAIN alerts' = 1 .. Len(alerts) + k
      /\ \A n \in 1 .. Len(alerts) + k :
           alerts'[n] = IF n <= Len(alerts) THEN alerts[n] ELSE signals[w][n - Len(alerts)]
  <2>1. /\ alerts \o more \in Seq(Signal)
        /\ Len(alerts \o more) = Len(alerts) + k
        /\ \A n \in 1 .. Len(alerts) + k :
             (alerts \o more)[n] = IF n <= Len(alerts) THEN alerts[n] ELSE more[n - Len(alerts)]
    BY <1>2, <1>3, <1>4, ConcatProperties, LenProperties
  <2>2. alerts' = alerts \o more /\ DOMAIN alerts' = 1 .. Len(alerts) + k
    BY <1>1, <1>4, <2>1, LenProperties
  <2>3. ASSUME NEW n \in 1 .. Len(alerts) + k
        PROVE  alerts'[n] = IF n <= Len(alerts) THEN alerts[n] ELSE signals[w][n - Len(alerts)]
    <3>1. n > Len(alerts) => n - Len(alerts) \in 1 .. k
      BY <1>3
    <3>2. alerts'[n] = IF n <= Len(alerts) THEN alerts[n] ELSE more[n - Len(alerts)]
      BY <2>1, <2>2
    <3> QED BY <1>3, <1>4, <3>1, <3>2
  <2> QED BY <2>2, <2>3
<1>6. PICK held : held = {p \in Waiting(kind, g) : p[1] = w}
  OBVIOUS
<1>7. PICK added : added = AlertsOf(kind, g)' \ AlertsOf(kind, g)
  OBVIOUS
<1>8. /\ IsFiniteSet(Waiting(kind, g)) /\ Cardinality(Waiting(kind, g)) \in Nat
      /\ Cardinality(AlertsOf(kind, g)) + Cardinality(Waiting(kind, g)) <= Detected(kind)[g]
      /\ IsFiniteSet(AlertsOf(kind, g)) /\ Cardinality(AlertsOf(kind, g)) \in Nat
  BY <1>2, AlertsAreFinite, FS_CardinalityType DEF SignalsAreCounted
<1>9. IsFiniteSet(held) /\ Cardinality(held) \in Nat /\ held \subseteq Waiting(kind, g)
  BY <1>6, <1>8, FS_Subset, FS_CardinalityType
<1>10. Waiting(kind, g)' \subseteq Waiting(kind, g) \ held
  <2>1. ASSUME NEW p \in Waiting(kind, g)' PROVE p \in Waiting(kind, g) \ held
    <3>1. PICK v \in Worker : \E n \in DOMAIN signals'[v] :
            p = <<v, n>> /\ IsSignal(signals'[v][n], kind, g)
      BY DEF Waiting, IsSignal
    <3>2. v # w /\ signals'[v] = signals[v]
      <4>1. DOMAIN <<>> = {}
        OBVIOUS
      <4> QED BY <1>1, <1>2, <3>1, <4>1
    <3>3. p \in Waiting(kind, g) /\ p[1] # w
      BY <3>1, <3>2, WaitingElements
    <3> QED BY <1>6, <3>3
  <2> QED BY <2>1
<1>11. /\ IsFiniteSet(Waiting(kind, g)') /\ Cardinality(Waiting(kind, g)') \in Nat
       /\ Cardinality(Waiting(kind, g)') <= Cardinality(Waiting(kind, g)) - Cardinality(held)
  <2>1. Waiting(kind, g) \cap held = held
    BY <1>9
  <2>2. /\ IsFiniteSet(Waiting(kind, g) \ held)
        /\ Cardinality(Waiting(kind, g) \ held) = Cardinality(Waiting(kind, g)) - Cardinality(held)
    BY <1>8, <2>1, FS_Difference
  <2> QED BY <1>10, <2>2, FS_Subset, FS_CardinalityType
<1>12. /\ AlertsOf(kind, g)' = AlertsOf(kind, g) \cup added
       /\ AlertsOf(kind, g) \cap added = {}
  <2>1. AlertsOf(kind, g) \subseteq AlertsOf(kind, g)'
    BY <1>3, <1>5 DEF AlertsOf
  <2> QED BY <1>7, <2>1
<1>13. IsFiniteSet(added) /\ Cardinality(added) \in Nat /\ Cardinality(added) <= Cardinality(held)
  <2>1. PICK f : f = [n \in added |-> <<w, n - Len(alerts)>>]
    OBVIOUS
  <2>2. ASSUME NEW n \in added
        PROVE  n \in Nat /\ <<w, n - Len(alerts)>> \in held
    <3>1. /\ n \in 1 .. Len(alerts) + k /\ IsSignal(alerts'[n], kind, g)
          /\ n \notin AlertsOf(kind, g)
      BY <1>5, <1>7 DEF AlertsOf, IsSignal
    <3>2. n > Len(alerts)
      BY <1>3, <1>5, <3>1 DEF AlertsOf, IsSignal
    <3>3. n - Len(alerts) \in DOMAIN signals[w] /\ alerts'[n] = signals[w][n - Len(alerts)]
      BY <1>3, <1>5, <3>1, <3>2
    <3>4. <<w, n - Len(alerts)>> \in Waiting(kind, g)
      BY <3>1, <3>3, WaitingElements
    <3> QED BY <1>3, <1>6, <3>1, <3>4
  <2>3. f \in [added -> held]
    BY <2>1, <2>2
  <2>4. ASSUME NEW m \in added, NEW n \in added, f[m] = f[n] PROVE m = n
    <3>1. m - Len(alerts) = n - Len(alerts)
      BY <2>1, <2>4
    <3>2. m \in Nat /\ n \in Nat
      BY <2>2
    <3> QED BY <1>3, <3>1, <3>2
  <2>5. f \in Injection(added, held)
    BY <2>3, <2>4 DEF Injection, IsInjective
  <2> QED BY <1>9, <2>5, FS_Injection, FS_CardinalityType
<1>14. Cardinality(AlertsOf(kind, g)') = Cardinality(AlertsOf(kind, g)) + Cardinality(added)
  <2>1. Cardinality(AlertsOf(kind, g) \cap added) = 0
    BY <1>12, FS_EmptySet
  <2>2. Cardinality(AlertsOf(kind, g) \cup added) =
          Cardinality(AlertsOf(kind, g)) + Cardinality(added)
            - Cardinality(AlertsOf(kind, g) \cap added)
    BY <1>8, <1>13, FS_Union
  <2> QED BY <1>8, <1>12, <1>13, <2>1, <2>2
<1>15. Detected(kind)'[g] = Detected(kind)[g] /\ Detected(kind)[g] \in Nat
  BY DetectedIsNat DEF Announcing, issueVars, Detected
<1> QED BY <1>8, <1>9, <1>11, <1>13, <1>14, <1>15

LEMMA SignalsInit == Init => SignalsAreCounted
<1> SUFFICES ASSUME Init, NEW kind \in SignalKind, NEW g \in Group
             PROVE  /\ IsFiniteSet(Waiting(kind, g))
                    /\ Cardinality(AlertsOf(kind, g)) + Cardinality(Waiting(kind, g))
                         <= Detected(kind)[g]
  BY DEF SignalsAreCounted
<1>1. DOMAIN <<>> = {}
  OBVIOUS
<1>2. AlertsOf(kind, g) = {} /\ Waiting(kind, g) = {}
  BY <1>1 DEF Init, ProcessorInit, AlertsOf, Waiting
<1>3. Detected(kind)[g] = 0
  BY DEF Init, IssueInit, Detected
<1> QED BY <1>2, <1>3, FS_EmptySet

\* A signal on the alert stream, or on its way to it, was reported by an
\* upsert, and every report is announced at most once, however often messages
\* are redelivered or handled twice (processor.go:159-208).
THEOREM SignalsAreReports == Spec => []SignalsAreCounted
<1>1. Init => OpenTxIsCurrent /\ SignalsAreCounted
  BY OpenTxInit, SignalsInit
<1>2. ProcessorInv /\ OpenTxIsCurrent /\ SignalsAreCounted /\ [Next]_vars
        => OpenTxIsCurrent' /\ SignalsAreCounted'
  BY OpenTxStepInv, NextCounts, UncountedSignals, AnnouncingSignals, FoldingSignals
<1> QED BY <1>1, <1>2, ProcessorInvariant, PTL DEF Spec

\* The alert stream carries at most one new-issue signal per group and one
\* regression signal per resolve (processor.go:159-181, issues.go:84-86).
THEOREM AlertsAreNotRepeated == Spec => []NoDuplicateAlerts
<1>1. ProcessorInv /\ SignalsAreCounted => NoDuplicateAlerts
  <2> SUFFICES ASSUME ProcessorInv, SignalsAreCounted, NEW g \in Group
               PROVE  /\ Cardinality(AlertsOf("new_issue", g)) <= 1
                      /\ Cardinality(AlertsOf("regression", g)) <= resolved[g]
    BY DEF NoDuplicateAlerts
  <2> USE DEF ProcessorInv, IssueInv, LocalInv
  <2>1. ASSUME NEW kind \in SignalKind
        PROVE  /\ Cardinality(AlertsOf(kind, g)) \in Nat
               /\ Cardinality(AlertsOf(kind, g)) <= Detected(kind)[g]
               /\ Detected(kind)[g] \in Nat
    <3>1. IsFiniteSet(Waiting(kind, g))
          /\ Cardinality(AlertsOf(kind, g)) + Cardinality(Waiting(kind, g)) <= Detected(kind)[g]
      BY DEF SignalsAreCounted
    <3> QED BY <3>1, AlertsAreFinite, DetectedIsNat, FS_CardinalityType DEF OutputTypeOK
  <2>2. created[g] <= 1
    BY DEF NewOnce
  <2>3. regressed[g] <= resolved[g] /\ resolved[g] \in Nat /\ regressed[g] \in Nat
    BY DEF OpenResolves, IssueTypeOK
  <2>4. /\ Cardinality(AlertsOf("new_issue", g)) <= created[g]
        /\ Cardinality(AlertsOf("regression", g)) <= regressed[g]
        /\ Cardinality(AlertsOf("new_issue", g)) \in Nat
        /\ Cardinality(AlertsOf("regression", g)) \in Nat
        /\ created[g] \in Nat
    BY <2>1 DEF SignalKind, Detected
  <2> QED BY <2>2, <2>3, <2>4
<1> QED BY <1>1, SignalsAreReports, ProcessorInvariant, PTL

\* In the whole system too: whatever workers, crashes and people do, an occurrence
\* that reopens an issue unreported was overtaken by its creation and resolution
\* (issues.go:26-27, 84-89).
THEOREM ProcessorReopensSilentlyIfOvertaken == Spec => OnlyTheOvertakenAreSilent
BY ProcessorImplementsIssueStore, OnlyOvertakenReopeningsAreSilent, PTL
=============================================================================
