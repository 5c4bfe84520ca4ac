------------------------------ MODULE Alerter ------------------------------
(***************************************************************************)
(* The alerter (cmd/alerter, internal/alert): replicas that read the       *)
(* stream "sabab:alerts" through one consumer group and, on timers,        *)
(* evaluate frequency and metric rules.  Each has three goroutines.  The   *)
(* signal loop consumes a batch, handles its signals in order and          *)
(* acknowledges those that were handled.  The timers compute targets that  *)
(* exceed a threshold.  All of them page through fire: claim, then, if     *)
(* the claim was won, dispatch to the rule's channels.                     *)
(***************************************************************************)
EXTENDS RedisStream, AlertThrottle

CONSTANTS
  AlertFaults,     \* which calls may fail, and whether replicas may crash
  MaxAlertFaults,  \* bound of the model: faults that happen
  MaxPasses        \* bound of the model: passes of the timers that find a target

VARIABLES
  stage,     \* where each replica's signal loop stands
  batch,     \* ids of its batch not yet handled
  handled,   \* ids of its batch it will acknowledge
  work,      \* per goroutine: the keys it still has to fire
  page,      \* per goroutine: the history row it won and has not dispatched, or 0
  paged,     \* history rows that were dispatched
  looked,    \* history: ids whose rules were loaded
  owed,      \* history: the keys each id was to fire, and when it was loaded
  skipped,   \* history: keys whose claim failed, with the id
  broken,    \* faults so far
  passes     \* passes so far

loopVars == <<stage, batch, handled>>
fireVars == <<work, page, paged>>
noteVars == <<looked, owed, skipped>>
counters == <<broken, passes>>
alertVars == <<streamVars, throttleVars, loopVars, fireVars, noteVars, counters>>

(***************************************************************************)
(* A signal: the issue it is about, and the rules of its kind whose        *)
(* conditions it meets and that have channels.  An unreadable one does not *)
(* decode.                                                                 *)
(***************************************************************************)
AlertSignal ==
  [issue : Issue, matches : SUBSET {r \in Rule : KindOf[r] = "signal"}, readable : BOOLEAN]

ASSUME AlerterAssumption ==
  /\ Body \subseteq AlertSignal
  /\ AlertFaults \subseteq {"crash", "load", "claim", "send", "ack"}
  /\ MaxAlertFaults \in Nat
  /\ MaxPasses \in Nat

Breaks(what) ==
  /\ what \in AlertFaults
  /\ broken < MaxAlertFaults
  /\ broken' = broken + 1
  /\ UNCHANGED passes

Loop(w) == <<w, "signal">>

AlertInit ==
  /\ StreamInit
  /\ ThrottleInit
  /\ stage = [w \in Replica |-> "poll"]
  /\ batch = [w \in Replica |-> {}]
  /\ handled = [w \in Replica |-> {}]
  /\ work = [t \in Thread |-> {}]
  /\ page = [t \in Thread |-> 0]
  /\ paged = {}
  /\ looked = {}
  /\ owed = {}
  /\ skipped = {}
  /\ broken = 0
  /\ passes = 0

----------------------------------------------------------------------------
\* consumeSignals.
ConsumeSignals(w) ==
  /\ stage[w] = "poll"
  /\ Read
  /\ stage' = [stage EXCEPT ![w] = "load"]
  /\ batch' = [batch EXCEPT ![w] = NextBatch]
  /\ UNCHANGED <<throttleVars, handled, fireVars, noteVars, counters>>

FirstOf(w, i) == i \in batch[w] /\ \A j \in batch[w] : i <= j

\* Signal i is done with; it is acknowledged when ids say so.
NextSignal(w, i, ids) ==
  LET left == batch[w] \ {i}
      done == handled[w] \cup ids IN
  /\ batch' = [batch EXCEPT ![w] = left]
  /\ handled' = [handled EXCEPT ![w] = done]
  /\ stage' = [stage EXCEPT ![w] = IF left # {} THEN "load"
                                   ELSE IF done # {} THEN "ack" ELSE "poll"]

Unreadable(w, i) ==
  /\ stage[w] = "load" /\ FirstOf(w, i)
  /\ ~entries[i].readable
  /\ NextSignal(w, i, {i})
  /\ UNCHANGED <<streamVars, throttleVars, fireVars, noteVars, counters>>

\* HandleSignal loads the rules that are on, and matches them.
LoadRules(w, i) ==
  /\ stage[w] = "load" /\ FirstOf(w, i)
  /\ entries[i].readable
  /\ LET keys == {<<r, entries[i].issue>> : r \in On("signal") \cap entries[i].matches} IN
       /\ work' = [work EXCEPT ![Loop(w)] = keys]
       /\ owed' = owed \cup {[id |-> i, key |-> k, at |-> clock] : k \in keys}
  /\ looked' = looked \cup {i}
  /\ stage' = [stage EXCEPT ![w] = "fire"]
  /\ UNCHANGED <<streamVars, throttleVars, batch, handled, page, paged, skipped, counters>>

\* Postgres does not answer: HandleSignal returns the error, and the signal is
\* left unacknowledged.
LoadFails(w, i) ==
  /\ stage[w] = "load" /\ FirstOf(w, i)
  /\ entries[i].readable
  /\ Breaks("load")
  /\ NextSignal(w, i, {})
  /\ UNCHANGED <<streamVars, throttleVars, fireVars, noteVars>>

Idle(t) == work[t] = {} /\ claim[t] = NoClaim /\ page[t] = 0

\* HandleSignal has fired every rule and returns nil.
Handled(w, i) ==
  /\ stage[w] = "fire" /\ FirstOf(w, i)
  /\ Idle(Loop(w))
  /\ NextSignal(w, i, {i})
  /\ UNCHANGED <<streamVars, throttleVars, fireVars, noteVars, counters>>

NewBatch(w) ==
  /\ stage' = [stage EXCEPT ![w] = "poll"]
  /\ batch' = [batch EXCEPT ![w] = {}]
  /\ handled' = [handled EXCEPT ![w] = {}]

AckSignals(w) ==
  /\ stage[w] = "ack"
  /\ XAck(handled[w])
  /\ NewBatch(w)
  /\ UNCHANGED <<throttleVars, fireVars, noteVars, counters>>

\* Ack returns an error, which is logged; the command may have run.
AckSignalsFails(w) ==
  /\ stage[w] = "ack"
  /\ Breaks("ack")
  /\ XAck(handled[w]) \/ UNCHANGED streamVars
  /\ NewBatch(w)
  /\ UNCHANGED <<throttleVars, fireVars, noteVars>>

----------------------------------------------------------------------------
(***************************************************************************)
(* EvaluateFrequency and EvaluateMetrics, on their timers: whichever       *)
(* targets of the rules that are on exceed their thresholds now.  A query  *)
(* that fails ends the pass of a project early, with fewer targets.        *)
(***************************************************************************)
Pass(w, kind, targets) ==
  /\ Idle(<<w, kind>>)
  /\ \E keys \in (SUBSET (On(kind) \X targets)) \ {{}} :
       work' = [work EXCEPT ![<<w, kind>>] = keys]
  /\ passes < MaxPasses
  /\ passes' = passes + 1
  /\ UNCHANGED <<streamVars, throttleVars, loopVars, page, paged, noteVars, broken>>

EvaluateFrequency(w) == Pass(w, "frequency", Issue)
EvaluateMetrics(w) == Pass(w, "metric", {NoIssue})

----------------------------------------------------------------------------
(***************************************************************************)
(* fire, by goroutine t.                                                   *)
(***************************************************************************)
Done(t) == work' = [work EXCEPT ![t] = @ \ {claim[t].key}]

Fire(t, key) ==
  /\ key \in work[t]
  /\ page[t] = 0
  /\ BeginClaim(t, key)
  /\ UNCHANGED <<streamVars, loopVars, fireVars, noteVars, counters>>

\* Mutant: fire returns when the claim was won.
GrantedUnsent(t) ==
  /\ WinClaim(t)
  /\ Done(t)
  /\ UNCHANGED <<streamVars, loopVars, page, paged, noteVars, counters>>

Granted(t) ==
  /\ WinClaim(t)
  /\ Done(t)
  /\ page' = [page EXCEPT ![t] = Len(history) + 1]
  /\ UNCHANGED <<streamVars, loopVars, paged, noteVars, counters>>

Throttled(t) ==
  /\ DropClaim(t)
  /\ claim[t].blocked
  /\ Done(t)
  /\ UNCHANGED <<streamVars, loopVars, page, paged, noteVars, counters>>

\* ClaimAlert returns an error: the rule was deleted, or the database failed
\* before the row was there or after.  fire logs it and returns.
ClaimFails(t) ==
  /\ \/ DropClaim(t) /\ rule[claim[t].key[1]] = "gone" /\ UNCHANGED counters
     \/ DropClaim(t) /\ Breaks("claim")
     \/ WinClaim(t) /\ Breaks("claim")
  /\ Done(t)
  /\ skipped' = skipped \cup {<<i, claim[t].key>> : i \in {j \in Ids : t[2] = "signal" /\ FirstOf(t[1], j)}}
  /\ UNCHANGED <<streamVars, loopVars, page, paged, looked, owed>>

\* Dispatch, to every channel of the rule.
Send(t) ==
  /\ page[t] # 0
  /\ paged' = paged \cup {page[t]}
  /\ page' = [page EXCEPT ![t] = 0]
  /\ UNCHANGED <<streamVars, throttleVars, loopVars, work, noteVars, counters>>

\* No channel took it: logged, and not tried again.
SendFails(t) ==
  /\ page[t] # 0
  /\ Breaks("send")
  /\ page' = [page EXCEPT ![t] = 0]
  /\ UNCHANGED <<streamVars, throttleVars, loopVars, work, paged, noteVars>>

(***************************************************************************)
(* A replica dies and is started again with nothing in memory.  What it    *)
(* had consumed stays pending: the alerter never calls Reclaim.            *)
(***************************************************************************)
CrashReplica(w) ==
  /\ Breaks("crash")
  /\ NewBatch(w)
  /\ DropClaimsOf(w)
  /\ work' = [t \in Thread |-> IF t[1] = w THEN {} ELSE work[t]]
  /\ page' = [t \in Thread |-> IF t[1] = w THEN 0 ELSE page[t]]
  /\ UNCHANGED <<streamVars, paged, noteVars>>

----------------------------------------------------------------------------
\* The rest of the system: the processor publishes signals, people edit rules,
\* time passes.
ProcessorPublish(signals) ==
  /\ Publish(signals)
  /\ UNCHANGED <<throttleVars, loopVars, fireVars, noteVars, counters>>

RuleEdited(r, status) ==
  /\ EditRule(r, status)
  /\ UNCHANGED <<streamVars, loopVars, fireVars, noteVars, counters>>

ClockTicks ==
  /\ Tick
  /\ UNCHANGED <<streamVars, loopVars, fireVars, noteVars, counters>>

LoopStep(w) ==
  \/ ConsumeSignals(w)
  \/ \E i \in Ids : Unreadable(w, i) \/ LoadRules(w, i) \/ Handled(w, i)
  \/ AckSignals(w)

FireStep(t) ==
  \/ \E key \in Key : Fire(t, key)
  \/ Granted(t)
  \/ Throttled(t)
  \/ Send(t)

BrokenStep(w) ==
  \/ \E i \in Ids : LoadFails(w, i)
  \/ \E t \in Thread : t[1] = w /\ (ClaimFails(t) \/ SendFails(t))
  \/ AckSignalsFails(w)
  \/ CrashReplica(w)

AlertNext ==
  \/ \E w \in Replica : LoopStep(w) \/ BrokenStep(w)
  \/ \E t \in Thread : FireStep(t)
  \/ \E w \in Replica : EvaluateFrequency(w) \/ EvaluateMetrics(w)
  \/ \E n \in 1 .. MaxEntries : \E signals \in [1 .. n -> Body] : ProcessorPublish(signals)
  \/ \E r \in Rule, status \in {"on", "off", "gone"} : RuleEdited(r, status)
  \/ ClockTicks

AlertSpec == AlertInit /\ [][AlertNext]_alertVars

\* A replica that runs takes its next step; neither the timers nor the world
\* owe anything.
AlertFairSpec ==
  /\ AlertSpec
  /\ \A w \in Replica : WF_alertVars(LoopStep(w)) /\ WF_alertVars(FireStep(Loop(w)))

----------------------------------------------------------------------------
\* "A duplicate alert is far better than a missed regression" (main.go:131-133):
\* a signal is acknowledged only when, for every rule it matched when its rules
\* were loaded, somebody won the right to page less than a throttle window
\* before, or the claim failed.
AckedIsDecided ==
  \A i \in acked : entries[i].readable =>
    /\ i \in looked
    /\ \A o \in owed : o.id = i =>
         \/ <<i, o.key>> \in skipped
         \/ \E m \in DOMAIN history :
              history[m].key = o.key /\ history[m].at + Throttle > o.at

\* A claim that was won silences everybody for the throttle window, so it must
\* lead to a page: one is lost only by a fault, and a fault loses at most what
\* each goroutine of a replica had in hand.
Lost == {m \in DOMAIN history : m \notin paged /\ \A t \in Thread : page[t] # m}

LostPagesAreFaults == Cardinality(Lost) <= Cardinality(Kinds) * broken

\* "Leave it unacked so it is redelivered" (main.go:131-133): every signal is
\* handled and acknowledged in the end.
EverySignalSettles ==
  \A i \in 1 .. MaxEntries : i \in Ids ~> (i \in acked \/ i <= trimmed)

=============================================================================
