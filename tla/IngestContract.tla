--------------------------- MODULE IngestContract ---------------------------
(***************************************************************************)
(* What the ingest path promises about what it accepted, without queues,   *)
(* workers, batches or retries (queue.go:46-53, processor.go:127-130 and   *)
(* 179-180):                                                               *)
(*   - a job is finished only when its row is durable, unless it is of a   *)
(*     kind that is never written;                                         *)
(*   - an alert is raised only for a durable event;                        *)
(*   - jobs are never altered, and are given up only oldest first.         *)
(***************************************************************************)
EXTENDS Naturals, Sequences

CONSTANTS
  Job,            \* what the gateway may accept
  Skippable(_)    \* jobs that are finished without a row

VARIABLES
  accepted,   \* the jobs accepted, in order; a job is known by its position
  durable,    \* jobs whose row is in ClickHouse
  announced,  \* jobs an alert was raised for
  finished,   \* jobs that will not be looked at again
  forgotten   \* the first `forgotten` jobs were dropped from the queue

contractVars == <<accepted, durable, announced, finished, forgotten>>

Init ==
  /\ accepted = <<>>
  /\ durable = {}
  /\ announced = {}
  /\ finished = {}
  /\ forgotten = 0

Accept ==
  /\ accepted' \in Seq(Job)
  /\ Len(accepted') > Len(accepted)
  /\ \A i \in DOMAIN accepted : accepted'[i] = accepted[i]
  /\ forgotten' \in Nat /\ forgotten' >= forgotten
  /\ UNCHANGED <<durable, announced, finished>>

Persist ==
  /\ durable \subseteq durable'
  /\ durable' \subseteq DOMAIN accepted
  /\ UNCHANGED <<accepted, announced, finished, forgotten>>

Announce ==
  /\ announced \subseteq announced'
  /\ announced' \subseteq durable
  /\ UNCHANGED <<accepted, durable, finished, forgotten>>

Finish ==
  /\ finished \subseteq finished'
  /\ \A i \in finished' \ finished :
       i \in DOMAIN accepted /\ (i \in durable \/ Skippable(accepted[i]))
  /\ UNCHANGED <<accepted, durable, announced, forgotten>>

Next == Accept \/ Persist \/ Announce \/ Finish

Spec == Init /\ [][Next]_contractVars

=============================================================================
