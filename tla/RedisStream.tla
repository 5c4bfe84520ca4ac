---------------------------- MODULE RedisStream ----------------------------
(***************************************************************************)
(* One Redis stream read through one consumer group, as internal/queue     *)
(* drives it.  The gateway and the processor share the stream              *)
(* "sabab:ingest"; the processor and the alerter share "sabab:alerts".     *)
(*                                                                         *)
(* An entry's id is its position in `entries`, so ids are ordered the way  *)
(* Redis orders them.  Which consumer owns a pending entry is left out:    *)
(* the code reads only ">" and claims from any owner, so ownership never   *)
(* decides a step.  Every action is one Redis command, atomic at the       *)
(* server; the pipeline of Publish is not a transaction, so any prefix of  *)
(* it may be all that arrives.                                             *)
(***************************************************************************)
EXTENDS Naturals, Sequences, FiniteSets

CONSTANTS
  Body,        \* what an entry may carry
  MaxLen,      \* the stream's MAXLEN
  BatchSize,   \* entries claimed per read
  MaxEntries   \* bound of the model: entries ever added

ASSUME StreamAssumption ==
  /\ MaxLen \in Nat
  /\ BatchSize \in Nat \ {0}
  /\ MaxEntries \in Nat

VARIABLES
  entries,        \* every body ever added, in order
  trimmed,        \* the oldest `trimmed` entries were removed by MAXLEN
  lastDelivered,  \* the group's last-delivered id
  pel,            \* ids delivered and not yet acknowledged
  idle,           \* those of pel that have been idle for ReclaimMinIdle
  acked           \* history: ids an XACK removed from pel

streamVars == <<entries, trimmed, lastDelivered, pel, idle, acked>>

Ids == 1 .. Len(entries)

\* The n smallest elements of a set of ids.
FirstN(S, n) == {i \in S : Cardinality({j \in S : j < i}) < n}

\* XAUTOCLAIM examines at most this many pending entries per requested one.
ScanFactor == 10

Unread == {i \in Ids : i > lastDelivered /\ i > trimmed}
NextBatch == FirstN(Unread, BatchSize)

(***************************************************************************)
(* XAUTOCLAIM from "0-0": pending entries in id order, those idle long     *)
(* enough or no longer in the stream, up to COUNT of them.  The trimmed    *)
(* ones are dropped from the pending list, the others change hands.        *)
(***************************************************************************)
Claimable == {i \in FirstN(pel, ScanFactor * BatchSize) : i \in idle \/ i <= trimmed}
Picked    == FirstN(Claimable, BatchSize)
Claimed   == {i \in Picked : i > trimmed}

----------------------------------------------------------------------------
StreamInit ==
  /\ entries = <<>>
  /\ trimmed = 0
  /\ lastDelivered = 0
  /\ pel = {}
  /\ idle = {}
  /\ acked = {}

\* Approximate trimming removes whole nodes of old entries and never leaves
\* fewer than MAXLEN.
Trim(len) == {t \in trimmed .. len : t = trimmed \/ len - t >= MaxLen}

Publish(bodies) ==
  /\ Len(entries) + Len(bodies) <= MaxEntries
  /\ \E k \in 1 .. Len(bodies) :
       /\ entries' = entries \o SubSeq(bodies, 1, k)
       /\ trimmed' \in Trim(Len(entries) + k)
  /\ UNCHANGED <<lastDelivered, pel, idle, acked>>

\* Mutant: XREADGROUP with NOACK, which leaves nothing pending.
ReadNoAck ==
  /\ NextBatch # {}
  /\ lastDelivered' \in NextBatch
  /\ \A i \in NextBatch : i <= lastDelivered'
  /\ UNCHANGED <<entries, trimmed, pel, idle, acked>>

\* XREADGROUP ">" COUNT BatchSize.
Read ==
  /\ NextBatch # {}
  /\ lastDelivered' \in NextBatch
  /\ \A i \in NextBatch : i <= lastDelivered'
  /\ pel' = pel \cup NextBatch
  /\ UNCHANGED <<entries, trimmed, idle, acked>>

AutoClaim ==
  /\ Picked # {}
  /\ pel' = pel \ (Picked \ Claimed)
  /\ idle' = idle \ Picked
  /\ UNCHANGED <<entries, trimmed, lastDelivered, acked>>

XAck(ids) ==
  /\ acked' = acked \cup (ids \cap pel)
  /\ pel' = pel \ ids
  /\ idle' = idle \ ids
  /\ UNCHANGED <<entries, trimmed, lastDelivered>>

\* Time passes: a pending entry reaches ReclaimMinIdle.
Age(i) ==
  /\ i \in pel \ idle
  /\ idle' = idle \cup {i}
  /\ UNCHANGED <<entries, trimmed, lastDelivered, pel, acked>>

\* What any set of producers and consumers may do to the stream: a consumer
\* acknowledges only ids it was handed, which were delivered.
StreamNext ==
  \/ \E k \in 1 .. MaxEntries : \E bodies \in [1 .. k -> Body] : Publish(bodies)
  \/ Read
  \/ AutoClaim
  \/ \E ids \in SUBSET (1 .. lastDelivered) : XAck(ids)
  \/ \E i \in Ids : Age(i)

StreamSpec == StreamInit /\ [][StreamNext]_streamVars

----------------------------------------------------------------------------
\* Type invariant of the stream's state.
StreamTypeOK ==
  /\ entries \in Seq(Body)
  /\ trimmed \in Nat /\ trimmed <= Len(entries)
  /\ lastDelivered \in Nat /\ lastDelivered <= Len(entries)
  /\ pel \subseteq 1 .. lastDelivered
  /\ idle \subseteq pel
  /\ acked \subseteq 1 .. lastDelivered

\* Nothing vanishes: an entry is waiting for its first delivery, pending,
\* acknowledged, or was trimmed (queue.go:46-48, "until a message is acked
\* it stays pending").  Redis hands out entries in id order, so this needs
\* Read to take a prefix of what is unread, and AutoClaim to drop nothing
\* that is still in the stream.
NothingVanishes ==
  \A i \in Ids : i > lastDelivered \/ i \in pel \/ i \in acked \/ i <= trimmed

============================================================================
