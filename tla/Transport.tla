----------------------------- MODULE Transport -----------------------------
(***************************************************************************)
(* The JavaScript SDK's transport (sdk/js/core/src/transport.ts), with the *)
(* client that drops items before it, the send functions that answer to a  *)
(* 429, and Node's flush-then-exit (sdk/js/node/src/index.ts).             *)
(*                                                                         *)
(* JavaScript runs to the next await, so a step is one synchronous piece:  *)
(* a capture, a timer, the resolution of a request.  Items are numbered in *)
(* the order of their capture.  A counter of discarded items is modelled   *)
(* by the set of items it stands for, so that an item counted twice, or    *)
(* counted and never dropped, can be told.                                 *)
(***************************************************************************)
EXTENDS Naturals, FiniteSets

CONSTANTS
  MaxQueue,   \* MAX_QUEUE
  MaxItems    \* bound of the model: items captured

ASSUME TransportAssumption == MaxQueue \in Nat /\ MaxItems \in Nat

VARIABLES
  captured,   \* items captured so far
  queue,      \* items waiting for a flush
  counted,    \* items in the discard counters
  timer,      \* flushTimer is set
  sending,    \* a flush awaits its request
  limited,    \* now < rateLimitedUntil
  requests,   \* requests not resolved yet
  delivered,  \* items whose flush resolved true
  received,   \* items the gateway took
  told,       \* discarded items the gateway was told of
  untold,     \* discarded items whose report did not arrive
  exit,       \* the process: "running", "leaving" after a crash, or "gone"
  fatal       \* the item of the last crash, or 0

clientVars == <<queue, counted, timer, sending, limited, delivered>>
serverVars == <<received, told, untold>>
exitVars   == <<exit, fatal>>
transportVars == <<captured, clientVars, requests, serverVars, exitVars>>

Request == [items : SUBSET Nat, report : SUBSET Nat,
            state : {"open", "ok", "limited", "failed"}, awaited : BOOLEAN]

Awaited == {r \in requests : r.awaited}

TransportInit ==
  /\ captured = 0
  /\ queue = {}
  /\ counted = {}
  /\ timer = FALSE
  /\ sending = FALSE
  /\ limited = FALSE
  /\ requests = {}
  /\ delivered = {}
  /\ received = {}
  /\ told = {}
  /\ untold = {}
  /\ exit = "running"
  /\ fatal = 0

----------------------------------------------------------------------------
\* enqueue takes the item unless the server asked for a pause or the queue is
\* full; then the item is counted.
Takes == ~limited /\ Cardinality(queue) < MaxQueue

Item == captured + 1
Queued  == IF Takes THEN queue \cup {Item} ELSE queue
Dropped == IF Takes THEN counted ELSE counted \cup {Item}

Capture ==
  /\ exit # "gone"
  /\ captured < MaxItems
  /\ captured' = Item
  /\ queue' = Queued
  /\ counted' = Dropped
  /\ timer' = (timer \/ Takes)
  /\ UNCHANGED <<sending, limited, delivered, requests, serverVars, exitVars>>

\* dispatch drops the event: sampled out, or by beforeSend.
DropByClient ==
  /\ exit # "gone"
  /\ captured < MaxItems
  /\ captured' = Item
  /\ counted' = counted \cup {Item}
  /\ UNCHANGED <<queue, timer, sending, limited, delivered, requests, serverVars, exitVars>>

----------------------------------------------------------------------------
(***************************************************************************)
(* flush, of a queue q with items c in the counters, up to its await: the  *)
(* report takes the counters with it.  An item that cannot be serialised   *)
(* costs the batch.                                                        *)
(***************************************************************************)
StartSend(q, c) ==
  /\ requests' = requests \cup
       {[items |-> q, report |-> c, state |-> "open", awaited |-> TRUE]}
  /\ queue' = {}
  /\ counted' = {}
  /\ sending' = TRUE

EncodeThrows(q, c) ==
  /\ queue' = {}
  /\ counted' = c \cup q
  /\ UNCHANGED <<requests, sending>>

NoFlush(q) == sending \/ q = {}

\* Mutant: flush does not look at `sending`.
FlushAlways(q, c) ==
  IF q = {} THEN queue' = q /\ counted' = c /\ UNCHANGED <<requests, sending>>
  ELSE StartSend(q, c) \/ EncodeThrows(q, c)

Flush(q, c) ==
  IF NoFlush(q) THEN queue' = q /\ counted' = c /\ UNCHANGED <<requests, sending>>
  ELSE StartSend(q, c) \/ EncodeThrows(q, c)

TimerFires ==
  /\ exit # "gone"
  /\ timer
  /\ timer' = FALSE
  /\ Flush(queue, counted)
  /\ UNCHANGED <<captured, limited, delivered, serverVars, exitVars>>

\* The application, or the page as it is hidden.
FlushCalled ==
  /\ exit # "gone"
  /\ ~NoFlush(queue)
  /\ Flush(queue, counted)
  /\ UNCHANGED <<captured, timer, limited, delivered, serverVars, exitVars>>

(***************************************************************************)
(* Node: an uncaught exception is captured (or dropped by the client) and  *)
(* flushed, and the process exits when flush resolves or after             *)
(* EXIT_FLUSH_MS.  A flush that has nothing to do resolves at once.        *)
(***************************************************************************)
UncaughtException ==
  /\ exit # "gone"
  /\ captured < MaxItems
  /\ captured' = Item
  /\ fatal' = Item
  /\ \/ timer' = (timer \/ Takes) /\ Flush(Queued, Dropped)
     \/ UNCHANGED timer /\ Flush(queue, counted \cup {Item})
  /\ exit' = IF requests' = requests THEN "gone" ELSE "leaving"
  /\ UNCHANGED <<limited, delivered, serverVars>>

Leave ==
  /\ exit = "leaving"
  /\ exit' = "gone"
  /\ UNCHANGED <<captured, clientVars, requests, serverVars, fatal>>

----------------------------------------------------------------------------
(***************************************************************************)
(* The network and the gateway decide a request: taken, refused with 429,  *)
(* or failed, on the way there, at the gateway (which may have enqueued a  *)
(* part), or on the way back.  They do so whether or not anybody waits.    *)
(***************************************************************************)
Decide(r, state) ==
  /\ r.state = "open"
  /\ requests' = (requests \ {r}) \cup {[r EXCEPT !.state = state]}
  /\ UNCHANGED <<captured, clientVars, exitVars>>

Takes200(r) ==
  /\ Decide(r, "ok")
  /\ received' = received \cup r.items
  /\ told' = told \cup r.report
  /\ UNCHANGED untold

Refuses429(r) ==
  /\ Decide(r, "limited")
  /\ untold' = untold \cup r.report
  /\ UNCHANGED <<received, told>>

RequestFails(r) ==
  /\ Decide(r, "failed")
  /\ \E part \in SUBSET r.items : received' = received \cup part
  /\ \/ told' = told \cup r.report /\ UNCHANGED untold
     \/ untold' = untold \cup r.report /\ UNCHANGED told

\* Mutant: the items of a request that was refused are not counted.
ForgottenWhenRefused(r) ==
  /\ exit # "gone"
  /\ r.state # "open"
  /\ requests' = requests \ {r}
  /\ limited' = (limited \/ r.state = "limited")
  /\ sending' = (sending /\ ~r.awaited)
  /\ counted' = IF r.awaited /\ r.state = "failed" THEN counted \cup r.items ELSE counted
  /\ delivered' = IF r.awaited /\ r.state = "ok" THEN delivered \cup r.items ELSE delivered
  /\ UNCHANGED <<captured, queue, timer, serverVars, exitVars>>

(***************************************************************************)
(* The response reaches the client: a 429 starts a pause, late or not; the *)
(* flush that still waits for it ends, and counts the items unless it was  *)
(* taken.                                                                  *)
(***************************************************************************)
Resolves(r) ==
  /\ exit # "gone"
  /\ r.state # "open"
  /\ requests' = requests \ {r}
  /\ limited' = (limited \/ r.state = "limited")
  /\ sending' = (sending /\ ~r.awaited)
  /\ counted' = IF r.awaited /\ r.state # "ok" THEN counted \cup r.items ELSE counted
  /\ delivered' = IF r.awaited /\ r.state = "ok" THEN delivered \cup r.items ELSE delivered
  /\ UNCHANGED <<captured, queue, timer, serverVars, exitVars>>

\* Mutant: the timeout does not end the flush.
TimesOutStuck(r) ==
  /\ exit # "gone"
  /\ r.awaited
  /\ requests' = (requests \ {r}) \cup {[r EXCEPT !.awaited = FALSE]}
  /\ counted' = counted \cup r.items
  /\ UNCHANGED <<captured, queue, timer, sending, limited, delivered, serverVars, exitVars>>

\* TIMEOUT_MS: the flush ends and counts its items; the request goes on.
TimesOut(r) ==
  /\ exit # "gone"
  /\ r.awaited
  /\ requests' = (requests \ {r}) \cup {[r EXCEPT !.awaited = FALSE]}
  /\ counted' = counted \cup r.items
  /\ sending' = FALSE
  /\ UNCHANGED <<captured, queue, timer, limited, delivered, serverVars, exitVars>>

\* rateLimitedUntil passes.
PauseEnds ==
  /\ limited
  /\ limited' = FALSE
  /\ UNCHANGED <<captured, queue, counted, timer, sending, delivered, requests, serverVars, exitVars>>

TransportNext ==
  \/ Capture \/ DropByClient \/ TimerFires \/ FlushCalled
  \/ UncaughtException \/ Leave
  \/ \E r \in requests :
       Takes200(r) \/ Refuses429(r) \/ RequestFails(r) \/ Resolves(r) \/ TimesOut(r)
  \/ PauseEnds

TransportSpec == TransportInit /\ [][TransportNext]_transportVars

\* Timers fire.  The network owes nothing.
TransportFairSpec ==
  /\ TransportSpec
  /\ WF_transportVars(TimerFires)
  /\ WF_transportVars(\E r \in requests : TimesOut(r))

----------------------------------------------------------------------------
\* What may have become of an item: it waits, it is being sent, it was sent,
\* or it was dropped and is in the counters, in a report on its way, in one
\* that arrived, or in one that did not.
Fates ==
  <<queue, UNION {r.items : r \in Awaited}, delivered, counted,
    UNION {r.report : r \in {q \in requests : q.state = "open"}}, told, untold>>

\* "NEVER silently lose an event" (transport.ts:13-16): through overflow,
\* pauses, timeouts, late answers and failed encodings every item captured has
\* one of these fates, and only one; nothing dropped goes uncounted or is
\* counted twice.
EveryItemHasOneFate ==
  \A i \in 1 .. captured :
    \E n \in DOMAIN Fates : i \in Fates[n] /\ \A m \in DOMAIN Fates \ {n} : i \notin Fates[m]

\* At most one flush waits at a time, and `sending` says whether one does: a flag
\* left standing would end all sending for good, one cleared too early would let a
\* late answer end the wrong flush.  And a crash whose error is still queued when
\* the process is gone was overtaken by a flush under way, for which its own did not
\* wait (transport.ts:133); nothing else leaves it behind.
OneFlushWaits ==
  /\ Cardinality(Awaited) = IF sending THEN 1 ELSE 0
  /\ exit = "gone" /\ fatal \in queue => sending

\* "A hanging request must not keep the page's unload handler waiting on us"
\* (transport.ts:214-216): every flush ends, whatever the network does.
FlushEnds == sending ~> (~sending \/ exit = "gone")

=============================================================================
