-------------------------- MODULE TransportProofs --------------------------
(***************************************************************************)
(* For a queue of any size and any number of items: every item the SDK     *)
(* captures has one fate, and one flush waits at a time.                   *)
(*                                                                         *)
(* Ledger(n, q, c) is the invariant for n items captured, the queue q and  *)
(* the counters c.  It has these as parameters because some handlers put   *)
(* an item into the queue and flush it in one step: the ledger holds in    *)
(* between (EnqueueKeepsLedger, then FlushKeepsLedger).                    *)
(***************************************************************************)
EXTENDS Transport, FiniteSetTheorems, TLAPS

Sent(i)     == \E r \in requests : r.awaited /\ i \in r.items
Reported(i) == \E r \in requests : r.state = "open" /\ i \in r.report

TypesOK(n, q, c) ==
  /\ n \in Nat
  /\ q \subseteq 1 .. n /\ c \subseteq 1 .. n
  /\ delivered \subseteq 1 .. n /\ told \subseteq 1 .. n /\ untold \subseteq 1 .. n
  /\ sending \in BOOLEAN
  /\ requests \subseteq Request
  /\ \A r \in requests : r.items \subseteq 1 .. n /\ r.report \subseteq 1 .. n

\* Requests share no items, and open ones no reports; the items of a flush that
\* ended are accounted for, though their request goes on.
RequestsApart(c) ==
  /\ \A r \in requests : r.items # {}
  /\ \A r, s \in requests : \A i \in r.items : i \in s.items => r = s
  /\ \A r, s \in requests : r.state = "open" /\ s.state = "open" =>
       \A i \in r.report : i \in s.report => r = s
  /\ \A r \in requests : ~r.awaited =>
       \A i \in r.items : i \in c \/ Reported(i) \/ i \in told \/ i \in untold

OneAwaited ==
  /\ \A r, s \in requests : r.awaited /\ s.awaited => r = s
  /\ sending <=> \E r \in requests : r.awaited

Accounted(i, q, c) ==
  \/ i \in q \/ Sent(i) \/ i \in delivered \/ i \in c \/ Reported(i) \/ i \in told \/ i \in untold

OnceOnly(i, q, c) ==
  /\ i \in q         => ~Sent(i) /\ i \notin delivered \cup c \cup told \cup untold /\ ~Reported(i)
  /\ Sent(i)         => i \notin delivered \cup c \cup told \cup untold /\ ~Reported(i)
  /\ i \in delivered => i \notin c \cup told \cup untold /\ ~Reported(i)
  /\ i \in c         => i \notin told \cup untold /\ ~Reported(i)
  /\ Reported(i)     => i \notin told \cup untold
  /\ i \in told      => i \notin untold

Ledger(n, q, c) ==
  /\ TypesOK(n, q, c)
  /\ RequestsApart(c)
  /\ OneAwaited
  /\ \A i \in 1 .. n : Accounted(i, q, c) /\ OnceOnly(i, q, c)

\* A crash that is being sent off left nothing of itself in the queue.
CrashOK ==
  /\ fatal \in 0 .. captured
  /\ exit = "leaving" => fatal \notin queue
  /\ exit = "gone" /\ fatal \in queue => sending

TransportInv == Ledger(captured, queue, counted) /\ CrashOK

----------------------------------------------------------------------------
(***************************************************************************)
(* The pieces of a handler.                                                *)
(***************************************************************************)
\* A captured item is queued or counted, and was nowhere before.
LEMMA EnqueueKeepsLedger ==
  ASSUME Ledger(captured, queue, counted)
  PROVE  /\ Ledger(Item, Queued, Dropped)
         /\ Ledger(Item, queue, counted \cup {Item})
<1> USE DEF Ledger
<1>1. /\ captured \in Nat /\ Item \in Nat /\ Item \in 1 .. Item
      /\ 1 .. captured \subseteq 1 .. Item /\ Item \notin 1 .. captured
      /\ \A i \in 1 .. Item : i \in 1 .. captured \/ i = Item
  BY DEF TypesOK, Item
<1>2. /\ ~Sent(Item) /\ ~Reported(Item)
      /\ Item \notin queue \cup counted \cup delivered \cup told \cup untold
  BY <1>1 DEF TypesOK, Sent, Reported
<1>3. ASSUME NEW q, NEW c,
             \/ q = queue \cup {Item} /\ c = counted
             \/ q = queue /\ c = counted \cup {Item}
      PROVE  Ledger(Item, q, c)
  <2>1. TypesOK(Item, q, c)
    BY <1>1, <1>3 DEF TypesOK
  <2>2. RequestsApart(c)
    BY <1>3 DEF RequestsApart
  <2>3. ASSUME NEW i \in 1 .. Item
        PROVE  Accounted(i, q, c) /\ OnceOnly(i, q, c)
    <3>1. CASE i = Item
      BY <1>2, <1>3, <3>1 DEF Accounted, OnceOnly
    <3>2. CASE i # Item
      BY <1>1, <1>3, <3>2 DEF Accounted, OnceOnly
    <3> QED BY <3>1, <3>2
  <2> QED BY <2>1, <2>2, <2>3
<1> QED BY <1>3 DEF Queued, Dropped

\* A flush moves the queue into a request, the counters into its report.
LEMMA StartSendKeepsLedger ==
  ASSUME NEW n, NEW q, NEW c, Ledger(n, q, c), ~sending, q # {},
         StartSend(q, c), captured' = n, UNCHANGED <<delivered, told, untold>>
  PROVE  Ledger(captured, queue, counted)'
<1> USE DEF Ledger
<1> DEFINE new == [items |-> q, report |-> c, state |-> "open", awaited |-> TRUE]
<1>1. /\ requests' = requests \cup {new} /\ queue' = {} /\ counted' = {} /\ sending'
      /\ \A r \in requests : ~r.awaited
  BY DEF StartSend, OneAwaited
<1>2. new.items = q /\ new.report = c /\ new.state = "open" /\ new.awaited
  OBVIOUS
<1> HIDE DEF new
<1>3. \A i : /\ Sent(i)' <=> i \in q
             /\ Reported(i)' <=> Reported(i) \/ i \in c
  BY <1>1, <1>2 DEF Sent, Reported
<1>4. TypesOK(captured, queue, counted)'
  <2>1. new \in Request
    BY DEF TypesOK, Request, new
  <2> QED BY <1>1, <1>2, <2>1 DEF TypesOK
<1>5. ASSUME NEW i \in 1 .. n
      PROVE  (Accounted(i, queue, counted) /\ OnceOnly(i, queue, counted))'
  <2>1. ~Sent(i)
    BY <1>1 DEF Sent
  <2> QED BY <1>1, <1>3, <2>1 DEF Accounted, OnceOnly
<1>6. OneAwaited'
  BY <1>1, <1>2 DEF OneAwaited
<1>7. RequestsApart(counted)'
  <2>1. \A r \in requests : \A i \in r.items : i \in 1 .. n /\ i \notin q
    BY <1>1 DEF RequestsApart, OnceOnly, TypesOK
  <2>2. \A r \in requests : r.state = "open" => \A i \in r.report : i \in 1 .. n /\ i \notin c
    BY DEF OnceOnly, Reported, TypesOK
  <2>3. \A r \in requests : \A i \in r.items :
          (i \in counted \/ Reported(i) \/ i \in told \/ i \in untold)'
    BY <1>1, <1>3 DEF RequestsApart
  <2>4. \A r \in requests' : r \in requests \/ r = new
    BY <1>1
  <2>5. \A r \in requests' : r.items # {}
    BY <1>2, <2>4 DEF RequestsApart
  <2>6. \A r, s \in requests' : \A i \in r.items : i \in s.items => r = s
    BY <1>2, <2>1, <2>4 DEF RequestsApart
  <2>7. \A r, s \in requests' : r.state = "open" /\ s.state = "open" =>
          \A i \in r.report : i \in s.report => r = s
    BY <1>2, <2>2, <2>4 DEF RequestsApart
  <2> QED BY <1>2, <2>3, <2>4, <2>5, <2>6, <2>7 DEF RequestsApart
<1> QED BY <1>4, <1>5, <1>6, <1>7

\* flush, from its first line to its await.
LEMMA FlushKeepsLedger ==
  ASSUME NEW n, NEW q, NEW c, Ledger(n, q, c),
         Flush(q, c), captured' = n, UNCHANGED <<delivered, told, untold>>
  PROVE  Ledger(captured, queue, counted)'
<1>1. CASE queue' = q /\ counted' = c /\ UNCHANGED <<requests, sending>>
  BY <1>1 DEF Ledger, TypesOK, RequestsApart, OneAwaited, Accounted, OnceOnly, Sent, Reported
<1>2. CASE EncodeThrows(q, c)
  <2> USE <1>2 DEF EncodeThrows, Ledger, Sent, Reported
  <2>1. TypesOK(captured, queue, counted)'
    BY DEF TypesOK
  <2>2. RequestsApart(counted)' /\ OneAwaited'
    BY DEF RequestsApart, OneAwaited
  <2>3. ASSUME NEW i \in 1 .. n
        PROVE  (Accounted(i, queue, counted) /\ OnceOnly(i, queue, counted))'
    BY DEF Accounted, OnceOnly
  <2> QED BY <2>1, <2>2, <2>3
<1>3. CASE ~NoFlush(q) /\ StartSend(q, c)
  BY <1>3, StartSendKeepsLedger DEF NoFlush
<1> QED BY <1>1, <1>2, <1>3 DEF Flush
----------------------------------------------------------------------------
(***************************************************************************)
(* What becomes of a request.                                              *)
(***************************************************************************)
\* The network decides r: its report has arrived, or has not.
LEMMA DecideKeepsLedger ==
  ASSUME Ledger(captured, queue, counted), NEW r \in requests,
         NEW state \in {"ok", "limited", "failed"}, Decide(r, state),
         \/ told' = told \cup r.report /\ UNCHANGED untold
         \/ untold' = untold \cup r.report /\ UNCHANGED told
  PROVE  Ledger(captured, queue, counted)'
<1> USE DEF Ledger
<1> DEFINE s == [r EXCEPT !.state = state]
<1>1. s \in Request /\ s.items = r.items /\ s.report = r.report /\ s.awaited = r.awaited
      /\ s.state = state /\ r \in Request
  BY DEF TypesOK, Request
<1>2. /\ r.state = "open" /\ requests' = (requests \ {r}) \cup {s}
      /\ UNCHANGED <<captured, queue, counted, sending, delivered>>
  BY DEF Decide, clientVars
<1> HIDE DEF s
<1>3. \A i : Sent(i)' <=> Sent(i)
  BY <1>1, <1>2 DEF Sent
<1>4. \A i : /\ Reported(i) <=> Reported(i)' \/ i \in r.report
             /\ i \in r.report => ~Reported(i)'
  BY <1>1, <1>2 DEF RequestsApart, Reported
<1>5. TypesOK(captured, queue, counted)'
  BY <1>1, <1>2 DEF TypesOK
<1>6. ASSUME NEW i \in 1 .. captured
      PROVE  (Accounted(i, queue, counted) /\ OnceOnly(i, queue, counted))'
  <2>1. Accounted(i, queue, counted)'
    BY <1>2, <1>3, <1>4 DEF Accounted
  <2>2. OnceOnly(i, queue, counted)'
    BY <1>2, <1>3, <1>4 DEF OnceOnly
  <2> QED BY <2>1, <2>2
<1>7. OneAwaited'
  BY <1>1, <1>2 DEF OneAwaited
<1>8. RequestsApart(counted)'
  <2>1. \A a \in requests' : a = s \/ (a \in requests /\ a # r)
    BY <1>2
  <2>2. \A a \in requests' : a.items # {}
    BY <1>1, <2>1 DEF RequestsApart
  <2>3. \A a, b \in requests' : \A i \in a.items : i \in b.items => a = b
    BY <1>1, <2>1 DEF RequestsApart
  <2>4. \A a, b \in requests' : a.state = "open" /\ b.state = "open" =>
          \A i \in a.report : i \in b.report => a = b
    BY <1>1, <2>1 DEF RequestsApart
  <2>5. \A a \in requests' : ~a.awaited =>
          \A i \in a.items : (i \in counted \/ Reported(i) \/ i \in told \/ i \in untold)'
    <3>1. \A a \in requests : ~a.awaited =>
            \A i \in a.items : i \in counted \/ Reported(i) \/ i \in told \/ i \in untold
      BY DEF RequestsApart
    <3>2. \A i : i \in counted \/ Reported(i) \/ i \in told \/ i \in untold =>
                 (i \in counted \/ Reported(i) \/ i \in told \/ i \in untold)'
      BY <1>2, <1>4
    <3> QED BY <1>1, <2>1, <3>1, <3>2
  <2> QED BY <2>2, <2>3, <2>4, <2>5 DEF RequestsApart
<1> QED BY <1>2, <1>5, <1>6, <1>7, <1>8

\* What is left of a request whose flush has ended: the request itself, which
\* nobody awaits.
LeftOf(s, r) ==
  s \in Request /\ s.items = r.items /\ s.report = r.report /\ s.state = r.state /\ ~s.awaited

\* The flush that waits for r ends, with an answer or without.
LEMMA EndKeepsLedger ==
  ASSUME Ledger(captured, queue, counted), NEW r \in requests, r.awaited,
         UNCHANGED <<captured, queue, told, untold>>, sending' = FALSE,
         \A s \in requests \ {r} : s \in requests',
         \A s \in requests' : (s \in requests /\ s # r) \/ LeftOf(s, r),
         \A s, u \in requests' : LeftOf(s, r) /\ LeftOf(u, r) => s = u,
         r.state = "open" => \E s \in requests' : LeftOf(s, r),
         \/ counted' = counted \cup r.items /\ UNCHANGED delivered
         \/ /\ delivered' = delivered \cup r.items /\ UNCHANGED counted
            /\ requests' = requests \ {r}
  PROVE  Ledger(captured, queue, counted)'
<1> USE DEF Ledger, LeftOf
<1>1. /\ \A s \in requests : s.awaited => s = r
      /\ \A i : Sent(i) <=> i \in r.items
  BY DEF OneAwaited, Sent
<1>2. \A i : ~Sent(i)' /\ (Reported(i)' <=> Reported(i))
  BY <1>1 DEF Sent, Reported
<1>3. TypesOK(captured, queue, counted)'
  BY DEF TypesOK
<1>4. ASSUME NEW i \in 1 .. captured
      PROVE  (Accounted(i, queue, counted) /\ OnceOnly(i, queue, counted))'
  BY <1>1, <1>2 DEF Accounted, OnceOnly
<1>5. OneAwaited'
  BY <1>1 DEF OneAwaited
<1>6. RequestsApart(counted)'
  <2>1. \A a \in requests' : a.items # {}
    BY DEF RequestsApart
  <2>2. \A a, b \in requests' : \A i \in a.items : i \in b.items => a = b
    BY DEF RequestsApart
  <2>3. \A a, b \in requests' : a.state = "open" /\ b.state = "open" =>
          \A i \in a.report : i \in b.report => a = b
    BY DEF RequestsApart
  <2>4. \A a \in requests' :
          \A i \in a.items : (i \in counted \/ Reported(i) \/ i \in told \/ i \in untold)'
    BY <1>1, <1>2 DEF RequestsApart
  <2> QED BY <2>1, <2>2, <2>3, <2>4 DEF RequestsApart
<1> QED BY <1>3, <1>4, <1>5, <1>6

\* A late answer changes nothing but the pause.
LEMMA LateKeepsLedger ==
  ASSUME Ledger(captured, queue, counted), NEW r \in requests, ~r.awaited, r.state # "open",
         requests' = requests \ {r},
         UNCHANGED <<captured, queue, counted, sending, delivered, told, untold>>
  PROVE  Ledger(captured, queue, counted)'
<1> USE DEF Ledger
<1>1. \A i : (Sent(i)' <=> Sent(i)) /\ (Reported(i)' <=> Reported(i))
  BY DEF Sent, Reported
<1>2. TypesOK(captured, queue, counted)' /\ OneAwaited'
  BY DEF TypesOK, OneAwaited
<1>3. RequestsApart(counted)'
  BY <1>1 DEF RequestsApart
<1>4. \A i \in 1 .. captured : (Accounted(i, queue, counted) /\ OnceOnly(i, queue, counted))'
  BY <1>1 DEF Accounted, OnceOnly
<1> QED BY <1>2, <1>3, <1>4
----------------------------------------------------------------------------
(***************************************************************************)
(* The steps.                                                              *)
(***************************************************************************)
LEMMA TransportInitInv == TransportInit => TransportInv
<1> SUFFICES ASSUME TransportInit
             PROVE  TransportInv
  OBVIOUS
<1>1. /\ captured = 0 /\ queue = {} /\ counted = {} /\ sending = FALSE /\ requests = {}
      /\ delivered = {} /\ told = {} /\ untold = {} /\ exit = "running" /\ fatal = 0
  BY DEF TransportInit
<1>2. CrashOK
  BY <1>1 DEF CrashOK
<1>3. TypesOK(captured, queue, counted)
  BY <1>1 DEF TypesOK
<1>4. RequestsApart(counted) /\ OneAwaited
  BY <1>1 DEF RequestsApart, OneAwaited
<1>5. 1 .. captured = {}
  BY <1>1
<1> QED BY <1>2, <1>3, <1>4, <1>5 DEF TransportInv, Ledger

LEMMA CaptureInv ==
  ASSUME TransportInv, Capture \/ DropByClient
  PROVE  TransportInv'
<1>1. captured \in Nat /\ queue \subseteq 1 .. captured
  BY DEF TransportInv, Ledger, TypesOK
<1>2. CASE Capture
  <2>1. Ledger(captured, queue, counted)'
    <3>1. Ledger(Item, Queued, Dropped)
      BY EnqueueKeepsLedger DEF TransportInv
    <3> QED BY <1>2, <3>1
            DEF Capture, Ledger, TypesOK, RequestsApart, OneAwaited, Accounted, OnceOnly,
                Sent, Reported, serverVars
  <2>2. CrashOK'
    BY <1>1, <1>2 DEF TransportInv, CrashOK, Capture, Item, Queued, exitVars
  <2> QED BY <2>1, <2>2 DEF TransportInv
<1>3. CASE DropByClient
  <2>1. Ledger(captured, queue, counted)'
    <3>1. Ledger(Item, queue, counted \cup {Item})
      BY EnqueueKeepsLedger DEF TransportInv
    <3> QED BY <1>3, <3>1
            DEF DropByClient, Ledger, TypesOK, RequestsApart, OneAwaited, Accounted, OnceOnly,
                Sent, Reported, serverVars
  <2>2. CrashOK'
    BY <1>1, <1>3 DEF TransportInv, CrashOK, DropByClient, Item, exitVars
  <2> QED BY <2>1, <2>2 DEF TransportInv
<1> QED BY <1>2, <1>3

LEMMA FlushInv ==
  ASSUME TransportInv, TimerFires \/ FlushCalled
  PROVE  TransportInv'
<1>1. /\ exit # "gone" /\ Flush(queue, counted)
      /\ UNCHANGED <<captured, delivered, told, untold, exit, fatal>>
  BY DEF TimerFires, FlushCalled, serverVars, exitVars
<1>2. Ledger(captured, queue, counted)'
  BY <1>1, FlushKeepsLedger DEF TransportInv
<1>3. queue' \subseteq queue
  BY <1>1 DEF Flush, StartSend, EncodeThrows
<1>4. CrashOK'
  BY <1>1, <1>3 DEF TransportInv, CrashOK
<1> QED BY <1>2, <1>4 DEF TransportInv

\* An uncaught exception leaves its item in the queue only if a flush is under way.
LEMMA CrashInv ==
  ASSUME TransportInv, UncaughtException
  PROVE  TransportInv'
<1>1. /\ captured' = Item /\ fatal' = Item
      /\ UNCHANGED <<delivered, told, untold>>
  BY DEF UncaughtException, serverVars
<1>2. PICK q, c : /\ Flush(q, c)
                  /\ Ledger(Item, q, c)
  BY EnqueueKeepsLedger DEF UncaughtException, TransportInv
<1>3. Ledger(captured, queue, counted)'
  BY <1>1, <1>2, FlushKeepsLedger
<1>4. CrashOK'
  <2>1. Item \in Nat
    BY <1>2 DEF Ledger, TypesOK
  <2>2. sending \in BOOLEAN /\ sending' \in BOOLEAN
    BY <1>2, <1>3 DEF Ledger, TypesOK
  <2>3. queue' = {} \/ (sending' /\ requests' = requests)
    BY <1>2, <2>2 DEF Flush, NoFlush, StartSend, EncodeThrows
  <2>4. exit' = "leaving" => requests' # requests
    BY DEF UncaughtException
  <2> QED BY <1>1, <2>1, <2>3, <2>4 DEF CrashOK
<1> QED BY <1>3, <1>4 DEF TransportInv

LEMMA NetworkInv ==
  ASSUME TransportInv, NEW r \in requests, Takes200(r) \/ Refuses429(r) \/ RequestFails(r)
  PROVE  TransportInv'
<1>1. PICK state \in {"ok", "limited", "failed"} : Decide(r, state)
  BY DEF Takes200, Refuses429, RequestFails
<1>2. \/ told' = told \cup r.report /\ UNCHANGED untold
      \/ untold' = untold \cup r.report /\ UNCHANGED told
  BY DEF Takes200, Refuses429, RequestFails
<1>3. Ledger(captured, queue, counted)'
  BY <1>1, <1>2, DecideKeepsLedger DEF TransportInv
<1>4. CrashOK'
  BY <1>1 DEF TransportInv, CrashOK, Decide, clientVars, exitVars
<1> QED BY <1>3, <1>4 DEF TransportInv

LEMMA AnswerInv ==
  ASSUME TransportInv, NEW r \in requests, Resolves(r)
  PROVE  TransportInv'
<1>1. /\ r.state # "open" /\ requests' = requests \ {r} /\ exit # "gone"
      /\ UNCHANGED <<captured, queue, told, untold, exit, fatal>>
  BY DEF Resolves, serverVars, exitVars
<1>2. r \in Request /\ sending \in BOOLEAN
  BY DEF TransportInv, Ledger, TypesOK
<1>3. CASE r.awaited
  <2>1. sending' = FALSE
    BY <1>3 DEF Resolves
  <2>2. \/ counted' = counted \cup r.items /\ UNCHANGED delivered
        \/ delivered' = delivered \cup r.items /\ UNCHANGED counted
    BY <1>3 DEF Resolves
  <2>3. Ledger(captured, queue, counted)'
    <3>1. \A s \in requests' : ~LeftOf(s, r)
      BY <1>1, <1>3 DEF LeftOf, TransportInv, Ledger, RequestsApart
    <3> QED BY <1>1, <1>3, <2>1, <2>2, <3>1, EndKeepsLedger DEF TransportInv
  <2> QED BY <1>1, <2>3 DEF TransportInv, CrashOK
<1>4. CASE ~r.awaited
  <2>1. UNCHANGED <<sending, counted, delivered>>
    BY <1>2, <1>4 DEF Resolves
  <2>2. Ledger(captured, queue, counted)'
    BY <1>1, <1>4, <2>1, LateKeepsLedger DEF TransportInv
  <2> QED BY <1>1, <2>2 DEF TransportInv, CrashOK
<1> QED BY <1>2, <1>3, <1>4 DEF Request

LEMMA TimeoutInv ==
  ASSUME TransportInv, NEW r \in requests, TimesOut(r)
  PROVE  TransportInv'
<1> DEFINE s == [r EXCEPT !.awaited = FALSE]
<1>1. /\ r.awaited /\ requests' = (requests \ {r}) \cup {s} /\ exit # "gone"
      /\ counted' = counted \cup r.items /\ sending' = FALSE
      /\ UNCHANGED <<captured, queue, delivered, told, untold, exit, fatal>>
  BY DEF TimesOut, serverVars, exitVars
<1>2. s \in Request /\ s.items = r.items /\ s.report = r.report /\ s.state = r.state /\ ~s.awaited
  BY DEF TransportInv, Ledger, TypesOK, Request
<1> HIDE DEF s
<1>3. LeftOf(s, r) /\ \A u \in requests : ~(u # r /\ LeftOf(u, r))
  BY <1>2 DEF LeftOf, TransportInv, Ledger, RequestsApart
<1>4. Ledger(captured, queue, counted)'
  BY <1>1, <1>2, <1>3, EndKeepsLedger DEF TransportInv
<1> QED BY <1>1, <1>4 DEF TransportInv, CrashOK

LEMMA QuietInv ==
  ASSUME TransportInv,
         UNCHANGED <<captured, queue, counted, sending, requests, delivered, told, untold, fatal>>,
         UNCHANGED exit \/ (exit = "leaving" /\ exit' = "gone")
  PROVE  TransportInv'
BY DEF TransportInv, CrashOK, Ledger, TypesOK, RequestsApart, OneAwaited, Accounted, OnceOnly,
       Sent, Reported

LEMMA TransportStepInv == TransportInv /\ [TransportNext]_transportVars => TransportInv'
<1> SUFFICES ASSUME TransportInv, [TransportNext]_transportVars
             PROVE  TransportInv'
  OBVIOUS
<1>1. CASE Capture \/ DropByClient
  BY <1>1, CaptureInv
<1>2. CASE TimerFires \/ FlushCalled
  BY <1>2, FlushInv
<1>3. CASE UncaughtException
  BY <1>3, CrashInv
<1>4. CASE Leave
  BY <1>4, QuietInv DEF Leave, clientVars, serverVars
<1>5. ASSUME NEW r \in requests, Takes200(r) \/ Refuses429(r) \/ RequestFails(r)
      PROVE  TransportInv'
  BY <1>5, NetworkInv
<1>6. ASSUME NEW r \in requests, Resolves(r)
      PROVE  TransportInv'
  BY <1>6, AnswerInv
<1>7. ASSUME NEW r \in requests, TimesOut(r)
      PROVE  TransportInv'
  BY <1>7, TimeoutInv
<1>8. CASE PauseEnds
  BY <1>8, QuietInv DEF PauseEnds, serverVars, exitVars
<1>9. CASE UNCHANGED transportVars
  BY <1>9, QuietInv DEF transportVars, clientVars, serverVars, exitVars
<1> QED BY <1>1, <1>2, <1>3, <1>4, <1>5, <1>6, <1>7, <1>8, <1>9 DEF TransportNext

----------------------------------------------------------------------------
(***************************************************************************)
(* The theorems.                                                           *)
(***************************************************************************)
\* The ledger holds, of whatever the application, the network and the clock do.
THEOREM TransportInvariant == TransportSpec => []TransportInv
<1> QED BY TransportInitInv, TransportStepInv, PTL DEF TransportSpec

\* The sets the ledger speaks of are the fates.
LEMMA FatesAreAccounted ==
  ASSUME NEW i
  PROVE  /\ DOMAIN Fates = 1 .. 7
         /\ i \in Fates[1] <=> i \in queue
         /\ i \in Fates[2] <=> Sent(i)
         /\ i \in Fates[3] <=> i \in delivered
         /\ i \in Fates[4] <=> i \in counted
         /\ i \in Fates[5] <=> Reported(i)
         /\ i \in Fates[6] <=> i \in told
         /\ i \in Fates[7] <=> i \in untold
<1>1. i \in UNION {r.items : r \in Awaited} <=> Sent(i)
  BY DEF Awaited, Sent
<1>2. i \in UNION {r.report : r \in {q \in requests : q.state = "open"}} <=> Reported(i)
  BY DEF Reported
<1> QED BY <1>1, <1>2 DEF Fates

\* "NEVER silently lose an event" (transport.ts:13-16): every item that was captured
\* has one fate and only one.
THEOREM TransportLosesNothingSilently == TransportSpec => []EveryItemHasOneFate
<1>1. TransportInv => EveryItemHasOneFate
  <2> SUFFICES ASSUME TransportInv, NEW i \in 1 .. captured
               PROVE  \E n \in DOMAIN Fates :
                        i \in Fates[n] /\ \A m \in DOMAIN Fates \ {n} : i \notin Fates[m]
    BY DEF EveryItemHasOneFate
  <2>1. Accounted(i, queue, counted) /\ OnceOnly(i, queue, counted)
    BY DEF TransportInv, Ledger
  <2> DEFINE At(n) == i \in Fates[n]
  <2>2. /\ DOMAIN Fates = 1 .. 7
        /\ At(1) \/ At(2) \/ At(3) \/ At(4) \/ At(5) \/ At(6) \/ At(7)
        /\ At(1) => ~At(2) /\ ~At(3) /\ ~At(4) /\ ~At(5) /\ ~At(6) /\ ~At(7)
        /\ At(2) => ~At(3) /\ ~At(4) /\ ~At(5) /\ ~At(6) /\ ~At(7)
        /\ At(3) => ~At(4) /\ ~At(5) /\ ~At(6) /\ ~At(7)
        /\ At(4) => ~At(5) /\ ~At(6) /\ ~At(7)
        /\ At(5) => ~At(6) /\ ~At(7)
        /\ At(6) => ~At(7)
    BY <2>1, FatesAreAccounted DEF Accounted, OnceOnly
  <2> HIDE DEF At
  <2>3. \E n \in 1 .. 7 : At(n) /\ \A m \in 1 .. 7 \ {n} : ~At(m)
    BY <2>2
  <2> QED BY <2>2, <2>3 DEF At
<1> QED BY <1>1, TransportInvariant, PTL

\* One flush waits at a time, `sending` says whether one does, and only a flush under
\* way keeps the error of a crash in the queue (transport.ts:133).
THEOREM TransportSendsOneAtATime == TransportSpec => []OneFlushWaits
<1>1. TransportInv => OneFlushWaits
  <2> SUFFICES ASSUME TransportInv
               PROVE  OneFlushWaits
    OBVIOUS
  <2>1. CASE sending
    <3>1. PICK r \in requests : r.awaited
      BY <2>1 DEF TransportInv, Ledger, OneAwaited
    <3>2. Awaited = {r}
      BY <3>1 DEF TransportInv, Ledger, OneAwaited, Awaited
    <3>3. Cardinality(Awaited) = 1
      BY <3>2, FS_Singleton
    <3> QED BY <2>1, <3>3 DEF OneFlushWaits
  <2>2. CASE ~sending
    <3>1. Awaited = {}
      BY <2>2 DEF TransportInv, Ledger, OneAwaited, Awaited
    <3>2. Cardinality(Awaited) = 0
      BY <3>1, FS_EmptySet
    <3> QED BY <2>2, <3>2 DEF OneFlushWaits, TransportInv, CrashOK
  <2> QED BY <2>1, <2>2
<1> QED BY <1>1, TransportInvariant, PTL
=============================================================================
