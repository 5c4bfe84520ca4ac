---------------------------- MODULE AlerterProofs ----------------------------
(***************************************************************************)
(* For any number of replicas, rules, issues, signals, edits and faults:   *)
(* one replica never pages twice within a throttle window; a signal that   *)
(* was acknowledged was decided; and pages are lost only by faults.        *)
(*                                                                         *)
(* The first: a claim's snapshot may miss rows that commit after it was    *)
(* taken.  Such rows are never of the same replica: a rule is served by    *)
(* one goroutine of each replica, which claims one key at a time, so while *)
(* its claim is under way the replica adds no row for that key.            *)
(*                                                                         *)
(* The second: a signal is in one replica's hands at a time, because the   *)
(* group hands out each entry once and nothing is reclaimed.  What it owes *)
(* is on the replica's list of work until a claim decides it, and a claim  *)
(* decides by the clock of its snapshot, which is no earlier than the      *)
(* loading of the rules.                                                   *)
(***************************************************************************)
EXTENDS Alerter, RedisStreamProofs, TLAPS

\* A goroutine has work only of the rules it serves.
WorkOfKind ==
  /\ work = [t \in Thread |-> work[t]]
  /\ \A t \in Thread : \A k \in work[t] : KindOf[k[1]] = t[2]

ClaimOfKind ==
  \A t \in Thread : claim[t] # NoClaim => KindOf[claim[t].key[1]] = t[2]

\* A claim that will be granted still finds no recent row of its own replica.
ClaimStandsClear ==
  \A t \in Thread : claim[t] # NoClaim /\ ~claim[t].blocked =>
    \A m \in DOMAIN history :
      history[m].key = claim[t].key /\ history[m].by = t[1] =>
        history[m].at + Throttle <= claim[t].at

ThrottleInv ==
  /\ ThrottleTypeOK
  /\ ClaimOfKind
  /\ ClaimStandsClear
  /\ OnlyReplicasPageTwice

PagingInv == WorkOfKind /\ ThrottleInv

Claims == [key : Key, at : Nat, blocked : BOOLEAN]
Rows == [key : Key, at : Nat, by : Replica]

----------------------------------------------------------------------------
LEMMA ThreadFields ==
  ASSUME NEW t \in Thread
  PROVE  t[1] \in Replica /\ t[2] \in Kinds /\ t = <<t[1], t[2]>>
BY DEF Thread

LEMMA ClaimFields ==
  ASSUME ThrottleTypeOK, NEW t \in Thread, claim[t] # NoClaim
  PROVE  /\ claim[t] \in Claims
         /\ claim[t].key \in Key /\ claim[t].at \in Nat
<1>1. claim[t] \in Claims
  BY DEF ThrottleTypeOK, Claims
<1>2. claim[t].key \in Key
  BY <1>1, Zenon DEF Claims
<1>3. claim[t].at \in Nat
  BY <1>1, Zenon DEF Claims
<1> QED BY <1>1, <1>2, <1>3

LEMMA RowFields ==
  ASSUME ThrottleTypeOK, NEW m \in DOMAIN history
  PROVE  /\ m \in Nat /\ history[m] \in Rows
         /\ history[m].key \in Key /\ history[m].at \in Nat /\ history[m].by \in Replica
<1>1. history \in Seq(Rows) /\ m \in 1 .. Len(history)
  BY DEF ThrottleTypeOK, Rows
<1>2. history[m] \in Rows /\ m \in Nat
  BY <1>1
<1> QED BY <1>2 DEF Rows

LEMMA ThrottleInitInv == ThrottleInit => ThrottleInv
BY DEF ThrottleInit, ThrottleInv, ThrottleTypeOK, ClaimOfKind, ClaimStandsClear,
       OnlyReplicasPageTwice

----------------------------------------------------------------------------
LEMMA BeginClaimInv ==
  ASSUME ThrottleInv, NEW t \in Thread, NEW key \in Key, KindOf[key[1]] = t[2],
         BeginClaim(t, key)
  PROVE  ThrottleInv'
<1> DEFINE c == [key |-> key, at |-> clock, blocked |-> Recent(key, clock)]
<1> USE DEF ThrottleInv
<1>1. c \in Claims /\ clock \in Nat
  BY DEF ThrottleTypeOK, Claims, Recent
<1>2. claim' = [claim EXCEPT ![t] = c] /\ history' = history
  BY DEF BeginClaim
<1>3. \A u \in Thread : claim'[u] = IF u = t THEN c ELSE claim[u]
  BY <1>2 DEF ThrottleTypeOK
<1>4. ThrottleTypeOK'
  BY <1>1, <1>2 DEF ThrottleTypeOK, BeginClaim, Claims
<1>5. ClaimOfKind'
  BY <1>3 DEF ClaimOfKind
<1>6. ClaimStandsClear'
  <2> SUFFICES ASSUME NEW u \in Thread, claim'[u] # NoClaim, ~claim'[u].blocked,
                      NEW m \in DOMAIN history,
                      history[m].key = claim'[u].key, history[m].by = u[1]
               PROVE  history[m].at + Throttle <= claim'[u].at
    BY <1>2 DEF ClaimStandsClear
  <2>1. CASE u # t
    BY <2>1, <1>3 DEF ClaimStandsClear
  <2>2. CASE u = t
    <3>1. ~Recent(key, clock) /\ history[m].key = key /\ claim'[u].at = clock
      BY <2>2, <1>3
    <3> QED BY <3>1, <1>1, RowFields, ThrottleAssumption DEF Recent
  <2> QED BY <2>1, <2>2
<1>7. OnlyReplicasPageTwice'
  BY <1>2 DEF OnlyReplicasPageTwice
<1> QED BY <1>4, <1>5, <1>6, <1>7

LEMMA WinClaimInv ==
  ASSUME ThrottleInv, NEW t \in Thread, WinClaim(t)
  PROVE  ThrottleInv'
<1> USE DEF ThrottleInv
<1> DEFINE n == Len(history) + 1
<1>1. Row(t) \in Rows /\ claim[t] # NoClaim /\ ~claim[t].blocked
  BY ClaimFields, ThreadFields DEF WinClaim, Inserts, Row, Rows
<1>2. history' = Append(history, Row(t)) /\ claim' = [claim EXCEPT ![t] = NoClaim]
  BY DEF WinClaim
<1>3. \A u \in Thread : claim'[u] = IF u = t THEN NoClaim ELSE claim[u]
  BY <1>2 DEF ThrottleTypeOK
<1>4. /\ DOMAIN history' = DOMAIN history \cup {n}
      /\ DOMAIN history = 1 .. Len(history) /\ Len(history) \in Nat
      /\ history'[n] = Row(t)
      /\ \A m \in DOMAIN history : history'[m] = history[m]
  BY <1>1, <1>2 DEF ThrottleTypeOK, Rows
<1>5. ThrottleTypeOK'
  BY <1>1, <1>2 DEF ThrottleTypeOK, WinClaim, Rows
<1>6. ClaimOfKind'
  BY <1>3 DEF ClaimOfKind
<1>7. ClaimStandsClear'
  <2> SUFFICES ASSUME NEW u \in Thread, u # t, claim[u] # NoClaim, ~claim[u].blocked,
                      NEW m \in DOMAIN history',
                      history'[m].key = claim[u].key, history'[m].by = u[1]
               PROVE  history'[m].at + Throttle <= claim[u].at
    BY <1>3 DEF ClaimStandsClear
  <2>1. CASE m \in DOMAIN history
    BY <2>1, <1>4 DEF ClaimStandsClear
  <2>2. CASE m = n
    <3>1. claim[t].key = claim[u].key /\ t[1] = u[1]
      BY <2>2, <1>4 DEF Row
    <3>2. t[2] = u[2]
      BY <3>1, <1>1 DEF ClaimOfKind
    <3> QED BY <3>1, <3>2, ThreadFields
  <2> QED BY <2>1, <2>2, <1>4
<1>8. OnlyReplicasPageTwice'
  <2> SUFFICES ASSUME NEW m \in DOMAIN history', NEW k \in DOMAIN history', m < k,
                      history'[m].key = history'[k].key,
                      history'[m].at + Throttle > history'[k].at,
                      history'[m].by = history'[k].by
               PROVE  FALSE
    BY DEF OnlyReplicasPageTwice
  <2>1. CASE k \in DOMAIN history
    <3>1. m \in DOMAIN history
      BY <2>1, <1>4
    <3> QED BY <3>1, <2>1, <1>4 DEF OnlyReplicasPageTwice
  <2>2. CASE k = n
    <3>1. m \in DOMAIN history
      BY <2>2, <1>4
    <3>2. /\ history[m].key = claim[t].key /\ history[m].by = t[1]
          /\ history[m].at + Throttle > claim[t].at
      BY <2>2, <3>1, <1>4 DEF Row
    <3>3. history[m].at + Throttle <= claim[t].at
      BY <3>1, <3>2, <1>1 DEF ClaimStandsClear
    <3> QED BY <3>2, <3>3, <3>1, <1>1, RowFields, ClaimFields, ThrottleAssumption
  <2> QED BY <2>1, <2>2, <1>4
<1> QED BY <1>5, <1>6, <1>7, <1>8

\* Claims that end without a row.
LEMMA FewerClaimsInv ==
  ASSUME ThrottleInv, claim' \in [Thread -> Claims \cup {NoClaim}],
         \A t \in Thread : claim'[t] = claim[t] \/ claim'[t] = NoClaim,
         UNCHANGED <<rule, clock, history, edits>>
  PROVE  ThrottleInv'
<1> USE DEF ThrottleInv
<1>1. ThrottleTypeOK'
  BY DEF ThrottleTypeOK, Claims
<1>2. ClaimOfKind' /\ ClaimStandsClear'
  BY DEF ClaimOfKind, ClaimStandsClear
<1>3. OnlyReplicasPageTwice'
  BY DEF OnlyReplicasPageTwice
<1> QED BY <1>1, <1>2, <1>3

LEMMA DropClaimInv ==
  ASSUME ThrottleInv, NEW t \in Thread, DropClaim(t)
  PROVE  ThrottleInv'
<1>1. claim \in [Thread -> Claims \cup {NoClaim}]
  BY DEF ThrottleInv, ThrottleTypeOK, Claims
<1> QED BY <1>1, FewerClaimsInv DEF DropClaim

LEMMA DropClaimsOfInv ==
  ASSUME ThrottleInv, NEW w \in Replica, DropClaimsOf(w)
  PROVE  ThrottleInv'
<1>1. claim \in [Thread -> Claims \cup {NoClaim}]
  BY DEF ThrottleInv, ThrottleTypeOK, Claims
<1> QED BY <1>1, FewerClaimsInv DEF DropClaimsOf

LEMMA EditRuleInv ==
  ASSUME ThrottleInv, NEW r \in Rule, NEW status \in {"on", "off", "gone"},
         EditRule(r, status)
  PROVE  ThrottleInv'
<1> USE DEF ThrottleInv, EditRule
<1>1. ThrottleTypeOK'
  BY DEF ThrottleTypeOK
<1>2. ClaimOfKind' /\ ClaimStandsClear'
  BY DEF ClaimOfKind, ClaimStandsClear
<1>3. OnlyReplicasPageTwice'
  BY DEF OnlyReplicasPageTwice
<1> QED BY <1>1, <1>2, <1>3

LEMMA TickInv == ThrottleInv /\ Tick => ThrottleInv'
<1> SUFFICES ASSUME ThrottleInv, Tick
             PROVE  ThrottleInv'
  OBVIOUS
<1> USE DEF ThrottleInv, Tick
<1>1. ThrottleTypeOK'
  BY DEF ThrottleTypeOK
<1>2. ClaimOfKind' /\ ClaimStandsClear'
  BY DEF ClaimOfKind, ClaimStandsClear
<1>3. OnlyReplicasPageTwice'
  BY DEF OnlyReplicasPageTwice
<1> QED BY <1>1, <1>2, <1>3

LEMMA ThrottleStutters == ThrottleInv /\ UNCHANGED throttleVars => ThrottleInv'
BY DEF ThrottleInv, throttleVars, ThrottleTypeOK, ClaimOfKind, ClaimStandsClear,
       OnlyReplicasPageTwice

----------------------------------------------------------------------------
\* A goroutine's work is replaced by less of it, or by work of its own kind.
LEMMA NewWorkOfKind ==
  ASSUME WorkOfKind, NEW t \in Thread, NEW keys, work' = [work EXCEPT ![t] = keys],
         \A k \in keys : KindOf[k[1]] = t[2]
  PROVE  WorkOfKind'
BY DEF WorkOfKind

LEMMA LessWork ==
  ASSUME WorkOfKind, NEW t \in Thread, Done(t)
  PROVE  WorkOfKind'
BY NewWorkOfKind DEF Done, WorkOfKind

LEMMA SameWork == WorkOfKind /\ UNCHANGED work => WorkOfKind'
BY DEF WorkOfKind

LEMMA LoopStepInv ==
  ASSUME PagingInv, NEW w \in Replica, LoopStep(w)
  PROVE  PagingInv'
<1> USE DEF PagingInv
<1>1. Loop(w) \in Thread /\ Loop(w)[2] = "signal"
  BY DEF Loop, Thread, Kinds
<1>2. CASE \E i \in Ids : LoadRules(w, i)
  <2> PICK i \in Ids : LoadRules(w, i)
    BY <1>2
  <2> DEFINE keys == {<<r, entries[i].issue>> : r \in On("signal") \cap entries[i].matches}
  <2>1. work' = [work EXCEPT ![Loop(w)] = keys]
    BY DEF LoadRules
  <2>2. \A k \in keys : KindOf[k[1]] = Loop(w)[2]
    BY <1>1 DEF On
  <2>3. WorkOfKind'
    BY <1>1, <2>1, <2>2, NewWorkOfKind
  <2> QED BY <2>3, ThrottleStutters DEF LoadRules
<1>3. CASE ~\E i \in Ids : LoadRules(w, i)
  <2>1. UNCHANGED throttleVars /\ UNCHANGED work
    BY <1>3 DEF LoopStep, ConsumeSignals, Unreadable, Handled, AckSignals, fireVars
  <2> QED BY <2>1, SameWork, ThrottleStutters
<1> QED BY <1>2, <1>3

LEMMA FireStepInv ==
  ASSUME PagingInv, NEW t \in Thread, FireStep(t)
  PROVE  PagingInv'
<1> USE DEF PagingInv
<1>1. ASSUME NEW key \in Key, Fire(t, key)
      PROVE  PagingInv'
  BY <1>1, BeginClaimInv, SameWork DEF Fire, WorkOfKind, fireVars
<1>2. CASE Granted(t)
  BY <1>2, WinClaimInv, LessWork DEF Granted
<1>3. CASE Throttled(t)
  BY <1>3, DropClaimInv, LessWork DEF Throttled
<1>4. CASE Send(t)
  BY <1>4, SameWork, ThrottleStutters DEF Send
<1> QED BY <1>1, <1>2, <1>3, <1>4 DEF FireStep

LEMMA BrokenStepInv ==
  ASSUME PagingInv, NEW w \in Replica, BrokenStep(w)
  PROVE  PagingInv'
<1> USE DEF PagingInv
<1>1. ASSUME NEW i \in Ids, LoadFails(w, i)
      PROVE  PagingInv'
  BY <1>1, SameWork, ThrottleStutters DEF LoadFails, fireVars
<1>2. ASSUME NEW t \in Thread, ClaimFails(t)
      PROVE  PagingInv'
  <2>1. WorkOfKind'
    BY <1>2, LessWork DEF ClaimFails
  <2>2. DropClaim(t) \/ WinClaim(t)
    BY <1>2 DEF ClaimFails
  <2> QED BY <2>1, <2>2, DropClaimInv, WinClaimInv
<1>3. ASSUME NEW t \in Thread, SendFails(t)
      PROVE  PagingInv'
  BY <1>3, SameWork, ThrottleStutters DEF SendFails
<1>4. CASE AckSignalsFails(w)
  BY <1>4, SameWork, ThrottleStutters DEF AckSignalsFails, fireVars
<1>5. CASE CrashReplica(w)
  <2>1. WorkOfKind'
    BY <1>5 DEF CrashReplica, WorkOfKind
  <2> QED BY <1>5, <2>1, DropClaimsOfInv DEF CrashReplica
<1> QED BY <1>1, <1>2, <1>3, <1>4, <1>5 DEF BrokenStep

LEMMA PassInv ==
  ASSUME PagingInv, NEW w \in Replica, NEW kind \in Kinds, NEW targets,
         Pass(w, kind, targets)
  PROVE  PagingInv'
<1> USE DEF PagingInv
<1> DEFINE t == <<w, kind>>
<1>1. t \in Thread /\ t[2] = kind
  BY DEF Thread
<1>2. PICK keys \in SUBSET (On(kind) \X targets) : work' = [work EXCEPT ![t] = keys]
  BY DEF Pass
<1>3. \A k \in keys : KindOf[k[1]] = t[2]
  BY <1>1 DEF On
<1>4. WorkOfKind'
  BY <1>1, <1>2, <1>3, NewWorkOfKind
<1> QED BY <1>4, ThrottleStutters DEF Pass

LEMMA AlertNextInv == PagingInv /\ [AlertNext]_alertVars => PagingInv'
<1> SUFFICES ASSUME PagingInv, [AlertNext]_alertVars
             PROVE  PagingInv'
  OBVIOUS
<1>1. ASSUME NEW w \in Replica, LoopStep(w) \/ BrokenStep(w)
      PROVE  PagingInv'
  BY <1>1, LoopStepInv, BrokenStepInv
<1>2. ASSUME NEW t \in Thread, FireStep(t)
      PROVE  PagingInv'
  BY <1>2, FireStepInv
<1>3. ASSUME NEW w \in Replica, EvaluateFrequency(w) \/ EvaluateMetrics(w)
      PROVE  PagingInv'
  BY <1>3, PassInv DEF EvaluateFrequency, EvaluateMetrics, Kinds
<1>4. ASSUME NEW signals, ProcessorPublish(signals)
      PROVE  PagingInv'
  BY <1>4, SameWork, ThrottleStutters DEF ProcessorPublish, fireVars, PagingInv
<1>5. ASSUME NEW r \in Rule, NEW status \in {"on", "off", "gone"}, RuleEdited(r, status)
      PROVE  PagingInv'
  BY <1>5, EditRuleInv, SameWork DEF RuleEdited, fireVars, PagingInv
<1>6. CASE ClockTicks
  BY <1>6, TickInv, SameWork DEF ClockTicks, fireVars, PagingInv
<1>7. CASE UNCHANGED alertVars
  BY <1>7, SameWork, ThrottleStutters DEF alertVars, fireVars, PagingInv
<1> QED BY <1>1, <1>2, <1>3, <1>4, <1>5, <1>6, <1>7 DEF AlertNext

\* However many replicas, rules, restarts, failed claims and edits: two pages
\* about one target within a throttle window (ClaimAlert, alerts.go:78-113) are
\* of two replicas.
THEOREM OneReplicaPagesOnce == AlertSpec => []OnlyReplicasPageTwice
<1>1. AlertInit => PagingInv
  BY ThrottleInitInv DEF AlertInit, PagingInv, WorkOfKind
<1>2. PagingInv => OnlyReplicasPageTwice
  BY DEF PagingInv, ThrottleInv
<1> QED BY <1>1, <1>2, AlertNextInv, PTL DEF AlertSpec

----------------------------------------------------------------------------
(***************************************************************************)
(* Pages are lost only by faults.                                          *)
(***************************************************************************)
PagesOK ==
  /\ broken \in Nat
  /\ \A t \in Thread : claim[t] # NoClaim => page[t] = 0
  /\ page = [t \in Thread |-> page[t]]
  /\ Cardinality(Lost) <= 3 * broken

LEMMA ThreeKinds == Cardinality(Kinds) = 3
<1>1. IsFiniteSet({"signal"}) /\ Cardinality({"signal"}) = 1
  BY FS_Singleton
<1>2. /\ IsFiniteSet({"signal"} \cup {"frequency"})
      /\ Cardinality({"signal"} \cup {"frequency"}) = 2
  BY <1>1, FS_AddElement
<1>3. Cardinality(({"signal"} \cup {"frequency"}) \cup {"metric"}) = 3
  BY <1>2, FS_AddElement
<1>4. Kinds = ({"signal"} \cup {"frequency"}) \cup {"metric"}
  BY DEF Kinds
<1> QED BY <1>3, <1>4

LEMMA LostIsFinite ==
  ASSUME ThrottleTypeOK
  PROVE  IsFiniteSet(Lost) /\ Cardinality(Lost) \in Nat
<1>1. DOMAIN history = 1 .. Len(history) /\ Len(history) \in Nat
  BY DEF ThrottleTypeOK
<1>2. IsFiniteSet(1 .. Len(history))
  BY <1>1, FS_Interval
<1>3. Lost \in SUBSET (1 .. Len(history))
  BY <1>1 DEF Lost
<1> QED BY <1>2, <1>3, FS_Subset, FS_CardinalityType

\* A step that is no fault loses nothing.
LEMMA NothingLost ==
  ASSUME PagesOK, ThrottleTypeOK, ThrottleTypeOK',
         Lost' \subseteq Lost, broken' = broken
  PROVE  Cardinality(Lost') <= 3 * broken'
<1>1. Cardinality(Lost') <= Cardinality(Lost)
  BY LostIsFinite, FS_Subset
<1>2. Cardinality(Lost') \in Nat
  <2>1. Lost' \in SUBSET Lost
    OBVIOUS
  <2> QED BY <2>1, LostIsFinite, FS_Subset, FS_CardinalityType
<1> QED BY <1>1, <1>2, LostIsFinite DEF PagesOK

LEMMA OneMore ==
  ASSUME NEW S, NEW x, IsFiniteSet(S)
  PROVE  /\ IsFiniteSet(S \cup {x}) /\ Cardinality(S \cup {x}) \in Nat
         /\ Cardinality(S) \in Nat /\ Cardinality(S \cup {x}) <= Cardinality(S) + 1
<1>1. /\ IsFiniteSet(S \cup {x})
      /\ Cardinality(S \cup {x}) = IF x \in S THEN Cardinality(S) ELSE Cardinality(S) + 1
  BY FS_AddElement
<1>2. Cardinality(S) \in Nat /\ Cardinality(S \cup {x}) \in Nat
  BY <1>1, FS_CardinalityType
<1> QED BY <1>1, <1>2

\* A fault loses at most what three goroutines had in hand.
LEMMA ThreeLost ==
  ASSUME PagesOK, ThrottleTypeOK, NEW a, NEW b, NEW c,
         Lost' \subseteq Lost \cup {a} \cup {b} \cup {c}, broken' = broken + 1
  PROVE  Cardinality(Lost') <= 3 * broken'
<1> DEFINE A == Lost \cup {a}
           B == A \cup {b}
           C == B \cup {c}
           n == Cardinality(Lost)
<1>1. IsFiniteSet(Lost) /\ n \in Nat
  BY LostIsFinite
<1>2. IsFiniteSet(A) /\ Cardinality(A) \in Nat /\ Cardinality(A) <= n + 1
  BY <1>1, OneMore
<1>3. IsFiniteSet(B) /\ Cardinality(B) \in Nat /\ Cardinality(B) <= Cardinality(A) + 1
  BY <1>2, OneMore
<1>4. IsFiniteSet(C) /\ Cardinality(C) \in Nat /\ Cardinality(C) <= Cardinality(B) + 1
  BY <1>3, OneMore
<1>5. Cardinality(Lost') <= Cardinality(C) /\ Cardinality(Lost') \in Nat
  <2>1. Lost' \in SUBSET C
    OBVIOUS
  <2> HIDE DEF C
  <2> QED BY <1>4, <2>1, FS_Subset, FS_CardinalityType
<1> HIDE DEF A, B, C, n
<1>6. n <= 3 * broken /\ broken \in Nat
  BY DEF PagesOK, n
<1> QED BY <1>1, <1>2, <1>3, <1>4, <1>5, <1>6

\* Steps that touch no page and add no row.
LEMMA PagesStutter ==
  ASSUME PagesOK, ThrottleTypeOK, ThrottleTypeOK', UNCHANGED <<history, page, paged>>,
         \A t \in Thread : claim'[t] # NoClaim => claim[t] # NoClaim \/ page[t] = 0,
         broken' = broken \/ broken' = broken + 1
  PROVE  PagesOK'
<1>1. Lost' = Lost
  BY DEF Lost
<1>2. Cardinality(Lost') \in Nat /\ broken' \in Nat
  BY <1>1, LostIsFinite DEF PagesOK
<1> QED BY <1>1, <1>2 DEF PagesOK

LEMMA FirePages ==
  ASSUME PagesOK, ThrottleTypeOK, ThrottleTypeOK', NEW t \in Thread, NEW key, Fire(t, key)
  PROVE  PagesOK'
<1>1. /\ UNCHANGED <<history, page, paged, broken>> /\ page[t] = 0
      /\ \E c : claim' = [claim EXCEPT ![t] = c]
  BY DEF Fire, BeginClaim, fireVars, counters
<1>2. \A u \in Thread : claim'[u] # NoClaim => claim[u] # NoClaim \/ page[u] = 0
  BY <1>1 DEF ThrottleTypeOK
<1> QED BY <1>1, <1>2, PagesStutter

\* A row is won: it is this goroutine's page, or it is lost by a fault.
LEMMA WinPages ==
  ASSUME PagesOK, ThrottleInv, ThrottleTypeOK', NEW t \in Thread, WinClaim(t), UNCHANGED paged,
         \/ page' = [page EXCEPT ![t] = Len(history) + 1] /\ broken' = broken
         \/ page' = page /\ broken' = broken + 1
  PROVE  PagesOK'
<1> DEFINE n == Len(history) + 1
<1>1. Row(t) \in Rows
  BY ClaimFields, ThreadFields DEF WinClaim, Row, Rows, ThrottleInv
<1>2. /\ history' = Append(history, Row(t)) /\ claim' = [claim EXCEPT ![t] = NoClaim]
      /\ claim[t] # NoClaim /\ ThrottleTypeOK
  BY DEF WinClaim, ThrottleInv
<1>3. DOMAIN history' = DOMAIN history \cup {n}
  BY <1>1, <1>2 DEF ThrottleTypeOK, Rows
<1>4. page[t] = 0 /\ 0 \notin DOMAIN history /\ n # 0
  BY <1>2 DEF PagesOK, ThrottleTypeOK
<1>5. \A u \in Thread : claim'[u] = IF u = t THEN NoClaim ELSE claim[u]
  BY <1>2 DEF ThrottleTypeOK
<1>6. broken \in Nat /\ broken' \in Nat
  BY DEF PagesOK
<1>7. CASE page' = [page EXCEPT ![t] = n] /\ broken' = broken
  <2>1. \A u \in Thread : page'[u] = IF u = t THEN n ELSE page[u]
    BY <1>7 DEF PagesOK
  <2>2. Lost' \subseteq Lost
    BY <1>3, <1>4, <2>1 DEF Lost
  <2>3. \A u \in Thread : claim'[u] # NoClaim => page'[u] = 0
    BY <1>5, <2>1 DEF PagesOK
  <2>4. page' = [u \in Thread |-> page'[u]]
    BY <1>7 DEF PagesOK
  <2> QED BY <1>2, <1>6, <1>7, <2>2, <2>3, <2>4, NothingLost DEF PagesOK
<1>8. CASE page' = page /\ broken' = broken + 1
  <2>1. Lost' \subseteq Lost \cup {n} \cup {n} \cup {n}
    BY <1>3, <1>8 DEF Lost
  <2> HIDE DEF n
  <2>2. Cardinality(Lost') <= 3 * broken'
    BY <1>2, <1>8, <2>1, ThreeLost
  <2> QED BY <1>5, <1>6, <1>8, <2>2 DEF PagesOK
<1> QED BY <1>7, <1>8

LEMMA DropPages ==
  ASSUME PagesOK, ThrottleTypeOK, ThrottleTypeOK', NEW t \in Thread, DropClaim(t),
         UNCHANGED <<page, paged>>, broken' = broken \/ broken' = broken + 1
  PROVE  PagesOK'
<1>1. \A u \in Thread : claim'[u] # NoClaim => claim[u] # NoClaim
  BY DEF DropClaim, ThrottleTypeOK
<1> QED BY <1>1, PagesStutter DEF DropClaim

\* Dispatch ends, well or badly.
LEMMA SendPages ==
  ASSUME PagesOK, ThrottleTypeOK, ThrottleTypeOK', NEW t \in Thread, UNCHANGED <<history, claim>>,
         page' = [page EXCEPT ![t] = 0],
         \/ paged' = paged \cup {page[t]} /\ broken' = broken
         \/ paged' = paged /\ broken' = broken + 1
  PROVE  PagesOK'
<1>1. \A u \in Thread : page'[u] = IF u = t THEN 0 ELSE page[u]
  BY DEF PagesOK
<1>2. page' = [u \in Thread |-> page'[u]] /\ broken' \in Nat
  BY DEF PagesOK
<1>3. \A u \in Thread : claim'[u] # NoClaim => page'[u] = 0
  BY <1>1 DEF PagesOK
<1>4. CASE paged' = paged \cup {page[t]} /\ broken' = broken
  <2>1. Lost' \subseteq Lost
    BY <1>1, <1>4 DEF Lost
  <2> QED BY <1>2, <1>3, <1>4, <2>1, NothingLost DEF PagesOK
<1>5. CASE paged' = paged /\ broken' = broken + 1
  <2>1. Lost' \subseteq Lost \cup {page[t]} \cup {page[t]} \cup {page[t]}
    BY <1>1, <1>5 DEF Lost
  <2>2. Cardinality(Lost') <= 3 * broken'
    BY <1>5, <2>1, ThreeLost
  <2> QED BY <1>2, <1>3, <2>2 DEF PagesOK
<1> QED BY <1>4, <1>5

LEMMA CrashPages ==
  ASSUME PagesOK, ThrottleTypeOK, ThrottleTypeOK', NEW w \in Replica, CrashReplica(w)
  PROVE  PagesOK'
<1> DEFINE a == page[<<w, "signal">>]
           b == page[<<w, "frequency">>]
           c == page[<<w, "metric">>]
<1>1. /\ UNCHANGED <<history, paged>> /\ broken' = broken + 1
      /\ claim' = [t \in Thread |-> IF t[1] = w THEN NoClaim ELSE claim[t]]
      /\ page' = [t \in Thread |-> IF t[1] = w THEN 0 ELSE page[t]]
  BY DEF CrashReplica, DropClaimsOf, Breaks
<1>2. \A t \in Thread : t[1] = w => page[t] \in {a, b, c}
  BY ThreadFields DEF Kinds
<1>3. Lost' \subseteq Lost \cup {a} \cup {b} \cup {c}
  BY <1>1, <1>2 DEF Lost
<1> HIDE DEF a, b, c
<1>4. Cardinality(Lost') <= 3 * broken'
  BY <1>1, <1>3, ThreeLost
<1>5. broken' \in Nat /\ \A t \in Thread : claim'[t] # NoClaim => page'[t] = 0
  BY <1>1 DEF PagesOK
<1> QED BY <1>1, <1>4, <1>5 DEF PagesOK

LEMMA PagesStep ==
  ASSUME PagesOK, PagingInv, ThrottleTypeOK', [AlertNext]_alertVars
  PROVE  PagesOK'
<1> USE DEF PagingInv, ThrottleInv
<1>1. ASSUME UNCHANGED <<throttleVars, page, paged>>, broken' = broken \/ broken' = broken + 1
      PROVE  PagesOK'
  BY <1>1, PagesStutter DEF throttleVars
<1>2. ASSUME NEW w \in Replica, LoopStep(w)
      PROVE  PagesOK'
  BY <1>1, <1>2
     DEF LoopStep, ConsumeSignals, Unreadable, LoadRules, Handled, AckSignals, fireVars, counters
<1>3. ASSUME NEW t \in Thread, FireStep(t)
      PROVE  PagesOK'
  <2>1. CASE \E key \in Key : Fire(t, key)
    BY <2>1, FirePages
  <2>2. CASE Granted(t)
    BY <2>2, WinPages DEF Granted, counters
  <2>3. CASE Throttled(t)
    BY <2>3, DropPages DEF Throttled, counters
  <2>4. CASE Send(t)
    BY <2>4, SendPages DEF Send, throttleVars, counters
  <2> QED BY <1>3, <2>1, <2>2, <2>3, <2>4 DEF FireStep
<1>4. ASSUME NEW t \in Thread, ClaimFails(t)
      PROVE  PagesOK'
  <2>1. CASE DropClaim(t)
    BY <1>4, <2>1, DropPages DEF ClaimFails, Breaks, counters
  <2>2. CASE WinClaim(t) /\ Breaks("claim")
    BY <1>4, <2>2, WinPages DEF ClaimFails, Breaks
  <2> QED BY <1>4, <2>1, <2>2 DEF ClaimFails
<1>5. ASSUME NEW t \in Thread, SendFails(t)
      PROVE  PagesOK'
  BY <1>5, SendPages DEF SendFails, Breaks, throttleVars
<1>6. ASSUME NEW w \in Replica, BrokenStep(w)
      PROVE  PagesOK'
  <2>1. CASE \E i \in Ids : LoadFails(w, i)
    BY <1>1, <2>1 DEF LoadFails, Breaks, fireVars
  <2>2. CASE AckSignalsFails(w)
    BY <1>1, <2>2 DEF AckSignalsFails, Breaks, fireVars
  <2> QED BY <1>4, <1>5, <1>6, <2>1, <2>2, CrashPages DEF BrokenStep
<1>7. ASSUME NEW w \in Replica, NEW kind, NEW targets, Pass(w, kind, targets)
      PROVE  PagesOK'
  BY <1>1, <1>7 DEF Pass
<1>8. ASSUME NEW signals, ProcessorPublish(signals)
      PROVE  PagesOK'
  BY <1>1, <1>8 DEF ProcessorPublish, fireVars, counters
<1>9. ASSUME ClockTicks \/ \E r \in Rule, status \in {"on", "off", "gone"} : RuleEdited(r, status)
      PROVE  PagesOK'
  <2>1. UNCHANGED <<history, claim, page, paged, broken>>
    BY <1>9 DEF ClockTicks, Tick, RuleEdited, EditRule, fireVars, counters
  <2> QED BY <2>1, PagesStutter
<1>10. CASE UNCHANGED alertVars
  BY <1>1, <1>10 DEF alertVars, fireVars, counters
<1> QED BY <1>2, <1>3, <1>6, <1>7, <1>8, <1>9, <1>10
        DEF AlertNext, EvaluateFrequency, EvaluateMetrics

\* A claim that was won leads to a page: a fault loses at most what each goroutine
\* of a replica had in hand (alert.go:111-126).
THEOREM PagesAreLostByFaults == AlertSpec => []LostPagesAreFaults
<1>1. AlertInit => PagingInv
  BY ThrottleInitInv DEF AlertInit, PagingInv, WorkOfKind
<1>2. AlertInit => PagesOK
  <2> SUFFICES ASSUME AlertInit
               PROVE  PagesOK
    OBVIOUS
  <2>1. Lost = {}
    BY DEF AlertInit, ThrottleInit, Lost
  <2>2. Cardinality(Lost) = 0
    BY <2>1, FS_EmptySet
  <2> QED BY <2>2 DEF AlertInit, ThrottleInit, PagesOK
<1>3. PagingInv /\ PagesOK /\ [AlertNext]_alertVars => (PagingInv /\ PagesOK)'
  BY AlertNextInv, PagesStep DEF PagingInv, ThrottleInv
<1>4. PagesOK => LostPagesAreFaults
  BY ThreeKinds DEF PagesOK, LostPagesAreFaults
<1> QED BY <1>1, <1>2, <1>3, <1>4, PTL DEF AlertSpec

----------------------------------------------------------------------------
(***************************************************************************)
(* A signal that was acknowledged was decided.                             *)
(***************************************************************************)
Decided(o) ==
  \/ <<o.id, o.key>> \in skipped
  \/ \E m \in DOMAIN history : history[m].key = o.key /\ history[m].at + Throttle > o.at

Settled(i) ==
  entries[i].readable => i \in looked /\ \A o \in owed : o.id = i => Decided(o)

HandTypes ==
  /\ stage = [w \in Replica |-> stage[w]]
  /\ batch \in [Replica -> SUBSET (1 .. lastDelivered)]
  /\ handled \in [Replica -> SUBSET (1 .. lastDelivered)]
  /\ looked \subseteq 1 .. lastDelivered
  /\ \A o \in owed : o.id \in looked /\ o.at \in Nat /\ o.at <= clock

\* A signal is in one replica's hands, and in nobody's once it was acknowledged;
\* its rules are loaded when it is the next one.
InOneHand ==
  /\ \A v, w \in Replica : v # w => batch[v] \cap batch[w] = {}
  /\ \A v, w \in Replica : batch[v] \cap handled[w] = {}
  /\ \A w \in Replica : batch[w] \cap acked = {}
  /\ \A w \in Replica : \A i \in batch[w] : i \in looked => stage[w] = "fire" /\ FirstOf(w, i)

\* The signal loop claims only while it fires.
Quiet(w) == work[Loop(w)] = {} /\ claim[Loop(w)] = NoClaim

QuietOK == \A w \in Replica : stage[w] # "fire" => Quiet(w)

SettledOK ==
  /\ \A i \in acked : Settled(i)
  /\ \A w \in Replica : \A i \in handled[w] : Settled(i)

\* What the signal being fired owes is decided or on the list, and its claims are
\* made after its rules were loaded.
FiringOK ==
  \A w \in Replica : stage[w] = "fire" => \A i \in batch[w] : FirstOf(w, i) =>
    /\ i \in looked
    /\ \A o \in owed : o.id = i => Decided(o) \/ o.key \in work[Loop(w)]
    /\ claim[Loop(w)] # NoClaim => \A o \in owed : o.id = i => o.at <= claim[Loop(w)].at

\* A claim that was blocked had a reason.
BlockedOK ==
  \A t \in Thread : claim[t] # NoClaim /\ claim[t].blocked => Recent(claim[t].key, claim[t].at)

HandInv == HandTypes /\ InOneHand /\ QuietOK /\ SettledOK /\ FiringOK /\ BlockedOK

Context == PagingInv /\ StreamInv

LEMMA LoopThreads ==
  /\ \A w \in Replica : Loop(w) \in Thread /\ Loop(w)[1] = w /\ Loop(w)[2] = "signal"
  /\ \A v, w \in Replica : Loop(v) = Loop(w) => v = w
BY DEF Loop, Thread, Kinds

LEMMA OneFirst ==
  ASSUME HandTypes, Context, NEW w \in Replica, NEW i, NEW j, FirstOf(w, i), FirstOf(w, j)
  PROVE  i = j
<1>1. i \in batch[w] /\ j \in batch[w] /\ i <= j /\ j <= i
  BY DEF FirstOf
<1>2. batch[w] \subseteq 1 .. lastDelivered /\ lastDelivered \in Nat
  BY DEF HandTypes, Context, StreamInv, StreamTypeOK
<1>3. i \in Int /\ j \in Int
  BY <1>1, <1>2
<1> QED BY <1>1, <1>3

\* What was decided stays so.
LEMMA DecidedForGood ==
  ASSUME NEW o, Decided(o), skipped \subseteq skipped',
         DOMAIN history \subseteq DOMAIN history',
         \A m \in DOMAIN history : history'[m] = history[m]
  PROVE  Decided(o)'
BY DEF Decided

\* Nothing that the invariant speaks of is touched.
LEMMA HandsStutter ==
  ASSUME HandInv,
         UNCHANGED <<entries, lastDelivered, acked, clock, history, claim, loopVars, work, noteVars>>
  PROVE  HandInv'
BY DEF HandInv, HandTypes, InOneHand, QuietOK, SettledOK, FiringOK, BlockedOK, Settled, Decided,
       Quiet, FirstOf, Recent, loopVars, noteVars, Loop

----------------------------------------------------------------------------
LEMMA ConsumeHands ==
  ASSUME HandInv, Context, NEW w \in Replica, ConsumeSignals(w)
  PROVE  HandInv'
<1> USE DEF HandInv
<1>1. /\ stage[w] = "poll" /\ stage' = [stage EXCEPT ![w] = "load"]
      /\ batch' = [batch EXCEPT ![w] = NextBatch]
      /\ lastDelivered' \in NextBatch /\ \A i \in NextBatch : i <= lastDelivered'
      /\ UNCHANGED <<entries, acked, clock, history, claim, handled, work, noteVars>>
  BY DEF ConsumeSignals, Read, throttleVars, fireVars
<1>2. /\ lastDelivered \in Nat /\ NextBatch \subseteq Nat /\ acked \subseteq 1 .. lastDelivered
      /\ \A i \in NextBatch : i > lastDelivered
  BY BatchIsUnread DEF Context, StreamInv, StreamTypeOK, Unread
<1>3. /\ lastDelivered' \in Nat /\ lastDelivered < lastDelivered'
      /\ 1 .. lastDelivered \subseteq 1 .. lastDelivered'
      /\ NextBatch \subseteq 1 .. lastDelivered'
      /\ NextBatch \cap (1 .. lastDelivered) = {}
  BY <1>1, <1>2
<1>4. /\ \A v \in Replica : batch'[v] = IF v = w THEN NextBatch ELSE batch[v]
      /\ \A v \in Replica : stage'[v] = IF v = w THEN "load" ELSE stage[v]
      /\ \A v \in Replica : batch[v] \subseteq 1 .. lastDelivered
      /\ \A v \in Replica : handled[v] \subseteq 1 .. lastDelivered
      /\ looked \subseteq 1 .. lastDelivered
  BY <1>1 DEF HandTypes
<1>5. HandTypes'
  BY <1>1, <1>3, <1>4 DEF HandTypes, noteVars
<1>6. InOneHand'
  BY <1>1, <1>2, <1>3, <1>4 DEF InOneHand, FirstOf, noteVars
<1>7. QuietOK' /\ BlockedOK'
  BY <1>1, <1>4 DEF QuietOK, BlockedOK, Quiet, Recent, Loop
<1>8. SettledOK'
  BY <1>1 DEF SettledOK, Settled, Decided, noteVars
<1>9. FiringOK'
  BY <1>1, <1>4 DEF FiringOK, FirstOf, Decided, noteVars, Loop
<1> QED BY <1>5, <1>6, <1>7, <1>8, <1>9

\* The loop goes on to the next signal, done with i.
LEMMA NextSignalHands ==
  ASSUME HandInv, Context, NEW w \in Replica, NEW i, NEW ids, ids \subseteq {i},
         FirstOf(w, i), NextSignal(w, i, ids), Quiet(w), i \in ids => Settled(i),
         UNCHANGED <<entries, lastDelivered, acked, clock, history, claim, work, noteVars>>
  PROVE  HandInv'
<1> USE DEF HandInv
<1>1. \A v \in Replica :
        /\ batch'[v] = IF v = w THEN batch[w] \ {i} ELSE batch[v]
        /\ handled'[v] = IF v = w THEN handled[w] \cup ids ELSE handled[v]
        /\ v # w => stage'[v] = stage[v]
  BY DEF NextSignal, HandTypes
<1>2. stage'[w] # "fire"
  BY DEF NextSignal, HandTypes
<1>3. i \in batch[w] /\ \A j : FirstOf(w, j) => j = i
  BY OneFirst DEF FirstOf
<1>4. HandTypes'
  <2>1. \A v \in Replica : batch'[v] \subseteq 1 .. lastDelivered /\ handled'[v] \subseteq 1 .. lastDelivered
    BY <1>1, <1>3 DEF HandTypes
  <2>2. DOMAIN batch' = Replica /\ DOMAIN handled' = Replica
    BY DEF NextSignal, HandTypes
  <2>3. stage' = [v \in Replica |-> stage'[v]]
    BY DEF NextSignal, HandTypes
  <2>4. /\ batch' = [v \in Replica |-> batch'[v]]
        /\ handled' = [v \in Replica |-> handled'[v]]
    BY DEF NextSignal, HandTypes
  <2> QED BY <2>1, <2>3, <2>4 DEF HandTypes, noteVars
<1>5. InOneHand'
  <2>1. \A u, v \in Replica : u # v => batch'[u] \cap batch'[v] = {}
    BY <1>1 DEF InOneHand
  <2>2. \A u, v \in Replica : batch'[u] \cap handled'[v] = {}
    BY <1>1, <1>3 DEF InOneHand
  <2>3. \A v \in Replica : batch'[v] \cap acked' = {}
    BY <1>1 DEF InOneHand
  <2>4. \A v \in Replica : \A j \in batch'[v] : j \in looked' => stage'[v] = "fire" /\ FirstOf(v, j)'
    BY <1>1, <1>3 DEF InOneHand, noteVars, FirstOf
  <2> QED BY <2>1, <2>2, <2>3, <2>4 DEF InOneHand
<1>6. QuietOK' /\ BlockedOK'
  BY <1>1 DEF QuietOK, BlockedOK, Quiet, Recent, Loop
<1>7. SettledOK'
  BY <1>1 DEF SettledOK, Settled, Decided, noteVars
<1>8. FiringOK'
  BY <1>1, <1>2 DEF FiringOK, FirstOf, Decided, noteVars, Loop
<1> QED BY <1>4, <1>5, <1>6, <1>7, <1>8

\* The rules are loaded: what is owed now is on the list.
LEMMA LoadHands ==
  ASSUME HandInv, Context, NEW w \in Replica, NEW i \in Ids, LoadRules(w, i)
  PROVE  HandInv'
<1> USE DEF HandInv
<1> DEFINE keys == {<<r, entries[i].issue>> : r \in On("signal") \cap entries[i].matches}
           new  == {[id |-> i, key |-> k, at |-> clock] : k \in keys}
<1>1. /\ stage[w] = "load" /\ FirstOf(w, i) /\ i \in batch[w]
      /\ stage' = [stage EXCEPT ![w] = "fire"]
      /\ work' = [work EXCEPT ![Loop(w)] = keys]
      /\ owed' = owed \cup new /\ looked' = looked \cup {i}
      /\ UNCHANGED <<entries, lastDelivered, acked, clock, history, claim, batch, handled, skipped>>
  BY DEF LoadRules, FirstOf, streamVars, throttleVars
<1>2. \A o \in new : o.id = i /\ o.at = clock /\ o.key \in keys
  OBVIOUS
<1> HIDE DEF keys, new
<1>3. /\ i \notin looked /\ \A o \in owed : o.id # i
      /\ i \notin acked /\ \A v \in Replica : i \notin handled[v] /\ (v # w => i \notin batch[v])
  BY <1>1 DEF InOneHand, HandTypes
<1>4. /\ \A v \in Replica : stage'[v] = IF v = w THEN "fire" ELSE stage[v]
      /\ \A v \in Replica : work'[Loop(v)] = IF v = w THEN keys ELSE work[Loop(v)]
  BY <1>1, LoopThreads DEF HandTypes, Context, PagingInv, WorkOfKind
<1>5. clock \in Nat /\ i \in 1 .. lastDelivered
  BY <1>1 DEF HandTypes, Context, PagingInv, ThrottleInv, ThrottleTypeOK
<1>6. HandTypes'
  BY <1>1, <1>2, <1>5 DEF HandTypes
<1>7. InOneHand'
  BY <1>1, <1>3, <1>4 DEF InOneHand, FirstOf
<1>8. QuietOK' /\ BlockedOK'
  BY <1>1, <1>4 DEF QuietOK, BlockedOK, Quiet, Recent
<1>9. SettledOK'
  BY <1>1, <1>2, <1>3 DEF SettledOK, Settled, Decided
<1>10. FiringOK'
  <2> SUFFICES ASSUME NEW v \in Replica, stage'[v] = "fire", NEW j \in batch[v], FirstOf(v, j)
               PROVE  /\ j \in looked'
                      /\ \A o \in owed' : o.id = j => Decided(o)' \/ o.key \in work'[Loop(v)]
                      /\ claim[Loop(v)] # NoClaim =>
                           \A o \in owed' : o.id = j => o.at <= claim[Loop(v)].at
    BY <1>1 DEF FiringOK, FirstOf
  <2>1. CASE v = w
    <3>1. j = i
      BY <1>1, <2>1, OneFirst
    <3>2. claim[Loop(v)] = NoClaim
      BY <1>1, <2>1 DEF QuietOK, Quiet
    <3> QED BY <1>1, <1>2, <1>3, <1>4, <2>1, <3>1, <3>2
  <2>2. CASE v # w
    <3>1. j # i /\ stage[v] = "fire"
      BY <1>3, <1>4, <2>2
    <3>2. \A o \in owed' : o.id = j => o \in owed
      BY <1>1, <1>2, <3>1
    <3> QED BY <1>1, <1>4, <2>2, <3>1, <3>2 DEF FiringOK, Decided
  <2> QED BY <2>1, <2>2
<1> QED BY <1>6, <1>7, <1>8, <1>9, <1>10

LEMMA AckHands ==
  ASSUME HandInv, NEW w \in Replica, NewBatch(w),
         acked' = acked \/ acked' = acked \cup (handled[w] \cap pel),
         stage[w] = "ack",
         UNCHANGED <<entries, lastDelivered, clock, history, claim, work, noteVars>>
  PROVE  HandInv'
<1> USE DEF HandInv
<1>1. \A v \in Replica :
        /\ batch'[v] = IF v = w THEN {} ELSE batch[v]
        /\ handled'[v] = IF v = w THEN {} ELSE handled[v]
        /\ stage'[v] = IF v = w THEN "poll" ELSE stage[v]
  BY DEF NewBatch, HandTypes
<1>2. HandTypes'
  BY DEF HandTypes, NewBatch, noteVars
<1>3. InOneHand'
  BY <1>1 DEF InOneHand, noteVars, FirstOf
<1>4. QuietOK' /\ BlockedOK'
  BY <1>1 DEF QuietOK, BlockedOK, Quiet, Recent, Loop
<1>5. SettledOK'
  BY <1>1 DEF SettledOK, Settled, Decided, noteVars
<1>6. FiringOK'
  BY <1>1 DEF FiringOK, FirstOf, Decided, noteVars, Loop
<1> QED BY <1>2, <1>3, <1>4, <1>5, <1>6

\* The timers have lists of their own.
LEMMA PassHands ==
  ASSUME HandInv, Context, NEW w \in Replica, NEW kind \in Kinds, kind # "signal", NEW targets,
         Pass(w, kind, targets)
  PROVE  HandInv'
<1> USE DEF HandInv
<1>1. /\ \E keys : work' = [work EXCEPT ![<<w, kind>>] = keys]
      /\ UNCHANGED <<entries, lastDelivered, acked, clock, history, claim, loopVars, noteVars>>
  BY DEF Pass, streamVars, throttleVars
<1>2. \A v \in Replica : work'[Loop(v)] = work[Loop(v)]
  <2>1. \A v \in Replica : Loop(v) # <<w, kind>> /\ Loop(v) \in Thread
    BY LoopThreads DEF Loop
  <2>2. work = [t \in Thread |-> work[t]]
    BY DEF Context, PagingInv, WorkOfKind
  <2> QED BY <1>1, <2>1, <2>2
<1>3. HandTypes' /\ InOneHand'
  BY <1>1 DEF HandTypes, InOneHand, FirstOf, loopVars, noteVars
<1>4. QuietOK' /\ BlockedOK'
  BY <1>1, <1>2 DEF QuietOK, BlockedOK, Quiet, Recent, Loop, loopVars
<1>5. SettledOK'
  BY <1>1 DEF SettledOK, Settled, Decided, loopVars, noteVars
<1>6. FiringOK'
  BY <1>1, <1>2 DEF FiringOK, FirstOf, Decided, loopVars, noteVars, Loop
<1> QED BY <1>3, <1>4, <1>5, <1>6

\* A claim begins, with the clock of now.
LEMMA FireHands ==
  ASSUME HandInv, Context, NEW t \in Thread, NEW key \in Key, Fire(t, key)
  PROVE  HandInv'
<1> USE DEF HandInv
<1> DEFINE c == [key |-> key, at |-> clock, blocked |-> Recent(key, clock)]
<1>1. /\ key \in work[t] /\ claim' = [claim EXCEPT ![t] = c]
      /\ UNCHANGED <<entries, lastDelivered, acked, clock, history, loopVars, work, noteVars>>
  BY DEF Fire, BeginClaim, streamVars, fireVars
<1>2. c.key = key /\ c.at = clock /\ (c.blocked <=> Recent(key, clock))
  OBVIOUS
<1> HIDE DEF c
<1>3. \A u \in Thread : claim'[u] = IF u = t THEN c ELSE claim[u]
  BY <1>1 DEF Context, PagingInv, ThrottleInv, ThrottleTypeOK
<1>4. HandTypes' /\ InOneHand'
  BY <1>1 DEF HandTypes, InOneHand, FirstOf, loopVars, noteVars
<1>5. QuietOK'
  BY <1>1, <1>3, LoopThreads DEF QuietOK, Quiet, loopVars
<1>6. BlockedOK'
  BY <1>1, <1>2, <1>3 DEF BlockedOK, Recent
<1>7. SettledOK'
  BY <1>1 DEF SettledOK, Settled, Decided, loopVars, noteVars
<1>8. FiringOK'
  BY <1>1, <1>2, <1>3, LoopThreads
     DEF FiringOK, FirstOf, Decided, loopVars, noteVars, HandTypes
<1> QED BY <1>4, <1>5, <1>6, <1>7, <1>8

\* A claim ends; if the signal being fired owed its key, that is decided now.
LEMMA FinishHands ==
  ASSUME HandInv, Context, NEW t \in Thread, claim[t] # NoClaim,
         claim' = [claim EXCEPT ![t] = NoClaim], Done(t),
         skipped \subseteq skipped',
         DOMAIN history \subseteq DOMAIN history',
         \A m \in DOMAIN history : history'[m] = history[m],
         UNCHANGED <<entries, lastDelivered, acked, clock, loopVars, looked, owed>>,
         \A w \in Replica : \A i \in batch[w], o \in owed :
           t = Loop(w) /\ FirstOf(w, i) /\ o.id = i /\ o.key = claim[t].key => Decided(o)'
  PROVE  HandInv'
<1> USE DEF HandInv
<1>1. /\ \A u \in Thread : claim'[u] = IF u = t THEN NoClaim ELSE claim[u]
      /\ \A u \in Thread : work'[u] = IF u = t THEN work[t] \ {claim[t].key} ELSE work[u]
  BY DEF Done, Context, PagingInv, WorkOfKind, ThrottleInv, ThrottleTypeOK
<1>2. \A o : Decided(o) => Decided(o)'
  BY DecidedForGood
<1>3. HandTypes' /\ InOneHand'
  BY DEF HandTypes, InOneHand, FirstOf, loopVars
<1>4. QuietOK'
  BY <1>1, LoopThreads DEF QuietOK, Quiet, loopVars
<1>5. BlockedOK'
  BY <1>1 DEF BlockedOK, Recent
<1>6. SettledOK'
  BY <1>2 DEF SettledOK, Settled, loopVars
<1>7. FiringOK'
  <2> SUFFICES ASSUME NEW w \in Replica, stage[w] = "fire", NEW i \in batch[w], FirstOf(w, i)
               PROVE  /\ i \in looked
                      /\ \A o \in owed : o.id = i => Decided(o)' \/ o.key \in work'[Loop(w)]
                      /\ claim'[Loop(w)] # NoClaim =>
                           \A o \in owed : o.id = i => o.at <= claim'[Loop(w)].at
    BY DEF FiringOK, FirstOf, loopVars, Loop
  <2>1. Loop(w) \in Thread
    BY LoopThreads
  <2> QED BY <1>1, <1>2, <2>1 DEF FiringOK
<1> QED BY <1>3, <1>4, <1>5, <1>6, <1>7

\* The claim of the signal loop decides by a clock no earlier than the loading.
LEMMA ClaimedLater ==
  ASSUME HandInv, Context, NEW w \in Replica, claim[Loop(w)] # NoClaim,
         NEW i \in batch[w], FirstOf(w, i), NEW o \in owed, o.id = i
  PROVE  o.at \in Nat /\ o.at <= claim[Loop(w)].at /\ claim[Loop(w)].at \in Nat
<1>1. stage[w] = "fire"
  BY DEF HandInv, QuietOK, Quiet
<1>2. claim[Loop(w)].at \in Nat
  BY LoopThreads, ClaimFields DEF Context, PagingInv, ThrottleInv
<1> QED BY <1>1, <1>2 DEF HandInv, FiringOK, HandTypes

LEMMA WinHands ==
  ASSUME HandInv, Context, NEW t \in Thread, WinClaim(t), Done(t), skipped \subseteq skipped',
         UNCHANGED <<streamVars, loopVars, looked, owed>>
  PROVE  HandInv'
<1> DEFINE n == Len(history) + 1
<1>1. /\ claim[t] # NoClaim /\ claim' = [claim EXCEPT ![t] = NoClaim]
      /\ history' = Append(history, Row(t)) /\ UNCHANGED clock
  BY DEF WinClaim
<1>2. Row(t) \in Rows
  BY <1>1, ClaimFields, ThreadFields DEF Row, Rows, Context, PagingInv, ThrottleInv
<1>3. /\ DOMAIN history' = DOMAIN history \cup {n} /\ history'[n] = Row(t)
      /\ \A m \in DOMAIN history : history'[m] = history[m]
  BY <1>1, <1>2 DEF Context, PagingInv, ThrottleInv, ThrottleTypeOK, Rows
<1>4. ASSUME NEW w \in Replica, NEW i \in batch[w], NEW o \in owed,
             t = Loop(w), FirstOf(w, i), o.id = i, o.key = claim[t].key
      PROVE  Decided(o)'
  <2>1. o.at \in Nat /\ o.at <= claim[t].at /\ claim[t].at \in Nat
    BY <1>1, <1>4, ClaimedLater
  <2>2. history'[n].key = o.key /\ history'[n].at = claim[t].at
    BY <1>3, <1>4 DEF Row
  <2>3. history'[n].at + Throttle > o.at
    BY <2>1, <2>2, ThrottleAssumption
  <2> QED BY <1>3, <2>2, <2>3 DEF Decided
<1> QED BY <1>1, <1>3, <1>4, FinishHands DEF streamVars

\* A claim is dropped: it was blocked by a row that still decides, or it failed.
LEMMA DropHands ==
  ASSUME HandInv, Context, NEW t \in Thread, DropClaim(t), Done(t), skipped \subseteq skipped',
         UNCHANGED <<streamVars, loopVars, looked, owed>>,
         \/ claim[t].blocked
         \/ \A i \in Ids : t[2] = "signal" /\ FirstOf(t[1], i) => <<i, claim[t].key>> \in skipped'
  PROVE  HandInv'
<1>1. /\ claim[t] # NoClaim /\ claim' = [claim EXCEPT ![t] = NoClaim]
      /\ UNCHANGED <<clock, history>>
  BY DEF DropClaim
<1>2. ASSUME NEW w \in Replica, NEW i \in batch[w], NEW o \in owed,
             t = Loop(w), FirstOf(w, i), o.id = i, o.key = claim[t].key
      PROVE  Decided(o)'
  <2>1. o.at \in Nat /\ o.at <= claim[t].at /\ claim[t].at \in Nat
    BY <1>1, <1>2, ClaimedLater
  <2>2. CASE claim[t].blocked
    <3>1. PICK m \in DOMAIN history :
            history[m].key = o.key /\ history[m].at + Throttle > claim[t].at
      BY <1>1, <1>2, <2>2 DEF HandInv, BlockedOK, Recent
    <3>2. history[m].at \in Nat
      BY RowFields DEF Context, PagingInv, ThrottleInv
    <3>3. history[m].at + Throttle > o.at
      BY <2>1, <3>1, <3>2, ThrottleAssumption
    <3> QED BY <1>1, <3>1, <3>3 DEF Decided
  <2>3. CASE \A j \in Ids : t[2] = "signal" /\ FirstOf(t[1], j) => <<j, claim[t].key>> \in skipped'
    <3>1. i \in Ids
      BY IdsAreNat DEF HandInv, HandTypes, Context, StreamInv, StreamTypeOK, Ids
    <3>2. t[2] = "signal" /\ t[1] = w
      BY <1>2, LoopThreads
    <3> QED BY <1>2, <2>3, <3>1, <3>2 DEF Decided
  <2> QED BY <2>2, <2>3
<1> QED BY <1>1, <1>2, FinishHands DEF streamVars

LEMMA CrashHands ==
  ASSUME HandInv, Context, NEW w \in Replica, CrashReplica(w)
  PROVE  HandInv'
<1> USE DEF HandInv
<1>1. /\ NewBatch(w)
      /\ claim' = [t \in Thread |-> IF t[1] = w THEN NoClaim ELSE claim[t]]
      /\ work' = [t \in Thread |-> IF t[1] = w THEN {} ELSE work[t]]
      /\ UNCHANGED <<entries, lastDelivered, acked, clock, history, noteVars>>
  BY DEF CrashReplica, DropClaimsOf, streamVars
<1>2. \A v \in Replica :
        /\ batch'[v] = IF v = w THEN {} ELSE batch[v]
        /\ handled'[v] = IF v = w THEN {} ELSE handled[v]
        /\ stage'[v] = IF v = w THEN "poll" ELSE stage[v]
  BY <1>1 DEF NewBatch, HandTypes
<1>3. \A v \in Replica :
        /\ work'[Loop(v)] = IF v = w THEN {} ELSE work[Loop(v)]
        /\ claim'[Loop(v)] = IF v = w THEN NoClaim ELSE claim[Loop(v)]
  BY <1>1, LoopThreads
<1>4. HandTypes'
  BY <1>1 DEF HandTypes, NewBatch, noteVars
<1>5. InOneHand'
  BY <1>1, <1>2 DEF InOneHand, noteVars, FirstOf
<1>6. QuietOK'
  BY <1>2, <1>3 DEF QuietOK, Quiet
<1>7. BlockedOK'
  BY <1>1 DEF BlockedOK, Recent
<1>8. SettledOK'
  BY <1>1, <1>2 DEF SettledOK, Settled, Decided, noteVars
<1>9. FiringOK'
  BY <1>1, <1>2, <1>3 DEF FiringOK, FirstOf, Decided, noteVars
<1> QED BY <1>4, <1>5, <1>6, <1>7, <1>8, <1>9

LEMMA PublishHands ==
  ASSUME HandInv, Context, NEW signals \in Seq(Body), ProcessorPublish(signals)
  PROVE  HandInv'
<1> USE DEF HandInv
<1>1. /\ Publish(signals)
      /\ UNCHANGED <<lastDelivered, acked, clock, history, claim, loopVars, work, noteVars>>
  BY DEF ProcessorPublish, Publish, throttleVars, fireVars
<1>2. \A i \in 1 .. lastDelivered : entries'[i] = entries[i]
  <2>1. StreamTypeOK
    BY DEF Context, StreamInv
  <2>2. \A i \in Ids : entries'[i] = entries[i]
    BY <1>1, <2>1, PublishAppends
  <2>3. 1 .. lastDelivered \subseteq Ids
    BY <2>1, IdsAreNat DEF StreamTypeOK, Ids
  <2> QED BY <2>2, <2>3
<1>3. acked \subseteq 1 .. lastDelivered
  BY DEF Context, StreamInv, StreamTypeOK
<1>4. HandTypes' /\ InOneHand'
  BY <1>1 DEF HandTypes, InOneHand, FirstOf, loopVars, noteVars
<1>5. QuietOK' /\ BlockedOK' /\ FiringOK'
  BY <1>1 DEF QuietOK, BlockedOK, FiringOK, Quiet, Recent, Loop, loopVars, noteVars, FirstOf, Decided
<1>6. SettledOK'
  BY <1>1, <1>2, <1>3 DEF SettledOK, Settled, Decided, HandTypes, loopVars, noteVars
<1> QED BY <1>4, <1>5, <1>6

LEMMA ClockHands ==
  ASSUME HandInv, Context, ClockTicks
  PROVE  HandInv'
<1> USE DEF HandInv
<1>1. /\ clock' = clock + 1 /\ clock \in Nat
      /\ UNCHANGED <<entries, lastDelivered, acked, history, claim, loopVars, work, noteVars>>
  BY DEF ClockTicks, Tick, streamVars, fireVars, Context, PagingInv, ThrottleInv, ThrottleTypeOK
<1>2. HandTypes'
  BY <1>1 DEF HandTypes, loopVars, noteVars
<1> QED BY <1>1, <1>2
        DEF InOneHand, QuietOK, SettledOK, FiringOK, BlockedOK, Settled, Decided,
            Quiet, FirstOf, Recent, loopVars, noteVars, Loop

----------------------------------------------------------------------------
\* The replicas, together, use the stream as RedisStream says.
LEMMA AlertStepIsStreamStep ==
  ASSUME HandTypes, [AlertNext]_alertVars
  PROVE  [StreamNext]_streamVars
<1>1. ASSUME NEW w \in Replica, XAck(handled[w])
      PROVE  StreamNext
  <2>1. handled[w] \in SUBSET (1 .. lastDelivered)
    BY DEF HandTypes
  <2> QED BY <1>1, <2>1 DEF StreamNext
<1>2. ASSUME NEW w \in Replica, LoopStep(w) \/ BrokenStep(w)
      PROVE  [StreamNext]_streamVars
  <2>1. ASSUME NEW t \in Thread, ClaimFails(t) \/ SendFails(t)
        PROVE  UNCHANGED streamVars
    BY <2>1 DEF ClaimFails, SendFails
  <2> QED BY <1>1, <1>2, <2>1
          DEF LoopStep, BrokenStep, ConsumeSignals, Unreadable, LoadRules, Handled, AckSignals,
              LoadFails, AckSignalsFails, CrashReplica, StreamNext
<1>3. ASSUME NEW t \in Thread, FireStep(t)
      PROVE  UNCHANGED streamVars
  BY <1>3 DEF FireStep, Fire, Granted, Throttled, Send
<1>4. ASSUME NEW w, EvaluateFrequency(w) \/ EvaluateMetrics(w)
      PROVE  UNCHANGED streamVars
  BY <1>4 DEF EvaluateFrequency, EvaluateMetrics, Pass
<1>5. ASSUME NEW n \in 1 .. MaxEntries, NEW signals \in [1 .. n -> Body], ProcessorPublish(signals)
      PROVE  StreamNext
  BY <1>5 DEF ProcessorPublish, StreamNext
<1>6. ASSUME ClockTicks \/ \E r \in Rule, status \in {"on", "off", "gone"} : RuleEdited(r, status)
      PROVE  UNCHANGED streamVars
  BY <1>6 DEF ClockTicks, RuleEdited
<1> QED BY <1>2, <1>3, <1>4, <1>5, <1>6 DEF AlertNext, alertVars

LEMMA LoopStepHands ==
  ASSUME HandInv, Context, NEW w \in Replica, LoopStep(w)
  PROVE  HandInv'
<1>1. CASE ConsumeSignals(w)
  BY <1>1, ConsumeHands
<1>2. ASSUME NEW i \in Ids, Unreadable(w, i)
      PROVE  HandInv'
  <2>1. Quiet(w) /\ Settled(i)
    BY <1>2 DEF Unreadable, HandInv, QuietOK, Settled
  <2> QED BY <1>2, <2>1, NextSignalHands DEF Unreadable, streamVars, throttleVars, fireVars
<1>3. ASSUME NEW i \in Ids, LoadRules(w, i)
      PROVE  HandInv'
  BY <1>3, LoadHands
<1>4. ASSUME NEW i \in Ids, Handled(w, i)
      PROVE  HandInv'
  <2>1. Quiet(w) /\ stage[w] = "fire" /\ FirstOf(w, i) /\ i \in batch[w]
    BY <1>4 DEF Handled, Idle, Quiet, FirstOf
  <2>2. Settled(i)
    BY <2>1 DEF HandInv, FiringOK, Settled, Quiet
  <2> QED BY <1>4, <2>1, <2>2, NextSignalHands DEF Handled, streamVars, throttleVars, fireVars
<1>5. CASE AckSignals(w)
  BY <1>5, AckHands DEF AckSignals, XAck, throttleVars, fireVars
<1> QED BY <1>1, <1>2, <1>3, <1>4, <1>5 DEF LoopStep

LEMMA FireStepHands ==
  ASSUME HandInv, Context, NEW t \in Thread, FireStep(t)
  PROVE  HandInv'
<1>1. CASE \E key \in Key : Fire(t, key)
  BY <1>1, FireHands
<1>2. CASE Granted(t)
  BY <1>2, WinHands DEF Granted, noteVars
<1>3. CASE Throttled(t)
  BY <1>3, DropHands DEF Throttled, noteVars
<1>4. CASE Send(t)
  BY <1>4, HandsStutter DEF Send, streamVars, throttleVars
<1> QED BY <1>1, <1>2, <1>3, <1>4 DEF FireStep

LEMMA BrokenStepHands ==
  ASSUME HandInv, Context, NEW w \in Replica, BrokenStep(w)
  PROVE  HandInv'
<1>1. ASSUME NEW i \in Ids, LoadFails(w, i)
      PROVE  HandInv'
  <2>1. Quiet(w)
    BY <1>1 DEF LoadFails, HandInv, QuietOK
  <2> QED BY <1>1, <2>1, NextSignalHands DEF LoadFails, streamVars, throttleVars, fireVars
<1>2. ASSUME NEW t \in Thread, ClaimFails(t)
      PROVE  HandInv'
  <2>1. /\ Done(t) /\ skipped \subseteq skipped'
        /\ \A i \in Ids : t[2] = "signal" /\ FirstOf(t[1], i) => <<i, claim[t].key>> \in skipped'
        /\ UNCHANGED <<streamVars, loopVars, looked, owed>>
        /\ DropClaim(t) \/ WinClaim(t)
    BY <1>2 DEF ClaimFails
  <2> QED BY <2>1, DropHands, WinHands
<1>3. ASSUME NEW t \in Thread, SendFails(t)
      PROVE  HandInv'
  BY <1>3, HandsStutter DEF SendFails, streamVars, throttleVars
<1>4. CASE AckSignalsFails(w)
  BY <1>4, AckHands DEF AckSignalsFails, XAck, streamVars, throttleVars, fireVars
<1> QED BY <1>1, <1>2, <1>3, <1>4, CrashHands DEF BrokenStep

LEMMA HandsStep ==
  ASSUME HandInv, Context, [AlertNext]_alertVars
  PROVE  HandInv'
<1>1. ASSUME NEW w \in Replica, EvaluateFrequency(w) \/ EvaluateMetrics(w)
      PROVE  HandInv'
  <2>1. "frequency" \in Kinds /\ "metric" \in Kinds
    BY DEF Kinds
  <2> QED BY <1>1, <2>1, PassHands DEF EvaluateFrequency, EvaluateMetrics
<1>2. ASSUME NEW n \in 1 .. MaxEntries, NEW signals \in [1 .. n -> Body], ProcessorPublish(signals)
      PROVE  HandInv'
  <2>1. signals \in Seq(Body)
    BY StreamAssumption
  <2> QED BY <1>2, <2>1, PublishHands
<1>3. ASSUME NEW r \in Rule, NEW status, RuleEdited(r, status)
      PROVE  HandInv'
  BY <1>3, HandsStutter DEF RuleEdited, EditRule, streamVars, fireVars
<1>4. CASE UNCHANGED alertVars
  BY <1>4, HandsStutter DEF alertVars, streamVars, throttleVars, fireVars
<1> QED BY <1>1, <1>2, <1>3, <1>4, LoopStepHands, FireStepHands, BrokenStepHands, ClockHands
        DEF AlertNext

\* The inductive invariant of the alerter.
THEOREM AlerterInvariant == AlertSpec => [](Context /\ HandInv)
<1>1. AlertInit => Context /\ HandInv
  <2> SUFFICES ASSUME AlertInit
               PROVE  Context /\ HandInv
    OBVIOUS
  <2>1. Context
    BY ThrottleInitInv, StreamInitInv DEF AlertInit, Context, PagingInv, WorkOfKind
  <2>2. \A w \in Replica : Quiet(w)
    BY LoopThreads DEF AlertInit, ThrottleInit, Quiet
  <2> QED BY <2>1, <2>2
          DEF AlertInit, ThrottleInit, StreamInit, HandInv, HandTypes, InOneHand, QuietOK,
              SettledOK, FiringOK, BlockedOK
<1>2. Context /\ HandInv /\ [AlertNext]_alertVars => (Context /\ HandInv)'
  <2> SUFFICES ASSUME Context, HandInv, [AlertNext]_alertVars
               PROVE  (Context /\ HandInv)'
    OBVIOUS
  <2>1. StreamInv'
    BY AlertStepIsStreamStep, StreamStepInv DEF Context, HandInv
  <2> QED BY <2>1, AlertNextInv, HandsStep DEF Context
<1> QED BY <1>1, <1>2, PTL DEF AlertSpec

\* "A duplicate alert is far better than a missed regression" (main.go:131-133): an
\* acknowledged signal was decided, whoever crashed and whatever failed.
THEOREM AckedSignalsWereDecided == AlertSpec => []AckedIsDecided
<1>1. HandInv => AckedIsDecided
  BY DEF HandInv, SettledOK, Settled, Decided, AckedIsDecided
<1> QED BY <1>1, AlerterInvariant, PTL

\* No signal vanishes from the stream of alerts, and the replicas together use it
\* as RedisStream says (redis.go:118-216).
THEOREM AlerterImplementsStream == AlertSpec => StreamSpec
<1>1. AlertInit => StreamInit
  BY DEF AlertInit
<1>2. Context /\ HandInv /\ [AlertNext]_alertVars => [StreamNext]_streamVars
  BY AlertStepIsStreamStep DEF HandInv
<1> QED BY <1>1, <1>2, AlerterInvariant, PTL DEF AlertSpec, StreamSpec
=============================================================================
