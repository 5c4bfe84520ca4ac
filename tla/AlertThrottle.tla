--------------------------- MODULE AlertThrottle ---------------------------
(***************************************************************************)
(* The throttle of the alerter: the alert_history table, and ClaimAlert    *)
(* (internal/store/postgres/alerts.go), by which a goroutine of a replica  *)
(* asks for the right to page about a target of a rule.                    *)
(*                                                                         *)
(* ClaimAlert is one statement, INSERT ... WHERE NOT EXISTS, run under     *)
(* READ COMMITTED: what it looks for, it looks for in the snapshot taken   *)
(* when it starts, and its row is seen by others when it commits.  So a    *)
(* claim is two steps, and other claims may come in between.               *)
(***************************************************************************)
EXTENDS Naturals, Sequences, FiniteSets

CONSTANTS
  Replica,    \* alerter processes
  Rule,       \* alert rules
  KindOf,     \* the goroutine that serves each rule
  Issue,      \* issues a rule may page about
  NoIssue,    \* the target of a rule that is about a metric
  Throttle,   \* alert_rules.throttle_seconds, in ticks of the clock
  MaxClock,   \* bound of the model: ticks
  MaxEdits,   \* bound of the model: rules switched or deleted
  NoClaim     \* not a claim

VARIABLES
  rule,      \* each rule: "on", "off", or "gone"
  clock,     \* Postgres' now()
  history,   \* alert_history, in commit order; a deleted rule's rows are kept here
  claim,     \* per goroutine: the claim under way, and what its snapshot said
  edits      \* edits of rules so far

throttleVars == <<rule, clock, history, claim, edits>>

\* run's goroutines: the signal loop and the two timers.
Kinds == {"signal", "frequency", "metric"}
Thread == Replica \X Kinds

\* Dedupe keys: "issue:I", "freq:R:issue:I", "metric:R".  A claim is looked
\* up by rule and key, and a rule has one kind, so rule and target say it all.
Key == Rule \X (Issue \cup {NoIssue})

ASSUME ThrottleAssumption ==
  /\ KindOf \in [Rule -> Kinds]
  /\ NoIssue \notin Issue
  /\ Throttle \in Nat \ {0}  \* throttleOrDefault makes an hour of nothing
  /\ MaxClock \in Nat
  /\ MaxEdits \in Nat
  /\ NoClaim \notin [key : Key, at : Nat, blocked : BOOLEAN]

\* Mutant: EnabledRulesFor forgets the kind.
OnOfAnyKind(kind) == {r \in Rule : rule[r] = "on"}

\* EnabledRulesFor.
On(kind) == {r \in Rule : rule[r] = "on" /\ KindOf[r] = kind}

\* Mutant: the subquery has no condition on fired_at.
EverFired(key, now) == \E m \in DOMAIN history : history[m].key = key

\* The subquery of ClaimAlert.
Recent(key, now) ==
  \E m \in DOMAIN history : history[m].key = key /\ history[m].at + Throttle > now

----------------------------------------------------------------------------
ThrottleInit ==
  /\ rule = [r \in Rule |-> "on"]
  /\ clock = 0
  /\ history = <<>>
  /\ claim = [t \in Thread |-> NoClaim]
  /\ edits = 0

BeginClaim(t, key) ==
  /\ claim[t] = NoClaim
  /\ claim' = [claim EXCEPT ![t] =
                 [key |-> key, at |-> clock, blocked |-> Recent(key, clock)]]
  /\ UNCHANGED <<rule, clock, history, edits>>

Row(t) == [key |-> claim[t].key, at |-> claim[t].at, by |-> t[1]]

\* The row goes in, unless the snapshot had one or the rule's row is gone,
\* which the foreign key refuses.
Inserts(t) == ~claim[t].blocked /\ rule[claim[t].key[1]] # "gone"

WinClaim(t) ==
  /\ claim[t] # NoClaim
  /\ Inserts(t)
  /\ history' = Append(history, Row(t))
  /\ claim' = [claim EXCEPT ![t] = NoClaim]
  /\ UNCHANGED <<rule, clock, edits>>

\* Blocked, refused, or ended by a failure before it committed.
DropClaim(t) ==
  /\ claim[t] # NoClaim
  /\ claim' = [claim EXCEPT ![t] = NoClaim]
  /\ UNCHANGED <<rule, clock, history, edits>>

DropClaimsOf(w) ==
  /\ claim' = [t \in Thread |-> IF t[1] = w THEN NoClaim ELSE claim[t]]
  /\ UNCHANGED <<rule, clock, history, edits>>

\* SetAlertRuleEnabled and DeleteAlertRule, from the dashboard.
EditRule(r, status) ==
  /\ edits < MaxEdits
  /\ rule[r] # "gone"
  /\ rule[r] # status
  /\ rule' = [rule EXCEPT ![r] = status]
  /\ edits' = edits + 1
  /\ UNCHANGED <<clock, history, claim>>

Tick ==
  /\ clock < MaxClock
  /\ clock' = clock + 1
  /\ UNCHANGED <<rule, history, claim, edits>>

----------------------------------------------------------------------------
\* Type invariant of the throttle.
ThrottleTypeOK ==
  /\ rule \in [Rule -> {"on", "off", "gone"}]
  /\ clock \in Nat
  /\ history \in Seq([key : Key, at : Nat, by : Replica])
  /\ claim \in [Thread -> [key : Key, at : Nat, blocked : BOOLEAN] \cup {NoClaim}]
  /\ edits \in Nat

\* "exactly one replica wins" (alerts.go:71-72): of two claims won for one
\* target, the later one is a throttle window after the earlier.
OneWinnerPerWindow ==
  \A m, n \in DOMAIN history :
    m < n /\ history[m].key = history[n].key => history[m].at + Throttle <= history[n].at

\* "Throttling is enforced in the database, so two alerter replicas cannot
\* page the same person twice" (alert.go:9-11) holds only for replicas that do
\* not race: of two claims won for one target inside the throttle window, the
\* second was won by another replica.  One replica, with its three goroutines
\* and however often it is restarted, never pages twice.
OnlyReplicasPageTwice ==
  \A m, n \in DOMAIN history :
    m < n /\ history[m].key = history[n].key /\ history[m].at + Throttle > history[n].at
      => history[m].by # history[n].by

=============================================================================
