----------------------------- MODULE IssueStore -----------------------------
(***************************************************************************)
(* The issues table of Postgres and the transactions that fold occurrences *)
(* into it: UpsertIssue (internal/store/postgres/issues.go), run by every  *)
(* processor worker, and SetIssueStatus (issue_queries.go), run by the     *)
(* dashboard API.                                                          *)
(*                                                                         *)
(* UpsertIssue is a READ COMMITTED transaction of two statements.  The     *)
(* first, SELECT ... FOR UPDATE, locks the row it finds, and locks nothing *)
(* when there is no row yet.  The second, INSERT ... ON CONFLICT DO        *)
(* UPDATE, and the COMMIT are one step here: until the commit the row is   *)
(* locked and its new version invisible, so others see the state before    *)
(* or the state after.                                                     *)
(***************************************************************************)
EXTENDS Naturals, FiniteSets

CONSTANTS
  Worker,      \* processor workers
  Group,       \* (project, group_hash) pairs
  MaxTriage,   \* bound of the model: status changes made by people
  MaxSeen,     \* bound of the model: times_seen stops counting here
  NoTx         \* not a transaction

VARIABLES
  issue,       \* status of each group's row; "none" when there is no row
  timesSeen,   \* issues.times_seen
  tx,          \* per worker: the open transaction, with the status it read
  created,     \* history: times an upsert of the group reported New
  regressed,   \* history: times an upsert of the group reported Regressed
  resolved,    \* history: times the group's issue became resolved
  reopened,    \* history: times an occurrence reopened the group's issue
  triage       \* status changes made so far

issueVars ==
  <<issue, timesSeen, tx, created, regressed, resolved, reopened, triage>>

Status == {"unresolved", "resolved", "ignored"}
Tx == [group : Group, prior : Status \cup {"none"}]

ASSUME IssueAssumption ==
  /\ IsFiniteSet(Worker) /\ Worker # {}   \* "must be > 0" (config.go:226-228)
  /\ MaxTriage \in Nat
  /\ MaxSeen \in Nat
  /\ NoTx \notin Tx

\* Mutant: SELECT without FOR UPDATE.
NeverHolds(w, g) == FALSE

\* The worker's transaction holds the row lock of group g.
Holds(w, g) == tx[w] # NoTx /\ tx[w].group = g /\ tx[w].prior # "none"

LockedByOther(w, g) == \E v \in Worker \ {w} : Holds(v, g)

----------------------------------------------------------------------------
IssueInit ==
  /\ issue = [g \in Group |-> "none"]
  /\ timesSeen = [g \in Group |-> 0]
  /\ tx = [w \in Worker |-> NoTx]
  /\ created = [g \in Group |-> 0]
  /\ regressed = [g \in Group |-> 0]
  /\ resolved = [g \in Group |-> 0]
  /\ reopened = [g \in Group |-> 0]
  /\ triage = 0

\* BEGIN; SELECT status ... FOR UPDATE, which waits for the row's lock.
ReadPrior(w, g) ==
  /\ tx[w] = NoTx
  /\ ~LockedByOther(w, g)
  /\ tx' = [tx EXCEPT ![w] = [group |-> g, prior |-> issue[g]]]
  /\ UNCHANGED <<issue, timesSeen, created, regressed, resolved, reopened, triage>>

\* Mutant: new because the first statement found no row, instead of xmax = 0.
NoRowWasRead(w) == tx[w].prior = "none"

\* What the upsert reports about the occurrence it folds in.
IsNew(w) == issue[tx[w].group] = "none"

\* Mutant: whatever was not open has regressed.
WasNotOpen(w) == tx[w].prior \in {"resolved", "ignored"}

IsRegressed(w) == tx[w].prior = "resolved"

Occurred(status) == IF status \in {"none", "resolved"} THEN "unresolved" ELSE status

Count(history, g, happened) ==
  [history EXCEPT ![g] = IF happened THEN @ + 1 ELSE @]

\* Mutant: the ON CONFLICT branch does not increment times_seen.
UpsertCountsNewOnly(w) ==
  /\ tx[w] # NoTx
  /\ LET g == tx[w].group IN
       /\ ~LockedByOther(w, g)
       /\ issue' = [issue EXCEPT ![g] = Occurred(@)]
       /\ timesSeen' = Count(timesSeen, g, IsNew(w))
       /\ created' = Count(created, g, IsNew(w))
       /\ regressed' = Count(regressed, g, IsRegressed(w))
       /\ reopened' = Count(reopened, g, issue[g] = "resolved")
  /\ tx' = [tx EXCEPT ![w] = NoTx]
  /\ UNCHANGED <<resolved, triage>>

\* INSERT ... ON CONFLICT DO UPDATE; COMMIT.
Upsert(w) ==
  /\ tx[w] # NoTx
  /\ LET g == tx[w].group IN
       /\ ~LockedByOther(w, g)
       /\ issue' = [issue EXCEPT ![g] = Occurred(@)]
       /\ timesSeen' = Count(timesSeen, g, timesSeen[g] < MaxSeen)
       /\ created' = Count(created, g, IsNew(w))
       /\ regressed' = Count(regressed, g, IsRegressed(w))
       /\ reopened' = Count(reopened, g, issue[g] = "resolved")
  /\ tx' = [tx EXCEPT ![w] = NoTx]
  /\ UNCHANGED <<resolved, triage>>

\* A failed statement or a lost connection: the deferred Rollback.
Rollback(w) ==
  /\ tx[w] # NoTx
  /\ tx' = [tx EXCEPT ![w] = NoTx]
  /\ UNCHANGED <<issue, timesSeen, created, regressed, resolved, reopened, triage>>

\* SetIssueStatus: one UPDATE, which waits for the row's lock.
SetIssueStatus(g, status) ==
  /\ triage < MaxTriage
  /\ issue[g] # "none"
  /\ \A w \in Worker : ~Holds(w, g)
  /\ issue' = [issue EXCEPT ![g] = status]
  /\ resolved' = Count(resolved, g, status = "resolved" /\ issue[g] # "resolved")
  /\ triage' = triage + 1
  /\ UNCHANGED <<timesSeen, tx, created, regressed, reopened>>

IssueNext ==
  \/ \E w \in Worker, g \in Group : ReadPrior(w, g)
  \/ \E w \in Worker : Upsert(w) \/ Rollback(w)
  \/ \E g \in Group, status \in Status : SetIssueStatus(g, status)

IssueSpec == IssueInit /\ [][IssueNext]_issueVars

----------------------------------------------------------------------------
\* Type invariant of the issue store.
IssueTypeOK ==
  /\ issue \in [Group -> Status \cup {"none"}]
  /\ timesSeen \in [Group -> Nat]
  /\ tx \in [Worker -> Tx \cup {NoTx}]
  /\ created \in [Group -> Nat]
  /\ regressed \in [Group -> Nat]
  /\ resolved \in [Group -> Nat]
  /\ reopened \in [Group -> Nat]
  /\ triage \in Nat

\* However many workers meet a group for the first time together, exactly one
\* of them is told it is new, and the row is there from then on (the reason
\* issues.go:39-42 gives for ON CONFLICT).
NewOnce == \A g \in Group : created[g] = IF issue[g] = "none" THEN 0 ELSE 1

\* Nobody is paged twice for one regression: an issue is reported regressed at
\* most as often as somebody resolved it (the reason issues.go:84-86 gives for
\* FOR UPDATE).
OneRegressionPerResolve == \A g \in Group : regressed[g] <= resolved[g]

\* The status a transaction read is still the row's status when it commits, if
\* there was a row: nobody resolves or reopens the issue between the two
\* statements, which is what makes them one decision (issues.go:55-57).
LockedStatusIsCurrent ==
  \A w \in Worker :
    tx[w] # NoTx /\ tx[w].prior # "none" => issue[tx[w].group] = tx[w].prior

\* "Regressed is true when a resolved issue started happening again"
\* (issues.go:26-27).  It is not quite: see the next property.
EveryReopenIsReported == \A g \in Group : regressed[g] = reopened[g]

\* An occurrence that says so has reopened the issue, and one that reopens it
\* without saying so had found no row in its first statement, and locked none
\* (issues.go:84-89): the issue was created and resolved while it was under way.  No
\* other occurrence reopens an issue unreported, whatever is resolved between its
\* two statements.
OnlyTheOvertakenAreSilent ==
  [][\A g \in Group :
       /\ regressed'[g] > regressed[g] => reopened'[g] > reopened[g]
       /\ reopened'[g] > reopened[g] /\ regressed'[g] = regressed[g] =>
            \E w \in Worker :
              tx[w] # NoTx /\ tx[w].group = g /\ tx[w].prior = "none" /\ tx'[w] = NoTx
    ]_issueVars
=============================================================================
