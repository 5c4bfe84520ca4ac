-------------------------- MODULE IssueStoreProofs --------------------------
(***************************************************************************)
(* The issue store's safety for any number of workers, groups and status   *)
(* changes.                                                                *)
(*                                                                         *)
(* The invariant counts: every resolve is matched by at most one reported  *)
(* regression, and while an issue is still resolved its last resolve is    *)
(* unmatched.  That is preserved because a transaction that read           *)
(* "resolved" holds the row lock, so the issue is still resolved when it   *)
(* commits, and no two transactions hold the lock of one row.              *)
(***************************************************************************)
EXTENDS IssueStore, TLAPS

LockIsExclusive ==
  \A v, w \in Worker, g \in Group : Holds(v, g) /\ Holds(w, g) => v = w

\* Resolves not yet answered by a reported regression.
OpenResolves ==
  \A g \in Group :
    regressed[g] + (IF issue[g] = "resolved" THEN 1 ELSE 0) <= resolved[g]

IssueInv ==
  /\ IssueTypeOK
  /\ LockIsExclusive
  /\ LockedStatusIsCurrent
  /\ NewOnce
  /\ OpenResolves

----------------------------------------------------------------------------
LEMMA CountType ==
  ASSUME NEW history \in [Group -> Nat], NEW g \in Group, NEW happened \in BOOLEAN
  PROVE  Count(history, g, happened) \in [Group -> Nat]
BY DEF Count

LEMMA CountValue ==
  ASSUME NEW history \in [Group -> Nat], NEW g \in Group, NEW happened \in BOOLEAN
  PROVE  \A h \in Group :
           Count(history, g, happened)[h] =
             IF h = g /\ happened THEN history[h] + 1 ELSE history[h]
BY DEF Count

LEMMA TxFields ==
  ASSUME IssueTypeOK, NEW w \in Worker, tx[w] # NoTx
  PROVE  tx[w].group \in Group /\ tx[w].prior \in Status \cup {"none"}
BY DEF IssueTypeOK, Tx

LEMMA OccurredStatus ==
  ASSUME NEW status \in Status \cup {"none"}
  PROVE  Occurred(status) \in Status /\ Occurred(status) # "resolved"
BY DEF Occurred, Status

----------------------------------------------------------------------------
LEMMA IssueInitInv == IssueInit => IssueInv
BY IssueAssumption
DEF IssueInit, IssueInv, IssueTypeOK, LockIsExclusive, Holds, LockedStatusIsCurrent,
    NewOnce, OpenResolves

LEMMA ReadPriorInv ==
  ASSUME IssueInv, NEW w \in Worker, NEW g \in Group, ReadPrior(w, g)
  PROVE  IssueInv'
<1> DEFINE t == [group |-> g, prior |-> issue[g]]
<1> USE DEF IssueInv
<1>1. t \in Tx /\ t # NoTx
  BY IssueAssumption DEF IssueTypeOK, Tx
<1>2. tx' = [tx EXCEPT ![w] = t] /\ issue' = issue
  BY DEF ReadPrior
<1>3. \A v \in Worker : tx'[v] = IF v = w THEN t ELSE tx[v]
  BY <1>2 DEF IssueTypeOK
<1>4. IssueTypeOK'
  BY <1>1, <1>2 DEF IssueTypeOK, ReadPrior
<1>5. LockIsExclusive'
  <2> SUFFICES ASSUME NEW u \in Worker, NEW v \in Worker, NEW h \in Group,
                      Holds(u, h)', Holds(v, h)'
               PROVE  u = v
    BY DEF LockIsExclusive
  <2>1. CASE u # w /\ v # w
    BY <2>1, <1>3 DEF LockIsExclusive, Holds
  <2>2. CASE u = w /\ v # w
    <3>1. h = g /\ Holds(v, g)
      BY <2>2, <1>3 DEF Holds
    <3> QED BY <3>1, <2>2 DEF ReadPrior, LockedByOther
  <2>3. CASE v = w /\ u # w
    <3>1. h = g /\ Holds(u, g)
      BY <2>3, <1>3 DEF Holds
    <3> QED BY <3>1, <2>3 DEF ReadPrior, LockedByOther
  <2> QED BY <2>1, <2>2, <2>3
<1>6. LockedStatusIsCurrent'
  BY <1>2, <1>3 DEF LockedStatusIsCurrent
<1>7. NewOnce' /\ OpenResolves'
  BY DEF ReadPrior, NewOnce, OpenResolves
<1> QED BY <1>4, <1>5, <1>6, <1>7

LEMMA UpsertInv ==
  ASSUME IssueInv, NEW w \in Worker, Upsert(w)
  PROVE  IssueInv'
<1> DEFINE g == tx[w].group
<1> USE DEF IssueInv
<1>1. tx[w] # NoTx /\ g \in Group /\ tx[w].prior \in Status \cup {"none"}
  BY TxFields DEF Upsert
<1>2. issue[g] \in Status \cup {"none"}
  BY <1>1 DEF IssueTypeOK
<1>3. /\ issue' = [issue EXCEPT ![g] = Occurred(issue[g])]
      /\ tx' = [tx EXCEPT ![w] = NoTx]
      /\ created' = Count(created, g, IsNew(w))
      /\ regressed' = Count(regressed, g, IsRegressed(w))
      /\ timesSeen' = Count(timesSeen, g, timesSeen[g] < MaxSeen)
      /\ reopened' = Count(reopened, g, issue[g] = "resolved")
      /\ resolved' = resolved /\ triage' = triage
      /\ ~LockedByOther(w, g)
  BY DEF Upsert
<1>4. IsNew(w) \in BOOLEAN /\ IsRegressed(w) \in BOOLEAN
  BY DEF IsNew, IsRegressed
<1>5. \A v \in Worker : tx'[v] = IF v = w THEN NoTx ELSE tx[v]
  BY <1>3 DEF IssueTypeOK
<1>6. \A h \in Group : issue'[h] = IF h = g THEN Occurred(issue[g]) ELSE issue[h]
  BY <1>3 DEF IssueTypeOK
<1>7. Occurred(issue[g]) \in Status /\ Occurred(issue[g]) # "resolved"
  BY <1>2, OccurredStatus
<1>8. IssueTypeOK'
  <2>1. issue' \in [Group -> Status \cup {"none"}]
    BY <1>3, <1>7 DEF IssueTypeOK
  <2>2. tx' \in [Worker -> Tx \cup {NoTx}]
    BY <1>3 DEF IssueTypeOK
  <2>3. /\ created' \in [Group -> Nat]
        /\ regressed' \in [Group -> Nat]
        /\ timesSeen' \in [Group -> Nat]
        /\ reopened' \in [Group -> Nat]
    <3>1. (timesSeen[g] < MaxSeen) \in BOOLEAN /\ (issue[g] = "resolved") \in BOOLEAN
      OBVIOUS
    <3> QED BY <3>1, <1>1, <1>3, <1>4, CountType DEF IssueTypeOK
  <2> QED BY <2>1, <2>2, <2>3, <1>3 DEF IssueTypeOK
<1>9. LockIsExclusive'
  BY <1>5 DEF LockIsExclusive, Holds
<1>10. LockedStatusIsCurrent'
  <2> SUFFICES ASSUME NEW v \in Worker, tx'[v] # NoTx, tx'[v].prior # "none"
               PROVE  issue'[tx'[v].group] = tx'[v].prior
    BY DEF LockedStatusIsCurrent
  <2>1. v # w /\ tx'[v] = tx[v]
    BY <1>5
  <2>2. tx[v].group \in Group
    BY <2>1, TxFields
  <2>3. tx[v].group # g
    BY <2>1, <1>3 DEF LockedByOther, Holds
  <2> QED BY <2>1, <2>2, <2>3, <1>6 DEF LockedStatusIsCurrent
<1>11. NewOnce'
  <2>1. \A h \in Group : created'[h] = IF h = g /\ IsNew(w) THEN created[h] + 1 ELSE created[h]
    BY <1>1, <1>3, <1>4, CountValue DEF IssueTypeOK
  <2>2. created[g] \in Nat /\ Occurred(issue[g]) # "none"
    BY <1>1, <1>7 DEF IssueTypeOK, Status
  <2> QED BY <2>1, <2>2, <1>6 DEF NewOnce, IsNew
<1>12. OpenResolves'
  <2>1. \A h \in Group :
          regressed'[h] = IF h = g /\ IsRegressed(w) THEN regressed[h] + 1 ELSE regressed[h]
    BY <1>1, <1>3, <1>4, CountValue DEF IssueTypeOK
  <2>2. regressed[g] \in Nat /\ resolved[g] \in Nat
    BY <1>1 DEF IssueTypeOK
  <2>3. IsRegressed(w) => issue[g] = "resolved"
    BY <1>1 DEF LockedStatusIsCurrent, IsRegressed
  <2>4. regressed'[g] <= resolved[g] /\ issue'[g] # "resolved"
    BY <1>1, <1>6, <1>7, <2>1, <2>2, <2>3 DEF OpenResolves
  <2>5. regressed'[g] \in Nat
    BY <1>1, <2>1, <2>2
  <2> QED BY <1>3, <1>6, <2>1, <2>2, <2>4, <2>5 DEF OpenResolves
<1> QED BY <1>8, <1>9, <1>10, <1>11, <1>12

LEMMA RollbackInv ==
  ASSUME IssueInv, NEW w \in Worker, Rollback(w)
  PROVE  IssueInv'
<1> USE DEF IssueInv
<1>1. \A v \in Worker : tx'[v] = IF v = w THEN NoTx ELSE tx[v]
  BY DEF Rollback, IssueTypeOK
<1>2. IssueTypeOK'
  BY DEF Rollback, IssueTypeOK
<1>3. LockIsExclusive'
  BY <1>1 DEF LockIsExclusive, Holds
<1>4. LockedStatusIsCurrent'
  BY <1>1 DEF LockedStatusIsCurrent, Rollback
<1>5. NewOnce' /\ OpenResolves'
  BY DEF Rollback, NewOnce, OpenResolves
<1> QED BY <1>2, <1>3, <1>4, <1>5

LEMMA SetIssueStatusInv ==
  ASSUME IssueInv, NEW g \in Group, NEW status \in Status, SetIssueStatus(g, status)
  PROVE  IssueInv'
<1> DEFINE fixed == status = "resolved" /\ issue[g] # "resolved"
<1> USE DEF IssueInv
<1>1. /\ issue' = [issue EXCEPT ![g] = status]
      /\ resolved' = Count(resolved, g, fixed)
      /\ triage' = triage + 1
      /\ tx' = tx /\ created' = created /\ regressed' = regressed
      /\ reopened' = reopened /\ timesSeen' = timesSeen
      /\ issue[g] # "none"
      /\ \A w \in Worker : ~Holds(w, g)
  BY DEF SetIssueStatus
<1>2. \A h \in Group : issue'[h] = IF h = g THEN status ELSE issue[h]
  BY <1>1 DEF IssueTypeOK
<1>3. fixed \in BOOLEAN
  OBVIOUS
<1>4. \A h \in Group : resolved'[h] = IF h = g /\ fixed THEN resolved[h] + 1 ELSE resolved[h]
  <2>1. resolved \in [Group -> Nat]
    BY DEF IssueTypeOK
  <2> HIDE DEF fixed
  <2> QED BY <2>1, <1>1, <1>3, CountValue
<1>5. IssueTypeOK'
  <2>1. resolved' \in [Group -> Nat]
    BY <1>1, <1>3, CountType DEF IssueTypeOK
  <2> QED BY <1>1, <2>1 DEF IssueTypeOK
<1>6. LockIsExclusive'
  BY <1>1 DEF LockIsExclusive, Holds
<1>7. LockedStatusIsCurrent'
  <2> SUFFICES ASSUME NEW v \in Worker, tx[v] # NoTx, tx[v].prior # "none"
               PROVE  issue'[tx[v].group] = tx[v].prior
    BY <1>1 DEF LockedStatusIsCurrent
  <2>1. tx[v].group \in Group /\ tx[v].group # g
    BY <1>1, TxFields DEF Holds
  <2> QED BY <2>1, <1>2 DEF LockedStatusIsCurrent
<1>8. NewOnce'
  BY <1>1, <1>2 DEF NewOnce, Status
<1>9. OpenResolves'
  <2> SUFFICES ASSUME NEW h \in Group
               PROVE  regressed[h] + (IF issue'[h] = "resolved" THEN 1 ELSE 0) <= resolved'[h]
    BY <1>1 DEF OpenResolves
  <2>1. /\ regressed[h] \in Nat /\ resolved[h] \in Nat
        /\ regressed[h] + (IF issue[h] = "resolved" THEN 1 ELSE 0) <= resolved[h]
    BY DEF IssueTypeOK, OpenResolves
  <2> QED BY <2>1, <1>2, <1>4
<1> QED BY <1>5, <1>6, <1>7, <1>8, <1>9

----------------------------------------------------------------------------
LEMMA IssueStepInv == IssueInv /\ [IssueNext]_issueVars => IssueInv'
<1> SUFFICES ASSUME IssueInv, [IssueNext]_issueVars PROVE IssueInv'
  OBVIOUS
<1>1. CASE UNCHANGED issueVars
  BY <1>1 DEF issueVars, IssueInv, IssueTypeOK, LockIsExclusive, Holds,
              LockedStatusIsCurrent, NewOnce, OpenResolves
<1>2. ASSUME NEW w \in Worker, NEW g \in Group, ReadPrior(w, g) PROVE IssueInv'
  BY <1>2, ReadPriorInv
<1>3. ASSUME NEW w \in Worker, Upsert(w) PROVE IssueInv'
  BY <1>3, UpsertInv
<1>4. ASSUME NEW w \in Worker, Rollback(w) PROVE IssueInv'
  BY <1>4, RollbackInv
<1>5. ASSUME NEW g \in Group, NEW status \in Status, SetIssueStatus(g, status) PROVE IssueInv'
  BY <1>5, SetIssueStatusInv
<1> QED BY <1>1, <1>2, <1>3, <1>4, <1>5 DEF IssueNext

\* The inductive invariant holds of the issue store.
THEOREM IssueStoreInv == IssueSpec => []IssueInv
BY IssueInitInv, IssueStepInv, PTL DEF IssueSpec

\* The issue store's state always has its type.
THEOREM IssueTypes == IssueSpec => []IssueTypeOK
<1>1. IssueInv => IssueTypeOK
  BY DEF IssueInv
<1> QED BY <1>1, IssueStoreInv, PTL

\* Of all the workers that meet a group together, exactly one is told that it
\* is new (issues.go:39-42).
THEOREM NewIsReportedOnce == IssueSpec => []NewOnce
<1>1. IssueInv => NewOnce
  BY DEF IssueInv
<1> QED BY <1>1, IssueStoreInv, PTL

\* The status read under FOR UPDATE is the row's status until the transaction
\* ends (issues.go:55-57).
THEOREM ReadStatusIsCurrent == IssueSpec => []LockedStatusIsCurrent
<1>1. IssueInv => LockedStatusIsCurrent
  BY DEF IssueInv
<1> QED BY <1>1, IssueStoreInv, PTL

\* A resolve is answered by at most one reported regression, whatever the
\* interleaving of workers and people (issues.go:84-86).
THEOREM RegressionIsReportedOnce == IssueSpec => []OneRegressionPerResolve
<1>1. IssueInv => OneRegressionPerResolve
  BY DEF IssueInv, IssueTypeOK, OpenResolves, OneRegressionPerResolve
<1> QED BY <1>1, IssueStoreInv, PTL

----------------------------------------------------------------------------
(***************************************************************************)
(* Reopenings.  A transaction that found the row holds its lock, so that   *)
(* the status it reports is the status it changes.                         *)
(***************************************************************************)
LEMMA UpsertReports ==
  ASSUME IssueInv, NEW w \in Worker, Upsert(w), NEW g \in Group
  PROVE  /\ regressed'[g] > regressed[g] => reopened'[g] > reopened[g]
         /\ reopened'[g] > reopened[g] /\ regressed'[g] = regressed[g] =>
              tx[w] # NoTx /\ tx[w].group = g /\ tx[w].prior = "none" /\ tx'[w] = NoTx
<1> USE DEF IssueInv
<1>1. tx[w] # NoTx /\ tx[w].group \in Group
  BY TxFields DEF Upsert
<1>2. PICK h \in Group : h = tx[w].group
  BY <1>1
<1>3. PICK reopens \in BOOLEAN : reopens <=> issue[h] = "resolved"
  OBVIOUS
<1>4. PICK regresses \in BOOLEAN : regresses <=> IsRegressed(w)
  OBVIOUS
<1>5. /\ regressed' = Count(regressed, h, regresses)
      /\ reopened' = Count(reopened, h, reopens)
      /\ tx'[w] = NoTx
  BY <1>2, <1>3, <1>4 DEF Upsert, Count, IssueTypeOK
<1>6. /\ regressed'[g] = IF g = h /\ regresses THEN regressed[g] + 1 ELSE regressed[g]
      /\ reopened'[g] = IF g = h /\ reopens THEN reopened[g] + 1 ELSE reopened[g]
      /\ regressed[g] \in Nat /\ reopened[g] \in Nat
  <2>1. regressed \in [Group -> Nat] /\ reopened \in [Group -> Nat]
    BY DEF IssueTypeOK
  <2> QED BY <1>5, <2>1, CountValue
<1>7. tx[w].prior # "none" => (regresses <=> reopens)
  BY <1>1, <1>2, <1>3, <1>4 DEF LockedStatusIsCurrent, IsRegressed
<1>8. tx[w].prior = "none" => ~regresses
  BY <1>4 DEF IsRegressed
<1> QED BY <1>1, <1>2, <1>5, <1>6, <1>7, <1>8

\* A reported regression reopened the issue, and only an occurrence that was
\* overtaken by the creation and the resolution of its issue reopens it unreported
\* (issues.go:26-27, 84-89).
THEOREM OnlyOvertakenReopeningsAreSilent == IssueSpec => OnlyTheOvertakenAreSilent
<1> DEFINE Told(g) ==
      /\ regressed'[g] > regressed[g] => reopened'[g] > reopened[g]
      /\ reopened'[g] > reopened[g] /\ regressed'[g] = regressed[g] =>
           \E w \in Worker :
             tx[w] # NoTx /\ tx[w].group = g /\ tx[w].prior = "none" /\ tx'[w] = NoTx
<1>1. IssueInv /\ [IssueNext]_issueVars => [\A g \in Group : Told(g)]_issueVars
  <2> SUFFICES ASSUME IssueInv, IssueNext, NEW g \in Group
               PROVE  Told(g)
    OBVIOUS
  <2>1. ASSUME NEW w \in Worker, Upsert(w) PROVE Told(g)
    BY <2>1, UpsertReports
  <2>2. ASSUME UNCHANGED <<regressed, reopened>> PROVE Told(g)
    BY <2>2 DEF IssueInv, IssueTypeOK
  <2> QED BY <2>1, <2>2 DEF IssueNext, ReadPrior, Rollback, SetIssueStatus
<1> QED BY <1>1, IssueStoreInv, PTL DEF IssueSpec, OnlyTheOvertakenAreSilent
=============================================================================
