------------------------------- MODULE Triage -------------------------------
(***************************************************************************)
(* One issue, edited by people and reopened by its occurrences, and its    *)
(* audit trail: SetIssueStatus and AssignIssue of                          *)
(* internal/store/postgres/issue_queries.go behind the handlers of         *)
(* internal/api/issue_handlers.go.                                         *)
(*                                                                         *)
(* An edit is an UPDATE and then, in a statement of its own, an entry in   *)
(* issue_activity; an occurrence that reopens the issue leaves none.       *)
(* Whether the caller, and an assignee, may see the project is the same    *)
(* throughout a behaviour.                                                 *)
(***************************************************************************)
EXTENDS Naturals, Sequences

CONSTANTS
  Editor,     \* requests that may be under way at once
  Member,     \* users who may see the project
  Stranger,   \* users who may not
  Release,    \* in the order they were made
  MaxEdits    \* bound of the model

ASSUME TriageAssumption == Release \subseteq Nat \ {0}

Nobody    == "nobody"
NoRelease == 0

VARIABLES
  ticket,   \* the row: status, assignee, resolved_in_release
  trail,    \* issue_activity, in the order it was written: field and value
  editor,   \* per request: the entry it has still to write
  unsure,   \* history: per field, why the trail may not end in its value
  fix,      \* history: the release given with the last change of status, if it resolved
  since,    \* history: the releases of the occurrences since then
  edits

triageVars == <<ticket, trail, editor, unsure, fix, since, edits>>

Field   == {"status", "assignee"}
NoEdit  == [field |-> "none", value |-> "none"]

\* An issue as its first occurrence makes it.
Unedited == [status |-> "unresolved", assignee |-> Nobody, resolvedIn |-> NoRelease]

TriageInit ==
  /\ ticket = Unedited
  /\ trail = <<>>
  /\ editor = [e \in Editor |-> NoEdit]
  /\ unsure = [f \in Field |-> FALSE]
  /\ fix = NoRelease /\ since = {}
  /\ edits = 0

----------------------------------------------------------------------------
\* An UPDATE of a field committed; the entry is still to come.  What excused the
\* field before is forgotten, unless another entry of it is under way.
Edit(e, field, value) ==
  /\ editor[e] = NoEdit
  /\ edits < MaxEdits
  /\ edits' = edits + 1
  /\ editor' = [editor EXCEPT ![e] = [field |-> field, value |-> value]]
  /\ unsure' = [unsure EXCEPT ![field] = \E o \in Editor : editor[o].field = field]
  /\ UNCHANGED trail

\* SetIssueStatus; the handler takes these three only.
SetStatus(e, status, release) ==
  /\ fix' = IF status = "resolved" THEN release ELSE NoRelease
  /\ since' = {}
  /\ ticket' = [ticket EXCEPT !.status = status, !.resolvedIn = fix']
  /\ Edit(e, "status", status)

\* handleAssign and AssignIssue: nobody, or a user with access to the project.
MayBeAssigned == Member \cup {Nobody}

Assign(e, who) ==
  /\ who \in MayBeAssigned
  /\ ticket' = [ticket EXCEPT !.assignee = who]
  /\ Edit(e, "assignee", who)
  /\ UNCHANGED <<fix, since>>

\* Mutant: an entry that repeats the last one is not written.
recordActivityOnce(e) ==
  /\ editor[e] # NoEdit
  /\ trail' = IF \E i \in DOMAIN trail : trail[i] = editor[e] THEN trail ELSE Append(trail, editor[e])
  /\ editor' = [editor EXCEPT ![e] = NoEdit]
  /\ UNCHANGED <<ticket, unsure, fix, since, edits>>

recordActivity(e) ==
  /\ editor[e] # NoEdit
  /\ trail' = Append(trail, editor[e])
  /\ editor' = [editor EXCEPT ![e] = NoEdit]
  /\ UNCHANGED <<ticket, unsure, fix, since, edits>>

\* The insert fails or the server dies: the caller gets an error for a change
\* that was made.
ActivityFails(e) ==
  /\ editor[e] # NoEdit
  /\ unsure' = [unsure EXCEPT ![editor[e].field] = TRUE]
  /\ editor' = [editor EXCEPT ![e] = NoEdit]
  /\ UNCHANGED <<ticket, trail, fix, since, edits>>

\* The occurrence is of a build older than the fix.
IsStraggler(release, fixedIn) == release # NoRelease /\ release < fixedIn

\* Mutant: the release is compared, the wrong way round.
ReopenedByOlder(row, release) ==
  IF row.resolvedIn # NoRelease /\ ~IsStraggler(release, row.resolvedIn) THEN row
  ELSE [row EXCEPT !.status = "unresolved", !.resolvedIn = NoRelease]

\* UpsertIssue's ON CONFLICT, whatever release the occurrence is of.
ReopenedRow(row, release) ==
  [row EXCEPT !.status = "unresolved", !.resolvedIn = NoRelease]

Occurrence(release) ==
  /\ ticket' = IF ticket.status = "resolved" THEN ReopenedRow(ticket, release) ELSE ticket
  /\ unsure' = [unsure EXCEPT !["status"] = @ \/ ticket.status = "resolved"]
  /\ since' = since \cup {release}
  /\ UNCHANGED <<trail, editor, fix, edits>>

TriageNext ==
  \/ \E e \in Editor :
       \/ \E status \in {"resolved", "ignored", "unresolved"},
             release \in Release \cup {NoRelease} : SetStatus(e, status, release)
       \/ \E who \in Member \cup Stranger \cup {Nobody} : Assign(e, who)
       \/ recordActivity(e)
       \/ ActivityFails(e)
  \/ \E release \in Release \cup {NoRelease} : Occurrence(release)

TriageSpec == TriageInit /\ [][TriageNext]_triageVars

----------------------------------------------------------------------------
(***************************************************************************)
(* Properties.                                                             *)
(***************************************************************************)
\* The newest entry of a field has its value, or the row is as it was created.
Tells(field) ==
  \/ \E n \in DOMAIN trail :
       /\ trail[n] = [field |-> field, value |-> ticket[field]]
       /\ \A m \in DOMAIN trail : trail[m].field = field => m <= n
  \/ /\ \A n \in DOMAIN trail : trail[n].field # field
     /\ ticket[field] = Unedited[field]

\* The trail's newest entry of a field tells the field's value
\* (issue_queries.go:193-199, 213-219), unless an entry failed, two edits of the
\* field were under way at once, or an occurrence reopened the issue.
TrailTellsState ==
  \A f \in Field :
    ~unsure[f] /\ (\A e \in Editor : editor[e].field # f) => Tells(f)

\* "A later occurrence in a LATER release is a regression" (issue_queries.go:172-173):
\* as long as an issue is resolved, nothing has occurred since but in releases older
\* than its fix, nothing at all when no release was given; and the release of the
\* fix goes when the issue is reopened, so that the next resolution is not judged
\* by it (issues.go:67-71).
RegressionsReopen ==
  /\ ticket.status = "resolved" =>
       \A release \in since : IsStraggler(release, ticket.resolvedIn)
  /\ ticket.resolvedIn # NoRelease => ticket.status = "resolved"

\* "... while a straggler from an older release is not" (issue_queries.go:173): an
\* issue resolved in a release stays so while all that occurs is older.
StragglersAreExpected ==
  fix # NoRelease /\ (\A release \in since : IsStraggler(release, fix)) =>
    ticket.status = "resolved"
=============================================================================
