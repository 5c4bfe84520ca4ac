--------------------------- MODULE ServicesProofs ---------------------------
(***************************************************************************)
(* The state machines that stand by themselves, for any number of editors, *)
(* rows, runners, projects and keys:                                       *)
(*   - an issue's audit trail tells its state, and regressions reopen it;   *)
(*   - a list shows no row twice and skips only ties and what changed, and *)
(*     a tail sends what is new;                                           *)
(*   - a project without a key is explained, and a purge that went through *)
(*     leaves only what came late or is about to go;                       *)
(*   - migrations are applied in order, what is recorded is there, and on  *)
(*     Postgres no version is committed twice.                             *)
(***************************************************************************)
EXTENDS Triage, Lists, Migrations, Projects, FiniteSetTheorems, SequenceTheorems, TLAPS

----------------------------------------------------------------------------
(***************************************************************************)
(* Triage.  Unless a field is in doubt, whoever has still to write an      *)
(* entry of it will write what it is, and when nobody has, the newest      *)
(* entry says so.                                                          *)
(***************************************************************************)
Value == {"unresolved", "resolved", "ignored"} \cup Member \cup {Nobody}
Entry == [field : Field, value : Value]

TriageTypes ==
  /\ ticket \in [status : Value, assignee : Value, resolvedIn : Release \cup {NoRelease}]
  /\ trail \in Seq(Entry)
  /\ editor \in [Editor -> Entry \cup {NoEdit}]
  /\ unsure \in [Field -> BOOLEAN]

\* Nothing has occurred since the resolution, whatever its release.
SilentSince ==
  /\ ticket.status = "resolved" => since = {}
  /\ ticket.resolvedIn # NoRelease => ticket.status = "resolved"

TrailOK ==
  \A f \in Field : ~unsure[f] =>
    /\ \A e \in Editor : editor[e].field = f => editor[e].value = ticket[f]
    /\ (\A e \in Editor : editor[e].field # f) => Tells(f)

TriageInv == TriageTypes /\ TrailOK /\ SilentSince

LEMMA Fields ==
  /\ "status" \in Field /\ "assignee" \in Field
  /\ \A f \in Field : NoEdit.field # f
  /\ \A f \in Field : f = "status" \/ f = "assignee"
BY DEF Field, NoEdit

\* An entry is the newest one of its field, and changes nothing for the other.
LEMMA AppendTells ==
  ASSUME TriageTypes, NEW x \in Entry, trail' = Append(trail, x), UNCHANGED ticket,
         NEW f \in Field,
         \/ x = [field |-> f, value |-> ticket[f]]
         \/ x.field # f /\ Tells(f)
  PROVE  Tells(f)'
<1>1. /\ Len(trail) \in Nat /\ DOMAIN trail = 1 .. Len(trail)
      /\ DOMAIN trail' = 1 .. Len(trail) + 1
      /\ \A i \in 1 .. Len(trail) : trail'[i] = trail[i]
      /\ trail'[Len(trail) + 1] = x
  BY LenProperties, AppendProperties DEF TriageTypes
<1>2. CASE x = [field |-> f, value |-> ticket[f]]
  <2>1. /\ Len(trail) + 1 \in DOMAIN trail'
        /\ trail'[Len(trail) + 1] = [field |-> f, value |-> ticket'[f]]
        /\ \A m \in DOMAIN trail' : m <= Len(trail) + 1
    BY <1>1, <1>2
  <2> QED BY <2>1 DEF Tells
<1>3. CASE x.field # f /\ Tells(f)
  <2>1. \A m \in DOMAIN trail' : trail'[m].field = f => m \in DOMAIN trail /\ trail[m].field = f
    BY <1>1, <1>3
  <2>2. CASE \E n \in DOMAIN trail :
               /\ trail[n] = [field |-> f, value |-> ticket[f]]
               /\ \A m \in DOMAIN trail : trail[m].field = f => m <= n
    <3>1. PICK n \in DOMAIN trail :
               /\ trail[n] = [field |-> f, value |-> ticket[f]]
               /\ \A m \in DOMAIN trail : trail[m].field = f => m <= n
      BY <2>2
    <3>2. n \in DOMAIN trail' /\ trail'[n] = [field |-> f, value |-> ticket'[f]]
      BY <1>1, <3>1
    <3> QED BY <2>1, <3>1, <3>2 DEF Tells
  <2>3. CASE (\A n \in DOMAIN trail : trail[n].field # f) /\ ticket[f] = Unedited[f]
    BY <2>1, <2>3 DEF Tells
  <2> QED BY <1>3, <2>2, <2>3 DEF Tells
<1> QED BY <1>2, <1>3

\* Nothing is written, and the field keeps its value.
LEMMA TellsStutters ==
  ASSUME NEW f \in Field, UNCHANGED trail, ticket'[f] = ticket[f], Tells(f)
  PROVE  Tells(f)'
BY DEF Tells

LEMMA EditInv ==
  ASSUME TriageInv, NEW e \in Editor, NEW field \in Field, NEW value \in Value,
         Edit(e, field, value), TriageTypes', SilentSince',
         ticket'[field] = value,
         \A f \in Field \ {field} : ticket'[f] = ticket[f]
  PROVE  TriageInv'
<1>1. /\ editor[e] = NoEdit
      /\ editor' = [editor EXCEPT ![e] = [field |-> field, value |-> value]]
      /\ unsure' = [unsure EXCEPT ![field] = \E o \in Editor : editor[o].field = field]
      /\ UNCHANGED trail
  BY DEF Edit
<1>2. ASSUME NEW f \in Field, ~unsure'[f], NEW o \in Editor, editor'[o].field = f
      PROVE  editor'[o].value = ticket'[f]
  <2>1. CASE f = field
    BY <1>1, <1>2, <2>1 DEF TriageInv, TriageTypes
  <2>2. CASE f # field
    BY <1>1, <1>2, <2>2 DEF TriageInv, TriageTypes, TrailOK
  <2> QED BY <2>1, <2>2
<1>3. ASSUME NEW f \in Field, ~unsure'[f], \A o \in Editor : editor'[o].field # f
      PROVE  Tells(f)'
  <2>1. f # field
    BY <1>1, <1>3 DEF TriageInv, TriageTypes
  <2>2. ~unsure[f] /\ \A o \in Editor : editor[o].field # f
    BY <1>1, <1>3, <2>1, Fields DEF TriageInv, TriageTypes
  <2> QED BY <1>1, <2>1, <2>2, TellsStutters DEF TriageInv, TrailOK
<1> QED BY <1>2, <1>3 DEF TriageInv, TrailOK

LEMMA SetStatusInv ==
  ASSUME TriageInv, NEW e \in Editor, NEW status \in {"resolved", "ignored", "unresolved"},
         NEW release \in Release \cup {NoRelease}, SetStatus(e, status, release)
  PROVE  TriageInv'
<1>1. /\ ticket' = [ticket EXCEPT !.status = status,
                      !.resolvedIn = IF status = "resolved" THEN release ELSE NoRelease]
      /\ since' = {} /\ Edit(e, "status", status)
  BY DEF SetStatus
<1>2. status \in Value /\ [field |-> "status", value |-> status] \in Entry
  BY Fields DEF Value, Entry
<1>3. /\ ticket' \in [status : Value, assignee : Value, resolvedIn : Release \cup {NoRelease}]
      /\ ticket'.status = status /\ ticket'.assignee = ticket.assignee
      /\ ticket'.resolvedIn # NoRelease => ticket'.status = "resolved"
  BY <1>1, <1>2 DEF TriageInv, TriageTypes
<1>4. TriageTypes'
  BY <1>1, <1>2, <1>3 DEF TriageInv, TriageTypes, Edit
<1>5. SilentSince'
  BY <1>1, <1>3 DEF SilentSince
<1>6. ticket'["status"] = status /\ \A f \in Field \ {"status"} : ticket'[f] = ticket[f]
  BY <1>3, Fields
<1> QED BY <1>1, <1>2, <1>4, <1>5, <1>6, Fields, EditInv

LEMMA AssignInv ==
  ASSUME TriageInv, NEW e \in Editor, NEW who, Assign(e, who)
  PROVE  TriageInv'
<1>1. /\ ticket' = [ticket EXCEPT !.assignee = who]
      /\ since' = since /\ Edit(e, "assignee", who)
  BY DEF Assign
<1>2. who \in Value /\ [field |-> "assignee", value |-> who] \in Entry
  BY Fields DEF Assign, MayBeAssigned, Value, Entry
<1>3. /\ ticket' \in [status : Value, assignee : Value, resolvedIn : Release \cup {NoRelease}]
      /\ ticket'.assignee = who /\ ticket'.status = ticket.status
      /\ ticket'.resolvedIn = ticket.resolvedIn
  BY <1>1, <1>2 DEF TriageInv, TriageTypes
<1>4. TriageTypes'
  BY <1>1, <1>2, <1>3 DEF TriageInv, TriageTypes, Edit
<1>5. SilentSince'
  BY <1>1, <1>3 DEF TriageInv, SilentSince
<1>6. ticket'["assignee"] = who /\ \A f \in Field \ {"assignee"} : ticket'[f] = ticket[f]
  BY <1>3, Fields
<1> QED BY <1>1, <1>2, <1>4, <1>5, <1>6, Fields, EditInv

LEMMA RecordActivityInv ==
  ASSUME TriageInv, NEW e \in Editor, recordActivity(e)
  PROVE  TriageInv'
<1> DEFINE x == editor[e]
<1>1. /\ x # NoEdit /\ trail' = Append(trail, x)
      /\ editor' = [editor EXCEPT ![e] = NoEdit]
      /\ UNCHANGED <<ticket, unsure, since>>
  BY DEF recordActivity
<1>2. x \in Entry
  BY <1>1 DEF TriageInv, TriageTypes
<1>3. \A o \in Editor : editor'[o] = IF o = e THEN NoEdit ELSE editor[o]
  BY <1>1 DEF TriageInv, TriageTypes
<1>4. TriageTypes'
  BY <1>1, <1>2, AppendProperties DEF TriageInv, TriageTypes
<1>5. ASSUME NEW f \in Field, ~unsure'[f], NEW o \in Editor, editor'[o].field = f
      PROVE  editor'[o].value = ticket'[f]
  BY <1>1, <1>3, <1>5, Fields DEF TriageInv, TrailOK
<1>6. ASSUME NEW f \in Field, ~unsure'[f], \A o \in Editor : editor'[o].field # f
      PROVE  Tells(f)'
  <2>1. CASE x.field = f
    <3>1. x.value = ticket[f]
      BY <1>1, <1>6, <2>1 DEF TriageInv, TrailOK
    <3>2. x = [field |-> f, value |-> ticket[f]]
      BY <1>2, <2>1, <3>1 DEF Entry
    <3> QED BY <1>1, <1>2, <3>2, AppendTells DEF TriageInv
  <2>2. CASE x.field # f
    <3>1. Tells(f)
      BY <1>1, <1>3, <1>6, <2>2 DEF TriageInv, TrailOK
    <3> QED BY <1>1, <1>2, <2>2, <3>1, AppendTells DEF TriageInv
  <2> QED BY <2>1, <2>2
<1> QED BY <1>1, <1>4, <1>5, <1>6 DEF TriageInv, TrailOK, SilentSince

LEMMA ActivityFailsInv ==
  ASSUME TriageInv, NEW e \in Editor, ActivityFails(e)
  PROVE  TriageInv'
<1>1. /\ editor[e] # NoEdit /\ editor' = [editor EXCEPT ![e] = NoEdit]
      /\ unsure' = [unsure EXCEPT ![editor[e].field] = TRUE]
      /\ UNCHANGED <<ticket, trail, since>>
  BY DEF ActivityFails
<1>2. \A o \in Editor : editor'[o] = IF o = e THEN NoEdit ELSE editor[o]
  BY <1>1 DEF TriageInv, TriageTypes
<1>3. ASSUME NEW f \in Field, ~unsure'[f]
      PROVE  ~unsure[f] /\ editor[e].field # f
  BY <1>1, <1>3 DEF TriageInv, TriageTypes
<1>4. TriageTypes'
  BY <1>1 DEF TriageInv, TriageTypes
<1>5. ASSUME NEW f \in Field, ~unsure'[f]
      PROVE  /\ \A o \in Editor : editor'[o].field = f => editor'[o].value = ticket'[f]
             /\ (\A o \in Editor : editor'[o].field # f) => Tells(f)'
  <2>1. \A o \in Editor : editor'[o].field = f <=> editor[o].field = f
    BY <1>2, <1>3, <1>5, Fields
  <2>2. /\ \A o \in Editor : editor[o].field = f => editor[o].value = ticket[f]
        /\ (\A o \in Editor : editor[o].field # f) => Tells(f)
    BY <1>3, <1>5 DEF TriageInv, TrailOK
  <2> QED BY <1>1, <1>2, <1>3, <1>5, <2>1, <2>2, TellsStutters
<1> QED BY <1>1, <1>4, <1>5 DEF TriageInv, TrailOK, SilentSince

LEMMA OccurrenceInv ==
  ASSUME TriageInv, NEW release, Occurrence(release)
  PROVE  TriageInv'
<1>1. /\ ticket' = IF ticket.status = "resolved"
                   THEN [ticket EXCEPT !.status = "unresolved", !.resolvedIn = NoRelease] ELSE ticket
      /\ unsure' = [unsure EXCEPT !["status"] = @ \/ ticket.status = "resolved"]
      /\ UNCHANGED <<trail, editor>>
  BY DEF Occurrence, ReopenedRow
<1>2. /\ ticket'.assignee = ticket.assignee
      /\ ticket'.status # "resolved" /\ ticket'.resolvedIn = NoRelease
      /\ ticket.status # "resolved" => ticket' = ticket
      /\ ticket' \in [status : Value, assignee : Value, resolvedIn : Release \cup {NoRelease}]
  BY <1>1 DEF TriageInv, TriageTypes, SilentSince, Value
<1>3. TriageTypes'
  BY <1>1, <1>2, Fields DEF TriageInv, TriageTypes
<1>4. ASSUME NEW f \in Field, ~unsure'[f]
      PROVE  ~unsure[f] /\ ticket'[f] = ticket[f]
  <2>1. CASE f = "status"
    BY <1>1, <1>2, <1>4, <2>1 DEF TriageInv, TriageTypes
  <2>2. CASE f = "assignee"
    BY <1>1, <1>2, <1>4, <2>2 DEF TriageInv, TriageTypes
  <2> QED BY <2>1, <2>2, Fields
<1> QED BY <1>1, <1>2, <1>3, <1>4, TellsStutters DEF TriageInv, TrailOK, SilentSince

THEOREM TriageInvariant == TriageSpec => []TriageInv
<1>1. TriageInit => TriageInv
  <2> SUFFICES ASSUME TriageInit
               PROVE  TriageInv
    OBVIOUS
  <2>1. /\ ticket = Unedited /\ trail = <<>> /\ editor = [e \in Editor |-> NoEdit]
        /\ unsure = [f \in Field |-> FALSE] /\ since = {}
    BY DEF TriageInit
  <2>2. TriageTypes
    BY <2>1 DEF TriageTypes, Unedited, Value
  <2>3. \A f \in Field : Tells(f)
    BY <2>1 DEF Tells
  <2> QED BY <2>1, <2>2, <2>3, Fields DEF TriageInv, TrailOK, SilentSince, Unedited
<1>2. TriageInv /\ [TriageNext]_triageVars => TriageInv'
  <2> SUFFICES ASSUME TriageInv, [TriageNext]_triageVars
               PROVE  TriageInv'
    OBVIOUS
  <2>1. CASE UNCHANGED triageVars
    BY <2>1 DEF triageVars, TriageInv, TriageTypes, TrailOK, Tells, SilentSince
  <2> QED BY <2>1, SetStatusInv, AssignInv, RecordActivityInv, ActivityFailsInv, OccurrenceInv
          DEF TriageNext
<1> QED BY <1>1, <1>2, PTL DEF TriageSpec

\* Unless an entry failed, two edits of a field were under way at once, or an
\* occurrence reopened the issue, the trail tells what the issue is
\* (issue_queries.go:193-199, 213-219).
THEOREM TrailIsTrue == TriageSpec => []TrailTellsState
<1>1. TriageInv => TrailTellsState
  BY DEF TriageInv, TrailOK, TrailTellsState
<1> QED BY <1>1, TriageInvariant, PTL

\* What occurs in a release that is not older than the fix reopens the issue, and
\* the release of the fix goes with the resolution (issue_queries.go:172-173,
\* issues.go:67-71).
THEOREM RegressionsReopenIssues == TriageSpec => []RegressionsReopen
<1>1. TriageInv => RegressionsReopen
  BY DEF TriageInv, SilentSince, RegressionsReopen
<1> QED BY <1>1, TriageInvariant, PTL

----------------------------------------------------------------------------
(***************************************************************************)
(* Lists.  Whatever was shown is no longer beyond the cursor, which only   *)
(* descends; a row that has not changed since the reading began is shown,  *)
(* still beyond the cursor, or tied with the end of a page.                *)
(***************************************************************************)
ListTypes ==
  /\ list \in List
  /\ entry \in [Row -> [there : BOOLEAN, matches : BOOLEAN, value : Nat]]
  /\ \A r \in Row : entry[r].there => entry[r].value \in Time
  /\ cursor \in Int \X Nat
  /\ opened \in Int
  /\ reading \in {"new", "open", "done"}
  /\ shown \in [Row -> {0, 1}]
  /\ \A r \in Row : shown[r] = 1 => entry[r].there
  /\ reading = "new" => \A r \in Row : shown[r] = 0
  /\ had \subseteq Row /\ disturbed \subseteq Row

CutOff(r) == list \in {"logs", "segments"} /\ Place(r) \in cuts

PagesOK ==
  /\ reading = "new" => cursor = Top
  /\ reading # "done" => \A r \in Row : shown[r] = 1 => ~Beyond(r)
  /\ reading # "new" => \A r \in had \ disturbed :
       /\ r \in Matching
       /\ shown[r] = 0 => (reading = "open" /\ Beyond(r)) \/ CutOff(r)

TailOK ==
  /\ \A r \in Row : entry[r].there => entry[r].matches
  /\ reading # "new" => opened <= cursor[1] /\ \A r \in Row :
       LET t == entry[r].value  IN
       /\ shown[r] = 1 => opened < t /\ t < opened + Window /\ t <= cursor[1]
       /\ entry[r].there /\ shown[r] = 0 /\ opened < t /\ t <= cursor[1]
            => r \in disturbed \/ <<t, 0>> \in cuts

ListsInv ==
  /\ ListTypes
  /\ list # "tail" => PagesOK
  /\ list = "tail" => TailOK

LEMMA PlaceTypes ==
  ASSUME ListTypes, NEW r \in Row
  PROVE  /\ entry[r].value \in Nat /\ Tie(r) \in Nat
         /\ Place(r) = <<entry[r].value, Tie(r)>>
         /\ Place(r)[1] = entry[r].value /\ Place(r)[2] = Tie(r)
BY ListsAssumption DEF ListTypes, List, Tie, Place

\* Places are compared like their two numbers; what is not below is above or equal.
LEMMA PlacesAreOrdered ==
  ASSUME NEW p \in Int \X Nat, NEW q \in Int \X Nat
  PROVE  /\ Below(p, q) \/ Below(q, p) \/ p = q
         /\ ~Below(p, p)
         /\ \A o \in Int \X Nat : Below(p, q) /\ Below(q, o) => Below(p, o)
         /\ \A o \in Int \X Nat : ~Below(p, q) /\ Below(o, q) => ~Below(p, o)
BY DEF Below

LEMMA FirstRowsOf ==
  ASSUME NEW candidates \in SUBSET Row, NEW n \in PageSizes, NEW precedes,
         NEW page \in FirstRows(candidates, n, precedes)
  PROVE  /\ page \subseteq candidates
         /\ \A r \in candidates \ page, s \in page : <<r, s>> \notin precedes
         /\ ~(Cardinality(candidates) > n) => page = candidates
<1>1. /\ page \in SUBSET candidates
      /\ Cardinality(page) = IF Cardinality(candidates) < n THEN Cardinality(candidates) ELSE n
      /\ \A r \in candidates \ page, s \in page : <<r, s>> \notin precedes
  BY DEF FirstRows
<1>2. IsFiniteSet(candidates) /\ Cardinality(candidates) \in Nat /\ n \in Nat
  BY ListsAssumption, FS_Subset, FS_CardinalityType
<1>3. ASSUME ~(Cardinality(candidates) > n)
      PROVE  page = candidates
  <2>1. Cardinality(candidates) = Cardinality(page)
    BY <1>1, <1>2, <1>3
  <2> QED BY <1>1, <1>2, <2>1, FS_Subset
<1> QED BY <1>1, <1>3

LEMMA TopPlace ==
  /\ Top \in Int \X Nat
  /\ \A t \in Time, n \in Nat : Below(<<t, n>>, Top)
<1> DEFINE last == CHOOSE t \in Time : \A u \in Time : u <= t
<1>1. last \in Time /\ \A u \in Time : u <= last
  BY ListsAssumption
<1>2. last \in Nat /\ Top = <<1 + last, 0>>
  BY <1>1, ListsAssumption DEF Top
<1> HIDE DEF last
<1> QED BY <1>1, <1>2, ListsAssumption DEF Below

\* One row changes, and counts as disturbed once the reading has begun.
LEMMA ChangeInv ==
  ASSUME ListsInv, ListTypes', NEW r \in Row, Change(r),
         entry' = [entry EXCEPT ![r] = entry'[r]],
         list # "tail",
         shown[r] = 1 /\ ~Beyond(r) => ~Beyond(r)'
  PROVE  ListsInv'
<1>1. /\ disturbed' = IF reading = "new" THEN {} ELSE disturbed \cup {r}
      /\ UNCHANGED <<list, cursor, opened, reading, shown, had, cuts>>
  BY DEF Change
<1>2. ASSUME NEW s \in Row, s # r
      PROVE  /\ entry'[s] = entry[s] /\ Place(s)' = Place(s) /\ Beyond(s)' = Beyond(s)
             /\ CutOff(s)' = CutOff(s)
             /\ s \in Matching' <=> s \in Matching
  <2>1. entry'[s] = entry[s]
    BY <1>2 DEF ListsInv, ListTypes
  <2>2. Place(s)' = Place(s)
    BY <1>1, <2>1 DEF Place, Tie
  <2> QED BY <1>1, <2>1, <2>2 DEF Beyond, CutOff, Matching, Below
<1>3. reading' = "new" => cursor' = Top'
  BY <1>1 DEF ListsInv, PagesOK, Top
<1>4. ASSUME reading' # "done", NEW s \in Row, shown'[s] = 1
      PROVE  ~Beyond(s)'
  BY <1>1, <1>2, <1>4 DEF ListsInv, PagesOK
<1>5. ASSUME reading' # "new", NEW s \in had' \ disturbed'
      PROVE  /\ s \in Matching'
             /\ shown'[s] = 0 => (reading' = "open" /\ Beyond(s)') \/ CutOff(s)'
  <2>1. s \in had \ disturbed /\ s # r /\ s \in Row
    BY <1>1, <1>5 DEF ListsInv, ListTypes
  <2> QED BY <1>1, <1>2, <1>5, <2>1 DEF ListsInv, PagesOK
<1> QED BY <1>1, <1>3, <1>4, <1>5 DEF ListsInv, PagesOK

LEMMA ArriveInv ==
  ASSUME ListsInv, NEW r \in Row, NEW t \in Time, Arrive(r, t)
  PROVE  ListsInv'
<1>1. /\ ~entry[r].there /\ shown[r] = 0
      /\ entry' = [entry EXCEPT ![r] = [there |-> TRUE, matches |-> TRUE, value |-> t]]
  BY DEF Arrive, ListsInv, ListTypes
<1>2. /\ UNCHANGED <<list, cursor, opened, reading, shown, had, cuts>>
      /\ disturbed' \subseteq Row
  BY DEF Arrive, Change, ListsInv, ListTypes
<1>3. \A s \in Row : entry'[s] = IF s = r THEN [there |-> TRUE, matches |-> TRUE, value |-> t]
                                 ELSE entry[s]
  BY <1>1 DEF ListsInv, ListTypes
<1>4. ListTypes'
  <2>1. t \in Nat
    BY ListsAssumption
  <2> QED BY <1>1, <1>2, <1>3, <2>1 DEF ListsInv, ListTypes
<1>5. CASE list # "tail"
  <2>1. Change(r)
    BY <1>5 DEF Arrive
  <2>2. entry' = [entry EXCEPT ![r] = entry'[r]]
    BY <1>1, <1>3
  <2>3. shown[r] = 1 /\ ~Beyond(r) => ~Beyond(r)'
    BY <1>1
  <2> QED BY <1>4, <1>5, <2>1, <2>2, <2>3, ChangeInv
<1>6. CASE list = "tail"
  <2>1. /\ disturbed \subseteq disturbed' \/ reading = "new"
        /\ reading # "new" /\ t <= cursor[1] => r \in disturbed'
    BY <1>6 DEF Arrive, Change
  <2> QED BY <1>1, <1>2, <1>3, <1>4, <1>6, <2>1 DEF ListsInv, TailOK
<1> QED BY <1>5, <1>6

\* An issue that occurs again rises, away from the cursor.
LEMMA OccurInv ==
  ASSUME ListsInv, NEW r \in Row, NEW t \in Time, Occur(r, t)
  PROVE  ListsInv'
<1>1. /\ list = "issues" /\ entry[r].there /\ t > entry[r].value
      /\ entry' = [entry EXCEPT ![r].value = t]
      /\ Change(r)
  BY DEF Occur
<1>2. /\ UNCHANGED <<list, cursor, opened, reading, shown, had, cuts>>
      /\ disturbed' \subseteq Row
  BY <1>1 DEF Change, ListsInv, ListTypes
<1>3. \A s \in Row : entry'[s] = IF s = r THEN [entry[r] EXCEPT !.value = t] ELSE entry[s]
  BY <1>1 DEF ListsInv, ListTypes
<1>4. ListTypes'
  <2>1. t \in Nat
    BY ListsAssumption
  <2> QED BY <1>1, <1>2, <1>3, <2>1 DEF ListsInv, ListTypes
<1>5. ~Beyond(r) => ~Beyond(r)'
  <2>1. Tie(r)' = Tie(r)
    BY <1>2 DEF Tie
  <2>2. entry[r].value \in Nat /\ Tie(r) \in Nat /\ entry'[r].value = t /\ t \in Nat
    BY <1>3, PlaceTypes, ListsAssumption DEF ListsInv, ListTypes
  <2>3. cursor \in Int \X Nat
    BY DEF ListsInv, ListTypes
  <2> QED BY <1>1, <1>2, <2>1, <2>2, <2>3 DEF Beyond, Below, Place
<1> QED BY <1>1, <1>3, <1>4, <1>5, ChangeInv

LEMMA RematchInv ==
  ASSUME ListsInv, NEW r \in Row, Rematch(r)
  PROVE  ListsInv'
<1>1. /\ list # "tail" /\ entry[r].there
      /\ entry' = [entry EXCEPT ![r].matches = ~@]
      /\ Change(r)
  BY DEF Rematch
<1>2. /\ UNCHANGED <<list, cursor, opened, reading, shown, had, cuts>>
      /\ disturbed' \subseteq Row
  BY <1>1 DEF Change, ListsInv, ListTypes
<1>3. \A s \in Row : entry'[s] = IF s = r THEN [entry[r] EXCEPT !.matches = ~@] ELSE entry[s]
  BY <1>1 DEF ListsInv, ListTypes
<1>4. ListTypes'
  <2>1. [entry[r] EXCEPT !.matches = ~@]
          = [there |-> entry[r].there, matches |-> ~entry[r].matches, value |-> entry[r].value]
    BY DEF ListsInv, ListTypes
  <2>2. \A s \in Row : entry'[s] \in [there : BOOLEAN, matches : BOOLEAN, value : Nat]
    <3>1. /\ entry[r].there \in BOOLEAN /\ entry[r].value \in Nat
          /\ \A s \in Row : entry[s] \in [there : BOOLEAN, matches : BOOLEAN, value : Nat]
      BY DEF ListsInv, ListTypes
    <3>2. entry'[r] \in [there : BOOLEAN, matches : BOOLEAN, value : Nat]
      <4>1. (~entry[r].matches) \in BOOLEAN
        OBVIOUS
      <4> QED BY <1>3, <2>1, <3>1, <4>1
    <3> QED BY <1>3, <3>1, <3>2
  <2>3. \A s \in Row : entry'[s].there = entry[s].there /\ entry'[s].value = entry[s].value
    BY <1>3, <2>1
  <2> QED BY <1>1, <1>2, <2>2, <2>3 DEF ListsInv, ListTypes
<1>5. Beyond(r)' = Beyond(r)
  <2>1. entry'[r].value = entry[r].value
    BY <1>3 DEF ListsInv, ListTypes
  <2> QED BY <1>2, <2>1 DEF Beyond, Below, Place, Tie
<1> QED BY <1>1, <1>3, <1>4, <1>5, ChangeInv

LEMMA BeginInv ==
  ASSUME ListsInv, Begin
  PROVE  ListsInv'
<1>1. /\ list # "tail" /\ reading = "new" /\ reading' = "open" /\ had' = Matching
      /\ UNCHANGED <<list, entry, cursor, opened, shown, disturbed, cuts>>
  BY DEF Begin
<1>2. cursor = Top /\ Matching \subseteq Row
  BY <1>1 DEF ListsInv, PagesOK, Matching
<1>3. \A r \in Row : Beyond(r)' = Beyond(r) /\ (r \in Matching' <=> r \in Matching)
  BY <1>1 DEF Beyond, Below, Place, Tie, Matching
<1>4. \A r \in Matching : Beyond(r)
  <2> SUFFICES ASSUME NEW r \in Matching
               PROVE  Below(Place(r), Top)
    BY <1>2 DEF Beyond
  <2>1. r \in Row /\ entry[r].value \in Time
    BY DEF Matching, ListsInv, ListTypes
  <2> QED BY <2>1, PlaceTypes, TopPlace DEF ListsInv
<1>5. ListTypes'
  BY <1>1, <1>2 DEF ListsInv, ListTypes
<1> QED BY <1>1, <1>2, <1>3, <1>4, <1>5 DEF ListsInv, PagesOK, ListTypes

LEMMA FetchPageInv ==
  ASSUME ListsInv, NEW n \in PageSizes, FetchPage(n)
  PROVE  ListsInv'
<1> DEFINE candidates == {r \in Matching : Beyond(r)}
           downward   == {rs \in Row \X Row : Below(Place(rs[2]), Place(rs[1]))}
<1>1. /\ list # "tail" /\ reading = "open"
      /\ UNCHANGED <<list, entry, opened, had, disturbed>>
  BY DEF FetchPage
<1>2. PICK page \in FirstRows(candidates, n, downward) :
        /\ shown' = [r \in Row |-> shown[r] + IF r \in page THEN 1 ELSE 0]
        /\ IF Cardinality(candidates) > n
           THEN \E last \in page :
                  /\ \A r \in page : ~Below(Place(r), Place(last))
                  /\ cursor' = Place(last)
                  /\ cuts' = cuts \cup {Place(last)}
                  /\ UNCHANGED reading
           ELSE reading' = "done" /\ UNCHANGED <<cursor, cuts>>
  BY DEF FetchPage
<1>3. /\ candidates \in SUBSET Row
      /\ \A r \in candidates : entry[r].there
  BY DEF Matching
<1>4. /\ page \subseteq candidates
      /\ \A r \in candidates \ page, s \in page : <<r, s>> \notin downward
      /\ ~(Cardinality(candidates) > n) => page = candidates
  <2> HIDE DEF candidates, downward
  <2> QED BY <1>2, <1>3, FirstRowsOf
<1>5. ListTypes /\ PagesOK
  BY <1>1 DEF ListsInv
<1>6. \A r \in Row : Place(r) \in Int \X Nat /\ Place(r)' = Place(r)
  <2>1. \A r \in Row : Place(r) \in Int \X Nat
    BY <1>5, PlaceTypes
  <2> QED BY <1>1, <2>1 DEF Place, Tie
<1>7. Matching' = Matching
  BY <1>1 DEF Matching
<1>8. ASSUME NEW r \in Row
      PROVE  shown'[r] = IF r \in page THEN 1 ELSE shown[r]
  BY <1>1, <1>2, <1>4, <1>5 DEF PagesOK, ListTypes
<1>9. ASSUME cursor' \in Int \X Nat, reading' \in {"open", "done"}
      PROVE  ListTypes'
  BY <1>1, <1>2, <1>3, <1>4, <1>5, <1>8, <1>9 DEF ListTypes
<1> HIDE DEF downward
<1>10. CASE Cardinality(candidates) > n
  <2>1. PICK last \in page :
          /\ \A r \in page : ~Below(Place(r), Place(last))
          /\ cursor' = Place(last)
          /\ cuts' = cuts \cup {Place(last)}
          /\ UNCHANGED reading
    BY <1>2, <1>10
  <2>2. last \in Row /\ Below(Place(last), cursor) /\ cursor \in Int \X Nat
    BY <1>3, <1>4, <1>5 DEF Beyond, ListTypes
  <2>3. ASSUME NEW r \in Row, shown'[r] = 1
        PROVE  ~Beyond(r)'
    <3>1. CASE r \in page
      BY <1>6, <2>1, <3>1 DEF Beyond
    <3>2. CASE r \notin page
      <4>1. ~Below(Place(r), cursor)
        BY <1>1, <1>5, <1>8, <2>3, <3>2 DEF PagesOK, Beyond
      <4>2. ~Below(Place(r), Place(last))
        BY <1>6, <2>2, <4>1, PlacesAreOrdered
      <4> QED BY <1>6, <2>1, <4>2 DEF Beyond
    <3> QED BY <3>1, <3>2
  <2>4. ASSUME NEW r \in had \ disturbed, shown'[r] = 0
        PROVE  Beyond(r)' \/ CutOff(r)'
    <3>1. /\ r \in Row /\ r \in Matching /\ shown[r] = 0 /\ r \notin page
          /\ Beyond(r) \/ CutOff(r)
      BY <1>1, <1>5, <1>8, <2>4 DEF PagesOK, ListTypes
    <3>2. CASE CutOff(r)
      BY <1>1, <1>6, <2>1, <3>1, <3>2 DEF CutOff
    <3>3. CASE Beyond(r)
      <4>1. ~Below(Place(last), Place(r))
        BY <1>4, <2>2, <3>1, <3>3 DEF downward
      <4>2. Below(Place(r), Place(last)) \/ Place(r) = Place(last)
        BY <1>6, <2>2, <3>1, <4>1, PlacesAreOrdered
      <4>3. CASE Below(Place(r), Place(last))
        BY <1>6, <2>1, <3>1, <4>3 DEF Beyond
      <4>4. CASE Place(r) = Place(last)
        <5>1. Tie(r) = Tie(last) /\ r # last
          BY <1>5, <2>2, <3>1, <4>4, PlaceTypes
        <5>2. list \in {"logs", "segments"}
          BY <1>1, <1>5, <5>1 DEF Tie, ListTypes, List
        <5> QED BY <1>1, <1>6, <2>1, <3>1, <4>4, <5>2 DEF CutOff
      <4> QED BY <4>2, <4>3, <4>4
    <3> QED BY <3>1, <3>2, <3>3
  <2>5. ListTypes'
    BY <1>1, <1>6, <1>9, <2>1, <2>2
  <2> QED BY <1>1, <1>5, <1>7, <2>1, <2>3, <2>4, <2>5 DEF ListsInv, PagesOK
<1>11. CASE ~(Cardinality(candidates) > n)
  <2>1. page = candidates /\ reading' = "done" /\ UNCHANGED <<cursor, cuts>>
    BY <1>2, <1>4, <1>11
  <2>2. ASSUME NEW r \in had \ disturbed, shown'[r] = 0
        PROVE  CutOff(r)'
    <3>1. /\ r \in Row /\ r \in Matching /\ shown[r] = 0 /\ r \notin page
          /\ Beyond(r) \/ CutOff(r)
      BY <1>1, <1>5, <1>8, <2>2 DEF PagesOK, ListTypes
    <3> QED BY <1>1, <1>6, <2>1, <3>1 DEF CutOff
  <2>3. ListTypes'
    BY <1>5, <1>9, <2>1 DEF ListTypes
  <2> QED BY <1>1, <1>5, <1>7, <2>1, <2>2, <2>3 DEF ListsInv, PagesOK
<1> QED BY <1>10, <1>11

LEMMA OpenInv ==
  ASSUME ListsInv, NEW now \in Int, Open(now)
  PROVE  ListsInv'
<1>1. /\ list = "tail" /\ reading = "new" /\ reading' = "open"
      /\ opened' = now /\ cursor' = <<now, 0>>
      /\ UNCHANGED <<list, entry, shown, had, disturbed, cuts>>
  BY DEF Open
<1>2. ListTypes'
  BY <1>1 DEF ListsInv, ListTypes
<1> QED BY <1>1, <1>2 DEF ListsInv, TailOK, ListTypes

LEMMA PollInv ==
  ASSUME ListsInv, NEW n \in PageSizes, Poll(n)
  PROVE  ListsInv'
<1> DEFINE candidates == {r \in Matching : Newer(r)}
           upward     == {rs \in Row \X Row : Earlier(rs[1], rs[2])}
<1>1. /\ list = "tail" /\ reading = "open"
      /\ UNCHANGED <<list, entry, opened, reading, had, disturbed>>
  BY DEF Poll
<1>2. PICK page \in FirstRows(candidates, n, upward) :
        /\ shown' = [r \in Row |-> shown[r] + IF r \in page THEN 1 ELSE 0]
        /\ \E newest \in page :
             /\ \A r \in page : entry[r].value <= entry[newest].value
             /\ cursor' = <<entry[newest].value, 0>>
             /\ cuts' = IF page = candidates THEN cuts ELSE cuts \cup {cursor'}
  BY DEF Poll
<1>3. PICK newest \in page :
        /\ \A r \in page : entry[r].value <= entry[newest].value
        /\ cursor' = <<entry[newest].value, 0>>
        /\ cuts' = IF page = candidates THEN cuts ELSE cuts \cup {cursor'}
  BY <1>2
<1>4. /\ page \subseteq candidates
      /\ \A r \in candidates \ page, s \in page : <<r, s>> \notin upward
  <2>1. candidates \in SUBSET Row
    BY DEF Matching
  <2> HIDE DEF candidates, upward
  <2> QED BY <1>2, <2>1, FirstRowsOf
<1>5. ListTypes /\ TailOK
  BY <1>1 DEF ListsInv
<1>6. \A r \in candidates : /\ r \in Row /\ entry[r].there
                            /\ entry[r].value > cursor[1] /\ entry[r].value < opened + Window
  BY DEF Matching, Newer
<1>7. /\ \A r \in Row : entry[r].value \in Int
      /\ cursor[1] \in Int /\ opened \in Int /\ opened <= cursor[1] /\ Window \in Int
  BY <1>1, <1>5, ListsAssumption DEF ListTypes, TailOK
<1>8. ASSUME NEW r \in Row
      PROVE  shown'[r] = IF r \in page THEN 1 ELSE shown[r]
  <2>1. /\ shown[r] \in {0, 1}
        /\ shown[r] = 1 => entry[r].value <= cursor[1]
    BY <1>1, <1>5 DEF TailOK, ListTypes
  <2>2. r \in page => entry[r].value > cursor[1]
    BY <1>4, <1>6
  <2>3. r \in page => shown[r] = 0
    BY <1>7, <2>1, <2>2
  <2> QED BY <1>2, <2>1, <2>3
<1>9. /\ newest \in candidates /\ cursor'[1] = entry[newest].value
      /\ cursor'[1] > cursor[1] /\ cursor'[1] < opened + Window
      /\ cursor' \in Int \X Nat /\ cursor' = <<cursor'[1], 0>>
  BY <1>3, <1>4, <1>6, <1>7
<1>10. ListTypes'
  BY <1>1, <1>4, <1>5, <1>6, <1>8, <1>9, <1>2 DEF ListTypes
<1>11. ASSUME NEW r \in Row, shown'[r] = 1
       PROVE  opened < entry[r].value /\ entry[r].value < opened + Window
              /\ entry[r].value <= cursor'[1]
  <2>1. CASE r \in page
    <3>1. /\ entry[r].value > cursor[1] /\ entry[r].value < opened + Window
          /\ entry[r].value <= cursor'[1] /\ entry[r].value \in Int
      BY <1>3, <1>4, <1>6, <1>7, <1>9, <2>1
    <3> QED BY <1>7, <3>1
  <2>2. CASE r \notin page
    <3>1. shown[r] = 1
      BY <1>8, <1>11, <2>2
    <3>2. /\ opened < entry[r].value /\ entry[r].value < opened + Window
          /\ entry[r].value <= cursor[1]
      BY <1>1, <1>5, <3>1 DEF TailOK
    <3>3. entry[r].value \in Int /\ cursor'[1] \in Int
      BY <1>7, <1>9
    <3> QED BY <1>7, <1>9, <3>2, <3>3
  <2> QED BY <2>1, <2>2
<1>12. ASSUME NEW r \in Row, entry[r].there, shown'[r] = 0,
              opened < entry[r].value, entry[r].value <= cursor'[1]
       PROVE  r \in disturbed \/ <<entry[r].value, 0>> \in cuts'
  <2>1. shown[r] = 0 /\ r \notin page /\ cuts \subseteq cuts'
    BY <1>3, <1>8, <1>12
  <2>2. CASE entry[r].value <= cursor[1]
    BY <1>1, <1>5, <1>12, <2>1, <2>2 DEF TailOK
  <2>3. CASE ~(entry[r].value <= cursor[1])
    <3>1. entry[r].value > cursor[1] /\ entry[r].value < opened + Window
      BY <1>7, <1>9, <1>12, <2>3
    <3>2. r \in candidates
      BY <1>5, <1>12, <3>1 DEF Matching, Newer, TailOK
    <3>3. ~(entry[r].value < entry[newest].value)
      BY <1>4, <1>6, <1>9, <2>1, <3>2 DEF Earlier
    <3>4. entry[r].value = cursor'[1]
      BY <1>6, <1>7, <1>9, <1>12, <3>3
    <3> QED BY <1>3, <1>9, <2>1, <3>2, <3>4
  <2> QED BY <2>2, <2>3
<1> QED BY <1>1, <1>5, <1>7, <1>9, <1>10, <1>11, <1>12 DEF ListsInv, TailOK

THEOREM ListsInvariant == ListsSpec => []ListsInv
<1>1. ListsInit => ListsInv
  <2> SUFFICES ASSUME ListsInit
               PROVE  ListsInv
    OBVIOUS
  <2>1. /\ list \in List /\ entry = [r \in Row |-> Absent] /\ cursor = Top /\ opened = 0
        /\ reading = "new" /\ shown = [r \in Row |-> 0] /\ had = {} /\ disturbed = {}
    BY DEF ListsInit
  <2>2. Absent \in [there : BOOLEAN, matches : BOOLEAN, value : Nat] /\ ~Absent.there
    BY DEF Absent
  <2>3. Top \in Int \X Nat
    BY TopPlace
  <2>4. ListTypes
    BY <2>1, <2>2, <2>3 DEF ListTypes
  <2> QED BY <2>1, <2>2, <2>4 DEF ListsInv, PagesOK, TailOK
<1>2. ListsInv /\ [ListsNext]_listVars => ListsInv'
  <2> SUFFICES ASSUME ListsInv, [ListsNext]_listVars
               PROVE  ListsInv'
    OBVIOUS
  <2>1. CASE UNCHANGED listVars
    BY <2>1 DEF listVars, ListsInv, ListTypes, PagesOK, TailOK, CutOff, Beyond, Below, Place, Tie,
                Matching, Top
  <2>2. ASSUME Close
        PROVE  ListsInv'
    BY <2>2 DEF Close, ListsInv, ListTypes, TailOK
  <2>3. ASSUME NEW t \in Time, Open(t - 1)
        PROVE  ListsInv'
    <3>1. t - 1 \in Int
      BY ListsAssumption
    <3> QED BY <2>3, <3>1, OpenInv
  <2> QED BY <2>1, <2>2, <2>3, ArriveInv, OccurInv, RematchInv, BeginInv, FetchPageInv, PollInv
          DEF ListsNext
<1> QED BY <1>1, <1>2, PTL DEF ListsSpec

\* No row is given twice, whatever arrives or moves between two pages or polls: a
\* cursor only descends (issue_queries.go:77-144, queries.go:190-229).
THEOREM NoRowIsShownTwice == ListsSpec => []ShownOnce
<1>1. ListsInv => ShownOnce
  BY DEF ListsInv, ListTypes, ShownOnce
<1> QED BY <1>1, ListsInvariant, PTL

\* A client that reads to the end misses only rows that changed, and ties where the
\* cursor has no tiebreaker (queries.go:104-127, spans.go:172-216).
THEOREM ListsSkipOnlyTies == ListsSpec => []NothingSkipped
<1>1. ListsInv => NothingSkipped
  BY DEF ListsInv, ListTypes, PagesOK, CutOff, NothingSkipped
<1> QED BY <1>1, ListsInvariant, PTL

\* A tail has sent what is new, up to its cursor (log_handlers.go:124-129, 151-184).
THEOREM TailsSendTheNew == ListsSpec => []TailSendsWhatIsNew
<1>1. ListsInv => TailSendsWhatIsNew
  BY DEF ListsInv, ListTypes, TailOK, TailSendsWhatIsNew
<1> QED BY <1>1, ListsInvariant, PTL

----------------------------------------------------------------------------
(***************************************************************************)
(* Projects.  While one revocation is under way alone, the project has two *)
(* live keys.  A purge that got to a table has submitted the mutations of  *)
(* the earlier ones, and what was there before is gone or will be.         *)
(***************************************************************************)
USE DEF tableVars

AllTables == {"errors", "logs", "spans", "metrics_raw", "metrics_1m", "metrics_1h", "issue_stats_1h"}
Job       == [project : Project, signal : Signal, upserted : BOOLEAN]
Handler   == [op : {"mint", "revoke", "purge"}, project : Project, key : Key \cup {NoKey}, next : 0 .. 6]

ProjectTypes ==
  /\ project \in [Project -> {"absent", "live", "deleted"}]
  /\ key \in [Key -> [project : Project \cup {NoProject},
                      state : {"unminted", "live", "revoked", "deleted"}]]
  /\ admin \in [Admin -> Handler \cup {Idle}]
  /\ jobs \subseteq Job
  /\ rows \in [Project -> SUBSET AllTables]
  /\ pending \subseteq submitted /\ submitted \subseteq Project \X AllTables
  /\ purged \subseteq Project

HasTwoKeys(p) == \E k, l \in LiveKeys(p) : k # l

KeysOK ==
  /\ \A a \in Admin : admin[a] # Idle => project[admin[a].project] # "absent"
  /\ \A p \in Project : project[p] = "live" /\ p \notin excused =>
       /\ \A a, b \in Revoking(p) : a = b
       /\ Revoking(p) # {} => HasTwoKeys(p)
       /\ LiveKeys(p) = {} => \E a \in Admin : admin[a].op = "mint" /\ admin[a].project = p

OnlyLate(p, table) ==
  /\ <<p, table>> \in submitted
  /\ table \in rows[p] => <<p, table>> \in pending

PurgeOK(a) == admin[a].op = "purge" =>
  /\ admin[a].next \in 1 .. 6
  /\ project[admin[a].project] = "deleted"
  /\ \A n \in 1 .. admin[a].next - 1 : OnlyLate(admin[a].project, purgeTables[n])

PurgesOK ==
  /\ \A a \in Admin : PurgeOK(a)
  /\ \A p \in purged :
       /\ project[p] = "deleted"
       /\ \A table \in AllTables \ {"issue_stats_1h"} : OnlyLate(p, table)

ProjectsInv == ProjectTypes /\ KeysOK /\ PurgesOK

LEMMA Handlers ==
  ASSUME ProjectTypes, NEW a \in Admin
  PROVE  /\ admin[a] = Idle <=> admin[a].op = "idle"
         /\ admin[a] # Idle => /\ admin[a] \in Handler
                               /\ admin[a].project \in Project
                               /\ admin[a].op \in {"mint", "revoke", "purge"}
BY DEF ProjectTypes, Handler, Idle

LEMMA PurgeTables ==
  /\ DOMAIN purgeTables = 1 .. 6 /\ Len(purgeTables) = 6
  /\ \A n \in 1 .. 6 : purgeTables[n] \in AllTables \ {"issue_stats_1h"}
  /\ \A table \in AllTables \ {"issue_stats_1h"} : \E n \in 1 .. 6 : purgeTables[n] = table
<1>1. DOMAIN purgeTables = 1 .. 6 /\ Len(purgeTables) = 6
  BY DEF purgeTables
<1>2. /\ purgeTables[1] = "errors" /\ purgeTables[2] = "logs" /\ purgeTables[3] = "spans"
      /\ purgeTables[4] = "metrics_raw" /\ purgeTables[5] = "metrics_1m"
      /\ purgeTables[6] = "metrics_1h"
  BY DEF purgeTables
<1> QED BY <1>1, <1>2 DEF AllTables

LEMMA TwoOfMany ==
  ASSUME NEW p, MayRevoke(p)
  PROVE  HasTwoKeys(p)
<1>1. LiveKeys(p) \in SUBSET Key
  BY DEF LiveKeys
<1>2. IsFiniteSet(LiveKeys(p)) /\ Cardinality(LiveKeys(p)) > 1
  BY <1>1, ProjectsAssumption, FS_Subset DEF MayRevoke
<1>3. PICK k \in LiveKeys(p) : TRUE
  BY <1>2, FS_EmptySet
<1>4. LiveKeys(p) # {k}
  BY <1>2, FS_Singleton
<1> QED BY <1>3, <1>4 DEF HasTwoKeys

\* A slot that was free, or is freed, changes hands; what a slot has to do with a
\* project is told from its record.
LEMMA SlotChanges ==
  ASSUME ProjectTypes, NEW a \in Admin, NEW x, admin' = [admin EXCEPT ![a] = x]
  PROVE  /\ \A b \in Admin : admin'[b] = IF b = a THEN x ELSE admin[b]
         /\ \A p : Revoking(p)' = {b \in Admin : IF b = a THEN x.op = "revoke" /\ x.project = p
                                                          ELSE b \in Revoking(p)}
         /\ x \in Handler \cup {Idle} => admin' \in [Admin -> Handler \cup {Idle}]
BY DEF ProjectTypes, Revoking

LEMMA KeyChanges ==
  ASSUME ProjectTypes, NEW k \in Key, NEW x, key' = [key EXCEPT ![k] = x],
         x \in [project : Project \cup {NoProject}, state : {"unminted", "live", "revoked", "deleted"}]
  PROVE  /\ key' \in [Key -> [project : Project \cup {NoProject},
                              state : {"unminted", "live", "revoked", "deleted"}]]
         /\ \A p, l : l \in LiveKeys(p)' <=>
              IF l = k THEN x = [project |-> p, state |-> "live"] ELSE l \in LiveKeys(p)
BY DEF ProjectTypes, LiveKeys

\* Steps that leave the keys, and who revokes or mints, as they are.
LEMMA KeysStutter ==
  ASSUME KeysOK, UNCHANGED <<project, key, excused>>,
         \A b \in Admin : \/ admin'[b] = admin[b]
                          \/ admin'[b] = Idle /\ admin[b].op = "purge"
                          \/ admin'[b].op = "purge" /\ admin'[b] # Idle /\ admin[b].op = "purge"
                             /\ admin[b] # Idle /\ admin'[b].project = admin[b].project
  PROVE  KeysOK'
<1>1. \A b \in Admin : /\ admin'[b].op = "revoke" <=> admin[b].op = "revoke"
                       /\ admin'[b].op = "mint" <=> admin[b].op = "mint"
                       /\ admin'[b].op \in {"mint", "revoke"} => admin'[b] = admin[b]
                       /\ admin'[b] # Idle => admin[b] # Idle /\ admin'[b].project = admin[b].project
  BY DEF Idle
<1>2. \A p : LiveKeys(p)' = LiveKeys(p) /\ Revoking(p)' = Revoking(p)
  BY <1>1 DEF LiveKeys, Revoking
<1> QED BY <1>1, <1>2 DEF KeysOK, HasTwoKeys

\* Steps that leave the rows, the purges and the deleted projects as they are.
LEMMA PurgesStutter ==
  ASSUME PurgesOK, UNCHANGED <<tableVars, purged>>,
         \A p \in Project : project[p] = "deleted" => project'[p] = "deleted",
         \A b \in Admin : admin'[b] = admin[b] \/ admin'[b].op # "purge",
         ProjectTypes
  PROVE  PurgesOK'
<1>1. \A b \in Admin : admin'[b].op = "purge" =>
        admin'[b] = admin[b] /\ admin[b].project \in Project
  BY Handlers DEF Idle
<1> QED BY <1>1 DEF PurgesOK, PurgeOK, OnlyLate, ProjectTypes

\* A purge that a step leaves alone.
LEMMA PurgeStands ==
  ASSUME ProjectTypes, PurgesOK, UNCHANGED project, NEW b \in Admin, admin'[b] = admin[b],
         \A q \in Project : project[q] = "deleted" =>
           \A table : OnlyLate(q, table) => OnlyLate(q, table)'
  PROVE  PurgeOK(b)'
<1>1. CASE admin[b].op = "purge"
  <2>1. PICK q, n : q = admin[b].project /\ n = admin[b].next
    OBVIOUS
  <2>2. /\ q \in Project /\ n \in 1 .. 6 /\ project[q] = "deleted"
        /\ \A m \in 1 .. n - 1 : OnlyLate(q, purgeTables[m])
    BY <1>1, <2>1, Handlers DEF PurgesOK, PurgeOK, Idle
  <2>3. \A m \in 1 .. n - 1 : OnlyLate(q, purgeTables[m])'
    BY <2>2
  <2> QED BY <2>1, <2>2, <2>3 DEF PurgeOK
<1>2. CASE admin[b].op # "purge"
  BY <1>2 DEF PurgeOK
<1> QED BY <1>1, <1>2

LEMMA CreateProjectInv ==
  ASSUME ProjectsInv, NEW a \in Admin, NEW p \in Project, CreateProject(a, p)
  PROVE  ProjectsInv'
<1> DEFINE x == [op |-> "mint", project |-> p, key |-> NoKey, next |-> 0]
<1>1. /\ admin[a] = Idle /\ project[p] = "absent"
      /\ project' = [project EXCEPT ![p] = "live"]
      /\ admin' = [admin EXCEPT ![a] = x]
      /\ UNCHANGED <<key, jobs, tableVars, excused, purged>>
  BY DEF CreateProject, Busy
<1>2. x \in Handler /\ x # Idle /\ x.op = "mint" /\ x.project = p
  BY DEF Handler, Idle
<1> HIDE DEF x
<1>3. ProjectTypes'
  BY <1>1, <1>2, SlotChanges DEF ProjectsInv, ProjectTypes
<1>4. /\ \A b \in Admin : admin'[b] = IF b = a THEN x ELSE admin[b]
      /\ \A q \in Project : project'[q] = IF q = p THEN "live" ELSE project[q]
      /\ \A q : LiveKeys(q)' = LiveKeys(q) /\ Revoking(q)' = Revoking(q)
  <2>1. \A q : Revoking(q)' = Revoking(q)
    BY <1>1, <1>2, SlotChanges DEF ProjectsInv, Revoking, Idle
  <2> QED BY <1>1, <2>1, SlotChanges DEF ProjectsInv, ProjectTypes, LiveKeys
<1>5. KeysOK'
  <2>1. ASSUME NEW b \in Admin, admin'[b] # Idle
        PROVE  project'[admin'[b].project] # "absent"
    BY <1>2, <1>4, <2>1, Handlers DEF ProjectsInv, KeysOK
  <2>2. Revoking(p) = {}
    <3> SUFFICES ASSUME NEW b \in Revoking(p)
                 PROVE  FALSE
      OBVIOUS
    <3>1. admin[b] # Idle /\ admin[b].project = p /\ b \in Admin
      BY DEF Revoking, Idle
    <3> QED BY <1>1, <3>1 DEF ProjectsInv, KeysOK
  <2>3. ASSUME NEW q \in Project, project'[q] = "live", q \notin excused, LiveKeys(q) = {}
        PROVE  \E b \in Admin : admin'[b].op = "mint" /\ admin'[b].project = q
    <3>1. CASE q = p
      BY <1>2, <1>4, <3>1
    <3>2. CASE q # p
      <4>1. PICK b \in Admin : admin[b].op = "mint" /\ admin[b].project = q
        BY <1>4, <2>3, <3>2 DEF ProjectsInv, KeysOK
      <4>2. b # a
        BY <1>1, <4>1 DEF Idle
      <4> QED BY <1>4, <4>1, <4>2
    <3> QED BY <3>1, <3>2
  <2> QED BY <1>1, <1>4, <2>1, <2>2, <2>3 DEF ProjectsInv, KeysOK, HasTwoKeys
<1>6. PurgesOK'
  BY <1>1, <1>2, <1>4, PurgesStutter DEF ProjectsInv
<1> QED BY <1>3, <1>5, <1>6 DEF ProjectsInv

\* A key is minted for a live project.
LEMMA MintedInv ==
  ASSUME ProjectsInv, NEW k \in Key, NEW p \in Project, Mint(k, p),
         key[k].state = "unminted", project[p] = "live",
         UNCHANGED <<project, jobs, tableVars, excused, purged>>,
         \/ UNCHANGED admin
         \/ \E a \in Admin : admin[a].op = "mint" /\ admin[a].project = p /\ Done(a)
  PROVE  ProjectsInv'
<1> DEFINE x == [project |-> p, state |-> "live"]
<1>1. /\ x \in [project : Project \cup {NoProject}, state : {"unminted", "live", "revoked", "deleted"}]
      /\ key' = [key EXCEPT ![k] = x]
      /\ x = [project |-> p, state |-> "live"]
  BY DEF Mint
<1> HIDE DEF x
<1>2. /\ key' \in [Key -> [project : Project \cup {NoProject},
                           state : {"unminted", "live", "revoked", "deleted"}]]
      /\ \A q, l : l \in LiveKeys(q)' <=>
           IF l = k THEN x = [project |-> q, state |-> "live"] ELSE l \in LiveKeys(q)
  BY <1>1, KeyChanges DEF ProjectsInv
<1>3. \A q : k \notin LiveKeys(q)
  BY DEF LiveKeys
<1>4. /\ k \in LiveKeys(p)'
      /\ \A q : LiveKeys(q) \subseteq LiveKeys(q)'
  <2>1. k \in LiveKeys(p)'
    BY <1>1, <1>2
  <2>2. ASSUME NEW q, NEW l \in LiveKeys(q)
        PROVE  l \in LiveKeys(q)'
    BY <1>2, <1>3
  <2> QED BY <2>1, <2>2
<1>5. \A b \in Admin : \/ admin'[b] = admin[b]
                       \/ admin'[b] = Idle /\ admin[b].op = "mint" /\ admin[b].project = p
  BY SlotChanges DEF Done, ProjectsInv
<1>6. ProjectTypes'
  BY <1>2, SlotChanges DEF ProjectsInv, ProjectTypes, Done
<1>7. \A q : Revoking(q)' = Revoking(q)
  BY <1>5 DEF Revoking, Idle
<1>8. KeysOK'
  <2>1. ASSUME NEW q \in Project, LiveKeys(q)' = {}, project[q] = "live", q \notin excused
        PROVE  \E b \in Admin : admin'[b].op = "mint" /\ admin'[b].project = q
    <3>1. q # p /\ LiveKeys(q) = {}
      BY <1>4, <2>1
    <3>2. PICK b \in Admin : admin[b].op = "mint" /\ admin[b].project = q
      BY <2>1, <3>1 DEF ProjectsInv, KeysOK
    <3> QED BY <1>5, <3>1, <3>2
  <2>2. ASSUME NEW q, HasTwoKeys(q)
        PROVE  HasTwoKeys(q)'
    BY <1>4, <2>2 DEF HasTwoKeys
  <2> QED BY <1>5, <1>7, <2>1, <2>2 DEF ProjectsInv, KeysOK
<1>9. PurgesOK'
  BY <1>5, PurgesStutter DEF ProjectsInv, Idle
<1> QED BY <1>6, <1>8, <1>9 DEF ProjectsInv

LEMMA MintInv ==
  ASSUME ProjectsInv,
         \/ \E a \in Admin, k \in Key : MintFirstKey(a, k)
         \/ \E p \in Project, k \in Key : CreateKey(p, k)
  PROVE  ProjectsInv'
<1>1. ASSUME NEW a \in Admin, NEW k \in Key, MintFirstKey(a, k)
      PROVE  ProjectsInv'
  <2>1. admin[a].project \in Project
    BY <1>1, Handlers DEF MintFirstKey, ProjectsInv
  <2> QED BY <1>1, <2>1, MintedInv DEF MintFirstKey
<1>2. ASSUME NEW p \in Project, NEW k \in Key, CreateKey(p, k)
      PROVE  ProjectsInv'
  BY <1>2, MintedInv DEF CreateKey
<1> QED BY <1>1, <1>2

LEMMA MintFailsInv ==
  ASSUME ProjectsInv, NEW a \in Admin, MintFails(a)
  PROVE  ProjectsInv'
<1>1. /\ admin[a].op = "mint"
      /\ excused' = excused \cup {admin[a].project}
      /\ admin' = [admin EXCEPT ![a] = Idle]
      /\ UNCHANGED <<project, key, jobs, tableVars, purged>>
  BY DEF MintFails, Done
<1>2. /\ \A b \in Admin : admin'[b] = IF b = a THEN Idle ELSE admin[b]
      /\ admin' \in [Admin -> Handler \cup {Idle}]
  BY <1>1, SlotChanges DEF ProjectsInv
<1>3. \A q : LiveKeys(q)' = LiveKeys(q) /\ Revoking(q)' = Revoking(q)
  BY <1>1, <1>2 DEF LiveKeys, Revoking, Idle
<1>4. ProjectTypes'
  BY <1>1, <1>2 DEF ProjectsInv, ProjectTypes
<1>5. KeysOK'
  <2>1. ASSUME NEW q \in Project, LiveKeys(q) = {}, project[q] = "live", q \notin excused'
        PROVE  \E b \in Admin : admin'[b].op = "mint" /\ admin'[b].project = q
    <3>1. PICK b \in Admin : admin[b].op = "mint" /\ admin[b].project = q
      BY <1>1, <2>1 DEF ProjectsInv, KeysOK
    <3> QED BY <1>1, <1>2, <2>1, <3>1
  <2> QED BY <1>1, <1>2, <1>3, <2>1 DEF ProjectsInv, KeysOK, HasTwoKeys
<1>6. PurgesOK'
  BY <1>1, <1>2, PurgesStutter DEF ProjectsInv, Idle
<1> QED BY <1>4, <1>5, <1>6 DEF ProjectsInv

\* A second revocation excuses the project; a first one found two keys.
LEMMA CountKeysInv ==
  ASSUME ProjectsInv, NEW a \in Admin, NEW p \in Project, NEW k \in Key, CountKeys(a, p, k)
  PROVE  ProjectsInv'
<1> DEFINE x == [op |-> "revoke", project |-> p, key |-> k, next |-> 0]
<1>1. /\ admin[a] = Idle /\ project[p] = "live" /\ MayRevoke(p)
      /\ admin' = [admin EXCEPT ![a] = x]
      /\ excused' = IF Revoking(p) # {} THEN excused \cup {p} ELSE excused
      /\ UNCHANGED <<project, key, jobs, tableVars, purged>>
  BY DEF CountKeys, Busy
<1>2. x \in Handler /\ x # Idle /\ x.op = "revoke" /\ x.project = p
  BY DEF Handler, Idle
<1> HIDE DEF x
<1>3. /\ \A b \in Admin : admin'[b] = IF b = a THEN x ELSE admin[b]
      /\ admin' \in [Admin -> Handler \cup {Idle}]
  BY <1>1, <1>2, SlotChanges DEF ProjectsInv
<1>4. /\ \A q : LiveKeys(q)' = LiveKeys(q)
      /\ Revoking(p)' = Revoking(p) \cup {a}
      /\ \A q : q # p => Revoking(q)' = Revoking(q)
  BY <1>1, <1>2, <1>3 DEF LiveKeys, Revoking, Idle
<1>5. ProjectTypes'
  BY <1>1, <1>3 DEF ProjectsInv, ProjectTypes
<1>6. KeysOK'
  <2>1. ASSUME NEW q \in Project, LiveKeys(q) = {}, project[q] = "live", q \notin excused'
        PROVE  \E b \in Admin : admin'[b].op = "mint" /\ admin'[b].project = q
    <3>1. PICK b \in Admin : admin[b].op = "mint" /\ admin[b].project = q
      BY <1>1, <2>1 DEF ProjectsInv, KeysOK
    <3>2. b # a
      BY <1>1, <3>1 DEF Idle
    <3> QED BY <1>3, <3>1, <3>2
  <2>2. ASSUME NEW q \in Project, project[q] = "live", q \notin excused'
        PROVE  /\ \A b, c \in Revoking(q)' : b = c
               /\ Revoking(q)' # {} => HasTwoKeys(q)'
    <3>1. CASE q = p
      <4>1. Revoking(q)' = {a}
        BY <1>1, <1>4, <2>2, <3>1
      <4> QED BY <1>1, <1>4, <3>1, <4>1, TwoOfMany DEF HasTwoKeys
    <3>2. CASE q # p
      BY <1>1, <1>4, <2>2, <3>2 DEF ProjectsInv, KeysOK, HasTwoKeys
    <3> QED BY <3>1, <3>2
  <2>3. ASSUME NEW b \in Admin, admin'[b] # Idle
        PROVE  project'[admin'[b].project] # "absent"
    BY <1>1, <1>2, <1>3, <2>3 DEF ProjectsInv, KeysOK
  <2> QED BY <1>1, <1>4, <2>1, <2>2, <2>3 DEF KeysOK
<1>7. PurgesOK'
  BY <1>1, <1>2, <1>3, PurgesStutter DEF ProjectsInv
<1> QED BY <1>5, <1>6, <1>7 DEF ProjectsInv

\* What revoking does to the keys: at most one goes, of this project.
LEMMA RevokedKeys ==
  ASSUME ProjectTypes, NEW p \in Project, NEW k,
         key' = IF k \in LiveKeys(p) THEN [key EXCEPT ![k].state = "revoked"] ELSE key
  PROVE  /\ \A q : q # p => LiveKeys(q)' = LiveKeys(q)
         /\ LiveKeys(p) \ {k} \subseteq LiveKeys(p)'
         /\ key' \in [Key -> [project : Project \cup {NoProject},
                              state : {"unminted", "live", "revoked", "deleted"}]]
<1>1. CASE k \in LiveKeys(p)
  <2> DEFINE x == [project |-> p, state |-> "revoked"]
  <2>1. k \in Key /\ key[k] = [project |-> p, state |-> "live"]
    BY <1>1 DEF LiveKeys
  <2>2. [key[k] EXCEPT !.state = "revoked"] = x
    BY <2>1
  <2>3. key' = [key EXCEPT ![k] = x]
    BY <1>1, <2>1, <2>2
  <2>4. /\ x \in [project : Project \cup {NoProject}, state : {"unminted", "live", "revoked", "deleted"}]
        /\ \A q : x # [project |-> q, state |-> "live"]
    OBVIOUS
  <2> HIDE DEF x
  <2>5. /\ key' \in [Key -> [project : Project \cup {NoProject},
                             state : {"unminted", "live", "revoked", "deleted"}]]
        /\ \A q, l : l \in LiveKeys(q)' <=>
             IF l = k THEN x = [project |-> q, state |-> "live"] ELSE l \in LiveKeys(q)
    BY <2>1, <2>3, <2>4, KeyChanges
  <2>6. \A q : q # p => k \notin LiveKeys(q)
    BY <2>1 DEF LiveKeys
  <2>7. \A q : LiveKeys(q)' = LiveKeys(q) \ {k}
    BY <2>4, <2>5
  <2> QED BY <2>5, <2>6, <2>7
<1>2. CASE k \notin LiveKeys(p)
  <2>1. key' = key
    BY <1>2
  <2> QED BY <2>1 DEF LiveKeys, ProjectTypes
<1> QED BY <1>1, <1>2

LEMMA RevokeInv ==
  ASSUME ProjectsInv, NEW a \in Admin, Revoke(a)
  PROVE  ProjectsInv'
<1>1. PICK p, k : p = admin[a].project /\ k = admin[a].key
  OBVIOUS
<1>2. /\ admin[a].op = "revoke"
      /\ key' = IF k \in LiveKeys(p) THEN [key EXCEPT ![k].state = "revoked"] ELSE key
      /\ admin' = [admin EXCEPT ![a] = Idle]
      /\ UNCHANGED <<project, jobs, tableVars, excused, purged>>
  BY <1>1 DEF Revoke, Done
<1>3. /\ \A b \in Admin : admin'[b] = IF b = a THEN Idle ELSE admin[b]
      /\ admin' \in [Admin -> Handler \cup {Idle}]
  BY <1>2, SlotChanges DEF ProjectsInv
<1>4. p \in Project /\ a \in Revoking(p)
  BY <1>1, <1>2, Handlers DEF ProjectsInv, Revoking
<1>5. /\ \A q : q # p => LiveKeys(q)' = LiveKeys(q)
      /\ LiveKeys(p) \ {k} \subseteq LiveKeys(p)'
      /\ key' \in [Key -> [project : Project \cup {NoProject},
                           state : {"unminted", "live", "revoked", "deleted"}]]
  BY <1>2, <1>4, RevokedKeys DEF ProjectsInv
<1>6. \A q : Revoking(q)' = Revoking(q) \ {a}
  BY <1>3 DEF Revoking, Idle
<1>7. \A q : q # p => a \notin Revoking(q)
  BY <1>1 DEF Revoking
<1>8. ProjectTypes'
  BY <1>2, <1>3, <1>5 DEF ProjectsInv, ProjectTypes
<1>9. KeysOK'
  <2>1. ASSUME NEW q \in Project, project[q] = "live", q \notin excused
        PROVE  /\ \A b, c \in Revoking(q)' : b = c
               /\ Revoking(q)' # {} => HasTwoKeys(q)'
               /\ LiveKeys(q)' = {} => \E b \in Admin : admin'[b].op = "mint" /\ admin'[b].project = q
    <3>1. /\ \A b, c \in Revoking(q) : b = c
          /\ Revoking(q) # {} => HasTwoKeys(q)
          /\ LiveKeys(q) = {} => \E b \in Admin : admin[b].op = "mint" /\ admin[b].project = q
      BY <2>1 DEF ProjectsInv, KeysOK
    <3>2. CASE q = p
      <4>1. Revoking(q)' = {}
        BY <1>4, <1>6, <3>1, <3>2
      <4>2. PICK l \in LiveKeys(p) : l # k
        BY <1>4, <3>1, <3>2 DEF HasTwoKeys
      <4> QED BY <1>5, <3>2, <4>1, <4>2
    <3>3. CASE q # p
      <4>1. LiveKeys(q)' = LiveKeys(q) /\ Revoking(q)' = Revoking(q)
        BY <1>5, <1>6, <1>7, <3>3
      <4>2. \A b \in Admin : admin[b].op = "mint" => admin'[b] = admin[b]
        BY <1>2, <1>3
      <4> QED BY <3>1, <4>1, <4>2 DEF HasTwoKeys
    <3> QED BY <3>2, <3>3
  <2>2. ASSUME NEW b \in Admin, admin'[b] # Idle
        PROVE  project'[admin'[b].project] # "absent"
    BY <1>2, <1>3, <2>2 DEF ProjectsInv, KeysOK
  <2> QED BY <1>2, <2>1, <2>2 DEF KeysOK
<1>10. PurgesOK'
  BY <1>2, <1>3, PurgesStutter DEF ProjectsInv, Idle
<1> QED BY <1>8, <1>9, <1>10 DEF ProjectsInv

\* The cascade takes this project's keys and no others.
LEMMA DeletedKeys ==
  ASSUME ProjectTypes, NEW p \in Project,
         key' = [k \in Key |-> IF key[k].project = p
                               THEN [key[k] EXCEPT !.state = "deleted"] ELSE key[k]]
  PROVE  /\ key' \in [Key -> [project : Project \cup {NoProject},
                              state : {"unminted", "live", "revoked", "deleted"}]]
         /\ \A q : q # p => LiveKeys(q)' = LiveKeys(q)
<1>1. \A k \in Key : key[k] \in [project : Project \cup {NoProject},
                                state : {"unminted", "live", "revoked", "deleted"}]
  BY DEF ProjectTypes
<1>2. ASSUME NEW k \in Key
      PROVE  /\ key'[k] = IF key[k].project = p THEN [key[k] EXCEPT !.state = "deleted"] ELSE key[k]
             /\ key'[k] \in [project : Project \cup {NoProject},
                             state : {"unminted", "live", "revoked", "deleted"}]
  BY <1>1
<1>3. ASSUME NEW q, q # p, NEW k \in Key
      PROVE  key'[k] = [project |-> q, state |-> "live"] <=> key[k] = [project |-> q, state |-> "live"]
  <2>1. key[k].project = p => key'[k].project = p /\ key[k].project # q
    BY <1>1, <1>2, <1>3
  <2> QED BY <1>2, <1>3, <2>1
<1>4. DOMAIN key' = Key
  OBVIOUS
<1>5. key' \in [Key -> [project : Project \cup {NoProject},
                        state : {"unminted", "live", "revoked", "deleted"}]]
  BY <1>2, <1>4
<1> QED BY <1>3, <1>5 DEF LiveKeys

LEMMA DeleteProjectInv ==
  ASSUME ProjectsInv, NEW a \in Admin, NEW p \in Project, DeleteProject(a, p)
  PROVE  ProjectsInv'
<1> DEFINE x == [op |-> "purge", project |-> p, key |-> NoKey, next |-> 1]
<1>1. /\ admin[a] = Idle /\ project[p] = "live"
      /\ project' = [project EXCEPT ![p] = "deleted"]
      /\ admin' = [admin EXCEPT ![a] = x]
      /\ UNCHANGED <<jobs, tableVars, excused, purged>>
  BY DEF DeleteProject, Busy
<1>2. x \in Handler /\ x # Idle /\ x.op = "purge" /\ x.project = p /\ x.next = 1
  BY DEF Handler, Idle
<1> HIDE DEF x
<1>3. /\ \A b \in Admin : admin'[b] = IF b = a THEN x ELSE admin[b]
      /\ admin' \in [Admin -> Handler \cup {Idle}]
      /\ \A q : q # p => LiveKeys(q)' = LiveKeys(q)
      /\ key' \in [Key -> [project : Project \cup {NoProject},
                           state : {"unminted", "live", "revoked", "deleted"}]]
  BY <1>1, <1>2, SlotChanges, DeletedKeys DEF ProjectsInv, DeleteProject
<1>4. \A q \in Project : project'[q] = IF q = p THEN "deleted" ELSE project[q]
  BY <1>1 DEF ProjectsInv, ProjectTypes
<1>5. \A q : Revoking(q)' = Revoking(q)
  BY <1>1, <1>2, <1>3 DEF Revoking, Idle
<1>6. ProjectTypes'
  BY <1>1, <1>3 DEF ProjectsInv, ProjectTypes
<1>7. KeysOK'
  <2>1. ASSUME NEW b \in Admin, admin'[b] # Idle
        PROVE  project'[admin'[b].project] # "absent"
    <3>1. CASE b = a
      BY <1>2, <1>3, <1>4, <3>1
    <3>2. CASE b # a
      <4>1. admin'[b] = admin[b] /\ admin[b].project \in Project /\ project[admin[b].project] # "absent"
        BY <1>3, <2>1, <3>2, Handlers DEF ProjectsInv, KeysOK
      <4> QED BY <1>4, <4>1
    <3> QED BY <3>1, <3>2
  <2>2. ASSUME NEW q \in Project, project'[q] = "live", q \notin excused'
        PROVE  /\ \A b, c \in Revoking(q)' : b = c
               /\ Revoking(q)' # {} => HasTwoKeys(q)'
               /\ LiveKeys(q)' = {} => \E b \in Admin : admin'[b].op = "mint" /\ admin'[b].project = q
    <3>1. q # p /\ project[q] = "live" /\ q \notin excused /\ LiveKeys(q)' = LiveKeys(q)
      BY <1>1, <1>3, <1>4, <2>2
    <3>2. \A b \in Admin : admin[b].op = "mint" => admin'[b] = admin[b]
      BY <1>1, <1>3 DEF Idle
    <3> QED BY <1>5, <3>1, <3>2 DEF ProjectsInv, KeysOK, HasTwoKeys
  <2> QED BY <2>1, <2>2 DEF KeysOK
<1>8. PurgesOK'
  <2>1. ASSUME NEW b \in Admin, admin'[b].op = "purge"
        PROVE  PurgeOK(b)'
    <3>1. CASE b = a
      BY <1>2, <1>3, <1>4, <3>1 DEF PurgeOK
    <3>2. CASE b # a
      <4>1. admin'[b] = admin[b] /\ admin[b].op = "purge" /\ admin[b].project \in Project
        BY <1>3, <2>1, <3>2, Handlers DEF ProjectsInv, Idle
      <4>2. /\ admin[b].next \in 1 .. 6 /\ project[admin[b].project] = "deleted"
            /\ \A n \in 1 .. admin[b].next - 1 : OnlyLate(admin[b].project, purgeTables[n])
        BY <4>1 DEF ProjectsInv, PurgesOK, PurgeOK
      <4>3. project'[admin[b].project] = "deleted"
        BY <1>4, <4>1, <4>2
      <4>4. \A q, table : OnlyLate(q, table) => OnlyLate(q, table)'
        BY <1>1 DEF OnlyLate
      <4>5. PICK q, n : q = admin[b].project /\ n = admin[b].next
        OBVIOUS
      <4>6. \A m \in 1 .. n - 1 : OnlyLate(q, purgeTables[m])'
        BY <4>2, <4>4, <4>5
      <4> QED BY <4>1, <4>2, <4>3, <4>5, <4>6 DEF PurgeOK
    <3> QED BY <3>1, <3>2
  <2>2. \A q \in purged : project'[q] = "deleted"
    BY <1>1, <1>4 DEF ProjectsInv, PurgesOK, ProjectTypes
  <2> QED BY <1>1, <2>1, <2>2 DEF ProjectsInv, PurgesOK, PurgeOK, OnlyLate
<1> QED BY <1>6, <1>7, <1>8 DEF ProjectsInv

\* One table more holds only what came late; the tables done before still do.
LEMMA PurgeTableInv ==
  ASSUME ProjectsInv, NEW a \in Admin, PurgeTable(a)
  PROVE  ProjectsInv'
<1>1. PICK p, n, table : p = admin[a].project /\ n = admin[a].next /\ table = purgeTables[n]
  OBVIOUS
<1>2. /\ admin[a].op = "purge"
      /\ submitted' = submitted \cup {<<p, table>>}
      /\ pending' = pending \cup {<<p, table>>}
      /\ UNCHANGED <<project, key, jobs, rows, late, excused>>
  BY <1>1 DEF PurgeTable
<1>3. /\ p \in Project /\ project[p] = "deleted" /\ n \in 1 .. 6 /\ admin[a] # Idle
      /\ \A m \in 1 .. n - 1 : OnlyLate(p, purgeTables[m])
  BY <1>1, <1>2, Handlers DEF ProjectsInv, PurgesOK, PurgeOK, Idle
<1>4. /\ \A q \in Project : \A t : OnlyLate(q, t) => OnlyLate(q, t)'
      /\ OnlyLate(p, table)'
      /\ table \in AllTables
  BY <1>1, <1>2, <1>3, PurgeTables DEF OnlyLate
<1>5. \A m \in 1 .. n : OnlyLate(p, purgeTables[m])'
  BY <1>1, <1>3, <1>4
<1>6. CASE n < 6
  <2> DEFINE x == [op |-> "purge", project |-> p, key |-> NoKey, next |-> n + 1]
  <2>1. admin' = [admin EXCEPT ![a] = x] /\ UNCHANGED purged
    BY <1>1, <1>6, PurgeTables DEF PurgeTable, Busy
  <2>2. x \in Handler /\ x # Idle /\ x.op = "purge" /\ x.project = p /\ x.next = n + 1
    BY <1>3, <1>6 DEF Handler, Idle
  <2> HIDE DEF x
  <2>3. /\ \A b \in Admin : admin'[b] = IF b = a THEN x ELSE admin[b]
        /\ admin' \in [Admin -> Handler \cup {Idle}]
    BY <2>1, <2>2, SlotChanges DEF ProjectsInv
  <2>4. ProjectTypes'
    BY <1>2, <1>3, <1>4, <2>1, <2>3 DEF ProjectsInv, ProjectTypes
  <2>5. KeysOK'
    BY <1>1, <1>2, <1>3, <2>2, <2>3, KeysStutter DEF ProjectsInv
  <2>6. ASSUME NEW b \in Admin
        PROVE  PurgeOK(b)'
    <3>1. CASE b = a
      <4>1. admin'[b] = x /\ n + 1 \in 1 .. 6 /\ n + 1 - 1 = n
        BY <1>3, <1>6, <2>3, <3>1
      <4>2. /\ admin'[b].next \in 1 .. 6 /\ admin'[b].project = p
            /\ admin'[b].next - 1 = n
        BY <1>3, <2>2, <4>1
      <4> QED BY <1>2, <1>3, <1>5, <4>2 DEF PurgeOK
    <3>2. CASE b # a
      BY <1>2, <1>4, <2>3, <3>2, PurgeStands DEF ProjectsInv
    <3> QED BY <3>1, <3>2
  <2>7. PurgesOK'
    <3>1. \A q \in purged' : /\ q \in Project /\ project'[q] = "deleted"
                             /\ \A t \in AllTables \ {"issue_stats_1h"} : OnlyLate(q, t)'
      BY <1>2, <1>4, <2>1 DEF ProjectsInv, ProjectTypes, PurgesOK
    <3> QED BY <2>6, <3>1 DEF PurgesOK
  <2> QED BY <2>4, <2>5, <2>7 DEF ProjectsInv
<1>7. CASE n = 6
  <2>1. admin' = [admin EXCEPT ![a] = Idle] /\ purged' = purged \cup {p}
    BY <1>1, <1>7, PurgeTables DEF PurgeTable, Done
  <2>2. /\ \A b \in Admin : admin'[b] = IF b = a THEN Idle ELSE admin[b]
        /\ admin' \in [Admin -> Handler \cup {Idle}]
    BY <2>1, SlotChanges DEF ProjectsInv
  <2>3. ProjectTypes'
    BY <1>2, <1>3, <1>4, <2>1, <2>2 DEF ProjectsInv, ProjectTypes
  <2>4. KeysOK'
    BY <1>2, <2>2, KeysStutter DEF ProjectsInv
  <2>5. ASSUME NEW b \in Admin
        PROVE  PurgeOK(b)'
    <3>1. CASE b = a
      BY <2>2, <3>1 DEF PurgeOK, Idle
    <3>2. CASE b # a
      BY <1>2, <1>4, <2>2, <3>2, PurgeStands DEF ProjectsInv
    <3> QED BY <3>1, <3>2
  <2>6. \A t \in AllTables \ {"issue_stats_1h"} : OnlyLate(p, t)'
    BY <1>5, <1>7, PurgeTables
  <2>7. \A q \in purged' : /\ q \in Project /\ project'[q] = "deleted"
                           /\ \A t \in AllTables \ {"issue_stats_1h"} : OnlyLate(q, t)'
    BY <1>2, <1>3, <1>4, <2>1, <2>6 DEF ProjectsInv, ProjectTypes, PurgesOK
  <2>8. PurgesOK'
    BY <2>5, <2>7 DEF PurgesOK
  <2> QED BY <2>3, <2>4, <2>8 DEF ProjectsInv
<1> QED BY <1>3, <1>6, <1>7

LEMMA PurgeFailsInv ==
  ASSUME ProjectsInv, NEW a \in Admin, PurgeFails(a)
  PROVE  ProjectsInv'
<1>1. /\ admin[a].op = "purge" /\ admin' = [admin EXCEPT ![a] = Idle]
      /\ UNCHANGED <<project, key, jobs, tableVars, excused, purged>>
  BY DEF PurgeFails, Done
<1>2. /\ \A b \in Admin : admin'[b] = IF b = a THEN Idle ELSE admin[b]
      /\ admin' \in [Admin -> Handler \cup {Idle}]
  BY <1>1, SlotChanges DEF ProjectsInv
<1>3. ProjectTypes'
  BY <1>1, <1>2 DEF ProjectsInv, ProjectTypes
<1>4. KeysOK'
  BY <1>1, <1>2, KeysStutter DEF ProjectsInv
<1>5. PurgesOK'
  BY <1>1, <1>2, PurgesStutter DEF ProjectsInv, Idle
<1> QED BY <1>3, <1>4, <1>5 DEF ProjectsInv

\* A mutation takes the rows that were there, and is done.
LEMMA MutateInv ==
  ASSUME ProjectsInv, NEW p, NEW table, Mutate(p, table)
  PROVE  ProjectsInv'
<1>1. /\ <<p, table>> \in pending
      /\ pending' = pending \ {<<p, table>>}
      /\ rows' = [rows EXCEPT ![p] = @ \ {table}]
      /\ UNCHANGED <<project, key, admin, jobs, late, submitted, excused, purged>>
  BY DEF Mutate
<1>2. /\ \A q \in Project : rows'[q] = IF q = p THEN rows[q] \ {table} ELSE rows[q]
      /\ rows' \in [Project -> SUBSET AllTables]
  BY <1>1 DEF ProjectsInv, ProjectTypes
<1>3. ProjectTypes'
  BY <1>1, <1>2 DEF ProjectsInv, ProjectTypes
<1>4. KeysOK'
  BY <1>1, KeysStutter DEF ProjectsInv
<1>5. ASSUME NEW q \in Project, NEW t, OnlyLate(q, t)
      PROVE  OnlyLate(q, t)'
  BY <1>1, <1>2, <1>5 DEF OnlyLate
<1>6. PurgesOK'
  <2>1. ASSUME NEW b \in Admin
        PROVE  PurgeOK(b)'
    BY <1>1, <1>5, PurgeStands DEF ProjectsInv
  <2>2. \A q \in purged : /\ project[q] = "deleted"
                          /\ \A t \in AllTables \ {"issue_stats_1h"} : OnlyLate(q, t)'
    BY <1>5 DEF ProjectsInv, ProjectTypes, PurgesOK
  <2> QED BY <1>1, <2>1, <2>2 DEF PurgesOK
<1> QED BY <1>3, <1>4, <1>6 DEF ProjectsInv

\* What is inserted after its table's mutation was submitted is late.
LEMMA JobsInv ==
  ASSUME ProjectsInv,
         \/ \E p \in Project, signal \in Signal : Submit(p, signal)
         \/ \E job \in jobs : UpsertJob(job) \/ InsertJob(job)
  PROVE  ProjectsInv'
<1>1. UNCHANGED <<project, key, admin, excused, purged>>
  BY DEF Submit, UpsertJob, InsertJob
<1>2. jobs' \subseteq Job
  <2>1. ASSUME NEW p \in Project, NEW signal \in Signal, Submit(p, signal)
        PROVE  jobs' \subseteq Job
    <3>1. PICK known : known = (signal # "error") /\ known \in BOOLEAN
      OBVIOUS
    <3>2. jobs' = jobs \cup {[project |-> p, signal |-> signal, upserted |-> known]}
      BY <2>1, <3>1 DEF Submit
    <3>3. [project |-> p, signal |-> signal, upserted |-> known] \in Job
      BY <3>1 DEF Job
    <3> QED BY <3>2, <3>3 DEF ProjectsInv, ProjectTypes
  <2>2. ASSUME NEW job \in jobs, UpsertJob(job)
        PROVE  jobs' \subseteq Job
    <3>1. job \in Job /\ jobs \subseteq Job /\ jobs' = (jobs \ {job}) \cup {[job EXCEPT !.upserted = TRUE]}
      BY <2>2 DEF UpsertJob, ProjectsInv, ProjectTypes
    <3>2. [job EXCEPT !.upserted = TRUE] \in Job
      BY <3>1 DEF Job
    <3> QED BY <3>1, <3>2
  <2>3. ASSUME NEW job \in jobs, InsertJob(job)
        PROVE  jobs' \subseteq Job
    BY <2>3 DEF InsertJob, ProjectsInv, ProjectTypes
  <2> QED BY <2>1, <2>2, <2>3
<1>3. KeysOK'
  BY <1>1, KeysStutter DEF ProjectsInv
<1>4. /\ rows' \in [Project -> SUBSET AllTables]
      /\ UNCHANGED <<submitted, pending>>
      /\ \A p \in Project : project[p] = "deleted" =>
           \A table : OnlyLate(p, table) => OnlyLate(p, table)'
  <2>1. CASE UNCHANGED tableVars
    BY <2>1 DEF ProjectsInv, ProjectTypes, OnlyLate
  <2>2. ASSUME NEW job \in jobs, InsertJob(job)
        PROVE  /\ rows' \in [Project -> SUBSET AllTables]
               /\ UNCHANGED <<submitted, pending>>
               /\ \A p \in Project : project[p] = "deleted" =>
                    \A table : OnlyLate(p, table) => OnlyLate(p, table)'
    <3>1. PICK q, tables : q = job.project /\ tables = TablesOf(job.signal)
      OBVIOUS
    <3>2. /\ q \in Project /\ job.signal \in {"error", "log", "span", "metric"}
      BY <3>1, ProjectsAssumption DEF ProjectsInv, ProjectTypes, Job
    <3>3. tables \subseteq AllTables
      BY <3>1, <3>2 DEF TablesOf, AllTables
    <3> DEFINE new == {t \in tables : <<q, t>> \notin submitted}
    <3>4. rows' = [rows EXCEPT ![q] = @ \cup new] /\ UNCHANGED <<submitted, pending>>
      BY <2>2, <3>1 DEF InsertJob
    <3>5. /\ \A p \in Project : rows'[p] = IF p = q THEN rows[q] \cup new ELSE rows[p]
          /\ rows' \in [Project -> SUBSET AllTables]
      BY <3>2, <3>3, <3>4 DEF ProjectsInv, ProjectTypes
    <3>6. ASSUME NEW p \in Project, project[p] = "deleted", NEW table, OnlyLate(p, table)
          PROVE  OnlyLate(p, table)'
      BY <3>4, <3>5, <3>6 DEF OnlyLate
    <3> QED BY <3>4, <3>5, <3>6
  <2> QED BY <2>1, <2>2 DEF Submit, UpsertJob
<1>5. ProjectTypes'
  BY <1>1, <1>2, <1>4 DEF ProjectsInv, ProjectTypes
<1>6. PurgesOK'
  <2>1. ASSUME NEW b \in Admin
        PROVE  PurgeOK(b)'
    BY <1>1, <1>4, PurgeStands DEF ProjectsInv
  <2>2. \A p \in purged : /\ project[p] = "deleted"
                          /\ \A table \in AllTables \ {"issue_stats_1h"} : OnlyLate(p, table)'
    BY <1>4 DEF ProjectsInv, ProjectTypes, PurgesOK
  <2> QED BY <1>1, <2>1, <2>2 DEF PurgesOK
<1> QED BY <1>3, <1>5, <1>6 DEF ProjectsInv

THEOREM ProjectsInvariant == ProjectsSpec => []ProjectsInv
<1>1. ProjectsInit => ProjectsInv
  <2> SUFFICES ASSUME ProjectsInit
               PROVE  ProjectsInv
    OBVIOUS
  <2>1. \A a \in Admin : admin[a] = Idle /\ Idle.op = "idle"
    BY DEF ProjectsInit, Idle
  <2>2. ProjectTypes
    BY DEF ProjectsInit, ProjectTypes
  <2>3. KeysOK /\ PurgesOK
    BY <2>1, <2>2 DEF ProjectsInit, KeysOK, PurgesOK, PurgeOK
  <2> QED BY <2>2, <2>3 DEF ProjectsInv
<1>2. ProjectsInv /\ [ProjectsNext]_projectVars => ProjectsInv'
  <2> SUFFICES ASSUME ProjectsInv, [ProjectsNext]_projectVars
               PROVE  ProjectsInv'
    OBVIOUS
  <2>1. CASE UNCHANGED projectVars
    BY <2>1 DEF projectVars, ProjectsInv, ProjectTypes, KeysOK, PurgesOK, PurgeOK, HasTwoKeys,
                LiveKeys, Revoking, OnlyLate
  <2>2. CASE KeysNext
    BY <2>2, CreateProjectInv, MintInv, MintFailsInv, CountKeysInv, RevokeInv DEF KeysNext
  <2>3. CASE DeletionNext
    BY <2>3, DeleteProjectInv, PurgeTableInv, PurgeFailsInv, MutateInv, JobsInv DEF DeletionNext
  <2> QED BY <2>1, <2>2, <2>3 DEF ProjectsNext
<1> QED BY <1>1, <1>2, PTL DEF ProjectsSpec

\* A live project has a key, or gets its first one, unless that insert failed or two
\* revocations counted the same keys (project_handlers.go:61, 193-204).
THEOREM KeylessProjectsAreExplained == ProjectsSpec => []KeylessIsExplained
<1>1. ProjectsInv => KeylessIsExplained
  BY DEF ProjectsInv, KeysOK, KeylessIsExplained
<1> QED BY <1>1, ProjectsInvariant, PTL

\* After a purge that went through, what is left of the project in the tables it
\* names came after their mutations were submitted, or a mutation has still to
\* remove it (project_handlers.go:240, clickhouse/project.go:12-15).
THEOREM PurgesLeaveOnlyLateRows == ProjectsSpec => []PurgeLeavesOnlyLateRows
<1>1. ProjectsInv => PurgeLeavesOnlyLateRows
  BY DEF ProjectsInv, ProjectTypes, PurgesOK, OnlyLate, PurgeLeavesOnlyLateRows
<1> QED BY <1>1, ProjectsInvariant, PTL

----------------------------------------------------------------------------
(***************************************************************************)
(* Migrations.  A version that is not muddled has been touched by the one  *)
(* runner that is midway through it, or has been recorded whole; the       *)
(* holder of a lock that was never lost has read all records but its own.  *)
(***************************************************************************)
Migration == UNION Directories
Run == [at : {"idle", "lock", "read", "apply"}, files : Seq(Migration), applied : [Version -> Nat],
        file : Nat \ {0}, statement : Nat \ {0}]

MigrationTypes ==
  /\ engine \in Engine
  /\ lock \subseteq Runner
  /\ recorded \in [Version -> Nat]
  /\ object \in [Version -> [1 .. Statements -> Nat]]
  /\ runner \in [Runner -> Run]
  /\ commits \in [Version -> Nat]
  /\ engine = "postgres" => muddled = {}

FilesOK(r) ==
  /\ \A n \in 1 .. Len(runner[r].files) :
       runner[r].files[n].version \in Version /\ runner[r].files[n].body \in Nat \ {0}
  /\ \A m, n \in 1 .. Len(runner[r].files) :
       m < n => runner[r].files[m].version < runner[r].files[n].version
  /\ runner[r].file <= Len(runner[r].files) + 1

ProgressOK(r) ==
  /\ At(r, "apply") =>
       /\ \A v \in Version : runner[r].applied[v] # 0 => recorded[v] # 0
       /\ \A n \in 1 .. runner[r].file - 1 : recorded[runner[r].files[n].version] # 0
  /\ ~At(r, "apply") => runner[r].file = 1
  /\ runner[r].statement # 1 =>
       /\ engine = "clickhouse" /\ Applying(r) /\ runner[r].statement <= Statements + 1
       /\ \A i \in 1 .. runner[r].statement - 1 : object[File(r).version][i] # 0

\* What a runner has not read of it has applied itself.
ReadAll(r) == At(r, "apply") =>
  \A v \in Version : recorded[v] # 0 /\ runner[r].applied[v] = 0 =>
    \E n \in 1 .. runner[r].file - 1 : runner[r].files[n].version = v

LockOK ==
  /\ \A r, q \in lock : r = q
  /\ \A r \in lock : engine = "postgres" /\ runner[r].at \in {"read", "apply"}
  /\ ~lost => /\ engine = "postgres" =>
                   \A r \in Runner : runner[r].at \in {"read", "apply"} => r \in lock
              /\ \A r \in lock : ReadAll(r)

Midway(r, v) == Applying(r) /\ File(r).version = v /\ runner[r].statement # 1

Untouched(v) ==
  /\ recorded[v] # 0 => \A i \in 1 .. Statements : object[v][i] = recorded[v]
  /\ \A r \in Runner : Midway(r, v) =>
       /\ recorded[v] = 0
       /\ \A i \in 1 .. runner[r].statement - 1 : object[v][i] = File(r).body
       /\ \A q \in Runner : Midway(q, v) => q = r
  /\ \A i \in 1 .. Statements : object[v][i] # 0 /\ recorded[v] = 0 =>
       \E r \in Runner : Midway(r, v) /\ i < runner[r].statement

VersionOK(v) ==
  /\ commits[v] <= 1 /\ (commits[v] # 0 => recorded[v] # 0)
  /\ recorded[v] # 0 => \A i \in 1 .. Statements : object[v][i] # 0
  /\ v \notin muddled => Untouched(v)

MigrationsInv ==
  /\ MigrationTypes
  /\ \A r \in Runner : FilesOK(r) /\ ProgressOK(r)
  /\ LockOK
  /\ \A v \in Version : VersionOK(v)

LEMMA FileTypes ==
  ASSUME MigrationsInv, NEW r \in Runner
  PROVE  /\ runner[r] \in Run
         /\ runner[r].file \in Nat \ {0} /\ runner[r].statement \in Nat \ {0}
         /\ Len(runner[r].files) \in Nat
         /\ Pending(r) => /\ runner[r].file \in 1 .. Len(runner[r].files)
                          /\ File(r).version \in Version /\ File(r).body \in Nat \ {0}
<1>1. /\ runner[r] \in Run
      /\ runner[r].file \in Nat \ {0} /\ runner[r].statement \in Nat \ {0}
      /\ runner[r].files \in Seq(Migration)
  BY DEF MigrationsInv, MigrationTypes, Run
<1>2. Len(runner[r].files) \in Nat
  BY <1>1
<1>3. Pending(r) => runner[r].file \in 1 .. Len(runner[r].files)
  BY <1>1, <1>2 DEF Pending
<1> QED BY <1>1, <1>2, <1>3 DEF MigrationsInv, FilesOK, File

\* A runner that rests.
LEMMA RunnerStands ==
  ASSUME NEW q, runner'[q] = runner[q]
  PROVE  /\ FilesOK(q)' = FilesOK(q) /\ Applying(q)' = Applying(q) /\ File(q)' = File(q)
         /\ \A where : At(q, where)' = At(q, where)
         /\ \A v : Midway(q, v)' <=> Midway(q, v)
BY DEF FilesOK, Applying, File, At, Pending, WasRead, Midway

LEMMA ProgressStands ==
  ASSUME MigrationsInv, NEW q \in Runner, runner'[q] = runner[q], UNCHANGED engine,
         \A v \in Version : recorded[v] # 0 => recorded'[v] # 0,
         \A v \in Version, i \in 1 .. Statements : object[v][i] # 0 => object'[v][i] # 0
  PROVE  FilesOK(q)' /\ ProgressOK(q)'
<1>1. FilesOK(q) /\ ProgressOK(q)
  BY DEF MigrationsInv
<1>2. FilesOK(q)' /\ Applying(q)' = Applying(q) /\ File(q)' = File(q)
  BY <1>1, RunnerStands
<1>3. At(q, "apply") =>
        /\ \A v \in Version : runner[q].applied[v] # 0 => recorded'[v] # 0
        /\ \A n \in 1 .. runner[q].file - 1 : recorded'[runner[q].files[n].version] # 0
  <2>1. \A n \in 1 .. runner[q].file - 1 : runner[q].files[n].version \in Version
    BY <1>1, FileTypes DEF FilesOK
  <2> QED BY <1>1, <2>1 DEF ProgressOK
<1>4. runner[q].statement # 1 =>
        \A i \in 1 .. runner[q].statement - 1 : object'[File(q).version][i] # 0
  <2> SUFFICES ASSUME runner[q].statement # 1, NEW i \in 1 .. runner[q].statement - 1
               PROVE  object'[File(q).version][i] # 0
    OBVIOUS
  <2>1. /\ Applying(q) /\ runner[q].statement <= Statements + 1
        /\ object[File(q).version][i] # 0
    BY <1>1 DEF ProgressOK
  <2>2. i \in 1 .. Statements
    BY <2>1, FileTypes, MigrationsAssumption
  <2> QED BY <2>1, <2>2, FileTypes DEF Applying
<1>5. /\ At(q, "apply")' = At(q, "apply") /\ runner'[q].file = runner[q].file
      /\ runner'[q].statement = runner[q].statement /\ runner'[q].applied = runner[q].applied
      /\ runner'[q].files = runner[q].files
  BY RunnerStands
<1>6. ProgressOK(q)'
  BY <1>1, <1>2, <1>3, <1>4, <1>5 DEF ProgressOK
<1> QED BY <1>2, <1>6

\* A step of one runner that writes nothing to the database, and leaves no version
\* half applied that is not known for it.
LEMMA QuietStep ==
  ASSUME MigrationsInv, NEW r \in Runner,
         UNCHANGED <<engine, recorded, object, commits>>,
         lock' \subseteq Runner, LockOK',
         runner' \in [Runner -> Run],
         \A q \in Runner \ {r} : runner'[q] = runner[q],
         runner'[r].statement = 1,
         FilesOK(r)', ProgressOK(r)',
         muddled \subseteq muddled', engine = "postgres" => muddled' = {},
         runner[r].statement # 1 => File(r).version \in muddled'
  PROVE  MigrationsInv'
<1>1. MigrationTypes'
  BY DEF MigrationsInv, MigrationTypes
<1>2. \A q \in Runner : FilesOK(q)' /\ ProgressOK(q)'
  BY ProgressStands
<1>3. ASSUME NEW v \in Version
      PROVE  VersionOK(v)'
  <2>1. VersionOK(v)
    BY DEF MigrationsInv
  <2>2. CASE v \in muddled'
    BY <2>1, <2>2 DEF VersionOK
  <2>3. CASE v \notin muddled'
    <3>1. Untouched(v) /\ v \notin muddled
      BY <2>1, <2>3 DEF VersionOK
    <3>2. ~Midway(r, v) /\ ~Midway(r, v)'
      BY <2>3 DEF Midway
    <3>3. \A q \in Runner : /\ Midway(q, v)' <=> Midway(q, v)
                            /\ Midway(q, v) => runner'[q] = runner[q] /\ File(q)' = File(q)
      BY <3>2, RunnerStands
    <3>4. Untouched(v)'
      BY <3>1, <3>3 DEF Untouched
    <3> QED BY <2>1, <3>4 DEF VersionOK
  <2> QED BY <2>2, <2>3
<1> QED BY <1>1, <1>2, <1>3 DEF MigrationsInv

\* A run ends, and a lock with it.
LEMMA EndInv ==
  ASSUME MigrationsInv, NEW r \in Runner, End(r), ~At(r, "idle"),
         UNCHANGED <<engine, recorded, object, commits, lost>>,
         muddled \subseteq muddled', engine = "postgres" => muddled' = {},
         runner[r].statement # 1 => File(r).version \in muddled'
  PROVE  MigrationsInv'
<1>1. /\ runner' = [runner EXCEPT ![r] = NoRun] /\ lock' = lock \ {r}
      /\ runner \in [Runner -> Run] /\ lock \subseteq Runner
  BY DEF End, MigrationsInv, MigrationTypes
<1>2. /\ NoRun \in Run /\ NoRun.at = "idle" /\ NoRun.files = <<>> /\ NoRun.file = 1
      /\ NoRun.statement = 1
  BY DEF NoRun, Run
<1>3. /\ runner' \in [Runner -> Run] /\ runner'[r] = NoRun
      /\ \A q \in Runner \ {r} : runner'[q] = runner[q]
  BY <1>1, <1>2
<1>4. FilesOK(r)'
  BY <1>2, <1>3 DEF FilesOK
<1>5. ProgressOK(r)'
  BY <1>2, <1>3 DEF ProgressOK, At
<1>6. LockOK'
  <2>1. \A q \in lock' : q \in lock /\ q # r /\ runner'[q] = runner[q]
    BY <1>1, <1>3
  <2>2. LockOK
    BY DEF MigrationsInv
  <2>3. ~lost => \A q \in lock' : ReadAll(q)'
    BY <2>1, <2>2 DEF LockOK, ReadAll, At
  <2>4. ~lost /\ engine = "postgres" => \A q \in Runner : runner'[q].at \in {"read", "apply"} => q \in lock'
    BY <1>1, <1>2, <1>3, <2>2 DEF LockOK
  <2> QED BY <2>1, <2>2, <2>3, <2>4 DEF LockOK
<1> QED BY <1>1, <1>2, <1>3, <1>4, <1>5, <1>6, QuietStep

LEMMA MigrationsStutter ==
  ASSUME MigrationsInv,
         UNCHANGED <<engine, lock, recorded, object, runner, commits, muddled, lost>>
  PROVE  MigrationsInv'
<1>1. MigrationTypes' /\ \A q \in Runner : FilesOK(q)' /\ ProgressOK(q)'
  BY ProgressStands DEF MigrationsInv, MigrationTypes
<1>2. LockOK'
  BY DEF MigrationsInv, LockOK, ReadAll, At
<1>3. \A v \in Version : VersionOK(v)'
  BY DEF MigrationsInv, VersionOK, Untouched, Midway, Applying, File, At, Pending, WasRead
<1> QED BY <1>1, <1>2, <1>3 DEF MigrationsInv

\* A build's files, in order of their versions.
LEMMA Loaded ==
  ASSUME NEW directory \in Directories, Loadable(directory), NEW files \in Load(directory)
  PROVE  /\ files \in Seq(Migration)
         /\ \A n \in 1 .. Len(files) : files[n].version \in Version /\ files[n].body \in Nat \ {0}
         /\ \A m, n \in 1 .. Len(files) : m < n => files[m].version < files[n].version
<1> DEFINE entries == {e \in directory : e.kind = "file"}
<1>1. /\ entries \subseteq directory /\ IsFiniteSet(directory)
      /\ \A e \in entries : e.version \in Version /\ e.body \in Nat
  BY MigrationsAssumption
<1>2. \A e \in entries : e \in Migration /\ e.body \in Nat \ {0}
  BY <1>1 DEF Loadable, Migration
<1>3. Cardinality(entries) \in Nat
  BY <1>1, FS_Subset, FS_CardinalityType
<1>4. /\ files \in [1 .. Cardinality(entries) -> entries]
      /\ \A m, n \in DOMAIN files : m < n => files[m].version < files[n].version
  BY DEF Load
<1> HIDE DEF entries
<1>5. files \in Seq(entries) /\ Len(files) = Cardinality(entries) /\ DOMAIN files = 1 .. Len(files)
  BY <1>3, <1>4
<1>6. \A n \in 1 .. Len(files) : files[n] \in entries
  BY <1>4, <1>5
<1>7. files \in Seq(Migration)
  BY <1>2, <1>3, <1>4, <1>5
<1> QED BY <1>1, <1>2, <1>4, <1>5, <1>6, <1>7

LEMMA StartInv ==
  ASSUME MigrationsInv, NEW r \in Runner, NEW directory \in Directories, Start(r, directory)
  PROVE  MigrationsInv'
<1>1. /\ runner[r].at = "idle" /\ runner \in [Runner -> Run] /\ runner[r].statement = 1
      /\ UNCHANGED <<engine, lock, recorded, object, commits, muddled, lost>>
  BY DEF Start, At, MigrationsInv, MigrationTypes, ProgressOK, Applying
<1>2. CASE ~Loadable(directory)
  BY <1>1, <1>2, MigrationsStutter DEF Start
<1>3. ASSUME NEW files \in Load(directory), Loadable(directory),
             runner' = [runner EXCEPT ![r] = [NoRun EXCEPT !.at = "lock", !.files = files]]
      PROVE  MigrationsInv'
  <2> DEFINE x == [NoRun EXCEPT !.at = "lock", !.files = files]
  <2>0. /\ files \in Seq(Migration) /\ Len(files) \in Nat
        /\ \A n \in 1 .. Len(files) : files[n].version \in Version /\ files[n].body \in Nat \ {0}
        /\ \A m, n \in 1 .. Len(files) : m < n => files[m].version < files[n].version
    BY <1>3, Loaded
  <2>1. /\ x \in Run /\ x.at = "lock" /\ x.files = files /\ x.file = 1 /\ x.statement = 1
        /\ runner' = [runner EXCEPT ![r] = x]
    <3>1. NoRun \in Run /\ NoRun.file = 1 /\ NoRun.statement = 1
      BY DEF NoRun, Run
    <3>2. x \in Run /\ x.at = "lock" /\ x.files = files /\ x.file = 1 /\ x.statement = 1
      BY <2>0, <3>1 DEF Run
    <3> QED BY <1>3, <3>2
  <2> HIDE DEF x
  <2>2. /\ runner' \in [Runner -> Run] /\ runner'[r] = x
        /\ \A q \in Runner \ {r} : runner'[q] = runner[q]
    BY <1>1, <2>1
  <2>3. FilesOK(r)'
    <3>1. runner'[r].files = files /\ runner'[r].file = 1
      BY <2>1, <2>2
    <3>2. runner'[r].file <= Len(files) + 1
      BY <2>0, <3>1
    <3> QED BY <2>0, <3>1, <3>2 DEF FilesOK
  <2>4. ProgressOK(r)'
    BY <2>1, <2>2 DEF ProgressOK, At
  <2>5. LockOK'
    <3>1. LockOK /\ r \notin lock /\ lock \subseteq Runner
      BY <1>1 DEF MigrationsInv, MigrationTypes, LockOK
    <3>2. \A q \in lock : runner'[q] = runner[q]
      BY <2>2, <3>1
    <3>3. ~lost => \A q \in lock : ReadAll(q)'
      BY <1>1, <3>1, <3>2 DEF LockOK, ReadAll, At
    <3>4. ~lost /\ engine = "postgres" => \A q \in Runner : runner'[q].at \in {"read", "apply"} => q \in lock
      BY <2>1, <2>2, <3>1 DEF LockOK
    <3> QED BY <1>1, <3>1, <3>2, <3>3, <3>4 DEF LockOK
  <2> QED BY <1>1, <2>1, <2>2, <2>3, <2>4, <2>5, QuietStep DEF MigrationsInv, MigrationTypes
<1> QED BY <1>2, <1>3 DEF Start

LEMMA LockInv ==
  ASSUME MigrationsInv, NEW r \in Runner, Lock(r)
  PROVE  MigrationsInv'
<1>1. /\ runner[r].at = "lock" /\ runner \in [Runner -> Run] /\ runner[r] \in Run
      /\ runner[r].statement = 1 /\ runner[r].file = 1
      /\ lock \subseteq Runner /\ engine \in Engine /\ LockOK
      /\ UNCHANGED <<engine, recorded, object, commits, muddled, lost>>
  BY DEF Lock, At, MigrationsInv, MigrationTypes, ProgressOK, Applying
<1>2. runner' = [runner EXCEPT ![r].at = "read"]
  BY DEF Lock, Go
<1>3. /\ runner'[r].at = "read" /\ runner'[r].files = runner[r].files
      /\ runner'[r].file = runner[r].file /\ runner'[r].statement = 1 /\ runner'[r] \in Run
  BY <1>1, <1>2 DEF Run
<1>4. runner' \in [Runner -> Run] /\ \A q \in Runner \ {r} : runner'[q] = runner[q]
  BY <1>1, <1>2, <1>3
<1>5. FilesOK(r)' /\ ProgressOK(r)'
  BY <1>1, <1>3 DEF MigrationsInv, FilesOK, ProgressOK, At
<1>6. CASE engine = "postgres"
  <2>1. lock = {} /\ lock' = {r}
    BY <1>6 DEF Lock
  <2>2. LockOK'
    BY <1>1, <1>3, <1>4, <1>6, <2>1 DEF LockOK, ReadAll, At
  <2> QED BY <1>1, <1>3, <1>4, <1>5, <2>1, <2>2, QuietStep DEF MigrationsInv, MigrationTypes
<1>7. CASE engine # "postgres"
  <2>1. lock = {} /\ lock' = {}
    BY <1>1, <1>7 DEF Lock, LockOK
  <2>2. LockOK'
    BY <1>1, <1>7, <2>1 DEF LockOK
  <2> QED BY <1>1, <1>3, <1>4, <1>5, <2>1, <2>2, QuietStep DEF MigrationsInv, MigrationTypes
<1> QED BY <1>6, <1>7

LEMMA LoseLockInv ==
  ASSUME MigrationsInv, NEW r \in Runner, LoseLock(r)
  PROVE  MigrationsInv'
<1>1. /\ lock' = {} /\ lost' = TRUE
      /\ UNCHANGED <<engine, recorded, object, runner, commits, muddled>>
  BY DEF LoseLock
<1>2. MigrationTypes' /\ \A q \in Runner : FilesOK(q)' /\ ProgressOK(q)'
  BY <1>1, ProgressStands DEF MigrationsInv, MigrationTypes
<1>3. LockOK'
  BY <1>1 DEF LockOK
<1>4. \A v \in Version : VersionOK(v)'
  BY <1>1 DEF MigrationsInv, VersionOK, Untouched, Midway, Applying, File, At, Pending, WasRead
<1> QED BY <1>2, <1>3, <1>4 DEF MigrationsInv

LEMMA ReadAppliedInv ==
  ASSUME MigrationsInv, NEW r \in Runner, ReadApplied(r)
  PROVE  MigrationsInv'
<1>1. /\ runner[r].at = "read" /\ runner \in [Runner -> Run] /\ runner[r] \in Run
      /\ runner[r].statement = 1 /\ runner[r].file = 1
      /\ lock \subseteq Runner /\ LockOK /\ recorded \in [Version -> Nat]
      /\ UNCHANGED <<engine, lock, recorded, object, commits, muddled, lost>>
  BY DEF ReadApplied, At, MigrationsInv, MigrationTypes, ProgressOK, Applying
<1>2. runner' = [runner EXCEPT ![r].at = "apply", ![r].applied = recorded]
  BY DEF ReadApplied
<1>3. /\ runner'[r].at = "apply" /\ runner'[r].applied = recorded
      /\ runner'[r].files = runner[r].files /\ runner'[r].file = runner[r].file
      /\ runner'[r].statement = 1 /\ runner'[r] \in Run
  BY <1>1, <1>2 DEF Run
<1>4. runner' \in [Runner -> Run] /\ \A q \in Runner \ {r} : runner'[q] = runner[q]
  BY <1>1, <1>2, <1>3
<1>5. FilesOK(r)' /\ ProgressOK(r)'
  BY <1>1, <1>3 DEF MigrationsInv, FilesOK, ProgressOK, At
<1>6. LockOK'
  <2>1. ~lost => \A q \in lock : ReadAll(q)'
    <3> SUFFICES ASSUME ~lost, NEW q \in lock
                 PROVE  ReadAll(q)'
      OBVIOUS
    <3>1. CASE q = r
      BY <1>1, <1>3, <3>1 DEF ReadAll
    <3>2. CASE q # r
      BY <1>1, <1>4, <3>2 DEF LockOK, ReadAll, At
    <3> QED BY <3>1, <3>2
  <2>2. \A q \in Runner : runner'[q].at \in {"read", "apply"} <=> runner[q].at \in {"read", "apply"}
    BY <1>1, <1>3, <1>4
  <2> QED BY <1>1, <2>1, <2>2 DEF LockOK
<1> QED BY <1>1, <1>3, <1>4, <1>5, <1>6, QuietStep DEF MigrationsInv, MigrationTypes

LEMMA CompareInv ==
  ASSUME MigrationsInv, NEW r \in Runner, Compare(r)
  PROVE  MigrationsInv'
<1>1. /\ At(r, "apply") /\ Pending(r) /\ WasRead(r) # 0
      /\ runner \in [Runner -> Run] /\ runner[r] \in Run
      /\ FilesOK(r) /\ ProgressOK(r) /\ LockOK /\ lock \subseteq Runner
      /\ UNCHANGED <<engine, recorded, object, commits, muddled, lost>>
  BY DEF Compare, MigrationsInv, MigrationTypes
<1>2. runner[r].statement = 1
  BY <1>1 DEF ProgressOK, Applying
<1>3. CASE WasRead(r) # File(r).body
  BY <1>1, <1>2, <1>3, EndInv DEF Compare, At, MigrationsInv, MigrationTypes
<1>4. CASE WasRead(r) = File(r).body
  <2>1. runner' = [runner EXCEPT ![r].file = @ + 1] /\ lock' = lock
    BY <1>4 DEF Compare
  <2>2. /\ runner'[r].at = runner[r].at /\ runner'[r].applied = runner[r].applied
        /\ runner'[r].files = runner[r].files /\ runner'[r].file = runner[r].file + 1
        /\ runner'[r].statement = 1 /\ runner'[r] \in Run
    <3>1. runner'[r] = [runner[r] EXCEPT !.file = runner[r].file + 1]
      BY <1>1, <2>1
    <3>2. runner[r].file \in Nat \ {0} /\ runner[r].file + 1 \in Nat \ {0}
      BY FileTypes
    <3> QED BY <1>1, <1>2, <3>1, <3>2 DEF Run
  <2>3. runner' \in [Runner -> Run] /\ \A q \in Runner \ {r} : runner'[q] = runner[q]
    BY <1>1, <2>1, <2>2
  <2>4. /\ runner[r].file \in 1 .. Len(runner[r].files) /\ Len(runner[r].files) \in Nat
        /\ File(r).version \in Version
    BY <1>1, FileTypes
  <2>5. FilesOK(r)'
    <3>1. runner[r].file + 1 <= Len(runner[r].files) + 1
      BY <2>4
    <3> QED BY <1>1, <2>2, <3>1 DEF FilesOK
  <2>6. ProgressOK(r)'
    <3>1. recorded[runner[r].files[runner[r].file].version] # 0
      BY <1>1, <2>4 DEF ProgressOK, WasRead, File
    <3>2. \A n \in 1 .. runner'[r].file - 1 : n = runner[r].file \/ n \in 1 .. runner[r].file - 1
      BY <2>2, <2>4
    <3> QED BY <1>1, <2>2, <3>1, <3>2 DEF ProgressOK, At
  <2>7. LockOK'
    <3>1. ~lost => \A q \in lock : ReadAll(q)'
      <4> SUFFICES ASSUME ~lost, NEW q \in lock
                   PROVE  ReadAll(q)'
        OBVIOUS
      <4>1. CASE q = r
        <5>1. ReadAll(r)
          BY <1>1, <4>1 DEF LockOK
        <5>2. \A n \in 1 .. runner[r].file - 1 : n \in 1 .. runner'[r].file - 1
          BY <2>2, <2>4
        <5> QED BY <1>1, <2>2, <4>1, <5>1, <5>2 DEF ReadAll, At
      <4>2. CASE q # r
        BY <1>1, <2>3, <4>2 DEF LockOK, ReadAll, At
      <4> QED BY <4>1, <4>2
    <3>2. \A q \in Runner : runner'[q].at = runner[q].at
      BY <2>2, <2>3
    <3> QED BY <1>1, <2>1, <3>1, <3>2 DEF LockOK
  <2> QED BY <1>1, <1>2, <2>1, <2>2, <2>3, <2>5, <2>6, <2>7, QuietStep DEF MigrationsInv, MigrationTypes
<1> QED BY <1>3, <1>4

LEMMA FinishInv ==
  ASSUME MigrationsInv, NEW r \in Runner, Finish(r)
  PROVE  MigrationsInv'
<1>1. runner[r].statement = 1 /\ ~At(r, "idle") /\ End(r)
  BY DEF Finish, MigrationsInv, ProgressOK, Applying, At
<1> QED BY <1>1, EndInv DEF Finish, MigrationsInv, MigrationTypes

\* A run that breaks midway leaves a version known to be half applied.
LEMMA BreakInv ==
  ASSUME MigrationsInv, NEW r \in Runner, Break(r)
  PROVE  MigrationsInv'
<1>1. /\ ~At(r, "idle") /\ End(r) /\ muddled' = muddled \cup Half(r)
      /\ UNCHANGED <<engine, recorded, object, commits, lost>>
  BY DEF Break
<1>2. runner[r].statement # 1 => engine = "clickhouse" /\ Applying(r) /\ runner[r].statement > 1
  BY FileTypes DEF MigrationsInv, ProgressOK
<1>3. runner[r].statement # 1 => File(r).version \in muddled'
  BY <1>1, <1>2 DEF Half
<1>4. engine = "postgres" => muddled' = {}
  BY <1>1 DEF Half, MigrationsInv, MigrationTypes
<1> QED BY <1>1, <1>3, <1>4, EndInv

\* A runner goes on to its next file.
LEMMA NextFile ==
  ASSUME MigrationsInv, NEW r \in Runner, Pending(r),
         \/ runner[r].statement = 1 /\ runner' = [runner EXCEPT ![r].file = @ + 1]
         \/ runner' = [runner EXCEPT ![r].file = @ + 1, ![r].statement = 1]
  PROVE  /\ runner' \in [Runner -> Run] /\ \A q \in Runner \ {r} : runner'[q] = runner[q]
         /\ runner'[r].at = runner[r].at /\ runner'[r].applied = runner[r].applied
         /\ runner'[r].files = runner[r].files /\ runner'[r].statement = 1
         /\ \A n \in 1 .. runner'[r].file - 1 : n = runner[r].file \/ n \in 1 .. runner[r].file - 1
         /\ \A n \in 1 .. runner[r].file : n \in 1 .. runner'[r].file - 1
         /\ runner[r].file \in 1 .. runner[r].file
         /\ FilesOK(r)'
<1>1. /\ runner \in [Runner -> Run] /\ runner[r] \in Run
      /\ runner[r].file \in 1 .. Len(runner[r].files) /\ Len(runner[r].files) \in Nat
  BY FileTypes DEF MigrationsInv, MigrationTypes
<1>2. runner[r].file \in Nat \ {0} /\ runner[r].file + 1 \in Nat \ {0}
  BY <1>1
<1>3. \/ runner[r].statement = 1 /\ runner'[r] = [runner[r] EXCEPT !.file = runner[r].file + 1]
      \/ runner'[r] = [runner[r] EXCEPT !.file = runner[r].file + 1, !.statement = 1]
  BY <1>1
<1>4. /\ runner'[r].at = runner[r].at /\ runner'[r].applied = runner[r].applied
      /\ runner'[r].files = runner[r].files /\ runner'[r].file = runner[r].file + 1
      /\ runner'[r].statement = 1 /\ runner'[r] \in Run
  <2>1. CASE runner[r].statement = 1 /\ runner'[r] = [runner[r] EXCEPT !.file = runner[r].file + 1]
    BY <1>1, <1>2, <2>1 DEF Run
  <2>2. CASE runner'[r] = [runner[r] EXCEPT !.file = runner[r].file + 1, !.statement = 1]
    <3>1. PICK x : x = [runner[r] EXCEPT !.file = runner[r].file + 1]
      OBVIOUS
    <3>2. x \in Run
      BY <1>1, <1>2, <3>1 DEF Run
    <3>3. runner'[r] = [x EXCEPT !.statement = 1]
      BY <2>2, <3>1
    <3>4. /\ runner'[r].at = runner[r].at /\ runner'[r].applied = runner[r].applied
          /\ runner'[r].files = runner[r].files /\ runner'[r].file = runner[r].file + 1
          /\ runner'[r].statement = 1
      BY <1>1, <2>2 DEF Run
    <3>5. runner'[r] \in Run
      BY <3>2, <3>3 DEF Run
    <3> QED BY <3>4, <3>5
  <2> QED BY <1>3, <2>1, <2>2
<1>5. runner' \in [Runner -> Run] /\ \A q \in Runner \ {r} : runner'[q] = runner[q]
  BY <1>1, <1>4
<1>6. FilesOK(r)'
  <2>1. runner'[r].file <= Len(runner[r].files) + 1
    BY <1>1, <1>4
  <2> QED BY <1>4, <2>1 DEF MigrationsInv, FilesOK
<1> QED BY <1>1, <1>2, <1>4, <1>5, <1>6

\* A version that nobody works on, before or after.
LEMMA VersionStands ==
  ASSUME MigrationsInv, NEW v \in Version, muddled \subseteq muddled',
         recorded'[v] = recorded[v], object'[v] = object[v], commits'[v] = commits[v],
         \A q \in Runner : \/ ~Midway(q, v) /\ ~Midway(q, v)'
                           \/ runner'[q] = runner[q]
  PROVE  VersionOK(v)'
<1>1. VersionOK(v)
  BY DEF MigrationsInv
<1>2. CASE v \in muddled'
  BY <1>1, <1>2 DEF VersionOK
<1>3. CASE v \notin muddled'
  <2>1. Untouched(v)
    BY <1>1, <1>3 DEF VersionOK
  <2>2. \A q \in Runner : /\ Midway(q, v)' <=> Midway(q, v)
                          /\ Midway(q, v) => runner'[q] = runner[q] /\ File(q)' = File(q)
    BY RunnerStands
  <2>3. Untouched(v)'
    BY <2>1, <2>2 DEF Untouched
  <2> QED BY <1>1, <2>3 DEF VersionOK
<1> QED BY <1>2, <1>3

\* On Postgres a version is committed by who finds it not recorded, whole.
LEMMA CommitInv ==
  ASSUME MigrationsInv, NEW r \in Runner, Commit(r)
  PROVE  MigrationsInv'
<1>1. PICK v, b : v = File(r).version /\ b = File(r).body
  OBVIOUS
<1>2. /\ engine = "postgres" /\ Applying(r) /\ Pending(r) /\ runner[r].at = "apply"
      /\ UNCHANGED <<engine, muddled, lost>> /\ muddled = {}
  BY DEF Commit, Applying, At, MigrationsInv, MigrationTypes
<1>3. \A q \in Runner : runner[q].statement = 1
  BY <1>2 DEF MigrationsInv, ProgressOK
<1>4. CASE ~Insertable(v)
  BY <1>1, <1>2, <1>3, <1>4, EndInv DEF Commit, At
<1>5. CASE Insertable(v)
  <2>1. /\ recorded' = [recorded EXCEPT ![v] = b]
        /\ object' = [object EXCEPT ![v] = [i \in 1 .. Statements |-> b]]
        /\ commits' = [commits EXCEPT ![v] = @ + 1]
        /\ runner' = [runner EXCEPT ![r].file = @ + 1]
        /\ lock' = lock
    BY <1>1, <1>5 DEF Commit
  <2>2. /\ recorded \in [Version -> Nat] /\ commits \in [Version -> Nat]
        /\ object \in [Version -> [1 .. Statements -> Nat]]
        /\ v \in Version /\ b \in Nat \ {0} /\ recorded[v] = 0
    BY <1>1, <1>2, <1>5, FileTypes DEF MigrationsInv, MigrationTypes, Insertable
  <2>3. /\ runner' \in [Runner -> Run] /\ \A q \in Runner \ {r} : runner'[q] = runner[q]
        /\ runner'[r].at = runner[r].at /\ runner'[r].applied = runner[r].applied
        /\ runner'[r].files = runner[r].files /\ runner'[r].statement = 1
        /\ \A n \in 1 .. runner'[r].file - 1 : n = runner[r].file \/ n \in 1 .. runner[r].file - 1
        /\ \A n \in 1 .. runner[r].file : n \in 1 .. runner'[r].file - 1
        /\ runner[r].file \in 1 .. runner[r].file
        /\ FilesOK(r)'
    BY <1>2, <1>3, <2>1, NextFile
  <2>4. /\ \A u \in Version : recorded'[u] = IF u = v THEN b ELSE recorded[u]
        /\ \A u \in Version : commits'[u] = IF u = v THEN commits[v] + 1 ELSE commits[u]
        /\ \A u \in Version : u # v => object'[u] = object[u]
        /\ \A i \in 1 .. Statements : object'[v][i] = b
        /\ recorded' \in [Version -> Nat] /\ commits' \in [Version -> Nat]
        /\ object' \in [Version -> [1 .. Statements -> Nat]]
    BY <2>1, <2>2
  <2>5. MigrationTypes'
    BY <1>2, <2>1, <2>3, <2>4 DEF MigrationsInv, MigrationTypes
  <2>6. FilesOK(r) /\ ProgressOK(r) /\ LockOK
    BY DEF MigrationsInv
  <2>7. ProgressOK(r)'
    <3>1. \A n \in 1 .. runner'[r].file - 1 : recorded'[runner[r].files[n].version] # 0
      <4> SUFFICES ASSUME NEW n \in 1 .. runner'[r].file - 1
                   PROVE  recorded'[runner[r].files[n].version] # 0
        OBVIOUS
      <4>1. CASE n = runner[r].file
        BY <1>1, <2>2, <2>4, <4>1 DEF File
      <4>2. CASE n \in 1 .. runner[r].file - 1
        <5>1. runner[r].files[n].version \in Version
          BY <2>6, <4>2, FileTypes DEF FilesOK
        <5> QED BY <1>2, <2>2, <2>4, <2>6, <4>2, <5>1 DEF ProgressOK, At
      <4> QED BY <2>3, <4>1, <4>2
    <3>2. \A u \in Version : runner[r].applied[u] # 0 => recorded'[u] # 0
      BY <1>2, <2>2, <2>4, <2>6 DEF ProgressOK, At
    <3> QED BY <1>2, <2>3, <3>1, <3>2 DEF ProgressOK, At
  <2>8. ASSUME NEW q \in Runner
        PROVE  FilesOK(q)' /\ ProgressOK(q)'
    <3>1. CASE q = r
      BY <2>3, <2>7, <3>1
    <3>2. CASE q # r
      <4>1. \A u \in Version, i \in 1 .. Statements : object[u][i] # 0 => object'[u][i] # 0
        BY <2>2, <2>4
      <4>2. \A u \in Version : recorded[u] # 0 => recorded'[u] # 0
        BY <2>2, <2>4
      <4> QED BY <1>2, <2>3, <3>2, <4>1, <4>2, ProgressStands
    <3> QED BY <3>1, <3>2
  <2>9. LockOK'
    <3>1. ~lost => \A q \in lock : ReadAll(q)'
      <4> SUFFICES ASSUME ~lost, NEW q \in lock
                   PROVE  ReadAll(q)'
        OBVIOUS
      <4>1. q = r /\ ReadAll(r)
        BY <1>2, <2>6 DEF LockOK
      <4>2. ASSUME NEW u \in Version, recorded'[u] # 0, runner[r].applied[u] = 0
            PROVE  \E n \in 1 .. runner'[r].file - 1 : runner[r].files[n].version = u
        <5>1. CASE u = v
          BY <1>1, <2>3, <5>1 DEF File
        <5>2. CASE u # v
          <6>1. PICK n \in 1 .. runner[r].file - 1 : runner[r].files[n].version = u
            BY <1>2, <2>4, <4>1, <4>2, <5>2 DEF ReadAll, At
          <6>2. n \in 1 .. runner[r].file
            BY <6>1, FileTypes
          <6> QED BY <2>3, <6>1, <6>2
        <5> QED BY <5>1, <5>2
      <4> QED BY <2>3, <4>1, <4>2 DEF ReadAll
    <3>2. \A q \in Runner : runner'[q].at = runner[q].at
      BY <2>3
    <3>3. lock \subseteq Runner
      BY DEF MigrationsInv, MigrationTypes
    <3> QED BY <1>2, <2>1, <2>6, <3>1, <3>2, <3>3 DEF LockOK
  <2>10. ASSUME NEW u \in Version
         PROVE  VersionOK(u)'
    <3>1. \A q \in Runner : ~Midway(q, u) /\ ~Midway(q, u)'
      BY <1>3, <2>3 DEF Midway
    <3>2. CASE u # v
      BY <1>2, <2>4, <3>1, <3>2, VersionStands
    <3>3. CASE u = v
      <4>1. commits[v] = 0
        BY <2>2 DEF MigrationsInv, VersionOK
      <4> QED BY <2>2, <2>4, <3>1, <3>3, <4>1 DEF VersionOK, Untouched
    <3> QED BY <3>2, <3>3
  <2> QED BY <2>5, <2>8, <2>9, <2>10 DEF MigrationsInv
<1> QED BY <1>4, <1>5

LEMMA NoLocks ==
  ASSUME MigrationsInv, engine = "clickhouse", UNCHANGED <<engine, lock>>
  PROVE  LockOK'
<1>1. lock = {}
  BY DEF MigrationsInv, LockOK
<1> QED BY <1>1 DEF LockOK

\* On ClickHouse one statement more: of a version that nobody else works on, and
\* nobody has recorded, the object is this body's.
LEMMA ExecInv ==
  ASSUME MigrationsInv, NEW r \in Runner, Exec(r)
  PROVE  MigrationsInv'
<1>1. PICK v, i, b : v = File(r).version /\ i = runner[r].statement /\ b = File(r).body
  OBVIOUS
<1>2. /\ engine = "clickhouse" /\ Applying(r) /\ Pending(r) /\ i <= Statements
      /\ object' = [object EXCEPT ![v][i] = IF @ = 0 THEN b ELSE @]
      /\ runner' = [runner EXCEPT ![r].statement = @ + 1]
      /\ muddled' = muddled \cup IF Contended(r, v) THEN {v} ELSE {}
      /\ UNCHANGED <<engine, lock, recorded, commits, lost>>
  BY <1>1 DEF Exec, Applying
<1>3. /\ v \in Version /\ b \in Nat \ {0} /\ i \in 1 .. Statements /\ runner[r] \in Run
      /\ i \in Nat \ {0} /\ i + 1 \in Nat \ {0, 1} /\ i + 1 <= Statements + 1
      /\ runner \in [Runner -> Run] /\ object \in [Version -> [1 .. Statements -> Nat]]
      /\ FilesOK(r) /\ ProgressOK(r)
  BY <1>1, <1>2, FileTypes, MigrationsAssumption DEF MigrationsInv, MigrationTypes
<1>4. runner'[r] = [runner[r] EXCEPT !.statement = i + 1]
  BY <1>1, <1>2, <1>3
<1>5. /\ runner'[r].at = runner[r].at /\ runner'[r].applied = runner[r].applied
      /\ runner'[r].files = runner[r].files /\ runner'[r].file = runner[r].file
      /\ runner'[r].statement = i + 1 /\ runner'[r] \in Run
  BY <1>3, <1>4 DEF Run
<1>6. runner' \in [Runner -> Run] /\ \A q \in Runner \ {r} : runner'[q] = runner[q]
  BY <1>2, <1>3, <1>5
<1>7. /\ \A u \in Version : u # v => object'[u] = object[u]
      /\ \A j \in 1 .. Statements : j # i => object'[v][j] = object[v][j]
      /\ object'[v][i] = IF object[v][i] = 0 THEN b ELSE object[v][i]
      /\ object' \in [Version -> [1 .. Statements -> Nat]]
  BY <1>2, <1>3
<1>8. /\ File(r)' = File(r) /\ Applying(r)' = Applying(r) /\ FilesOK(r)'
      /\ At(r, "apply")' = At(r, "apply")
  BY <1>3, <1>5 DEF File, Applying, At, Pending, WasRead, FilesOK
<1>9. MigrationTypes'
  BY <1>2, <1>6, <1>7 DEF MigrationsInv, MigrationTypes
<1>10. \A j \in 1 .. i - 1 : j \in 1 .. Statements /\ j # i /\ object[v][j] # 0
  <2> SUFFICES ASSUME NEW j \in 1 .. i - 1
               PROVE  j \in 1 .. Statements /\ j # i /\ object[v][j] # 0
    OBVIOUS
  <2>1. j \in 1 .. Statements /\ j # i /\ i # 1
    BY <1>3, MigrationsAssumption
  <2> QED BY <1>1, <1>3, <2>1 DEF ProgressOK
<1>11. \A j \in 1 .. i + 1 - 1 : j = i \/ j \in 1 .. i - 1
  BY <1>3
<1>12. ProgressOK(r)'
  <2>1. \A j \in 1 .. i + 1 - 1 : object'[v][j] # 0
    BY <1>3, <1>7, <1>10, <1>11
  <2> QED BY <1>1, <1>2, <1>3, <1>5, <1>8, <2>1 DEF ProgressOK
<1>13. ASSUME NEW q \in Runner
       PROVE  FilesOK(q)' /\ ProgressOK(q)'
  <2>1. \A u \in Version, j \in 1 .. Statements : object[u][j] # 0 => object'[u][j] # 0
    BY <1>3, <1>7
  <2>2. CASE q # r
    BY <1>2, <1>6, <2>1, <2>2, ProgressStands
  <2> QED BY <1>8, <1>12, <2>2
<1>14. LockOK'
  BY <1>2, NoLocks
<1>15. ASSUME NEW u \in Version
       PROVE  VersionOK(u)'
  <2>1. CASE u # v
    <3>1. ~Midway(r, u) /\ ~Midway(r, u)'
      BY <1>1, <1>8, <2>1 DEF Midway
    <3> QED BY <1>2, <1>6, <1>7, <2>1, <3>1, VersionStands
  <2>2. CASE u = v
    <3>1. VersionOK(v)
      BY <1>3 DEF MigrationsInv
    <3>2. recorded[v] # 0 => \A j \in 1 .. Statements : object'[v][j] # 0
      BY <1>3, <1>7, <3>1 DEF VersionOK
    <3>3. ASSUME v \notin muddled'
          PROVE  Untouched(v)'
      <4>1. Untouched(v) /\ recorded[v] = 0
        BY <1>2, <3>1, <3>3 DEF VersionOK, Contended
      <4>2. \A q \in Runner \ {r} : ~Midway(q, v) /\ ~Midway(q, v)'
        <5>1. \A q \in Runner \ {r} : ~Midway(q, v)
          BY <1>2, <3>3 DEF Contended, Midway
        <5> QED BY <1>6, <5>1, RunnerStands
      <4>3. \A j \in 1 .. i - 1 : object[v][j] = b
        <5> SUFFICES ASSUME NEW j \in 1 .. i - 1
                     PROVE  object[v][j] = b
          OBVIOUS
        <5>1. i # 1
          BY <1>3
        <5>2. Midway(r, v)
          BY <1>1, <1>2, <5>1 DEF Midway
        <5> QED BY <1>1, <4>1, <5>2 DEF Untouched
      <4>4. object[v][i] = 0
        <5> SUFFICES ASSUME object[v][i] # 0
                     PROVE  FALSE
          OBVIOUS
        <5>1. PICK q \in Runner : Midway(q, v) /\ i < runner[q].statement
          BY <1>3, <4>1 DEF Untouched
        <5>2. q = r
          BY <4>2, <5>1
        <5> QED BY <1>1, <1>3, <5>1, <5>2
      <4>5. \A j \in 1 .. i + 1 - 1 : object'[v][j] = b
        BY <1>7, <1>10, <1>11, <4>3, <4>4
      <4>6. Midway(r, v)'
        BY <1>1, <1>2, <1>3, <1>5, <1>8 DEF Midway
      <4>7. ASSUME NEW j \in 1 .. Statements, object'[v][j] # 0
            PROVE  j < i + 1
        <5>1. CASE j = i
          BY <1>3, <5>1
        <5>2. CASE j # i
          <6>1. PICK q \in Runner : Midway(q, v) /\ j < runner[q].statement
            BY <1>7, <4>1, <4>7, <5>2 DEF Untouched
          <6>2. q = r
            BY <4>2, <6>1
          <6> QED BY <1>1, <1>3, <6>1, <6>2
        <5> QED BY <5>1, <5>2
      <4>8. /\ File(r)' = File(r) /\ runner'[r].statement = i + 1 /\ recorded'[v] = 0
            /\ File(r).body = b
        BY <1>1, <1>2, <1>5, <1>8, <4>1
      <4>9. ASSUME NEW q \in Runner, Midway(q, v)'
            PROVE  /\ \A j \in 1 .. runner'[q].statement - 1 : object'[v][j] = File(q)'.body
                   /\ \A p \in Runner : Midway(p, v)' => p = q
        <5>1. q = r
          BY <4>2, <4>9
        <5>2. File(q)'.body = b
          BY <4>8, <5>1
        <5>3. \A j \in 1 .. runner'[q].statement - 1 : object'[v][j] = b
          <6>1. runner'[q].statement = i + 1
            BY <4>8, <5>1
          <6> QED BY <1>3, <4>5, <6>1
        <5>4. \A p \in Runner : Midway(p, v)' => p = q
          BY <4>2, <5>1
        <5> QED BY <5>2, <5>3, <5>4
      <4>10. \A j \in 1 .. Statements : object'[v][j] # 0 => j < runner'[r].statement
        BY <4>7, <4>8
      <4> QED BY <4>6, <4>8, <4>9, <4>10 DEF Untouched
    <3> QED BY <1>2, <2>2, <3>1, <3>2, <3>3 DEF VersionOK
  <2> QED BY <2>1, <2>2
<1> QED BY <1>9, <1>13, <1>14, <1>15 DEF MigrationsInv

\* ... and when its statements have run, the version is recorded.
LEMMA RecordInv ==
  ASSUME MigrationsInv, NEW r \in Runner, Record(r)
  PROVE  MigrationsInv'
<1>1. PICK v, b : v = File(r).version /\ b = File(r).body
  OBVIOUS
<1>2. /\ engine = "clickhouse" /\ Applying(r) /\ Pending(r) /\ runner[r].at = "apply"
      /\ runner[r].statement > Statements
      /\ recorded' = [recorded EXCEPT ![v] = b]
      /\ runner' = [runner EXCEPT ![r].file = @ + 1, ![r].statement = 1]
      /\ UNCHANGED <<engine, lock, object, commits, muddled, lost>>
  BY <1>1 DEF Record, Applying, At
<1>3. /\ v \in Version /\ b \in Nat \ {0} /\ recorded \in [Version -> Nat]
      /\ runner[r].statement \in Nat \ {0} /\ FilesOK(r) /\ ProgressOK(r)
  BY <1>1, <1>2, FileTypes DEF MigrationsInv, MigrationTypes
<1>4. /\ runner' \in [Runner -> Run] /\ \A q \in Runner \ {r} : runner'[q] = runner[q]
      /\ runner'[r].at = runner[r].at /\ runner'[r].applied = runner[r].applied
      /\ runner'[r].files = runner[r].files /\ runner'[r].statement = 1
      /\ \A n \in 1 .. runner'[r].file - 1 : n = runner[r].file \/ n \in 1 .. runner[r].file - 1
      /\ FilesOK(r)'
  BY <1>2, NextFile
<1>5. /\ \A u \in Version : recorded'[u] = IF u = v THEN b ELSE recorded[u]
      /\ recorded' \in [Version -> Nat]
  BY <1>2, <1>3
<1>6. /\ Midway(r, v)
      /\ \A i \in 1 .. Statements : i \in 1 .. runner[r].statement - 1
  <2>1. runner[r].statement # 1 /\ \A i \in 1 .. Statements : i \in 1 .. runner[r].statement - 1
    BY <1>2, <1>3, MigrationsAssumption
  <2> QED BY <1>1, <1>2, <2>1 DEF Midway
<1>7. MigrationTypes'
  BY <1>2, <1>4, <1>5 DEF MigrationsInv, MigrationTypes
<1>8. ProgressOK(r)'
  <2>1. \A n \in 1 .. runner'[r].file - 1 : recorded'[runner[r].files[n].version] # 0
    <3> SUFFICES ASSUME NEW n \in 1 .. runner'[r].file - 1
                 PROVE  recorded'[runner[r].files[n].version] # 0
      OBVIOUS
    <3>1. CASE n = runner[r].file
      BY <1>1, <1>3, <1>5, <3>1 DEF File
    <3>2. CASE n \in 1 .. runner[r].file - 1
      <4>1. runner[r].files[n].version \in Version
        BY <1>3, <3>2, FileTypes DEF FilesOK
      <4> QED BY <1>2, <1>3, <1>5, <3>2, <4>1 DEF ProgressOK, At
    <3> QED BY <1>4, <3>1, <3>2
  <2>2. \A u \in Version : runner[r].applied[u] # 0 => recorded'[u] # 0
    BY <1>2, <1>3, <1>5 DEF ProgressOK, At
  <2> QED BY <1>2, <1>4, <2>1, <2>2 DEF ProgressOK, At
<1>9. ASSUME NEW q \in Runner
      PROVE  FilesOK(q)' /\ ProgressOK(q)'
  <2>1. \A u \in Version : recorded[u] # 0 => recorded'[u] # 0
    BY <1>3, <1>5
  <2>2. CASE q # r
    BY <1>2, <1>4, <2>1, <2>2, ProgressStands
  <2> QED BY <1>4, <1>8, <2>2
<1>10. LockOK'
  BY <1>2, NoLocks
<1>11. ASSUME NEW u \in Version
       PROVE  VersionOK(u)'
  <2>1. ~Midway(r, u)'
    BY <1>4 DEF Midway
  <2>2. CASE u # v
    <3>1. ~Midway(r, u)
      BY <1>1, <2>2 DEF Midway
    <3> QED BY <1>2, <1>4, <1>5, <2>1, <2>2, <3>1, VersionStands
  <2>3. CASE u = v
    <3>1. VersionOK(v)
      BY <1>3 DEF MigrationsInv
    <3>2. \A i \in 1 .. Statements : object[v][i] # 0
      BY <1>1, <1>3, <1>6 DEF ProgressOK, Midway
    <3>3. ASSUME v \notin muddled
          PROVE  Untouched(v)'
      <4>1. Untouched(v)
        BY <3>1, <3>3 DEF VersionOK
      <4>2. \A q \in Runner \ {r} : ~Midway(q, v)'
        <5>1. \A q \in Runner \ {r} : ~Midway(q, v)
          BY <1>6, <4>1 DEF Untouched
        <5> QED BY <1>4, <5>1, RunnerStands
      <4>3. \A i \in 1 .. Statements : object[v][i] = b
        BY <1>1, <1>6, <4>1 DEF Untouched
      <4> QED BY <1>2, <1>3, <1>5, <2>1, <2>3, <4>2, <4>3 DEF Untouched
    <3> QED BY <1>2, <1>3, <1>5, <2>3, <3>1, <3>2, <3>3 DEF VersionOK
  <2> QED BY <2>2, <2>3
<1> QED BY <1>7, <1>9, <1>10, <1>11 DEF MigrationsInv

THEOREM MigrationsInvariant == MigrationsSpec => []MigrationsInv
<1>1. MigrationsInit => MigrationsInv
  <2> SUFFICES ASSUME MigrationsInit
               PROVE  MigrationsInv
    OBVIOUS
  <2>1. /\ NoRun \in Run /\ NoRun.at = "idle" /\ NoRun.files = <<>> /\ NoRun.file = 1
        /\ NoRun.statement = 1
    BY DEF NoRun, Run
  <2>2. \A r \in Runner : runner[r] = NoRun
    BY DEF MigrationsInit
  <2>3. MigrationTypes
    BY <2>1 DEF MigrationsInit, MigrationTypes
  <2>4. \A r \in Runner : FilesOK(r) /\ ProgressOK(r)
    BY <2>1, <2>2 DEF FilesOK, ProgressOK, At
  <2>5. LockOK
    BY <2>1, <2>2 DEF MigrationsInit, LockOK
  <2>6. \A r \in Runner, v \in Version : ~Midway(r, v)
    BY <2>1, <2>2 DEF Midway
  <2>7. \A v \in Version : VersionOK(v)
    BY <2>6 DEF MigrationsInit, VersionOK, Untouched
  <2> QED BY <2>3, <2>4, <2>5, <2>7 DEF MigrationsInv
<1>2. MigrationsInv /\ [MigrationsNext]_migrationVars => MigrationsInv'
  <2> SUFFICES ASSUME MigrationsInv, [MigrationsNext]_migrationVars
               PROVE  MigrationsInv'
    OBVIOUS
  <2>1. CASE UNCHANGED migrationVars
    BY <2>1, MigrationsStutter DEF migrationVars
  <2>2. CASE MigrationsNext
    BY <2>2, StartInv, LockInv, LoseLockInv, ReadAppliedInv, CompareInv, CommitInv, ExecInv,
       RecordInv, FinishInv, BreakInv DEF MigrationsNext
  <2> QED BY <2>1, <2>2
<1> QED BY <1>1, <1>2, PTL DEF MigrationsSpec

\* Migrations are applied in order and, on Postgres, once, though sessions are lost
\* and runners overlap (migrate.go:3-6, postgres.go).
THEOREM MigrationsAppliedOnce == MigrationsSpec => []AppliedOnceInOrder
<1>1. MigrationsInv => AppliedOnceInOrder
  <2> SUFFICES ASSUME MigrationsInv
               PROVE  AppliedOnceInOrder
    OBVIOUS
  <2>1. ASSUME NEW r \in Runner, Applying(r), NEW n \in 1 .. runner[r].file - 1
        PROVE  recorded[runner[r].files[n].version] # 0
    BY <2>1 DEF MigrationsInv, ProgressOK, Applying
  <2>2. ASSUME ~lost, NEW r \in lock, Applying(r)
        PROVE  Insertable(File(r).version)
    <3>1. /\ r \in Runner /\ FilesOK(r) /\ ReadAll(r) /\ At(r, "apply") /\ Pending(r)
          /\ runner[r].applied[File(r).version] = 0
      BY <2>2 DEF MigrationsInv, MigrationTypes, LockOK, Applying, WasRead
    <3>2. /\ File(r).version \in Version /\ File(r).version \in Nat
          /\ runner[r].file \in 1 .. Len(runner[r].files) /\ Len(runner[r].files) \in Nat
      BY <3>1, FileTypes, MigrationsAssumption
    <3>3. \A n \in 1 .. runner[r].file - 1 : runner[r].files[n].version # File(r).version
      <4> SUFFICES ASSUME NEW n \in 1 .. runner[r].file - 1
                   PROVE  runner[r].files[n].version # File(r).version
        OBVIOUS
      <4>1. n \in 1 .. Len(runner[r].files) /\ n < runner[r].file
        BY <3>2
      <4>2. runner[r].files[n].version < runner[r].files[runner[r].file].version
        BY <3>1, <3>2, <4>1 DEF FilesOK
      <4>3. runner[r].files[n].version \in Nat
        BY <3>1, <4>1, MigrationsAssumption DEF FilesOK
      <4> QED BY <3>2, <4>2, <4>3 DEF File
    <3> QED BY <3>1, <3>2, <3>3 DEF ReadAll, Insertable
  <2> QED BY <2>1, <2>2 DEF MigrationsInv, VersionOK, AppliedOnceInOrder
<1> QED BY <1>1, MigrationsInvariant, PTL

\* What is recorded is what the schema holds, but for versions of ClickHouse that
\* were half applied or applied twice at once (clickhouse.go:15-19).
THEOREM RecordedMigrationsAreWhole == MigrationsSpec => []RecordedIsWhole
<1>1. MigrationsInv => RecordedIsWhole
  <2> SUFFICES ASSUME MigrationsInv, NEW v \in Version, recorded[v] # 0, NEW i \in 1 .. Statements
               PROVE  /\ object[v][i] # 0
                      /\ object[v][i] # recorded[v] => engine = "clickhouse" /\ v \in muddled
    BY DEF RecordedIsWhole
  <2>1. VersionOK(v)
    BY DEF MigrationsInv
  <2>2. engine \in Engine /\ (engine = "postgres" => muddled = {})
    BY DEF MigrationsInv, MigrationTypes
  <2> QED BY <2>1, <2>2 DEF VersionOK, Untouched, Engine
<1> QED BY <1>1, MigrationsInvariant, PTL
=============================================================================
