------------------------------- MODULE Lists -------------------------------
(***************************************************************************)
(* The dashboard's lists, read a page at a time, and the live tail of the  *)
(* logs, while rows arrive and change: the queries of                      *)
(* internal/store/clickhouse (logs, events, segments) and of               *)
(* internal/store/postgres (issues) with the cursors their handlers make.  *)
(*                                                                         *)
(* A row is its place in the order: the value it is sorted by, and what    *)
(* breaks ties.  Filters are whether it matches.  A behaviour is one       *)
(* client that reads one list to its end, or holds one tail open.  The     *)
(* drivers are taken to bind and return times at full precision.           *)
(***************************************************************************)
EXTENDS Integers, FiniteSets

CONSTANTS
  Row,         \* rows, ordered like their ids: event_id or issues.id
  Time,        \* a set of naturals: timestamps, last_seen, counts
  TraceOf,     \* the trace of a row that is a segment
  PageSizes,   \* the limits clients ask for, after min and max
  Window,      \* the hour a tail's query reaches beyond its opening
  MaxChanges   \* bound of the model

ASSUME ListsAssumption ==
  /\ Row \subseteq Nat /\ IsFiniteSet(Row)
  /\ Time \subseteq Nat
  /\ \E t \in Time : \A u \in Time : u <= t
  /\ \A r \in Row : TraceOf[r] \in Nat
  /\ PageSizes \subseteq Nat \ {0}
  /\ Window \in Nat

List == {"logs", "events", "segments", "issues", "tail"}

VARIABLES
  list,      \* which list is read; it never changes
  entry,     \* per row: there or not, matching or not, the value it is sorted by
  cursor,    \* the place the next page starts after; for a tail, its newest time
  opened,    \* the time at which the tail was opened
  reading,   \* "new", "open" or "done"
  shown,     \* per row: how often the client was given it
  had,       \* history: rows that matched when the reading began
  disturbed, \* history: rows that changed since then, or arrived behind the tail
  cuts       \* history: places at which a full page ended

listVars == <<list, entry, cursor, opened, reading, shown, had, disturbed, cuts>>

Absent == [there |-> FALSE, matches |-> FALSE, value |-> 0]

\* Mutant: nothing breaks ties.
NoTie(r) == 0

\* The tiebreaker in ORDER BY and in the cursor: none for logs, the trace for
\* segments, the row's own id for events and issues.
Tie(r) == CASE list \in {"logs", "tail"}     -> 0
            [] list = "segments"             -> TraceOf[r]
            [] list \in {"events", "issues"} -> r

Place(r)     == <<entry[r].value, Tie(r)>>
Below(p, q)  == p[1] < q[1] \/ (p[1] = q[1] /\ p[2] < q[2])
Matching     == {r \in Row : entry[r].there /\ entry[r].matches}
Top          == <<1 + CHOOSE t \in Time : \A u \in Time : u <= t, 0>>

ListsInit ==
  /\ list \in List
  /\ entry = [r \in Row |-> Absent]
  /\ cursor = Top
  /\ opened = 0
  /\ reading = "new"
  /\ shown = [r \in Row |-> 0]
  /\ had = {} /\ disturbed = {} /\ cuts = {}

----------------------------------------------------------------------------
(***************************************************************************)
(* The writers.                                                            *)
(***************************************************************************)
Change(r) ==
  /\ Cardinality(disturbed) < MaxChanges \/ reading = "new"
  /\ disturbed' = IF reading = "new" THEN {} ELSE disturbed \cup {r}
  /\ UNCHANGED <<list, cursor, opened, reading, shown, had, cuts>>

\* A row is inserted, with the time its client gave it; on a tail it may be behind.
Arrive(r, t) ==
  /\ ~entry[r].there
  /\ entry' = [entry EXCEPT ![r] = [there |-> TRUE, matches |-> TRUE, value |-> t]]
  /\ IF list = "tail" /\ reading = "open"
     THEN /\ disturbed' = IF t <= cursor[1] THEN disturbed \cup {r} ELSE disturbed
          /\ UNCHANGED <<list, cursor, opened, reading, shown, had, cuts>>
     ELSE Change(r)

\* Another occurrence of an issue: last_seen and times_seen only grow, first_seen
\* stays as it was.
Occur(r, t) ==
  /\ list = "issues"
  /\ entry[r].there /\ t > entry[r].value
  /\ entry' = [entry EXCEPT ![r].value = t]
  /\ Change(r)

\* A row begins or ceases to match: an issue is triaged, or a row falls out of the
\* time range, which each request counts back from its own now.
Rematch(r) ==
  /\ entry[r].there
  /\ list # "tail"
  /\ list = "issues" \/ entry[r].matches
  /\ entry' = [entry EXCEPT ![r].matches = ~@]
  /\ Change(r)

----------------------------------------------------------------------------
(***************************************************************************)
(* A page: SearchLogs, SearchEvents, SearchSegments, ListIssues.           *)
(***************************************************************************)
Begin ==
  /\ list # "tail"
  /\ reading = "new"
  /\ reading' = "open"
  /\ had' = Matching
  /\ UNCHANGED <<list, entry, cursor, opened, shown, disturbed, cuts>>

\* Mutant: the cursor's own row is read again.
BeyondOrAt(r) == ~Below(cursor, Place(r))

Beyond(r) == Below(Place(r), cursor)

\* What a LIMIT of n may return of the candidates, in the order precedes (a set
\* of pairs): rows that none left out precedes; ties come in any order.
FirstRows(candidates, n, precedes) ==
  {page \in SUBSET candidates :
     /\ Cardinality(page) = IF Cardinality(candidates) < n THEN Cardinality(candidates) ELSE n
     /\ \A r \in candidates \ page, s \in page : <<r, s>> \notin precedes}

\* One row more than n is asked for, to learn whether there is another page; the
\* cursor is the place of the last row given.
FetchPage(n) ==
  LET candidates == {r \in Matching : Beyond(r)}
      hasMore    == Cardinality(candidates) > n
      downward   == {rs \in Row \X Row : Below(Place(rs[2]), Place(rs[1]))}
  IN
  /\ list # "tail" /\ reading = "open"
  /\ \E page \in FirstRows(candidates, n, downward) :
       /\ shown' = [r \in Row |-> shown[r] + IF r \in page THEN 1 ELSE 0]
       /\ IF hasMore
          THEN \E last \in page :
                 /\ \A r \in page : ~Below(Place(r), Place(last))
                 /\ cursor' = Place(last)
                 /\ cuts' = cuts \cup {Place(last)}
                 /\ UNCHANGED reading
          ELSE reading' = "done" /\ UNCHANGED <<cursor, cuts>>
  /\ UNCHANGED <<list, entry, opened, had, disturbed>>

----------------------------------------------------------------------------
(***************************************************************************)
(* The live tail: handleTailLogs polls TailLogs for what is newer than the *)
(* newest row it sent.  The query's own range was fixed at the opening.    *)
(***************************************************************************)
Open(now) ==
  /\ list = "tail" /\ reading = "new"
  /\ reading' = "open"
  /\ opened' = now
  /\ cursor' = <<now, 0>>
  /\ UNCHANGED <<list, entry, shown, had, disturbed, cuts>>

Newer(r) == entry[r].value > cursor[1] /\ entry[r].value < opened + Window

\* Mutant: the latest rows first, as everywhere else.
Later(r, s) == entry[r].value > entry[s].value

\* TailLogs' order.
Earlier(r, s) == entry[r].value < entry[s].value

Poll(n) ==
  LET candidates == {r \in Matching : Newer(r)}
      upward     == {rs \in Row \X Row : Earlier(rs[1], rs[2])}
  IN
  /\ list = "tail" /\ reading = "open"
  /\ candidates # {}
  /\ \E page \in FirstRows(candidates, n, upward) :
       /\ shown' = [r \in Row |-> shown[r] + IF r \in page THEN 1 ELSE 0]
       /\ \E newest \in page :
            /\ \A r \in page : entry[r].value <= entry[newest].value
            /\ cursor' = <<entry[newest].value, 0>>
            /\ cuts' = IF page = candidates THEN cuts ELSE cuts \cup {cursor'}
  /\ UNCHANGED <<list, entry, opened, reading, had, disturbed>>

\* The tab is closed; a poll that fails leaves everything as it was.
Close ==
  /\ list = "tail" /\ reading = "open"
  /\ reading' = "done"
  /\ UNCHANGED <<list, entry, cursor, opened, shown, had, disturbed, cuts>>

ListsNext ==
  \/ \E r \in Row, t \in Time : Arrive(r, t) \/ Occur(r, t)
  \/ \E r \in Row : Rematch(r)
  \/ Begin
  \/ \E n \in PageSizes : FetchPage(n) \/ Poll(n)
  \/ \E t \in Time : Open(t - 1)
  \/ Close

ListsSpec == ListsInit /\ [][ListsNext]_listVars

----------------------------------------------------------------------------
(***************************************************************************)
(* Properties.                                                             *)
(***************************************************************************)
\* No row is given twice, whatever arrives or moves between two pages or polls.
ShownOnce == \A r \in Row : shown[r] <= 1

\* A client that reads to the end has been given every row that matched when it
\* began (issue_queries.go:103-104, queries.go:190-193), but for rows that changed
\* meanwhile, and, where the cursor does not tell ties apart, rows tied with the
\* last one of a page: logs of one timestamp, and segments of one trace and
\* timestamp, which spans.go does not expect (see the next property).
NothingSkipped ==
  list # "tail" /\ reading = "done" =>
    \A r \in had \ disturbed : shown[r] = 0 =>
      list \in {"logs", "segments"} /\ Place(r) \in cuts

\* "trace_id is unique per segment row -- so paging is stable across microsecond
\* ties" (spans.go:175-176): no segment that is there all the time is skipped.  But
\* each service has a segment in a trace (0003_spans.sql:15-17), and trace ids that
\* do not parse are all zero (normalize_span.go:48).
SegmentsAreNotSkipped ==
  list = "segments" /\ reading = "done" => \A r \in had \ disturbed : shown[r] > 0

\* A tail has sent what came after its opening, up to its cursor, but for rows that
\* arrived behind the cursor and rows tied with the last one of a full poll; and it
\* sends nothing from an hour after its opening (log_handlers.go:124-129, 151-184).
TailSendsWhatIsNew ==
  list = "tail" /\ reading # "new" =>
    \A r \in Row :
      LET t == entry[r].value  IN
      /\ shown[r] > 0 => opened < t /\ t < opened + Window
      /\ entry[r].there /\ shown[r] = 0 /\ opened < t /\ t <= cursor[1]
           => r \in disturbed \/ <<t, 0>> \in cuts
=============================================================================
