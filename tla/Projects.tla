----------------------------- MODULE Projects -----------------------------
(***************************************************************************)
(* Projects and their ingest keys: the handlers of                         *)
(* internal/api/project_handlers.go over the tables projects and           *)
(* ingest_keys, and the purge of a deleted project's events, which         *)
(* ClickHouse carries out when it gets to it.                              *)
(*                                                                         *)
(* A handler is a few statements with nothing around them; a slot keeps a  *)
(* handler between two of its statements.  Names, platforms, labels and    *)
(* DSNs are left out, and so is authorizeProject, which finds a project    *)
(* unless it was deleted.                                                  *)
(***************************************************************************)
EXTENDS Naturals, FiniteSets, Sequences

CONSTANTS
  Project,
  Key,
  Admin,       \* handlers that may run at once
  Signal       \* the kinds of job that are in the model

ASSUME ProjectsAssumption ==
  /\ IsFiniteSet(Key)
  /\ Signal \subseteq {"error", "log", "span", "metric"}

NoProject == "no project"
NoKey     == "no key"

VARIABLES
  project,   \* per project: "absent", "live" or "deleted"
  key,       \* per key: whose it is, and "unminted", "live", "revoked", "deleted"
  admin,     \* per slot: the handler between two statements
  jobs,      \* published jobs not stored yet: project, signal, upserted
  rows,      \* per project: the event tables with rows of it that came before any
             \* mutation of theirs
  late,      \* <<project, table>> with rows that came after the mutation, which leaves them
  submitted, \* <<project, table>> whose mutation was submitted
  pending,   \* the submitted mutations that have not been carried out
  excused,   \* history: projects whose first key failed, or with two revocations at once
  purged     \* history: projects whose purge went through

tableVars   == <<rows, late, submitted, pending>>
projectVars == <<project, key, admin, jobs, tableVars, excused, purged>>

Idle == [op |-> "idle", project |-> NoProject, key |-> NoKey, next |-> 0]

LiveKeys(p) == {k \in Key : key[k] = [project |-> p, state |-> "live"]}
Busy(a, op, p, k, next) ==
  admin' = [admin EXCEPT ![a] = [op |-> op, project |-> p, key |-> k, next |-> next]]
Done(a) == admin' = [admin EXCEPT ![a] = Idle]

ProjectsInit ==
  /\ project = [p \in Project |-> "absent"]
  /\ key = [k \in Key |-> [project |-> NoProject, state |-> "unminted"]]
  /\ admin = [a \in Admin |-> Idle]
  /\ jobs = {}
  /\ rows = [p \in Project |-> {}]
  /\ late = {} /\ submitted = {} /\ pending = {}
  /\ excused = {}
  /\ purged = {}

----------------------------------------------------------------------------
(***************************************************************************)
(* Projects and keys.                                                      *)
(***************************************************************************)
Mint(k, p) == key' = [key EXCEPT ![k] = [project |-> p, state |-> "live"]]

\* handleCreateProject: the project, then its first key.
CreateProject(a, p) ==
  /\ admin[a] = Idle
  /\ project[p] = "absent"
  /\ project' = [project EXCEPT ![p] = "live"]
  /\ Busy(a, "mint", p, NoKey, 0)
  /\ UNCHANGED <<key, jobs, tableVars, excused, purged>>

MintFirstKey(a, k) ==
  /\ admin[a].op = "mint"
  /\ key[k].state = "unminted"
  /\ project[admin[a].project] = "live"
  /\ Mint(k, admin[a].project)
  /\ Done(a)
  /\ UNCHANGED <<project, jobs, tableVars, excused, purged>>

\* The insert fails, or the process dies; the project stays, and the caller is
\* told of an error.
MintFails(a) ==
  /\ admin[a].op = "mint"
  /\ excused' = excused \cup {admin[a].project}
  /\ Done(a)
  /\ UNCHANGED <<project, key, jobs, tableVars, purged>>

CreateKey(p, k) ==
  /\ project[p] = "live"
  /\ key[k].state = "unminted"
  /\ Mint(k, p)
  /\ UNCHANGED <<project, admin, jobs, tableVars, excused, purged>>

Revoking(p) == {a \in Admin : admin[a].op = "revoke" /\ admin[a].project = p}

\* Mutant: the last key may go.
MayRevokeLast(p) == Cardinality(LiveKeys(p)) >= 1

\* handleRevokeKey: a count of the live keys, and a conditional update.
MayRevoke(p) == Cardinality(LiveKeys(p)) > 1

CountKeys(a, p, k) ==
  /\ admin[a] = Idle
  /\ project[p] = "live"
  /\ MayRevoke(p)
  /\ Busy(a, "revoke", p, k, 0)
  /\ excused' = IF Revoking(p) # {} THEN excused \cup {p} ELSE excused
  /\ UNCHANGED <<project, key, jobs, tableVars, purged>>

Revoke(a) ==
  /\ admin[a].op = "revoke"
  /\ key' = IF admin[a].key \in LiveKeys(admin[a].project)
            THEN [key EXCEPT ![admin[a].key].state = "revoked"] ELSE key
  /\ Done(a)
  /\ UNCHANGED <<project, jobs, tableVars, excused, purged>>

----------------------------------------------------------------------------
(***************************************************************************)
(* Deletion, and the event tables.                                         *)
(***************************************************************************)
\* Mutant: a table is forgotten.
purgeMostTables == <<"errors", "logs", "spans", "metrics_raw", "metrics_1m">>

purgeTables == <<"errors", "logs", "spans", "metrics_raw", "metrics_1m", "metrics_1h">>

\* A row of a signal's table and what the materialized views make of it.
TablesOf(signal) ==
  CASE signal = "error"  -> {"errors", "issue_stats_1h"}
    [] signal = "log"    -> {"logs"}
    [] signal = "span"   -> {"spans"}
    [] signal = "metric" -> {"metrics_raw", "metrics_1m", "metrics_1h"}

\* handleDeleteProject: one DELETE, which cascades to the keys, then the purge.
DeleteProject(a, p) ==
  /\ admin[a] = Idle
  /\ project[p] = "live"
  /\ project' = [project EXCEPT ![p] = "deleted"]
  /\ key' = [k \in Key |-> IF key[k].project = p
                           THEN [key[k] EXCEPT !.state = "deleted"] ELSE key[k]]
  /\ Busy(a, "purge", p, NoKey, 1)
  /\ UNCHANGED <<jobs, tableVars, excused, purged>>

\* PurgeProject, one table: ALTER TABLE ... DELETE submits a mutation.
PurgeTable(a) ==
  LET p == admin[a].project  mutation == <<p, purgeTables[admin[a].next]>>  IN
  /\ admin[a].op = "purge"
  /\ submitted' = submitted \cup {mutation}
  /\ pending' = pending \cup {mutation}
  /\ IF admin[a].next < Len(purgeTables)
     THEN Busy(a, "purge", p, NoKey, admin[a].next + 1) /\ UNCHANGED purged
     ELSE Done(a) /\ purged' = purged \cup {p}
  /\ UNCHANGED <<project, key, jobs, rows, late, excused>>

\* The first table that fails ends the purge; the request succeeds all the same.
PurgeFails(a) ==
  /\ admin[a].op = "purge"
  /\ Done(a)
  /\ UNCHANGED <<project, key, jobs, tableVars, excused, purged>>

\* In the background ClickHouse carries out a mutation, on the rows that were
\* there when it was submitted.
Mutate(p, table) ==
  /\ <<p, table>> \in pending
  /\ pending' = pending \ {<<p, table>>}
  /\ rows' = [rows EXCEPT ![p] = @ \ {table}]
  /\ UNCHANGED <<project, key, admin, jobs, late, submitted, excused, purged>>

\* What the gateway and a processor do with a project's job: it is published
\* under a key that is live, or was when the gateway cached it; an error's issue is
\* upserted, which needs the project's row; then its rows are inserted.
Submit(p, signal) ==
  /\ project[p] # "absent"
  /\ jobs' = jobs \cup {[project |-> p, signal |-> signal, upserted |-> signal # "error"]}
  /\ UNCHANGED <<project, key, admin, tableVars, excused, purged>>

UpsertJob(job) ==
  /\ ~job.upserted
  /\ project[job.project] = "live"
  /\ jobs' = (jobs \ {job}) \cup {[job EXCEPT !.upserted = TRUE]}
  /\ UNCHANGED <<project, key, admin, tableVars, excused, purged>>

InsertJob(job) ==
  LET p == job.project  tables == TablesOf(job.signal)  IN
  /\ job.upserted
  /\ jobs' = jobs \ {job}
  /\ rows' = [rows EXCEPT ![p] = @ \cup {table \in tables : <<p, table>> \notin submitted}]
  /\ late' = late \cup (submitted \cap ({p} \X tables))
  /\ UNCHANGED <<project, key, admin, submitted, pending, excused, purged>>

KeysNext ==
  \/ \E a \in Admin, p \in Project : CreateProject(a, p)
  \/ \E a \in Admin, k \in Key : MintFirstKey(a, k)
  \/ \E a \in Admin : MintFails(a) \/ Revoke(a)
  \/ \E p \in Project, k \in Key : CreateKey(p, k)
  \/ \E a \in Admin, p \in Project, k \in Key : CountKeys(a, p, k)

DeletionNext ==
  \/ \E a \in Admin, p \in Project : DeleteProject(a, p)
  \/ \E a \in Admin : PurgeTable(a) \/ PurgeFails(a)
  \/ \E mutation \in pending : Mutate(mutation[1], mutation[2])
  \/ \E p \in Project, signal \in Signal : Submit(p, signal)
  \/ \E job \in jobs : UpsertJob(job) \/ InsertJob(job)

ProjectsNext == KeysNext \/ DeletionNext

ProjectsSpec == ProjectsInit /\ [][ProjectsNext]_projectVars

----------------------------------------------------------------------------
(***************************************************************************)
(* Properties.                                                             *)
(***************************************************************************)
\* A project has a key, or is about to get its first one, unless that failed or
\* two revocations were under way at once (project_handlers.go:61, 193-204).
KeylessIsExplained ==
  \A p \in Project :
    project[p] = "live" /\ LiveKeys(p) = {} =>
      p \in excused \/ \E a \in Admin : admin[a].op = "mint" /\ admin[a].project = p

\* After a purge that went through, what is left of the project in the tables it
\* names is what their mutations have still to remove and what was inserted after
\* they were submitted, by a worker that had a job of the project in its hands
\* (project_handlers.go:240, clickhouse/project.go:12-15).
PurgeLeavesOnlyLateRows ==
  \A p \in purged : \A table \in rows[p] :
    table = "issue_stats_1h" \/ <<p, table>> \in pending

\* The tables purged are "every event-plane table keyed by project_id -- everything
\* a deleted project's data lives in" (clickhouse/project.go:8-9): where no row came
\* late, and the mutations of the tables with rows are done, no row is left.  The
\* hourly statistics are keyed by project_id too.
PurgeIsComplete ==
  \A p \in purged :
    (\A table \in rows[p] : <<p, table>> \notin pending) /\ (\A mutation \in late : mutation[1] # p)
      => rows[p] = {}
=============================================================================
