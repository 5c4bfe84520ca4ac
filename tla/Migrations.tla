----------------------------- MODULE Migrations -----------------------------
(***************************************************************************)
(* internal/migrate: runners that bring one database up to the files they  *)
(* were built with.                                                        *)
(*                                                                         *)
(* On Postgres a file and its record are one transaction, under an         *)
(* advisory lock that belongs to a session; on ClickHouse the statements   *)
(* go one by one, the record after them, and there is no lock.  A          *)
(* migration is its version and its body, which stands for the text and    *)
(* the checksum; statement i of a body creates the version's i-th object   *)
(* IF NOT EXISTS, and what it creates is that body's.                      *)
(***************************************************************************)
EXTENDS Integers, Sequences, FiniteSets

CONSTANTS
  Runner,
  Version,       \* a set of naturals; files are applied in their order
  Statements,    \* statements per file
  Directories,   \* the migration directories of the builds: sets of entries
  MaxRuns        \* bound of the model

ASSUME MigrationsAssumption ==
  /\ Version \subseteq Nat /\ Statements \in Nat \ {0}
  /\ \A directory \in Directories :
       /\ IsFiniteSet(directory)
       /\ \A e \in directory : e.kind = "file" => e.version \in Version /\ e.body \in Nat

Engine == {"postgres", "clickhouse"}

VARIABLES
  engine,     \* which database this is; it never changes
  lock,       \* who holds the advisory lock, as a set
  recorded,   \* schema_migrations: per version the recorded body, 0 for none
  object,     \* per version and statement: the body that created it, or 0
  runner,     \* per runner: how far Run is, its files, what it read
  commits,    \* history: how often a version was committed, on Postgres
  muddled,    \* history: versions left half applied, or applied by two runners at once
  lost,       \* history: a session was lost with the lock
  runs        \* runs started

migrationVars == <<engine, lock, recorded, object, runner, commits, muddled, lost, runs>>

NoRun == [at |-> "idle", files |-> <<>>, applied |-> [v \in Version |-> 0],
          file |-> 1, statement |-> 1]

MigrationsInit ==
  /\ engine \in Engine
  /\ lock = {}
  /\ recorded = [v \in Version |-> 0]
  /\ object = [v \in Version |-> [i \in 1 .. Statements |-> 0]]
  /\ runner = [r \in Runner |-> NoRun]
  /\ commits = [v \in Version |-> 0]
  /\ muddled = {}
  /\ lost = FALSE
  /\ runs = 0

----------------------------------------------------------------------------
\* Load: subdirectories are passed over; a name that does not fit, a version
\* used twice and an empty file are refused; the rest in order of the versions,
\* of which there is one.
Loadable(directory) ==
  \A e \in directory : e.kind # "dir" =>
    /\ e.kind = "file" /\ e.body # 0
    /\ \A f \in directory \ {e} : f.kind # "dir" => f.version # e.version

Load(directory) ==
  LET entries == {e \in directory : e.kind = "file"}  IN
  {files \in [1 .. Cardinality(entries) -> entries] :
     \A m, n \in DOMAIN files : m < n => files[m].version < files[n].version}

At(r, where) == runner[r].at = where
Go(r, where) == runner' = [runner EXCEPT ![r].at = where]

Start(r, directory) ==
  /\ At(r, "idle")
  /\ runs < MaxRuns
  /\ runs' = runs + 1
  /\ IF Loadable(directory)
     THEN \E files \in Load(directory) :
            runner' = [runner EXCEPT ![r] = [NoRun EXCEPT !.at = "lock", !.files = files]]
     ELSE UNCHANGED runner
  /\ UNCHANGED <<engine, lock, recorded, object, commits, muddled, lost>>

\* Lock waits on Postgres and is a no-op on ClickHouse.
Lock(r) ==
  /\ At(r, "lock")
  /\ IF engine = "postgres" THEN lock = {} /\ lock' = {r} ELSE UNCHANGED lock
  /\ Go(r, "read")
  /\ UNCHANGED <<engine, recorded, object, commits, muddled, lost, runs>>

\* The session that holds the lock is lost, and the lock with it; the runner
\* goes on over its pool and does not learn of it.
LoseLock(r) ==
  /\ r \in lock
  /\ lock' = {}
  /\ lost' = TRUE
  /\ UNCHANGED <<engine, recorded, object, runner, commits, muddled, runs>>

\* EnsureVersionTable and AppliedVersions.
ReadApplied(r) ==
  /\ At(r, "read")
  /\ runner' = [runner EXCEPT ![r].at = "apply", ![r].applied = recorded]
  /\ UNCHANGED <<engine, lock, recorded, object, commits, muddled, lost, runs>>

Pending(r)  == runner[r].file <= Len(runner[r].files)
File(r)     == runner[r].files[runner[r].file]
WasRead(r)  == runner[r].applied[File(r).version]

\* Run ends, with or without an error, and its deferred unlock with it.
End(r) == runner' = [runner EXCEPT ![r] = NoRun] /\ lock' = lock \ {r}

\* A file that was recorded is passed over, or stops the run if its body differs.
Compare(r) ==
  /\ At(r, "apply") /\ Pending(r)
  /\ WasRead(r) # 0
  /\ IF WasRead(r) = File(r).body
     THEN runner' = [runner EXCEPT ![r].file = @ + 1] /\ UNCHANGED lock
     ELSE End(r)
  /\ UNCHANGED <<engine, recorded, object, commits, muddled, lost, runs>>

Applying(r) == At(r, "apply") /\ Pending(r) /\ WasRead(r) = 0

\* Mutant: the record is inserted ON CONFLICT DO NOTHING.
AlwaysInsertable(v) == TRUE

\* PostgresDriver.Apply: the file and its record, whole.  A version that somebody
\* has recorded meanwhile violates the primary key and rolls all of it back.
Insertable(v) == recorded[v] = 0

Commit(r) ==
  LET v == File(r).version  b == File(r).body  IN
  /\ engine = "postgres"
  /\ Applying(r)
  /\ IF Insertable(v)
     THEN /\ recorded' = [recorded EXCEPT ![v] = b]
          /\ object' = [object EXCEPT ![v] = [i \in 1 .. Statements |-> b]]
          /\ commits' = [commits EXCEPT ![v] = @ + 1]
          /\ runner' = [runner EXCEPT ![r].file = @ + 1]
          /\ UNCHANGED lock
     ELSE End(r) /\ UNCHANGED <<recorded, object, commits>>
  /\ UNCHANGED <<engine, muddled, lost, runs>>

\* Somebody applies the same version, or has since this runner read the records.
Contended(r, v) ==
  \/ recorded[v] # 0
  \/ \E q \in Runner \ {r} : Applying(q) /\ File(q).version = v

\* ClickHouseDriver.Apply: one statement.
Exec(r) ==
  LET v == File(r).version  i == runner[r].statement  IN
  /\ engine = "clickhouse"
  /\ Applying(r)
  /\ i <= Statements
  /\ object' = [object EXCEPT ![v][i] = IF @ = 0 THEN File(r).body ELSE @]
  /\ runner' = [runner EXCEPT ![r].statement = @ + 1]
  /\ muddled' = muddled \cup IF Contended(r, v) THEN {v} ELSE {}
  /\ UNCHANGED <<engine, lock, recorded, commits, lost, runs>>

\* Mutant: recorded when the first statement has run.
RecordEarly(r) ==
  /\ engine = "clickhouse"
  /\ Applying(r)
  /\ runner[r].statement > 1
  /\ recorded' = [recorded EXCEPT ![File(r).version] = File(r).body]
  /\ runner' = [runner EXCEPT ![r].file = @ + 1, ![r].statement = 1]
  /\ UNCHANGED <<engine, lock, object, commits, muddled, lost, runs>>

\* Its record: one more row, of which FINAL keeps the latest.
Record(r) ==
  /\ engine = "clickhouse"
  /\ Applying(r)
  /\ runner[r].statement > Statements
  /\ recorded' = [recorded EXCEPT ![File(r).version] = File(r).body]
  /\ runner' = [runner EXCEPT ![r].file = @ + 1, ![r].statement = 1]
  /\ UNCHANGED <<engine, lock, object, commits, muddled, lost, runs>>

Finish(r) ==
  /\ At(r, "apply") /\ ~Pending(r)
  /\ End(r)
  /\ UNCHANGED <<engine, recorded, object, commits, muddled, lost, runs>>

\* A statement fails, a connection or the process dies; locks end with sessions.
Half(r) == IF engine = "clickhouse" /\ Applying(r) /\ runner[r].statement > 1
           THEN {File(r).version} ELSE {}

Break(r) ==
  /\ ~At(r, "idle")
  /\ muddled' = muddled \cup Half(r)
  /\ End(r)
  /\ UNCHANGED <<engine, recorded, object, commits, lost, runs>>

MigrationsNext ==
  \E r \in Runner :
    \/ \E directory \in Directories : Start(r, directory)
    \/ Lock(r) \/ LoseLock(r) \/ ReadApplied(r) \/ Compare(r)
    \/ Commit(r) \/ Exec(r) \/ Record(r) \/ Finish(r) \/ Break(r)

MigrationsSpec == MigrationsInit /\ [][MigrationsNext]_migrationVars

----------------------------------------------------------------------------
(***************************************************************************)
(* Properties.                                                             *)
(***************************************************************************)
\* "Applied in filename order, recorded, never re-applied" (migrate.go:3-6): no
\* runner applies a file before the earlier ones of its own build; on Postgres no
\* version is committed twice, though sessions are lost and runners overlap, and while
\* no lock is lost its holder never meets a version it did not read of.
AppliedOnceInOrder ==
  /\ \A r \in Runner : Applying(r) =>
       \A n \in 1 .. runner[r].file - 1 : recorded[runner[r].files[n].version] # 0
  /\ \A v \in Version : commits[v] <= 1
  /\ ~lost => \A r \in lock : Applying(r) => Insertable(File(r).version)

\* What is recorded is what the schema holds (migrate.go:6-8, clickhouse.go:15-19):
\* every object of a recorded version is there, and of the recorded body.  Only on
\* ClickHouse may an object be of another body, where it was left half applied and
\* edited, or applied by two runners at once.
RecordedIsWhole ==
  \A v \in Version : recorded[v] # 0 =>
    \A i \in 1 .. Statements :
      /\ object[v][i] # 0
      /\ object[v][i] # recorded[v] => engine = "clickhouse" /\ v \in muddled
=============================================================================
