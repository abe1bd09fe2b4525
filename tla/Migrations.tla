----------------------------- MODULE Migrations -----------------------------
(***************************************************************************)
(* The schema migrations of internal/repository/postgres/migrate.go and    *)
(* cmd/migrate: several runs of MigrateUp, and of MigrateDown during       *)
(* development, each on a database session of its own, under one advisory  *)
(* lock of PostgreSQL.                                                     *)
(*                                                                         *)
(* A run sends one statement at a time and step says which one it is.  The *)
(* process may die, its context may end or the connection may break at any *)
(* of them.  The session outlives its client then: the statement under way *)
(* may still take effect, a COMMIT included, and only the end of the       *)
(* session releases the lock.                                              *)
(***************************************************************************)
EXTENDS Integers

CONSTANTS Runs,      \* places for concurrent runs; a place is used again
          Latest,    \* the versions are 1..Latest
          NoRun

ASSUME MigrationsAssumption == Latest \in Nat \ {0} /\ NoRun \notin Runs

VARIABLES
  table,     \* the table schema_migrations exists
  schema,    \* versions whose up script is in force
  ledger,    \* versions recorded in schema_migrations
  holder,    \* the session with the advisory lock
  step,      \* the statement a session has to execute
  client,    \* its process waits for it, or is gone
  kind,      \* MigrateUp or MigrateDown
  release,   \* the newest version in the binary of a run
  target,    \* the version a run is looking at
  pending,   \* uncommitted changes of a session: "script", "record"
  promised   \* history: versions reported as applied, and not reverted since

migrationsVars == <<table, schema, ledger, holder, step, client, kind, release, target,
          pending, promised>>
database == <<table, schema, ledger, promised>>
run == <<kind, release>>

Versions == 1..Latest
Steps == {"idle", "lock", "create", "read", "script", "record", "commit",
          "unlock", "broken"}
NeedLock == {"create", "read", "script", "record", "commit", "unlock"}

MigrationsTypeOK ==
  /\ table \in BOOLEAN
  /\ schema \subseteq Versions /\ ledger \subseteq Versions
  /\ promised \subseteq Versions
  /\ holder \in Runs \cup {NoRun}
  /\ step \in [Runs -> Steps]
  /\ client \in [Runs -> {"waiting", "gone"}]
  /\ kind \in [Runs -> {"up", "down"}]
  /\ release \in [Runs -> Versions]
  /\ target \in [Runs -> Versions]
  /\ pending \in [Runs -> SUBSET {"script", "record"}]

MigrationsInit ==
  /\ table = FALSE
  /\ schema = {} /\ ledger = {} /\ promised = {}
  /\ holder = NoRun
  /\ step = [p \in Runs |-> "idle"]
  /\ client = [p \in Runs |-> "gone"]
  /\ kind = [p \in Runs |-> "up"]
  /\ release = [p \in Runs |-> 1]
  /\ target = [p \in Runs |-> 1]
  /\ pending = [p \in Runs |-> {}]

\* The session of a client that is gone executes no further statement.
GoTo(p, next) ==
  step' = [step EXCEPT ![p] = IF client[p] = "waiting" THEN next ELSE "broken"]

-----------------------------------------------------------------------------
\* loadMigrations sorts by version: a run looks at the oldest one first.
FirstVersion == 1
NextVersion(v) == v + 1

\* A process of some release opens a connection.
Start(p, k, n) ==
  /\ step[p] = "idle"
  /\ step' = [step EXCEPT ![p] = "lock"]
  /\ client' = [client EXCEPT ![p] = "waiting"]
  /\ kind' = [kind EXCEPT ![p] = k]
  /\ release' = [release EXCEPT ![p] = n]
  /\ target' = [target EXCEPT ![p] = FirstVersion]
  /\ UNCHANGED <<database, holder, pending>>

\* Mutant: pg_try_advisory_lock, whose answer nobody looks at.
LockWithoutWaiting(p) ==
  /\ step[p] = "lock"
  /\ holder' = IF holder = NoRun THEN p ELSE holder
  /\ GoTo(p, IF kind[p] = "up" THEN "create" ELSE "read")
  /\ UNCHANGED <<database, client, run, target, pending>>

\* pg_advisory_lock waits until the lock is free.
Lock(p) ==
  /\ step[p] = "lock"
  /\ holder = NoRun
  /\ holder' = p
  /\ GoTo(p, IF kind[p] = "up" THEN "create" ELSE "read")
  /\ UNCHANGED <<database, client, run, target, pending>>

\* Without the lock a run returns an error, and has nothing to give back.
FailToLock(p) ==
  /\ step[p] = "lock" /\ client[p] = "waiting"
  /\ step' = [step EXCEPT ![p] = "idle"]
  /\ client' = [client EXCEPT ![p] = "gone"]
  /\ UNCHANGED <<database, holder, run, target, pending>>

\* CREATE TABLE IF NOT EXISTS, a transaction of its own.
CreateLedger(p) ==
  /\ step[p] = "create"
  /\ table' = TRUE
  /\ GoTo(p, "read")
  /\ UNCHANGED <<schema, ledger, promised, holder, client, run, target, pending>>

\* The loop of MigrateUp: a recorded version is skipped.
SkipApplied(p) ==
  /\ step[p] = "read" /\ client[p] = "waiting" /\ kind[p] = "up"
  /\ target[p] \in ledger
  /\ target[p] < release[p]
  /\ target' = [target EXCEPT ![p] = NextVersion(target[p])]
  /\ UNCHANGED <<database, holder, step, client, run, pending>>

FindPending(p) ==
  /\ step[p] = "read" /\ client[p] = "waiting" /\ kind[p] = "up"
  /\ target[p] \notin ledger
  /\ step' = [step EXCEPT ![p] = "script"]
  /\ UNCHANGED <<database, holder, client, run, target, pending>>

\* Behind the last version MigrateUp returns nil.
Finish(p) ==
  /\ promised' = promised \cup 1..release[p]
  /\ step' = [step EXCEPT ![p] = "unlock"]

LastIsApplied(p) ==
  /\ step[p] = "read" /\ client[p] = "waiting" /\ kind[p] = "up"
  /\ target[p] \in ledger
  /\ target[p] = release[p]
  /\ Finish(p)
  /\ UNCHANGED <<table, schema, ledger, holder, client, run, target, pending>>

\* MigrateDown reverts the newest recorded version, if its binary knows it.
IsNewest(v) == v \in ledger /\ \A w \in ledger : w <= v

FindNewest(p) ==
  /\ step[p] = "read" /\ client[p] = "waiting" /\ kind[p] = "down"
  /\ table
  /\ \E v \in 1..release[p] : IsNewest(v) /\ target' = [target EXCEPT ![p] = v]
  /\ step' = [step EXCEPT ![p] = "script"]
  /\ UNCHANGED <<database, holder, client, run, pending>>

\* The script creates its tables, or drops them: it fails if they exist, or if
\* they do not, and waits for a transaction that is at work on them.
CanRunScript(p) ==
  /\ target[p] \in schema <=> kind[p] = "down"
  /\ \A q \in Runs \ {p} : pending[q] # {} => target[q] # target[p]

RunScript(p) ==
  /\ step[p] = "script"
  /\ CanRunScript(p)
  /\ pending' = [pending EXCEPT ![p] = @ \cup {"script"}]
  /\ GoTo(p, "record")
  /\ UNCHANGED <<database, holder, client, run, target>>

\* Mutant: the ledger is written outside the transaction.
RecordOutside(p) ==
  /\ step[p] = "record"
  /\ ledger' = IF kind[p] = "up" THEN ledger \cup {target[p]} ELSE ledger \ {target[p]}
  /\ GoTo(p, "commit")
  /\ UNCHANGED <<table, schema, promised, holder, client, run, target, pending>>

\* INSERT INTO, or DELETE FROM, schema_migrations in the same transaction.
Record(p) ==
  /\ step[p] = "record"
  /\ pending' = [pending EXCEPT ![p] = @ \cup {"record"}]
  /\ GoTo(p, "commit")
  /\ UNCHANGED <<database, holder, client, run, target>>

\* What a committed change does to a set of versions.
Changed(p, part, set) ==
  IF part \notin pending[p] THEN set
  ELSE IF kind[p] = "up" THEN set \cup {target[p]} ELSE set \ {target[p]}

\* After its COMMIT MigrateDown is done, and MigrateUp looks at the next version.
Commit(p) ==
  /\ step[p] = "commit"
  /\ schema' = Changed(p, "script", schema)
  /\ ledger' = Changed(p, "record", ledger)
  /\ promised' = IF kind[p] = "down" THEN promised \ {target[p]} ELSE promised
  /\ pending' = [pending EXCEPT ![p] = {}]
  /\ GoTo(p, IF kind[p] = "up" THEN "read" ELSE "unlock")
  /\ UNCHANGED <<table, holder, client, run, target>>

\* Mutant: the error of a statement is lost, and MigrateUp returns nil.
FailSilently(p) ==
  /\ step[p] \in {"create", "read", "script", "record", "commit"}
  /\ client[p] = "waiting"
  /\ pending' = [pending EXCEPT ![p] = {}]
  /\ IF kind[p] = "up"
       THEN Finish(p)
       ELSE step' = [step EXCEPT ![p] = "unlock"] /\ UNCHANGED promised
  /\ UNCHANGED <<table, schema, ledger, holder, client, run, target>>

\* A statement fails: its transaction is rolled back and the run returns an
\* error.  Without a row, or with a version it does not know, so does MigrateDown.
Fail(p) ==
  /\ step[p] \in {"create", "read", "script", "record", "commit"}
  /\ client[p] = "waiting"
  /\ pending' = [pending EXCEPT ![p] = {}]
  /\ step' = [step EXCEPT ![p] = "unlock"]
  /\ UNCHANGED <<database, holder, client, run, target>>

\* Mutant: the connection goes back to the pool with its lock.
ReleaseWithoutUnlock(p) ==
  /\ step[p] = "unlock"
  /\ step' = [step EXCEPT ![p] = "idle"]
  /\ client' = [client EXCEPT ![p] = "gone"]
  /\ UNCHANGED <<database, holder, run, target, pending>>

\* The deferred unlock; the connection is released.
Unlock(p) ==
  /\ step[p] = "unlock"
  /\ holder' = NoRun
  /\ step' = [step EXCEPT ![p] = "idle"]
  /\ client' = [client EXCEPT ![p] = "gone"]
  /\ UNCHANGED <<database, run, target, pending>>

\* Nobody waits for the session any more.
Abandon(p) ==
  /\ client[p] = "waiting"
  /\ client' = [client EXCEPT ![p] = "gone"]
  /\ UNCHANGED <<database, holder, step, run, target, pending>>

\* The context of the run ends: the driver closes the connection.  The unlock
\* has a context of its own, which does not end.
Deadline(p) == step[p] # "unlock" /\ Abandon(p)

\* The process dies or the connection breaks.
Crash(p) == Abandon(p)

\* PostgreSQL notices that the client is gone: rollback, and the lock is free.
EndSession(p) ==
  /\ step[p] # "idle" /\ client[p] = "gone"
  /\ pending' = [pending EXCEPT ![p] = {}]
  /\ holder' = IF holder = p THEN NoRun ELSE holder
  /\ step' = [step EXCEPT ![p] = "idle"]
  /\ UNCHANGED <<database, client, run, target>>

MigrationsNext ==
  \E p \in Runs :
    \/ \E k \in {"up", "down"}, n \in Versions : Start(p, k, n)
    \/ Lock(p) \/ FailToLock(p) \/ CreateLedger(p)
    \/ SkipApplied(p) \/ FindPending(p) \/ LastIsApplied(p) \/ FindNewest(p)
    \/ RunScript(p) \/ Record(p) \/ Commit(p) \/ Fail(p) \/ Unlock(p)
    \/ Deadline(p) \/ Crash(p) \/ EndSession(p)

\* Contexts end, PostgreSQL executes the unlock it was sent, and it ends the
\* session of a client that is gone.
Fairness ==
  \A p \in Runs : WF_migrationsVars(Deadline(p)) /\ WF_migrationsVars(Unlock(p)) /\ WF_migrationsVars(EndSession(p))

MigrationsSpec == MigrationsInit /\ [][MigrationsNext]_migrationsVars
FairSpec == MigrationsSpec /\ Fairness

-----------------------------------------------------------------------------
\* What is recorded is what is in force, and nothing newer than a version that
\* is missing: a rerun may trust the ledger and start where it ends, whatever
\* was interrupted (migrate.go:66-84).
LedgerTellsTheSchema ==
  /\ schema = ledger
  /\ \A v \in ledger : 1..v \subseteq ledger

\* "Parallel runs do not apply one version twice" (README.md:59): no script is
\* sent to a database that has its changes already, nor is one reverted twice.
NoScriptMeetsItsOwnChanges ==
  \A p \in Runs : step[p] = "script" => (target[p] \in schema <=> kind[p] = "down")

\* A MigrateUp that reported success left every version of its binary in force,
\* until somebody reverts it (migrate.go:27, cmd/migrate/main.go:14-18).
SuccessMeansMigrated == promised \subseteq schema

\* The lock comes back from every run, also from one that failed, was cut off or
\* died: nobody has to clear it by hand (migrate.go:42).
LockIsReleased == \A p \in Runs : holder = p ~> holder # p
=============================================================================
