---------------------------- MODULE Migrations ----------------------------
(***************************************************************************)
(* db.Migrate: servers that start against one database, each bringing the  *)
(* schema up to date before it serves.  Every migration has a transaction   *)
(* of its own that takes an advisory lock, looks in schema_migrations, runs  *)
(* the script if its version is not there, and records the version.  A       *)
(* server may fail at any point and start again; PostgreSQL rolls back the   *)
(* transaction it leaves behind when it notices, and the lock is held until  *)
(* then.                                                                    *)
(***************************************************************************)
EXTENDS Naturals, Sequences

CONSTANTS
  Servers,       \* processes that run cmd/server
  Versions,      \* the migration files, by discoverMigrations' order, are 1 .. Versions
  MaxFailures,   \* bound on how often a server fails or stops
  NoOne, Orphan  \* the lock is free; a failed server's transaction has it

VARIABLES
  scripts,       \* the committed scripts, in the order of their commits
  recorded,      \* the committed rows of schema_migrations
  lock,          \* whose transaction has the advisory lock
  phase,         \* where each server is
  at,            \* the migration a server is at in Migrate's loop
  found,         \* what its SELECT EXISTS returned
  failures       \* how many failures and stops there were

vars == <<scripts, recorded, lock, phase, at, found, failures>>
database == <<scripts, recorded>>

TypeOK ==
  /\ scripts \in Seq(1 .. Versions)
  /\ recorded \in SUBSET (1 .. Versions)
  /\ lock \in Servers \cup {NoOne, Orphan}
  /\ phase \in [Servers -> {"down", "begin", "locked", "read", "ran", "serving"}]
  /\ at \in [Servers -> 1 .. Versions]
  /\ found \in [Servers -> BOOLEAN]
  /\ failures \in Nat

Init ==
  /\ scripts = << >> /\ recorded = {}
  /\ lock = NoOne
  /\ phase = [s \in Servers |-> "down"]
  /\ at = [s \in Servers |-> 1]
  /\ found = [s \in Servers |-> FALSE]
  /\ failures = 0

(***************************************************************************)
(* Migrate                                                                 *)
(***************************************************************************)
\* run() calls Migrate, which creates schema_migrations if it is not there and
\* lists the files.
Start(s) ==
  /\ phase[s] = "down"
  /\ phase' = [phase EXCEPT ![s] = "begin"]
  /\ at' = [at EXCEPT ![s] = 1]
  /\ UNCHANGED <<database, lock, found, failures>>

\* mutant: each server takes a lock of its own
LockIgnored(s) == lock' = s

\* pg_advisory_xact_lock waits for the transaction that has the lock
Lock(s) == lock = NoOne /\ lock' = s

BeginMigration(s) ==
  /\ phase[s] = "begin"
  /\ Lock(s)
  /\ phase' = [phase EXCEPT ![s] = "locked"]
  /\ UNCHANGED <<database, at, found, failures>>

\* SELECT EXISTS, a statement that begins when the lock has been granted
ReadState(s) ==
  /\ phase[s] = "locked"
  /\ phase' = [phase EXCEPT ![s] = "read"]
  /\ found' = [found EXCEPT ![s] = at[s] \in recorded]
  /\ UNCHANGED <<database, lock, at, failures>>

\* the script and the INSERT: nobody sees them before the commit
ApplyMigration(s) ==
  /\ phase[s] = "read" /\ ~found[s]
  /\ phase' = [phase EXCEPT ![s] = "ran"]
  /\ UNCHANGED <<database, lock, at, found, failures>>

\* mutant: the version is recorded by another transaction, which is lost
VersionNotRecorded(s) == recorded

\* the rows of schema_migrations when the transaction commits
VersionRecorded(s) == IF found[s] THEN recorded ELSE recorded \cup {at[s]}

\* mutants: Migrate returns at the first migration that it finds applied, and
\* its loop runs over the last one
LastMigrationFound(s) == found[s] \/ at[s] = Versions
LastMigrationMissed(s) == at[s] > Versions

LastMigration(s) == at[s] = Versions

\* mutant: pg_advisory_lock, which the commit does not free
SessionLock(s) == s

\* the lock after the commit
LockAfterCommit(s) == NoOne

\* the commit frees the lock; Migrate goes on to the next file, or run() to serving
CommitMigration(s) ==
  /\ phase[s] = "ran" \/ (phase[s] = "read" /\ found[s])
  /\ scripts' = IF found[s] THEN scripts ELSE Append(scripts, at[s])
  /\ recorded' = VersionRecorded(s)
  /\ lock' = LockAfterCommit(s)
  /\ IF LastMigration(s)
     THEN phase' = [phase EXCEPT ![s] = "serving"] /\ UNCHANGED at
     ELSE phase' = [phase EXCEPT ![s] = "begin"] /\ at' = [at EXCEPT ![s] = @ + 1]
  /\ UNCHANGED <<found, failures>>

\* A statement fails, the context is cancelled, the process dies or, when it
\* serves, stops: it leaves its transaction to be rolled back.
Fail(s) ==
  /\ failures < MaxFailures
  /\ phase[s] # "down"
  /\ failures' = failures + 1
  /\ phase' = [phase EXCEPT ![s] = "down"]
  /\ lock' = IF lock = s THEN Orphan ELSE lock
  /\ UNCHANGED <<database, at, found>>

\* PostgreSQL ends the transaction of a failed server
RollbackOrphan ==
  /\ lock = Orphan
  /\ lock' = NoOne
  /\ UNCHANGED <<database, phase, at, found, failures>>

Migrate(s) ==
  BeginMigration(s) \/ ReadState(s) \/ ApplyMigration(s) \/ CommitMigration(s)

Next ==
  \/ \E s \in Servers : Start(s)
  \/ \E s \in Servers : Migrate(s)
  \/ \E s \in Servers : Fail(s)
  \/ RollbackOrphan

Spec == Init /\ [][Next]_vars

\* Servers are restarted, run, and their orphaned transactions are ended.
FairSpec ==
  /\ Spec
  /\ WF_vars(RollbackOrphan)
  /\ \A s \in Servers : WF_vars(Start(s)) /\ WF_vars(Migrate(s))

(***************************************************************************)
(* Properties                                                              *)
(***************************************************************************)

\* Each script was applied once and in order (003_console.sql cannot be applied
\* twice), and schema_migrations says exactly which, whatever servers do at
\* the same time and wherever they fail.
AppliedInOrder ==
  /\ scripts = [i \in 1 .. Len(scripts) |-> i]
  /\ recorded = 1 .. Len(scripts)

\* No server serves on a schema that lacks a migration.
ServingUpToDate == \A s \in Servers : phase[s] = "serving" => Len(scripts) = Versions

\* What ties a server's local state to the database: its transaction has the
\* lock, so what it read of schema_migrations is still so, and the versions
\* before its own are there.
InMigration ==
  \A s \in Servers :
    /\ phase[s] \in {"locked", "read", "ran"} => lock = s
    /\ phase[s] \notin {"down", "serving"} => at[s] <= Len(scripts) + 1
    /\ phase[s] \in {"read", "ran"} => (found[s] <=> at[s] \in recorded)
    /\ phase[s] = "ran" => ~found[s]

\* The inductive invariant: scripts are applied once and in order, nobody serves
\* before the last, and who is past the lock knows what it needs.
MigrationInv == TypeOK /\ AppliedInOrder /\ ServingUpToDate /\ InMigration

\* When servers stop failing, all of them get to serve: none waits for the
\* lock for good.
AllServe == <>[](\A s \in Servers : phase[s] = "serving")
=============================================================================
