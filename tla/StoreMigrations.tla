---------------------------- MODULE StoreMigrations ----------------------------
(***************************************************************************)
(* open_store: the forward-only migration pipeline that every command runs *)
(* on the SQLite file, here by several processes at once on a new, legacy, *)
(* half migrated or current store.                                         *)
(*                                                                         *)
(* The schema is abstracted to the two facts the migrations establish: the *)
(* tables of m0001 and the column that m0002 adds to one of them.  SQLite  *)
(* is external: a statement outside BEGIN..COMMIT is atomic, the first     *)
(* write of a transaction takes the only write lock until its end, and     *)
(* readers see the committed schema.                                       *)
(***************************************************************************)
EXTENDS Integers, FiniteSets

CONSTANTS
    Process,     \* processes that open the store
    Unlocked,    \* the write lock is free
    MaxCrashes   \* bound on killed processes

ASSUME MigrationsAssumption == Unlocked \notin Process /\ MaxCrashes \in Nat

VARIABLES
    tables,      \* the tables of m0001 exist
    ruleCodes,   \* feedbacks has the column of m0002
    versions,    \* rows of schema_version
    migrator,    \* process inside a migration's transaction, or Unlocked
    opening,     \* per process: where its open_store is
    applied,     \* per process: the versions it read, and those it applied
    disturbed,   \* per process: another one wrote since it called open_store
    crashes

schema == <<tables, ruleCodes, versions>>
migrationVars == <<schema, migrator, opening, applied, disturbed, crashes>>

Version == {1, 2}

OpeningStage == {"closed", "ensure", "load", "detect", "backfill", "apply", "commit",
          "open", "error"}

MigrationsTypeOK ==
    /\ tables \in BOOLEAN /\ ruleCodes \in BOOLEAN
    /\ versions \in SUBSET Version
    /\ migrator \in Process \union {Unlocked}
    /\ opening \in [Process -> OpeningStage]
    /\ applied \in [Process -> SUBSET Version]
    /\ disturbed \in [Process -> BOOLEAN]
    /\ crashes \in 0..MaxCrashes

\* A new file, a store older than the pipeline, one that only ran m0001, and a
\* current one.
MigrationsInit ==
    /\ \/ tables = FALSE /\ ruleCodes = FALSE /\ versions = {}
       \/ tables = TRUE  /\ ruleCodes = FALSE /\ versions = {}
       \/ tables = TRUE  /\ ruleCodes = FALSE /\ versions = {1}
       \/ tables = TRUE  /\ ruleCodes = TRUE  /\ versions = {1, 2}
    /\ migrator = Unlocked
    /\ opening = [p \in Process |-> "closed"]
    /\ applied = [p \in Process |-> {}]
    /\ disturbed = [p \in Process |-> FALSE]
    /\ crashes = 0

Goto(p, stage) == opening' = [opening EXCEPT ![p] = stage]

\* Process p writes to the file: every other process is disturbed.
Disturb(p) == disturbed' = [q \in Process |-> IF q = p THEN disturbed[q] ELSE TRUE]

----------------------------------------------------------------------------

Open(p) ==
    /\ opening[p] = "closed"
    /\ Goto(p, "ensure")
    /\ applied' = [applied EXCEPT ![p] = {}]
    /\ disturbed' = [disturbed EXCEPT ![p] = FALSE]
    /\ UNCHANGED <<schema, migrator, crashes>>

\* CREATE TABLE IF NOT EXISTS schema_version
EnsureVersionTable(p) ==
    /\ opening[p] = "ensure" /\ migrator = Unlocked
    /\ Goto(p, "load")
    /\ UNCHANGED <<schema, migrator, applied, disturbed, crashes>>

\* A write statement waited for the lock longer than the busy timeout.
MigrationBusy(p) ==
    /\ opening[p] \in {"ensure", "backfill", "apply"} /\ migrator # Unlocked
    /\ Goto(p, "error")
    /\ disturbed' = [disturbed EXCEPT ![p] = TRUE]
    /\ UNCHANGED <<schema, migrator, applied, crashes>>

LoadApplied(p) ==
    /\ opening[p] = "load"
    /\ applied' = [applied EXCEPT ![p] = versions]
    /\ Goto(p, IF versions = {} THEN "detect" ELSE "apply")
    /\ UNCHANGED <<schema, migrator, disturbed, crashes>>

\* has_legacy_scans_table: a second read, after the first.
DetectLegacy(p) ==
    /\ opening[p] = "detect"
    /\ Goto(p, IF tables THEN "backfill" ELSE "apply")
    /\ UNCHANGED <<schema, migrator, applied, disturbed, crashes>>

\* Fault (a mutated form, as are the definitions marked Fault below): a legacy
\* store is taken for a current one.
BackfillAsCurrent(p) ==
    /\ opening[p] = "backfill" /\ migrator = Unlocked
    /\ versions' = Version
    /\ applied' = [applied EXCEPT ![p] = Version]
    /\ Disturb(p)
    /\ Goto(p, "apply")
    /\ UNCHANGED <<tables, ruleCodes, migrator, crashes>>

\* Fault: the recorded version is not added to the set that migrate() works with.
BackfillWithoutApplied(p) ==
    /\ opening[p] = "backfill" /\ migrator = Unlocked
    /\ IF 1 \in versions
       THEN Goto(p, "error") /\ UNCHANGED <<versions, disturbed>>
       ELSE /\ versions' = versions \union {1}
            /\ Disturb(p)
            /\ Goto(p, "apply")
    /\ UNCHANGED <<tables, ruleCodes, applied, migrator, crashes>>

\* record_legacy_v1: INSERT of version 1, the primary key.
BackfillLegacy(p) ==
    /\ opening[p] = "backfill" /\ migrator = Unlocked
    /\ IF 1 \in versions
       THEN Goto(p, "error") /\ UNCHANGED <<versions, applied, disturbed>>
       ELSE /\ versions' = versions \union {1}
            /\ applied' = [applied EXCEPT ![p] = @ \union {1}]
            /\ Disturb(p)
            /\ Goto(p, "apply")
    /\ UNCHANGED <<tables, ruleCodes, migrator, crashes>>

Remaining(p) == Version \ applied[p]

NextVersion(p) == CHOOSE v \in Remaining(p) : \A w \in Remaining(p) : v <= w

\* m0001 is CREATE ... IF NOT EXISTS throughout; m0002 is a plain ALTER TABLE.
SqlSucceeds(v) == v = 1 \/ (tables /\ ~ruleCodes)

\* Fault: a failed statement leaves the transaction open.
BeginWithoutRollback(p) ==
    /\ opening[p] = "apply" /\ Remaining(p) # {} /\ migrator = Unlocked
    /\ IF SqlSucceeds(NextVersion(p)) /\ NextVersion(p) \notin versions
       THEN Goto(p, "commit")
       ELSE Goto(p, "error")
    /\ migrator' = p
    /\ UNCHANGED <<schema, applied, disturbed, crashes>>

\* BEGIN, the migration's SQL and its schema_version row: an error rolls back.
BeginMigration(p) ==
    /\ opening[p] = "apply" /\ Remaining(p) # {} /\ migrator = Unlocked
    /\ IF SqlSucceeds(NextVersion(p)) /\ NextVersion(p) \notin versions
       THEN Goto(p, "commit") /\ migrator' = p
       ELSE Goto(p, "error") /\ UNCHANGED migrator
    /\ UNCHANGED <<schema, applied, disturbed, crashes>>

CommitMigration(p) ==
    /\ opening[p] = "commit"
    /\ LET v == NextVersion(p) IN
       /\ tables' = (tables \/ v = 1)
       /\ ruleCodes' = (ruleCodes \/ v = 2)
       /\ versions' = versions \union {v}
       /\ applied' = [applied EXCEPT ![p] = @ \union {v}]
    /\ migrator' = Unlocked
    /\ Disturb(p)
    /\ Goto(p, "apply")
    /\ UNCHANGED crashes

\* Every migration is in: open_store returns.
Opened(p) ==
    /\ opening[p] = "apply" /\ Remaining(p) = {}
    /\ Goto(p, "open")
    /\ UNCHANGED <<schema, migrator, applied, disturbed, crashes>>

\* The process is killed; an open transaction is rolled back.
Crash(p) ==
    /\ opening[p] \notin {"closed", "open", "error"} /\ crashes < MaxCrashes
    /\ crashes' = crashes + 1
    /\ migrator' = IF migrator = p THEN Unlocked ELSE migrator
    /\ Goto(p, "closed")
    /\ UNCHANGED <<schema, applied, disturbed>>

\* The user runs the command again after an error.
Rerun(p) ==
    /\ opening[p] = "error"
    /\ Goto(p, "closed")
    /\ UNCHANGED <<schema, migrator, applied, disturbed, crashes>>

Run(p) == \/ Open(p) \/ EnsureVersionTable(p) \/ LoadApplied(p) \/ DetectLegacy(p)
          \/ BackfillLegacy(p) \/ BeginMigration(p) \/ CommitMigration(p) \/ Opened(p)
          \/ Rerun(p)

AllOpen == (\A p \in Process : opening[p] = "open") /\ UNCHANGED migrationVars

MigrationsNext == (\E p \in Process : Run(p) \/ MigrationBusy(p) \/ Crash(p)) \/ AllOpen

MigrationsSpec == MigrationsInit /\ [][MigrationsNext]_migrationVars

\* A process keeps running, and a failed command is run again.
FairMigrations == MigrationsSpec /\ \A p \in Process : WF_migrationVars(Run(p))

----------------------------------------------------------------------------
\* Properties

\* schema_version never claims a migration whose effect is missing, and m0002,
\* which cannot run twice, is recorded as soon as its column is there.
VersionsMatchSchema ==
    /\ 1 \in versions => tables
    /\ 2 \in versions <=> ruleCodes
    /\ ruleCodes => tables

\* A command only gets a Store whose schema is the one the code expects.
OpenMeansCurrent ==
    \A p \in Process : opening[p] = "open" => tables /\ ruleCodes /\ versions = Version

\* Opening fails only because another process wrote to the same file meanwhile:
\* the reads of load_applied and has_legacy_scans_table are outside the
\* migration's transaction, but a store used by one process always opens.
OnlyRacesFail == \A p \in Process : opening[p] = "error" => disturbed[p]

\* No crash or lost race leaves a store that cannot be opened any more.
EventuallyOpen == \A p \in Process : <>(opening[p] = "open")

\* What makes VersionsMatchSchema inductive: who is about to write what.
MigrationsInv ==
    /\ VersionsMatchSchema
    /\ \A p \in Process : migrator = p <=> opening[p] = "commit"
    /\ \A p \in Process : opening[p] \in {"apply", "commit", "open"} => applied[p] \subseteq versions
    /\ \A p \in Process : opening[p] \in {"ensure", "load", "detect", "backfill"} => applied[p] = {}
    /\ \A p \in Process : opening[p] = "backfill" => tables
    /\ \A p \in Process : opening[p] = "commit" =>
           /\ Remaining(p) # {} /\ NextVersion(p) \notin versions
           /\ SqlSucceeds(NextVersion(p))
    /\ \A p \in Process : opening[p] = "open" => applied[p] = Version

\* What makes OnlyRacesFail inductive: what a process read is what the file says
\* as long as nobody else wrote to it.
RacesInv ==
    /\ OnlyRacesFail
    /\ \A p \in Process :
           ~disturbed[p] /\ opening[p] \in {"detect", "backfill", "apply", "commit", "open"}
           => applied[p] = versions
================================================================================
