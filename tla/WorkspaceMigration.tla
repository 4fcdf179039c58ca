------------------------- MODULE WorkspaceMigration -------------------------
(***************************************************************************)
(* The engine that upgrades the managed files of a workspace: a confirmed  *)
(* snapshot, an execution marker, the installation, and either a receipt   *)
(* or the restoration of the snapshot.  One caller at a time; it may stop  *)
(* anywhere and any file operation may fail.  The exported entry points    *)
(* of the package are closed, the engine behind them is what is modelled.  *)
(***************************************************************************)
EXTENDS Naturals, Sequences, SequencesExt

CONSTANTS ManagedPaths,        \* in the order they are installed and restored
          MaxUserEdits, MaxMigrationFaults

VARIABLES managed,             \* content of the managed paths
          snapshot, confirmation, marker, outcome,     \* the files of the plan
          migration,           \* what the call in progress is doing
          userEdits, migrationFaults,
          disturbed,           \* the user has edited a managed path
          reported             \* a call has returned that its restoration failed

migrationVars == <<managed, snapshot, confirmation, marker, outcome, migration,
                   userEdits, migrationFaults, disturbed, reported>>

Path == ToSet(ManagedPaths)
ASSUME PathsAssumption == ManagedPaths \in Seq(Path)
Planned == [p \in Path |-> "old"]      \* what SourceDigest pins
Upgraded == [p \in Path |-> "new"]
NoSnapshot == [p \in Path |-> "none"]
NoMigration == [at |-> "idle", todo |-> <<>>]

\* A plan is built and staged: it pins the managed files as they are.
MigrationInit ==
  /\ managed = Planned
  /\ snapshot = NoSnapshot /\ confirmation = FALSE /\ marker = FALSE
  /\ outcome = "none"
  /\ migration = NoMigration
  /\ userEdits = 0 /\ migrationFaults = 0 /\ disturbed = FALSE /\ reported = FALSE

Files == <<snapshot, confirmation, marker, outcome>>
Environment == <<userEdits, migrationFaults, disturbed, reported>>
Goto(at, todo) == migration' = [at |-> at, todo |-> todo]

\* Inspect, compared with the plan; readSnapshotForPlan.
Inspected == managed = Planned
SnapshotValid == snapshot = Planned

\* confirmInternal: the workspace still has the planned digest; the snapshot is
\* taken and written before the confirmation.
TakeSnapshot ==
  /\ migration = NoMigration /\ Inspected
  /\ snapshot' = managed /\ Goto("confirm", <<>>)
  /\ UNCHANGED <<managed, confirmation, marker, outcome, Environment>>
Confirm ==
  /\ migration.at = "confirm"
  /\ confirmation' = TRUE /\ migration' = NoMigration
  /\ UNCHANGED <<managed, snapshot, marker, outcome, Environment>>

\* applyInternal when the receipt says applied: only the marker is cleared.
AlreadyApplied ==
  /\ migration = NoMigration /\ outcome = "applied"
  /\ marker' = FALSE
  /\ UNCHANGED <<managed, snapshot, confirmation, outcome, migration, Environment>>

\* recoverInternal: a receipt of any kind ends it; otherwise the marker calls
\* for the snapshot to be restored.
MarkerOfReceipt ==
  /\ migration = NoMigration /\ marker /\ outcome = "rolled_back"
  /\ marker' = FALSE
  /\ UNCHANGED <<managed, snapshot, confirmation, outcome, migration, Environment>>
StartRecovery ==
  /\ migration = NoMigration /\ marker /\ outcome = "none"
  /\ Goto("recover", ManagedPaths)
  /\ UNCHANGED <<managed, Files, Environment>>

\* applyInternal: confirmed, no marker left, workspace as confirmed, snapshot
\* valid; the marker is on disk before the first managed file changes.
\* Mutant: the marker is only written with the receipt.
MarkedLate == UNCHANGED marker
Marked == marker' = TRUE
StartApply ==
  /\ migration = NoMigration /\ outcome # "applied" /\ ~marker
  /\ confirmation /\ Inspected /\ SnapshotValid
  /\ Marked
  /\ Goto("install", ManagedPaths)
  /\ UNCHANGED <<managed, snapshot, confirmation, outcome, Environment>>

\* installAdapter and installProjection, path by path.
InstallPath ==
  /\ migration.at = "install" /\ migration.todo # <<>>
  /\ managed' = [managed EXCEPT ![Head(migration.todo)] = "new"]
  /\ Goto("install", Tail(migration.todo))
  /\ UNCHANGED <<Files, Environment>>

\* validateReadiness, the receipt, and the removal of the marker.
WriteApplied ==
  /\ migration.at = "install" /\ migration.todo = <<>>
  /\ IF managed = Upgraded
     THEN outcome' = "applied" /\ Goto("terminal", <<>>)
     ELSE Goto("undo", ManagedPaths) /\ UNCHANGED outcome
  /\ UNCHANGED <<managed, snapshot, confirmation, marker, Environment>>
Terminalize ==
  /\ migration.at = "terminal"
  /\ marker' = FALSE /\ migration' = NoMigration
  /\ UNCHANGED <<managed, snapshot, confirmation, outcome, Environment>>

\* restoreSnapshotValue, one entry at a time, for fail and for recoverInternal.
Restore ==
  /\ migration.at \in {"undo", "recover"} /\ migration.todo # <<>>
  /\ managed' = [managed EXCEPT ![Head(migration.todo)] = snapshot[Head(migration.todo)]]
  /\ Goto(migration.at, Tail(migration.todo))
  /\ UNCHANGED <<Files, Environment>>
WriteRolledBack ==
  /\ migration.at \in {"undo", "recover"} /\ migration.todo = <<>>
  /\ outcome' = "rolled_back"
  /\ Goto("terminal", <<>>)
  /\ UNCHANGED <<managed, snapshot, confirmation, marker, Environment>>

\* A step of the installation fails: the call of fail.
InstallFails == migration.at = "install" /\ Goto("undo", ManagedPaths) /\ UNCHANGED reported
\* A restoration that fails: fail goes on, recoverInternal returns and leaves the marker.
RestoreFails ==
  /\ migration.todo # <<>>
  /\ \/ migration.at = "undo" /\ Goto("undo", <<>>) /\ reported' = TRUE
     \/ migration.at = "recover" /\ migration' = NoMigration /\ UNCHANGED reported
\* A confirmation or receipt that cannot be written: fail ignores the error.
WriteFails ==
  /\ migration.todo = <<>> /\ UNCHANGED reported
  /\ \/ migration.at = "undo" /\ Goto("terminal", <<>>)
     \/ migration.at \in {"recover", "confirm"} /\ migration' = NoMigration
MarkerRemains == migration.at = "terminal" /\ migration' = NoMigration /\ UNCHANGED reported
OperationFails ==
  /\ migrationFaults < MaxMigrationFaults /\ migrationFaults' = migrationFaults + 1
  /\ InstallFails \/ RestoreFails \/ WriteFails \/ MarkerRemains
  /\ UNCHANGED <<managed, Files, userEdits, disturbed>>

MigrationCrash ==
  /\ migration # NoMigration /\ migrationFaults < MaxMigrationFaults
  /\ migrationFaults' = migrationFaults + 1 /\ migration' = NoMigration
  /\ UNCHANGED <<managed, Files, userEdits, disturbed, reported>>

\* External: the user edits a managed path, or puts its planned content back.
UserEdit(p) ==
  /\ userEdits < MaxUserEdits /\ userEdits' = userEdits + 1 /\ disturbed' = TRUE
  /\ \E v \in {"user", "old"} : managed[p] # v /\ managed' = [managed EXCEPT ![p] = v]
  /\ UNCHANGED <<Files, migration, migrationFaults, reported>>

MigrationNext ==
  \/ TakeSnapshot \/ Confirm \/ AlreadyApplied \/ MarkerOfReceipt \/ StartRecovery
  \/ StartApply \/ InstallPath \/ WriteApplied \/ Terminalize \/ Restore \/ WriteRolledBack
  \/ OperationFails \/ MigrationCrash
  \/ \E p \in Path : UserEdit(p)
MigrationSpec == MigrationInit /\ [][MigrationNext]_migrationVars

-----------------------------------------------------------------------------
\* When nobody works on it and the user has not interfered, a workspace is as
\* confirmed, or upgraded under an applied receipt, or its half done state is
\* marked and the snapshot can undo it.  Two paths are excepted: a call that
\* has reported the failure of its restoration, and a workspace with an earlier
\* rolled back receipt, which recovery takes for that of the present attempt.
InterruptedIsMarked ==
  migration = NoMigration /\ ~disturbed /\ ~reported =>
    \/ managed = Planned
    \/ managed = Upgraded /\ outcome = "applied"
    \/ marker /\ snapshot = Planned
    \/ outcome = "rolled_back"
=============================================================================
