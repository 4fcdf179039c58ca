------------------------- MODULE RuntimeProjection -------------------------
(***************************************************************************)
(* Managed files in a user's workspace: the runtime projection (an         *)
(* orientation block, skills, a policy and the manifest that owns them)    *)
(* and the host adapter (managed agents, the Git exclude entry and the     *)
(* lifecycle hooks in the settings).  An operation checks for conflicts,   *)
(* remembers every file it will touch, changes them one after the other    *)
(* and, when one change fails, puts them back one after the other.  The    *)
(* process may stop in between, and the user edits files at any time.      *)
(***************************************************************************)
EXTENDS Naturals, Sequences, FiniteSets, SequencesExt

CONSTANTS Tracks,              \* selections of capability tracks, e.g. 1..2
          MaxOperations, MaxEditsByUser, MaxFailures

\* A selection of tracks is neither the mark of a missing file nor of the user's content.
ASSUME TrackAssumption == Tracks \in SUBSET (Nat \ {0, 99})

VARIABLES managedFiles,        \* content of each file: absent, user or a track selection
          operation,           \* the operation under way
          before,              \* history: the files when it took its snapshot
          touchedByUser,       \* history: files the user edited since then
          operations, editsByUser, failures

projectionVars == <<managedFiles, operation, before, touchedByUser, operations, editsByUser, failures>>

\* Of the orientation and the settings only the managed block and the owned hooks
\* count: the user's text around them is kept by every change.
ProjectionFile == {"orientation", "skillA", "skillB", "policy", "manifest"}
AdapterFile == {"agents", "exclude", "settings"}
ManagedFile == ProjectionFile \cup AdapterFile
NoFile == 0
User == 99
NoOperation == [at |-> "none"]

ProjectionInit ==
  /\ managedFiles \in [ManagedFile -> {NoFile, User}]
  /\ managedFiles["manifest"] = NoFile /\ \A f \in AdapterFile : managedFiles[f] = NoFile
  /\ operation = NoOperation /\ before = managedFiles /\ touchedByUser = {}
  /\ operations = 0 /\ editsByUser = 0 /\ failures = 0

-----------------------------------------------------------------------------
\* skillContents: skillB belongs to the first selection only.
Contents(tracks) == IF tracks = 1 THEN {"skillA", "skillB"} ELSE {"skillA"}
Old == managedFiles["manifest"]
OwnedSkills(tracks) == IF tracks = NoFile THEN {} ELSE Contents(tracks)

\* preflight: what is neither absent, nor the new content, nor what the manifest
\* owns belongs to the user.
\* Mutant: a file is taken for a managed one by its name.
TrackConflictsByName(tracks) ==
  {f \in {"orientation"} : managedFiles[f] # Old}
TrackConflicts(tracks) ==
  {f \in {"orientation"} : managedFiles[f] # Old}
    \cup {f \in Contents(tracks) \cup OwnedSkills(Old) :
            managedFiles[f] \notin {NoFile, tracks} \cup (IF f \in OwnedSkills(Old) THEN {Old} ELSE {})}
    \cup {f \in {"policy"} : IF Old = NoFile THEN managedFiles[f] # NoFile
                             ELSE managedFiles[f] \notin {Old, tracks}}
\* projectionConflicts: for an uninstall every file must be the manifest's.
IntegrityConflicts == {f \in {"orientation", "policy"} \cup OwnedSkills(Old) : managedFiles[f] # Old}

\* The files a snapshot remembers: current, planned and retired ones.
SnapshotPaths(tracks) == {"orientation", "manifest", "policy"} \cup Contents(tracks) \cup OwnedSkills(Old)

\* One file, replaced by a rename or removed.  Only the managed block of the
\* orientation and the owned hooks of the settings change.
Change(f, value) == [file |-> f, value |-> value]
OrientationChange(value) == Change("orientation", value)
SettingsChange(value) == Change("settings", value)
AgentsChange(value) == Change("agents", value)
ExcludeChange == Change("exclude", 1)

\* InstallForTracks: orientation, skills, policy, retired skills, manifest.
ProjectionPlan(tracks) ==
  <<OrientationChange(tracks)>>
    \o SetToSeq({Change(f, tracks) : f \in Contents(tracks)})
    \o <<Change("policy", tracks)>>
    \o SetToSeq({Change(f, NoFile) : f \in {g \in OwnedSkills(Old) \ Contents(tracks) : managedFiles[g] = Old}})
    \o <<Change("manifest", tracks)>>
\* Uninstall: the manifest goes last.
UninstallPlan ==
  <<OrientationChange(NoFile)>>
    \o SetToSeq({Change(f, NoFile) : f \in OwnedSkills(Old)})
    \o <<Change("policy", NoFile), Change("manifest", NoFile)>>

SnapshotFiles(paths) == [f \in paths |-> managedFiles[f]]
Begin(plan, snapshot) ==
  /\ operation = NoOperation /\ operations < MaxOperations /\ operations' = operations + 1
  /\ operation' = [at |-> "change", plan |-> plan, snapshot |-> snapshot]
  /\ before' = managedFiles /\ touchedByUser' = {}
  /\ UNCHANGED <<managedFiles, editsByUser, failures>>

InstallForTracks(tracks) == TrackConflicts(tracks) = {} /\ Begin(ProjectionPlan(tracks), SnapshotFiles(SnapshotPaths(tracks)))
UninstallProjection == Old # NoFile /\ IntegrityConflicts = {} /\ Begin(UninstallPlan, SnapshotFiles(SnapshotPaths(Old)))

\* adaptercfg: hooks are merged into the user's settings, the managed agents
\* must not be the user's own files.
AgentsManaged == managedFiles["agents"] # User
HasOwnedBindings == managedFiles["settings"] # NoFile
CaptureState == SnapshotFiles(AdapterFile)
AdapterInstall == AgentsManaged /\ Begin(<<AgentsChange(1), ExcludeChange, SettingsChange(1)>>, CaptureState)
AdapterUninstall ==
  AgentsManaged /\ Begin((IF HasOwnedBindings THEN <<SettingsChange(NoFile)>> ELSE <<>>) \o <<AgentsChange(NoFile)>>, CaptureState)

ChangeNext ==
  /\ operation.at = "change"
  /\ LET c == Head(operation.plan) IN managedFiles' = [managedFiles EXCEPT ![c.file] = c.value]
  /\ operation' = IF Len(operation.plan) = 1 THEN NoOperation
                  ELSE [operation EXCEPT !.plan = Tail(@)]
  /\ UNCHANGED <<before, touchedByUser, operations, editsByUser, failures>>
\* A change fails and everything remembered is restored.
ChangeFails ==
  /\ operation.at = "change" /\ failures < MaxFailures /\ failures' = failures + 1
  /\ operation' = [at |-> "restore", plan |-> SetToSeq(DOMAIN operation.snapshot), snapshot |-> operation.snapshot]
  /\ UNCHANGED <<managedFiles, before, touchedByUser, operations, editsByUser>>
RestoreNext ==
  /\ operation.at = "restore"
  /\ LET f == Head(operation.plan) IN managedFiles' = [managedFiles EXCEPT ![f] = operation.snapshot[f]]
  /\ operation' = IF Len(operation.plan) = 1 THEN [at |-> "restored"] ELSE [operation EXCEPT !.plan = Tail(@)]
  /\ UNCHANGED <<before, touchedByUser, operations, editsByUser, failures>>
Return ==
  /\ operation.at = "restored" /\ operation' = NoOperation
  /\ UNCHANGED <<managedFiles, before, touchedByUser, operations, editsByUser, failures>>
\* The process stops; nothing resumes it.
ProjectionCrash ==
  /\ operation.at \in {"change", "restore"} /\ failures < MaxFailures /\ failures' = failures + 1
  /\ operation' = NoOperation
  /\ UNCHANGED <<managedFiles, before, touchedByUser, operations, editsByUser>>

\* The user writes or deletes a file, the manifest excepted.
UserEdits(f) ==
  /\ editsByUser < MaxEditsByUser /\ editsByUser' = editsByUser + 1
  /\ \E value \in {NoFile, User} \ {managedFiles[f]} : managedFiles' = [managedFiles EXCEPT ![f] = value]
  /\ touchedByUser' = touchedByUser \cup {f}
  /\ UNCHANGED <<operation, before, operations, failures>>

ProjectionNext ==
  \/ \E tracks \in Tracks : InstallForTracks(tracks)
  \/ UninstallProjection \/ AdapterInstall \/ AdapterUninstall
  \/ ChangeNext \/ ChangeFails \/ RestoreNext \/ Return \/ ProjectionCrash
  \/ \E f \in ManagedFile \ {"manifest"} : UserEdits(f)
ProjectionSpec == ProjectionInit /\ [][ProjectionNext]_projectionVars

-----------------------------------------------------------------------------
\* An operation that failed and was rolled back leaves the workspace as it was,
\* except where the user edited it meanwhile.
FailureLeavesNoTrace ==
  operation.at = "restored" =>
    \A f \in ManagedFile \ touchedByUser : managedFiles[f] = before[f]

\* Content of the user's own is replaced or removed only if the user wrote it
\* while an operation was under way; a conflict found before is never overruled.
UserContentKept ==
  [][\A f \in ProjectionFile :
       managedFiles[f] = User /\ managedFiles'[f] # User /\ editsByUser' = editsByUser => f \in touchedByUser]_projectionVars

\* What every operation keeps, rolled back or not.
ProjectionSafe == []FailureLeavesNoTrace /\ UserContentKept
=============================================================================
