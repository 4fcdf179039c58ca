---------------------------- MODULE FirstInstall ----------------------------
(***************************************************************************)
(* The first installation of a verified release.  The installer looks at   *)
(* the managed root and the install state, moves what an interrupted       *)
(* installation left into the recovery of its plan, stages the trust files *)
(* and runs the bootstrapper, which fills the root and then writes the     *)
(* state.  No lock is taken, and an installer may stop anywhere.           *)
(***************************************************************************)
EXTENDS Naturals, FiniteSets

CONSTANTS Installer,
          InstallPlan,         \* plan digests, one release each
          MaxAttempts,         \* installations begun
          MaxInstallCrashes

VARIABLES rootDir,             \* the managed root: who made it and its entries
          stateFile,           \* config/install-state.json
          rootBackup,          \* <root>.interrupted-<plan>
          stateBackup,         \* recovery/installer/<plan>/install-state.json
          recordFile,          \* recovery/installer/<plan>/recovery.json
          installer,           \* where each installer is
          attempts,            \* installations begun so far
          durable,             \* installations whose state was written
          installCrashes

installVars == <<rootDir, stateFile, rootBackup, stateBackup, recordFile, installer, attempts, durable, installCrashes>>

Owned == {"trust", "registry", "bootstrapper", "product"}
NoRoot == [by |-> 0, has |-> {"absent"}]
NoState == [by |-> 0, plan |-> "none"]
NoRecord == [status |-> "none", reason |-> "none"]
Resting == [at |-> "idle", plan |-> "none", id |-> 0, reason |-> "none", root |-> FALSE, then |-> "idle", result |-> "none"]

\* A managed root may hold something of the user's before the first installation.
InstallInit ==
  /\ rootDir \in {NoRoot, [by |-> 0, has |-> {}], [by |-> 0, has |-> {"foreign"}]}
  /\ stateFile = NoState /\ rootBackup = [p \in InstallPlan |-> NoRoot]
  /\ stateBackup = [p \in InstallPlan |-> NoState] /\ recordFile = [p \in InstallPlan |-> NoRecord]
  /\ installer = [i \in Installer |-> Resting] /\ attempts = 0 /\ durable = {} /\ installCrashes = 0

StateExists == stateFile # NoState
StructureComplete == Owned \subseteq rootDir.has

-----------------------------------------------------------------------------
AtStep(i, step) == installer[i].at = step
GoTo(i, step) == installer' = [installer EXCEPT ![i].at = step]
Stop(i, result) == installer' = [installer EXCEPT ![i] = [Resting EXCEPT !.result = result]]
Quarantine(i, reason, includeRoot, then) ==
  installer' = [installer EXCEPT ![i] =
    [@ EXCEPT !.at = "record", !.reason = reason, !.root = includeRoot, !.then = then]]
FilesStay == UNCHANGED <<rootDir, stateFile, rootBackup, stateBackup, recordFile, durable>>

\* Install: the package is verified and bound to its plan.
PrepareInstall(i, p) ==
  /\ AtStep(i, "idle") /\ attempts < MaxAttempts
  /\ attempts' = attempts + 1
  /\ installer' = [installer EXCEPT ![i] = [Resting EXCEPT !.at = "inspect", !.plan = p, !.id = attempts + 1]]
  /\ UNCHANGED installCrashes /\ FilesStay

\* prepareManagedRoot: a healthy installation is kept, an unknown root is
\* refused, and what an interruption left is moved away first.
PrepareManagedRoot(i) ==
  LET p == installer[i].plan IN
  /\ AtStep(i, "inspect")
  /\ \/ ~StateExists /\ rootDir.has \in {{"absent"}, {}} /\ GoTo(i, "mkdir")
     \/ StateExists /\ rootDir = NoRoot /\ Quarantine(i, "orphan", FALSE, "mkdir")
     \/ /\ StateExists /\ StructureComplete
        /\ \/ stateFile.plan # p /\ Stop(i, "update_instead")
           \/ stateFile.plan = p /\ Stop(i, "already_installed")
           \/ stateFile.plan = p /\ Quarantine(i, "trust", TRUE, "mkdir")
     \/ StateExists /\ rootDir # NoRoot /\ Quarantine(i, "stale", TRUE, "mkdir")
     \/ ~StateExists /\ "foreign" \in rootDir.has /\ Stop(i, "unrecognized")
     \/ ~StateExists /\ rootDir.has \subseteq Owned /\ rootDir.has # {} /\ Quarantine(i, "interrupted", TRUE, "mkdir")
  /\ UNCHANGED <<attempts, installCrashes>> /\ FilesStay

\* quarantineInterruptedInstall: the record of the plan is made once; one that was
\* begun is resumed for the same reason, and a completed one is never reopened.
PrepareRecoveryRecord(i) ==
  LET p == installer[i].plan
      mine == [status |-> "prepared", reason |-> installer[i].reason] IN
  /\ AtStep(i, "record")
  /\ \/ recordFile[p] \in {NoRecord, mine} /\ recordFile' = [recordFile EXCEPT ![p] = mine] /\ GoTo(i, "state")
     \/ recordFile[p] \notin {NoRecord, mine} /\ Stop(i, "preserved") /\ UNCHANGED recordFile
  /\ UNCHANGED <<rootDir, stateFile, rootBackup, stateBackup, attempts, durable, installCrashes>>

StateMovable(p) == stateBackup[p] = NoState
MoveState(i) ==
  LET p == installer[i].plan
      next == IF installer[i].root THEN "root" ELSE "complete" IN
  /\ AtStep(i, "state")
  /\ \/ ~StateExists /\ GoTo(i, next) /\ UNCHANGED <<stateFile, stateBackup>>
     \/ /\ StateExists /\ StateMovable(p) /\ GoTo(i, next)
        /\ stateBackup' = [stateBackup EXCEPT ![p] = stateFile] /\ stateFile' = NoState
     \/ StateExists /\ ~StateMovable(p) /\ Stop(i, "preserved") /\ UNCHANGED <<stateFile, stateBackup>>
  /\ UNCHANGED <<rootDir, rootBackup, recordFile, attempts, durable, installCrashes>>

RootMovable(p) == rootBackup[p] = NoRoot
MoveRoot(i) ==
  LET p == installer[i].plan IN
  /\ AtStep(i, "root")
  /\ \/ rootDir = NoRoot /\ GoTo(i, "complete") /\ UNCHANGED <<rootDir, rootBackup>>
     \/ /\ rootDir # NoRoot /\ RootMovable(p) /\ GoTo(i, "complete")
        /\ rootBackup' = [rootBackup EXCEPT ![p] = rootDir] /\ rootDir' = NoRoot
     \/ rootDir # NoRoot /\ ~RootMovable(p) /\ Stop(i, "preserved") /\ UNCHANGED <<rootDir, rootBackup>>
  /\ UNCHANGED <<stateFile, stateBackup, recordFile, attempts, durable, installCrashes>>

CompleteRecovery(i) ==
  /\ AtStep(i, "complete")
  /\ recordFile' = [recordFile EXCEPT ![installer[i].plan].status = "quarantined"]
  /\ IF installer[i].then = "idle" THEN Stop(i, "quarantined") ELSE GoTo(i, installer[i].then)
  /\ UNCHANGED <<rootDir, stateFile, rootBackup, stateBackup, attempts, durable, installCrashes>>

-----------------------------------------------------------------------------
\* Staging.  Every directory is made with its parents and every file exclusively;
\* a failure removes the whole managed root.
With(entries, i) ==
  IF rootDir = NoRoot THEN [by |-> installer[i].id, has |-> entries]
  ELSE [rootDir EXCEPT !.has = @ \cup entries,
                       !.by = IF @ = 0 THEN installer[i].id ELSE @]
Cleanup(i) == rootDir' = NoRoot /\ Stop(i, "failed")

MkdirTrust(i) ==
  /\ AtStep(i, "mkdir") /\ rootDir' = With({"trust"}, i) /\ GoTo(i, "registry")
  /\ UNCHANGED <<stateFile, rootBackup, stateBackup, recordFile, attempts, durable, installCrashes>>

CopyRegular(i, step, file, dirs, next) ==
  /\ AtStep(i, step)
  /\ \/ file \notin rootDir.has /\ rootDir' = With({file} \cup dirs, i) /\ GoTo(i, next)
     \/ Cleanup(i)
  /\ UNCHANGED <<stateFile, rootBackup, stateBackup, recordFile, attempts, durable, installCrashes>>
CopyRegistry(i) == CopyRegular(i, "registry", "registry", {"trust"}, "bootstrapper")
CopyBootstrapper(i) == CopyRegular(i, "bootstrapper", "bootstrapper", {}, "verify")

\* Digests, native signature and seed of the staged files.
VerifyStaged(i) ==
  /\ AtStep(i, "verify")
  /\ \/ {"registry", "bootstrapper"} \subseteq rootDir.has /\ GoTo(i, "fill") /\ UNCHANGED rootDir
     \/ Cleanup(i)
  /\ UNCHANGED <<stateFile, rootBackup, stateBackup, recordFile, attempts, durable, installCrashes>>

\* The bootstrapper, from how Install runs it: it puts the product into the root
\* and then writes the state; it may fail before, between and after.
BootstrapFill(i) ==
  /\ AtStep(i, "fill") /\ "bootstrapper" \in rootDir.has
  /\ rootDir' = With({"product"}, i) /\ GoTo(i, "write")
  /\ UNCHANGED <<stateFile, rootBackup, stateBackup, recordFile, attempts, durable, installCrashes>>
BootstrapState(i) ==
  /\ AtStep(i, "write") /\ rootDir # NoRoot
  /\ stateFile' = [by |-> rootDir.by, plan |-> installer[i].plan] /\ durable' = durable \cup {rootDir.by}
  /\ GoTo(i, "diagnose")
  /\ UNCHANGED <<rootDir, rootBackup, stateBackup, recordFile, attempts, installCrashes>>

\* A failed bootstrapper: with a state the installation is preserved, without one
\* the root is removed.
MayRemoveAlways == TRUE
MayRemove == ~StateExists
BootstrapFails(i) ==
  /\ installer[i].at \in {"fill", "write", "diagnose"}
  /\ \/ MayRemove /\ Cleanup(i)
     \/ ~MayRemove /\ Quarantine(i, "bootstrapper", TRUE, "idle") /\ UNCHANGED rootDir
  /\ UNCHANGED <<stateFile, rootBackup, stateBackup, recordFile, attempts, durable, installCrashes>>

\* The final diagnostic: the installed CLI answers with its version and the state
\* and the structure are those of the plan.
Diagnose(i) ==
  /\ AtStep(i, "diagnose")
  /\ \/ StructureComplete /\ stateFile.plan = installer[i].plan /\ Stop(i, "installed")
     \/ Quarantine(i, "diagnostic", TRUE, "idle")
  /\ UNCHANGED <<attempts, installCrashes>> /\ FilesStay

\* The process dies; a record being created may stay empty.
InstallerCrash(i) ==
  LET p == installer[i].plan IN
  /\ installer[i].at # "idle" /\ installCrashes < MaxInstallCrashes
  /\ installCrashes' = installCrashes + 1 /\ Stop(i, "none")
  /\ \/ UNCHANGED recordFile
     \/ /\ AtStep(i, "record") /\ recordFile[p] = NoRecord
        /\ recordFile' = [recordFile EXCEPT ![p] = [status |-> "torn", reason |-> "none"]]
  /\ UNCHANGED <<rootDir, stateFile, rootBackup, stateBackup, attempts, durable>>

InstallNext ==
  \E i \in Installer :
     \/ \E p \in InstallPlan : PrepareInstall(i, p)
     \/ PrepareManagedRoot(i) \/ PrepareRecoveryRecord(i) \/ MoveState(i) \/ MoveRoot(i) \/ CompleteRecovery(i)
     \/ MkdirTrust(i) \/ CopyRegistry(i) \/ CopyBootstrapper(i) \/ VerifyStaged(i)
     \/ BootstrapFill(i) \/ BootstrapState(i) \/ BootstrapFails(i) \/ Diagnose(i) \/ InstallerCrash(i)

InstallSpec == InstallInit /\ [][InstallNext]_installVars

-----------------------------------------------------------------------------
\* Install "removes only the newly-created managed root if the bootstrapper fails
\* before activation": an installation whose state became durable is never lost.
\* Its root and its state are in place or in the recovery of some plan, whatever
\* failures, restarts and quarantines come after it.
InstallationKept ==
  \A a \in durable :
     /\ rootDir.by = a \/ \E p \in InstallPlan : rootBackup[p].by = a
     /\ stateFile.by = a \/ \E p \in InstallPlan : stateBackup[p].by = a
=============================================================================
