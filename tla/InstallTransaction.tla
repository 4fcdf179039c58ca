------------------------- MODULE InstallTransaction -------------------------
(***************************************************************************)
(* Package installtx and the pending update of package updateservice: how  *)
(* an installation moves from one release to another and back.             *)
(*                                                                         *)
(* One action is one call of the file system.  A process may stop for good *)
(* before any of them, and any of them may fail (Fail).  The lock file     *)
(* names the pid that created it; a process never comes back under its pid.*)
(* A release stands for its channel, CLI version, bundle version and bytes.*)
(***************************************************************************)
EXTENDS Integers, FiniteSets

CONSTANTS
    Proc,            \* processes (pids) that install, reconcile or roll back
    MaxRelease,      \* releases are 1..MaxRelease; 0 stands for none
    WithRuntime,     \* releases that carry the optional runtime pack
    FirstCanonical,  \* first release under the canonical role authority
    MaxTx,           \* bound: prepared transactions
    MaxRollbacks,    \* bound: rollbacks begun
    MaxCrashes,      \* bound: processes that stop in the middle of a call
    MaxFaults,       \* bound: calls of the file system that fail
    Nobody           \* no process

Release == 1..MaxRelease
Tx == 1..MaxTx
Slot == 1..(MaxTx + MaxRollbacks)
None == 0

ASSUME InstallAssumption ==
    /\ MaxRelease \in Nat /\ MaxTx \in Nat /\ MaxRollbacks \in Nat
    /\ MaxCrashes \in Nat /\ MaxFaults \in Nat /\ FirstCanonical \in Nat
    /\ WithRuntime \subseteq Release
    /\ Nobody \notin Proc

VARIABLES
    state,     \* install-state.json: release, previous release, slot of its CLI
    cli,       \* release whose bytes are the active CLI; None when there is no file
    bundles,   \* releases with an installed bundle directory
    runtimes,  \* releases with an installed runtime directory
    backup,    \* recovery/cli: the bytes kept in each slot
    staged,    \* transactions whose .pending- files lie beside the targets
    receipts,  \* transactions with an activation receipt (the intent)
    plan,      \* source and target release of each prepared transaction
    pending,   \* transaction of pending-update.json
    lock,      \* creator of .activation.lock, or Nobody
    named,     \* the lock file holds the pid of its creator
    pc, call, tx,
    intent,    \* reconcile: a receipt was found before the lock was taken
    owner,     \* reconcile: the pid read from the lock file
    snapshot,  \* rollback: the state read before the lock was taken
    kept,      \* slot that holds the CLI this call moved away, or None
    rollbacks, faults,
    died,      \* history: calls in which a process stopped
    overlap,   \* history: two processes have been past the lock at once
    outdated   \* history: the pending update or receipt read before the lock had changed

files == <<state, cli, bundles, runtimes, backup, staged, receipts, plan, pending>>
locals == <<call, tx, intent, owner, snapshot, kept, rollbacks>>
history == <<faults, died, overlap, outdated>>
vars == <<files, lock, named, pc, locals, history>>

NoState == [release |-> None, previous |-> None, slot |-> None]
NoPlan == [from |-> None, to |-> None]

From(p) == plan[tx[p]].from
To(p) == plan[tx[p]].to
Goto(p, place) == pc' = [pc EXCEPT ![p] = place]
Alive(p) == pc[p] # "dead"

(* The rollback's bound on authority: no way back to a legacy role.         *)
Canonical(r) == r >= FirstCanonical

----------------------------------------------------------------------------
(* Prepare and StagePending: stage a verified release as a transaction.     *)

(* Transactions get fresh names.                                            *)
Fresh(t) == plan[t] = NoPlan /\ \A u \in 1..(t - 1) : plan[u] # NoPlan

Prepare(t, to) ==
    /\ Fresh(t)
    /\ plan' = [plan EXCEPT ![t] = [from |-> None, to |-> to]]
    /\ UNCHANGED <<state, cli, bundles, runtimes, backup, staged, receipts, pending,
                   lock, named, pc, locals, history>>

StagePending(t, to) ==
    /\ Fresh(t) /\ state # NoState /\ state.release < to
    /\ plan' = [plan EXCEPT ![t] = [from |-> state.release, to |-> to]]
    /\ pending' = t
    /\ UNCHANGED <<state, cli, bundles, runtimes, backup, staged, receipts,
                   lock, named, pc, locals, history>>

RemovePending ==
    /\ pending # None
    /\ pending' = None
    /\ UNCHANGED <<state, cli, bundles, runtimes, backup, staged, receipts, plan,
                   lock, named, pc, locals, history>>

----------------------------------------------------------------------------
(* The lock file.                                                           *)

Holding == {"owner", "check", "receipt", "stage", "backup", "bundle", "runtime",
            "place", "selfcheck", "commit", "undoCLI", "undoBackup", "undoBundle",
            "undoRuntime", "tidy", "unreceipt", "decide", "recheck", "recommit",
            "rmCLI", "mvBackup", "rmBundle", "rmStaged", "rmReceipt", "lstat",
            "revert", "reactivate", "verify", "discard", "commitBack", "unwind",
            "giveBack", "unlock"}

CreateLock(p) ==
    /\ lock = Nobody
    /\ lock' = p /\ named' = FALSE
    /\ overlap' = (overlap \/ \E q \in Proc \ {p} : pc[q] \in Holding)
    /\ Goto(p, "owner")

(* The call ends: its variables are gone.                                   *)
Forget(p) ==
    /\ Goto(p, "idle")
    /\ call' = [call EXCEPT ![p] = "none"]
    /\ tx' = [tx EXCEPT ![p] = None]
    /\ intent' = [intent EXCEPT ![p] = FALSE]
    /\ owner' = [owner EXCEPT ![p] = Nobody]
    /\ snapshot' = [snapshot EXCEPT ![p] = NoState]
    /\ kept' = [kept EXCEPT ![p] = None]
    /\ UNCHANGED rollbacks

Return(p) == Forget(p) /\ UNCHANGED <<files, lock, named, history>>

Entry(p) ==
    CASE call[p] = "activate" -> "check"
      [] call[p] = "reconcile" -> IF intent[p] THEN "decide" ELSE "unlock"
      [] call[p] = "rollback" -> "lstat"

(* The pid goes to the file this process created, which may be gone.        *)
WriteOwner(p) ==
    /\ pc[p] = "owner"
    /\ named' = (named \/ lock = p)
    /\ Goto(p, Entry(p))
    /\ UNCHANGED <<files, lock, locals, history>>

TryLock(p) ==
    /\ pc[p] = "trylock"
    /\ \/ CreateLock(p) /\ UNCHANGED <<files, locals, faults, died, outdated>>
       \/ /\ lock # Nobody /\ call[p] = "reconcile"
          /\ Goto(p, "readlock")
          /\ UNCHANGED <<files, lock, named, locals, history>>
       \/ lock # Nobody /\ call[p] = "rollback" /\ Return(p)

(* Mutant: a lock is respected even when its owner has exited.              *)
ReadLockRespectfully(p) == pc[p] = "readlock" /\ Return(p)

(* acquireReconciliationLock: the owner named in the file must have exited. *)
ReadLock(p) ==
    /\ pc[p] = "readlock"
    /\ \/ /\ lock \in Proc /\ named /\ ~Alive(lock)
          /\ owner' = [owner EXCEPT ![p] = lock]
          /\ Goto(p, "reread")
          /\ UNCHANGED <<files, lock, named, call, tx, intent, snapshot, kept,
                         rollbacks, history>>
       \/ ~(lock \in Proc /\ named /\ ~Alive(lock)) /\ Return(p)

RereadLock(p) ==
    /\ pc[p] = "reread"
    /\ \/ /\ lock = owner[p] /\ named
          /\ Goto(p, "rmlock")
          /\ UNCHANGED <<files, lock, named, locals, history>>
       \/ ~(lock = owner[p] /\ named) /\ Return(p)

RemoveStaleLock(p) ==
    /\ pc[p] = "rmlock"
    /\ \/ /\ lock # Nobody /\ lock' = Nobody /\ named' = FALSE
          /\ Goto(p, "relock")
          /\ UNCHANGED <<files, locals, history>>
       \/ lock = Nobody /\ Return(p)

Relock(p) ==
    /\ pc[p] = "relock"
    /\ \/ CreateLock(p) /\ UNCHANGED <<files, locals, faults, died, outdated>>
       \/ lock # Nobody /\ Return(p)

(* The path is removed whoever created the file that has it now.            *)
Unlock(p) ==
    /\ pc[p] = "unlock"
    /\ lock' = Nobody /\ named' = FALSE
    /\ Forget(p)
    /\ UNCHANGED <<files, history>>

----------------------------------------------------------------------------
(* Activate.                                                                *)

(* An update is activated from the pending plan (ConfirmPending).           *)
BeginActivate(p, t) ==
    /\ pc[p] = "idle" /\ plan[t] # NoPlan
    /\ t = pending \/ plan[t].from = None
    /\ CreateLock(p)
    /\ call' = [call EXCEPT ![p] = "activate"]
    /\ tx' = [tx EXCEPT ![p] = t]
    /\ UNCHANGED <<files, intent, owner, snapshot, kept, rollbacks, faults, died,
                   outdated>>

MatchesSource(t) == state.release = plan[t].from

SourceReady(p) ==
    /\ To(p) \notin bundles
    /\ MatchesSource(tx[p])
    /\ (From(p) = None) = (cli = None)

CheckSource(p) ==
    /\ pc[p] = "check"
    /\ Goto(p, IF ~SourceReady(p) THEN "unlock"
               ELSE IF From(p) = None THEN "stage" ELSE "receipt")
    /\ UNCHANGED <<files, lock, named, locals, history>>

WriteReceipt(p) ==
    /\ pc[p] = "receipt"
    /\ receipts' = receipts \cup {tx[p]}
    /\ Goto(p, "stage")
    /\ UNCHANGED <<state, cli, bundles, runtimes, backup, staged, plan, pending,
                   lock, named, locals, history>>

(* The pending CLI is created exclusively: a leftover stops the activation. *)
StagePayload(p) ==
    /\ pc[p] = "stage"
    /\ staged' = staged \cup {tx[p]}
    /\ Goto(p, IF tx[p] \in staged THEN "unreceipt" ELSE "backup")
    /\ UNCHANGED <<state, cli, bundles, runtimes, backup, receipts, plan, pending,
                   lock, named, locals, history>>

(* An update finds an active CLI here unless a second process is past the   *)
(* lock (overlap); its backup is the slot of the transaction.               *)
BackupCLI(p) ==
    /\ pc[p] = "backup"
    /\ IF cli # None
       THEN /\ backup' = [backup EXCEPT ![tx[p]] = cli]
            /\ cli' = None
            /\ kept' = [kept EXCEPT ![p] = tx[p]]
       ELSE UNCHANGED <<backup, cli, kept>>
    /\ Goto(p, "bundle")
    /\ UNCHANGED <<state, bundles, runtimes, staged, receipts, plan, pending, lock, named,
                   call, tx, intent, owner, snapshot, rollbacks, history>>

(* A directory is not renamed over another one.                             *)
PlaceBundle(p) ==
    /\ pc[p] = "bundle"
    /\ bundles' = bundles \cup {To(p)}
    /\ Goto(p, IF To(p) \in bundles THEN "undoCLI"
               ELSE IF To(p) \in WithRuntime THEN "runtime" ELSE "place")
    /\ UNCHANGED <<state, cli, runtimes, backup, staged, receipts, plan, pending,
                   lock, named, locals, history>>

PlaceRuntime(p) ==
    /\ pc[p] = "runtime"
    /\ runtimes' = runtimes \cup {To(p)}
    /\ Goto(p, IF To(p) \in runtimes THEN "undoCLI" ELSE "place")
    /\ UNCHANGED <<state, cli, bundles, backup, staged, receipts, plan, pending,
                   lock, named, locals, history>>

PlaceCLI(p) ==
    /\ pc[p] = "place"
    /\ IF tx[p] \in staged
       THEN cli' = To(p) /\ staged' = staged \ {tx[p]} /\ Goto(p, "selfcheck")
       ELSE UNCHANGED <<cli, staged>> /\ Goto(p, "undoCLI")
    /\ UNCHANGED <<state, bundles, runtimes, backup, receipts, plan, pending,
                   lock, named, locals, history>>

(* The active CLI is run: it must report the version, and it may fail to.   *)
SelfCheck(p, place, version, passed, failed) ==
    /\ pc[p] = place
    /\ \/ cli = version /\ Goto(p, passed)
       \/ Goto(p, failed)
    /\ UNCHANGED <<files, lock, named, locals, history>>

CheckActivated(p) == SelfCheck(p, "selfcheck", To(p), "commit", "undoCLI")

(* committedTargetState: what both Activate and ReconcileActivated write.   *)
TargetState(t) ==
    [release |-> plan[t].to, previous |-> plan[t].from,
     slot |-> IF plan[t].from = None THEN None ELSE t]

WriteState(p, place, s) ==
    /\ pc[p] = place
    /\ state' = s
    /\ Goto(p, "unlock")
    /\ UNCHANGED <<cli, bundles, runtimes, backup, staged, receipts, plan, pending,
                   lock, named, locals, history>>

CommitState(p) == WriteState(p, "commit", TargetState(tx[p]))

(* restore(): undo whatever was placed, ignoring errors.                    *)
UndoCLI(p) ==
    /\ pc[p] = "undoCLI"
    /\ cli' = None
    /\ Goto(p, IF kept[p] = None THEN "undoBundle" ELSE "undoBackup")
    /\ UNCHANGED <<state, bundles, runtimes, backup, staged, receipts, plan, pending,
                   lock, named, locals, history>>

(* A slot is renamed over the active CLI; an empty slot cannot be.          *)
Reinstate(slot) ==
    IF backup[slot] = None THEN UNCHANGED <<cli, backup>>
    ELSE cli' = backup[slot] /\ backup' = [backup EXCEPT ![slot] = None]

UndoBackup(p) ==
    /\ pc[p] = "undoBackup"
    /\ Reinstate(kept[p])
    /\ Goto(p, "undoBundle")
    /\ UNCHANGED <<state, bundles, runtimes, staged, receipts, plan, pending,
                   lock, named, locals, history>>

UndoBundle(p) ==
    /\ pc[p] = "undoBundle"
    /\ bundles' = bundles \ {To(p)}
    /\ Goto(p, "undoRuntime")
    /\ UNCHANGED <<state, cli, runtimes, backup, staged, receipts, plan, pending,
                   lock, named, locals, history>>

UndoRuntime(p) ==
    /\ pc[p] = "undoRuntime"
    /\ runtimes' = runtimes \ ({To(p)} \cap WithRuntime)
    /\ Goto(p, "tidy")
    /\ UNCHANGED <<state, cli, bundles, backup, staged, receipts, plan, pending,
                   lock, named, locals, history>>

(* The deferred clean-up of a failed activation, in the order it runs.      *)
RemoveStaged(p, place, then) ==
    /\ pc[p] = place
    /\ staged' = staged \ {tx[p]}
    /\ Goto(p, then)
    /\ UNCHANGED <<state, cli, bundles, runtimes, backup, receipts, plan, pending,
                   lock, named, locals, history>>

RemoveReceipt(p, place) ==
    /\ pc[p] = place
    /\ receipts' = receipts \ {tx[p]}
    /\ Goto(p, "unlock")
    /\ UNCHANGED <<state, cli, bundles, runtimes, backup, staged, plan, pending,
                   lock, named, locals, history>>

Tidy(p) == RemoveStaged(p, "tidy", "unreceipt") \/ RemoveReceipt(p, "unreceipt")

----------------------------------------------------------------------------
(* ReconcilePending and ReconcileActivated.                                 *)

BeginReconcile(p) ==
    /\ pc[p] = "idle" /\ pending # None
    /\ Goto(p, "trylock")
    /\ call' = [call EXCEPT ![p] = "reconcile"]
    /\ tx' = [tx EXCEPT ![p] = pending]
    /\ intent' = [intent EXCEPT ![p] = pending \in receipts]
    /\ UNCHANGED <<files, lock, named, owner, snapshot, kept, rollbacks, history>>

PayloadInstalled(p) == cli = To(p) /\ To(p) \in bundles

(* The first step of restoreInterruptedActivation: is there a backup?       *)
RestoreEntry(p) ==
    IF backup[tx[p]] # None THEN "rmCLI" ELSE IF cli # None THEN "rmBundle" ELSE "unlock"

(* Mutant: the active CLI is removed before looking for its backup.         *)
DecideHastily(p) ==
    /\ pc[p] = "decide"
    /\ Goto(p, IF ~MatchesSource(tx[p]) THEN "unlock"
               ELSE IF PayloadInstalled(p) /\ backup[tx[p]] # None THEN "recheck"
               ELSE "rmCLI")
    /\ outdated' = (outdated \/ tx[p] # pending \/ tx[p] \notin receipts)
    /\ UNCHANGED <<files, lock, named, locals, faults, died, overlap>>

(* A state that is neither the source is the committed target, whose        *)
(* payload is only verified, or an error; neither changes anything.         *)
Decide(p) ==
    /\ pc[p] = "decide"
    /\ Goto(p, IF ~MatchesSource(tx[p]) THEN "unlock"
               ELSE IF PayloadInstalled(p) /\ backup[tx[p]] # None THEN "recheck"
               ELSE RestoreEntry(p))
    /\ outdated' = (outdated \/ tx[p] # pending \/ tx[p] \notin receipts)
    /\ UNCHANGED <<files, lock, named, locals, faults, died, overlap>>

CheckInterrupted(p) == SelfCheck(p, "recheck", To(p), "recommit", RestoreEntry(p))

CompleteState(p) == WriteState(p, "recommit", TargetState(tx[p]))

RemoveActiveCLI(p, place, then) ==
    /\ pc[p] = place
    /\ cli' = None
    /\ Goto(p, then)
    /\ UNCHANGED <<state, bundles, runtimes, backup, staged, receipts, plan, pending,
                   lock, named, locals, history>>

RestoreCLI(p) ==
    \/ RemoveActiveCLI(p, "rmCLI", "mvBackup")
    \/ /\ pc[p] = "mvBackup"
       /\ Reinstate(tx[p])
       /\ Goto(p, IF backup[tx[p]] = None THEN "unlock" ELSE "rmBundle")
       /\ UNCHANGED <<state, bundles, runtimes, staged, receipts, plan, pending,
                      lock, named, locals, history>>

(* The runtime directory is left behind.                                    *)
RestoreRest(p) ==
    \/ /\ pc[p] = "rmBundle"
       /\ bundles' = bundles \ {To(p)}
       /\ Goto(p, "rmStaged")
       /\ UNCHANGED <<state, cli, runtimes, backup, staged, receipts, plan, pending,
                      lock, named, locals, history>>
    \/ RemoveStaged(p, "rmStaged", "rmReceipt")
    \/ RemoveReceipt(p, "rmReceipt")

----------------------------------------------------------------------------
(* Rollback.                                                                *)

(* The state, and the authority to go back, are read before the lock.       *)
BeginRollback(p) ==
    /\ pc[p] = "idle" /\ state.previous # None
    /\ Canonical(state.release) => Canonical(state.previous)
    /\ rollbacks < MaxRollbacks
    /\ rollbacks' = rollbacks + 1
    /\ kept' = [kept EXCEPT ![p] = MaxTx + rollbacks + 1]
    /\ snapshot' = [snapshot EXCEPT ![p] = state]
    /\ call' = [call EXCEPT ![p] = "rollback"]
    /\ Goto(p, "trylock")
    /\ UNCHANGED <<files, lock, named, tx, intent, owner, history>>

FindPrevious(p) ==
    /\ pc[p] = "lstat"
    /\ Goto(p, IF backup[snapshot[p].slot] = None THEN "unlock" ELSE "revert")
    /\ UNCHANGED <<files, lock, named, locals, history>>

(* The active CLI is moved to a slot; with no active CLI that fails.        *)
MoveAside(p, place, slot, then, failed) ==
    /\ pc[p] = place
    /\ IF cli # None
       THEN /\ backup' = [backup EXCEPT ![slot] = cli]
            /\ cli' = None
            /\ Goto(p, then)
       ELSE UNCHANGED <<backup, cli>> /\ Goto(p, failed)
    /\ UNCHANGED <<state, bundles, runtimes, staged, receipts, plan, pending,
                   lock, named, locals, history>>

RevertCLI(p) == MoveAside(p, "revert", kept[p], "reactivate", "unlock")

ReactivateCLI(p) ==
    /\ pc[p] = "reactivate"
    /\ Reinstate(snapshot[p].slot)
    /\ Goto(p, IF backup[snapshot[p].slot] = None THEN "giveBack" ELSE "verify")
    /\ UNCHANGED <<state, bundles, runtimes, staged, receipts, plan, pending,
                   lock, named, locals, history>>

CheckPrevious(p) == SelfCheck(p, "verify", snapshot[p].previous, "commitBack", "discard")

(* A previous CLI that fails its self-check is removed for good.            *)
DiscardPrevious(p) == RemoveActiveCLI(p, "discard", "giveBack")

CommitBack(p) ==
    WriteState(p, "commitBack", [release |-> snapshot[p].previous,
                                 previous |-> snapshot[p].release, slot |-> kept[p]])

Unwind(p) == MoveAside(p, "unwind", snapshot[p].slot, "giveBack", "giveBack")

GiveBack(p) ==
    /\ pc[p] = "giveBack"
    /\ Reinstate(kept[p])
    /\ Goto(p, "unlock")
    /\ UNCHANGED <<state, bundles, runtimes, staged, receipts, plan, pending,
                   lock, named, locals, history>>

----------------------------------------------------------------------------
(* A call of the file system fails: where its caller goes on.               *)

OnError ==
    [owner |-> "unlock", check |-> "unlock", decide |-> "unlock", lstat |-> "unlock",
     receipt |-> "unlock", stage |-> "unreceipt", backup |-> "tidy",
     bundle |-> "undoCLI", runtime |-> "undoCLI", place |-> "undoCLI",
     commit |-> "undoCLI", undoBackup |-> "undoBundle", recommit |-> "unlock",
     rmCLI |-> "unlock", mvBackup |-> "unlock", rmBundle |-> "unlock",
     rmStaged |-> "unlock", rmReceipt |-> "unlock", revert |-> "unlock",
     reactivate |-> "giveBack", commitBack |-> "unwind", unwind |-> "giveBack",
     giveBack |-> "unlock"]

Fail(p) ==
    /\ pc[p] \in DOMAIN OnError /\ faults < MaxFaults
    /\ faults' = faults + 1
    /\ Goto(p, OnError[pc[p]])
    /\ UNCHANGED <<files, lock, named, locals, died, overlap, outdated>>

Crash(p) ==
    /\ pc[p] \notin {"idle", "dead"}
    /\ Cardinality({q \in Proc : pc[q] = "dead"}) < MaxCrashes
    /\ Goto(p, "dead")
    /\ died' = died \cup {call[p]}
    /\ UNCHANGED <<files, lock, named, locals, faults, overlap, outdated>>

----------------------------------------------------------------------------
Init ==
    /\ state = NoState /\ cli = None
    /\ bundles = {} /\ runtimes = {} /\ staged = {} /\ receipts = {}
    /\ backup = [s \in Slot |-> None]
    /\ plan = [t \in Tx |-> NoPlan] /\ pending = None
    /\ lock = Nobody /\ named = FALSE
    /\ pc = [p \in Proc |-> "idle"]
    /\ call = [p \in Proc |-> "none"]
    /\ tx = [p \in Proc |-> None]
    /\ intent = [p \in Proc |-> FALSE]
    /\ owner = [p \in Proc |-> Nobody]
    /\ snapshot = [p \in Proc |-> NoState]
    /\ kept = [p \in Proc |-> None]
    /\ rollbacks = 0 /\ faults = 0 /\ died = {}
    /\ overlap = FALSE /\ outdated = FALSE

Locking(p) ==
    \/ WriteOwner(p) \/ TryLock(p) \/ ReadLock(p) \/ RereadLock(p)
    \/ RemoveStaleLock(p) \/ Relock(p) \/ Unlock(p)

Activating(p) ==
    \/ CheckSource(p) \/ WriteReceipt(p) \/ StagePayload(p) \/ BackupCLI(p)
    \/ PlaceBundle(p) \/ PlaceRuntime(p) \/ PlaceCLI(p) \/ CheckActivated(p)
    \/ CommitState(p) \/ UndoCLI(p) \/ UndoBackup(p) \/ UndoBundle(p)
    \/ UndoRuntime(p) \/ Tidy(p)

Reconciling(p) ==
    \/ Decide(p) \/ CheckInterrupted(p) \/ CompleteState(p)
    \/ RestoreCLI(p) \/ RestoreRest(p)

RollingBack(p) ==
    \/ FindPrevious(p) \/ RevertCLI(p) \/ ReactivateCLI(p) \/ CheckPrevious(p)
    \/ DiscardPrevious(p) \/ CommitBack(p) \/ Unwind(p) \/ GiveBack(p)

Running(p) == Locking(p) \/ Activating(p) \/ Reconciling(p) \/ RollingBack(p)

Next ==
    \/ \E t \in Tx, r \in Release : Prepare(t, r) \/ StagePending(t, r)
    \/ RemovePending
    \/ \E p \in Proc :
         \/ Running(p) \/ Fail(p) \/ Crash(p)
         \/ BeginReconcile(p) \/ BeginRollback(p)
         \/ \E t \in Tx : BeginActivate(p, t)

Spec == Init /\ [][Next]_vars

(* A process in a call keeps running unless it stops, and whoever goes on   *)
(* using the installation reconciles the pending update again and again.    *)
Fairness ==
    \A p \in Proc : WF_vars(Running(p)) /\ SF_vars(BeginReconcile(p))
FairSpec == Spec /\ Fairness

----------------------------------------------------------------------------
(* Properties.                                                              *)

(* SourceNeverLost: the bytes of the release that the state names are the   *)
(* active CLI or kept in a slot, at every step of Activate, of              *)
(* ReconcileActivated and of Rollback, whatever fails and wherever a        *)
(* process stops.  Not covered: two processes past the lock at once (two    *)
(* reconcilers that remove the same stale lock), and a reconciler that read *)
(* a pending update or a receipt before the lock which changed before it.   *)
SourceNeverLost ==
    state # NoState /\ ~overlap /\ ~outdated =>
        cli = state.release \/ \E s \in Slot : backup[s] = state.release

(* An update whose receipt is there while the state still is its source.    *)
Interrupted(t) == t \in receipts /\ MatchesSource(t)

Quiet == lock = Nobody /\ \A p \in Proc : pc[p] \in {"idle", "dead"}

(* Settled: when nobody is at work and no update is left interrupted, the   *)
(* active CLI is the one the state names.  A process that stopped inside    *)
(* Rollback and a failed compensation (restore() ignores its errors) are    *)
(* not covered: for them there is no receipt to recover from.               *)
Settled ==
    Quiet /\ faults = 0 /\ "rollback" \notin died /\ ~overlap /\ ~outdated
        /\ (\A t \in Tx : ~Interrupted(t))
    => cli = state.release

(* ReleaseKept: the release that the state names is never lost, and is the  *)
(* active one once nothing is left to recover.                              *)
ReleaseKept == SourceNeverLost /\ Settled

(* Recovered: an update interrupted by a process that stopped is completed  *)
(* or undone by ReconcilePending.  Excepted are a lock file without its pid *)
(* (acquireReconciliationLock calls it malformed), a stopped Rollback, and  *)
(* a pending update that was removed or replaced.                           *)
LockUnnamed == lock # Nobody /\ ~named
Recovered ==
    \A t \in Tx :
        Interrupted(t) /\ pending = t ~>
            ~Interrupted(t) \/ pending # t \/ LockUnnamed \/ "rollback" \in died
=============================================================================
