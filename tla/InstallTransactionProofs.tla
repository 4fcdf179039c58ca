---------------------- MODULE InstallTransactionProofs ----------------------
(***************************************************************************)
(* What is proved of the installation transactions: with two processes,    *)
(* for any releases, transactions, rollbacks, failing calls and stops, the *)
(* release that the state names is kept.                                   *)
(*                                                                         *)
(* The invariant has three parts.  Ordered: one process is past the lock,  *)
(* what a call remembers is a state that was once written, and the slot of *)
(* a rollback is its own.  Safe: where the release is kept that the state  *)
(* names, at each place of each call.  Vacant: the same before there is a  *)
(* state.                                                                  *)
(***************************************************************************)
EXTENDS InstallTransaction, TLAPS

----------------------------------------------------------------------------
(* The places of a call.                                                    *)
Waiting == {"trylock", "readlock", "reread", "rmlock", "relock"}
Activation == {"check", "receipt", "stage", "backup", "bundle", "runtime", "place", "selfcheck",
               "commit", "undoCLI", "undoBackup", "undoBundle", "undoRuntime", "tidy", "unreceipt"}
Reconciliation == {"recheck", "recommit", "rmCLI", "mvBackup", "rmBundle", "rmStaged", "rmReceipt"}
Reversal == {"lstat", "revert", "reactivate", "verify", "discard", "commitBack", "unwind", "giveBack"}
Places == Holding \cup Waiting \cup {"idle", "dead"}
Dead(p) == pc[p] = "dead"

StateFile == [release : Release, previous : Release \cup {None}, slot : Slot \cup {None}] \cup {NoState}
InstallTyped ==
  /\ state \in StateFile
  /\ cli \in Release \cup {None}
  /\ bundles \subseteq Release
  /\ backup \in [Slot -> Release \cup {None}]
  /\ receipts \subseteq Tx
  /\ plan \in [Tx -> [from : Release \cup {None}, to : Release \cup {None}]]
  /\ pending \in Tx \cup {None}
  /\ lock \in Proc \cup {Nobody}
  /\ pc \in [Proc -> Places]
  /\ call \in [Proc -> {"none", "activate", "reconcile", "rollback"}]
  /\ tx \in [Proc -> Tx \cup {None}]
  /\ owner \in [Proc -> Proc \cup {Nobody}]
  /\ snapshot \in [Proc -> StateFile]
  /\ kept \in [Proc -> Slot \cup {None}]
  /\ rollbacks \in 0..MaxRollbacks /\ faults \in Nat

\* What a process is doing tells the places it can be at.
CallAt(p) ==
  /\ pc[p] = "idle" => call[p] = "none" /\ kept[p] = None
  /\ pc[p] \in Activation => call[p] = "activate"
  /\ pc[p] \in Reconciliation \cup {"decide", "readlock", "reread", "rmlock", "relock"} =>
       call[p] = "reconcile"
  /\ pc[p] \in Reversal => call[p] = "rollback"
  /\ pc[p] = "trylock" => call[p] \in {"reconcile", "rollback"}
  /\ pc[p] \in {"owner", "unlock"} => call[p] # "none"
  /\ call[p] = "activate" /\ pc[p] \in {"owner", "check", "receipt", "stage", "backup"} => kept[p] = None
  /\ pc[p] = "undoBackup" => kept[p] # None
  /\ call[p] \in {"activate", "reconcile"} => tx[p] # None /\ plan[tx[p]] # NoPlan
  /\ call[p] = "rollback" => snapshot[p].previous # None /\ snapshot[p].slot # None /\ kept[p] # None
Calling == \A p \in Proc : CallAt(p)
Sourced ==
  /\ \A t \in Tx : plan[t] # NoPlan => plan[t].to \in Release /\ plan[t].from < plan[t].to
  /\ state.previous # None => state.slot # None
  /\ pending # None => plan[pending] # NoPlan
Shaped == InstallTyped /\ Calling /\ Sourced

\* A transaction has a slot, and a file that is there is a record.
LEMMA SlotsAndFiles ==
  /\ \A t \in Tx : t \in Slot
  /\ \A s \in StateFile : s.previous # None => s.previous \in Release /\ s.release \in Release /\ s # NoState
  /\ \A s \in StateFile : s # NoState => s.release \in Release
  /\ \A s \in StateFile : s.slot \in Slot \cup {None}
<1>1. \A t \in Tx : t \in Slot
  BY InstallAssumption DEF Tx, Slot
<1> QED
  BY <1>1 DEF StateFile, NoState, None, Release

\* The record of a state is one.
LEMMA RecordIsFile ==
  ASSUME NEW r \in Release, NEW b \in Release \cup {None}, NEW s \in Slot \cup {None}
  PROVE  [release |-> r, previous |-> b, slot |-> s] \in StateFile
  BY DEF StateFile

\* What an activation commits names where it came from, unless it is the first.
LEMMA TargetIsFile ==
  ASSUME Shaped, NEW t \in Tx, plan[t] # NoPlan
  PROVE  /\ TargetState(t) \in StateFile
         /\ TargetState(t).previous # None => TargetState(t).slot # None
<1>1. plan[t].to \in Release /\ plan[t].from \in Release \cup {None} /\ t \in Slot
  BY SlotsAndFiles DEF Shaped, InstallTyped, Sourced
<1>2. (IF plan[t].from = None THEN None ELSE t) \in Slot \cup {None}
  BY <1>1
<1>3. TargetState(t) \in StateFile
  BY <1>1, <1>2, RecordIsFile DEF TargetState
<1>4. TargetState(t).previous = plan[t].from /\ (plan[t].from # None => TargetState(t).slot = t)
  BY DEF TargetState
<1>5. t # None
  BY DEF Tx, None
<1> QED
  BY <1>3, <1>4, <1>5

\* A step of a process in a call that changes no more than the installation
\* and its own place.
LEMMA HolderShaped ==
  ASSUME NEW p \in Proc, Shaped, pc' \in [Proc -> Places],
         \A q \in Proc \ {p} : pc'[q] = pc[q] /\ kept'[q] = kept[q],
         UNCHANGED <<plan, pending, lock, call, tx, owner, snapshot, rollbacks, faults>>,
         state' \in StateFile, cli' \in Release \cup {None}, bundles' \subseteq Release,
         backup' \in [Slot -> Release \cup {None}], receipts' \subseteq Tx,
         kept' \in [Proc -> Slot \cup {None}],
         state'.previous # None => state'.slot # None, CallAt(p)'
  PROVE  Shaped'
<1>1. InstallTyped'
  BY DEF Shaped, InstallTyped
<1>2. ASSUME NEW q \in Proc \ {p} PROVE CallAt(q)'
  BY DEF Shaped, Calling, CallAt
<1> QED
  BY <1>1, <1>2 DEF Shaped, Calling, Sourced

\* Activate keeps the shape of the state.
LEMMA ActivatingShaped ==
  ASSUME NEW p \in Proc, Shaped, Activating(p)
  PROVE  Shaped'
<1>1. CASE CheckSource(p)
  <2>1. pc' \in [Proc -> Places] /\ \A q \in Proc \ {p} : pc'[q] = pc[q] /\ kept'[q] = kept[q]
    BY <1>1 DEF CheckSource, SourceReady, Goto, Places, Holding, Shaped, InstallTyped, locals
  <2>3. UNCHANGED <<state, cli, bundles, backup, receipts, plan, pending, lock, call, tx, owner,
                    snapshot, kept, rollbacks, faults>>
    BY <1>1 DEF CheckSource, SourceReady, files, locals, history
  <2>4. CallAt(p)'
    BY <1>1, <2>3 DEF CheckSource, SourceReady, Goto, Shaped, Calling, CallAt, InstallTyped,
       Activation, Reconciliation, Reversal
  <2> QED
    BY <2>1, <2>3, <2>4, HolderShaped DEF Shaped, InstallTyped, Sourced
<1>2. CASE WriteReceipt(p)
  <2>1. pc' \in [Proc -> Places] /\ \A q \in Proc \ {p} : pc'[q] = pc[q] /\ kept'[q] = kept[q]
    BY <1>2 DEF WriteReceipt, Goto, Places, Holding, Shaped, InstallTyped, locals
  <2>2. receipts' \subseteq Tx
    BY <1>2, SlotsAndFiles DEF WriteReceipt, From, To, Goto, Shaped, Sourced, InstallTyped, Calling,
       CallAt, Activation, Reconciliation, Reversal
  <2>3. UNCHANGED <<state, cli, bundles, backup, plan, pending, lock, call, tx, owner, snapshot,
                    kept, rollbacks, faults>>
    BY <1>2 DEF WriteReceipt, files, locals, history
  <2>4. CallAt(p)'
    BY <1>2, <2>3 DEF WriteReceipt, Goto, Shaped, Calling, CallAt, InstallTyped, Activation,
       Reconciliation, Reversal
  <2> QED
    BY <2>1, <2>2, <2>3, <2>4, HolderShaped DEF Shaped, InstallTyped, Sourced
<1>3. CASE StagePayload(p)
  <2>1. pc' \in [Proc -> Places] /\ \A q \in Proc \ {p} : pc'[q] = pc[q] /\ kept'[q] = kept[q]
    BY <1>3 DEF StagePayload, Goto, Places, Holding, Shaped, InstallTyped, locals
  <2>3. UNCHANGED <<state, cli, bundles, backup, receipts, plan, pending, lock, call, tx, owner,
                    snapshot, kept, rollbacks, faults>>
    BY <1>3 DEF StagePayload, files, locals, history
  <2>4. CallAt(p)'
    BY <1>3, <2>3 DEF StagePayload, Goto, Shaped, Calling, CallAt, InstallTyped, Activation,
       Reconciliation, Reversal
  <2> QED
    BY <2>1, <2>3, <2>4, HolderShaped DEF Shaped, InstallTyped, Sourced
<1>4. CASE BackupCLI(p)
  <2>1. pc' \in [Proc -> Places] /\ \A q \in Proc \ {p} : pc'[q] = pc[q] /\ kept'[q] = kept[q]
    BY <1>4 DEF BackupCLI, Goto, Places, Holding, Shaped, InstallTyped, locals
  <2>2. cli' \in Release \cup {None} /\ backup' \in [Slot -> Release \cup {None}] /\ kept' \in [Proc -> Slot \cup {None}]
    BY <1>4, SlotsAndFiles DEF BackupCLI, From, To, Goto, Shaped, Sourced, InstallTyped, Calling,
       CallAt, Activation, Reconciliation, Reversal
  <2>3. UNCHANGED <<state, bundles, receipts, plan, pending, lock, call, tx, owner, snapshot,
                    rollbacks, faults>>
    BY <1>4 DEF BackupCLI, files, locals, history
  <2>4. CallAt(p)'
    BY <1>4, <2>3 DEF BackupCLI, Goto, Shaped, Calling, CallAt, InstallTyped, Activation,
       Reconciliation, Reversal
  <2> QED
    BY <2>1, <2>2, <2>3, <2>4, HolderShaped DEF Shaped, InstallTyped, Sourced
<1>5. CASE PlaceBundle(p)
  <2>1. pc' \in [Proc -> Places] /\ \A q \in Proc \ {p} : pc'[q] = pc[q] /\ kept'[q] = kept[q]
    BY <1>5 DEF PlaceBundle, Goto, Places, Holding, Shaped, InstallTyped, locals
  <2>2. bundles' \subseteq Release
    BY <1>5, SlotsAndFiles DEF PlaceBundle, From, To, Goto, Shaped, Sourced, InstallTyped, Calling,
       CallAt, Activation, Reconciliation, Reversal
  <2>3. UNCHANGED <<state, cli, backup, receipts, plan, pending, lock, call, tx, owner, snapshot,
                    kept, rollbacks, faults>>
    BY <1>5 DEF PlaceBundle, files, locals, history
  <2>4. CallAt(p)'
    BY <1>5, <2>3 DEF PlaceBundle, Goto, Shaped, Calling, CallAt, InstallTyped, Activation,
       Reconciliation, Reversal
  <2> QED
    BY <2>1, <2>2, <2>3, <2>4, HolderShaped DEF Shaped, InstallTyped, Sourced
<1>6. CASE PlaceRuntime(p)
  <2>1. pc' \in [Proc -> Places] /\ \A q \in Proc \ {p} : pc'[q] = pc[q] /\ kept'[q] = kept[q]
    BY <1>6 DEF PlaceRuntime, Goto, Places, Holding, Shaped, InstallTyped, locals
  <2>3. UNCHANGED <<state, cli, bundles, backup, receipts, plan, pending, lock, call, tx, owner,
                    snapshot, kept, rollbacks, faults>>
    BY <1>6 DEF PlaceRuntime, files, locals, history
  <2>4. CallAt(p)'
    BY <1>6, <2>3 DEF PlaceRuntime, Goto, Shaped, Calling, CallAt, InstallTyped, Activation,
       Reconciliation, Reversal
  <2> QED
    BY <2>1, <2>3, <2>4, HolderShaped DEF Shaped, InstallTyped, Sourced
<1>7. CASE PlaceCLI(p)
  <2>1. pc' \in [Proc -> Places] /\ \A q \in Proc \ {p} : pc'[q] = pc[q] /\ kept'[q] = kept[q]
    BY <1>7 DEF PlaceCLI, Goto, Places, Holding, Shaped, InstallTyped, locals
  <2>2. cli' \in Release \cup {None}
    BY <1>7, SlotsAndFiles DEF PlaceCLI, From, To, Goto, Shaped, Sourced, InstallTyped, Calling,
       CallAt, Activation, Reconciliation, Reversal
  <2>3. UNCHANGED <<state, bundles, backup, receipts, plan, pending, lock, call, tx, owner,
                    snapshot, kept, rollbacks, faults>>
    BY <1>7 DEF PlaceCLI, files, locals, history
  <2>4. CallAt(p)'
    BY <1>7, <2>3 DEF PlaceCLI, Goto, Shaped, Calling, CallAt, InstallTyped, Activation,
       Reconciliation, Reversal
  <2> QED
    BY <2>1, <2>2, <2>3, <2>4, HolderShaped DEF Shaped, InstallTyped, Sourced
<1>8. CASE CheckActivated(p)
  <2>1. pc' \in [Proc -> Places] /\ \A q \in Proc \ {p} : pc'[q] = pc[q] /\ kept'[q] = kept[q]
    BY <1>8 DEF CheckActivated, SelfCheck, Goto, Places, Holding, Shaped, InstallTyped, locals
  <2>3. UNCHANGED <<state, cli, bundles, backup, receipts, plan, pending, lock, call, tx, owner,
                    snapshot, kept, rollbacks, faults>>
    BY <1>8 DEF CheckActivated, SelfCheck, files, locals, history
  <2>4. CallAt(p)'
    BY <1>8, <2>3 DEF CheckActivated, SelfCheck, Goto, Shaped, Calling, CallAt, InstallTyped,
       Activation, Reconciliation, Reversal
  <2> QED
    BY <2>1, <2>3, <2>4, HolderShaped DEF Shaped, InstallTyped, Sourced
<1>9. CASE CommitState(p)
  <2>1. pc' \in [Proc -> Places] /\ \A q \in Proc \ {p} : pc'[q] = pc[q] /\ kept'[q] = kept[q]
    BY <1>9 DEF CommitState, WriteState, TargetState, Goto, Places, Holding, Shaped, InstallTyped,
       locals
  <2>2. state' \in StateFile /\ (state'.previous # None => state'.slot # None)
    <3>1. tx[p] \in Tx /\ plan[tx[p]] # NoPlan /\ state' = TargetState(tx[p])
      BY <1>9 DEF CommitState, WriteState, Shaped, InstallTyped, Calling, CallAt, Activation,
         Reconciliation
    <3> QED
      BY <3>1, TargetIsFile
  <2>3. UNCHANGED <<cli, bundles, backup, receipts, plan, pending, lock, call, tx, owner, snapshot,
                    kept, rollbacks, faults>>
    BY <1>9 DEF CommitState, WriteState, TargetState, files, locals, history
  <2>4. CallAt(p)'
    BY <1>9, <2>3 DEF CommitState, WriteState, TargetState, Goto, Shaped, Calling, CallAt,
       InstallTyped, Activation, Reconciliation, Reversal
  <2> QED
    BY <2>1, <2>2, <2>3, <2>4, HolderShaped DEF Shaped, InstallTyped, Sourced
<1>10. CASE UndoCLI(p)
  <2>1. pc' \in [Proc -> Places] /\ \A q \in Proc \ {p} : pc'[q] = pc[q] /\ kept'[q] = kept[q]
    BY <1>10 DEF UndoCLI, Goto, Places, Holding, Shaped, InstallTyped, locals
  <2>2. cli' \in Release \cup {None}
    BY <1>10, SlotsAndFiles DEF UndoCLI, From, To, Goto, Shaped, Sourced, InstallTyped, Calling,
       CallAt, Activation, Reconciliation, Reversal
  <2>3. UNCHANGED <<state, bundles, backup, receipts, plan, pending, lock, call, tx, owner,
                    snapshot, kept, rollbacks, faults>>
    BY <1>10 DEF UndoCLI, files, locals, history
  <2>4. CallAt(p)'
    BY <1>10, <2>3 DEF UndoCLI, Goto, Shaped, Calling, CallAt, InstallTyped, Activation,
       Reconciliation, Reversal
  <2> QED
    BY <2>1, <2>2, <2>3, <2>4, HolderShaped DEF Shaped, InstallTyped, Sourced
<1>11. CASE UndoBackup(p)
  <2>1. pc' \in [Proc -> Places] /\ \A q \in Proc \ {p} : pc'[q] = pc[q] /\ kept'[q] = kept[q]
    BY <1>11 DEF UndoBackup, Reinstate, Goto, Places, Holding, Shaped, InstallTyped, locals
  <2>2. cli' \in Release \cup {None} /\ backup' \in [Slot -> Release \cup {None}]
    BY <1>11, SlotsAndFiles DEF UndoBackup, Reinstate, From, To, Goto, Shaped, Sourced,
       InstallTyped, Calling, CallAt, Activation, Reconciliation, Reversal
  <2>3. UNCHANGED <<state, bundles, receipts, plan, pending, lock, call, tx, owner, snapshot, kept,
                    rollbacks, faults>>
    BY <1>11 DEF UndoBackup, Reinstate, files, locals, history
  <2>4. CallAt(p)'
    BY <1>11, <2>3 DEF UndoBackup, Reinstate, Goto, Shaped, Calling, CallAt, InstallTyped,
       Activation, Reconciliation, Reversal
  <2> QED
    BY <2>1, <2>2, <2>3, <2>4, HolderShaped DEF Shaped, InstallTyped, Sourced
<1>12. CASE UndoBundle(p)
  <2>1. pc' \in [Proc -> Places] /\ \A q \in Proc \ {p} : pc'[q] = pc[q] /\ kept'[q] = kept[q]
    BY <1>12 DEF UndoBundle, Goto, Places, Holding, Shaped, InstallTyped, locals
  <2>2. bundles' \subseteq Release
    BY <1>12, SlotsAndFiles DEF UndoBundle, From, To, Goto, Shaped, Sourced, InstallTyped, Calling,
       CallAt, Activation, Reconciliation, Reversal
  <2>3. UNCHANGED <<state, cli, backup, receipts, plan, pending, lock, call, tx, owner, snapshot,
                    kept, rollbacks, faults>>
    BY <1>12 DEF UndoBundle, files, locals, history
  <2>4. CallAt(p)'
    BY <1>12, <2>3 DEF UndoBundle, Goto, Shaped, Calling, CallAt, InstallTyped, Activation,
       Reconciliation, Reversal
  <2> QED
    BY <2>1, <2>2, <2>3, <2>4, HolderShaped DEF Shaped, InstallTyped, Sourced
<1>13. CASE UndoRuntime(p)
  <2>1. pc' \in [Proc -> Places] /\ \A q \in Proc \ {p} : pc'[q] = pc[q] /\ kept'[q] = kept[q]
    BY <1>13 DEF UndoRuntime, Goto, Places, Holding, Shaped, InstallTyped, locals
  <2>3. UNCHANGED <<state, cli, bundles, backup, receipts, plan, pending, lock, call, tx, owner,
                    snapshot, kept, rollbacks, faults>>
    BY <1>13 DEF UndoRuntime, files, locals, history
  <2>4. CallAt(p)'
    BY <1>13, <2>3 DEF UndoRuntime, Goto, Shaped, Calling, CallAt, InstallTyped, Activation,
       Reconciliation, Reversal
  <2> QED
    BY <2>1, <2>3, <2>4, HolderShaped DEF Shaped, InstallTyped, Sourced
<1>14. CASE Tidy(p)
  <2>1. pc' \in [Proc -> Places] /\ \A q \in Proc \ {p} : pc'[q] = pc[q] /\ kept'[q] = kept[q]
    BY <1>14 DEF Tidy, RemoveStaged, RemoveReceipt, Goto, Places, Holding, Shaped, InstallTyped,
       locals
  <2>2. receipts' \subseteq Tx
    BY <1>14, SlotsAndFiles DEF Tidy, RemoveStaged, RemoveReceipt, From, To, Goto, Shaped, Sourced,
       InstallTyped, Calling, CallAt, Activation, Reconciliation, Reversal
  <2>3. UNCHANGED <<state, cli, bundles, backup, plan, pending, lock, call, tx, owner, snapshot,
                    kept, rollbacks, faults>>
    BY <1>14 DEF Tidy, RemoveStaged, RemoveReceipt, files, locals, history
  <2>4. CallAt(p)'
    BY <1>14, <2>3 DEF Tidy, RemoveStaged, RemoveReceipt, Goto, Shaped, Calling, CallAt,
       InstallTyped, Activation, Reconciliation, Reversal
  <2> QED
    BY <2>1, <2>2, <2>3, <2>4, HolderShaped DEF Shaped, InstallTyped, Sourced
<1> QED
  BY <1>1, <1>2, <1>3, <1>4, <1>5, <1>6, <1>7, <1>8, <1>9, <1>10, <1>11, <1>12, <1>13,
     <1>14 DEF Activating

\* ReconcileActivated keeps the shape of the state.
LEMMA ReconcilingShaped ==
  ASSUME NEW p \in Proc, Shaped, Reconciling(p)
  PROVE  Shaped'
<1>1. CASE Decide(p)
  <2>1. pc' \in [Proc -> Places] /\ \A q \in Proc \ {p} : pc'[q] = pc[q] /\ kept'[q] = kept[q]
    BY <1>1 DEF Decide, RestoreEntry, PayloadInstalled, Goto, Places, Holding, Shaped, InstallTyped,
       locals
  <2>3. UNCHANGED <<state, cli, bundles, backup, receipts, plan, pending, lock, call, tx, owner,
                    snapshot, kept, rollbacks, faults>>
    BY <1>1 DEF Decide, RestoreEntry, PayloadInstalled, files, locals, history
  <2>4. CallAt(p)'
    BY <1>1, <2>3 DEF Decide, RestoreEntry, PayloadInstalled, Goto, Shaped, Calling, CallAt,
       InstallTyped, Activation, Reconciliation, Reversal
  <2> QED
    BY <2>1, <2>3, <2>4, HolderShaped DEF Shaped, InstallTyped, Sourced
<1>2. CASE CheckInterrupted(p)
  <2>1. pc' \in [Proc -> Places] /\ \A q \in Proc \ {p} : pc'[q] = pc[q] /\ kept'[q] = kept[q]
    BY <1>2 DEF CheckInterrupted, SelfCheck, RestoreEntry, Goto, Places, Holding, Shaped,
       InstallTyped, locals
  <2>3. UNCHANGED <<state, cli, bundles, backup, receipts, plan, pending, lock, call, tx, owner,
                    snapshot, kept, rollbacks, faults>>
    BY <1>2 DEF CheckInterrupted, SelfCheck, RestoreEntry, files, locals, history
  <2>4. CallAt(p)'
    BY <1>2, <2>3 DEF CheckInterrupted, SelfCheck, RestoreEntry, Goto, Shaped, Calling, CallAt,
       InstallTyped, Activation, Reconciliation, Reversal
  <2> QED
    BY <2>1, <2>3, <2>4, HolderShaped DEF Shaped, InstallTyped, Sourced
<1>3. CASE CompleteState(p)
  <2>1. pc' \in [Proc -> Places] /\ \A q \in Proc \ {p} : pc'[q] = pc[q] /\ kept'[q] = kept[q]
    BY <1>3 DEF CompleteState, WriteState, TargetState, Goto, Places, Holding, Shaped, InstallTyped,
       locals
  <2>2. state' \in StateFile /\ (state'.previous # None => state'.slot # None)
    <3>1. tx[p] \in Tx /\ plan[tx[p]] # NoPlan /\ state' = TargetState(tx[p])
      BY <1>3 DEF CompleteState, WriteState, Shaped, InstallTyped, Calling, CallAt, Activation,
         Reconciliation
    <3> QED
      BY <3>1, TargetIsFile
  <2>3. UNCHANGED <<cli, bundles, backup, receipts, plan, pending, lock, call, tx, owner, snapshot,
                    kept, rollbacks, faults>>
    BY <1>3 DEF CompleteState, WriteState, TargetState, files, locals, history
  <2>4. CallAt(p)'
    BY <1>3, <2>3 DEF CompleteState, WriteState, TargetState, Goto, Shaped, Calling, CallAt,
       InstallTyped, Activation, Reconciliation, Reversal
  <2> QED
    BY <2>1, <2>2, <2>3, <2>4, HolderShaped DEF Shaped, InstallTyped, Sourced
<1>4. CASE RestoreCLI(p)
  <2>1. pc' \in [Proc -> Places] /\ \A q \in Proc \ {p} : pc'[q] = pc[q] /\ kept'[q] = kept[q]
    BY <1>4 DEF RestoreCLI, RemoveActiveCLI, Reinstate, Goto, Places, Holding, Shaped, InstallTyped,
       locals
  <2>2. cli' \in Release \cup {None} /\ backup' \in [Slot -> Release \cup {None}]
    BY <1>4, SlotsAndFiles DEF RestoreCLI, RemoveActiveCLI, Reinstate, From, To, Goto, Shaped,
       Sourced, InstallTyped, Calling, CallAt, Activation, Reconciliation, Reversal
  <2>3. UNCHANGED <<state, bundles, receipts, plan, pending, lock, call, tx, owner, snapshot, kept,
                    rollbacks, faults>>
    BY <1>4 DEF RestoreCLI, RemoveActiveCLI, Reinstate, files, locals, history
  <2>4. CallAt(p)'
    BY <1>4, <2>3 DEF RestoreCLI, RemoveActiveCLI, Reinstate, Goto, Shaped, Calling, CallAt,
       InstallTyped, Activation, Reconciliation, Reversal
  <2> QED
    BY <2>1, <2>2, <2>3, <2>4, HolderShaped DEF Shaped, InstallTyped, Sourced
<1>5. CASE RestoreRest(p)
  <2>1. pc' \in [Proc -> Places] /\ \A q \in Proc \ {p} : pc'[q] = pc[q] /\ kept'[q] = kept[q]
    BY <1>5 DEF RestoreRest, RemoveStaged, RemoveReceipt, Goto, Places, Holding, Shaped,
       InstallTyped, locals
  <2>2. bundles' \subseteq Release /\ receipts' \subseteq Tx
    BY <1>5, SlotsAndFiles DEF RestoreRest, RemoveStaged, RemoveReceipt, From, To, Goto, Shaped,
       Sourced, InstallTyped, Calling, CallAt, Activation, Reconciliation, Reversal
  <2>3. UNCHANGED <<state, cli, backup, plan, pending, lock, call, tx, owner, snapshot, kept,
                    rollbacks, faults>>
    BY <1>5 DEF RestoreRest, RemoveStaged, RemoveReceipt, files, locals, history
  <2>4. CallAt(p)'
    BY <1>5, <2>3 DEF RestoreRest, RemoveStaged, RemoveReceipt, Goto, Shaped, Calling, CallAt,
       InstallTyped, Activation, Reconciliation, Reversal
  <2> QED
    BY <2>1, <2>2, <2>3, <2>4, HolderShaped DEF Shaped, InstallTyped, Sourced
<1> QED
  BY <1>1, <1>2, <1>3, <1>4, <1>5 DEF Reconciling

\* Rollback keeps the shape of the state.
LEMMA RollingBackShaped ==
  ASSUME NEW p \in Proc, Shaped, RollingBack(p)
  PROVE  Shaped'
<1>1. CASE FindPrevious(p)
  <2>1. pc' \in [Proc -> Places] /\ \A q \in Proc \ {p} : pc'[q] = pc[q] /\ kept'[q] = kept[q]
    BY <1>1 DEF FindPrevious, Goto, Places, Holding, Shaped, InstallTyped, locals
  <2>3. UNCHANGED <<state, cli, bundles, backup, receipts, plan, pending, lock, call, tx, owner,
                    snapshot, kept, rollbacks, faults>>
    BY <1>1 DEF FindPrevious, files, locals, history
  <2>4. CallAt(p)'
    BY <1>1, <2>3 DEF FindPrevious, Goto, Shaped, Calling, CallAt, InstallTyped, Activation,
       Reconciliation, Reversal
  <2> QED
    BY <2>1, <2>3, <2>4, HolderShaped DEF Shaped, InstallTyped, Sourced
<1>2. CASE RevertCLI(p)
  <2>1. pc' \in [Proc -> Places] /\ \A q \in Proc \ {p} : pc'[q] = pc[q] /\ kept'[q] = kept[q]
    BY <1>2 DEF RevertCLI, MoveAside, Goto, Places, Holding, Shaped, InstallTyped, locals
  <2>2. cli' \in Release \cup {None} /\ backup' \in [Slot -> Release \cup {None}]
    BY <1>2, SlotsAndFiles DEF RevertCLI, MoveAside, From, To, Goto, Shaped, Sourced, InstallTyped,
       Calling, CallAt, Activation, Reconciliation, Reversal
  <2>3. UNCHANGED <<state, bundles, receipts, plan, pending, lock, call, tx, owner, snapshot, kept,
                    rollbacks, faults>>
    BY <1>2 DEF RevertCLI, MoveAside, files, locals, history
  <2>4. CallAt(p)'
    BY <1>2, <2>3 DEF RevertCLI, MoveAside, Goto, Shaped, Calling, CallAt, InstallTyped, Activation,
       Reconciliation, Reversal
  <2> QED
    BY <2>1, <2>2, <2>3, <2>4, HolderShaped DEF Shaped, InstallTyped, Sourced
<1>3. CASE ReactivateCLI(p)
  <2>1. pc' \in [Proc -> Places] /\ \A q \in Proc \ {p} : pc'[q] = pc[q] /\ kept'[q] = kept[q]
    BY <1>3 DEF ReactivateCLI, Reinstate, Goto, Places, Holding, Shaped, InstallTyped, locals
  <2>2. cli' \in Release \cup {None} /\ backup' \in [Slot -> Release \cup {None}]
    BY <1>3, SlotsAndFiles DEF ReactivateCLI, Reinstate, From, To, Goto, Shaped, Sourced,
       InstallTyped, Calling, CallAt, Activation, Reconciliation, Reversal
  <2>3. UNCHANGED <<state, bundles, receipts, plan, pending, lock, call, tx, owner, snapshot, kept,
                    rollbacks, faults>>
    BY <1>3 DEF ReactivateCLI, Reinstate, files, locals, history
  <2>4. CallAt(p)'
    BY <1>3, <2>3 DEF ReactivateCLI, Reinstate, Goto, Shaped, Calling, CallAt, InstallTyped,
       Activation, Reconciliation, Reversal
  <2> QED
    BY <2>1, <2>2, <2>3, <2>4, HolderShaped DEF Shaped, InstallTyped, Sourced
<1>4. CASE CheckPrevious(p)
  <2>1. pc' \in [Proc -> Places] /\ \A q \in Proc \ {p} : pc'[q] = pc[q] /\ kept'[q] = kept[q]
    BY <1>4 DEF CheckPrevious, SelfCheck, Goto, Places, Holding, Shaped, InstallTyped, locals
  <2>3. UNCHANGED <<state, cli, bundles, backup, receipts, plan, pending, lock, call, tx, owner,
                    snapshot, kept, rollbacks, faults>>
    BY <1>4 DEF CheckPrevious, SelfCheck, files, locals, history
  <2>4. CallAt(p)'
    BY <1>4, <2>3 DEF CheckPrevious, SelfCheck, Goto, Shaped, Calling, CallAt, InstallTyped,
       Activation, Reconciliation, Reversal
  <2> QED
    BY <2>1, <2>3, <2>4, HolderShaped DEF Shaped, InstallTyped, Sourced
<1>5. CASE DiscardPrevious(p)
  <2>1. pc' \in [Proc -> Places] /\ \A q \in Proc \ {p} : pc'[q] = pc[q] /\ kept'[q] = kept[q]
    BY <1>5 DEF DiscardPrevious, RemoveActiveCLI, Goto, Places, Holding, Shaped, InstallTyped,
       locals
  <2>2. cli' \in Release \cup {None}
    BY <1>5, SlotsAndFiles DEF DiscardPrevious, RemoveActiveCLI, From, To, Goto, Shaped, Sourced,
       InstallTyped, Calling, CallAt, Activation, Reconciliation, Reversal
  <2>3. UNCHANGED <<state, bundles, backup, receipts, plan, pending, lock, call, tx, owner,
                    snapshot, kept, rollbacks, faults>>
    BY <1>5 DEF DiscardPrevious, RemoveActiveCLI, files, locals, history
  <2>4. CallAt(p)'
    BY <1>5, <2>3 DEF DiscardPrevious, RemoveActiveCLI, Goto, Shaped, Calling, CallAt, InstallTyped,
       Activation, Reconciliation, Reversal
  <2> QED
    BY <2>1, <2>2, <2>3, <2>4, HolderShaped DEF Shaped, InstallTyped, Sourced
<1>6. CASE CommitBack(p)
  <2>1. pc' \in [Proc -> Places] /\ \A q \in Proc \ {p} : pc'[q] = pc[q] /\ kept'[q] = kept[q]
    BY <1>6 DEF CommitBack, WriteState, Goto, Places, Holding, Shaped, InstallTyped, locals
  <2>2. state' \in StateFile /\ (state'.previous # None => state'.slot # None)
    <3>1. snapshot[p].previous \in Release /\ snapshot[p].release \in Release /\ kept[p] \in Slot /\ kept[p] # None
      BY <1>6, SlotsAndFiles DEF CommitBack, WriteState, Shaped, InstallTyped, Calling, CallAt,
         Reversal
    <3>2. state' = [release |-> snapshot[p].previous, previous |-> snapshot[p].release, slot |-> kept[p]]
      BY <1>6 DEF CommitBack, WriteState
    <3> QED
      BY <3>1, <3>2, RecordIsFile
  <2>3. UNCHANGED <<cli, bundles, backup, receipts, plan, pending, lock, call, tx, owner, snapshot,
                    kept, rollbacks, faults>>
    BY <1>6 DEF CommitBack, WriteState, files, locals, history
  <2>4. CallAt(p)'
    BY <1>6, <2>3 DEF CommitBack, WriteState, Goto, Shaped, Calling, CallAt, InstallTyped,
       Activation, Reconciliation, Reversal
  <2> QED
    BY <2>1, <2>2, <2>3, <2>4, HolderShaped DEF Shaped, InstallTyped, Sourced
<1>7. CASE Unwind(p)
  <2>1. pc' \in [Proc -> Places] /\ \A q \in Proc \ {p} : pc'[q] = pc[q] /\ kept'[q] = kept[q]
    BY <1>7 DEF Unwind, MoveAside, Goto, Places, Holding, Shaped, InstallTyped, locals
  <2>2. cli' \in Release \cup {None} /\ backup' \in [Slot -> Release \cup {None}]
    BY <1>7, SlotsAndFiles DEF Unwind, MoveAside, From, To, Goto, Shaped, Sourced, InstallTyped,
       Calling, CallAt, Activation, Reconciliation, Reversal
  <2>3. UNCHANGED <<state, bundles, receipts, plan, pending, lock, call, tx, owner, snapshot, kept,
                    rollbacks, faults>>
    BY <1>7 DEF Unwind, MoveAside, files, locals, history
  <2>4. CallAt(p)'
    BY <1>7, <2>3 DEF Unwind, MoveAside, Goto, Shaped, Calling, CallAt, InstallTyped, Activation,
       Reconciliation, Reversal
  <2> QED
    BY <2>1, <2>2, <2>3, <2>4, HolderShaped DEF Shaped, InstallTyped, Sourced
<1>8. CASE GiveBack(p)
  <2>1. pc' \in [Proc -> Places] /\ \A q \in Proc \ {p} : pc'[q] = pc[q] /\ kept'[q] = kept[q]
    BY <1>8 DEF GiveBack, Reinstate, Goto, Places, Holding, Shaped, InstallTyped, locals
  <2>2. cli' \in Release \cup {None} /\ backup' \in [Slot -> Release \cup {None}]
    BY <1>8, SlotsAndFiles DEF GiveBack, Reinstate, From, To, Goto, Shaped, Sourced, InstallTyped,
       Calling, CallAt, Activation, Reconciliation, Reversal
  <2>3. UNCHANGED <<state, bundles, receipts, plan, pending, lock, call, tx, owner, snapshot, kept,
                    rollbacks, faults>>
    BY <1>8 DEF GiveBack, Reinstate, files, locals, history
  <2>4. CallAt(p)'
    BY <1>8, <2>3 DEF GiveBack, Reinstate, Goto, Shaped, Calling, CallAt, InstallTyped, Activation,
       Reconciliation, Reversal
  <2> QED
    BY <2>1, <2>2, <2>3, <2>4, HolderShaped DEF Shaped, InstallTyped, Sourced
<1> QED
  BY <1>1, <1>2, <1>3, <1>4, <1>5, <1>6, <1>7, <1>8 DEF RollingBack

\* A call that begins, waits or ends changes no more than its own variables.
LEMMA CallerShaped ==
  ASSUME NEW p \in Proc, Shaped,
         UNCHANGED <<state, cli, bundles, backup, receipts, plan, pending>>,
         \A q \in Proc \ {p} : /\ pc'[q] = pc[q] /\ call'[q] = call[q] /\ tx'[q] = tx[q]
                               /\ snapshot'[q] = snapshot[q] /\ kept'[q] = kept[q],
         pc' \in [Proc -> Places], lock' \in Proc \cup {Nobody}, faults' \in Nat,
         call' \in [Proc -> {"none", "activate", "reconcile", "rollback"}],
         tx' \in [Proc -> Tx \cup {None}], owner' \in [Proc -> Proc \cup {Nobody}],
         snapshot' \in [Proc -> StateFile], kept' \in [Proc -> Slot \cup {None}],
         rollbacks' \in 0..MaxRollbacks, CallAt(p)'
  PROVE  Shaped'
<1>1. InstallTyped' /\ Sourced'
  BY DEF Shaped, InstallTyped, Sourced
<1>2. ASSUME NEW q \in Proc \ {p} PROVE CallAt(q)'
  BY DEF Shaped, Calling, CallAt
<1> QED
  BY <1>1, <1>2 DEF Shaped, Calling

\* The call of a process ends.
LEMMA ForgetShaped ==
  ASSUME NEW p \in Proc, Shaped, Forget(p), UNCHANGED <<files, faults>>, lock' \in Proc \cup {Nobody}
  PROVE  Shaped'
<1>1. /\ pc' = [pc EXCEPT ![p] = "idle"] /\ call' = [call EXCEPT ![p] = "none"]
      /\ tx' = [tx EXCEPT ![p] = None] /\ owner' = [owner EXCEPT ![p] = Nobody]
      /\ snapshot' = [snapshot EXCEPT ![p] = NoState] /\ kept' = [kept EXCEPT ![p] = None]
      /\ UNCHANGED <<rollbacks, faults>>
      /\ UNCHANGED <<state, cli, bundles, backup, receipts, plan, pending>>
  BY DEF Forget, Goto, files
<1>2. NoState \in StateFile
  BY DEF StateFile
<1>3. /\ pc' \in [Proc -> Places] /\ call' \in [Proc -> {"none", "activate", "reconcile", "rollback"}]
      /\ tx' \in [Proc -> Tx \cup {None}] /\ owner' \in [Proc -> Proc \cup {Nobody}]
      /\ snapshot' \in [Proc -> StateFile] /\ kept' \in [Proc -> Slot \cup {None}]
  BY <1>1, <1>2 DEF Shaped, InstallTyped, Places
<1>4. \A q \in Proc \ {p} : /\ pc'[q] = pc[q] /\ call'[q] = call[q] /\ tx'[q] = tx[q]
                            /\ snapshot'[q] = snapshot[q] /\ kept'[q] = kept[q]
  BY <1>1 DEF Shaped, InstallTyped
<1>5. CallAt(p)'
  BY <1>1 DEF CallAt, Shaped, InstallTyped, Activation, Reconciliation, Reversal
<1> QED
  BY <1>1, <1>3, <1>4, <1>5, CallerShaped DEF Shaped, InstallTyped

\* A call goes on without the file system, or the lock file changes hands.
LEMMA WalkShaped ==
  ASSUME NEW p \in Proc, Shaped, NEW x \in Places, Goto(p, x),
         UNCHANGED <<files, call, tx, snapshot, kept, rollbacks>>, faults' \in Nat,
         lock' \in Proc \cup {Nobody}, owner' \in [Proc -> Proc \cup {Nobody}],
         x \in Waiting \cup {"owner"} => call[p] # "none", x = "owner" => call[p] # "activate",
         x \in {"readlock", "reread", "rmlock", "relock"} => call[p] = "reconcile",
         x # "trylock", x # "idle", x \notin Holding \ {"owner"}
  PROVE  Shaped'
<1>1. /\ pc' \in [Proc -> Places] /\ \A q \in Proc \ {p} : pc'[q] = pc[q]
      /\ pc'[p] = x
  BY DEF Goto, Shaped, InstallTyped
<1>2. UNCHANGED <<state, cli, bundles, backup, receipts, plan, pending>>
  BY DEF files
<1>3. CallAt(p)'
  BY <1>1, <1>2 DEF CallAt, Shaped, Calling, InstallTyped, Activation, Reconciliation, Reversal,
     Waiting, Holding
<1> QED
  BY <1>1, <1>2, <1>3, CallerShaped DEF Shaped, InstallTyped

\* The steps around the lock.
LEMMA LockingShaped ==
  ASSUME NEW p \in Proc, Shaped, Locking(p)
  PROVE  Shaped'
<1>0. {"owner", "readlock", "reread", "rmlock", "relock"} \subseteq Places
  BY DEF Places, Waiting, Holding
<1>a. ASSUME Return(p) PROVE Shaped'
  BY <1>a, ForgetShaped DEF Return, history, Shaped, InstallTyped
<1>b. ASSUME CreateLock(p), UNCHANGED <<files, locals, faults>>, pc[p] \in Waiting PROVE Shaped'
  <2>1. Goto(p, "owner") /\ lock' = p /\ UNCHANGED <<call, tx, snapshot, kept, rollbacks, owner>> /\ call[p] \notin {"none", "activate"}
    BY <1>b DEF CreateLock, locals, Waiting, Shaped, Calling, CallAt
  <2> QED
    BY <1>0, <2>1, <1>b, WalkShaped DEF Shaped, InstallTyped, Holding, Waiting
<1>1. CASE WriteOwner(p)
  <2>1. /\ pc' \in [Proc -> Places] /\ \A q \in Proc \ {p} : pc'[q] = pc[q]
    BY <1>1 DEF WriteOwner, Entry, Goto, Places, Holding, Shaped, Calling, CallAt, InstallTyped
  <2>2. UNCHANGED <<files, lock, locals, faults>>
    BY <1>1 DEF WriteOwner, history
  <2>3. CallAt(p)'
    BY <1>1, <2>2 DEF WriteOwner, Entry, Goto, Shaped, Calling, CallAt, InstallTyped, Activation,
       Reconciliation, Reversal, files, locals
  <2> QED
    BY <2>1, <2>2, <2>3, CallerShaped DEF Shaped, InstallTyped, files, locals
<1>2. CASE TryLock(p)
  <2>1. CASE CreateLock(p) /\ UNCHANGED <<files, locals, faults, died, outdated>>
    BY <2>1, <1>2, <1>b DEF TryLock, Waiting
  <2>2. CASE call[p] = "reconcile" /\ Goto(p, "readlock") /\ UNCHANGED <<files, lock, named, locals,
                                                                         history>>
    BY <2>2, <1>0, WalkShaped DEF locals, history, Shaped, InstallTyped, Holding
  <2> QED
    BY <2>1, <2>2, <1>2, <1>a DEF TryLock
<1>3. CASE ReadLock(p)
  <2>1. CASE Return(p)
    BY <2>1, <1>a
  <2>2. CASE ~Return(p)
    <3>1. /\ lock \in Proc /\ owner' = [owner EXCEPT ![p] = lock] /\ Goto(p, "reread")
          /\ UNCHANGED <<files, lock, named, call, tx, intent, snapshot, kept, rollbacks, history>>
          /\ call[p] = "reconcile"
      BY <2>2, <1>3 DEF ReadLock, Shaped, Calling, CallAt
    <3>2. owner' \in [Proc -> Proc \cup {Nobody}]
      BY <3>1 DEF Shaped, InstallTyped
    <3> QED
      BY <3>1, <3>2, <1>0, WalkShaped DEF history, Shaped, InstallTyped, Holding
  <2> QED
    BY <2>1, <2>2
<1>4. CASE RereadLock(p)
  <2>1. CASE Goto(p, "rmlock") /\ UNCHANGED <<files, lock, named, locals, history>>
    <3>1. call[p] = "reconcile"
      BY <1>4 DEF RereadLock, Shaped, Calling, CallAt
    <3> QED
      BY <2>1, <3>1, <1>0, WalkShaped DEF locals, history, Shaped, InstallTyped, Holding
  <2> QED
    BY <2>1, <1>4, <1>a DEF RereadLock
<1>5. CASE RemoveStaleLock(p)
  <2>1. CASE lock' = Nobody /\ Goto(p, "relock") /\ UNCHANGED <<files, locals, history>>
    <3>1. call[p] = "reconcile"
      BY <1>5 DEF RemoveStaleLock, Shaped, Calling, CallAt
    <3> QED
      BY <2>1, <3>1, <1>0, WalkShaped DEF locals, history, Shaped, InstallTyped, Holding
  <2> QED
    BY <2>1, <1>5, <1>a DEF RemoveStaleLock
<1>6. CASE Relock(p)
  BY <1>6, <1>a, <1>b DEF Relock, Waiting
<1>7. CASE Unlock(p)
  BY <1>7, ForgetShaped DEF Unlock, history
<1> QED
  BY <1>1, <1>2, <1>3, <1>4, <1>5, <1>6, <1>7 DEF Locking

\* Where a call goes on after an error: an activation undoes what it has done,
\* a rollback gives the active CLI back, and every other call ends.
LEMMA ErrorTable ==
  ASSUME NEW x \in DOMAIN OnError
  PROVE  \/ /\ OnError[x] = "unlock"
            /\ x \in {"owner", "check", "receipt", "decide", "recommit", "rmCLI", "mvBackup",
                      "rmBundle", "rmStaged", "rmReceipt", "lstat", "revert", "giveBack"}
         \/ x = "stage" /\ OnError[x] = "unreceipt"
         \/ x = "backup" /\ OnError[x] = "tidy"
         \/ x \in {"bundle", "runtime", "place", "commit"} /\ OnError[x] = "undoCLI"
         \/ x = "undoBackup" /\ OnError[x] = "undoBundle"
         \/ x \in {"reactivate", "unwind"} /\ OnError[x] = "giveBack"
         \/ x = "commitBack" /\ OnError[x] = "unwind"
<1>1. x \in {"owner", "check", "receipt", "decide", "recommit", "rmCLI", "mvBackup", "rmBundle",
             "rmStaged", "rmReceipt", "lstat", "revert", "giveBack", "stage", "backup", "bundle",
             "runtime", "place", "commit", "undoBackup", "reactivate", "unwind", "commitBack"}
  BY DEF OnError
<1>2. /\ OnError.owner = "unlock" /\ OnError.check = "unlock" /\ OnError.receipt = "unlock"
      /\ OnError.decide = "unlock" /\ OnError.recommit = "unlock" /\ OnError.rmCLI = "unlock"
      /\ OnError.mvBackup = "unlock" /\ OnError.rmBundle = "unlock" /\ OnError.rmStaged = "unlock"
      /\ OnError.rmReceipt = "unlock" /\ OnError.lstat = "unlock" /\ OnError.revert = "unlock"
      /\ OnError.giveBack = "unlock"
  BY DEF OnError
<1>3. /\ OnError.stage = "unreceipt" /\ OnError.backup = "tidy" /\ OnError.bundle = "undoCLI"
      /\ OnError.runtime = "undoCLI" /\ OnError.place = "undoCLI" /\ OnError.commit = "undoCLI"
      /\ OnError.undoBackup = "undoBundle" /\ OnError.reactivate = "giveBack"
      /\ OnError.unwind = "giveBack" /\ OnError.commitBack = "unwind"
  BY DEF OnError
<1> QED
  BY <1>1, <1>2, <1>3

\* A call of the file system fails.
LEMMA FailShaped ==
  ASSUME NEW p \in Proc, Shaped, Fail(p)
  PROVE  Shaped'
<1>1. /\ pc[p] \in DOMAIN OnError /\ faults' = faults + 1 /\ Goto(p, OnError[pc[p]])
      /\ UNCHANGED <<files, lock, named, locals, died, overlap, outdated>>
  BY DEF Fail
<1> DEFINE x == OnError[pc[p]]
<1>2. x \in {"unlock", "unreceipt", "tidy", "undoCLI", "undoBundle", "giveBack", "unwind"} /\ x \in Holding
  BY <1>1, ErrorTable DEF Holding
<1>3. /\ x \in {"unreceipt", "tidy", "undoCLI", "undoBundle"} => pc[p] \in Activation
      /\ x \in {"giveBack", "unwind"} => pc[p] \in Reversal
      /\ call[p] # "none"
  BY <1>1, ErrorTable DEF Activation, Reversal, Shaped, Calling, CallAt, Reconciliation
<1> HIDE DEF x
<1>4. /\ pc' \in [Proc -> Places] /\ pc'[p] = x /\ \A q \in Proc \ {p} : pc'[q] = pc[q]
  BY <1>1, <1>2 DEF Goto, Shaped, InstallTyped, Places, x
<1>5. CallAt(p)'
  BY <1>1, <1>2, <1>3, <1>4 DEF CallAt, Shaped, Calling, Activation, Reconciliation, Reversal,
     files, locals
<1> QED
  BY <1>1, <1>4, <1>5, CallerShaped DEF Shaped, InstallTyped, files, locals

\* A process stops in the middle of a call.
LEMMA CrashShaped ==
  ASSUME NEW p \in Proc, Shaped, Crash(p)
  PROVE  Shaped'
<1>1. "dead" \in Places /\ "dead" \notin Holding \cup Waiting
  BY DEF Places, Holding, Waiting
<1> QED
  BY <1>1, WalkShaped DEF Crash, locals, Shaped, InstallTyped

\* A call begins.
LEMMA BeginShaped ==
  ASSUME NEW p \in Proc, Shaped,
         BeginReconcile(p) \/ BeginRollback(p) \/ \E t \in Tx : BeginActivate(p, t)
  PROVE  Shaped'
<1>0. {"trylock", "owner"} \subseteq Places
  BY DEF Places, Waiting, Holding
<1>1. CASE BeginReconcile(p)
  <2>1. /\ pc' = [pc EXCEPT ![p] = "trylock"] /\ call' = [call EXCEPT ![p] = "reconcile"]
        /\ tx' = [tx EXCEPT ![p] = pending] /\ pending # None
        /\ UNCHANGED <<state, cli, bundles, backup, receipts, plan, pending, lock, owner, snapshot,
                       kept, rollbacks, faults>>
    BY <1>1 DEF BeginReconcile, Goto, files, history
  <2>2. CallAt(p)'
    <3>1. pending \in Tx /\ plan[pending] # NoPlan
      BY <2>1 DEF Shaped, InstallTyped, Sourced
    <3> QED
      BY <2>1, <3>1 DEF CallAt, Shaped, InstallTyped, Activation, Reconciliation, Reversal
  <2> QED
    BY <1>0, <2>1, <2>2, CallerShaped DEF Shaped, InstallTyped
<1>2. CASE BeginRollback(p)
  <2>1. /\ pc' = [pc EXCEPT ![p] = "trylock"] /\ call' = [call EXCEPT ![p] = "rollback"]
        /\ snapshot' = [snapshot EXCEPT ![p] = state] /\ kept' = [kept EXCEPT ![p] = MaxTx + rollbacks + 1]
        /\ rollbacks' = rollbacks + 1 /\ rollbacks < MaxRollbacks /\ state.previous # None
        /\ UNCHANGED <<state, cli, bundles, backup, receipts, plan, pending, lock, tx, owner, faults>>
    BY <1>2 DEF BeginRollback, Goto, files, history
  <2>2. MaxTx + rollbacks + 1 \in Slot /\ rollbacks + 1 \in 0..MaxRollbacks /\ MaxTx + rollbacks + 1 # None
    BY <2>1, InstallAssumption DEF Slot, Shaped, InstallTyped, None
  <2>3. CallAt(p)'
    BY <2>1, <2>2 DEF CallAt, Shaped, InstallTyped, Sourced, Calling, Activation, Reconciliation,
       Reversal
  <2>4. \A q \in Proc \ {p} : /\ pc'[q] = pc[q] /\ call'[q] = call[q] /\ tx'[q] = tx[q]
                              /\ snapshot'[q] = snapshot[q] /\ kept'[q] = kept[q]
    BY <2>1 DEF Shaped, InstallTyped
  <2>5. kept' \in [Proc -> Slot \cup {None}] /\ snapshot' \in [Proc -> StateFile] /\ rollbacks' \in 0..MaxRollbacks
    BY <2>1, <2>2 DEF Shaped, InstallTyped
  <2> QED
    BY <1>0, <2>1, <2>3, <2>4, <2>5, CallerShaped DEF Shaped, InstallTyped
<1>3. ASSUME NEW t \in Tx, BeginActivate(p, t) PROVE Shaped'
  <2>1. /\ pc' = [pc EXCEPT ![p] = "owner"] /\ call' = [call EXCEPT ![p] = "activate"]
        /\ tx' = [tx EXCEPT ![p] = t] /\ plan[t] # NoPlan /\ lock' = p /\ pc[p] = "idle"
        /\ UNCHANGED <<state, cli, bundles, backup, receipts, plan, pending, owner, snapshot, kept,
                       rollbacks, faults>>
    BY <1>3 DEF BeginActivate, CreateLock, Goto, files
  <2>2. t # None
    BY DEF Tx, None
  <2>3. CallAt(p)'
    BY <2>1, <2>2 DEF CallAt, Shaped, InstallTyped, Sourced, Calling, Activation, Reconciliation,
       Reversal, Waiting
  <2> QED
    BY <1>0, <2>1, <2>3, CallerShaped DEF Shaped, InstallTyped
<1> QED
  BY <1>1, <1>2, <1>3

\* A release is prepared, or the pending update removed.
LEMMA PreparingShaped ==
  ASSUME Shaped, RemovePending \/ \E t \in Tx, r \in Release : Prepare(t, r) \/ StagePending(t, r)
  PROVE  Shaped'
<1>1. CASE RemovePending
  BY <1>1 DEF RemovePending, Shaped, InstallTyped, Calling, CallAt, Sourced, locals, history,
     Waiting, Activation, Reversal, Reconciliation
<1>2. ASSUME NEW t \in Tx, NEW r \in Release, Prepare(t, r) \/ StagePending(t, r) PROVE Shaped'
  <2>1. /\ plan[t] = NoPlan /\ pending' \in {pending, t}
        /\ UNCHANGED <<state, cli, bundles, backup, receipts, lock, pc, locals, faults>>
    BY <1>2 DEF Prepare, StagePending, Fresh, Shaped, InstallTyped, history
  <2>2. PICK f \in Release \cup {None} : plan' = [plan EXCEPT ![t] = [from |-> f, to |-> r]] /\ f < r
    <3>1. CASE Prepare(t, r)
      <4>1. None \in Release \cup {None} /\ None < r
        BY DEF None, Release
      <4> QED
        BY <3>1, <4>1 DEF Prepare
    <3>2. CASE StagePending(t, r)
      BY <3>2, SlotsAndFiles DEF StagePending, Shaped, InstallTyped
    <3> QED
      BY <1>2, <3>1, <3>2
  <2>3. /\ plan' \in [Tx -> [from : Release \cup {None}, to : Release \cup {None}]]
        /\ plan'[t] = [from |-> f, to |-> r] /\ \A u \in Tx \ {t} : plan'[u] = plan[u]
    BY <2>2 DEF Shaped, InstallTyped
  <2>4. InstallTyped'
    BY <2>1, <2>3 DEF InstallTyped, Shaped, locals
  <2>5. plan'[t] # NoPlan /\ plan'[t].to = r /\ plan'[t].from = f
    <3>1. plan'[t].to = r /\ r # None /\ plan'[t].from = f
      BY <2>3 DEF Release, None
    <3> QED
      BY <3>1 DEF NoPlan
  <2>6. Sourced'
    <3>1. ASSUME NEW u \in Tx, plan'[u] # NoPlan
          PROVE  plan'[u].to \in Release /\ plan'[u].from < plan'[u].to
      BY <3>1, <2>2, <2>3, <2>5 DEF Sourced, Shaped
    <3>2. pending' # None => plan'[pending'] # NoPlan
      BY <2>1, <2>3, <2>5 DEF Sourced, Shaped, InstallTyped
    <3> QED
      BY <2>1, <3>1, <3>2 DEF Sourced, Shaped
  <2>7. Calling'
    BY <2>1, <2>3, <2>5 DEF Shaped, InstallTyped, Calling, CallAt, locals
  <2> QED
    BY <2>4, <2>6, <2>7 DEF Shaped
<1> QED
  BY <1>1, <1>2

\* Every step keeps the shape of the state.
LEMMA StepShaped ==
  ASSUME Shaped, [Next]_vars
  PROVE  Shaped'
<1>1. CASE UNCHANGED vars
  BY <1>1 DEF vars, files, locals, history, Shaped, InstallTyped, Calling, CallAt, Sourced
<1>2. CASE Next
  <2>1. ASSUME NEW p \in Proc, Running(p) PROVE Shaped'
    BY <2>1, LockingShaped, ActivatingShaped, ReconcilingShaped, RollingBackShaped DEF Running
  <2> QED
    BY <1>2, <2>1, FailShaped, CrashShaped, BeginShaped, PreparingShaped DEF Next
<1> QED
  BY <1>1, <1>2

----------------------------------------------------------------------------
(* The lock and the slots.                                                  *)

\* Two processes use the installation.
TwoProcesses == \A p, q, r \in Proc : p = q \/ q = r \/ p = r

\* Past the lock there is only the process that the lock file names.
LockAt(p) ==
  /\ pc[p] \in Holding => lock = p
  /\ pc[p] \in {"reread", "rmlock"} => owner[p] \in Proc /\ Dead(owner[p])
  /\ pc[p] = "relock" => \E q \in Proc : Dead(q)
Exclusive == ~overlap /\ \A p \in Proc : LockAt(p)

\* A rollback that may still move files.
Undoing(p) == call[p] = "rollback" /\ pc[p] \notin {"dead", "unlock"}

\* A state whose CLI is kept for a transaction is the target of that transaction.
OfTransaction(s) ==
  /\ s.slot \in Tx => plan[s.slot] # NoPlan /\ s.release = plan[s.slot].to /\ s.previous = plan[s.slot].from
  /\ s.slot <= MaxTx + rollbacks
Planned ==
  /\ OfTransaction(state) /\ \A p \in Proc : OfTransaction(snapshot[p])
  /\ pending # None => plan[pending].from # None
  /\ state = NoState => pending = None /\ \A p \in Proc : call[p] \notin {"reconcile", "rollback"}
  /\ \A s \in Slot : backup[s] # None =>
       (s \in Tx => plan[s] # NoPlan) /\ s <= MaxTx + rollbacks

\* The slot of a rollback under way is its own.
OwnSlot(p) ==
  Undoing(p) =>
    /\ kept[p] > MaxTx /\ kept[p] <= MaxTx + rollbacks /\ kept[p] # state.slot
    /\ \A q \in Proc : Undoing(q) => snapshot[q].slot # kept[p] /\ (q # p => kept[q] # kept[p])
OwnSlots == \A p \in Proc : OwnSlot(p)
Ordered == Shaped /\ Exclusive /\ Planned /\ OwnSlots

Working(p) == Activating(p) \/ Reconciling(p) \/ RollingBack(p) \/ WriteOwner(p) \/ Fail(p)

\* Who changes the state, and who fills a slot.
StateStep(p) ==
  \/ state' = state
  \/ pc[p] \in {"commit", "recommit"} /\ pc'[p] = "unlock" /\ state' = TargetState(tx[p])
  \/ /\ pc[p] = "commitBack" /\ pc'[p] = "unlock"
     /\ state' = [release |-> snapshot[p].previous, previous |-> snapshot[p].release, slot |-> kept[p]]
SlotStep(p) ==
  \A s \in Slot :
    \/ backup'[s] = backup[s] \/ backup'[s] = None
    \/ pc[p] = "backup" /\ s = tx[p]
    \/ pc[p] = "revert" /\ s = kept[p]
    \/ pc[p] = "unwind" /\ s = snapshot[p].slot

\* A step of a process past the lock: it stays there, and changes of the calls
\* no more than its own place and, in an activation, the slot it has filled.
\* Activate past the lock.
LEMMA ActivatingHolds ==
  ASSUME NEW p \in Proc, Shaped, Activating(p)
  PROVE  /\ pc[p] \in Holding \ {"unlock"} /\ pc'[p] \in Holding
         /\ \A q \in Proc \ {p} : pc'[q] = pc[q] /\ kept'[q] = kept[q]
         /\ UNCHANGED <<plan, pending, lock, call, tx, owner, snapshot, rollbacks, died, overlap>>
         /\ kept'[p] = kept[p] \/ pc[p] = "backup"
<1>1. CASE CheckSource(p)
  <2>1. /\ pc[p] \in Holding \ {"unlock"} /\ pc'[p] \in Holding
        /\ \A q \in Proc \ {p} : pc'[q] = pc[q] /\ kept'[q] = kept[q]
    BY <1>1 DEF CheckSource, SourceReady, Goto, Holding, Shaped, InstallTyped, locals
  <2>2. UNCHANGED <<plan, pending, lock, call, tx, owner, snapshot, rollbacks, died, overlap>>
    BY <1>1 DEF CheckSource, SourceReady, files, locals, history
  <2>3. kept'[p] = kept[p] \/ pc[p] = "backup"
    BY <1>1 DEF CheckSource, SourceReady, locals
  <2> QED
    BY <2>1, <2>2, <2>3
<1>2. CASE WriteReceipt(p)
  <2>1. /\ pc[p] \in Holding \ {"unlock"} /\ pc'[p] \in Holding
        /\ \A q \in Proc \ {p} : pc'[q] = pc[q] /\ kept'[q] = kept[q]
    BY <1>2 DEF WriteReceipt, Goto, Holding, Shaped, InstallTyped, locals
  <2>2. UNCHANGED <<plan, pending, lock, call, tx, owner, snapshot, rollbacks, died, overlap>>
    BY <1>2 DEF WriteReceipt, files, locals, history
  <2>3. kept'[p] = kept[p] \/ pc[p] = "backup"
    BY <1>2 DEF WriteReceipt, locals
  <2> QED
    BY <2>1, <2>2, <2>3
<1>3. CASE StagePayload(p)
  <2>1. /\ pc[p] \in Holding \ {"unlock"} /\ pc'[p] \in Holding
        /\ \A q \in Proc \ {p} : pc'[q] = pc[q] /\ kept'[q] = kept[q]
    BY <1>3 DEF StagePayload, Goto, Holding, Shaped, InstallTyped, locals
  <2>2. UNCHANGED <<plan, pending, lock, call, tx, owner, snapshot, rollbacks, died, overlap>>
    BY <1>3 DEF StagePayload, files, locals, history
  <2>3. kept'[p] = kept[p] \/ pc[p] = "backup"
    BY <1>3 DEF StagePayload, locals
  <2> QED
    BY <2>1, <2>2, <2>3
<1>4. CASE BackupCLI(p)
  <2>1. /\ pc[p] \in Holding \ {"unlock"} /\ pc'[p] \in Holding
        /\ \A q \in Proc \ {p} : pc'[q] = pc[q] /\ kept'[q] = kept[q]
    BY <1>4 DEF BackupCLI, Goto, Holding, Shaped, InstallTyped, locals
  <2>2. UNCHANGED <<plan, pending, lock, call, tx, owner, snapshot, rollbacks, died, overlap>>
    BY <1>4 DEF BackupCLI, files, locals, history
  <2>3. kept'[p] = kept[p] \/ pc[p] = "backup"
    BY <1>4 DEF BackupCLI, locals
  <2> QED
    BY <2>1, <2>2, <2>3
<1>5. CASE PlaceBundle(p)
  <2>1. /\ pc[p] \in Holding \ {"unlock"} /\ pc'[p] \in Holding
        /\ \A q \in Proc \ {p} : pc'[q] = pc[q] /\ kept'[q] = kept[q]
    BY <1>5 DEF PlaceBundle, Goto, Holding, Shaped, InstallTyped, locals
  <2>2. UNCHANGED <<plan, pending, lock, call, tx, owner, snapshot, rollbacks, died, overlap>>
    BY <1>5 DEF PlaceBundle, files, locals, history
  <2>3. kept'[p] = kept[p] \/ pc[p] = "backup"
    BY <1>5 DEF PlaceBundle, locals
  <2> QED
    BY <2>1, <2>2, <2>3
<1>6. CASE PlaceRuntime(p)
  <2>1. /\ pc[p] \in Holding \ {"unlock"} /\ pc'[p] \in Holding
        /\ \A q \in Proc \ {p} : pc'[q] = pc[q] /\ kept'[q] = kept[q]
    BY <1>6 DEF PlaceRuntime, Goto, Holding, Shaped, InstallTyped, locals
  <2>2. UNCHANGED <<plan, pending, lock, call, tx, owner, snapshot, rollbacks, died, overlap>>
    BY <1>6 DEF PlaceRuntime, files, locals, history
  <2>3. kept'[p] = kept[p] \/ pc[p] = "backup"
    BY <1>6 DEF PlaceRuntime, locals
  <2> QED
    BY <2>1, <2>2, <2>3
<1>7. CASE PlaceCLI(p)
  <2>1. /\ pc[p] \in Holding \ {"unlock"} /\ pc'[p] \in Holding
        /\ \A q \in Proc \ {p} : pc'[q] = pc[q] /\ kept'[q] = kept[q]
    BY <1>7 DEF PlaceCLI, Goto, Holding, Shaped, InstallTyped, locals
  <2>2. UNCHANGED <<plan, pending, lock, call, tx, owner, snapshot, rollbacks, died, overlap>>
    BY <1>7 DEF PlaceCLI, files, locals, history
  <2>3. kept'[p] = kept[p] \/ pc[p] = "backup"
    BY <1>7 DEF PlaceCLI, locals
  <2> QED
    BY <2>1, <2>2, <2>3
<1>8. CASE CheckActivated(p)
  <2>1. /\ pc[p] \in Holding \ {"unlock"} /\ pc'[p] \in Holding
        /\ \A q \in Proc \ {p} : pc'[q] = pc[q] /\ kept'[q] = kept[q]
    BY <1>8 DEF CheckActivated, SelfCheck, Goto, Holding, Shaped, InstallTyped, locals
  <2>2. UNCHANGED <<plan, pending, lock, call, tx, owner, snapshot, rollbacks, died, overlap>>
    BY <1>8 DEF CheckActivated, SelfCheck, files, locals, history
  <2>3. kept'[p] = kept[p] \/ pc[p] = "backup"
    BY <1>8 DEF CheckActivated, SelfCheck, locals
  <2> QED
    BY <2>1, <2>2, <2>3
<1>9. CASE CommitState(p)
  <2>1. /\ pc[p] \in Holding \ {"unlock"} /\ pc'[p] \in Holding
        /\ \A q \in Proc \ {p} : pc'[q] = pc[q] /\ kept'[q] = kept[q]
    BY <1>9 DEF CommitState, WriteState, TargetState, Goto, Holding, Shaped, InstallTyped, locals
  <2>2. UNCHANGED <<plan, pending, lock, call, tx, owner, snapshot, rollbacks, died, overlap>>
    BY <1>9 DEF CommitState, WriteState, TargetState, files, locals, history
  <2>3. kept'[p] = kept[p] \/ pc[p] = "backup"
    BY <1>9 DEF CommitState, WriteState, TargetState, locals
  <2> QED
    BY <2>1, <2>2, <2>3
<1>10. CASE UndoCLI(p)
  <2>1. /\ pc[p] \in Holding \ {"unlock"} /\ pc'[p] \in Holding
        /\ \A q \in Proc \ {p} : pc'[q] = pc[q] /\ kept'[q] = kept[q]
    BY <1>10 DEF UndoCLI, Goto, Holding, Shaped, InstallTyped, locals
  <2>2. UNCHANGED <<plan, pending, lock, call, tx, owner, snapshot, rollbacks, died, overlap>>
    BY <1>10 DEF UndoCLI, files, locals, history
  <2>3. kept'[p] = kept[p] \/ pc[p] = "backup"
    BY <1>10 DEF UndoCLI, locals
  <2> QED
    BY <2>1, <2>2, <2>3
<1>11. CASE UndoBackup(p)
  <2>1. /\ pc[p] \in Holding \ {"unlock"} /\ pc'[p] \in Holding
        /\ \A q \in Proc \ {p} : pc'[q] = pc[q] /\ kept'[q] = kept[q]
    BY <1>11 DEF UndoBackup, Reinstate, Goto, Holding, Shaped, InstallTyped, locals
  <2>2. UNCHANGED <<plan, pending, lock, call, tx, owner, snapshot, rollbacks, died, overlap>>
    BY <1>11 DEF UndoBackup, Reinstate, files, locals, history
  <2>3. kept'[p] = kept[p] \/ pc[p] = "backup"
    BY <1>11 DEF UndoBackup, Reinstate, locals
  <2> QED
    BY <2>1, <2>2, <2>3
<1>12. CASE UndoBundle(p)
  <2>1. /\ pc[p] \in Holding \ {"unlock"} /\ pc'[p] \in Holding
        /\ \A q \in Proc \ {p} : pc'[q] = pc[q] /\ kept'[q] = kept[q]
    BY <1>12 DEF UndoBundle, Goto, Holding, Shaped, InstallTyped, locals
  <2>2. UNCHANGED <<plan, pending, lock, call, tx, owner, snapshot, rollbacks, died, overlap>>
    BY <1>12 DEF UndoBundle, files, locals, history
  <2>3. kept'[p] = kept[p] \/ pc[p] = "backup"
    BY <1>12 DEF UndoBundle, locals
  <2> QED
    BY <2>1, <2>2, <2>3
<1>13. CASE UndoRuntime(p)
  <2>1. /\ pc[p] \in Holding \ {"unlock"} /\ pc'[p] \in Holding
        /\ \A q \in Proc \ {p} : pc'[q] = pc[q] /\ kept'[q] = kept[q]
    BY <1>13 DEF UndoRuntime, Goto, Holding, Shaped, InstallTyped, locals
  <2>2. UNCHANGED <<plan, pending, lock, call, tx, owner, snapshot, rollbacks, died, overlap>>
    BY <1>13 DEF UndoRuntime, files, locals, history
  <2>3. kept'[p] = kept[p] \/ pc[p] = "backup"
    BY <1>13 DEF UndoRuntime, locals
  <2> QED
    BY <2>1, <2>2, <2>3
<1>14. CASE Tidy(p)
  <2>1. /\ pc[p] \in Holding \ {"unlock"} /\ pc'[p] \in Holding
        /\ \A q \in Proc \ {p} : pc'[q] = pc[q] /\ kept'[q] = kept[q]
    BY <1>14 DEF Tidy, RemoveStaged, RemoveReceipt, Goto, Holding, Shaped, InstallTyped, locals
  <2>2. UNCHANGED <<plan, pending, lock, call, tx, owner, snapshot, rollbacks, died, overlap>>
    BY <1>14 DEF Tidy, RemoveStaged, RemoveReceipt, files, locals, history
  <2>3. kept'[p] = kept[p] \/ pc[p] = "backup"
    BY <1>14 DEF Tidy, RemoveStaged, RemoveReceipt, locals
  <2> QED
    BY <2>1, <2>2, <2>3
<1> QED
  BY <1>1, <1>2, <1>3, <1>4, <1>5, <1>6, <1>7, <1>8, <1>9, <1>10, <1>11, <1>12, <1>13,
     <1>14 DEF Activating

\* ReconcileActivated past the lock.
LEMMA ReconcilingHolds ==
  ASSUME NEW p \in Proc, Shaped, Reconciling(p)
  PROVE  /\ pc[p] \in Holding \ {"unlock"} /\ pc'[p] \in Holding
         /\ \A q \in Proc \ {p} : pc'[q] = pc[q] /\ kept'[q] = kept[q]
         /\ UNCHANGED <<plan, pending, lock, call, tx, owner, snapshot, rollbacks, died, overlap>>
         /\ kept'[p] = kept[p] \/ pc[p] = "backup"
<1>1. CASE Decide(p)
  <2>1. /\ pc[p] \in Holding \ {"unlock"} /\ pc'[p] \in Holding
        /\ \A q \in Proc \ {p} : pc'[q] = pc[q] /\ kept'[q] = kept[q]
    BY <1>1 DEF Decide, RestoreEntry, PayloadInstalled, Goto, Holding, Shaped, InstallTyped, locals
  <2>2. UNCHANGED <<plan, pending, lock, call, tx, owner, snapshot, rollbacks, died, overlap>>
    BY <1>1 DEF Decide, RestoreEntry, PayloadInstalled, files, locals, history
  <2>3. kept'[p] = kept[p] \/ pc[p] = "backup"
    BY <1>1 DEF Decide, RestoreEntry, PayloadInstalled, locals
  <2> QED
    BY <2>1, <2>2, <2>3
<1>2. CASE CheckInterrupted(p)
  <2>1. /\ pc[p] \in Holding \ {"unlock"} /\ pc'[p] \in Holding
        /\ \A q \in Proc \ {p} : pc'[q] = pc[q] /\ kept'[q] = kept[q]
    BY <1>2 DEF CheckInterrupted, SelfCheck, RestoreEntry, Goto, Holding, Shaped, InstallTyped,
       locals
  <2>2. UNCHANGED <<plan, pending, lock, call, tx, owner, snapshot, rollbacks, died, overlap>>
    BY <1>2 DEF CheckInterrupted, SelfCheck, RestoreEntry, files, locals, history
  <2>3. kept'[p] = kept[p] \/ pc[p] = "backup"
    BY <1>2 DEF CheckInterrupted, SelfCheck, RestoreEntry, locals
  <2> QED
    BY <2>1, <2>2, <2>3
<1>3. CASE CompleteState(p)
  <2>1. /\ pc[p] \in Holding \ {"unlock"} /\ pc'[p] \in Holding
        /\ \A q \in Proc \ {p} : pc'[q] = pc[q] /\ kept'[q] = kept[q]
    BY <1>3 DEF CompleteState, WriteState, TargetState, Goto, Holding, Shaped, InstallTyped, locals
  <2>2. UNCHANGED <<plan, pending, lock, call, tx, owner, snapshot, rollbacks, died, overlap>>
    BY <1>3 DEF CompleteState, WriteState, TargetState, files, locals, history
  <2>3. kept'[p] = kept[p] \/ pc[p] = "backup"
    BY <1>3 DEF CompleteState, WriteState, TargetState, locals
  <2> QED
    BY <2>1, <2>2, <2>3
<1>4. CASE RestoreCLI(p)
  <2>1. /\ pc[p] \in Holding \ {"unlock"} /\ pc'[p] \in Holding
        /\ \A q \in Proc \ {p} : pc'[q] = pc[q] /\ kept'[q] = kept[q]
    BY <1>4 DEF RestoreCLI, RemoveActiveCLI, Reinstate, Goto, Holding, Shaped, InstallTyped, locals
  <2>2. UNCHANGED <<plan, pending, lock, call, tx, owner, snapshot, rollbacks, died, overlap>>
    BY <1>4 DEF RestoreCLI, RemoveActiveCLI, Reinstate, files, locals, history
  <2>3. kept'[p] = kept[p] \/ pc[p] = "backup"
    BY <1>4 DEF RestoreCLI, RemoveActiveCLI, Reinstate, locals
  <2> QED
    BY <2>1, <2>2, <2>3
<1>5. CASE RestoreRest(p)
  <2>1. /\ pc[p] \in Holding \ {"unlock"} /\ pc'[p] \in Holding
        /\ \A q \in Proc \ {p} : pc'[q] = pc[q] /\ kept'[q] = kept[q]
    BY <1>5 DEF RestoreRest, RemoveStaged, RemoveReceipt, Goto, Holding, Shaped, InstallTyped,
       locals
  <2>2. UNCHANGED <<plan, pending, lock, call, tx, owner, snapshot, rollbacks, died, overlap>>
    BY <1>5 DEF RestoreRest, RemoveStaged, RemoveReceipt, files, locals, history
  <2>3. kept'[p] = kept[p] \/ pc[p] = "backup"
    BY <1>5 DEF RestoreRest, RemoveStaged, RemoveReceipt, locals
  <2> QED
    BY <2>1, <2>2, <2>3
<1> QED
  BY <1>1, <1>2, <1>3, <1>4, <1>5 DEF Reconciling

\* Rollback past the lock.
LEMMA RollingBackHolds ==
  ASSUME NEW p \in Proc, Shaped, RollingBack(p)
  PROVE  /\ pc[p] \in Holding \ {"unlock"} /\ pc'[p] \in Holding
         /\ \A q \in Proc \ {p} : pc'[q] = pc[q] /\ kept'[q] = kept[q]
         /\ UNCHANGED <<plan, pending, lock, call, tx, owner, snapshot, rollbacks, died, overlap>>
         /\ kept'[p] = kept[p] \/ pc[p] = "backup"
<1>1. CASE FindPrevious(p)
  <2>1. /\ pc[p] \in Holding \ {"unlock"} /\ pc'[p] \in Holding
        /\ \A q \in Proc \ {p} : pc'[q] = pc[q] /\ kept'[q] = kept[q]
    BY <1>1 DEF FindPrevious, Goto, Holding, Shaped, InstallTyped, locals
  <2>2. UNCHANGED <<plan, pending, lock, call, tx, owner, snapshot, rollbacks, died, overlap>>
    BY <1>1 DEF FindPrevious, files, locals, history
  <2>3. kept'[p] = kept[p] \/ pc[p] = "backup"
    BY <1>1 DEF FindPrevious, locals
  <2> QED
    BY <2>1, <2>2, <2>3
<1>2. CASE RevertCLI(p)
  <2>1. /\ pc[p] \in Holding \ {"unlock"} /\ pc'[p] \in Holding
        /\ \A q \in Proc \ {p} : pc'[q] = pc[q] /\ kept'[q] = kept[q]
    BY <1>2 DEF RevertCLI, MoveAside, Goto, Holding, Shaped, InstallTyped, locals
  <2>2. UNCHANGED <<plan, pending, lock, call, tx, owner, snapshot, rollbacks, died, overlap>>
    BY <1>2 DEF RevertCLI, MoveAside, files, locals, history
  <2>3. kept'[p] = kept[p] \/ pc[p] = "backup"
    BY <1>2 DEF RevertCLI, MoveAside, locals
  <2> QED
    BY <2>1, <2>2, <2>3
<1>3. CASE ReactivateCLI(p)
  <2>1. /\ pc[p] \in Holding \ {"unlock"} /\ pc'[p] \in Holding
        /\ \A q \in Proc \ {p} : pc'[q] = pc[q] /\ kept'[q] = kept[q]
    BY <1>3 DEF ReactivateCLI, Reinstate, Goto, Holding, Shaped, InstallTyped, locals
  <2>2. UNCHANGED <<plan, pending, lock, call, tx, owner, snapshot, rollbacks, died, overlap>>
    BY <1>3 DEF ReactivateCLI, Reinstate, files, locals, history
  <2>3. kept'[p] = kept[p] \/ pc[p] = "backup"
    BY <1>3 DEF ReactivateCLI, Reinstate, locals
  <2> QED
    BY <2>1, <2>2, <2>3
<1>4. CASE CheckPrevious(p)
  <2>1. /\ pc[p] \in Holding \ {"unlock"} /\ pc'[p] \in Holding
        /\ \A q \in Proc \ {p} : pc'[q] = pc[q] /\ kept'[q] = kept[q]
    BY <1>4 DEF CheckPrevious, SelfCheck, Goto, Holding, Shaped, InstallTyped, locals
  <2>2. UNCHANGED <<plan, pending, lock, call, tx, owner, snapshot, rollbacks, died, overlap>>
    BY <1>4 DEF CheckPrevious, SelfCheck, files, locals, history
  <2>3. kept'[p] = kept[p] \/ pc[p] = "backup"
    BY <1>4 DEF CheckPrevious, SelfCheck, locals
  <2> QED
    BY <2>1, <2>2, <2>3
<1>5. CASE DiscardPrevious(p)
  <2>1. /\ pc[p] \in Holding \ {"unlock"} /\ pc'[p] \in Holding
        /\ \A q \in Proc \ {p} : pc'[q] = pc[q] /\ kept'[q] = kept[q]
    BY <1>5 DEF DiscardPrevious, RemoveActiveCLI, Goto, Holding, Shaped, InstallTyped, locals
  <2>2. UNCHANGED <<plan, pending, lock, call, tx, owner, snapshot, rollbacks, died, overlap>>
    BY <1>5 DEF DiscardPrevious, RemoveActiveCLI, files, locals, history
  <2>3. kept'[p] = kept[p] \/ pc[p] = "backup"
    BY <1>5 DEF DiscardPrevious, RemoveActiveCLI, locals
  <2> QED
    BY <2>1, <2>2, <2>3
<1>6. CASE CommitBack(p)
  <2>1. /\ pc[p] \in Holding \ {"unlock"} /\ pc'[p] \in Holding
        /\ \A q \in Proc \ {p} : pc'[q] = pc[q] /\ kept'[q] = kept[q]
    BY <1>6 DEF CommitBack, WriteState, Goto, Holding, Shaped, InstallTyped, locals
  <2>2. UNCHANGED <<plan, pending, lock, call, tx, owner, snapshot, rollbacks, died, overlap>>
    BY <1>6 DEF CommitBack, WriteState, files, locals, history
  <2>3. kept'[p] = kept[p] \/ pc[p] = "backup"
    BY <1>6 DEF CommitBack, WriteState, locals
  <2> QED
    BY <2>1, <2>2, <2>3
<1>7. CASE Unwind(p)
  <2>1. /\ pc[p] \in Holding \ {"unlock"} /\ pc'[p] \in Holding
        /\ \A q \in Proc \ {p} : pc'[q] = pc[q] /\ kept'[q] = kept[q]
    BY <1>7 DEF Unwind, MoveAside, Goto, Holding, Shaped, InstallTyped, locals
  <2>2. UNCHANGED <<plan, pending, lock, call, tx, owner, snapshot, rollbacks, died, overlap>>
    BY <1>7 DEF Unwind, MoveAside, files, locals, history
  <2>3. kept'[p] = kept[p] \/ pc[p] = "backup"
    BY <1>7 DEF Unwind, MoveAside, locals
  <2> QED
    BY <2>1, <2>2, <2>3
<1>8. CASE GiveBack(p)
  <2>1. /\ pc[p] \in Holding \ {"unlock"} /\ pc'[p] \in Holding
        /\ \A q \in Proc \ {p} : pc'[q] = pc[q] /\ kept'[q] = kept[q]
    BY <1>8 DEF GiveBack, Reinstate, Goto, Holding, Shaped, InstallTyped, locals
  <2>2. UNCHANGED <<plan, pending, lock, call, tx, owner, snapshot, rollbacks, died, overlap>>
    BY <1>8 DEF GiveBack, Reinstate, files, locals, history
  <2>3. kept'[p] = kept[p] \/ pc[p] = "backup"
    BY <1>8 DEF GiveBack, Reinstate, locals
  <2> QED
    BY <2>1, <2>2, <2>3
<1> QED
  BY <1>1, <1>2, <1>3, <1>4, <1>5, <1>6, <1>7, <1>8 DEF RollingBack

\* Every step of a process past the lock but its last one.
LEMMA WorkingHolds ==
  ASSUME NEW p \in Proc, Shaped, Working(p)
  PROVE  /\ pc[p] \in Holding \ {"unlock"} /\ pc'[p] \in Holding
         /\ \A q \in Proc \ {p} : pc'[q] = pc[q] /\ kept'[q] = kept[q]
         /\ UNCHANGED <<plan, pending, lock, call, tx, owner, snapshot, rollbacks, died, overlap>>
         /\ kept'[p] = kept[p] \/ pc[p] = "backup"
<1>1. CASE WriteOwner(p)
  <2>1. /\ pc[p] \in Holding \ {"unlock"} /\ pc'[p] \in Holding
        /\ \A q \in Proc \ {p} : pc'[q] = pc[q] /\ kept'[q] = kept[q]
    BY <1>1 DEF WriteOwner, Entry, Goto, Holding, Shaped, InstallTyped, Calling, CallAt, locals
  <2> QED
    BY <1>1, <2>1 DEF WriteOwner, files, locals, history
<1>2. CASE Fail(p)
  <2>1. pc[p] \in Holding \ {"unlock"} /\ OnError[pc[p]] \in Holding
    BY <1>2, ErrorTable DEF Fail, Holding
  <2> QED
    BY <1>2, <2>1 DEF Fail, Goto, Shaped, InstallTyped, files, locals
<1> QED
  BY <1>1, <1>2, ActivatingHolds, ReconcilingHolds, RollingBackHolds DEF Working

\* A process takes the lock.
LEMMA SeizeExclusive ==
  ASSUME NEW p \in Proc, Shaped, Exclusive, CreateLock(p), UNCHANGED owner, pc[p] \notin Holding, ~Dead(p)
  PROVE  Exclusive'
<1>1. /\ lock = Nobody /\ lock' = p /\ pc' = [pc EXCEPT ![p] = "owner"]
      /\ overlap' = (overlap \/ \E q \in Proc \ {p} : pc[q] \in Holding)
  BY DEF CreateLock, Goto
<1>2. \A q \in Proc : pc[q] \notin Holding
  BY <1>1, InstallAssumption DEF Exclusive, LockAt
<1>3. ~overlap'
  BY <1>1, <1>2 DEF Exclusive
<1>4. \A q \in Proc : pc'[q] = IF q = p THEN "owner" ELSE pc[q]
  BY <1>1 DEF Shaped, InstallTyped
<1>5. \A q \in Proc : Dead(q) => Dead(q)'
  BY <1>4 DEF Dead
<1>6. ASSUME NEW q \in Proc PROVE LockAt(q)'
  BY <1>1, <1>2, <1>4, <1>5 DEF Exclusive, LockAt
<1> QED
  BY <1>3, <1>6 DEF Exclusive

\* A step that leaves the lock alone, and takes nobody past it.
LEMMA StayExclusive ==
  ASSUME NEW p \in Proc, Shaped, Exclusive, UNCHANGED <<lock, owner, overlap>>, ~Dead(p),
         \A q \in Proc \ {p} : pc'[q] = pc[q],
         \/ pc'[p] \in Holding /\ pc[p] \in Holding
         \/ pc'[p] \notin Holding \cup {"reread", "rmlock", "relock"}
         \/ pc'[p] = "rmlock" /\ pc[p] = "reread"
  PROVE  Exclusive'
<1>1. \A q \in Proc : Dead(q) => Dead(q)'
  BY DEF Dead
<1>2. ASSUME NEW q \in Proc PROVE LockAt(q)'
  <2>1. CASE q = p
    BY <1>1, <2>1 DEF Exclusive, LockAt, Holding, Shaped, InstallTyped
  <2>2. CASE q # p
    BY <1>1, <2>2 DEF Exclusive, LockAt, Shaped, InstallTyped
  <2> QED
    BY <2>1, <2>2
<1> QED
  BY <1>2 DEF Exclusive

\* A call that ends without the lock.
LEMMA ReturnExclusive ==
  ASSUME NEW p \in Proc, Shaped, Exclusive, Return(p), ~Dead(p)
  PROVE  Exclusive'
<1>1. /\ UNCHANGED <<lock, overlap>> /\ pc' = [pc EXCEPT ![p] = "idle"]
      /\ owner' = [owner EXCEPT ![p] = Nobody]
  BY DEF Return, Forget, Goto, history
<1>2. \A q \in Proc : pc'[q] = IF q = p THEN "idle" ELSE pc[q]
  BY <1>1 DEF Shaped, InstallTyped
<1>3. \A q \in Proc \ {p} : owner'[q] = owner[q]
  BY <1>1 DEF Shaped, InstallTyped
<1>4. \A q \in Proc : Dead(q) => Dead(q)'
  BY <1>2 DEF Dead
<1>5. ASSUME NEW q \in Proc PROVE LockAt(q)'
  BY <1>1, <1>2, <1>3, <1>4 DEF Exclusive, LockAt, Holding, Shaped, InstallTyped
<1> QED
  BY <1>1, <1>5 DEF Exclusive

\* The steps around the lock.  A stale lock is removed by the only process that
\* is left, so that nobody is past the lock then.
LEMMA LockingExclusive ==
  ASSUME NEW p \in Proc, Shaped, Exclusive, TwoProcesses, Locking(p)
  PROVE  Exclusive'
<1>0. {"trylock", "readlock", "reread", "rmlock", "relock", "idle", "dead"} \cap Holding = {}
  BY DEF Holding
<1>1. CASE WriteOwner(p)
  <2>1. /\ pc[p] \in Holding /\ pc'[p] \in Holding /\ UNCHANGED <<lock, owner, overlap>>
        /\ \A q \in Proc \ {p} : pc'[q] = pc[q]
    BY <1>1, WorkingHolds DEF Working
  <2> QED
    BY <2>1, <1>0, StayExclusive DEF Dead
<1>2. CASE TryLock(p)
  <2>1. CASE CreateLock(p) /\ UNCHANGED <<files, locals, faults, died, outdated>>
    BY <2>1, <1>2, <1>0, SeizeExclusive DEF TryLock, locals, Dead
  <2>2. CASE Goto(p, "readlock") /\ UNCHANGED <<files, lock, named, locals, history>>
    BY <2>2, <1>2, <1>0, StayExclusive DEF TryLock, Goto, locals, history, Dead, Shaped,
       InstallTyped
  <2>3. CASE Return(p)
    BY <2>3, <1>2, ReturnExclusive DEF TryLock, Dead
  <2> QED
    BY <2>1, <2>2, <2>3, <1>2 DEF TryLock
<1>3. CASE ReadLock(p)
  <2>1. CASE Return(p)
    BY <2>1, <1>3, ReturnExclusive DEF ReadLock, Dead
  <2>2. CASE ~Return(p)
    <3>1. /\ lock \in Proc /\ ~Alive(lock) /\ owner' = [owner EXCEPT ![p] = lock]
          /\ pc' = [pc EXCEPT ![p] = "reread"] /\ UNCHANGED <<lock, overlap>>
      BY <2>2, <1>3 DEF ReadLock, Goto, history
    <3>2. \A q \in Proc : pc'[q] = IF q = p THEN "reread" ELSE pc[q]
      BY <3>1 DEF Shaped, InstallTyped
    <3>3. \A q \in Proc : owner'[q] = IF q = p THEN lock ELSE owner[q]
      BY <3>1 DEF Shaped, InstallTyped
    <3>4. \A q \in Proc : Dead(q) => Dead(q)'
      BY <3>2, <1>3 DEF Dead, ReadLock
    <3>5. ASSUME NEW q \in Proc PROVE LockAt(q)'
      BY <3>1, <3>2, <3>3, <3>4, <1>0 DEF Exclusive, LockAt, Alive, Dead
    <3> QED
      BY <3>1, <3>5 DEF Exclusive
  <2> QED
    BY <2>1, <2>2
<1>4. CASE RereadLock(p)
  <2>1. CASE Return(p)
    BY <2>1, <1>4, ReturnExclusive DEF RereadLock, Dead
  <2>2. CASE ~Return(p)
    BY <2>2, <1>4, <1>0, StayExclusive DEF RereadLock, Goto, locals, history, Dead, Shaped,
       InstallTyped
  <2> QED
    BY <2>1, <2>2
<1>5. CASE RemoveStaleLock(p)
  <2>1. CASE Return(p)
    BY <2>1, <1>5, ReturnExclusive DEF RemoveStaleLock, Dead
  <2>2. CASE ~Return(p)
    <3>1. /\ pc[p] = "rmlock" /\ lock' = Nobody /\ pc' = [pc EXCEPT ![p] = "relock"]
          /\ UNCHANGED <<owner, overlap>>
      BY <2>2, <1>5 DEF RemoveStaleLock, Goto, locals, history
    <3>2. owner[p] \in Proc /\ Dead(owner[p])
      BY <3>1 DEF Exclusive, LockAt
    <3>3. \A q \in Proc : pc'[q] = IF q = p THEN "relock" ELSE pc[q]
      BY <3>1 DEF Shaped, InstallTyped
    <3>4. \A q \in Proc : Dead(q) => Dead(q)'
      BY <3>1, <3>3 DEF Dead
    <3>5. ASSUME NEW q \in Proc PROVE pc'[q] \notin Holding
      <4>1. q = p \/ q = owner[p]
        BY <3>1, <3>2 DEF TwoProcesses, Dead
      <4> QED
        BY <4>1, <3>2, <3>3, <1>0 DEF Dead
    <3>6. ASSUME NEW q \in Proc PROVE LockAt(q)'
      BY <3>1, <3>2, <3>3, <3>4, <3>5, <1>0 DEF Exclusive, LockAt
    <3> QED
      BY <3>1, <3>6 DEF Exclusive
  <2> QED
    BY <2>1, <2>2
<1>6. CASE Relock(p)
  <2>1. CASE Return(p)
    BY <2>1, <1>6, ReturnExclusive DEF Relock, Dead
  <2>2. CASE ~Return(p)
    BY <2>2, <1>6, <1>0, SeizeExclusive DEF Relock, locals, Dead
  <2> QED
    BY <2>1, <2>2
<1>7. CASE Unlock(p)
  <2>1. /\ pc[p] = "unlock" /\ lock' = Nobody /\ pc' = [pc EXCEPT ![p] = "idle"] /\ UNCHANGED overlap
        /\ owner' = [owner EXCEPT ![p] = Nobody]
    BY <1>7 DEF Unlock, Forget, Goto, history
  <2>2. \A q \in Proc : pc'[q] = IF q = p THEN "idle" ELSE pc[q]
    BY <2>1 DEF Shaped, InstallTyped
  <2>3. \A q \in Proc \ {p} : owner'[q] = owner[q]
    BY <2>1 DEF Shaped, InstallTyped
  <2>4. \A q \in Proc : Dead(q) => Dead(q)'
    BY <2>1, <2>2 DEF Dead
  <2>5. lock = p
    BY <2>1 DEF Exclusive, LockAt, Holding
  <2>6. ASSUME NEW q \in Proc PROVE LockAt(q)'
    BY <2>1, <2>2, <2>3, <2>4, <2>5, <1>0 DEF Exclusive, LockAt
  <2> QED
    BY <2>1, <2>6 DEF Exclusive
<1> QED
  BY <1>1, <1>2, <1>3, <1>4, <1>5, <1>6, <1>7 DEF Locking

\* Only one of two processes is past the lock.
LEMMA StepExclusive ==
  ASSUME Shaped, Exclusive, TwoProcesses, [Next]_vars
  PROVE  Exclusive'
<1>0. {"trylock", "readlock", "reread", "rmlock", "relock", "idle", "dead"} \cap Holding = {}
  BY DEF Holding
<1>1. ASSUME UNCHANGED <<lock, pc, owner, overlap>> PROVE Exclusive'
  BY <1>1 DEF Exclusive, LockAt, Dead
<1>2. CASE UNCHANGED vars
  BY <1>1, <1>2 DEF vars, locals, history
<1>3. CASE RemovePending
  BY <1>1, <1>3 DEF RemovePending, locals, history
<1>4. ASSUME NEW t \in Tx, NEW r \in Release, Prepare(t, r) \/ StagePending(t, r) PROVE Exclusive'
  BY <1>1, <1>4 DEF Prepare, StagePending, locals, history
<1>5. ASSUME NEW p \in Proc, Working(p) PROVE Exclusive'
  <2>1. /\ pc[p] \in Holding /\ pc'[p] \in Holding /\ UNCHANGED <<lock, owner, overlap>>
        /\ \A q \in Proc \ {p} : pc'[q] = pc[q]
    BY <1>5, WorkingHolds
  <2> QED
    BY <2>1, <1>0, StayExclusive DEF Dead
<1>6. ASSUME NEW p \in Proc, Crash(p) PROVE Exclusive'
  BY <1>6, <1>0, StayExclusive DEF Crash, Goto, locals, Dead, Shaped, InstallTyped
<1>7. ASSUME NEW p \in Proc, BeginReconcile(p) PROVE Exclusive'
  BY <1>7, <1>0, StayExclusive DEF BeginReconcile, Goto, history, Dead, Shaped, InstallTyped
<1>8. ASSUME NEW p \in Proc, BeginRollback(p) PROVE Exclusive'
  BY <1>8, <1>0, StayExclusive DEF BeginRollback, Goto, history, Dead, Shaped, InstallTyped
<1>9. ASSUME NEW p \in Proc, NEW t \in Tx, BeginActivate(p, t) PROVE Exclusive'
  BY <1>9, <1>0, SeizeExclusive DEF BeginActivate, Dead
<1> QED
  BY <1>2, <1>3, <1>4, <1>5, <1>6, <1>7, <1>8, <1>9, LockingExclusive DEF Next, Running, Working
\* An activation writes the state of its target and fills the slot of its transaction.
LEMMA ActivatingChanges ==
  ASSUME NEW p \in Proc, Shaped, Activating(p)
  PROVE  /\ StateStep(p)
         /\ SlotStep(p)
<1>1. CASE CheckSource(p)
  BY <1>1 DEF CheckSource, SourceReady, files, StateStep, SlotStep
<1>2. CASE WriteReceipt(p)
  BY <1>2 DEF WriteReceipt, files, StateStep, SlotStep
<1>3. CASE StagePayload(p)
  BY <1>3 DEF StagePayload, files, StateStep, SlotStep
<1>4. CASE BackupCLI(p)
  BY <1>4 DEF BackupCLI, StateStep, SlotStep, Shaped, InstallTyped
<1>5. CASE PlaceBundle(p)
  BY <1>5 DEF PlaceBundle, files, StateStep, SlotStep
<1>6. CASE PlaceRuntime(p)
  BY <1>6 DEF PlaceRuntime, files, StateStep, SlotStep
<1>7. CASE PlaceCLI(p)
  BY <1>7 DEF PlaceCLI, files, StateStep, SlotStep
<1>8. CASE CheckActivated(p)
  BY <1>8 DEF CheckActivated, SelfCheck, files, StateStep, SlotStep
<1>9. CASE CommitState(p)
  <2>1. StateStep(p)
    BY <1>9 DEF CommitState, WriteState, Goto, Shaped, InstallTyped, StateStep
  <2> QED
    BY <2>1, <1>9 DEF CommitState, WriteState, SlotStep
<1>10. CASE UndoCLI(p)
  BY <1>10 DEF UndoCLI, files, StateStep, SlotStep
<1>11. CASE UndoBackup(p)
  BY <1>11 DEF UndoBackup, Reinstate, StateStep, SlotStep, Shaped, InstallTyped
<1>12. CASE UndoBundle(p)
  BY <1>12 DEF UndoBundle, files, StateStep, SlotStep
<1>13. CASE UndoRuntime(p)
  BY <1>13 DEF UndoRuntime, files, StateStep, SlotStep
<1>14. CASE Tidy(p)
  BY <1>14 DEF Tidy, RemoveStaged, RemoveReceipt, files, StateStep, SlotStep
<1> QED
  BY <1>1, <1>2, <1>3, <1>4, <1>5, <1>6, <1>7, <1>8, <1>9, <1>10, <1>11, <1>12, <1>13,
     <1>14 DEF Activating

\* A reconciliation writes the same state and fills no slot.
LEMMA ReconcilingChanges ==
  ASSUME NEW p \in Proc, Shaped, Reconciling(p)
  PROVE  /\ StateStep(p)
         /\ SlotStep(p)
<1>1. CASE Decide(p)
  BY <1>1 DEF Decide, RestoreEntry, PayloadInstalled, files, StateStep, SlotStep
<1>2. CASE CheckInterrupted(p)
  BY <1>2 DEF CheckInterrupted, SelfCheck, RestoreEntry, files, StateStep, SlotStep
<1>3. CASE CompleteState(p)
  <2>1. StateStep(p)
    BY <1>3 DEF CompleteState, WriteState, Goto, Shaped, InstallTyped, StateStep
  <2> QED
    BY <2>1, <1>3 DEF CompleteState, WriteState, SlotStep
<1>4. CASE RestoreCLI(p)
  BY <1>4 DEF RestoreCLI, RemoveActiveCLI, Reinstate, StateStep, SlotStep, Shaped, InstallTyped
<1>5. CASE RestoreRest(p)
  BY <1>5 DEF RestoreRest, RemoveStaged, RemoveReceipt, files, StateStep, SlotStep
<1> QED
  BY <1>1, <1>2, <1>3, <1>4, <1>5 DEF Reconciling

\* A rollback goes back to what it has read, and fills its own slot and the previous one's.
LEMMA RollingBackChanges ==
  ASSUME NEW p \in Proc, Shaped, RollingBack(p)
  PROVE  /\ StateStep(p)
         /\ SlotStep(p)
<1>1. CASE FindPrevious(p)
  BY <1>1 DEF FindPrevious, files, StateStep, SlotStep
<1>2. CASE RevertCLI(p)
  BY <1>2 DEF RevertCLI, MoveAside, StateStep, SlotStep, Shaped, InstallTyped
<1>3. CASE ReactivateCLI(p)
  BY <1>3 DEF ReactivateCLI, Reinstate, StateStep, SlotStep, Shaped, InstallTyped
<1>4. CASE CheckPrevious(p)
  BY <1>4 DEF CheckPrevious, SelfCheck, files, StateStep, SlotStep
<1>5. CASE DiscardPrevious(p)
  BY <1>5 DEF DiscardPrevious, RemoveActiveCLI, files, StateStep, SlotStep
<1>6. CASE CommitBack(p)
  <2>1. StateStep(p)
    BY <1>6 DEF CommitBack, WriteState, Goto, Shaped, InstallTyped, StateStep
  <2> QED
    BY <2>1, <1>6 DEF CommitBack, WriteState, SlotStep
<1>7. CASE Unwind(p)
  BY <1>7 DEF Unwind, MoveAside, StateStep, SlotStep, Shaped, InstallTyped
<1>8. CASE GiveBack(p)
  BY <1>8 DEF GiveBack, Reinstate, StateStep, SlotStep, Shaped, InstallTyped
<1> QED
  BY <1>1, <1>2, <1>3, <1>4, <1>5, <1>6, <1>7, <1>8 DEF RollingBack

\* What any step of a process past the lock changes.
LEMMA WorkingChanges ==
  ASSUME NEW p \in Proc, Shaped, Working(p)
  PROVE  /\ StateStep(p)
         /\ SlotStep(p)
<1>1. CASE WriteOwner(p)
  BY <1>1 DEF WriteOwner, files, StateStep, SlotStep
<1>2. CASE Fail(p)
  BY <1>2 DEF Fail, files, StateStep, SlotStep
<1> QED
  BY <1>1, <1>2, ActivatingChanges, ReconcilingChanges, RollingBackChanges DEF Working

\* What the calls remember stays as it is while no rollback begins or ends.
LEMMA PlannedByWorking ==
  ASSUME NEW p \in Proc, Shaped, Planned, OwnSlots, Working(p)
  PROVE  Planned'
<1>1. /\ UNCHANGED <<plan, pending, call, tx, snapshot, rollbacks>> /\ pc[p] \in Holding
  BY WorkingHolds
<1>2. StateStep(p) /\ SlotStep(p)
  BY WorkingChanges
<1>3. \A t \in Tx : t <= MaxTx + rollbacks /\ t # None
  BY InstallAssumption DEF Tx, None, Shaped, InstallTyped
<1>4. /\ OfTransaction(state)' /\ (state' = NoState => state = NoState)
  <2>1. CASE state' = state
    BY <2>1, <1>1 DEF OfTransaction, Planned
  <2>2. CASE pc[p] \in {"commit", "recommit"} /\ state' = TargetState(tx[p])
    <3>1. tx[p] \in Tx /\ plan[tx[p]] # NoPlan /\ plan[tx[p]].to # None
      BY <2>2 DEF Shaped, InstallTyped, Calling, CallAt, Sourced, Activation, Reconciliation,
         Release, None
    <3>2. /\ state'.release = plan[tx[p]].to /\ state'.previous = plan[tx[p]].from
          /\ state'.slot \in {None, tx[p]}
      BY <2>2 DEF TargetState
    <3>3. state' # NoState
      BY <3>1, <3>2 DEF NoState
    <3>4. state'.slot \in Tx => state'.slot = tx[p]
      BY <3>2 DEF Tx, None
    <3>5. state'.slot <= MaxTx + rollbacks
      BY <3>1, <3>2, <1>3, InstallAssumption DEF None, Shaped, InstallTyped
    <3> QED
      BY <1>1, <3>1, <3>2, <3>3, <3>4, <3>5 DEF OfTransaction
  <2>3. CASE /\ pc[p] = "commitBack"
             /\ state' = [release |-> snapshot[p].previous, previous |-> snapshot[p].release, slot |-> kept[p]]
    <3>1. Undoing(p) /\ snapshot[p].previous # None
      BY <2>3 DEF Undoing, Shaped, Calling, CallAt, Reversal
    <3>2. kept[p] > MaxTx /\ kept[p] <= MaxTx + rollbacks /\ kept[p] \in Slot
      BY <3>1 DEF OwnSlots, OwnSlot, Shaped, InstallTyped, Calling, CallAt, Undoing
    <3>3. state'.slot = kept[p] /\ state'.release = snapshot[p].previous
      BY <2>3
    <3>4. state'.slot \notin Tx
      BY <3>2, <3>3, InstallAssumption DEF Tx, Slot
    <3>5. state' # NoState
      BY <3>1, <3>3 DEF NoState
    <3> QED
      BY <1>1, <3>2, <3>3, <3>4, <3>5 DEF OfTransaction
  <2> QED
    BY <1>2, <2>1, <2>2, <2>3 DEF StateStep
<1>5. \A q \in Proc : OfTransaction(snapshot[q])'
  BY <1>1 DEF OfTransaction, Planned
<1>6. ASSUME NEW s \in Slot, backup'[s] # None
      PROVE  (s \in Tx => plan[s] # NoPlan) /\ s <= MaxTx + rollbacks
  <2>1. CASE backup'[s] = backup[s]
    BY <1>6, <2>1 DEF Planned
  <2>2. CASE pc[p] = "backup" /\ s = tx[p]
    BY <2>2, <1>3 DEF Shaped, InstallTyped, Calling, CallAt, Activation
  <2>3. CASE pc[p] = "revert" /\ s = kept[p]
    <3>1. s > MaxTx /\ s <= MaxTx + rollbacks
      BY <2>3 DEF OwnSlots, OwnSlot, Shaped, Calling, CallAt, Undoing, Reversal
    <3> QED
      BY <3>1, InstallAssumption DEF Tx, Slot
  <2>4. CASE pc[p] = "unwind" /\ s = snapshot[p].slot
    BY <2>4 DEF Planned, OfTransaction
  <2> QED
    BY <1>2, <1>6, <2>1, <2>2, <2>3, <2>4 DEF SlotStep
<1> QED
  BY <1>1, <1>4, <1>5, <1>6 DEF Planned

\* Nothing that is kept depends on the place of a process.
LEMMA PlannedByCaller ==
  ASSUME Planned, UNCHANGED <<state, backup, plan, pending, rollbacks>>,
         \A q \in Proc : /\ call'[q] = call[q] \/ call'[q] \in {"none", "activate"} \/ state # NoState
                         /\ OfTransaction(snapshot[q])'
  PROVE  Planned'
  BY DEF Planned, OfTransaction

\* Every step keeps the plans and the slots in order.
LEMMA StepPlanned ==
  ASSUME Shaped, Planned, OwnSlots, [Next]_vars
  PROVE  Planned'
<1>1. ASSUME UNCHANGED <<state, backup, plan, pending, rollbacks, call, snapshot>> PROVE Planned'
  BY <1>1 DEF Planned, OfTransaction
<1>2. CASE UNCHANGED vars
  BY <1>1, <1>2 DEF vars, files, locals
<1>3. CASE RemovePending
  BY <1>3 DEF RemovePending, Planned, OfTransaction, locals
<1>4. ASSUME NEW t \in Tx, NEW r \in Release, Prepare(t, r) \/ StagePending(t, r) PROVE Planned'
  <2>1. /\ plan[t] = NoPlan /\ UNCHANGED <<state, backup, locals>>
        /\ \A u \in Tx \ {t} : plan'[u] = plan[u]
    BY <1>4 DEF Prepare, StagePending, Fresh, Shaped, InstallTyped
  <2>2. plan'[t] # NoPlan
    <3>1. plan'[t].to = r /\ r # None
      BY <1>4 DEF Prepare, StagePending, Shaped, InstallTyped, Release, None
    <3> QED
      BY <3>1 DEF NoPlan
  <2>3. \/ pending' = pending
        \/ pending' = t /\ state # NoState /\ plan'[t].from = state.release
    BY <1>4 DEF Prepare, StagePending, Shaped, InstallTyped
  <2>4. pending' # None => plan'[pending'].from # None
    <3>1. CASE pending' = pending
      BY <2>1, <3>1 DEF Shaped, Sourced, InstallTyped, Planned
    <3>2. CASE pending' = t /\ state # NoState /\ plan'[t].from = state.release
      BY <3>2, SlotsAndFiles DEF Shaped, InstallTyped, Release, None
    <3> QED
      BY <2>3, <3>1, <3>2
  <2>5. \A s \in StateFile : OfTransaction(s) /\ s.slot \in Tx => plan'[s.slot] = plan[s.slot]
    BY <2>1 DEF OfTransaction
  <2>6. OfTransaction(state)' /\ \A q \in Proc : OfTransaction(snapshot[q])'
    BY <2>1, <2>5 DEF Planned, OfTransaction, Shaped, InstallTyped, locals
  <2> QED
    BY <2>1, <2>2, <2>3, <2>4, <2>6 DEF Planned, locals
<1>5. ASSUME NEW p \in Proc, Forget(p), UNCHANGED files PROVE Planned'
  <2>1. \A q \in Proc : call'[q] \in {call[q], "none"} /\ snapshot'[q] \in {snapshot[q], NoState}
    BY <1>5 DEF Forget, Shaped, InstallTyped
  <2>2. UNCHANGED <<state, backup, plan, pending, rollbacks>>
    BY <1>5 DEF Forget, files
  <2>3. NoState.slot \notin Tx /\ NoState.slot <= MaxTx + rollbacks
    BY InstallAssumption DEF NoState, None, Tx, Shaped, InstallTyped
  <2>4. ASSUME NEW q \in Proc PROVE OfTransaction(snapshot[q])'
    BY <2>1, <2>2, <2>3 DEF OfTransaction, Planned
  <2> QED
    BY <2>1, <2>2, <2>4, PlannedByCaller
<1>6. ASSUME NEW p \in Proc, BeginRollback(p) PROVE Planned'
  <2>1. /\ state.previous # None /\ rollbacks' = rollbacks + 1
        /\ snapshot' = [snapshot EXCEPT ![p] = state] /\ call' = [call EXCEPT ![p] = "rollback"]
        /\ UNCHANGED <<state, backup, plan, pending>>
    BY <1>6 DEF BeginRollback, files
  <2>2. \A q \in Proc : snapshot'[q] \in {snapshot[q], state}
    BY <2>1 DEF Shaped, InstallTyped
  <2>3. \A s \in Slot \cup {None} : s <= MaxTx + rollbacks => s <= MaxTx + rollbacks'
    BY <2>1, InstallAssumption DEF Shaped, InstallTyped, Slot, None
  <2>4. OfTransaction(state)' /\ \A q \in Proc : OfTransaction(snapshot[q])'
    BY <2>1, <2>2, <2>3, SlotsAndFiles DEF OfTransaction, Planned, Shaped, InstallTyped
  <2>5. state # NoState
    BY <2>1 DEF NoState
  <2> QED
    BY <2>1, <2>3, <2>4, <2>5 DEF Planned
<1>7. ASSUME NEW p \in Proc, BeginReconcile(p) PROVE Planned'
  <2>1. /\ pending # None /\ UNCHANGED <<state, backup, plan, pending, snapshot, rollbacks>>
    BY <1>7 DEF BeginReconcile, files
  <2> QED
    BY <2>1, PlannedByCaller DEF Planned, OfTransaction
<1>8. ASSUME NEW p \in Proc, NEW t \in Tx, BeginActivate(p, t) PROVE Planned'
  <2>1. /\ call' = [call EXCEPT ![p] = "activate"]
        /\ UNCHANGED <<state, backup, plan, pending, snapshot, rollbacks>>
    BY <1>8 DEF BeginActivate, files
  <2>2. \A q \in Proc : call'[q] \in {call[q], "activate"}
    BY <2>1 DEF Shaped, InstallTyped
  <2> QED
    BY <2>1, <2>2, PlannedByCaller DEF Planned, OfTransaction
<1>9. ASSUME NEW p \in Proc, Locking(p), ~WriteOwner(p) PROVE Planned'
  <2>1. CASE Return(p)
    BY <2>1, <1>5 DEF Return
  <2>2. CASE Unlock(p)
    BY <2>2, <1>5 DEF Unlock
  <2>3. CASE ~Return(p) /\ ~Unlock(p)
    BY <2>3, <1>1, <1>9 DEF Locking, TryLock, ReadLock, RereadLock, RemoveStaleLock, Relock, files,
       locals
  <2> QED
    BY <2>1, <2>2, <2>3
<1>10. ASSUME NEW p \in Proc, Crash(p) PROVE Planned'
  BY <1>1, <1>10 DEF Crash, files, locals
<1>11. ASSUME NEW p \in Proc, Running(p) \/ Fail(p) PROVE Planned'
  BY <1>9, <1>11, PlannedByWorking DEF Running, Working, Locking
<1> QED
  BY <1>2, <1>3, <1>4, <1>6, <1>7, <1>8, <1>10, <1>11 DEF Next

\* A rollback keeps its slot to itself.
LEMMA StepOwnSlots ==
  ASSUME Shaped, Planned, OwnSlots, [Next]_vars
  PROVE  OwnSlots'
<1>1. ASSUME UNCHANGED <<state, rollbacks>>,
             \A q \in Proc : Undoing(q)' => Undoing(q) /\ kept'[q] = kept[q] /\ snapshot'[q] = snapshot[q]
      PROVE  OwnSlots'
  BY <1>1 DEF OwnSlots, OwnSlot
<1>2. CASE UNCHANGED vars
  BY <1>1, <1>2 DEF vars, files, locals, Undoing
<1>3. CASE RemovePending
  BY <1>1, <1>3 DEF RemovePending, locals, Undoing
<1>4. ASSUME NEW t \in Tx, NEW r \in Release, Prepare(t, r) \/ StagePending(t, r) PROVE OwnSlots'
  BY <1>1, <1>4 DEF Prepare, StagePending, locals, Undoing
<1>5. ASSUME NEW p \in Proc, Forget(p), UNCHANGED files PROVE OwnSlots'
  BY <1>1, <1>5 DEF Forget, Goto, files, Undoing, Shaped, InstallTyped
<1>6. ASSUME NEW p \in Proc, BeginRollback(p) PROVE OwnSlots'
  <2> DEFINE own == MaxTx + rollbacks + 1
  <2>1. /\ pc[p] = "idle" /\ state.previous # None
        /\ rollbacks' = rollbacks + 1 /\ UNCHANGED state
        /\ \A q \in Proc : snapshot'[q] = IF q = p THEN state ELSE snapshot[q]
        /\ \A q \in Proc : kept'[q] = IF q = p THEN own ELSE kept[q]
        /\ \A q \in Proc \ {p} : pc'[q] = pc[q] /\ call'[q] = call[q]
        /\ state.slot \in Slot
    BY <1>6, SlotsAndFiles DEF BeginRollback, Goto, files, Shaped, InstallTyped, Sourced
  <2>2. /\ MaxTx \in Nat /\ rollbacks \in Nat /\ state.slot <= MaxTx + rollbacks
        /\ \A q \in Proc : snapshot[q].slot <= MaxTx + rollbacks
    BY InstallAssumption DEF Shaped, InstallTyped, Planned, OfTransaction
  <2>3. \A q \in Proc \ {p} : Undoing(q)' => Undoing(q)
    BY <2>1 DEF Undoing
  <2>4. ASSUME NEW q \in Proc, Undoing(q)' PROVE OwnSlot(q)'
    <3>1. \A s \in StateFile : s.slot \in Int
      BY SlotsAndFiles, InstallAssumption DEF Slot, None
    <3>2. \A s \in Slot \cup {None} : s \in Int
      BY InstallAssumption DEF Slot, None
    <3>3. /\ state.slot \in Int /\ \A o \in Proc : snapshot[o].slot \in Int /\ kept[o] \in Int
      BY <3>1, <3>2 DEF Shaped, InstallTyped
    <3>4. CASE q = p
      <4>1. kept'[q] > MaxTx /\ kept'[q] <= MaxTx + rollbacks' /\ kept'[q] # state'.slot
        BY <2>1, <2>2, <3>3, <3>4
      <4>2. ASSUME NEW o \in Proc, Undoing(o)'
            PROVE  snapshot'[o].slot # kept'[q] /\ (o # q => kept'[o] # kept'[q])
        BY <4>2, <2>1, <2>2, <2>3, <3>3, <3>4 DEF OwnSlots, OwnSlot
      <4> QED
        BY <4>1, <4>2 DEF OwnSlot
    <3>5. CASE q # p
      <4>1. Undoing(q) /\ kept'[q] = kept[q] /\ kept[q] > MaxTx /\ kept[q] <= MaxTx + rollbacks /\ kept[q] # state.slot
        BY <2>1, <2>3, <2>4, <3>5 DEF OwnSlots, OwnSlot
      <4>2. kept'[q] > MaxTx /\ kept'[q] <= MaxTx + rollbacks' /\ kept'[q] # state'.slot
        BY <2>1, <2>2, <3>3, <4>1
      <4>3. ASSUME NEW o \in Proc, Undoing(o)'
            PROVE  snapshot'[o].slot # kept'[q] /\ (o # q => kept'[o] # kept'[q])
        BY <4>1, <4>3, <2>1, <2>2, <2>3, <3>3, <3>5 DEF OwnSlots, OwnSlot
      <4> QED
        BY <4>2, <4>3 DEF OwnSlot
    <3> QED
      BY <3>4, <3>5
  <2> QED
    BY <2>4 DEF OwnSlots, OwnSlot
<1>7. ASSUME NEW p \in Proc, BeginReconcile(p) PROVE OwnSlots'
  BY <1>1, <1>7 DEF BeginReconcile, Goto, files, Undoing, Shaped, InstallTyped
<1>8. ASSUME NEW p \in Proc, NEW t \in Tx, BeginActivate(p, t) PROVE OwnSlots'
  BY <1>1, <1>8 DEF BeginActivate, CreateLock, Goto, files, Undoing, Shaped, InstallTyped
<1>9. ASSUME NEW p \in Proc, Locking(p), ~WriteOwner(p) PROVE OwnSlots'
  <2>1. CASE Return(p)
    BY <2>1, <1>5 DEF Return
  <2>2. CASE Unlock(p)
    BY <2>2, <1>5 DEF Unlock
  <2>3. CASE ~Return(p) /\ ~Unlock(p)
    BY <2>3, <1>1, <1>9 DEF Locking, TryLock, ReadLock, RereadLock, RemoveStaleLock, Relock,
       CreateLock,
       Goto, files, locals, Undoing, Shaped, InstallTyped
  <2> QED
    BY <2>1, <2>2, <2>3
<1>10. ASSUME NEW p \in Proc, Crash(p) PROVE OwnSlots'
  BY <1>1, <1>10 DEF Crash, Goto, files, locals, Undoing, Shaped, InstallTyped
<1>11. ASSUME NEW p \in Proc, Working(p) PROVE OwnSlots'
  <2>1. /\ pc[p] \in Holding \ {"unlock"} /\ \A q \in Proc \ {p} : pc'[q] = pc[q] /\ kept'[q] = kept[q]
        /\ UNCHANGED <<call, snapshot, rollbacks>> /\ (kept'[p] = kept[p] \/ pc[p] = "backup")
    BY <1>11, WorkingHolds
  <2>2. Undoing(p) => kept'[p] = kept[p]
    BY <2>1 DEF Undoing, Shaped, Calling, CallAt, Activation
  <2>3. \A q \in Proc : Undoing(q)' => Undoing(q) /\ kept'[q] = kept[q] /\ snapshot'[q] = snapshot[q]
    BY <2>1, <2>2 DEF Undoing, Holding
  <2>4. StateStep(p)
    BY <1>11, WorkingChanges
  <2>5. CASE state' = state
    BY <1>1, <2>1, <2>3, <2>5
  <2>6. CASE pc[p] \in {"commit", "recommit"} /\ pc'[p] = "unlock" /\ state' = TargetState(tx[p])
    <3>1. state'.slot \in {None, tx[p]} /\ tx[p] \in Tx
      BY <2>6 DEF TargetState, Shaped, InstallTyped, Calling, CallAt, Activation, Reconciliation
    <3>2. state'.slot <= MaxTx /\ state'.slot \in Int
      BY <3>1, InstallAssumption DEF Tx, None
    <3>3. \A s \in Slot \cup {None} : s \in Int
      BY InstallAssumption DEF Slot, None
    <3>4. ASSUME NEW q \in Proc, Undoing(q)' PROVE kept[q] # state'.slot
      <4>1. kept[q] > MaxTx /\ kept[q] \in Int /\ MaxTx \in Int
        BY <2>3, <3>3, <3>4, InstallAssumption DEF OwnSlots, OwnSlot, Shaped, InstallTyped
      <4> QED
        BY <4>1, <3>2
    <3> QED
      BY <2>1, <2>3, <3>4 DEF OwnSlots, OwnSlot
  <2>7. CASE /\ pc[p] = "commitBack" /\ pc'[p] = "unlock"
             /\ state' = [release |-> snapshot[p].previous, previous |-> snapshot[p].release, slot |-> kept[p]]
    <3>1. Undoing(p) /\ ~Undoing(p)' /\ state'.slot = kept[p]
      BY <2>7 DEF Undoing, Shaped, Calling, CallAt, Reversal
    <3> QED
      BY <2>1, <2>3, <3>1 DEF OwnSlots, OwnSlot
  <2> QED
    BY <2>4, <2>5, <2>6, <2>7 DEF StateStep
<1>12. ASSUME NEW p \in Proc, Running(p) \/ Fail(p) PROVE OwnSlots'
  BY <1>9, <1>11, <1>12 DEF Running, Working, Locking
<1> QED
  BY <1>2, <1>3, <1>4, <1>6, <1>7, <1>8, <1>10, <1>12 DEF Next

\* Every step keeps the order of the calls.
LEMMA StepOrdered ==
  ASSUME Ordered, TwoProcesses, [Next]_vars
  PROVE  Ordered'
  BY StepShaped, StepExclusive, StepPlanned, StepOwnSlots DEF Ordered

----------------------------------------------------------------------------
(* Where the release that the state names is kept.                          *)

\* The lock file names a process that has stopped: only ReconcilePending goes on.
DeadLock == lock \in Proc /\ Dead(lock)

\* No call of the file system has failed, and no rollback has stopped.
Careful == faults = 0 /\ "rollback" \notin died

\* A slot that a rollback under way will move.
Threatened(s) == \E p \in Proc : Undoing(p) /\ (kept[p] = s \/ snapshot[p].slot = s)

\* The slots that no rollback empties before the state changes.  Without an
\* error they are those of interrupted updates, which a reconciliation empties.
Shelves ==
  {s \in Slot :
     /\ s # state.slot /\ backup[s] # None /\ (DeadLock \/ ~Threatened(s))
     /\ Careful => s \in Tx /\ s \in receipts /\ plan[s].from = backup[s]}

\* The state's release is the active CLI or on a shelf.  After an error it may be
\* in any slot, while there is no active CLI: a rollback does not begin to move then.
Secure ==
  \/ cli = state.release
  \/ \E s \in Shelves : backup[s] = state.release
  \/ ~Careful /\ cli = None /\ \E s \in Slot : backup[s] = state.release

\* The places at which a call has moved the active CLI away, or placed another.
Aside == {"bundle", "runtime", "place", "selfcheck", "commit", "undoCLI", "undoBackup", "mvBackup"}
Reversed == {"reactivate", "verify", "discard", "commitBack", "unwind", "giveBack"}
SecureBetween ==
  state # NoState /\ (\A p \in Proc : pc[p] \notin Aside \cup Reversed) => Secure

\* The backup of an update is its source, unless that is on another shelf; and
\* with a backup the update has its bundle in place, or there is no active CLI.
SoundBackup(t) ==
  backup[t] # None =>
    /\ backup[t] = plan[t].from \/ \E s \in Shelves \ {t} : backup[s] = plan[t].from
    /\ cli = None \/ plan[t].to \in bundles

\* The updates that are being activated, completed or undone.
Engaged(p) ==
  /\ pc[p] \in Activation \cup Reconciliation \/ (pc[p] = "owner" /\ call[p] = "activate")
  /\ From(p) # None

\* An activation of the first release, and where it leads.
FirstAt(p) ==
  /\ pc[p] \in Activation \ {"check"} /\ From(p) = None =>
       /\ state = NoState /\ kept[p] = None /\ pc[p] # "undoBackup"
       /\ pc[p] \in {"receipt", "stage", "backup", "bundle", "runtime", "place"} => cli = None
       /\ pc[p] = "commit" => cli = To(p)
  /\ pc[p] \in Reconciliation => From(p) # None

\* An update, and its reconciliation.
UpdateAt(p) ==
  Engaged(p) =>
    /\ SoundBackup(tx[p])
    /\ tx[p] = pending \/ pending = None \/ backup[pending] = None
    /\ pc[p] \notin {"owner", "check"} => MatchesSource(tx[p])
    /\ pc[p] \notin {"owner", "check", "receipt"} => tx[p] \in receipts
    /\ pc[p] \in {"receipt", "stage", "backup"} => cli # None /\ backup[tx[p]] = None
    /\ pc[p] \in Aside \ {"mvBackup"} => kept[p] = tx[p]
    /\ pc[p] \in Aside \cup {"recheck", "recommit", "rmCLI"} => backup[tx[p]] # None
    /\ pc[p] \in {"bundle", "runtime", "place", "undoBackup", "mvBackup"} => cli = None
    /\ pc[p] \in {"runtime", "place", "selfcheck", "commit", "recheck", "recommit"} => To(p) \in bundles
    /\ pc[p] \in {"commit", "recommit"} => cli = To(p)
    /\ pc[p] \in {"undoBundle", "undoRuntime", "tidy", "unreceipt", "rmBundle", "rmStaged", "rmReceipt"} =>
         backup[tx[p]] = None \/ (~Careful /\ cli = None)

\* A rollback, which moves the state's release to its own slot.
RollbackAt(p) ==
  /\ pc[p] \in {"revert", "reactivate"} => backup[snapshot[p].slot] # None
  /\ pc[p] = "reactivate" => cli = None
  /\ pc[p] \in {"commitBack", "unwind"} => cli = snapshot[p].previous
  /\ pc[p] \in Reversed =>
       /\ backup[kept[p]] = state.release \/ \E s \in Shelves : backup[s] = state.release
       /\ pending # None /\ (backup[pending] # None \/ snapshot[p].slot = pending) =>
            plan[pending].to \in bundles
CallSafe(p) == FirstAt(p) /\ UpdateAt(p) /\ RollbackAt(p)

Safe ==
  ~outdated =>
    /\ SecureBetween
    /\ pending # None => SoundBackup(pending)
    /\ \A p \in Proc : CallSafe(p)

\* Who may move a slot in the next state: who may already, or a rollback that
\* has just read the state and taken a new slot.
LEMMA UndoingStep ==
  ASSUME Shaped, [Next]_vars, NEW q \in Proc, Undoing(q)'
  PROVE  \/ Undoing(q) /\ kept'[q] = kept[q] /\ snapshot'[q] = snapshot[q]
         \/ snapshot'[q] = state /\ kept'[q] = MaxTx + rollbacks + 1 /\ state.previous # None
<1>1. CASE UNCHANGED vars
  BY <1>1 DEF vars, locals, Undoing
<1>2. CASE RemovePending
  BY <1>2 DEF RemovePending, locals, Undoing
<1>3. ASSUME NEW t \in Tx, NEW r \in Release, Prepare(t, r) \/ StagePending(t, r)
      PROVE  Undoing(q) /\ UNCHANGED <<kept, snapshot>>
  BY <1>3 DEF Prepare, StagePending, locals, Undoing
<1>4. ASSUME NEW p \in Proc, Forget(p)
      PROVE  Undoing(q) /\ kept'[q] = kept[q] /\ snapshot'[q] = snapshot[q]
  BY <1>4 DEF Forget, Goto, Undoing, Shaped, InstallTyped
<1>5. ASSUME NEW p \in Proc, Locking(p), ~WriteOwner(p)
      PROVE  Undoing(q) /\ kept'[q] = kept[q] /\ snapshot'[q] = snapshot[q]
  <2>1. CASE Return(p) \/ Unlock(p)
    BY <2>1, <1>4 DEF Return, Unlock
  <2>2. CASE ~Return(p) /\ ~Unlock(p)
    BY <2>2, <1>5 DEF Locking, TryLock, ReadLock, RereadLock, RemoveStaleLock, Relock, CreateLock,
       Goto, files, locals, Undoing, Shaped, InstallTyped
  <2> QED
    BY <2>1, <2>2
<1>6. ASSUME NEW p \in Proc, Working(p)
      PROVE  Undoing(q) /\ kept'[q] = kept[q] /\ snapshot'[q] = snapshot[q]
  <2>1. /\ pc[p] \in Holding \ {"unlock"} /\ \A o \in Proc \ {p} : pc'[o] = pc[o] /\ kept'[o] = kept[o]
        /\ UNCHANGED <<call, snapshot>> /\ (kept'[p] = kept[p] \/ pc[p] = "backup")
    BY <1>6, WorkingHolds
  <2> QED
    BY <2>1 DEF Undoing, Holding, Shaped, Calling, CallAt, Activation
<1>7. ASSUME NEW p \in Proc, Crash(p)
      PROVE  Undoing(q) /\ kept'[q] = kept[q] /\ snapshot'[q] = snapshot[q]
  BY <1>7 DEF Crash, Goto, locals, Undoing, Shaped, InstallTyped
<1>8. ASSUME NEW p \in Proc, BeginReconcile(p)
      PROVE  Undoing(q) /\ kept'[q] = kept[q] /\ snapshot'[q] = snapshot[q]
  BY <1>8 DEF BeginReconcile, Goto, Undoing, Shaped, InstallTyped
<1>9. ASSUME NEW p \in Proc, NEW t \in Tx, BeginActivate(p, t)
      PROVE  Undoing(q) /\ kept'[q] = kept[q] /\ snapshot'[q] = snapshot[q]
  BY <1>9 DEF BeginActivate, CreateLock, Goto, Undoing, Shaped, InstallTyped
<1>10. ASSUME NEW p \in Proc, BeginRollback(p)
       PROVE  \/ Undoing(q) /\ kept'[q] = kept[q] /\ snapshot'[q] = snapshot[q]
              \/ snapshot'[q] = state /\ kept'[q] = MaxTx + rollbacks + 1 /\ state.previous # None
  BY <1>10 DEF BeginRollback, Goto, Undoing, Shaped, InstallTyped
<1> QED
  BY <1>1, <1>2, <1>3, <1>5, <1>6, <1>7, <1>8, <1>9, <1>10 DEF Next, Running, Working, Locking

\* A process that has stopped keeps the lock until the other one, which is
\* reconciling then, removes it.
LEMMA DeadLockStep ==
  ASSUME Ordered, TwoProcesses, [Next]_vars, DeadLock
  PROVE  DeadLock' \/ \A q \in Proc : ~Undoing(q)'
<1>0. /\ lock \in Proc /\ pc[lock] = "dead" /\ lock # Nobody /\ Dead(lock)
      /\ \A p \in Proc : pc[p] \notin Holding \ {"dead"}
  BY InstallAssumption DEF DeadLock, Dead, Ordered, Exclusive, LockAt, Holding
<1>a. ASSUME UNCHANGED lock, pc'[lock] = pc[lock] PROVE DeadLock'
  BY <1>a DEF DeadLock, Dead
<1>1. CASE UNCHANGED vars
  BY <1>1, <1>a DEF vars
<1>2. CASE RemovePending
  BY <1>2, <1>a DEF RemovePending
<1>3. ASSUME NEW t \in Tx, NEW r \in Release, Prepare(t, r) \/ StagePending(t, r) PROVE DeadLock'
  BY <1>3, <1>a DEF Prepare, StagePending
<1>4. ASSUME NEW p \in Proc, Return(p) , ~Dead(p) PROVE DeadLock'
  BY <1>0, <1>4, <1>a DEF Return, Forget, Goto, Ordered, Shaped, InstallTyped, Dead
<1>5. ASSUME NEW p \in Proc, RemoveStaleLock(p), ~Return(p) PROVE \A q \in Proc : ~Undoing(q)'
  <2>1. /\ pc[p] = "rmlock" /\ pc' = [pc EXCEPT ![p] = "relock"] /\ UNCHANGED call
    BY <1>5 DEF RemoveStaleLock, Goto, locals
  <2>2. call[p] = "reconcile" /\ p # lock
    BY <2>1, <1>0 DEF Ordered, Shaped, Calling, CallAt
  <2>3. ASSUME NEW q \in Proc PROVE ~Undoing(q)'
    <3>1. q = p \/ q = lock
      BY <1>0, <2>2 DEF TwoProcesses
    <3> QED
      BY <3>1, <2>1, <2>2, <1>0 DEF Undoing, Ordered, Shaped, InstallTyped
  <2> QED
    BY <2>3
<1>6. ASSUME NEW p \in Proc, Locking(p) PROVE DeadLock' \/ \A q \in Proc : ~Undoing(q)'
  <2>1. ~Dead(p) /\ pc[p] \notin {"owner", "unlock"}
    BY <1>6, <1>0 DEF Locking, WriteOwner, TryLock, ReadLock, RereadLock, RemoveStaleLock, Relock,
       Unlock, Dead, Holding
  <2>2. CASE Return(p)
    BY <2>1, <2>2, <1>4
  <2>3. CASE RemoveStaleLock(p) /\ ~Return(p)
    BY <2>3, <1>5
  <2>4. CASE ~RemoveStaleLock(p) /\ ~Return(p)
    <3>1. lock' = lock /\ pc'[lock] = pc[lock]
      BY <2>1, <2>4, <1>0, <1>6 DEF Locking, WriteOwner, TryLock, ReadLock, RereadLock, Relock,
         Unlock, CreateLock,
         Goto, Dead, Ordered, Shaped, InstallTyped
    <3> QED
      BY <3>1, <1>a
  <2> QED
    BY <2>2, <2>3, <2>4
<1>7. ASSUME NEW p \in Proc, Working(p) PROVE FALSE
  BY <1>7, <1>0, WorkingHolds DEF Ordered, Holding
<1>8. ASSUME NEW p \in Proc, Crash(p) PROVE DeadLock'
  BY <1>8, <1>0, <1>a DEF Crash, Goto, Ordered, Shaped, InstallTyped
<1>9. ASSUME NEW p \in Proc, BeginReconcile(p) \/ BeginRollback(p) PROVE DeadLock'
  BY <1>9, <1>0, <1>a DEF BeginReconcile, BeginRollback, Goto, Ordered, Shaped, InstallTyped
<1>10. ASSUME NEW p \in Proc, NEW t \in Tx, BeginActivate(p, t) PROVE FALSE
  BY <1>10, <1>0 DEF BeginActivate, CreateLock
<1> QED
  BY <1>1, <1>2, <1>3, <1>6, <1>7, <1>8, <1>9, <1>10 DEF Next, Running, Working

\* Faults are counted and stops are recorded, a plan does not change.
LEMMA CarefulStep ==
  ASSUME Shaped, [Next]_vars
  PROVE  /\ Careful' => Careful
         /\ outdated => outdated'
         /\ \A t \in Tx : plan[t] # NoPlan => plan'[t] = plan[t]
         /\ rollbacks \in Nat /\ rollbacks' \in Nat
<1>a. ASSUME UNCHANGED <<faults, died, outdated, plan>>
      PROVE  /\ (Careful' => Careful) /\ (outdated => outdated')
             /\ \A t \in Tx : plan[t] # NoPlan => plan'[t] = plan[t]
  BY <1>a DEF Careful
<1>1. ASSUME UNCHANGED vars
      PROVE  /\ (Careful' => Careful) /\ (outdated => outdated')
             /\ \A t \in Tx : plan[t] # NoPlan => plan'[t] = plan[t]
  BY <1>1, <1>a DEF vars, files, history
<1>2. ASSUME RemovePending
      PROVE  /\ (Careful' => Careful) /\ (outdated => outdated')
             /\ \A t \in Tx : plan[t] # NoPlan => plan'[t] = plan[t]
  BY <1>2, <1>a DEF RemovePending, history
<1>3. ASSUME NEW t \in Tx, NEW r \in Release, Prepare(t, r) \/ StagePending(t, r)
      PROVE  /\ (Careful' => Careful) /\ (outdated => outdated')
             /\ \A u \in Tx : plan[u] # NoPlan => plan'[u] = plan[u]
  BY <1>3 DEF Prepare, StagePending, Fresh, history, Careful, Shaped, InstallTyped
<1>4. ASSUME NEW p \in Proc, Locking(p)
      PROVE  /\ (Careful' => Careful) /\ (outdated => outdated')
             /\ \A t \in Tx : plan[t] # NoPlan => plan'[t] = plan[t]
  BY <1>4, <1>a DEF Locking, WriteOwner, TryLock, ReadLock, RereadLock, RemoveStaleLock, Relock,
     Unlock, CreateLock, Return, files, history
<1>5. ASSUME NEW p \in Proc, Activating(p)
      PROVE  /\ (Careful' => Careful) /\ (outdated => outdated')
             /\ \A t \in Tx : plan[t] # NoPlan => plan'[t] = plan[t]
  <2>1. CASE CheckSource(p)
    BY <2>1, <1>a DEF CheckSource, SourceReady, files, history, Careful
  <2>2. CASE WriteReceipt(p)
    BY <2>2, <1>a DEF WriteReceipt, files, history, Careful
  <2>3. CASE StagePayload(p)
    BY <2>3, <1>a DEF StagePayload, files, history, Careful
  <2>4. CASE BackupCLI(p)
    BY <2>4, <1>a DEF BackupCLI, files, history, Careful
  <2>5. CASE PlaceBundle(p)
    BY <2>5, <1>a DEF PlaceBundle, files, history, Careful
  <2>6. CASE PlaceRuntime(p)
    BY <2>6, <1>a DEF PlaceRuntime, files, history, Careful
  <2>7. CASE PlaceCLI(p)
    BY <2>7, <1>a DEF PlaceCLI, files, history, Careful
  <2>8. CASE CheckActivated(p)
    BY <2>8, <1>a DEF CheckActivated, SelfCheck, files, history, Careful
  <2>9. CASE CommitState(p)
    BY <2>9, <1>a DEF CommitState, WriteState, TargetState, files, history, Careful
  <2>10. CASE UndoCLI(p)
    BY <2>10, <1>a DEF UndoCLI, files, history, Careful
  <2>11. CASE UndoBackup(p)
    BY <2>11, <1>a DEF UndoBackup, Reinstate, files, history, Careful
  <2>12. CASE UndoBundle(p)
    BY <2>12, <1>a DEF UndoBundle, files, history, Careful
  <2>13. CASE UndoRuntime(p)
    BY <2>13, <1>a DEF UndoRuntime, files, history, Careful
  <2>14. CASE Tidy(p)
    BY <2>14, <1>a DEF Tidy, RemoveStaged, RemoveReceipt, files, history, Careful
  <2> QED
    BY <1>5, <2>1, <2>2, <2>3, <2>4, <2>5, <2>6, <2>7, <2>8, <2>9, <2>10, <2>11, <2>12, <2>13,
       <2>14 DEF Activating
<1>6. ASSUME NEW p \in Proc, Reconciling(p)
      PROVE  /\ (Careful' => Careful) /\ (outdated => outdated')
             /\ \A t \in Tx : plan[t] # NoPlan => plan'[t] = plan[t]
  <2>1. CASE Decide(p)
    BY <2>1, <1>a DEF Decide, RestoreEntry, PayloadInstalled, files, history, Careful
  <2>2. CASE CheckInterrupted(p)
    BY <2>2, <1>a DEF CheckInterrupted, SelfCheck, RestoreEntry, files, history, Careful
  <2>3. CASE CompleteState(p)
    BY <2>3, <1>a DEF CompleteState, WriteState, TargetState, files, history, Careful
  <2>4. CASE RestoreCLI(p)
    BY <2>4, <1>a DEF RestoreCLI, RemoveActiveCLI, Reinstate, files, history, Careful
  <2>5. CASE RestoreRest(p)
    BY <2>5, <1>a DEF RestoreRest, RemoveStaged, RemoveReceipt, files, history, Careful
  <2> QED
    BY <1>6, <2>1, <2>2, <2>3, <2>4, <2>5 DEF Reconciling
<1>7. ASSUME NEW p \in Proc, RollingBack(p)
      PROVE  /\ (Careful' => Careful) /\ (outdated => outdated')
             /\ \A t \in Tx : plan[t] # NoPlan => plan'[t] = plan[t]
  <2>1. CASE FindPrevious(p)
    BY <2>1, <1>a DEF FindPrevious, files, history, Careful
  <2>2. CASE RevertCLI(p)
    BY <2>2, <1>a DEF RevertCLI, MoveAside, files, history, Careful
  <2>3. CASE ReactivateCLI(p)
    BY <2>3, <1>a DEF ReactivateCLI, Reinstate, files, history, Careful
  <2>4. CASE CheckPrevious(p)
    BY <2>4, <1>a DEF CheckPrevious, SelfCheck, files, history, Careful
  <2>5. CASE DiscardPrevious(p)
    BY <2>5, <1>a DEF DiscardPrevious, RemoveActiveCLI, files, history, Careful
  <2>6. CASE CommitBack(p)
    BY <2>6, <1>a DEF CommitBack, WriteState, files, history, Careful
  <2>7. CASE Unwind(p)
    BY <2>7, <1>a DEF Unwind, MoveAside, files, history, Careful
  <2>8. CASE GiveBack(p)
    BY <2>8, <1>a DEF GiveBack, Reinstate, files, history, Careful
  <2> QED
    BY <1>7, <2>1, <2>2, <2>3, <2>4, <2>5, <2>6, <2>7, <2>8 DEF RollingBack
<1>8. ASSUME NEW p \in Proc, Fail(p)
      PROVE  /\ (Careful' => Careful) /\ (outdated => outdated')
             /\ \A t \in Tx : plan[t] # NoPlan => plan'[t] = plan[t]
  BY <1>8 DEF Fail, files, Careful, Shaped, InstallTyped
<1>9. ASSUME NEW p \in Proc, Crash(p)
      PROVE  /\ (Careful' => Careful) /\ (outdated => outdated')
             /\ \A t \in Tx : plan[t] # NoPlan => plan'[t] = plan[t]
  BY <1>9 DEF Crash, files, Careful
<1>10. ASSUME NEW p \in Proc, BeginReconcile(p) \/ BeginRollback(p) \/ \E t \in Tx : BeginActivate(p, t)
       PROVE  /\ (Careful' => Careful) /\ (outdated => outdated')
              /\ \A t \in Tx : plan[t] # NoPlan => plan'[t] = plan[t]
  BY <1>10, <1>a DEF BeginReconcile, BeginRollback, BeginActivate, CreateLock, files, history
<1>11. rollbacks \in Nat /\ rollbacks' \in Nat
  BY StepShaped, InstallAssumption DEF Shaped, InstallTyped
<1> QED
  BY <1>1, <1>2, <1>3, <1>4, <1>5, <1>6, <1>7, <1>8, <1>9, <1>10, <1>11 DEF Next, Running

\* A slot on a shelf stays there unless the state comes to name it, it is
\* emptied or, without an error, its receipt is removed.
LEMMA ShelvesStep ==
  ASSUME Ordered, TwoProcesses, [Next]_vars, NEW s \in Shelves,
         backup'[s] = backup[s], s # state'.slot, s \in receipts => ~Careful \/ s \in receipts'
  PROVE  s \in Shelves'
<1>1. /\ s \in Slot /\ s # state.slot /\ backup[s] # None /\ (DeadLock \/ ~Threatened(s))
      /\ Careful => s \in Tx /\ s \in receipts /\ plan[s].from = backup[s]
  BY DEF Shelves
<1>2. (s \in Tx => plan[s] # NoPlan) /\ s <= MaxTx + rollbacks /\ s \in Int
  BY <1>1, InstallAssumption DEF Ordered, Planned, Slot
<1>3. (s \in Tx => plan'[s] = plan[s]) /\ (Careful' => Careful)
  BY <1>2, CarefulStep DEF Ordered
<1>4. DeadLock' \/ ~Threatened(s)'
  <2>1. CASE DeadLock
    BY <2>1, DeadLockStep DEF Threatened
  <2>2. CASE ~DeadLock
    <3>1. ~Threatened(s)
      BY <1>1, <2>2
    <3>2. SUFFICES ASSUME NEW q \in Proc, Undoing(q)', kept'[q] = s \/ snapshot'[q].slot = s
                   PROVE  FALSE
      BY DEF Threatened
    <3>3. MaxTx + rollbacks + 1 # s
      BY <1>2, CarefulStep, InstallAssumption DEF Ordered
    <3> QED
      BY <3>1, <3>2, <3>3, <1>1, UndoingStep DEF Threatened, Ordered
  <2> QED
    BY <2>1, <2>2
<1> QED
  BY <1>1, <1>3, <1>4 DEF Shelves

\* A process that is not past the lock has nothing to keep.
LEMMA OutsideSafe ==
  ASSUME NEW q \in Proc, pc'[q] \notin Holding
  PROVE  CallSafe(q)'
  BY DEF CallSafe, FirstAt, UpdateAt, RollbackAt, Engaged, Activation, Reconciliation, Aside,
     Reversed, Holding

\* What a process past the lock can rely on, and what it must see to.
LEMMA Alone ==
  ASSUME Ordered, Safe, TwoProcesses, NEW p \in Proc, Working(p), ~outdated'
  PROVE  /\ \A q \in Proc \ {p} : pc[q] \notin Holding /\ pc'[q] = pc[q] /\ kept'[q] = kept[q]
         /\ UNCHANGED <<plan, pending, call, tx, snapshot>>
         /\ CallSafe(p) /\ (pending # None => SoundBackup(pending))
         /\ state # NoState /\ pc[p] \notin Aside \cup Reversed => Secure
         /\ Careful' => Careful
         /\ \A s \in Shelves : s \in Slot /\ s # state.slot /\ backup[s] # None
         /\ Undoing(p) => kept[p] \notin Shelves /\ snapshot[p].slot \notin Shelves
         /\ Shaped' /\ Shaped /\ ~outdated
<1>1. [Next]_vars
  BY DEF Next, Running, Working, Locking
<1>2. Shaped' /\ Shaped /\ ~outdated /\ (Careful' => Careful)
  BY <1>1, StepShaped, CarefulStep DEF Ordered
<1>3. /\ \A q \in Proc \ {p} : pc'[q] = pc[q] /\ kept'[q] = kept[q]
      /\ UNCHANGED <<plan, pending, call, tx, snapshot>> /\ pc[p] \in Holding
  BY WorkingHolds DEF Ordered
<1>4. lock = p /\ \A q \in Proc \ {p} : pc[q] \notin Holding
  BY <1>3 DEF Ordered, Exclusive, LockAt
<1>5. ~DeadLock
  BY <1>3, <1>4 DEF DeadLock, Dead, Holding
<1>6. \A s \in Shelves : s \in Slot /\ s # state.slot /\ backup[s] # None /\ ~Threatened(s)
  BY <1>5 DEF Shelves
<1>7. Undoing(p) => kept[p] \notin Shelves /\ snapshot[p].slot \notin Shelves
  BY <1>6 DEF Threatened
<1>8. state # NoState /\ pc[p] \notin Aside \cup Reversed => Secure
  BY <1>2, <1>4 DEF Safe, SecureBetween, Aside, Reversed, Holding
<1> QED
  BY <1>2, <1>3, <1>4, <1>6, <1>7, <1>8 DEF Safe

\* The shelves while a process works.
LEMMA ShelvesWorking ==
  ASSUME Ordered, TwoProcesses, NEW p \in Proc, Working(p), NEW s \in Shelves,
         backup'[s] = backup[s], s # state'.slot, s \in receipts => ~Careful \/ s \in receipts'
  PROVE  s \in Shelves'
<1>1. [Next]_vars
  BY DEF Next, Running, Working, Locking
<1> QED
  BY <1>1, ShelvesStep

\* What a process past the lock has to show of its step.
LEMMA WorkingSafe ==
  ASSUME Ordered, Safe, TwoProcesses, NEW p \in Proc, Working(p), ~outdated',
         state' # NoState /\ pc'[p] \notin Aside \cup Reversed => Secure',
         pending # None => SoundBackup(pending)', CallSafe(p)'
  PROVE  Safe'
<1>1. /\ \A q \in Proc \ {p} : pc[q] \notin Holding /\ pc'[q] = pc[q]
      /\ pending' = pending
  BY Alone
<1>2. \A q \in Proc \ {p} : CallSafe(q)'
  BY <1>1, OutsideSafe
<1>3. SecureBetween'
  BY DEF SecureBetween
<1>4. pending' # None => SoundBackup(pending)'
  BY <1>1
<1> QED
  BY <1>2, <1>3, <1>4 DEF Safe

\* A step that leaves the installation as it is.
LEMMA QuietStep ==
  ASSUME Ordered, TwoProcesses, [Next]_vars,
         UNCHANGED <<state, cli, bundles, backup, receipts>>
  PROVE  /\ \A s \in Shelves : s \in Shelves'
         /\ Secure => Secure'
         /\ \A t \in Tx : plan[t] # NoPlan /\ SoundBackup(t) => SoundBackup(t)'
<1>1. \A s \in Shelves : s # state.slot
  BY DEF Shelves
<1>2. \A s \in Shelves : s \in Shelves'
  BY <1>1, ShelvesStep
<1>3. Careful' => Careful
  BY CarefulStep DEF Ordered
<1>4. Secure => Secure'
  BY <1>2, <1>3 DEF Secure
<1>5. ASSUME NEW t \in Tx, plan[t] # NoPlan, SoundBackup(t) PROVE SoundBackup(t)'
  <2>1. plan'[t] = plan[t]
    BY <1>5, CarefulStep DEF Ordered
  <2> QED
    BY <1>2, <1>5, <2>1 DEF SoundBackup
<1> QED
  BY <1>2, <1>4, <1>5

\* A working step that leaves the installation as it is.
LEMMA QuietSafe ==
  ASSUME Ordered, Safe, TwoProcesses, NEW p \in Proc, Working(p), ~outdated',
         UNCHANGED <<state, cli, bundles, backup, receipts>>,
         pc[p] \in Aside \cup Reversed => pc'[p] \in Aside \cup Reversed \/ Secure',
         CallSafe(p)'
  PROVE  Safe'
<1>1. [Next]_vars
  BY DEF Next, Running, Working, Locking
<1>2. /\ UNCHANGED pending /\ Shaped
      /\ pending # None => SoundBackup(pending)
      /\ state # NoState /\ pc[p] \notin Aside \cup Reversed => Secure
  BY Alone
<1>3. /\ Secure => Secure'
      /\ \A t \in Tx : plan[t] # NoPlan /\ SoundBackup(t) => SoundBackup(t)'
  BY <1>1, QuietStep
<1>4. pending # None => SoundBackup(pending)'
  BY <1>2, <1>3 DEF Shaped, Sourced, InstallTyped
<1> QED
  BY <1>2, <1>3, <1>4, WorkingSafe

\* What a process keeps over a working step that leaves the installation as it is.
LEMMA QuietCall ==
  ASSUME Ordered, Safe, TwoProcesses, NEW p \in Proc, Working(p), ~outdated',
         UNCHANGED <<state, cli, bundles, backup, receipts>>
  PROVE  /\ CallSafe(p) /\ Shaped /\ (Careful' => Careful)
         /\ \A s \in Shelves : s \in Shelves'
         /\ UNCHANGED <<plan, pending, call, tx, snapshot>>
         /\ tx[p] \in Tx /\ plan[tx[p]] # NoPlan /\ SoundBackup(tx[p]) => SoundBackup(tx[p])'
<1>1. [Next]_vars
  BY DEF Next, Running, Working, Locking
<1>2. /\ CallSafe(p) /\ Shaped /\ (Careful' => Careful) /\ UNCHANGED <<plan, pending, call, tx,
                                                                       snapshot>>
  BY Alone
<1>3. tx[p] \in Tx /\ plan[tx[p]] # NoPlan /\ SoundBackup(tx[p]) => SoundBackup(tx[p])'
  BY <1>1, <1>2, QuietStep
<1> QED
  BY <1>1, <1>2, <1>3, QuietStep

\* The source of an activation is checked: its backup is not there yet.
LEMMA CheckSourceSafe ==
  ASSUME Ordered, Safe, TwoProcesses, NEW p \in Proc, CheckSource(p), ~outdated'
  PROVE  Safe'
<1>1. /\ Working(p) /\ UNCHANGED <<state, cli, bundles, backup, receipts, plan, pending, call, tx,
                                   kept, snapshot>>
      /\ pc[p] = "check" /\ pc'[p] = IF ~SourceReady(p) THEN "unlock" ELSE IF From(p) = None THEN "stage" ELSE "receipt"
  BY DEF CheckSource, Working, Activating, files, locals, Goto, Ordered, Shaped, InstallTyped
<1>2. CallSafe(p) /\ Shaped /\ [Next]_vars
  BY <1>1, Alone DEF Next, Running, Working, Locking
<1>3. call[p] = "activate" /\ tx[p] \in Tx /\ plan[tx[p]] # NoPlan /\ kept[p] = None
  BY <1>1, <1>2 DEF Shaped, Calling, CallAt, Activation, InstallTyped
<1>4. Engaged(p)' => SoundBackup(tx[p])'
  BY <1>1, <1>2, <1>3, QuietStep DEF CallSafe, UpdateAt, Engaged, Activation, From
<1>5. FirstAt(p)'
  BY <1>1, <1>3, <1>2, SlotsAndFiles DEF FirstAt, CallSafe, SourceReady, From, To, MatchesSource,
     Shaped, InstallTyped, Activation, Reconciliation, Release, None
<1>6. UpdateAt(p)'
  BY <1>1, <1>2, <1>3, <1>4 DEF CallSafe, UpdateAt, Engaged, SoundBackup, SourceReady, From, To,
     MatchesSource, Activation, Reconciliation, Aside
<1>7. RollbackAt(p)'
  BY <1>1 DEF RollbackAt, Reversed
<1> QED
  BY <1>1, <1>5, <1>6, <1>7, QuietSafe DEF CallSafe, Aside, Reversed

\* The payload is staged, or a leftover ends the activation.
LEMMA StagePayloadSafe ==
  ASSUME Ordered, Safe, TwoProcesses, NEW p \in Proc, StagePayload(p), ~outdated'
  PROVE  Safe'
<1>1. /\ Working(p) /\ UNCHANGED <<state, cli, bundles, backup, receipts, kept>>
      /\ pc[p] = "stage" /\ pc'[p] \in {"unreceipt", "backup"}
  BY DEF StagePayload, Working, Activating, files, locals, Goto, Ordered, Shaped, InstallTyped
<1>2. /\ CallSafe(p) /\ Shaped /\ (Careful' => Careful)
      /\ \A s \in Shelves : s \in Shelves'
      /\ UNCHANGED <<plan, pending, call, tx, snapshot>>
      /\ tx[p] \in Tx /\ plan[tx[p]] # NoPlan /\ SoundBackup(tx[p]) => SoundBackup(tx[p])'
  BY <1>1, QuietCall
<1>3. tx[p] \in Tx /\ plan[tx[p]] # NoPlan
  BY <1>1, <1>2 DEF Shaped, Calling, CallAt, Activation, Reconciliation, InstallTyped
<1>4. FirstAt(p)'
  BY <1>1, <1>2 DEF FirstAt, CallSafe, From, To, Activation, Reconciliation
<1>5. UpdateAt(p)'
  <2>1. Engaged(p)' => Engaged(p)
    BY <1>1, <1>2 DEF Engaged, From, Activation, Reconciliation
  <2> QED
    BY <1>1, <1>2, <1>3, <2>1 DEF CallSafe, UpdateAt, From, To, MatchesSource, Aside, Activation,
       Reconciliation, Engaged
<1>6. RollbackAt(p)'
  BY <1>1 DEF RollbackAt, Reversed
<1> QED
  BY <1>1, <1>4, <1>5, <1>6, QuietSafe DEF CallSafe, Aside, Reversed

\* The runtime is placed.
LEMMA PlaceRuntimeSafe ==
  ASSUME Ordered, Safe, TwoProcesses, NEW p \in Proc, PlaceRuntime(p), ~outdated'
  PROVE  Safe'
<1>1. /\ Working(p) /\ UNCHANGED <<state, cli, bundles, backup, receipts, kept>>
      /\ pc[p] = "runtime" /\ pc'[p] \in {"undoCLI", "place"}
  BY DEF PlaceRuntime, Working, Activating, files, locals, Goto, Ordered, Shaped, InstallTyped
<1>2. /\ CallSafe(p) /\ Shaped /\ (Careful' => Careful)
      /\ \A s \in Shelves : s \in Shelves'
      /\ UNCHANGED <<plan, pending, call, tx, snapshot>>
      /\ tx[p] \in Tx /\ plan[tx[p]] # NoPlan /\ SoundBackup(tx[p]) => SoundBackup(tx[p])'
  BY <1>1, QuietCall
<1>3. tx[p] \in Tx /\ plan[tx[p]] # NoPlan
  BY <1>1, <1>2 DEF Shaped, Calling, CallAt, Activation, Reconciliation, InstallTyped
<1>4. FirstAt(p)'
  BY <1>1, <1>2 DEF FirstAt, CallSafe, From, To, Activation, Reconciliation
<1>5. UpdateAt(p)'
  <2>1. Engaged(p)' => Engaged(p)
    BY <1>1, <1>2 DEF Engaged, From, Activation, Reconciliation
  <2> QED
    BY <1>1, <1>2, <1>3, <2>1 DEF CallSafe, UpdateAt, From, To, MatchesSource, Aside, Activation,
       Reconciliation, Engaged
<1>6. RollbackAt(p)'
  BY <1>1 DEF RollbackAt, Reversed
<1> QED
  BY <1>1, <1>4, <1>5, <1>6, QuietSafe DEF CallSafe, Aside, Reversed

\* The CLI that was placed is run: it is the target's, or the activation is undone.
LEMMA CheckActivatedSafe ==
  ASSUME Ordered, Safe, TwoProcesses, NEW p \in Proc, CheckActivated(p), ~outdated'
  PROVE  Safe'
<1>1. /\ Working(p) /\ UNCHANGED <<state, cli, bundles, backup, receipts, kept>>
      /\ pc[p] = "selfcheck" /\ (pc'[p] = "undoCLI" \/ (cli = To(p) /\ pc'[p] = "commit"))
  BY DEF CheckActivated, SelfCheck, Working, Activating, files, locals, Goto, Ordered, Shaped,
     InstallTyped
<1>2. /\ CallSafe(p) /\ Shaped /\ (Careful' => Careful)
      /\ \A s \in Shelves : s \in Shelves'
      /\ UNCHANGED <<plan, pending, call, tx, snapshot>>
      /\ tx[p] \in Tx /\ plan[tx[p]] # NoPlan /\ SoundBackup(tx[p]) => SoundBackup(tx[p])'
  BY <1>1, QuietCall
<1>3. tx[p] \in Tx /\ plan[tx[p]] # NoPlan
  BY <1>1, <1>2 DEF Shaped, Calling, CallAt, Activation, Reconciliation, InstallTyped
<1>4. FirstAt(p)'
  BY <1>1, <1>2 DEF FirstAt, CallSafe, From, To, Activation, Reconciliation
<1>5. UpdateAt(p)'
  <2>1. Engaged(p)' => Engaged(p)
    BY <1>1, <1>2 DEF Engaged, From, Activation, Reconciliation
  <2> QED
    BY <1>1, <1>2, <1>3, <2>1 DEF CallSafe, UpdateAt, From, To, MatchesSource, Aside, Activation,
       Reconciliation, Engaged
<1>6. RollbackAt(p)'
  BY <1>1 DEF RollbackAt, Reversed
<1> QED
  BY <1>1, <1>4, <1>5, <1>6, QuietSafe DEF CallSafe, Aside, Reversed

\* The runtime of the target is removed.
LEMMA UndoRuntimeSafe ==
  ASSUME Ordered, Safe, TwoProcesses, NEW p \in Proc, UndoRuntime(p), ~outdated'
  PROVE  Safe'
<1>1. /\ Working(p) /\ UNCHANGED <<state, cli, bundles, backup, receipts, kept>>
      /\ pc[p] = "undoRuntime" /\ pc'[p] = "tidy"
  BY DEF UndoRuntime, Working, Activating, files, locals, Goto, Ordered, Shaped, InstallTyped
<1>2. /\ CallSafe(p) /\ Shaped /\ (Careful' => Careful)
      /\ \A s \in Shelves : s \in Shelves'
      /\ UNCHANGED <<plan, pending, call, tx, snapshot>>
      /\ tx[p] \in Tx /\ plan[tx[p]] # NoPlan /\ SoundBackup(tx[p]) => SoundBackup(tx[p])'
  BY <1>1, QuietCall
<1>3. tx[p] \in Tx /\ plan[tx[p]] # NoPlan
  BY <1>1, <1>2 DEF Shaped, Calling, CallAt, Activation, Reconciliation, InstallTyped
<1>4. FirstAt(p)'
  BY <1>1, <1>2 DEF FirstAt, CallSafe, From, To, Activation, Reconciliation
<1>5. UpdateAt(p)'
  <2>1. Engaged(p)' => Engaged(p)
    BY <1>1, <1>2 DEF Engaged, From, Activation, Reconciliation
  <2> QED
    BY <1>1, <1>2, <1>3, <2>1 DEF CallSafe, UpdateAt, From, To, MatchesSource, Aside, Activation,
       Reconciliation, Engaged
<1>6. RollbackAt(p)'
  BY <1>1 DEF RollbackAt, Reversed
<1> QED
  BY <1>1, <1>4, <1>5, <1>6, QuietSafe DEF CallSafe, Aside, Reversed

\* The CLI that an interrupted activation left is run, to complete it or to restore its source.
LEMMA CheckInterruptedSafe ==
  ASSUME Ordered, Safe, TwoProcesses, NEW p \in Proc, CheckInterrupted(p), ~outdated'
  PROVE  Safe'
<1>1. /\ Working(p) /\ UNCHANGED <<state, cli, bundles, backup, receipts, kept>>
      /\ pc[p] = "recheck" /\ ((cli = To(p) /\ pc'[p] = "recommit") \/ pc'[p] = RestoreEntry(p))
  BY DEF CheckInterrupted, SelfCheck, Working, Reconciling, files, locals, Goto, Ordered, Shaped,
     InstallTyped
<1>2. /\ CallSafe(p) /\ Shaped /\ (Careful' => Careful)
      /\ \A s \in Shelves : s \in Shelves'
      /\ UNCHANGED <<plan, pending, call, tx, snapshot>>
      /\ tx[p] \in Tx /\ plan[tx[p]] # NoPlan /\ SoundBackup(tx[p]) => SoundBackup(tx[p])'
  BY <1>1, QuietCall
<1>3. tx[p] \in Tx /\ plan[tx[p]] # NoPlan
  BY <1>1, <1>2 DEF Shaped, Calling, CallAt, Activation, Reconciliation, InstallTyped
<1>4. FirstAt(p)'
  BY <1>1, <1>2 DEF FirstAt, CallSafe, From, To, Activation, Reconciliation, RestoreEntry
<1>5. UpdateAt(p)'
  <2>1. Engaged(p)' => Engaged(p)
    BY <1>1, <1>2 DEF Engaged, From, Activation, Reconciliation
  <2> QED
    BY <1>1, <1>2, <1>3, <2>1 DEF CallSafe, UpdateAt, From, To, MatchesSource, Aside, Activation,
       Reconciliation, Engaged, RestoreEntry
<1>6. RollbackAt(p)'
  BY <1>1 DEF RollbackAt, Reversed, RestoreEntry
<1> QED
  BY <1>1, <1>4, <1>5, <1>6, QuietSafe DEF CallSafe, Aside, Reversed, RestoreEntry

\* A rollback looks for the previous CLI before it moves anything.
LEMMA FindPreviousSafe ==
  ASSUME Ordered, Safe, TwoProcesses, NEW p \in Proc, FindPrevious(p), ~outdated'
  PROVE  Safe'
<1>1. /\ Working(p) /\ UNCHANGED <<state, cli, bundles, backup, receipts, kept>>
      /\ pc[p] = "lstat" /\ (pc'[p] = "unlock" \/ (backup[snapshot[p].slot] # None /\ pc'[p] = "revert"))
  BY DEF FindPrevious, Working, RollingBack, files, locals, Goto, Ordered, Shaped, InstallTyped
<1>2. /\ CallSafe(p) /\ Shaped /\ (Careful' => Careful)
      /\ \A s \in Shelves : s \in Shelves'
      /\ UNCHANGED <<plan, pending, call, tx, snapshot>>
      /\ tx[p] \in Tx /\ plan[tx[p]] # NoPlan /\ SoundBackup(tx[p]) => SoundBackup(tx[p])'
  BY <1>1, QuietCall
<1>4. FirstAt(p)' /\ UpdateAt(p)'
  BY <1>1 DEF FirstAt, UpdateAt, Engaged, Activation, Reconciliation
<1>6. RollbackAt(p)'
  BY <1>1, <1>2 DEF CallSafe, RollbackAt, Reversed
<1> QED
  BY <1>1, <1>4, <1>6, QuietSafe DEF CallSafe, Aside, Reversed

\* The previous CLI is run: it is the one to go back to, or it is discarded.
LEMMA CheckPreviousSafe ==
  ASSUME Ordered, Safe, TwoProcesses, NEW p \in Proc, CheckPrevious(p), ~outdated'
  PROVE  Safe'
<1>1. /\ Working(p) /\ UNCHANGED <<state, cli, bundles, backup, receipts, kept>>
      /\ pc[p] = "verify" /\ (pc'[p] = "discard" \/ (cli = snapshot[p].previous /\ pc'[p] = "commitBack"))
  BY DEF CheckPrevious, SelfCheck, Working, RollingBack, files, locals, Goto, Ordered, Shaped,
     InstallTyped
<1>2. /\ CallSafe(p) /\ Shaped /\ (Careful' => Careful)
      /\ \A s \in Shelves : s \in Shelves'
      /\ UNCHANGED <<plan, pending, call, tx, snapshot>>
      /\ tx[p] \in Tx /\ plan[tx[p]] # NoPlan /\ SoundBackup(tx[p]) => SoundBackup(tx[p])'
  BY <1>1, QuietCall
<1>4. FirstAt(p)' /\ UpdateAt(p)'
  BY <1>1 DEF FirstAt, UpdateAt, Engaged, Activation, Reconciliation
<1>6. RollbackAt(p)'
  BY <1>1, <1>2 DEF CallSafe, RollbackAt, Reversed
<1> QED
  BY <1>1, <1>4, <1>6, QuietSafe DEF CallSafe, Aside, Reversed


\* The lock is written: an activation and a rollback begin.
LEMMA WriteOwnerSafe ==
  ASSUME Ordered, Safe, TwoProcesses, NEW p \in Proc, WriteOwner(p), ~outdated'
  PROVE  Safe'
<1>1. /\ Working(p) /\ UNCHANGED <<state, cli, bundles, backup, receipts, kept>>
      /\ pc[p] = "owner" /\ pc'[p] = Entry(p)
  BY DEF WriteOwner, Working, files, locals, Goto, Ordered, Shaped, InstallTyped
<1>2. /\ CallSafe(p) /\ Shaped /\ (Careful' => Careful)
      /\ UNCHANGED <<plan, pending, call, tx, snapshot>>
      /\ tx[p] \in Tx /\ plan[tx[p]] # NoPlan /\ SoundBackup(tx[p]) => SoundBackup(tx[p])'
  BY <1>1, QuietCall
<1>3. \/ pc'[p] \in {"decide", "unlock", "lstat"}
      \/ pc'[p] = "check" /\ call[p] = "activate" /\ tx[p] \in Tx /\ plan[tx[p]] # NoPlan
  BY <1>1, <1>2 DEF Entry, Shaped, Calling, CallAt, InstallTyped
<1>4. FirstAt(p)' /\ RollbackAt(p)'
  BY <1>3 DEF FirstAt, RollbackAt, Reversed, Activation, Reconciliation
<1>5. UpdateAt(p)'
  BY <1>1, <1>2, <1>3 DEF CallSafe, UpdateAt, Engaged, From, Activation, Reconciliation, Aside
<1> QED
  BY <1>1, <1>4, <1>5, QuietSafe DEF CallSafe, Aside, Reversed

\* A reconciliation decides on the pending update, if it is the one it has read.
LEMMA DecideSafe ==
  ASSUME Ordered, Safe, TwoProcesses, NEW p \in Proc, Decide(p), ~outdated'
  PROVE  Safe'
<1>1. /\ Working(p) /\ UNCHANGED <<state, cli, bundles, backup, receipts, kept>>
      /\ pc[p] = "decide" /\ tx[p] = pending /\ tx[p] \in receipts
      /\ \/ pc'[p] = "unlock"
         \/ /\ MatchesSource(tx[p])
            /\ \/ pc'[p] = "recheck" /\ To(p) \in bundles /\ backup[tx[p]] # None
               \/ pc'[p] = "rmCLI" /\ backup[tx[p]] # None
               \/ pc'[p] = "rmBundle" /\ backup[tx[p]] = None
  BY DEF Decide, RestoreEntry, PayloadInstalled, Working, Reconciling, files, locals, Goto, Ordered,
     Shaped, InstallTyped
<1>2. /\ CallSafe(p) /\ Shaped /\ (Careful' => Careful)
      /\ UNCHANGED <<plan, pending, call, tx, snapshot>>
      /\ tx[p] \in Tx /\ plan[tx[p]] # NoPlan /\ SoundBackup(tx[p]) => SoundBackup(tx[p])'
  BY <1>1, QuietCall
<1>3. tx[p] \in Tx /\ plan[tx[p]] # NoPlan /\ tx[p] # None
  BY <1>1, <1>2 DEF Shaped, Calling, CallAt, InstallTyped
<1>4. SoundBackup(tx[p]) /\ From(p) # None
  BY <1>1, <1>3, Alone DEF Ordered, Planned, From
<1>5. FirstAt(p)' /\ RollbackAt(p)'
  BY <1>1, <1>2, <1>4 DEF FirstAt, RollbackAt, Reversed, Activation, Reconciliation, From
<1>6. UpdateAt(p)'
  BY <1>1, <1>2, <1>3, <1>4 DEF UpdateAt, Engaged, From, To, MatchesSource, Activation,
     Reconciliation, Aside
<1> QED
  BY <1>1, <1>5, <1>6, QuietSafe DEF CallSafe, Aside, Reversed

\* A rollback that is over leaves its slot on a shelf.
LEMMA OwnSlotShelved ==
  ASSUME Ordered, TwoProcesses, NEW p \in Proc, Undoing(p),
         ~Undoing(p)', \A q \in Proc \ {p} : Undoing(q)' => Undoing(q) /\ kept'[q] = kept[q] /\ snapshot'[q] = snapshot[q],
         state' = state, NEW k, k = kept[p], backup'[k] # None, ~Careful'
  PROVE  k \in Shelves'
<1>1. /\ k \in Slot /\ k # state.slot
      /\ \A q \in Proc \ {p} : Undoing(q) => snapshot[q].slot # k /\ kept[q] # k
  BY DEF Ordered, OwnSlots, OwnSlot, Shaped, InstallTyped, Calling, CallAt, Undoing
<1>2. ~Threatened(k)'
  BY <1>1 DEF Threatened
<1> QED
  BY <1>1, <1>2 DEF Shelves

\* An error: what was moved away is still where it was.
LEMMA FailSafe ==
  ASSUME Ordered, Safe, TwoProcesses, NEW p \in Proc, Fail(p), ~outdated'
  PROVE  Safe'
<1>1. /\ Working(p) /\ UNCHANGED <<state, cli, bundles, backup, receipts, kept>>
      /\ pc[p] \in DOMAIN OnError /\ pc'[p] = OnError[pc[p]] /\ ~Careful'
  BY DEF Fail, Working, files, locals, Goto, Ordered, Shaped, InstallTyped, Careful
<1>2. /\ CallSafe(p) /\ Shaped /\ (Careful' => Careful)
      /\ \A s \in Shelves : s \in Shelves'
      /\ UNCHANGED <<plan, pending, call, tx, snapshot>>
      /\ tx[p] \in Tx /\ plan[tx[p]] # NoPlan /\ SoundBackup(tx[p]) => SoundBackup(tx[p])'
  BY <1>1, QuietCall
<1>a. ASSUME pc'[p] = "unlock" PROVE CallSafe(p)'
  BY <1>a DEF CallSafe, FirstAt, UpdateAt, RollbackAt, Engaged, Activation, Reconciliation, Aside,
     Reversed
<1>b. ASSUME pc[p] \in Activation PROVE tx[p] \in Tx /\ plan[tx[p]] # NoPlan /\ tx[p] \in Slot
  BY <1>b, <1>2, SlotsAndFiles DEF Shaped, Calling, CallAt, Activation, InstallTyped
<1>3. CASE /\ pc'[p] = "unlock"
           /\ pc[p] \in {"owner", "check", "receipt", "decide", "recommit", "rmCLI", "rmBundle", "rmStaged",
                         "rmReceipt", "lstat", "revert"}
  BY <1>1, <1>3, <1>a, QuietSafe DEF Aside, Reversed
<1>4. CASE pc'[p] = "unlock" /\ pc[p] = "mvBackup"
  <2>1. Engaged(p) /\ tx[p] \in Slot /\ MatchesSource(tx[p]) /\ cli = None /\ SoundBackup(tx[p]) /\ backup[tx[p]] # None
    BY <1>2, <1>4, SlotsAndFiles DEF CallSafe, FirstAt, UpdateAt, Engaged, Reconciliation, Aside,
       Shaped, Calling, CallAt, InstallTyped
  <2>2. Secure'
    BY <1>1, <1>2, <2>1 DEF Secure, SoundBackup, MatchesSource
  <2> QED
    BY <1>1, <1>4, <1>a, <2>2, QuietSafe
<1>5. CASE pc'[p] = "unlock" /\ pc[p] = "giveBack"
  <2>1. Undoing(p) /\ ~Undoing(p)' /\ \A q \in Proc \ {p} : Undoing(q)' => Undoing(q)
    BY <1>1, <1>2, <1>5, Alone DEF Undoing, Shaped, Calling, CallAt, Reversal
  <2>2. state # NoState => backup[kept[p]] # state.release \/ kept[p] \in Shelves'
    BY <1>1, <1>2, <2>1, OwnSlotShelved, SlotsAndFiles DEF Shaped, InstallTyped, Release, None
  <2>3. state # NoState
    BY <2>1 DEF Ordered, Planned, Undoing
  <2>4. Secure'
    BY <1>1, <1>2, <1>5, <2>2, <2>3 DEF CallSafe, RollbackAt, Reversed, Secure
  <2> QED
    BY <1>1, <1>5, <1>a, <2>4, QuietSafe
<1>6. CASE pc[p] \in {"stage", "backup", "bundle", "runtime", "place", "commit"}
  <2>1. \/ pc[p] = "stage" /\ pc'[p] = "unreceipt"
        \/ pc[p] = "backup" /\ pc'[p] = "tidy"
        \/ pc[p] \in {"bundle", "runtime", "place", "commit"} /\ pc'[p] = "undoCLI"
    BY <1>1, <1>6, ErrorTable
  <2>2. tx[p] \in Tx /\ plan[tx[p]] # NoPlan
    BY <1>6, <1>b DEF Activation
  <2>3. FirstAt(p)' /\ RollbackAt(p)'
    BY <1>1, <1>2, <2>1 DEF CallSafe, FirstAt, RollbackAt, From, To, Activation, Reconciliation,
       Reversed
  <2>4. UpdateAt(p)'
    BY <1>1, <1>2, <2>1, <2>2 DEF CallSafe, UpdateAt, Engaged, From, To, MatchesSource, Activation,
       Reconciliation, Aside
  <2> QED
    BY <1>1, <2>1, <2>3, <2>4, QuietSafe DEF CallSafe, Aside, Reversed
<1>7. CASE pc[p] = "undoBackup"
  <2>1. pc'[p] = "undoBundle"
    BY <1>1, <1>7, ErrorTable
  <2>2. tx[p] \in Tx /\ plan[tx[p]] # NoPlan /\ tx[p] \in Slot
    BY <1>7, <1>b DEF Activation
  <2>3. Engaged(p) /\ MatchesSource(tx[p]) /\ cli = None /\ SoundBackup(tx[p]) /\ backup[tx[p]] # None
    BY <1>2, <1>7 DEF CallSafe, FirstAt, UpdateAt, Engaged, Activation, Aside
  <2>4. Secure'
    BY <1>1, <1>2, <2>2, <2>3 DEF Secure, SoundBackup, MatchesSource
  <2>5. FirstAt(p)' /\ RollbackAt(p)'
    BY <1>1, <1>2, <1>7, <2>1, <2>3 DEF Engaged, FirstAt, RollbackAt, From, Activation,
       Reconciliation, Reversed
  <2>6. UpdateAt(p)'
    BY <1>1, <1>2, <1>7, <2>1, <2>2, <2>3 DEF CallSafe, UpdateAt, Engaged, From, To, MatchesSource,
       Activation, Reconciliation, Aside
  <2> QED
    BY <1>1, <2>4, <2>5, <2>6, QuietSafe DEF CallSafe
<1>8. CASE pc[p] \in {"reactivate", "unwind", "commitBack"}
  <2>1. \/ pc[p] \in {"reactivate", "unwind"} /\ pc'[p] = "giveBack"
        \/ pc[p] = "commitBack" /\ pc'[p] = "unwind"
    BY <1>1, <1>8, ErrorTable
  <2>2. FirstAt(p)' /\ UpdateAt(p)'
    BY <2>1 DEF FirstAt, UpdateAt, Engaged, Activation, Reconciliation
  <2>3. RollbackAt(p)'
    BY <1>1, <1>2, <2>1 DEF CallSafe, RollbackAt, Reversed
  <2> QED
    BY <1>1, <2>1, <2>2, <2>3, QuietSafe DEF CallSafe, Aside, Reversed
<1> QED
  BY <1>1, <1>3, <1>4, <1>5, <1>6, <1>7, <1>8, ErrorTable

\* The pending CLI of a transaction is removed.
LEMMA RemoveStagedSafe ==
  ASSUME Ordered, Safe, TwoProcesses, NEW p \in Proc, ~outdated',
         RemoveStaged(p, "tidy", "unreceipt") \/ RemoveStaged(p, "rmStaged", "rmReceipt")
  PROVE  Safe'
<1>1. /\ Working(p) /\ UNCHANGED <<state, cli, bundles, backup, receipts, kept>>
      /\ \/ pc[p] = "tidy" /\ pc'[p] = "unreceipt"
         \/ pc[p] = "rmStaged" /\ pc'[p] = "rmReceipt"
  BY DEF RemoveStaged, Tidy, RestoreRest, Working, Activating, Reconciling, files, locals, Goto,
     Ordered, Shaped, InstallTyped
<1>2. /\ CallSafe(p) /\ Shaped /\ (Careful' => Careful)
      /\ UNCHANGED <<plan, pending, call, tx, snapshot>>
      /\ tx[p] \in Tx /\ plan[tx[p]] # NoPlan /\ SoundBackup(tx[p]) => SoundBackup(tx[p])'
  BY <1>1, QuietCall
<1>3. tx[p] \in Tx /\ plan[tx[p]] # NoPlan
  BY <1>1, <1>2 DEF Shaped, Calling, CallAt, Activation, Reconciliation, InstallTyped
<1>4. FirstAt(p)' /\ RollbackAt(p)'
  BY <1>1, <1>2 DEF FirstAt, RollbackAt, CallSafe, From, To, Activation, Reconciliation, Reversed
<1>5. UpdateAt(p)'
  BY <1>1, <1>2, <1>3 DEF CallSafe, UpdateAt, From, To, MatchesSource, Aside, Activation,
     Reconciliation, Engaged
<1> QED
  BY <1>1, <1>4, <1>5, QuietSafe DEF CallSafe, Aside, Reversed

\* An activation and a reconciliation have a prepared transaction, with its slot.
LEMMA CallTransaction ==
  ASSUME Shaped, NEW p \in Proc, pc[p] \in Activation \cup Reconciliation
  PROVE  tx[p] \in Tx /\ plan[tx[p]] # NoPlan /\ tx[p] \in Slot /\ tx[p] # None
  BY SlotsAndFiles DEF Shaped, Calling, CallAt, Activation, Reconciliation, InstallTyped

\* The receipt of an update is written.
LEMMA WriteReceiptSafe ==
  ASSUME Ordered, Safe, TwoProcesses, NEW p \in Proc, WriteReceipt(p), ~outdated'
  PROVE  Safe'
<1>1. /\ Working(p) /\ UNCHANGED <<state, cli, bundles, backup, kept>>
      /\ receipts' = receipts \cup {tx[p]} /\ pc[p] = "receipt" /\ pc'[p] = "stage"
  BY DEF WriteReceipt, Working, Activating, locals, Goto, Ordered, Shaped, InstallTyped
<1>2. /\ CallSafe(p) /\ Shaped /\ (Careful' => Careful) /\ UNCHANGED <<plan, pending, call, tx,
                                                                       snapshot>>
      /\ pending # None => SoundBackup(pending)
      /\ state # NoState => Secure
      /\ \A s \in Shelves : s \in Slot /\ s # state.slot
  BY <1>1, Alone DEF Aside, Reversed
<1>3. \A s \in Shelves : s \in Shelves'
  BY <1>1, <1>2, ShelvesWorking
<1>4. tx[p] \in Tx
  BY <1>1, <1>2, CallTransaction DEF Activation
<1>5. state # NoState => Secure'
  BY <1>1, <1>2, <1>3 DEF Secure
<1>6. pending # None => SoundBackup(pending)'
  BY <1>1, <1>2, <1>3 DEF SoundBackup
<1>7. FirstAt(p)' /\ RollbackAt(p)'
  BY <1>1, <1>2 DEF CallSafe, FirstAt, RollbackAt, From, To, Activation, Reconciliation, Reversed
<1>8. UpdateAt(p)'
  BY <1>1, <1>2, <1>3, <1>4 DEF CallSafe, UpdateAt, SoundBackup, Engaged, From, To, MatchesSource,
     Activation, Reconciliation, Aside
<1> QED
  BY <1>1, <1>5, <1>6, <1>7, <1>8, WorkingSafe DEF CallSafe

\* The active CLI of the source becomes the backup of the transaction.
LEMMA BackupCLISafe ==
  ASSUME Ordered, Safe, TwoProcesses, NEW p \in Proc, BackupCLI(p), ~outdated'
  PROVE  Safe'
<1>1. /\ Working(p) /\ UNCHANGED <<state, bundles, receipts>> /\ pc[p] = "backup" /\ pc'[p] = "bundle"
      /\ \/ /\ cli # None /\ cli' = None /\ backup' = [backup EXCEPT ![tx[p]] = cli]
            /\ kept' = [kept EXCEPT ![p] = tx[p]]
         \/ cli = None /\ UNCHANGED <<cli, backup, kept>>
  BY DEF BackupCLI, Working, Activating, Goto, Ordered, Shaped, InstallTyped
<1>2. /\ CallSafe(p) /\ Shaped /\ (Careful' => Careful) /\ UNCHANGED <<plan, pending, call, tx,
                                                                       snapshot>>
      /\ pending # None => SoundBackup(pending)
      /\ state # NoState => Secure
      /\ \A s \in Shelves : s \in Slot /\ s # state.slot /\ backup[s] # None
  BY <1>1, Alone DEF Aside, Reversed
<1>3. tx[p] \in Tx /\ tx[p] \in Slot /\ tx[p] # None
  BY <1>1, <1>2, CallTransaction DEF Activation
<1>4. CASE From(p) = None
  <2>1. state = NoState /\ cli = None /\ kept[p] = None
    BY <1>1, <1>2, <1>4 DEF CallSafe, FirstAt, Activation
  <2>2. UNCHANGED <<cli, backup, kept>> /\ pending = None /\ state' = NoState
    BY <1>1, <2>1 DEF Ordered, Planned
  <2>3. CallSafe(p)'
    BY <1>1, <1>2, <1>4, <2>1, <2>2 DEF CallSafe, FirstAt, UpdateAt, RollbackAt, Engaged, From,
       Activation, Reconciliation, Reversed
  <2> QED
    BY <1>1, <2>2, <2>3, WorkingSafe
<1>5. CASE From(p) # None
  <2>1. /\ cli # None /\ backup[tx[p]] = None /\ MatchesSource(tx[p]) /\ tx[p] \in receipts
        /\ tx[p] = pending \/ pending = None \/ backup[pending] = None
    BY <1>1, <1>2, <1>5 DEF CallSafe, UpdateAt, Engaged, Activation
  <2>2. /\ cli' = None /\ kept'[p] = tx[p] /\ backup'[tx[p]] = cli
        /\ \A s \in Slot : s # tx[p] => backup'[s] = backup[s]
    BY <1>1, <1>2, <1>3, <2>1 DEF Shaped, InstallTyped
  <2>3. \A s \in Shelves : s # tx[p] /\ s \in Shelves' /\ backup'[s] = backup[s]
    BY <1>1, <1>2, <2>1, <2>2, ShelvesWorking
  <2>4. cli = From(p) \/ \E s \in Shelves' \ {tx[p]} : backup'[s] = From(p)
    <3>1. state # NoState /\ state.release = From(p)
      BY <1>5, <2>1 DEF MatchesSource, From, NoState
    <3> QED
      BY <1>2, <2>1, <2>3, <3>1 DEF Secure
  <2>5. SoundBackup(tx[p])'
    BY <1>2, <2>2, <2>4 DEF SoundBackup, From
  <2>6. pending # None => SoundBackup(pending)'
    <3>1. CASE pending = tx[p]
      BY <1>2, <2>2, <2>4, <3>1 DEF SoundBackup, From
    <3>2. CASE pending # tx[p] /\ pending # None
      <4>1. backup'[pending] = None
        BY <1>2, <2>1, <2>2, <3>2, SlotsAndFiles DEF Shaped, InstallTyped
      <4> QED
        BY <1>2, <4>1 DEF SoundBackup
    <3> QED
      BY <3>1, <3>2
  <2>7. FirstAt(p)' /\ RollbackAt(p)'
    BY <1>1, <1>2, <1>5 DEF FirstAt, RollbackAt, From, To, Activation, Reconciliation, Reversed
  <2>8. UpdateAt(p)'
    BY <1>1, <1>2, <1>3, <2>1, <2>2, <2>5, SlotsAndFiles DEF UpdateAt, Engaged, From, To,
       MatchesSource, Activation, Reconciliation, Aside, Shaped, InstallTyped
  <2> QED
    BY <1>1, <2>6, <2>7, <2>8, WorkingSafe DEF CallSafe, Aside
<1> QED
  BY <1>4, <1>5

\* The bundle is placed.
LEMMA PlaceBundleSafe ==
  ASSUME Ordered, Safe, TwoProcesses, NEW p \in Proc, PlaceBundle(p), ~outdated'
  PROVE  Safe'
<1>1. /\ Working(p) /\ UNCHANGED <<state, cli, backup, receipts, kept>>
      /\ bundles' = bundles \cup {To(p)} /\ pc[p] = "bundle" /\ pc'[p] \in {"undoCLI", "runtime", "place"}
  BY DEF PlaceBundle, Working, Activating, locals, Goto, Ordered, Shaped, InstallTyped
<1>2. /\ CallSafe(p) /\ Shaped /\ (Careful' => Careful) /\ UNCHANGED <<plan, pending, call, tx,
                                                                       snapshot>>
      /\ pending # None => SoundBackup(pending)
      /\ \A s \in Shelves : s \in Slot /\ s # state.slot
  BY <1>1, Alone
<1>3. \A s \in Shelves : s \in Shelves'
  BY <1>1, <1>2, ShelvesWorking
<1>4. tx[p] \in Tx
  BY <1>1, <1>2, CallTransaction DEF Activation
<1>6. pending # None => SoundBackup(pending)'
  BY <1>1, <1>2, <1>3 DEF SoundBackup
<1>7. FirstAt(p)' /\ RollbackAt(p)'
  BY <1>1, <1>2 DEF CallSafe, FirstAt, RollbackAt, From, To, Activation, Reconciliation, Reversed
<1>8. UpdateAt(p)'
  BY <1>1, <1>2, <1>3, <1>4 DEF CallSafe, UpdateAt, SoundBackup, Engaged, From, To, MatchesSource,
     Activation, Reconciliation, Aside
<1> QED
  BY <1>1, <1>6, <1>7, <1>8, WorkingSafe DEF CallSafe, Aside

\* The CLI of the target is placed.
LEMMA PlaceCLISafe ==
  ASSUME Ordered, Safe, TwoProcesses, NEW p \in Proc, PlaceCLI(p), ~outdated'
  PROVE  Safe'
<1>1. /\ Working(p) /\ UNCHANGED <<state, bundles, backup, receipts, kept>> /\ pc[p] = "place"
      /\ \/ pc'[p] = "selfcheck" /\ cli' = To(p)
         \/ pc'[p] = "undoCLI" /\ cli' = cli
  BY DEF PlaceCLI, Working, Activating, locals, Goto, Ordered, Shaped, InstallTyped
<1>2. /\ CallSafe(p) /\ Shaped /\ (Careful' => Careful) /\ UNCHANGED <<plan, pending, call, tx,
                                                                       snapshot>>
      /\ pending # None => SoundBackup(pending)
      /\ \A s \in Shelves : s \in Slot /\ s # state.slot
  BY <1>1, Alone
<1>3. \A s \in Shelves : s \in Shelves'
  BY <1>1, <1>2, ShelvesWorking
<1>4. tx[p] \in Tx
  BY <1>1, <1>2, CallTransaction DEF Activation
<1>5. FirstAt(p)' /\ RollbackAt(p)'
  BY <1>1, <1>2 DEF CallSafe, FirstAt, RollbackAt, From, To, Activation, Reconciliation, Reversed
<1>6. CASE From(p) = None
  <2>1. pending = None
    BY <1>1, <1>2, <1>6 DEF CallSafe, FirstAt, Activation, Ordered, Planned
  <2>2. UpdateAt(p)'
    BY <1>1, <1>2, <1>6 DEF UpdateAt, Engaged, From
  <2> QED
    BY <1>1, <1>5, <2>1, <2>2, WorkingSafe DEF CallSafe, Aside
<1>7. CASE From(p) # None
  <2>1. /\ To(p) \in bundles /\ SoundBackup(tx[p])
        /\ tx[p] = pending \/ pending = None \/ backup[pending] = None
    BY <1>1, <1>2, <1>7 DEF CallSafe, UpdateAt, Engaged, Activation
  <2>2. SoundBackup(tx[p])'
    BY <1>1, <1>2, <1>3, <2>1 DEF SoundBackup, To
  <2>3. pending # None => SoundBackup(pending)'
    BY <1>1, <1>2, <2>1, <2>2 DEF SoundBackup
  <2>4. UpdateAt(p)'
    BY <1>1, <1>2, <1>4, <2>2, <1>7 DEF CallSafe, UpdateAt, SoundBackup, Engaged, From, To,
       MatchesSource, Activation, Reconciliation, Aside
  <2> QED
    BY <1>1, <1>5, <2>3, <2>4, WorkingSafe DEF CallSafe, Aside
<1> QED
  BY <1>6, <1>7

\* The state of the target is written, by an activation or its reconciliation.
LEMMA WriteTargetSafe ==
  ASSUME Ordered, Safe, TwoProcesses, NEW p \in Proc, CommitState(p) \/ CompleteState(p), ~outdated'
  PROVE  Safe'
<1>1. /\ Working(p) /\ UNCHANGED <<cli, bundles, backup, receipts, kept>>
      /\ pc[p] \in {"commit", "recommit"} /\ pc'[p] = "unlock" /\ state' = TargetState(tx[p])
  BY DEF CommitState, CompleteState, WriteState, Working, Activating, Reconciling, locals, Goto,
     Ordered, Shaped, InstallTyped
<1>2. /\ CallSafe(p) /\ Shaped /\ (Careful' => Careful) /\ UNCHANGED <<plan, pending, call, tx,
                                                                       snapshot>>
      /\ \A s \in Shelves : s \in Slot
  BY <1>1, Alone
<1>3. state'.release = To(p) /\ state'.slot \in {None, tx[p]}
  BY <1>1 DEF TargetState, To
<1>4. \A s \in Shelves : s # tx[p] => s \in Shelves'
  <2>1. \A s \in Slot : s # None
    BY DEF Slot, None
  <2> QED
    BY <1>1, <1>2, <1>3, <2>1, ShelvesWorking
<1>5. cli = To(p)
  BY <1>1, <1>2 DEF CallSafe, FirstAt, UpdateAt, Engaged, Activation, Reconciliation
<1>6. Secure'
  BY <1>1, <1>3, <1>5 DEF Secure
<1>7. pending # None => SoundBackup(pending)'
  <2>1. CASE From(p) = None
    BY <1>1, <1>2, <2>1 DEF CallSafe, FirstAt, Activation, Reconciliation, Ordered, Planned
  <2>2. CASE From(p) # None /\ pending # None
    <3>1. SoundBackup(tx[p]) /\ (tx[p] = pending \/ backup[pending] = None)
      BY <1>1, <1>2, <2>2 DEF CallSafe, UpdateAt, Engaged, Activation, Reconciliation
    <3> QED
      BY <1>1, <1>2, <1>4, <3>1 DEF SoundBackup
  <2> QED
    BY <2>1, <2>2
<1>8. CallSafe(p)'
  BY <1>1 DEF CallSafe, FirstAt, UpdateAt, RollbackAt, Engaged, Activation, Reconciliation, Aside,
     Reversed
<1> QED
  BY <1>1, <1>6, <1>7, <1>8, WorkingSafe

\* The active CLI is removed, to undo an activation or to restore its source.
LEMMA RemoveCLISafe ==
  ASSUME Ordered, Safe, TwoProcesses, NEW p \in Proc, UndoCLI(p) \/ RemoveActiveCLI(p, "rmCLI", "mvBackup"), ~outdated'
  PROVE  Safe'
<1>1. /\ Working(p) /\ UNCHANGED <<state, bundles, backup, receipts, kept>> /\ cli' = None
      /\ \/ pc[p] = "undoCLI" /\ pc'[p] = "undoBundle" /\ kept[p] = None
         \/ pc[p] = "undoCLI" /\ pc'[p] = "undoBackup" /\ kept[p] # None
         \/ pc[p] = "rmCLI" /\ pc'[p] = "mvBackup"
  BY DEF UndoCLI, RemoveActiveCLI, RestoreCLI, Working, Activating, Reconciling, locals, Goto,
     Ordered, Shaped, InstallTyped
<1>2. /\ CallSafe(p) /\ Shaped /\ (Careful' => Careful) /\ UNCHANGED <<plan, pending, call, tx,
                                                                       snapshot>>
      /\ pending # None => SoundBackup(pending)
      /\ \A s \in Shelves : s \in Slot /\ s # state.slot
  BY <1>1, Alone
<1>3. \A s \in Shelves : s \in Shelves'
  BY <1>1, <1>2, ShelvesWorking
<1>4. tx[p] \in Tx /\ tx[p] # None
  BY <1>1, <1>2, CallTransaction DEF Activation, Reconciliation
<1>5. pending # None => SoundBackup(pending)'
  BY <1>1, <1>2, <1>3 DEF SoundBackup
<1>6. FirstAt(p)' /\ RollbackAt(p)'
  BY <1>1, <1>2 DEF CallSafe, FirstAt, RollbackAt, From, To, Activation, Reconciliation, Reversed
<1>7. From(p) # None => kept[p] # None \/ pc[p] = "rmCLI"
  BY <1>1, <1>2, <1>4 DEF CallSafe, UpdateAt, Engaged, Activation, Reconciliation, Aside
<1>8. UpdateAt(p)'
  BY <1>1, <1>2, <1>3, <1>4, <1>7 DEF CallSafe, UpdateAt, SoundBackup, Engaged, From, To,
     MatchesSource, Activation, Reconciliation, Aside
<1>9. pc'[p] = "undoBundle" => state' = NoState
  BY <1>1, <1>2, <1>7 DEF CallSafe, FirstAt, Activation
<1> QED
  BY <1>1, <1>5, <1>6, <1>8, <1>9, WorkingSafe DEF CallSafe, Aside

\* The source is the active CLI again.
LEMMA ReinstateSourceSafe ==
  ASSUME Ordered, Safe, TwoProcesses, NEW p \in Proc, ~outdated', pc[p] \in {"undoBackup", "mvBackup"},
         UndoBackup(p) \/ RestoreCLI(p)
  PROVE  Safe'
<1>0. CallSafe(p) /\ Shaped /\ Working(p)
  BY Alone DEF Working, Activating, Reconciling
<1>a. tx[p] \in Tx /\ tx[p] \in Slot /\ tx[p] # None
  BY <1>0, CallTransaction DEF Activation, Reconciliation
<1>b. Engaged(p)
  BY <1>0 DEF CallSafe, FirstAt, Engaged, Activation, Reconciliation
<1>c. /\ SoundBackup(tx[p]) /\ MatchesSource(tx[p]) /\ tx[p] \in receipts /\ backup[tx[p]] # None
      /\ tx[p] = pending \/ pending = None \/ backup[pending] = None
      /\ pc[p] = "undoBackup" => kept[p] = tx[p]
  BY <1>0, <1>b DEF CallSafe, UpdateAt, Aside
<1>1. /\ UNCHANGED <<state, bundles, receipts, kept>>
      /\ cli' = backup[tx[p]] /\ backup' = [backup EXCEPT ![tx[p]] = None]
      /\ \/ pc[p] = "undoBackup" /\ pc'[p] = "undoBundle"
         \/ pc[p] = "mvBackup" /\ pc'[p] = "rmBundle"
  BY <1>0, <1>c DEF UndoBackup, RestoreCLI, RemoveActiveCLI, Reinstate, locals, Goto, Shaped,
     InstallTyped
<1>2. /\ (Careful' => Careful) /\ UNCHANGED <<plan, pending, call, tx, snapshot>>
      /\ \A s \in Shelves : s \in Slot /\ s # state.slot
  BY <1>0, Alone
<1>3. backup'[tx[p]] = None /\ \A s \in Slot : s # tx[p] => backup'[s] = backup[s]
  BY <1>0, <1>1, <1>a DEF Shaped, InstallTyped
<1>4. \A s \in Shelves : s # tx[p] => s \in Shelves' /\ backup'[s] = backup[s]
  BY <1>0, <1>1, <1>2, <1>3, ShelvesWorking
<1>5. Secure'
  BY <1>1, <1>4, <1>c DEF SoundBackup, MatchesSource, Secure
<1>6. pending # None => backup'[pending] = None
  BY <1>0, <1>3, <1>c, SlotsAndFiles DEF Shaped, InstallTyped
<1>7. pending # None => SoundBackup(pending)'
  BY <1>2, <1>6 DEF SoundBackup
<1>8. FirstAt(p)' /\ RollbackAt(p)'
  BY <1>1, <1>2, <1>b DEF Engaged, FirstAt, RollbackAt, From, To, Activation, Reconciliation,
     Reversed
<1>9. UpdateAt(p)'
  BY <1>1, <1>2, <1>3, <1>6, <1>a, <1>c DEF UpdateAt, SoundBackup, Engaged, From, To, MatchesSource,
     Activation, Reconciliation, Aside
<1> QED
  BY <1>0, <1>5, <1>7, <1>8, <1>9, WorkingSafe DEF CallSafe

\* The bundle of the target is removed.
LEMMA RemoveBundleSafe ==
  ASSUME Ordered, Safe, TwoProcesses, NEW p \in Proc, ~outdated', pc[p] \in {"undoBundle", "rmBundle"},
         UndoBundle(p) \/ RestoreRest(p)
  PROVE  Safe'
<1>1. /\ Working(p) /\ UNCHANGED <<state, cli, backup, receipts, kept>> /\ bundles' = bundles \ {To(p)}
      /\ \/ pc[p] = "undoBundle" /\ pc'[p] = "undoRuntime"
         \/ pc[p] = "rmBundle" /\ pc'[p] = "rmStaged"
  BY DEF UndoBundle, RestoreRest, RemoveStaged, RemoveReceipt, Working, Activating, Reconciling,
     locals, Goto, Ordered, Shaped, InstallTyped
<1>2. /\ CallSafe(p) /\ Shaped /\ (Careful' => Careful) /\ UNCHANGED <<plan, pending, call, tx,
                                                                       snapshot>>
      /\ pending # None => SoundBackup(pending)
      /\ state # NoState => Secure
      /\ \A s \in Shelves : s \in Slot /\ s # state.slot
  BY <1>1, Alone DEF Aside, Reversed
<1>3. \A s \in Shelves : s \in Shelves'
  BY <1>1, <1>2, ShelvesWorking
<1>4. tx[p] \in Tx
  BY <1>1, <1>2, CallTransaction DEF Activation, Reconciliation
<1>5. state # NoState => Secure'
  BY <1>1, <1>2, <1>3 DEF Secure
<1>6. FirstAt(p)' /\ RollbackAt(p)'
  BY <1>1, <1>2 DEF CallSafe, FirstAt, RollbackAt, From, To, Activation, Reconciliation, Reversed
<1>7. CASE From(p) = None
  <2>1. pending = None
    BY <1>1, <1>2, <1>7 DEF CallSafe, FirstAt, Activation, Reconciliation, Ordered, Planned
  <2>2. UpdateAt(p)'
    BY <1>1, <1>2, <1>7 DEF UpdateAt, Engaged, From
  <2> QED
    BY <1>1, <1>5, <1>6, <2>1, <2>2, WorkingSafe DEF CallSafe
<1>8. CASE From(p) # None
  <2>1. /\ backup[tx[p]] = None \/ (~Careful /\ cli = None)
        /\ SoundBackup(tx[p])
        /\ tx[p] = pending \/ pending = None \/ backup[pending] = None
    BY <1>1, <1>2, <1>8 DEF CallSafe, UpdateAt, Engaged, Activation, Reconciliation
  <2>2. SoundBackup(tx[p])'
    BY <1>1, <1>2, <1>3, <2>1 DEF SoundBackup
  <2>3. pending # None => SoundBackup(pending)'
    BY <1>1, <1>2, <2>1, <2>2 DEF SoundBackup
  <2>4. UpdateAt(p)'
    BY <1>1, <1>2, <1>4, <2>2 DEF CallSafe, UpdateAt, SoundBackup, Engaged, From, To, MatchesSource,
       Activation, Reconciliation, Aside
  <2> QED
    BY <1>1, <1>5, <1>6, <2>3, <2>4, WorkingSafe DEF CallSafe
<1> QED
  BY <1>7, <1>8

\* The receipt is removed: without an error there is no backup left.
LEMMA RemoveReceiptSafe ==
  ASSUME Ordered, Safe, TwoProcesses, NEW p \in Proc, ~outdated',
         (Tidy(p) /\ pc[p] = "unreceipt") \/ (RestoreRest(p) /\ pc[p] = "rmReceipt")
  PROVE  Safe'
<1>1. /\ Working(p) /\ UNCHANGED <<state, cli, bundles, backup, kept>> /\ receipts' = receipts \ {tx[p]}
      /\ pc[p] \in {"unreceipt", "rmReceipt"} /\ pc'[p] = "unlock"
  BY DEF Tidy, RestoreRest, RemoveStaged, RemoveReceipt, Working, Activating, Reconciling, locals,
     Goto, Ordered, Shaped, InstallTyped
<1>2. /\ CallSafe(p) /\ Shaped /\ (Careful' => Careful) /\ UNCHANGED <<plan, pending, call, tx,
                                                                       snapshot>>
      /\ pending # None => SoundBackup(pending)
      /\ state # NoState => Secure
      /\ \A s \in Shelves : s \in Slot /\ s # state.slot /\ backup[s] # None
  BY <1>1, Alone DEF Aside, Reversed
<1>3. Careful => tx[p] \notin Shelves
  <2>1. CASE From(p) = None
    BY <2>1 DEF Shelves, From
  <2>2. CASE From(p) # None
    BY <1>1, <1>2, <2>2 DEF CallSafe, UpdateAt, Engaged, Activation, Reconciliation
  <2> QED
    BY <2>1, <2>2
<1>4. \A s \in Shelves : s \in Shelves'
  BY <1>1, <1>2, <1>3, ShelvesWorking
<1>5. state # NoState => Secure'
  BY <1>1, <1>2, <1>4 DEF Secure
<1>6. pending # None => SoundBackup(pending)'
  BY <1>1, <1>2, <1>4 DEF SoundBackup
<1>7. CallSafe(p)'
  BY <1>1 DEF CallSafe, FirstAt, UpdateAt, RollbackAt, Engaged, Activation, Reconciliation, Aside,
     Reversed
<1> QED
  BY <1>1, <1>5, <1>6, <1>7, WorkingSafe

\* The slots that a rollback moves are its own, and it has a state to go back from.
LEMMA RollbackSlots ==
  ASSUME Ordered, Safe, TwoProcesses, NEW p \in Proc, Working(p), ~outdated', pc[p] \in Reversal,
         NEW k, k = kept[p], NEW l, l = snapshot[p].slot
  PROVE  /\ k \in Slot /\ l \in Slot /\ k # l /\ k \notin Shelves /\ l \notin Shelves
         /\ state # NoState /\ snapshot[p].previous \in Release /\ kept[p] # state.slot
         /\ pending # None => pending # k /\ pending \in Slot /\ pending \in Tx
         /\ l \in Tx => snapshot[p].previous = plan[l].from
<1>1. Shaped
  BY DEF Ordered
<1>2. call[p] = "rollback" /\ Undoing(p) /\ snapshot[p].previous # None /\ snapshot[p] \in StateFile
  BY <1>1 DEF Undoing, Shaped, Calling, CallAt, Reversal, InstallTyped
<1>3. k \in Slot /\ l \in Slot /\ l # None
  BY <1>1, <1>2, SlotsAndFiles DEF Shaped, Calling, CallAt, InstallTyped
<1>4. k > MaxTx /\ k # l /\ k # state.slot
  BY <1>2 DEF Ordered, OwnSlots, OwnSlot
<1>5. pending \in Tx \cup {None} /\ \A t \in Tx : t \in Slot /\ t <= MaxTx
  BY <1>1, SlotsAndFiles DEF Shaped, InstallTyped, Tx
<1>6. pending # None => pending # k /\ pending \in Slot /\ pending \in Tx
  BY <1>3, <1>4, <1>5, InstallAssumption DEF Tx, Slot
<1>7. k \notin Shelves /\ l \notin Shelves
  BY <1>2, Alone
<1>8. l \in Tx => snapshot[p].previous = plan[l].from
  BY DEF Ordered, Planned, OfTransaction
<1> QED
  BY <1>2, <1>3, <1>4, <1>6, <1>7, <1>8, SlotsAndFiles DEF Ordered, Planned

\* A rollback keeps the state's release out of its way, so that it may move the rest.
LEMMA MoveSafe ==
  ASSUME Ordered, Safe, TwoProcesses, NEW p \in Proc, Working(p), ~outdated', pc[p] \in Reversal,
         UNCHANGED <<state, bundles, receipts, kept>>, pc'[p] \in Reversed,
         backup'[kept[p]] = state.release \/ \E s \in Shelves : backup[s] = state.release,
         \A s \in Slot \ {kept[p], snapshot[p].slot} : backup'[s] = backup[s],
         pending # None /\ (backup'[pending] # None \/ snapshot[p].slot = pending) =>
            plan[pending].to \in bundles,
         pending = snapshot[p].slot => backup'[pending] \in {None, backup[pending], snapshot[p].previous},
         pc'[p] = "reactivate" => cli' = None /\ backup'[snapshot[p].slot] # None,
         pc'[p] \in {"commitBack", "unwind"} => cli' = snapshot[p].previous
  PROVE  Safe'
<1> DEFINE k == kept[p]
           l == snapshot[p].slot
<1>1. /\ k \in Slot /\ l \in Slot /\ k \notin Shelves /\ l \notin Shelves
      /\ pending # None => pending # k /\ pending \in Slot /\ pending \in Tx
      /\ l \in Tx => snapshot[p].previous = plan[l].from
  BY RollbackSlots
<1>2. /\ UNCHANGED <<plan, pending, call, tx, snapshot>>
      /\ \A s \in Shelves : s \in Slot /\ s # state.slot
      /\ pending # None => SoundBackup(pending)
  BY Alone
<1>3. \A s \in Shelves : s \in Shelves' /\ backup'[s] = backup[s]
  BY <1>1, <1>2, ShelvesWorking
<1>4. ASSUME pending # None, backup'[pending] # None PROVE SoundBackup(pending)'
  <2>1. plan[pending].to \in bundles /\ plan'[pending] = plan[pending] /\ bundles' = bundles /\ pending' = pending
    BY <1>2, <1>4
  <2>2. CASE backup'[pending] = plan[pending].from
    BY <2>1, <2>2 DEF SoundBackup
  <2>3. CASE backup'[pending] = backup[pending]
    BY <1>2, <1>3, <1>4, <2>1, <2>3 DEF SoundBackup
  <2> QED
    BY <1>1, <1>4, <2>2, <2>3
<1>5. pending # None => SoundBackup(pending)'
  BY <1>2, <1>4 DEF SoundBackup
<1>6. FirstAt(p)' /\ UpdateAt(p)'
  BY DEF FirstAt, UpdateAt, Engaged, Activation, Reconciliation, Reversed
<1>7. RollbackAt(p)'
  BY <1>2, <1>3 DEF RollbackAt, Reversed
<1> QED
  BY <1>5, <1>6, <1>7, WorkingSafe DEF CallSafe

\* The active CLI is moved to the slot of the rollback.
LEMMA RevertCLISafe ==
  ASSUME Ordered, Safe, TwoProcesses, NEW p \in Proc, RevertCLI(p), ~outdated'
  PROVE  Safe'
<1>1. /\ Working(p) /\ UNCHANGED <<state, bundles, receipts, kept>> /\ pc[p] = "revert"
      /\ \/ cli = None /\ UNCHANGED <<backup, cli>> /\ pc'[p] = "unlock"
         \/ cli # None /\ cli' = None /\ backup' = [backup EXCEPT ![kept[p]] = cli] /\ pc'[p] = "reactivate"
  BY DEF RevertCLI, MoveAside, Working, RollingBack, locals, Goto, Ordered, Shaped, InstallTyped
<1> DEFINE k == kept[p]
           l == snapshot[p].slot
<1>2. /\ k \in Slot /\ l \in Slot /\ k # l /\ k \notin Shelves
      /\ state # NoState /\ pc[p] \in Reversal
      /\ pending # None => pending # k /\ pending \in Slot
  BY <1>1, RollbackSlots DEF Reversal
<1>3. Secure /\ CallSafe(p) /\ Shaped /\ (pending # None => SoundBackup(pending))
  BY <1>1, <1>2, Alone DEF Aside, Reversed
<1>4. CASE cli = None
  <2>1. Secure'
    BY <1>1, <1>3, <1>4, QuietStep DEF Next, Running, Working, Locking
  <2>2. CallSafe(p)'
    BY <1>1, <1>4 DEF CallSafe, FirstAt, UpdateAt, RollbackAt, Engaged, Activation, Reconciliation,
       Aside, Reversed
  <2> QED
    BY <1>1, <1>4, <2>1, <2>2, QuietSafe DEF Aside, Reversed
<1>5. CASE cli # None
  <2>1. pc'[p] = "reactivate" /\ cli' = None /\ backup'[k] = cli /\ \A s \in Slot \ {k} : backup'[s] = backup[s]
    BY <1>1, <1>2, <1>3, <1>5 DEF Shaped, InstallTyped
  <2>2. cli = state.release \/ \E s \in Shelves : backup[s] = state.release
    BY <1>3, <1>5 DEF Secure
  <2>3. backup[l] # None
    BY <1>1, <1>3 DEF CallSafe, RollbackAt
  <2>4. pending # None => backup'[pending] = backup[pending] /\ (backup[pending] # None \/ l = pending => plan[pending].to \in bundles)
    BY <1>2, <1>3, <1>5, <2>1, <2>3 DEF SoundBackup
  <2>5. backup'[l] = backup[l]
    BY <1>2, <2>1
  <2> QED
    BY <1>1, <1>2, <2>1, <2>2, <2>3, <2>4, <2>5, MoveSafe DEF Reversed
<1> QED
  BY <1>4, <1>5

\* The previous CLI becomes the active one.
LEMMA ReactivateCLISafe ==
  ASSUME Ordered, Safe, TwoProcesses, NEW p \in Proc, ReactivateCLI(p), ~outdated'
  PROVE  Safe'
<1>0. Working(p) /\ pc[p] = "reactivate" /\ pc[p] \in Reversal
  BY DEF ReactivateCLI, Working, RollingBack, Reversal
<1> DEFINE k == kept[p]
           l == snapshot[p].slot
<1>2. k \in Slot /\ l \in Slot /\ k # l /\ (pending # None => pending \in Slot)
  BY <1>0, RollbackSlots
<1>3. /\ CallSafe(p) /\ Shaped
      /\ backup[l] # None
      /\ backup[k] = state.release \/ \E s \in Shelves : backup[s] = state.release
      /\ pending # None /\ (backup[pending] # None \/ l = pending) => plan[pending].to \in bundles
  BY <1>0, Alone DEF CallSafe, RollbackAt, Reversed
<1>1. /\ UNCHANGED <<state, bundles, receipts, kept>> /\ pc'[p] = "verify"
      /\ backup' = [backup EXCEPT ![l] = None]
  BY <1>3 DEF ReactivateCLI, Reinstate, locals, Goto, Shaped, InstallTyped
<1>4. backup'[l] = None /\ \A s \in Slot \ {l} : backup'[s] = backup[s]
  BY <1>1, <1>2, <1>3 DEF Shaped, InstallTyped
<1>5. pending # None => (backup'[pending] # None => backup[pending] # None)
  BY <1>2, <1>4
<1> QED
  BY <1>0, <1>1, <1>2, <1>3, <1>4, <1>5, MoveSafe DEF Reversed

\* A previous CLI that fails its self-check is removed.
LEMMA DiscardPreviousSafe ==
  ASSUME Ordered, Safe, TwoProcesses, NEW p \in Proc, DiscardPrevious(p), ~outdated'
  PROVE  Safe'
<1>1. /\ Working(p) /\ pc[p] = "discard" /\ pc[p] \in Reversal /\ pc'[p] = "giveBack"
      /\ UNCHANGED <<state, bundles, receipts, kept, backup>>
  BY DEF DiscardPrevious, RemoveActiveCLI, Working, RollingBack, Reversal, locals, Goto, Ordered,
     Shaped, InstallTyped
<1>2. /\ backup[kept[p]] = state.release \/ \E s \in Shelves : backup[s] = state.release
      /\ pending # None /\ (backup[pending] # None \/ snapshot[p].slot = pending) => plan[pending].to \in bundles
  BY <1>1, Alone DEF CallSafe, RollbackAt, Reversed
<1> QED
  BY <1>1, <1>2, MoveSafe DEF Reversed

\* The previous CLI, which is the active one, is moved back to its slot.
LEMMA UnwindSafe ==
  ASSUME Ordered, Safe, TwoProcesses, NEW p \in Proc, Unwind(p), ~outdated'
  PROVE  Safe'
<1>0. Working(p) /\ pc[p] = "unwind" /\ pc[p] \in Reversal
  BY DEF Unwind, MoveAside, Working, RollingBack, Reversal
<1> DEFINE k == kept[p]
           l == snapshot[p].slot
<1>2. k \in Slot /\ l \in Slot /\ k # l /\ (pending # None => pending \in Slot) /\ snapshot[p].previous \in Release
  BY <1>0, RollbackSlots
<1>3. /\ Shaped /\ cli = snapshot[p].previous
      /\ backup[k] = state.release \/ \E s \in Shelves : backup[s] = state.release
      /\ pending # None /\ (backup[pending] # None \/ l = pending) => plan[pending].to \in bundles
  BY <1>0, Alone DEF CallSafe, RollbackAt, Reversed
<1>1. /\ UNCHANGED <<state, bundles, receipts, kept>> /\ pc'[p] = "giveBack"
      /\ backup' = [backup EXCEPT ![l] = cli]
  BY <1>2, <1>3 DEF Unwind, MoveAside, locals, Goto, Shaped, InstallTyped, Release, None
<1>4. backup'[l] = cli /\ \A s \in Slot \ {l} : backup'[s] = backup[s]
  BY <1>1, <1>2, <1>3 DEF Shaped, InstallTyped
<1>5. pending # None => (backup'[pending] # None => backup[pending] # None \/ l = pending)
  BY <1>2, <1>4
<1> QED
  BY <1>0, <1>1, <1>2, <1>3, <1>4, <1>5, MoveSafe DEF Reversed

\* The previous release is the state's, and the active CLI.
LEMMA CommitBackSafe ==
  ASSUME Ordered, Safe, TwoProcesses, NEW p \in Proc, CommitBack(p), ~outdated'
  PROVE  Safe'
<1>1. /\ Working(p) /\ pc[p] = "commitBack" /\ pc[p] \in Reversal /\ pc'[p] = "unlock"
      /\ UNCHANGED <<cli, bundles, backup, receipts>>
      /\ state'.release = snapshot[p].previous /\ state'.slot = kept[p]
  BY DEF CommitBack, WriteState, Working, RollingBack, Reversal, locals, Goto, Ordered, Shaped,
     InstallTyped
<1>2. /\ cli = snapshot[p].previous /\ (pending # None => SoundBackup(pending))
      /\ UNCHANGED <<plan, pending>>
  BY <1>1, Alone DEF CallSafe, RollbackAt
<1>3. kept[p] \notin Shelves
  BY <1>1, RollbackSlots
<1>4. \A s \in Shelves : s \in Shelves'
  BY <1>1, <1>3, ShelvesWorking
<1>5. Secure'
  BY <1>1, <1>2 DEF Secure
<1>6. pending # None => SoundBackup(pending)'
  BY <1>1, <1>2, <1>4 DEF SoundBackup
<1>7. CallSafe(p)'
  BY <1>1 DEF CallSafe, FirstAt, UpdateAt, RollbackAt, Engaged, Activation, Reconciliation, Aside,
     Reversed
<1> QED
  BY <1>1, <1>5, <1>6, <1>7, WorkingSafe

\* The release of the state is the active CLI again, unless it is on a shelf.
LEMMA GiveBackSafe ==
  ASSUME Ordered, Safe, TwoProcesses, NEW p \in Proc, GiveBack(p), ~outdated'
  PROVE  Safe'
<1> DEFINE k == kept[p]
<1>1. /\ Working(p) /\ pc[p] = "giveBack" /\ pc[p] \in Reversal /\ pc'[p] = "unlock"
      /\ UNCHANGED <<state, bundles, receipts>>
      /\ \/ backup[k] = None /\ UNCHANGED <<cli, backup>>
         \/ backup[k] # None /\ cli' = backup[k] /\ backup' = [backup EXCEPT ![k] = None]
  BY DEF GiveBack, Reinstate, Working, RollingBack, Reversal, locals, Goto, Ordered, Shaped,
     InstallTyped
<1>2. /\ k \in Slot /\ k \notin Shelves /\ state # NoState /\ (pending # None => pending # k /\ pending \in Slot)
  BY <1>1, RollbackSlots
<1>3. /\ Shaped /\ (pending # None => SoundBackup(pending))
      /\ backup[k] = state.release \/ \E s \in Shelves : backup[s] = state.release
      /\ pending # None /\ backup[pending] # None => plan[pending].to \in bundles
      /\ UNCHANGED <<plan, pending>> /\ \A s \in Shelves : s \in Slot /\ s # state.slot
  BY <1>1, Alone DEF CallSafe, RollbackAt, Reversed
<1>4. \A s \in Slot : s # k => backup'[s] = backup[s]
  BY <1>1, <1>2, <1>3 DEF Shaped, InstallTyped
<1>5. \A s \in Shelves : s \in Shelves' /\ backup'[s] = backup[s]
  BY <1>1, <1>2, <1>3, <1>4, ShelvesWorking
<1>6. state.release \in Release
  BY <1>2, <1>3, SlotsAndFiles DEF Shaped, InstallTyped
<1>7. Secure'
  BY <1>1, <1>3, <1>5, <1>6 DEF Secure, Release, None
<1>8. pending # None => SoundBackup(pending)'
  BY <1>1, <1>2, <1>3, <1>4, <1>5 DEF SoundBackup
<1>9. CallSafe(p)'
  BY <1>1 DEF CallSafe, FirstAt, UpdateAt, RollbackAt, Engaged, Activation, Reconciliation, Aside,
     Reversed
<1> QED
  BY <1>1, <1>7, <1>8, <1>9, WorkingSafe

----------------------------------------------------------------------------
(* Steps outside the lock.                                                  *)

\* A step that changes nothing of the installation but the plans and the pending update.
Apart == /\ UNCHANGED <<state, cli, bundles, backup, receipts>>
         /\ pending' \in {pending, None} \/ (pending' \in Tx /\ plan[pending'] = NoPlan)

\* A pending update that was just prepared has no backup.
LEMMA PendingStays ==
  ASSUME Ordered, Safe, TwoProcesses, [Next]_vars, ~outdated', Apart, NEW t, t = pending', t # None
  PROVE  SoundBackup(t)' /\ (t # pending => backup'[t] = None)
<1>1. Shaped /\ ~outdated
  BY CarefulStep DEF Ordered
<1>2. CASE t = pending
  <2>1. t \in Tx /\ plan[t] # NoPlan /\ SoundBackup(t)
    BY <1>1, <1>2 DEF Safe, Shaped, Sourced, InstallTyped
  <2>2. SoundBackup(t)'
    BY <2>1, QuietStep DEF Apart
  <2> QED
    BY <1>2, <2>2
<1>3. CASE t # pending
  <2>1. t \in Tx /\ t \in Slot /\ plan[t] = NoPlan
    BY <1>3, SlotsAndFiles DEF Apart
  <2>2. backup[t] = None
    BY <2>1 DEF Ordered, Planned
  <2>3. backup'[t] = None
    BY <2>2 DEF Apart
  <2> QED
    BY <2>3 DEF SoundBackup
<1> QED
  BY <1>2, <1>3

\* Whoever does not move keeps what it relies on.
LEMMA CallStays ==
  ASSUME Ordered, Safe, TwoProcesses, [Next]_vars, ~outdated', Apart, NEW q \in Proc,
         pc'[q] = pc[q], call'[q] = call[q], tx'[q] = tx[q], kept'[q] = kept[q], snapshot'[q] = snapshot[q]
  PROVE  CallSafe(q)'
<1>1. /\ Shaped /\ ~outdated /\ (Careful' => Careful) /\ CallSafe(q)
      /\ \A t \in Tx : plan[t] # NoPlan => plan'[t] = plan[t]
  BY CarefulStep DEF Ordered, Safe
<1>2. \A s \in Shelves : s \in Shelves'
  BY QuietStep DEF Apart
<1>3. CASE pc[q] \in Activation \cup Reconciliation \/ (pc[q] = "owner" /\ call[q] = "activate")
  <2>1. tx[q] \in Tx /\ plan[tx[q]] # NoPlan
    BY <1>1, <1>3 DEF Shaped, Calling, CallAt, InstallTyped, Activation, Reconciliation
  <2>2. plan'[tx[q]] = plan[tx[q]] /\ (SoundBackup(tx[q]) => SoundBackup(tx[q])')
    BY <1>1, <2>1, QuietStep DEF Apart, SoundBackup
  <2>3. backup[pending] = None \/ pending = None \/ tx[q] = pending => tx[q] = pending' \/ pending' = None \/ backup'[pending'] = None
    BY PendingStays DEF Apart
  <2>4. FirstAt(q)'
    BY <1>1, <2>2 DEF CallSafe, FirstAt, From, To, Apart
  <2>5. UpdateAt(q)'
    BY <1>1, <2>2, <2>3 DEF CallSafe, UpdateAt, Engaged, From, To, MatchesSource, Apart
  <2>6. RollbackAt(q)'
    BY <1>3 DEF RollbackAt, Reversed, Activation, Reconciliation
  <2> QED
    BY <2>4, <2>5, <2>6 DEF CallSafe
<1>4. CASE pc[q] \notin Activation \cup Reconciliation /\ ~(pc[q] = "owner" /\ call[q] = "activate")
  <2>1. FirstAt(q)' /\ UpdateAt(q)'
    BY <1>4 DEF FirstAt, UpdateAt, Engaged
  <2>2. ASSUME pending' # None, pc[q] \in Reversed, backup'[pending'] # None \/ snapshot[q].slot = pending'
        PROVE  pending' = pending /\ plan'[pending] = plan[pending]
    <3>1. pending' # pending => backup'[pending'] = None /\ plan[pending'] = NoPlan /\ pending' \in Tx
      BY <2>2, PendingStays DEF Apart
    <3>2. pending' # pending => snapshot[q].slot # pending'
      BY <3>1 DEF Ordered, Planned, OfTransaction
    <3>3. pending' = pending
      BY <2>2, <3>1, <3>2
    <3> QED
      BY <1>1, <2>2, <3>3 DEF Shaped, Sourced, InstallTyped
  <2>3. RollbackAt(q)'
    BY <1>1, <1>2, <2>2 DEF CallSafe, RollbackAt, Apart
  <2> QED
    BY <2>1, <2>3 DEF CallSafe
<1> QED
  BY <1>3, <1>4

\* What has to be shown of a step outside the lock.
LEMMA ApartSafe ==
  ASSUME Ordered, Safe, TwoProcesses, [Next]_vars, Apart, NEW p \in Proc,
         \A q \in Proc \ {p} : /\ pc'[q] = pc[q] /\ call'[q] = call[q] /\ tx'[q] = tx[q]
                               /\ kept'[q] = kept[q] /\ snapshot'[q] = snapshot[q],
         ~outdated' => CallSafe(p)',
         ~outdated' /\ state' # NoState /\ pc[p] \in Aside \cup Reversed /\ pc'[p] \notin Aside \cup Reversed => Secure'
  PROVE  Safe'
<1>1. SUFFICES ASSUME ~outdated' PROVE SecureBetween' /\ (pending' # None => SoundBackup(pending)') /\ \A q \in Proc : CallSafe(q)'
  BY DEF Safe
<1>2. ~outdated
  BY <1>1, CarefulStep DEF Ordered
<1>3. \A q \in Proc : CallSafe(q)'
  BY <1>1, CallStays
<1>4. pending' # None => SoundBackup(pending)'
  BY <1>1, PendingStays DEF SoundBackup
<1>5. Secure => Secure'
  BY QuietStep DEF Apart
<1>6. SecureBetween'
  BY <1>1, <1>2, <1>5 DEF SecureBetween, Safe, Apart
<1> QED
  BY <1>3, <1>4, <1>6

\* The call of a process that is not past the lock, or has just taken it.
LEMMA ArrivedSafe ==
  ASSUME Ordered, Safe, TwoProcesses, [Next]_vars, ~outdated', Apart, NEW p \in Proc,
         \/ pc'[p] \notin Holding
         \/ pc'[p] = "owner" /\ (call'[p] # "activate" \/ (tx'[p] \in Tx /\ plan[tx'[p]] # NoPlan /\ tx'[p] = pending /\ pending' = pending)
                                  \/ plan'[tx'[p]].from = None)
  PROVE  CallSafe(p)'
<1>1. CASE pc'[p] \notin Holding
  BY <1>1, OutsideSafe
<1>2. CASE pc'[p] = "owner"
  <2>1. FirstAt(p)' /\ RollbackAt(p)'
    BY <1>2 DEF FirstAt, RollbackAt, Reversed, Activation, Reconciliation
  <2>2. CASE call'[p] # "activate" \/ plan'[tx'[p]].from = None
    BY <1>2, <2>1, <2>2 DEF CallSafe, UpdateAt, Engaged, From, Activation, Reconciliation
  <2>3. CASE tx'[p] \in Tx /\ plan[tx'[p]] # NoPlan /\ tx'[p] = pending /\ pending' = pending
    <3>0. pending # None
      BY <2>3 DEF Tx, None
    <3>1. SoundBackup(pending)'
      BY <2>3, <3>0, PendingStays DEF SoundBackup
    <3>2. SoundBackup(tx[p])'
      BY <2>3, <3>1 DEF SoundBackup
    <3>3. UpdateAt(p)'
      BY <1>2, <2>3, <3>2 DEF UpdateAt, Engaged, From, Activation, Reconciliation, Aside
    <3> QED
      BY <2>1, <3>3 DEF CallSafe
  <2> QED
    BY <1>2, <2>2, <2>3 DEF Holding
<1> QED
  BY <1>1, <1>2

\* A process stops: the backup of its update, or the slot of its rollback, is a shelf from then on.
LEMMA CrashSafe ==
  ASSUME Ordered, Safe, TwoProcesses, NEW p \in Proc, Crash(p)
  PROVE  Safe'
<1>1. /\ pc'[p] = "dead" /\ Apart /\ [Next]_vars /\ UNCHANGED <<plan, outdated, call, tx, kept,
                                                                snapshot, faults, lock, rollbacks>>
      /\ died' = died \cup {call[p]} /\ pc[p] \notin {"idle", "dead"}
      /\ \A q \in Proc \ {p} : pc'[q] = pc[q]
  BY DEF Crash, Goto, Apart, Next, files, locals, Ordered, Shaped, InstallTyped
<1>2. ~outdated' => CallSafe(p)'
  BY <1>1, OutsideSafe DEF Holding
<1>3. ASSUME ~outdated', state' # NoState, pc[p] \in Aside \cup Reversed PROVE Secure'
  <2>1. /\ Shaped /\ ~outdated /\ (Careful' => Careful) /\ CallSafe(p)
        /\ \A s \in Shelves : s \in Shelves' /\ backup'[s] = backup[s]
        /\ state' = state /\ state.release \in Release /\ backup' = backup
    BY <1>1, <1>3, CarefulStep, QuietStep, SlotsAndFiles DEF Ordered, Safe, Apart, Shaped,
       InstallTyped
  <2>2. ASSUME NEW s \in Shelves, backup[s] = state.release PROVE Secure'
    BY <2>1, <2>2 DEF Secure
  <2>3. lock = p /\ DeadLock'
    BY <1>1, <1>3 DEF Ordered, Exclusive, LockAt, Aside, Reversed, Holding, DeadLock, Dead
  <2>4. CASE pc[p] \in Aside
    <3>1. pc[p] \in Activation \cup Reconciliation /\ pc[p] \notin {"owner", "check", "receipt"}
      BY <2>4 DEF Aside, Activation, Reconciliation
    <3>2. tx[p] \in Tx /\ tx[p] \in Slot /\ plan[tx[p]] # NoPlan
      BY <2>1, <3>1, CallTransaction
    <3>3. Engaged(p)
      BY <1>3, <2>1, <3>1 DEF CallSafe, FirstAt, Engaged, Apart
    <3>4. SoundBackup(tx[p]) /\ backup[tx[p]] # None /\ MatchesSource(tx[p]) /\ tx[p] \in receipts
      BY <2>1, <2>4, <3>1, <3>3 DEF CallSafe, UpdateAt
    <3>5. state.slot # tx[p]
      <4>1. state.slot = tx[p] => state.release = plan[tx[p]].to
        BY <3>2 DEF Ordered, Planned, OfTransaction
      <4>2. plan[tx[p]].from < plan[tx[p]].to /\ state.release = plan[tx[p]].from /\ state.release \in Int
        BY <2>1, <3>2, <3>4 DEF Shaped, Sourced, MatchesSource, Release
      <4> QED
        BY <4>1, <4>2
    <3>6. CASE backup[tx[p]] = plan[tx[p]].from
      <4>1. tx[p] \in Shelves'
        BY <1>1, <2>1, <2>3, <3>2, <3>4, <3>5, <3>6 DEF Shelves, Apart
      <4> QED
        BY <2>1, <3>2, <3>4, <3>6, <4>1 DEF Secure, MatchesSource
    <3> QED
      BY <2>2, <3>4, <3>6 DEF SoundBackup, MatchesSource
  <2>5. CASE pc[p] \in Reversed
    <3>1. call[p] = "rollback" /\ Undoing(p) /\ ~Undoing(p)' /\ \A q \in Proc \ {p} : Undoing(q)' => Undoing(q)
      BY <1>1, <2>1, <2>5 DEF Shaped, Calling, CallAt, Reversed, Reversal, Undoing
    <3>2. ~Careful'
      BY <1>1, <3>1 DEF Careful
    <3>3. ASSUME backup[kept[p]] = state.release PROVE Secure'
      <4>1. backup'[kept[p]] # None /\ kept[p] \in Slot
        BY <2>1, <3>1, <3>3 DEF Release, None, Shaped, Calling, CallAt, InstallTyped
      <4>2. kept[p] \in Shelves'
        BY <1>1, <2>1, <3>1, <3>2, <4>1, OwnSlotShelved
      <4> QED
        BY <1>1, <2>1, <3>3, <4>1, <4>2 DEF Secure
    <3> QED
      BY <2>1, <2>2, <2>5, <3>3 DEF CallSafe, RollbackAt
  <2> QED
    BY <1>3, <2>4, <2>5
<1> QED
  BY <1>1, <1>2, <1>3, ApartSafe

\* A call that returns has nothing to keep.
LEMMA ForgetSafe ==
  ASSUME Ordered, Safe, TwoProcesses, [Next]_vars, NEW p \in Proc, Forget(p), UNCHANGED files,
         pc[p] \notin Aside \cup Reversed
  PROVE  Safe'
<1>1. /\ pc'[p] = "idle" /\ Apart
      /\ \A q \in Proc \ {p} : /\ pc'[q] = pc[q] /\ call'[q] = call[q] /\ tx'[q] = tx[q]
                               /\ kept'[q] = kept[q] /\ snapshot'[q] = snapshot[q]
  BY DEF Forget, Goto, Apart, files, Ordered, Shaped, InstallTyped
<1>2. CallSafe(p)'
  BY <1>1, OutsideSafe DEF Holding
<1> QED
  BY <1>1, <1>2, ApartSafe

\* Waiting for the lock, taking it and giving it back.
LEMMA WaitingSafe ==
  ASSUME Ordered, Safe, TwoProcesses, NEW p \in Proc,
         TryLock(p) \/ ReadLock(p) \/ RereadLock(p) \/ RemoveStaleLock(p) \/ Relock(p) \/ Unlock(p)
  PROVE  Safe'
<1>1. [Next]_vars /\ pc[p] \in Waiting \cup {"unlock"} /\ pc[p] \notin Aside \cup Reversed
  BY DEF Next, Running, Locking, TryLock, ReadLock, RereadLock, RemoveStaleLock, Relock, Unlock,
     Waiting, Aside, Reversed
<1>2. pc[p] # "unlock" => call[p] \in {"reconcile", "rollback"}
  BY <1>1 DEF Waiting, Ordered, Shaped, Calling, CallAt
<1>3. CASE Forget(p) /\ UNCHANGED files
  BY <1>1, <1>3, ForgetSafe
<1>4. ASSUME NEW x \in {"owner", "readlock", "reread", "rmlock", "relock"}, Goto(p, x),
             UNCHANGED <<files, call, tx, kept, snapshot>>, pc[p] # "unlock"
      PROVE  Safe'
  <2>1. pc'[p] = x /\ Apart /\ \A q \in Proc \ {p} : pc'[q] = pc[q]
    BY <1>4 DEF Goto, Apart, files, Ordered, Shaped, InstallTyped
  <2>2. ~outdated' => CallSafe(p)'
    BY <1>1, <1>2, <1>4, <2>1, ArrivedSafe DEF Holding
  <2> QED
    BY <1>1, <1>4, <2>1, <2>2, ApartSafe
<1>5. CASE TryLock(p)
  BY <1>3, <1>4, <1>5 DEF TryLock, CreateLock, Return, locals
<1>6. CASE ReadLock(p)
  BY <1>3, <1>4, <1>6 DEF ReadLock, Return
<1>7. CASE RereadLock(p)
  BY <1>3, <1>4, <1>7 DEF RereadLock, Return, locals
<1>8. CASE RemoveStaleLock(p)
  BY <1>3, <1>4, <1>8 DEF RemoveStaleLock, Return, locals
<1>9. CASE Relock(p)
  BY <1>3, <1>4, <1>9 DEF Relock, CreateLock, Return, locals
<1>10. CASE Unlock(p)
  BY <1>3, <1>10 DEF Unlock
<1> QED
  BY <1>5, <1>6, <1>7, <1>8, <1>9, <1>10

\* A call begins.
LEMMA BeginSafe ==
  ASSUME Ordered, Safe, TwoProcesses, NEW p \in Proc,
         BeginReconcile(p) \/ BeginRollback(p) \/ \E t \in Tx : BeginActivate(p, t)
  PROVE  Safe'
<1>1. [Next]_vars /\ pc[p] = "idle" /\ pc[p] \notin Aside \cup Reversed
  BY DEF Next, BeginReconcile, BeginRollback, BeginActivate, Aside, Reversed
<1>2. Apart /\ plan' = plan /\ pending' = pending
  BY DEF BeginReconcile, BeginRollback, BeginActivate, Apart, files
<1>3. \A q \in Proc \ {p} : /\ pc'[q] = pc[q] /\ call'[q] = call[q] /\ tx'[q] = tx[q]
                            /\ kept'[q] = kept[q] /\ snapshot'[q] = snapshot[q]
  BY DEF BeginReconcile, BeginRollback, BeginActivate, CreateLock, Goto, Ordered, Shaped,
     InstallTyped
<1>4. CASE BeginReconcile(p) \/ BeginRollback(p)
  <2>1. pc'[p] = "trylock"
    BY <1>4 DEF BeginReconcile, BeginRollback, Goto, Ordered, Shaped, InstallTyped
  <2>2. CallSafe(p)'
    BY <2>1, OutsideSafe DEF Holding
  <2> QED
    BY <1>1, <1>2, <1>3, <2>2, ApartSafe
<1>5. ASSUME NEW t \in Tx, BeginActivate(p, t) PROVE Safe'
  <2>1. pc'[p] = "owner" /\ tx'[p] = t /\ plan[t] # NoPlan /\ (t = pending \/ plan[t].from = None)
    BY <1>5 DEF BeginActivate, CreateLock, Goto, Ordered, Shaped, InstallTyped
  <2>2. ~outdated' => CallSafe(p)'
    BY <1>1, <1>2, <2>1, ArrivedSafe
  <2> QED
    BY <1>1, <1>2, <1>3, <2>2, ApartSafe
<1> QED
  BY <1>4, <1>5

\* A transaction is prepared, and the pending update set or removed.
LEMMA PreparingSafe ==
  ASSUME Ordered, Safe, TwoProcesses,
         RemovePending \/ \E t \in Tx, r \in Release : Prepare(t, r) \/ StagePending(t, r)
  PROVE  Safe'
<1>1. [Next]_vars
  BY DEF Next
<1>2. UNCHANGED <<pc, call, tx, kept, snapshot, outdated, faults, died>> /\ Apart
  BY DEF RemovePending, Prepare, StagePending, Fresh, Apart, locals, history
<1>3. ~outdated' => \A q \in Proc : CallSafe(q)'
  BY <1>1, <1>2, CallStays
<1>4. CASE Proc = {}
  <2>1. ~outdated' => ~outdated /\ (pending' # None => SoundBackup(pending)')
    BY <1>1, <1>2, PendingStays DEF SoundBackup
  <2>2. Secure => Secure'
    BY <1>1, <1>2, QuietStep DEF Apart
  <2> QED
    BY <1>2, <1>3, <2>1, <2>2 DEF Safe, SecureBetween, Apart
<1>5. ASSUME NEW p \in Proc PROVE Safe'
  BY <1>1, <1>2, <1>3, ApartSafe
<1> QED
  BY <1>4, <1>5

\* Every step of the package keeps the invariant.
LEMMA StepSafe ==
  ASSUME Ordered, Safe, TwoProcesses, [Next]_vars
  PROVE  Safe'
<1>1. ASSUME NEW p \in Proc, Activating(p), ~outdated' PROVE Safe'
  <2>1. Tidy(p) => RemoveStaged(p, "tidy", "unreceipt") \/ pc[p] = "unreceipt"
    BY DEF Tidy, RemoveReceipt
  <2>2. UndoBackup(p) => pc[p] = "undoBackup"
    BY DEF UndoBackup
  <2>3. UndoBundle(p) => pc[p] = "undoBundle"
    BY DEF UndoBundle
  <2> QED
    BY <1>1, <2>1, <2>2, <2>3, CheckSourceSafe, WriteReceiptSafe, StagePayloadSafe, BackupCLISafe,
       PlaceBundleSafe, PlaceRuntimeSafe, PlaceCLISafe, CheckActivatedSafe, WriteTargetSafe,
       RemoveCLISafe, ReinstateSourceSafe, RemoveBundleSafe, UndoRuntimeSafe, RemoveStagedSafe,
       RemoveReceiptSafe DEF Activating
<1>2. ASSUME NEW p \in Proc, Reconciling(p), ~outdated' PROVE Safe'
  <2>1. RestoreCLI(p) => RemoveActiveCLI(p, "rmCLI", "mvBackup") \/ pc[p] = "mvBackup"
    BY DEF RestoreCLI
  <2>2. RestoreRest(p) => pc[p] \in {"rmBundle", "rmReceipt"} \/ RemoveStaged(p, "rmStaged", "rmReceipt")
    BY DEF RestoreRest, RemoveReceipt
  <2> QED
    BY <1>2, <2>1, <2>2, DecideSafe, CheckInterruptedSafe, WriteTargetSafe, RemoveCLISafe,
       ReinstateSourceSafe, RemoveBundleSafe, RemoveStagedSafe, RemoveReceiptSafe DEF Reconciling
<1>3. ASSUME NEW p \in Proc, RollingBack(p), ~outdated' PROVE Safe'
  BY <1>3, FindPreviousSafe, RevertCLISafe, ReactivateCLISafe, CheckPreviousSafe,
     DiscardPreviousSafe,
     CommitBackSafe, UnwindSafe, GiveBackSafe DEF RollingBack
<1>4. ASSUME NEW p \in Proc, Locking(p), ~outdated' PROVE Safe'
  BY <1>4, WriteOwnerSafe, WaitingSafe DEF Locking
<1>5. CASE outdated'
  BY <1>5 DEF Safe
<1>6. CASE UNCHANGED vars
  <2>1. UNCHANGED <<state, cli, bundles, backup, receipts, plan, pending, lock, pc, call, tx,
                    snapshot, kept, faults, died, outdated>>
    BY <1>6 DEF vars, files, locals, history
  <2>2. UNCHANGED <<Shelves, Careful>>
    BY <2>1 DEF Shelves, Careful, DeadLock, Dead, Threatened, Undoing
  <2>3. \A p \in Proc : CallSafe(p) => CallSafe(p)'
    BY <2>1, <2>2 DEF CallSafe, FirstAt, UpdateAt, RollbackAt, Engaged, SoundBackup, MatchesSource,
       From, To
  <2> QED
    BY <2>1, <2>2, <2>3 DEF Safe, SecureBetween, Secure, SoundBackup
<1>7. CASE Next /\ ~outdated'
  BY <1>1, <1>2, <1>3, <1>4, <1>7, FailSafe, CrashSafe, BeginSafe, PreparingSafe DEF Next, Running
<1> QED
  BY <1>5, <1>6, <1>7

----------------------------------------------------------------------------
(* Before the first release.                                                *)

\* While there is no state, an active CLI is one that a first activation has just
\* placed, or left behind when it stopped, in which case its lock stays.
Vacant ==
  ~outdated /\ state = NoState /\ cli # None =>
    DeadLock \/ \E p \in Proc : pc[p] \in {"selfcheck", "commit", "undoCLI"}
InstallInv == Ordered /\ Safe /\ Vacant

\* While there is no state, only activations are under way, and the first place their CLI.
LEMMA WorkingVacant ==
  ASSUME Ordered, Safe, Vacant, TwoProcesses, NEW p \in Proc, Working(p)
  PROVE  Vacant'
<1>1. SUFFICES ASSUME ~outdated', state' = NoState, cli' # None PROVE pc'[p] \in {"selfcheck", "commit", "undoCLI"}
  BY DEF Vacant
<1>2. /\ Shaped /\ Shaped' /\ ~outdated /\ CallSafe(p) /\ \A q \in Proc \ {p} : pc[q] \notin Holding
  BY <1>1, Alone
<1>3. pc[p] \in Holding /\ lock = p /\ ~DeadLock /\ StateStep(p)
  BY <1>2, WorkingHolds, WorkingChanges DEF Ordered, Exclusive, LockAt, DeadLock, Dead, Holding
<1>4. state = NoState /\ pc[p] \notin {"commitBack"} /\ ~(pc[p] \in {"commit", "recommit"} /\ state' = TargetState(tx[p]))
  <2>1. NoState.release = None /\ None \notin Release
    BY DEF NoState, None, Release
  <2>2. pc[p] \in {"commit", "recommit"} => TargetState(tx[p]).release \in Release
    BY <1>2, CallTransaction, SlotsAndFiles DEF TargetState, Shaped, Sourced, InstallTyped,
       Activation, Reconciliation
  <2>3. pc[p] = "commitBack" => snapshot[p].previous \in Release /\ state # NoState
    BY <1>2, SlotsAndFiles DEF Shaped, Calling, CallAt, Reversal, InstallTyped, Ordered, Planned
  <2> QED
    BY <1>1, <1>3, <2>1, <2>2, <2>3 DEF StateStep
<1>5. call[p] \notin {"reconcile", "rollback"}
  BY <1>4 DEF Ordered, Planned
<1>6. pc[p] \notin Reconciliation \cup Reversal \cup {"decide"}
  BY <1>2, <1>5 DEF Shaped, Calling, CallAt
<1>7. CASE cli' = cli
  <2>1. pc[p] \in {"selfcheck", "commit", "undoCLI"}
    BY <1>1, <1>2, <1>3, <1>4, <1>7 DEF Vacant, Holding
  <2>2. \/ CheckActivated(p) \/ CommitState(p) \/ UndoCLI(p) \/ Fail(p)
    BY <2>1 DEF Working, Activating, Reconciling, RollingBack, WriteOwner, CheckSource,
       WriteReceipt, StagePayload,
       BackupCLI, PlaceBundle, PlaceRuntime, PlaceCLI, UndoBackup, UndoBundle, UndoRuntime, Tidy, RemoveStaged,
       RemoveReceipt, Decide, CheckInterrupted, SelfCheck, CompleteState, WriteState, RestoreCLI, RestoreRest,
       RemoveActiveCLI, FindPrevious, RevertCLI, MoveAside, ReactivateCLI, CheckPrevious, DiscardPrevious,
       CommitBack, Unwind, GiveBack
  <2>3. CASE CheckActivated(p)
    BY <1>2, <2>3 DEF CheckActivated, SelfCheck, Goto, Shaped, InstallTyped
  <2>4. CASE CommitState(p)
    BY <1>4, <2>4 DEF CommitState, WriteState
  <2>5. CASE UndoCLI(p)
    BY <1>1, <2>5 DEF UndoCLI
  <2>6. CASE Fail(p)
    <3>1. pc[p] \in DOMAIN OnError /\ pc'[p] = OnError[pc[p]]
      BY <1>2, <2>6 DEF Fail, Goto, Shaped, InstallTyped
    <3> QED
      BY <2>1, <3>1, ErrorTable
  <2> QED
    BY <2>2, <2>3, <2>4, <2>5, <2>6
<1>8. CASE cli' # cli
  <2>1. BackupCLI(p) \/ PlaceCLI(p) \/ UndoCLI(p) \/ UndoBackup(p)
    BY <1>6, <1>8 DEF Working, Activating, Reconciling, RollingBack, WriteOwner, CheckSource,
       WriteReceipt, StagePayload,
       PlaceBundle, PlaceRuntime, UndoBundle, UndoRuntime, Tidy, RemoveStaged, CheckActivated, CommitState,
       RemoveReceipt, Decide, CheckInterrupted, SelfCheck, CompleteState, WriteState, RestoreCLI, RestoreRest,
       RemoveActiveCLI, FindPrevious, RevertCLI, MoveAside, ReactivateCLI, CheckPrevious, DiscardPrevious,
       CommitBack, Unwind, GiveBack, Fail, files, Reconciliation, Reversal
  <2>2. ~BackupCLI(p) /\ ~UndoCLI(p)
    BY <1>1, <1>8 DEF BackupCLI, UndoCLI
  <2>3. CASE PlaceCLI(p)
    BY <1>2, <1>8, <2>3 DEF PlaceCLI, Goto, Shaped, InstallTyped
  <2>4. CASE UndoBackup(p)
    <3>1. pc[p] = "undoBackup" /\ tx[p] \in Tx /\ plan[tx[p]] # NoPlan
      BY <1>2, <2>4, CallTransaction DEF UndoBackup, Activation
    <3>2. Engaged(p) /\ MatchesSource(tx[p])
      BY <1>2, <3>1 DEF CallSafe, FirstAt, UpdateAt, Engaged, Activation
    <3> QED
      BY <1>4, <3>2 DEF Engaged, MatchesSource, From, NoState
  <2> QED
    BY <2>1, <2>2, <2>3, <2>4
<1> QED
  BY <1>7, <1>8

\* Nobody takes the lock of a first activation that has stopped.
LEMMA StepVacant ==
  ASSUME Ordered, Safe, Vacant, TwoProcesses, [Next]_vars
  PROVE  Vacant'
<1>0. Shaped
  BY DEF Ordered
<1>1. ASSUME NEW p \in Proc, Working(p) PROVE Vacant'
  BY <1>1, WorkingVacant
<1>2. ASSUME UNCHANGED <<state, cli, outdated, lock, pc>> PROVE Vacant'
  BY <1>2 DEF Vacant, DeadLock, Dead
<1>3. CASE UNCHANGED vars
  BY <1>2, <1>3 DEF vars, files, history
<1>4. CASE RemovePending \/ \E t \in Tx, r \in Release : Prepare(t, r) \/ StagePending(t, r)
  BY <1>2, <1>4 DEF RemovePending, Prepare, StagePending, history
<1>5. ASSUME NEW p \in Proc, UNCHANGED <<state, cli,
                                         outdated>>, \A q \in Proc \ {p} : pc'[q] = pc[q], ~Dead(p),
             lock' = lock \/ (state = NoState => ~DeadLock),
             pc[p] \notin {"selfcheck", "commit", "undoCLI"} \/ (DeadLock' /\ pc'[p] = "dead")
      PROVE  Vacant'
  <2>1. SUFFICES ASSUME ~outdated, state = NoState, cli # None
                 PROVE  DeadLock' \/ \E q \in Proc : pc'[q] \in {"selfcheck", "commit", "undoCLI"}
    BY <1>5 DEF Vacant
  <2>2. CASE DeadLock
    BY <1>5, <2>1, <2>2 DEF DeadLock, Dead
  <2>3. CASE ~DeadLock
    <3>1. PICK q \in Proc : pc[q] \in {"selfcheck", "commit", "undoCLI"}
      BY <2>1, <2>3 DEF Vacant
    <3> QED
      BY <1>5, <3>1
  <2> QED
    BY <2>2, <2>3
<1>6. ASSUME NEW p \in Proc, Forget(p), UNCHANGED <<files,
                                                    history>>, lock' = lock \/ (state = NoState => ~DeadLock),
             ~Dead(p), pc[p] \notin {"selfcheck", "commit", "undoCLI"}
      PROVE  Vacant'
  BY <1>0, <1>5, <1>6 DEF Forget, Goto, files, history, Shaped, InstallTyped
<1>7. ASSUME NEW p \in Proc, NEW x \in Places, Goto(p, x), UNCHANGED <<state, cli, outdated>>, ~Dead(p),
             lock' = lock \/ (state = NoState => ~DeadLock), pc[p] \notin {"selfcheck", "commit", "undoCLI"}
      PROVE  Vacant'
  BY <1>0, <1>5, <1>7 DEF Goto, Shaped, InstallTyped
<1>8. lock = Nobody => ~DeadLock
  BY InstallAssumption DEF DeadLock
<1>9. {"readlock", "reread", "rmlock", "relock", "owner", "trylock"} \subseteq Places
  BY DEF Places, Waiting, Holding
<1>10. ASSUME NEW p \in Proc, TryLock(p) \/ Relock(p) PROVE Vacant'
  <2>1. pc[p] \in {"trylock", "relock"} /\ ~Dead(p)
    BY <1>10 DEF TryLock, Relock, Dead
  <2> QED
    BY <1>6, <1>7, <1>8, <1>9, <1>10, <2>1 DEF TryLock, Relock, CreateLock, Return, files, history
<1>11. ASSUME NEW p \in Proc, ReadLock(p) \/ RereadLock(p) PROVE Vacant'
  <2>1. pc[p] \in {"readlock", "reread"} /\ ~Dead(p)
    BY <1>11 DEF ReadLock, RereadLock, Dead
  <2> QED
    BY <1>6, <1>7, <1>9, <1>11, <2>1 DEF ReadLock, RereadLock, Return, files, history
<1>12. ASSUME NEW p \in Proc, RemoveStaleLock(p) PROVE Vacant'
  <2>1. pc[p] = "rmlock" /\ ~Dead(p)
    BY <1>12 DEF RemoveStaleLock, Dead
  <2>2. state # NoState
    BY <1>0, <2>1 DEF Ordered, Planned, Shaped, Calling, CallAt
  <2> QED
    BY <1>6, <1>7, <1>9, <1>12, <2>1, <2>2 DEF RemoveStaleLock, Return, files, history
<1>13. ASSUME NEW p \in Proc, Unlock(p) PROVE Vacant'
  <2>1. pc[p] = "unlock" /\ ~Dead(p) /\ ~DeadLock
    BY <1>13 DEF Unlock, Dead, DeadLock, Ordered, Exclusive, LockAt, Holding
  <2> QED
    BY <1>6, <1>13, <2>1 DEF Unlock
<1>14. ASSUME NEW p \in Proc, Crash(p) PROVE Vacant'
  <2>1. /\ pc'[p] = "dead" /\ ~Dead(p) /\ \A q \in Proc \ {p} : pc'[q] = pc[q]
        /\ UNCHANGED <<state, cli, outdated, lock>>
    BY <1>0, <1>14 DEF Crash, Goto, Dead, files, Shaped, InstallTyped
  <2>2. pc[p] \in {"selfcheck", "commit", "undoCLI"} => DeadLock'
    BY <2>1 DEF DeadLock, Dead, Ordered, Exclusive, LockAt, Holding
  <2> QED
    BY <1>5, <2>1, <2>2
<1>15. ASSUME NEW p \in Proc, BeginReconcile(p) \/ BeginRollback(p) \/ \E t \in Tx : BeginActivate(p, t)
       PROVE  Vacant'
  <2>1. pc[p] = "idle" /\ ~Dead(p)
    BY <1>15 DEF BeginReconcile, BeginRollback, BeginActivate, Dead
  <2> QED
    BY <1>7, <1>8, <1>9, <1>15, <2>1 DEF BeginReconcile, BeginRollback, BeginActivate, CreateLock,
       files, history
<1> QED
  BY <1>1, <1>3, <1>4, <1>10, <1>11, <1>12, <1>13, <1>14, <1>15 DEF Next, Running, Locking, Working

\* At first there is neither a state nor an active CLI.
LEMMA InitInv ==
  ASSUME Init
  PROVE  InstallInv
<1>1. \A p \in Proc : pc[p] = "idle" /\ call[p] = "none" /\ tx[p] = None /\ kept[p] = None /\ snapshot[p] = NoState
  BY DEF Init
<1>2. NoState \in StateFile /\ NoState.slot = None /\ NoState.previous = None
  BY DEF StateFile, NoState
<1>3. InstallTyped
  BY <1>2, InstallAssumption DEF Init, InstallTyped, Places, NoPlan
<1>4. Calling /\ Sourced
  BY <1>1, <1>2 DEF Init, Calling, CallAt, Sourced, Waiting, Activation, Reconciliation, Reversal
<1>5. Exclusive
  BY <1>1 DEF Init, Exclusive, LockAt, Holding
<1>6. OfTransaction(NoState)
  BY <1>2, InstallAssumption DEF Init, OfTransaction, Tx, None
<1>7. Planned
  BY <1>1, <1>6 DEF Init, Planned, OfTransaction
<1>8. OwnSlots
  BY <1>1 DEF OwnSlots, OwnSlot, Undoing
<1>9. Safe
  BY <1>1 DEF Init, Safe, SecureBetween, CallSafe, FirstAt, UpdateAt, RollbackAt, Engaged,
     Activation, Reconciliation, Reversed, Aside
<1> QED
  BY <1>3, <1>4, <1>5, <1>7, <1>8, <1>9 DEF InstallInv, Ordered, Shaped, Vacant, Init

\* The invariant says where the release of the state is, whatever is under way.
LEMMA InvKeepsRelease ==
  ASSUME InstallInv
  PROVE  ReleaseKept
<1>0. Ordered /\ Safe /\ Vacant /\ Shaped
  BY DEF InstallInv, Ordered
<1>1. ASSUME state # NoState, ~outdated
      PROVE  cli = state.release \/ \E s \in Slot : backup[s] = state.release
  <2>1. CASE \A p \in Proc : pc[p] \notin Aside \cup Reversed
    BY <1>0, <1>1, <2>1 DEF Safe, SecureBetween, Secure, Shelves
  <2>2. ASSUME NEW p \in Proc, pc[p] \in Aside PROVE \E s \in Slot : backup[s] = state.release
    <3>1. pc[p] \in Activation \cup Reconciliation /\ pc[p] \notin {"owner", "check", "receipt"} /\ CallSafe(p)
      BY <1>0, <1>1, <2>2 DEF Aside, Activation, Reconciliation, Safe
    <3>2. tx[p] \in Slot
      BY <1>0, <3>1, CallTransaction
    <3>3. Engaged(p)
      BY <1>1, <3>1 DEF CallSafe, FirstAt, Engaged
    <3>4. SoundBackup(tx[p]) /\ backup[tx[p]] # None /\ MatchesSource(tx[p])
      BY <2>2, <3>1, <3>3 DEF CallSafe, UpdateAt
    <3> QED
      BY <3>2, <3>4 DEF SoundBackup, MatchesSource, Shelves
  <2>3. ASSUME NEW p \in Proc, pc[p] \in Reversed PROVE \E s \in Slot : backup[s] = state.release
    <3>1. CallSafe(p) /\ kept[p] \in Slot
      BY <1>0, <1>1, <2>3 DEF Safe, Shaped, Calling, CallAt, InstallTyped, Reversed, Reversal
    <3> QED
      BY <2>3, <3>1 DEF CallSafe, RollbackAt, Shelves
  <2> QED
    BY <2>1, <2>2, <2>3
<1>2. ASSUME Quiet, faults = 0, "rollback" \notin died, ~outdated, \A t \in Tx : ~Interrupted(t)
      PROVE  cli = state.release
  <2>1. Careful /\ \A p \in Proc : pc[p] \in {"idle", "dead"}
    BY <1>2 DEF Careful, Quiet
  <2>2. CASE state = NoState
    BY <1>2, <1>0, <2>1, <2>2, InstallAssumption DEF Vacant, Quiet, DeadLock, NoState
  <2>3. CASE state # NoState
    <3>1. Secure
      BY <1>0, <1>2, <2>1, <2>3 DEF Safe, SecureBetween, Aside, Reversed
    <3>2. ASSUME NEW s \in Shelves, backup[s] = state.release PROVE FALSE
      BY <1>2, <2>1, <3>2 DEF Shelves, Interrupted, MatchesSource
    <3> QED
      BY <2>1, <3>1, <3>2 DEF Secure
  <2> QED
    BY <2>2, <2>3
<1> QED
  BY <1>1, <1>2 DEF ReleaseKept, SourceNeverLost, Settled

\* ReleaseIsKept: with two processes, the release that the state names is never lost,
\* wherever a process stops and whatever call of the file system fails in Activate,
\* ReconcileActivated and Rollback, and it is the active CLI once nobody is at work and
\* no update is left interrupted.
THEOREM ReleaseIsKept == ASSUME TwoProcesses PROVE Spec => []ReleaseKept
<1>1. Init => InstallInv
  BY InitInv
<1>2. InstallInv /\ [Next]_vars => InstallInv'
  BY StepOrdered, StepSafe, StepVacant DEF InstallInv
<1>3. InstallInv => ReleaseKept
  BY InvKeepsRelease
<1> QED
  BY <1>1, <1>2, <1>3, PTL DEF Spec
=============================================================================
