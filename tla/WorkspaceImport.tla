--------------------------- MODULE WorkspaceImport ---------------------------
(***************************************************************************)
(* The import of a foreign workspace: an approved plan is staged, linked   *)
(* into the destination file by file under a journal, and reconciled by    *)
(* the next call after a crash.  Callers exclude each other with a plan    *)
(* lock the system releases when its holder dies; the user goes on editing *)
(* both trees.                                                             *)
(***************************************************************************)
EXTENDS Naturals, Sequences, SequencesExt

CONSTANTS Importer, PlanFiles,     \* the plan's entries, a sequence of distinct paths
          MaxEdits,            \* bound on what the user does meanwhile
          MaxImportFaults      \* bound on crashes and on failing writes

\* The entries are a sequence of paths.
ASSUME PlanAssumption == PlanFiles \in Seq(ToSet(PlanFiles))

VARIABLES source, dest, stage, \* contents of the three trees
          plan,                \* the digests the approved plan pins
          journal, receipt, planLock,
          importer,            \* what each caller is doing
          edits, importFaults,
          touched,             \* the files the user or a rollback has dealt with
          raced                \* history: the file the user wrote between the hash of a
                               \* removal and its unlink

importVars == <<source, dest, stage, plan, journal, receipt, planLock, importer,
                edits, touched, raced, importFaults>>

ImportFile == ToSet(PlanFiles)
Absent == "absent"
Unplanned == [f \in ImportFile |-> Absent]
NotImporting == [at |-> "idle", todo |-> <<>>, committed |-> <<>>]

ImportInit ==
  /\ source = [f \in ImportFile |-> "v1"] /\ dest = Unplanned /\ stage = Unplanned
  /\ plan = Unplanned
  /\ journal = [state |-> "none", committed |-> {}]
  /\ receipt = "none" /\ planLock = {}
  /\ importer = [i \in Importer |-> NotImporting]
  /\ edits = 0 /\ touched = {} /\ raced = {} /\ importFaults = 0

-----------------------------------------------------------------------------
ImporterAt(i, at) == importer[i].at = at
Do(i, at, todo, committed) ==
  importer' = [importer EXCEPT ![i] = [at |-> at, todo |-> todo, committed |-> committed]]
UnlockPlan(i) == importer' = [importer EXCEPT ![i] = NotImporting] /\ planLock' = planLock \ {i}
Current(i) == Head(importer[i].todo)
MatchesPlan(tree, f) == tree[f] = plan[f]
Unhurt == UNCHANGED <<edits, touched, raced, importFaults>>
ImportTrees == <<source, dest, stage, plan>>

\* BuildPlan and Approve: every file the inspection finds, with the digest of its
\* content; a destination that exists is a conflict, and a plan with conflicts is
\* not approved.
Inspection == ImportFile
DigestSourceFile(f) == source[f]
Conflicts == {f \in Inspection : dest[f] # Absent}
Approve == Conflicts = {}
BuildImport ==
  /\ plan = Unplanned /\ Approve
  /\ plan' = [f \in Inspection |-> DigestSourceFile(f)]
  /\ UNCHANGED <<source, dest, stage, journal, receipt, planLock, importer>> /\ Unhurt

\* What ValidateReceipt takes for terminal, and a journal that is open.
Terminal == receipt \in {"executed", "rolled_back"}
OpenJournal == journal.state \in {"prepared", "committing"}

\* acquirePlanLock, then the head of Execute: a terminal receipt is returned
\* and a journal behind it is settled.
Enter(i) == ImporterAt(i, "idle") /\ plan # Unplanned /\ planLock = {}
ReturnReceipt(i) ==
  /\ Enter(i) /\ Terminal
  /\ journal' = IF journal.state = "failed" THEN journal ELSE [journal EXCEPT !.state = "reconciled"]
  /\ UNCHANGED <<receipt, planLock, importer, ImportTrees>> /\ Unhurt

\* reconcilePendingJournal: an open journal is finished before anything else.
StartReconcile(i) ==
  /\ Enter(i) /\ ~Terminal /\ OpenJournal
  /\ planLock' = {i}
  /\ journal' = [journal EXCEPT !.state = "committing"]
  /\ Do(i, "reconcile", PlanFiles, <<>>)
  /\ UNCHANGED <<receipt, ImportTrees>> /\ Unhurt

StartStaging(i) ==
  /\ Enter(i) /\ ~Terminal /\ journal.state \in {"none", "failed"}
  /\ planLock' = {i} /\ receipt' = "staging"
  /\ Do(i, "stage", PlanFiles, <<>>)
  /\ UNCHANGED <<journal, ImportTrees>> /\ Unhurt

\* copyBounded: an exclusive create, and the content the plan pins.
StageFile(i) ==
  /\ ImporterAt(i, "stage") /\ importer[i].todo # <<>>
  /\ LET f == Current(i) IN
     IF stage[f] = Absent /\ MatchesPlan(source, f)
     THEN stage' = [stage EXCEPT ![f] = source[f]] /\ Do(i, "stage", Tail(importer[i].todo), <<>>)
     ELSE Do(i, "unstaged", <<>>, <<>>) /\ UNCHANGED stage
  /\ UNCHANGED <<source, dest, plan, journal, receipt, planLock>> /\ Unhurt

\* buildJournal and the write that makes the commit recoverable.
PrepareJournal(i) ==
  /\ ImporterAt(i, "stage") /\ importer[i].todo = <<>>
  /\ journal' = [state |-> "prepared", committed |-> {}]
  /\ Do(i, "commit", PlanFiles, <<>>)
  /\ UNCHANGED <<receipt, planLock, ImportTrees>> /\ Unhurt

\* secureCommitFile: linkat never replaces a destination.
\* Mutant: the staged file is renamed over whatever is there.
LinkableAlways(i, f) == MatchesPlan(stage, f)
Linkable(i, f) == dest[f] = Absent /\ MatchesPlan(stage, f)
LinkFile(i) ==
  /\ importer[i].at \in {"commit", "reconcile"} /\ importer[i].todo # <<>>
  /\ Linkable(i, Current(i))
  /\ dest' = [dest EXCEPT ![Current(i)] = stage[Current(i)]]
  /\ Do(i, IF ImporterAt(i, "commit") THEN "commit_linked" ELSE "reconcile_linked", importer[i].todo,
        Append(importer[i].committed, Current(i)))
  /\ UNCHANGED <<source, stage, plan, journal, receipt, planLock>> /\ Unhurt

\* What a reconciler takes as installed already, and what ends either phase.
Installed(f) == MatchesPlan(dest, f)
SkipInstalled(i) ==
  /\ ImporterAt(i, "reconcile") /\ importer[i].todo # <<>> /\ Installed(Current(i))
  /\ Do(i, "reconcile_linked", importer[i].todo, Append(importer[i].committed, Current(i)))
  /\ UNCHANGED <<journal, receipt, planLock, ImportTrees>> /\ Unhurt
CannotLink(i) ==
  /\ importer[i].at \in {"commit", "reconcile"} /\ importer[i].todo # <<>>
  /\ ~Linkable(i, Current(i))
  /\ IF ImporterAt(i, "commit") THEN Do(i, "abort", importer[i].committed, <<>>) /\ UNCHANGED planLock
     ELSE ~Installed(Current(i)) /\ UnlockPlan(i)
  /\ UNCHANGED <<journal, receipt, ImportTrees>> /\ Unhurt

\* The staged name goes, then the journal counts the file.
UnlinkStage(i) ==
  /\ importer[i].at \in {"commit_linked", "reconcile_linked"} /\ stage[Current(i)] # Absent
  /\ stage' = [stage EXCEPT ![Current(i)] = Absent]
  /\ UNCHANGED <<source, dest, plan, journal, receipt, planLock, importer>> /\ Unhurt
RecordCommitted(i) ==
  /\ importer[i].at \in {"commit_linked", "reconcile_linked"} /\ stage[Current(i)] = Absent
  /\ journal' = [state |-> "committing", committed |-> journal.committed \cup {Current(i)}]
  /\ Do(i, IF ImporterAt(i, "commit_linked") THEN "commit" ELSE "reconcile",
        Tail(importer[i].todo), importer[i].committed)
  /\ UNCHANGED <<receipt, planLock, ImportTrees>> /\ Unhurt

\* Every file is in place: the receipt is terminal, then the journal is settled.
WriteExecuted(i) ==
  /\ importer[i].at \in {"commit", "reconcile"} /\ importer[i].todo = <<>>
  /\ receipt' = "executed"
  /\ Do(i, "settle", <<>>, <<>>)
  /\ UNCHANGED <<journal, planLock, ImportTrees>> /\ Unhurt
Settle(i) ==
  /\ ImporterAt(i, "settle")
  /\ journal' = [journal EXCEPT !.state = "reconciled"]
  /\ stage' = Unplanned /\ UnlockPlan(i)
  /\ UNCHANGED <<source, dest, plan, receipt>> /\ Unhurt

-----------------------------------------------------------------------------
\* removeFileIfDigestSecure opens the file and hashes it, only what still has the
\* committed content may go; then it unlinks the name, whatever the user has written
\* there in between.  A name that is gone by then is an error.
Removable(f) == MatchesPlan(dest, f)
AtUnlink == {"abort_unlink", "rollback_unlink"}
Condemned(c) == IF c.at = "abort_unlink" THEN Last(c.todo) ELSE Head(c.todo)
InGap(f) == \E i \in Importer : importer[i].at \in AtUnlink /\ Condemned(importer[i]) = f

\* abort: committed files are removed, last first, whatever becomes of each; then the
\* journal is closed, an error of that write being ignored; then the receipt records
\* the failure and the stage is dropped.
AbortCheck(i) ==
  /\ ImporterAt(i, "abort") /\ importer[i].todo # <<>>
  /\ IF Removable(Last(importer[i].todo))
     THEN Do(i, "abort_unlink", importer[i].todo, <<>>)
     ELSE Do(i, "abort", Front(importer[i].todo), <<>>)
  /\ UNCHANGED <<journal, receipt, planLock, ImportTrees>> /\ Unhurt
AbortUnlink(i) ==
  /\ ImporterAt(i, "abort_unlink") /\ Do(i, "abort", Front(importer[i].todo), <<>>)
  /\ dest' = [dest EXCEPT ![Condemned(importer[i])] = Absent] /\ raced' = {}
  /\ UNCHANGED <<source, stage, plan, journal, receipt, planLock, edits, touched, importFaults>>
AbortRecord(i) ==
  /\ ImporterAt(i, "abort") /\ importer[i].todo = <<>>
  /\ \/ journal' = [journal EXCEPT !.state = "failed"] /\ UNCHANGED importFaults
     \/ importFaults < MaxImportFaults /\ importFaults' = importFaults + 1 /\ UNCHANGED journal
  /\ Do(i, "unstaged", <<>>, <<>>)
  /\ UNCHANGED <<receipt, planLock, ImportTrees, edits, touched, raced>>
Unstage(i) ==
  /\ ImporterAt(i, "unstaged")
  /\ receipt' = "failed" /\ stage' = Unplanned /\ UnlockPlan(i)
  /\ UNCHANGED <<source, dest, plan, journal>> /\ Unhurt

\* Rollback of an executed import: files that are gone are skipped, the first
\* one that was changed stops it.
StartRollback(i) ==
  /\ Enter(i) /\ receipt = "executed"
  /\ planLock' = {i} /\ Do(i, "rollback", PlanFiles, <<>>)
  /\ UNCHANGED <<journal, receipt, ImportTrees>> /\ Unhurt
RollbackCheck(i) ==
  /\ ImporterAt(i, "rollback") /\ importer[i].todo # <<>>
  /\ \/ /\ dest[Current(i)] = Absent /\ Do(i, "rollback", Tail(importer[i].todo), <<>>) /\ UNCHANGED planLock
     \/ /\ dest[Current(i)] # Absent /\ Removable(Current(i))
        /\ Do(i, "rollback_unlink", importer[i].todo, <<>>) /\ UNCHANGED planLock
     \/ dest[Current(i)] # Absent /\ ~Removable(Current(i)) /\ UnlockPlan(i)
  /\ UNCHANGED <<journal, receipt, ImportTrees>> /\ Unhurt
RollbackUnlink(i) ==
  LET f == Condemned(importer[i]) IN
  /\ ImporterAt(i, "rollback_unlink") /\ raced' = {}
  /\ dest' = [dest EXCEPT ![f] = Absent] /\ touched' = touched \cup {f}
  /\ IF dest[f] = Absent THEN UnlockPlan(i) ELSE Do(i, "rollback", Tail(importer[i].todo), <<>>) /\ UNCHANGED planLock
  /\ UNCHANGED <<source, stage, plan, journal, receipt, edits, importFaults>>
RolledBack(i) ==
  /\ ImporterAt(i, "rollback") /\ importer[i].todo = <<>>
  /\ receipt' = "rolled_back" /\ UnlockPlan(i)
  /\ UNCHANGED <<journal, ImportTrees>> /\ Unhurt

-----------------------------------------------------------------------------
\* A write or an unlink fails: Execute aborts before the receipt is terminal and
\* returns after it, an abort goes on; a reconciler and a rollback return as they are.
ImportWriteFails(i) ==
  /\ importFaults < MaxImportFaults /\ importFaults' = importFaults + 1 /\ raced' = {}
  /\ \/ /\ importer[i].at \in {"commit", "commit_linked"}
        /\ Do(i, "abort", importer[i].committed, <<>>) /\ UNCHANGED <<planLock, stage>>
     \/ ImporterAt(i, "stage") /\ Do(i, "unstaged", <<>>, <<>>) /\ UNCHANGED <<planLock, stage>>
     \/ ImporterAt(i, "abort_unlink") /\ Do(i, "abort", Front(importer[i].todo), <<>>) /\ UNCHANGED <<planLock, stage>>
     \/ importer[i].at \in {"settle", "unstaged"} /\ stage' = Unplanned /\ UnlockPlan(i)
     \/ /\ importer[i].at \in {"reconcile", "reconcile_linked", "rollback", "rollback_unlink"}
        /\ UnlockPlan(i) /\ UNCHANGED stage
  /\ UNCHANGED <<source, dest, plan, journal, receipt, edits, touched>>

\* The process dies: its lock is released by the system, nothing is cleaned up.
ImporterCrash(i) ==
  /\ ~ImporterAt(i, "idle") /\ importFaults < MaxImportFaults
  /\ importFaults' = importFaults + 1 /\ raced' = {} /\ UnlockPlan(i)
  /\ UNCHANGED <<journal, receipt, edits, touched, ImportTrees>>

\* External: the user edits a source, or writes or deletes a destination.
EditSource(f) ==
  /\ edits < MaxEdits /\ edits' = edits + 1
  /\ source[f] = "v1" /\ source' = [source EXCEPT ![f] = "v2"]
  /\ UNCHANGED <<dest, stage, plan, journal, receipt, planLock, importer, touched, raced, importFaults>>
EditDestination(f) ==
  /\ edits < MaxEdits /\ edits' = edits + 1 /\ touched' = touched \cup {f}
  /\ \E v \in {Absent, "user"} : dest[f] # v /\ dest' = [dest EXCEPT ![f] = v]
  /\ raced' = IF InGap(f) THEN {f} ELSE raced
  /\ UNCHANGED <<source, stage, plan, journal, receipt, planLock, importer, importFaults>>

ImportNext ==
  \/ BuildImport
  \/ \E i \in Importer :
       \/ ReturnReceipt(i) \/ StartReconcile(i) \/ StartStaging(i) \/ StageFile(i)
       \/ PrepareJournal(i) \/ LinkFile(i) \/ SkipInstalled(i) \/ CannotLink(i)
       \/ UnlinkStage(i) \/ RecordCommitted(i) \/ WriteExecuted(i) \/ Settle(i)
       \/ AbortCheck(i) \/ AbortUnlink(i) \/ AbortRecord(i) \/ Unstage(i)
       \/ StartRollback(i) \/ RollbackCheck(i) \/ RollbackUnlink(i) \/ RolledBack(i)
       \/ ImportWriteFails(i) \/ ImporterCrash(i)
  \/ \E f \in ImportFile : EditSource(f) \/ EditDestination(f)
ImportSpec == ImportInit /\ [][ImportNext]_importVars

-----------------------------------------------------------------------------
\* Once the receipt says executed, every planned file that neither the user nor
\* a rollback has touched is in the destination with the approved content,
\* whatever crashes, aborts and reconciliations led to the receipt.
ExecutedIsWhole ==
  receipt = "executed" => \A f \in ImportFile : f \in touched \/ MatchesPlan(dest, f)

\* Neither a commit, an abort, a reconciliation nor a rollback replaces or removes a
\* file the user has written at a destination, but for one window: what the user
\* writes between the hash of a removal and its unlink goes with the unlink.
UserFilesKept ==
  [][\A f \in ImportFile : dest[f] = "user" /\ dest'[f] # "user" => edits' # edits \/ f \in raced]_importVars

\* What an import promises: everything approved arrives, and nothing of the user's
\* goes that was there when the removal looked.
ImportSafe == []ExecutedIsWhole /\ UserFilesKept
=============================================================================
