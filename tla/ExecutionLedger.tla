--------------------------- MODULE ExecutionLedger ---------------------------
(***************************************************************************)
(* The execution ledger as it runs: several processes (CLI invocations,    *)
(* MCP servers) share one item directory.  Every mutation takes the item's *)
(* .mutation.lock, reads the newest revision, publishes the next one with  *)
(* a no-clobber link, refreshes the state.json projection and unlocks.     *)
(* Each file-system call is a step of its own, a process can stop for good *)
(* or for long between any two, and a lock that has not been touched for   *)
(* two minutes can be taken over while its owner still runs.               *)
(*                                                                         *)
(* The inputs of a call (expected revision, attempt, criterion ...) are    *)
(* chosen when the call checks them: until then nothing depends on them.   *)
(***************************************************************************)
EXTENDS ExecutionItem, FiniteSets, TLC

CONSTANTS
    Proc,          \* processes that use the store
    MaxRevision,   \* bound: revisions of the item
    MaxCrashes,    \* bound: processes that stop in the middle of a call
    MaxEdits       \* bound: changes of the workspace under witness

ASSUME BoundsAssumption ==
    MaxRevision \in Nat /\ MaxCrashes \in Nat /\ MaxEdits \in Nat

VARIABLES
    root,       \* the item directory: none, live, purged, or ghost (state.json only)
    projection, \* state_revision in state.json; 0 when there is no such file
    lock,       \* the directory .mutation.lock and the owner tokens in it
    workspace,  \* what a witness of each criterion would see now
    pc,         \* where each process is in its call
    op,         \* two-lock call in progress (evidence, complete) or none
    base,       \* revision number each process read under its lock
    next,       \* revision each process is about to publish
    todo,       \* criteria still to be witnessed
    got,        \* evidence receipt witnessed outside the lock
    touched,    \* history: criteria edited since the process began to complete
    everAged,   \* history: some lock has outlived the two minutes
    crashes, edits

procVars == <<pc, op, base, next, todo, got, touched>>
vars == <<log, root, projection, lock, workspace, procVars, everAged, crashes, edits>>

Where == {"idle", "relock", "stat", "takeover", "mkdir", "owner", "undo", "inspect",
          "commit", "project", "rename", "unlock", "rmdir", "witness"}
NoLock == [present |-> FALSE, owners |-> {}, aged |-> FALSE]
FreshLock == [present |-> TRUE, owners |-> {}, aged |-> FALSE]
Visible(c) == Observation(c) \cup {"unreadable"}

RootExists == root \in {"live", "ghost"}

Goto(p, place) == pc' = [pc EXCEPT ![p] = place]

(* The call is over but for its unlock, or altogether: its variables are    *)
(* not read again.                                                          *)
Leave(p, place) ==
    /\ pc' = [pc EXCEPT ![p] = place]
    /\ op' = [op EXCEPT ![p] = "none"]
    /\ base' = [base EXCEPT ![p] = 0]
    /\ next' = [next EXCEPT ![p] = CreatedRevision]
    /\ todo' = [todo EXCEPT ![p] = {}]
    /\ got' = [got EXCEPT ![p] = NoReceipt]
    /\ touched' = [touched EXCEPT ![p] = {}]

Return(p) == Leave(p, "idle")

Step(p, place) ==
    Goto(p, place) /\ UNCHANGED <<op, base, next, todo, got, touched>>

Store == <<log, root, projection, lock, workspace>>
Counters == <<everAged, crashes, edits>>

----------------------------------------------------------------------------
(* Create: the item directory is staged aside and renamed into place.       *)

Create ==
    /\ root = "none"
    /\ root' = "live" /\ log' = <<CreatedRevision>> /\ projection' = 1
    /\ UNCHANGED <<lock, workspace, procVars, Counters>>

----------------------------------------------------------------------------
(* lock(): mkdir, then an owner token; a stale directory is renamed away.   *)

TryMkdir(p) ==
    /\ pc[p] \in {"idle", "relock"}
    /\ RootExists
    /\ \/ ~lock.present /\ lock' = FreshLock /\ Step(p, "owner")
       \/ lock.present /\ UNCHANGED lock /\ Step(p, "stat")
    /\ UNCHANGED <<log, root, projection, workspace, Counters>>

RelockFails(p) ==
    /\ pc[p] = "relock" /\ ~RootExists
    /\ Return(p) /\ UNCHANGED <<Store, Counters>>

(* Mutant: a lock is respected however old it is.                           *)
StatLockForever(p) ==
    /\ pc[p] = "stat"
    /\ Return(p)
    /\ UNCHANGED <<Store, Counters>>

(* Mutant: a fresh lock is taken over as well.                              *)
StatLockIgnoringAge(p) ==
    /\ pc[p] = "stat"
    /\ Step(p, "takeover")
    /\ UNCHANGED <<Store, Counters>>

StatLock(p) ==
    /\ pc[p] = "stat"
    /\ \/ lock.present /\ lock.aged /\ Step(p, "takeover")
       \/ ~(lock.present /\ lock.aged) /\ Return(p)
    /\ UNCHANGED <<Store, Counters>>

Takeover(p) ==
    /\ pc[p] = "takeover"
    /\ \/ lock.present /\ lock' = NoLock /\ Step(p, "mkdir")
       \/ ~lock.present /\ UNCHANGED lock /\ Return(p)
    /\ UNCHANGED <<log, root, projection, workspace, Counters>>

RetryMkdir(p) ==
    /\ pc[p] = "mkdir"
    /\ \/ RootExists /\ ~lock.present /\ lock' = FreshLock /\ Step(p, "owner")
       \/ ~(RootExists /\ ~lock.present) /\ UNCHANGED lock /\ Return(p)
    /\ UNCHANGED <<log, root, projection, workspace, Counters>>

(* The token is created in whatever directory has the path now.  Opening,   *)
(* syncing or closing it can fail; then the token and the path are removed. *)
CreateOwner(p) ==
    /\ pc[p] = "owner"
    /\ \/ /\ lock.present
          /\ lock' = [lock EXCEPT !.owners = @ \cup {p}, !.aged = FALSE]
          /\ Step(p, "inspect")
       \/ UNCHANGED lock /\ Leave(p, "undo")
    /\ UNCHANGED <<log, root, projection, workspace, Counters>>

RemoveEmptyLock == lock' = IF lock.present /\ lock.owners = {} THEN NoLock ELSE lock

UndoLock(p) ==
    /\ pc[p] = "undo"
    /\ RemoveEmptyLock /\ Return(p)
    /\ UNCHANGED <<log, root, projection, workspace, Counters>>

(* unlock(): remove the own token; only if it was there, remove the path.   *)
RemoveOwner(p) ==
    /\ pc[p] = "unlock"
    /\ IF lock.present /\ p \in lock.owners
       THEN /\ lock' = [lock EXCEPT !.owners = @ \ {p}, !.aged = FALSE]
            /\ Step(p, "rmdir")
       ELSE /\ UNCHANGED lock
            /\ IF op[p] = "none" THEN Return(p) ELSE Step(p, "witness")
    /\ UNCHANGED <<log, root, projection, workspace, Counters>>

RemoveLock(p) ==
    /\ pc[p] = "rmdir"
    /\ RemoveEmptyLock
    /\ IF op[p] = "none" THEN Return(p) ELSE Step(p, "witness")
    /\ UNCHANGED <<log, root, projection, workspace, Counters>>

----------------------------------------------------------------------------
(* The calls.  Each reads the newest revision under the lock; a refused     *)
(* input, a conflict or an unreadable item goes straight to unlock.         *)

Inspecting(p) == pc[p] = "inspect" /\ root = "live" /\ op[p] = "none"

(* The caller's expected revision is the newest one and the new revision    *)
(* passes validation.                                                       *)
Propose(p, expected, r) ==
    /\ expected = Len(log)
    /\ ValidRevision(r)
    /\ Len(log) < MaxRevision
    /\ base' = [base EXCEPT ![p] = expected]
    /\ next' = [next EXCEPT ![p] = r]
    /\ op' = [op EXCEPT ![p] = "none"]
    /\ Goto(p, "commit")
    /\ UNCHANGED <<todo, got, touched, Store, Counters>>

Refuse(p) ==
    /\ pc[p] = "inspect"
    /\ Leave(p, "unlock")
    /\ UNCHANGED <<Store, Counters>>

Start(p, e) ==
    Inspecting(p) /\ CanStart(log) /\ Propose(p, e, StartRevision(log))

Checkpoint(p, e, a) ==
    Inspecting(p) /\ CanCheckpoint(log, a) /\ Propose(p, e, CheckpointRevision(log, a))

Pause(p, e, a) ==
    Inspecting(p) /\ CanPause(log, a) /\ Propose(p, e, PauseRevision(log))

Resume(p, e) ==
    Inspecting(p) /\ CanResume(log) /\ Propose(p, e, ResumeRevision(log))

StartToolCall(p, e, a) ==
    Inspecting(p) /\ CanStartToolCall(log, a) /\ Propose(p, e, StartToolCallRevision(log))

FinishToolCall(p, e, a, k, o) ==
    /\ Inspecting(p) /\ CanFinishToolCall(log, a, k)
    /\ Propose(p, e, FinishToolCallRevision(log, k, o))

RecordYodaReview(p, e, a, reviewed, d) ==
    /\ Inspecting(p) /\ CanRecordReview(log, a, reviewed)
    /\ Propose(p, e, ReviewRevision(log, reviewed, d))

Delete(p, e) ==
    Inspecting(p) /\ CanDelete(log) /\ Propose(p, e, TombstoneRevision)

(* CollectEvidence and Complete check, release the lock, witness, and lock  *)
(* again.                                                                   *)
BeginTwoLock(p, e, name, criteria) ==
    /\ e = Len(log)
    /\ Len(log) < MaxRevision
    /\ op' = [op EXCEPT ![p] = name]
    /\ base' = [base EXCEPT ![p] = e]
    /\ todo' = [todo EXCEPT ![p] = criteria]
    /\ touched' = [touched EXCEPT ![p] = {}]
    /\ Goto(p, "unlock")
    /\ UNCHANGED <<next, got, Store, Counters>>

BeginCollectEvidence(p, e, a, c) ==
    /\ Inspecting(p) /\ CanCollectEvidence(log, a)
    /\ BeginTwoLock(p, e, "evidence", {c})

BeginComplete(p, e, a) ==
    /\ Inspecting(p) /\ CanBeginComplete(log, a)
    /\ BeginTwoLock(p, e, "complete", Criteria)

(* Mutant: an unreadable artifact is recorded like any other observation.   *)
WitnessAnything(p, c) ==
    /\ pc[p] = "witness" /\ op[p] = "evidence" /\ c \in todo[p]
    /\ got' = [got EXCEPT ![p] =
                 [kind |-> "evidence", of |-> c, outcome |-> workspace[c]]]
    /\ todo' = [todo EXCEPT ![p] = {}]
    /\ Goto(p, "relock")
    /\ UNCHANGED <<op, base, next, touched, Store, Counters>>

(* witnessCriterion for CollectEvidence.                                    *)
WitnessEvidence(p, c) ==
    /\ pc[p] = "witness" /\ op[p] = "evidence" /\ c \in todo[p]
    /\ \/ /\ workspace[c] # "unreadable"
          /\ got' = [got EXCEPT ![p] =
                       [kind |-> "evidence", of |-> c, outcome |-> workspace[c]]]
          /\ todo' = [todo EXCEPT ![p] = {}]
          /\ Goto(p, "relock")
          /\ UNCHANGED <<op, base, next, touched>>
       \/ workspace[c] = "unreadable" /\ Return(p)
    /\ UNCHANGED <<Store, Counters>>

(* Mutant: the prior receipt is trusted without looking again.              *)
StillReceipted(p, c) == LatestEvidence(log, base[p], c) \in Passing

(* One turn of the loop of Complete: the prior receipt must pass and the    *)
(* criterion must look the same now.                                        *)
StillValid(p, c) ==
    LET prior == LatestEvidence(log, base[p], c)
    IN  prior \in Passing /\ workspace[c] = prior

WitnessAgain(p, c) ==
    /\ pc[p] = "witness" /\ op[p] = "complete" /\ c \in todo[p]
    /\ \/ /\ StillValid(p, c)
          /\ todo' = [todo EXCEPT ![p] = @ \ {c}]
          /\ Goto(p, IF todo[p] = {c} THEN "relock" ELSE "witness")
          /\ UNCHANGED <<op, base, next, got, touched>>
       \/ ~StillValid(p, c) /\ Return(p)
    /\ UNCHANGED <<Store, Counters>>

(* The second lock: the revision and the attempt must not have moved.       *)
Unmoved(p, a) == Len(log) = base[p] /\ HoldsAttempt(log, a)

FinishCollectEvidence(p, a) ==
    /\ pc[p] = "inspect" /\ root = "live" /\ op[p] = "evidence"
    /\ Unmoved(p, a)
    /\ Propose(p, base[p], EvidenceRevision(log, got[p].of, got[p].outcome))

FinishComplete(p, a) ==
    /\ pc[p] = "inspect" /\ root = "live" /\ op[p] = "complete"
    /\ Unmoved(p, a)
    /\ Propose(p, base[p], CompleteRevision(log))

----------------------------------------------------------------------------
(* commitRevision.                                                          *)

Tombstone(p) == next[p].state = "cancelled"
AfterCommit(p) == IF Tombstone(p) THEN "rename" ELSE "project"

(* Mutant: the revision file is overwritten or appended without compare.    *)
CommitRevisionBlindly(p) ==
    /\ pc[p] = "commit" /\ root = "live"
    /\ log' = Append(log, next[p])
    /\ Step(p, AfterCommit(p))
    /\ UNCHANGED <<root, projection, lock, workspace, Counters>>

(* The link fails when revision base + 1 is already there or the item has   *)
(* been purged.  It can also succeed and the directory sync after it fail.  *)
CommitRevision(p) ==
    /\ pc[p] = "commit"
    /\ \/ /\ root = "live" /\ Len(log) = base[p]
          /\ log' = Append(log, next[p])
          /\ Step(p, AfterCommit(p)) \/ Leave(p, "unlock")
       \/ UNCHANGED log /\ Leave(p, "unlock")
    /\ UNCHANGED <<root, projection, lock, workspace, Counters>>

(* writeAtomicJSON creates the directories that lead to state.json.         *)
ProjectState(p) ==
    /\ pc[p] = "project"
    /\ projection' = base[p] + 1
    /\ root' = IF root = "live" THEN "live" ELSE "ghost"
    /\ Leave(p, "unlock")
    /\ UNCHANGED <<log, lock, workspace, Counters>>

ProjectionFails(p) ==
    pc[p] = "project" /\ Leave(p, "unlock") /\ UNCHANGED <<Store, Counters>>

(* Delete, after its tombstone: the directory goes to .trash, lock and all. *)
PurgeItem(p) ==
    /\ pc[p] = "rename"
    /\ \/ RootExists /\ root' = "purged" /\ projection' = 0 /\ lock' = NoLock
       \/ UNCHANGED <<root, projection, lock>>
    /\ Leave(p, "unlock")
    /\ UNCHANGED <<log, workspace, Counters>>

----------------------------------------------------------------------------
(* The environment.                                                         *)

LockAges ==
    /\ lock.present /\ ~lock.aged
    /\ lock' = [lock EXCEPT !.aged = TRUE]
    /\ everAged' = TRUE
    /\ UNCHANGED <<log, root, projection, workspace, procVars, crashes, edits>>

Crash(p) ==
    /\ pc[p] # "idle" /\ crashes < MaxCrashes
    /\ Return(p)
    /\ crashes' = crashes + 1
    /\ UNCHANGED <<Store, everAged, edits>>

Edit(c, o) ==
    /\ edits < MaxEdits /\ workspace[c] # o
    /\ workspace' = [workspace EXCEPT ![c] = o]
    /\ touched' = [p \in Proc |-> IF op[p] = "complete" \/ next[p].state = "completed"
                                  THEN touched[p] \cup {c} ELSE touched[p]]
    /\ edits' = edits + 1
    /\ UNCHANGED <<log, root, projection, lock, pc, op, base, next, todo, got,
                   everAged, crashes>>

----------------------------------------------------------------------------
Init ==
    /\ ItemInit
    /\ root = "none" /\ projection = 0 /\ lock = NoLock
    /\ workspace \in [Criteria -> Observations]
    /\ \A c \in Criteria : workspace[c] \in Observation(c)
    /\ pc = [p \in Proc |-> "idle"]
    /\ op = [p \in Proc |-> "none"]
    /\ base = [p \in Proc |-> 0]
    /\ next = [p \in Proc |-> CreatedRevision]
    /\ todo = [p \in Proc |-> {}]
    /\ got = [p \in Proc |-> NoReceipt]
    /\ touched = [p \in Proc |-> {}]
    /\ everAged = FALSE /\ crashes = 0 /\ edits = 0

Locking(p) ==
    \/ TryMkdir(p) \/ RelockFails(p) \/ StatLock(p) \/ Takeover(p) \/ RetryMkdir(p)
    \/ CreateOwner(p) \/ UndoLock(p) \/ RemoveOwner(p) \/ RemoveLock(p)

UnderLock(p, e) ==
    \/ Start(p, e) \/ Resume(p, e) \/ Delete(p, e)
    \/ \E a \in 1..e :
         \/ Checkpoint(p, e, a) \/ Pause(p, e, a) \/ StartToolCall(p, e, a)
         \/ BeginComplete(p, e, a)
         \/ \E c \in Criteria : BeginCollectEvidence(p, e, a, c)
         \/ \E k \in 1..e, o \in ToolCallOutcome : FinishToolCall(p, e, a, k, o)
         \/ \E n \in 1..e, d \in ReviewDecision : RecordYodaReview(p, e, a, n, d)

Calling(p) ==
    \/ Refuse(p)
    \/ /\ pc[p] = "inspect"
       /\ \/ \E e \in 1..MaxRevision : UnderLock(p, e)
          \/ \E a \in 1..Len(log) : FinishCollectEvidence(p, a) \/ FinishComplete(p, a)
    \/ \E c \in Criteria : WitnessEvidence(p, c) \/ WitnessAgain(p, c)

Publishing(p) ==
    CommitRevision(p) \/ ProjectState(p) \/ ProjectionFails(p) \/ PurgeItem(p)

Next ==
    \/ Create
    \/ \E p \in Proc : Locking(p) \/ Calling(p) \/ Publishing(p) \/ Crash(p)
    \/ LockAges
    \/ \E c \in Criteria : \E o \in Visible(c) : Edit(c, o)

Spec == Init /\ [][Next]_vars

(* A process that is in a call keeps running unless it crashes, a client    *)
(* whose call ended calls again, and time passes for a lock nobody touches. *)
Fairness ==
    /\ \A p \in Proc : WF_vars(Locking(p) \/ Calling(p) \/ Publishing(p))
    /\ WF_vars(LockAges)
FairSpec == Spec /\ Fairness

----------------------------------------------------------------------------
(* Properties.                                                              *)

(* TypeOK: every variable has its type; in particular only well-formed      *)
(* revisions are ever published (validateRevision).                         *)
TypeOK ==
    /\ log \in Seq(Revision)
    /\ root \in {"none", "live", "purged", "ghost"}
    /\ projection \in Nat
    /\ lock \in [present : BOOLEAN, owners : SUBSET Proc, aged : BOOLEAN]
    /\ workspace \in [Criteria -> Observations \cup {"unreadable"}]
    /\ pc \in [Proc -> Where]
    /\ op \in [Proc -> {"none", "evidence", "complete"}]
    /\ base \in [Proc -> Nat]
    /\ next \in [Proc -> Revision]
    /\ todo \in [Proc -> SUBSET Criteria]
    /\ got \in [Proc -> Receipt]
    /\ touched \in [Proc -> SUBSET Criteria]
    /\ everAged \in BOOLEAN /\ crashes \in 0..MaxCrashes /\ edits \in 0..MaxEdits

(* ExclusionUnlessAged: as long as no lock has outlived the two minutes, at *)
(* most one process at a time is between lock() and unlock() (lock).        *)
InCriticalSection == {p \in Proc :
    pc[p] \in {"inspect", "commit", "project", "rename", "unlock"}}
ExclusionUnlessAged ==
    ~everAged => \A p, q \in InCriticalSection : p = q

(* ProjectionNotAhead: state.json never shows a revision that has not been  *)
(* published (commitRevision writes the revision first).                    *)
ProjectionNotAhead ==
    /\ projection <= Len(log)
    /\ \A p \in Proc : pc[p] = "project" =>
         base[p] < Len(log) /\ log[base[p] + 1] = next[p]

(* PurgeOnlyTombstoned: an item directory that is gone, or about to go, was *)
(* tombstoned first, so no process can still publish to it (Delete).        *)
PurgeOnlyTombstoned ==
    /\ root \in {"purged", "ghost"} => Latest(log).state = "cancelled"
    /\ \A p \in Proc : pc[p] = "rename" => Latest(log).state = "cancelled"

(* LockedWrites: the three together, for processes that are suspended       *)
(* between any two file operations and take over each other's aged locks.   *)
LockedWrites == ExclusionUnlessAged /\ ProjectionNotAhead /\ PurgeOnlyTombstoned

(* CompletionFresh: when the completing revision is published, every        *)
(* criterion that nobody edited since Complete began still looks as its     *)
(* passing receipt says (the second witness of Complete).  An edit after    *)
(* the witness is not noticed.                                              *)
Completing(p) ==
    pc[p] = "commit" /\ next[p].state = "completed" /\ log' # log /\ pc'[p] # "commit"
CompletionFresh ==
    [][\A p \in Proc : Completing(p) =>
         \A c \in Criteria \ touched[p] :
            workspace[c] = LatestEvidence(log, Len(log), c)]_vars

(* LockFreed: a lock never stays for good, even when its owner stopped      *)
(* between mkdir and unlock (the takeover in lock()).                       *)
LockFreed == lock.present ~> ~lock.present

(* What a process knows while nobody has published since it read revision   *)
(* base: the revision it holds is a successor of the history, its Complete  *)
(* call passed the gate, and the criteria it has witnessed have a passing   *)
(* receipt.                                                                 *)
Witnessing == {"unlock", "rmdir", "witness"}

ProposalStands(p) ==
    pc[p] = "commit" /\ base[p] = Len(log) => Successor(log, next[p])

CompletionStands(p) ==
    op[p] = "complete" /\ base[p] = Len(log) =>
        /\ \E a \in 1..Len(log) : CanBeginComplete(log, a)
        /\ \A c \in Criteria \ todo[p] : LatestEvidence(log, Len(log), c) \in Passing

WitnessStands(p) ==
    op[p] # "none" /\ pc[p] \notin Witnessing =>
        /\ todo[p] = {}
        /\ op[p] = "evidence" => /\ got[p].of \in Criteria
                                /\ got[p].outcome \in Observation(got[p].of)

ProcInv(p) ==
    /\ root = "none" => pc[p] = "idle"
    /\ pc[p] = "idle" => op[p] = "none"
    /\ base[p] <= Len(log)
    /\ ProposalStands(p) /\ CompletionStands(p) /\ WitnessStands(p)

(* LedgerInv: the inductive invariant behind the refinement.                *)
LedgerInv ==
    /\ root = "none" <=> log = << >>
    /\ \A c \in Criteria : workspace[c] \in Visible(c)
    /\ \A p \in Proc : ProcInv(p)

(* DeletedStaysDeleted: store_test.go requires of a purged item that it is  *)
(* never there again ("deleted item was recreated").                        *)
DeletedStaysDeleted == root # "ghost"

(* The processes are interchangeable for TLC: no definition singles one out.*)
Symmetry == Permutations(Proc)
=============================================================================
