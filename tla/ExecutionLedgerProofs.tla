------------------------ MODULE ExecutionLedgerProofs ------------------------
(***************************************************************************)
(* Proofs about the execution ledger, for any number of processes and any  *)
(* bounds: every revision that is published is the result of one whole     *)
(* operation on the history before it, although locks can be taken over    *)
(* from processes that still run; and what readers are told, who hold no   *)
(* lock, is accounted for.                                                 *)
(***************************************************************************)
EXTENDS ExecutionLedger, LedgerReaders, WellFoundedInduction, TLAPS

----------------------------------------------------------------------------
(* The revisions an operation writes are well formed.                       *)

\* The latest revision of a log that has one is a revision.
LEMMA LatestType ==
    ASSUME NEW l \in Seq(Revision), l # << >>
    PROVE  /\ Latest(l) \in Revision
           /\ Len(l) \in Nat \ {0}
BY DEF Latest

\* Receipts of tool calls, reviews and evidence are receipts.
LEMMA ReceiptTypes ==
    /\ NoReceipt \in Receipt
    /\ \A k \in Nat : \A o \in {"started"} \cup ToolCallOutcome :
         [kind |-> "tool", of |-> k, outcome |-> o] \in Receipt
    /\ \A n \in Nat : \A d \in ReviewDecision :
         [kind |-> "yoda", of |-> n, outcome |-> d] \in Receipt
    /\ \A c \in Criteria : \A o \in Observations :
         [kind |-> "evidence", of |-> c, outcome |-> o] \in Receipt
BY DEF Receipt, EvidenceReceipt, ToolCallReceipt, YodaReviewReceipt, NoReceipt

\* The first revision of an item, and the one of its tombstone, are revisions.
LEMMA CreatedType == CreatedRevision \in Revision /\ TombstoneRevision \in Revision
BY ReceiptTypes DEF Revision, CreatedRevision, TombstoneRevision, ItemState, AttemptState

\* Every operation makes a revision of the latest one.
LEMMA RevisionTypes ==
    ASSUME NEW l \in Seq(Revision), l # << >>
    PROVE  /\ StartRevision(l) \in Revision
           /\ ResumeRevision(l) \in Revision
           /\ PauseRevision(l) \in Revision
           /\ CompleteRevision(l) \in Revision
           /\ \A a \in Nat : CheckpointRevision(l, a) \in Revision
           /\ \A kind, of, outcome :
                [kind |-> kind, of |-> of, outcome |-> outcome] \in Receipt
                  => WithReceipt(l, kind, of, outcome) \in Revision
<1>1. Latest(l) \in Revision /\ Len(l) + 1 \in Nat
    BY LatestType
<1>2. NoReceipt \in Receipt
    BY ReceiptTypes
<1> QED
    BY <1>1, <1>2 DEF Revision, StartRevision, ResumeRevision, PauseRevision,
        CompleteRevision, CheckpointRevision, WithReceipt, ItemState, AttemptState

----------------------------------------------------------------------------
(* The invariant is inductive.  Most steps leave the history and the        *)
(* workspace alone and either move one process or end its call.             *)

ProcTypes ==
    /\ pc \in [Proc -> Where]
    /\ op \in [Proc -> {"none", "evidence", "complete"}]
    /\ base \in [Proc -> Nat]
    /\ next \in [Proc -> Revision]
    /\ todo \in [Proc -> SUBSET Criteria]
    /\ got \in [Proc -> Receipt]
    /\ touched \in [Proc -> SUBSET Criteria]

StoreTypes ==
    /\ log \in Seq(Revision)
    /\ root \in {"none", "live", "purged", "ghost"}
    /\ projection \in Nat
    /\ lock \in [present : BOOLEAN, owners : SUBSET Proc, aged : BOOLEAN]
    /\ workspace \in [Criteria -> Observations \cup {"unreadable"}]

CounterTypes ==
    everAged \in BOOLEAN /\ crashes \in 0..MaxCrashes /\ edits \in 0..MaxEdits

\* A lock directory, gone or just made, is of the type of the lock.
LEMMA LockTypes ==
    /\ NoLock \in [present : BOOLEAN, owners : SUBSET Proc, aged : BOOLEAN]
    /\ FreshLock \in [present : BOOLEAN, owners : SUBSET Proc, aged : BOOLEAN]
<1>1. NoLock \in [present : BOOLEAN, owners : SUBSET Proc, aged : BOOLEAN]
    BY DEF NoLock
<1>2. FreshLock \in [present : BOOLEAN, owners : SUBSET Proc, aged : BOOLEAN]
    BY DEF FreshLock
<1> QED BY <1>1, <1>2

\* The type invariant by its parts: the files, the processes, the counters.
LEMMA TypeParts ==
    /\ TypeOK <=> StoreTypes /\ ProcTypes /\ CounterTypes
    /\ TypeOK' <=> StoreTypes' /\ ProcTypes' /\ CounterTypes'
BY DEF TypeOK, StoreTypes, ProcTypes, CounterTypes

\* A process that goes to the next place of its call keeps the types.
LEMMA StepTypes ==
    ASSUME ProcTypes, NEW p \in Proc, NEW place \in Where, Step(p, place)
    PROVE  ProcTypes'
BY DEF ProcTypes, Step, Goto

\* So does one that drops what it holds.
LEMMA LeaveTypes ==
    ASSUME ProcTypes, NEW p \in Proc, NEW place \in Where, Leave(p, place)
    PROVE  ProcTypes'
BY CreatedType, ReceiptTypes DEF ProcTypes, Leave

\* A process that goes on without writing keeps the invariant.
LEMMA StepPreserves ==
    ASSUME ProcTypes, LedgerInv, NEW p \in Proc, NEW place \in Where \ {"idle", "commit"},
           Step(p, place), UNCHANGED <<log, workspace>>,
           root # "none", root' # "none",
           pc[p] \in Witnessing /\ op[p] # "none" => place \in Witnessing
    PROVE  LedgerInv'
<1>1. /\ pc' = [pc EXCEPT ![p] = place]
      /\ UNCHANGED <<log, workspace, op, base, next, todo, got>>
    BY DEF Step, Goto
<1>2. ASSUME NEW q \in Proc
      PROVE  ProcInv(q)'
    <2>1. CASE q = p
        BY <1>1, <2>1 DEF ProcTypes, LedgerInv, ProcInv, ProposalStands,
            CompletionStands, WitnessStands
    <2>2. CASE q # p
        BY <1>1, <2>2 DEF ProcTypes, LedgerInv, ProcInv, ProposalStands,
            CompletionStands, WitnessStands
    <2> QED BY <2>1, <2>2
<1> QED
    BY <1>1, <1>2 DEF LedgerInv

\* So does one that leaves its call.
LEMMA LeavePreserves ==
    ASSUME ProcTypes, StoreTypes, LedgerInv, NEW p \in Proc,
           NEW place \in {"idle", "undo", "unlock"}, Leave(p, place),
           UNCHANGED <<log, workspace>>, root = "none" <=> root' = "none",
           root = "none" => place = "idle"
    PROVE  LedgerInv'
<1>1. ASSUME NEW q \in Proc
      PROVE  ProcInv(q)'
    <2>1. CASE q = p
        BY <2>1 DEF ProcTypes, StoreTypes, Leave, LedgerInv, ProcInv, ProposalStands,
            CompletionStands, WitnessStands
    <2>2. CASE q # p
        BY <2>2 DEF ProcTypes, Leave, LedgerInv, ProcInv, ProposalStands,
            CompletionStands, WitnessStands
    <2> QED BY <2>1, <2>2
<1> QED
    BY <1>1 DEF LedgerInv

\* So does one that returns.
LEMMA ReturnKeeps ==
    ASSUME ProcTypes, StoreTypes, LedgerInv, NEW p \in Proc, Return(p),
           UNCHANGED <<log, workspace, root>>
    PROVE  ProcTypes' /\ LedgerInv'
BY LeaveTypes, LeavePreserves DEF Return, Where

\* A process that proposes a successor of the log it has just read keeps it.
LEMMA ProposePreserves ==
    ASSUME TypeOK, LedgerInv, NEW p \in Proc, NEW e, NEW r \in Revision,
           pc[p] = "inspect", root = "live", Propose(p, e, r), Successor(log, r)
    PROVE  TypeOK' /\ LedgerInv'
<1>1. /\ e = Len(log) /\ e \in Nat
      /\ pc' = [pc EXCEPT ![p] = "commit"]
      /\ op' = [op EXCEPT ![p] = "none"]
      /\ base' = [base EXCEPT ![p] = e]
      /\ next' = [next EXCEPT ![p] = r]
      /\ UNCHANGED <<log, root, projection, lock, workspace, todo, got, touched,
                     everAged, crashes, edits>>
    BY DEF Propose, Goto, Store, Counters, TypeOK
<1>2. TypeOK'
    BY <1>1 DEF TypeOK, Where
<1>3. ASSUME NEW q \in Proc
      PROVE  ProcInv(q)'
    <2>1. CASE q = p
        BY <1>1, <2>1 DEF TypeOK, LedgerInv, ProcInv, ProposalStands,
            CompletionStands, WitnessStands
    <2>2. CASE q # p
        BY <1>1, <2>2 DEF TypeOK, LedgerInv, ProcInv, ProposalStands,
            CompletionStands, WitnessStands
    <2> QED BY <2>1, <2>2
<1> QED
    BY <1>1, <1>2, <1>3 DEF LedgerInv

\* So does the first half of RecordEvidence and CompleteItem.
LEMMA BeginPreserves ==
    ASSUME TypeOK, LedgerInv, NEW p \in Proc, NEW e, NEW name \in {"evidence", "complete"},
           NEW criteria \in SUBSET Criteria,
           pc[p] = "inspect", root = "live", BeginTwoLock(p, e, name, criteria),
           name = "complete" =>
             /\ criteria = Criteria
             /\ \E a \in 1..Len(log) : CanBeginComplete(log, a)
    PROVE  TypeOK' /\ LedgerInv'
<1>1. /\ e = Len(log) /\ e \in Nat
      /\ pc' = [pc EXCEPT ![p] = "unlock"]
      /\ op' = [op EXCEPT ![p] = name]
      /\ base' = [base EXCEPT ![p] = e]
      /\ todo' = [todo EXCEPT ![p] = criteria]
      /\ touched' = [touched EXCEPT ![p] = {}]
      /\ UNCHANGED <<log, root, projection, lock, workspace, next, got,
                     everAged, crashes, edits>>
    BY DEF BeginTwoLock, Goto, Store, Counters, TypeOK
<1>2. TypeOK'
    BY <1>1 DEF TypeOK, Where
<1>3. ASSUME NEW q \in Proc
      PROVE  ProcInv(q)'
    <2>1. CASE q = p
        BY <1>1, <2>1 DEF TypeOK, LedgerInv, ProcInv, ProposalStands,
            CompletionStands, WitnessStands, Witnessing
    <2>2. CASE q # p
        BY <1>1, <2>2 DEF TypeOK, LedgerInv, ProcInv, ProposalStands,
            CompletionStands, WitnessStands
    <2> QED BY <2>1, <2>2
<1> QED
    BY <1>1, <1>2, <1>3 DEF LedgerInv

(* Every call that passes its checks proposes a successor of the history.   *)
LEMMA UnderLockPreserves ==
    ASSUME TypeOK, LedgerInv, NEW p \in Proc, NEW e \in 1..MaxRevision,
           pc[p] = "inspect", UnderLock(p, e)
    PROVE  TypeOK' /\ LedgerInv'
<1>0. root = "live" /\ log \in Seq(Revision) /\ log # << >>
    BY DEF UnderLock, Start, Resume, Delete, Checkpoint, Pause, StartToolCall,
        BeginComplete, BeginCollectEvidence, FinishToolCall, RecordYodaReview,
        Inspecting, TypeOK, LedgerInv
<1>1. CASE Start(p, e)
    <2>1. StartRevision(log) \in Revision
        BY <1>0, RevisionTypes
    <2>2. Successor(log, StartRevision(log))
        BY <1>1 DEF Start, Propose, Successor
    <2> QED BY <1>0, <1>1, <2>1, <2>2, ProposePreserves DEF Start
<1>2. CASE Resume(p, e)
    <2>1. ResumeRevision(log) \in Revision
        BY <1>0, RevisionTypes
    <2>2. Successor(log, ResumeRevision(log))
        BY <1>2 DEF Resume, Propose, Successor
    <2> QED BY <1>0, <1>2, <2>1, <2>2, ProposePreserves DEF Resume
<1>3. CASE Delete(p, e)
    <2>1. TombstoneRevision \in Revision
        BY CreatedType
    <2>2. Successor(log, TombstoneRevision)
        BY <1>3 DEF Delete, Propose, Successor
    <2> QED BY <1>0, <1>3, <2>1, <2>2, ProposePreserves DEF Delete
<1>4. ASSUME NEW a \in 1..e, Checkpoint(p, e, a)
      PROVE  TypeOK' /\ LedgerInv'
    <2>0. a \in 1..Len(log) /\ a \in Nat
        BY <1>0, <1>4 DEF Checkpoint, Propose
    <2>1. CheckpointRevision(log, a) \in Revision
        BY <1>0, <2>0, RevisionTypes
    <2>2. Successor(log, CheckpointRevision(log, a))
        BY <1>4, <2>0 DEF Checkpoint, Propose, Successor
    <2> QED BY <1>0, <1>4, <2>1, <2>2, ProposePreserves DEF Checkpoint
<1>5. ASSUME NEW a \in 1..e, Pause(p, e, a)
      PROVE  TypeOK' /\ LedgerInv'
    <2>0. a \in 1..Len(log)
        BY <1>0, <1>5 DEF Pause, Propose
    <2>1. PauseRevision(log) \in Revision
        BY <1>0, RevisionTypes
    <2>2. Successor(log, PauseRevision(log))
        BY <1>5, <2>0 DEF Pause, Propose, Successor
    <2> QED BY <1>0, <1>5, <2>1, <2>2, ProposePreserves DEF Pause
<1>6. ASSUME NEW a \in 1..e, StartToolCall(p, e, a)
      PROVE  TypeOK' /\ LedgerInv'
    <2>0. a \in 1..Len(log)
        BY <1>0, <1>6 DEF StartToolCall, Propose
    <2>1. StartToolCallRevision(log) \in Revision
        <3>1. Len(log) + 1 \in Nat
            BY <1>0, LatestType
        <3>2. [kind |-> "tool", of |-> Len(log) + 1, outcome |-> "started"] \in Receipt
            BY <3>1, ReceiptTypes
        <3> QED BY <1>0, <3>2, RevisionTypes DEF StartToolCallRevision
    <2>2. Successor(log, StartToolCallRevision(log))
        BY <1>6, <2>0 DEF StartToolCall, Propose, Successor
    <2> QED BY <1>0, <1>6, <2>1, <2>2, ProposePreserves DEF StartToolCall
<1>7. ASSUME NEW a \in 1..e, BeginComplete(p, e, a)
      PROVE  TypeOK' /\ LedgerInv'
    <2>0. a \in 1..Len(log) /\ CanBeginComplete(log, a)
        BY <1>0, <1>7 DEF BeginComplete, BeginTwoLock
    <2> QED BY <1>0, <1>7, <2>0, BeginPreserves DEF BeginComplete
<1>8. ASSUME NEW a \in 1..e, NEW c \in Criteria, BeginCollectEvidence(p, e, a, c)
      PROVE  TypeOK' /\ LedgerInv'
    BY <1>0, <1>8, BeginPreserves DEF BeginCollectEvidence
<1>9. ASSUME NEW a \in 1..e, NEW k \in 1..e, NEW o \in ToolCallOutcome,
             FinishToolCall(p, e, a, k, o)
      PROVE  TypeOK' /\ LedgerInv'
    <2>0. a \in 1..Len(log) /\ k \in 1..Len(log) /\ k \in Nat
        BY <1>0, <1>9 DEF FinishToolCall, Propose
    <2>1. FinishToolCallRevision(log, k, o) \in Revision
        BY <1>0, <2>0, RevisionTypes, ReceiptTypes DEF FinishToolCallRevision
    <2>2. Successor(log, FinishToolCallRevision(log, k, o))
        BY <1>9, <2>0 DEF FinishToolCall, Propose, Successor
    <2> QED BY <1>0, <1>9, <2>1, <2>2, ProposePreserves DEF FinishToolCall
<1>10. ASSUME NEW a \in 1..e, NEW n \in 1..e, NEW d \in ReviewDecision,
              RecordYodaReview(p, e, a, n, d)
       PROVE  TypeOK' /\ LedgerInv'
    <2>0. a \in 1..Len(log) /\ n \in 1..Len(log) /\ n \in Nat
        BY <1>0, <1>10 DEF RecordYodaReview, Propose
    <2>1. ReviewRevision(log, n, d) \in Revision
        BY <1>0, <2>0, RevisionTypes, ReceiptTypes DEF ReviewRevision
    <2>2. Successor(log, ReviewRevision(log, n, d))
        BY <1>10, <2>0 DEF RecordYodaReview, Propose, Successor
    <2> QED BY <1>0, <1>10, <2>1, <2>2, ProposePreserves DEF RecordYodaReview
<1> QED
    BY <1>1, <1>2, <1>3, <1>4, <1>5, <1>6, <1>7, <1>8, <1>9, <1>10 DEF UnderLock

(* The second half of CollectEvidence and Complete.                         *)
LEMMA FinishPreserves ==
    ASSUME TypeOK, LedgerInv, NEW p \in Proc, NEW a \in 1..Len(log),
           FinishCollectEvidence(p, a) \/ FinishComplete(p, a)
    PROVE  TypeOK' /\ LedgerInv'
<1>0. /\ pc[p] = "inspect" /\ root = "live" /\ log \in Seq(Revision) /\ log # << >>
      /\ base[p] = Len(log) /\ HoldsAttempt(log, a) /\ a \in Nat \ {0}
    BY DEF FinishCollectEvidence, FinishComplete, Unmoved, TypeOK, LedgerInv
<1>1. CASE FinishCollectEvidence(p, a)
    <2> DEFINE c == got[p].of
               o == got[p].outcome
               r == EvidenceRevision(log, c, o)
    <2>1. op[p] = "evidence" /\ ValidRevision(r) /\ Propose(p, base[p], r)
        BY <1>1 DEF FinishCollectEvidence, Propose
    <2>2. c \in Criteria /\ o \in Observation(c)
        BY <1>0, <2>1 DEF LedgerInv, ProcInv, WitnessStands, Witnessing
    <2>3. r \in Revision
        <3>1. o \in Observations
            BY <2>2 DEF Observation, Observations
        <3>2. [kind |-> "evidence", of |-> c, outcome |-> o] \in Receipt
            BY <2>2, <3>1, ReceiptTypes
        <3> QED BY <1>0, <3>2, RevisionTypes DEF EvidenceRevision
    <2>4. HoldsActiveAttempt(log, a)
        <3>1. Latest(log) \in Revision
            BY <1>0, LatestType
        <3>2. /\ r.state = Latest(log).state /\ r.attempt = Latest(log).attempt
              /\ r.mode = Latest(log).mode
            BY <3>1 DEF EvidenceRevision, WithReceipt, Revision
        <3> QED BY <1>0, <2>1, <3>2 DEF ValidRevision, HoldsAttempt, HoldsActiveAttempt
    <2>5. Successor(log, r)
        BY <2>1, <2>2, <2>4 DEF Successor, CanCollectEvidence
    <2> QED BY <1>0, <2>1, <2>3, <2>5, ProposePreserves
<1>2. CASE FinishComplete(p, a)
    <2>1. /\ op[p] = "complete" /\ ValidRevision(CompleteRevision(log))
          /\ Propose(p, base[p], CompleteRevision(log))
        BY <1>2 DEF FinishComplete, Propose
    <2>2. todo[p] = {}
        BY <1>0, <2>1 DEF LedgerInv, ProcInv, WitnessStands, Witnessing
    <2>3. PICK b \in 1..Len(log) : CanBeginComplete(log, b)
        BY <1>0, <2>1 DEF LedgerInv, ProcInv, CompletionStands
    <2>4. \A c \in Criteria : LatestEvidence(log, Len(log), c) \in Passing
        BY <1>0, <2>1, <2>2 DEF LedgerInv, ProcInv, CompletionStands
    <2>5. CanComplete(log, b)
        BY <2>3, <2>4 DEF CanComplete
    <2>6. Successor(log, CompleteRevision(log))
        BY <2>1, <2>5 DEF Successor
    <2>7. CompleteRevision(log) \in Revision
        BY <1>0, RevisionTypes
    <2> QED BY <1>0, <2>1, <2>6, <2>7, ProposePreserves
<1> QED BY <1>1, <1>2

\* Taking, breaking and releasing the lock keep the invariant.
LEMMA LockingPreserves ==
    ASSUME TypeOK, LedgerInv, NEW p \in Proc, Locking(p)
    PROVE  TypeOK' /\ LedgerInv'
<1>0. StoreTypes /\ ProcTypes /\ CounterTypes
    BY TypeParts
<1>1. UNCHANGED <<log, root, projection, workspace, everAged, crashes, edits>>
    BY DEF Locking, TryMkdir, RelockFails, StatLock, Takeover, RetryMkdir, CreateOwner,
        UndoLock, RemoveOwner, RemoveLock, Store, Counters
<1>2. lock' \in [present : BOOLEAN, owners : SUBSET Proc, aged : BOOLEAN]
    <2>1. \/ lock' \in {lock, NoLock, FreshLock}
          \/ lock' = [lock EXCEPT !.owners = @ \cup {p}, !.aged = FALSE]
          \/ lock' = [lock EXCEPT !.owners = @ \ {p}, !.aged = FALSE]
        BY DEF Locking, TryMkdir, RelockFails, StatLock, Takeover, RetryMkdir, CreateOwner,
            UndoLock, RemoveOwner, RemoveLock, RemoveEmptyLock, Store
    <2>2. lock \in [present : BOOLEAN, owners : SUBSET Proc, aged : BOOLEAN]
        BY <1>0 DEF StoreTypes
    <2>3. CASE lock' \in {lock, NoLock, FreshLock}
        BY <2>2, <2>3, LockTypes
    <2>4. CASE lock' = [lock EXCEPT !.owners = @ \cup {p}, !.aged = FALSE]
        <3>1. lock.owners \cup {p} \in SUBSET Proc
            BY <2>2
        <3> QED BY <2>2, <2>4, <3>1
    <2>5. CASE lock' = [lock EXCEPT !.owners = @ \ {p}, !.aged = FALSE]
        <3>1. lock.owners \ {p} \in SUBSET Proc
            BY <2>2
        <3> QED BY <2>2, <2>5, <3>1
    <2> QED BY <2>1, <2>3, <2>4, <2>5
<1>3. StoreTypes' /\ CounterTypes'
    BY <1>0, <1>1, <1>2 DEF StoreTypes, CounterTypes
<1>4. \/ Return(p)
      \/ Leave(p, "undo") /\ root # "none"
      \/ /\ root # "none"
         /\ \E place \in Where \ {"idle", "commit"} :
              /\ Step(p, place)
              /\ pc[p] \in Witnessing /\ op[p] # "none" => place \in Witnessing
    BY DEF Locking, TryMkdir, RelockFails, StatLock, Takeover, RetryMkdir, CreateOwner,
        UndoLock, RemoveOwner, RemoveLock, RootExists, Where, Witnessing, LedgerInv, ProcInv
<1>5. CASE Return(p)
    BY <1>0, <1>1, <1>3, <1>5, ReturnKeeps, TypeParts
<1>6. CASE Leave(p, "undo") /\ root # "none"
    <2>1. ProcTypes' /\ LedgerInv'
        BY <1>0, <1>1, <1>6, LeaveTypes, LeavePreserves DEF Where
    <2> QED BY <1>3, <2>1, TypeParts
<1>7. ASSUME NEW place \in Where \ {"idle", "commit"}, Step(p, place), root # "none",
             pc[p] \in Witnessing /\ op[p] # "none" => place \in Witnessing
      PROVE  TypeOK' /\ LedgerInv'
    <2>1. LedgerInv'
        BY <1>0, <1>1, <1>7, StepPreserves
    <2>2. ProcTypes'
        BY <1>0, <1>7, StepTypes
    <2> QED BY <1>3, <2>1, <2>2, TypeParts
<1> QED BY <1>4, <1>5, <1>6, <1>7

\* Reading the workspace, in the first or the second pass, keeps the invariant.
LEMMA WitnessPreserves ==
    ASSUME TypeOK, LedgerInv, NEW p \in Proc, NEW c \in Criteria,
           WitnessEvidence(p, c) \/ WitnessAgain(p, c)
    PROVE  TypeOK' /\ LedgerInv'
<1>0. /\ StoreTypes /\ ProcTypes /\ CounterTypes
      /\ UNCHANGED <<log, root, projection, lock, workspace, everAged, crashes, edits>>
      /\ pc[p] = "witness" /\ c \in todo[p] /\ root # "none"
    BY TypeParts DEF WitnessEvidence, WitnessAgain, Store, Counters, LedgerInv, ProcInv
<1>1. StoreTypes' /\ CounterTypes'
    BY <1>0 DEF StoreTypes, CounterTypes
<1>2. CASE Return(p)
    BY <1>0, <1>1, <1>2, ReturnKeeps, TypeParts
<1>3. CASE WitnessEvidence(p, c) /\ ~Return(p)
    <2> DEFINE receipt == [kind |-> "evidence", of |-> c, outcome |-> workspace[c]]
    <2>1. /\ op[p] = "evidence"
          /\ pc' = [pc EXCEPT ![p] = "relock"]
          /\ got' = [got EXCEPT ![p] = receipt]
          /\ todo' = [todo EXCEPT ![p] = {}]
          /\ UNCHANGED <<op, base, next, touched>>
          /\ workspace[c] # "unreadable"
        BY <1>3 DEF WitnessEvidence, Goto
    <2>2. workspace[c] \in Observation(c)
        BY <2>1 DEF LedgerInv, Visible
    <2>3. receipt \in Receipt
        BY <2>2, ReceiptTypes DEF Observation, Observations
    <2>4. ProcTypes'
        BY <1>0, <2>1, <2>3 DEF ProcTypes, Where
    <2>5. receipt.of = c /\ receipt.outcome = workspace[c]
        OBVIOUS
    <2>6. ASSUME NEW q \in Proc
          PROVE  ProcInv(q)'
        <3>1. CASE q = p
            BY <1>0, <2>1, <2>2, <2>5, <3>1 DEF ProcTypes, LedgerInv, ProcInv, ProposalStands,
                CompletionStands, WitnessStands
        <3>2. CASE q # p
            BY <1>0, <2>1, <3>2 DEF ProcTypes, LedgerInv, ProcInv, ProposalStands,
                CompletionStands, WitnessStands
        <3> QED BY <3>1, <3>2
    <2> QED BY <1>0, <1>1, <2>4, <2>6, TypeParts DEF LedgerInv
<1>4. CASE WitnessAgain(p, c) /\ ~Return(p)
    <2>1. /\ op[p] = "complete"
          /\ pc' = [pc EXCEPT ![p] = IF todo[p] = {c} THEN "relock" ELSE "witness"]
          /\ todo' = [todo EXCEPT ![p] = todo[p] \ {c}]
          /\ UNCHANGED <<op, base, next, got, touched>>
          /\ LatestEvidence(log, base[p], c) \in Passing
        BY <1>4 DEF WitnessAgain, Goto, StillValid
    <2>2. ProcTypes'
        BY <1>0, <2>1 DEF ProcTypes, Where
    <2>3. ASSUME NEW q \in Proc
          PROVE  ProcInv(q)'
        <3>1. CASE q = p
            BY <1>0, <2>1, <3>1 DEF ProcTypes, LedgerInv, ProcInv, ProposalStands,
                CompletionStands, WitnessStands, Witnessing
        <3>2. CASE q # p
            BY <1>0, <2>1, <3>2 DEF ProcTypes, LedgerInv, ProcInv, ProposalStands,
                CompletionStands, WitnessStands
        <3> QED BY <3>1, <3>2
    <2> QED BY <1>0, <1>1, <2>2, <2>3, TypeParts DEF LedgerInv
<1> QED BY <1>2, <1>3, <1>4

(* Publishing a revision makes every other pending proposal stale.          *)
LEMMA CommitPreserves ==
    ASSUME TypeOK, LedgerInv, NEW p \in Proc, CommitRevision(p)
    PROVE  /\ TypeOK' /\ LedgerInv'
           /\ log' # log => log # << >> /\ Successor(log, next[p]) /\ log' = Append(log, next[p])
<1>0. /\ StoreTypes /\ ProcTypes /\ CounterTypes
      /\ UNCHANGED <<root, projection, lock, workspace, everAged, crashes, edits>>
      /\ pc[p] = "commit" /\ root # "none"
    BY TypeParts DEF CommitRevision, Counters, LedgerInv, ProcInv
<1>1. Leave(p, "unlock") \/ Step(p, "project") \/ Step(p, "rename")
    BY DEF CommitRevision, AfterCommit
<1>2. ProcTypes'
    BY <1>0, <1>1, StepTypes, LeaveTypes DEF Where
<1>3. CASE log' = log
    <2>1. LedgerInv'
        BY <1>0, <1>1, <1>3, StepPreserves, LeavePreserves DEF Where, Witnessing
    <2> QED BY <1>0, <1>2, <1>3, <2>1, TypeParts DEF StoreTypes, CounterTypes
<1>4. CASE log' # log
    <2>1. root = "live" /\ Len(log) = base[p] /\ log' = Append(log, next[p])
        BY <1>4 DEF CommitRevision
    <2>2. log # << >> /\ Successor(log, next[p])
        BY <1>0, <2>1 DEF LedgerInv, ProcInv, ProposalStands
    <2>3. log' \in Seq(Revision) /\ Len(log') = Len(log) + 1 /\ log' # << >> /\ Len(log) \in Nat
        <3>1. log \in Seq(Revision) /\ next[p] \in Revision
            BY <1>0 DEF StoreTypes, ProcTypes
        <3>2. Len(log) \in Nat
            BY <3>1
        <3>3. log' \in Seq(Revision) /\ Len(log') = Len(log) + 1
            BY <2>1, <3>1
        <3> QED BY <3>2, <3>3
    <2>4. /\ \E place \in {"unlock", "project", "rename"} : pc' = [pc EXCEPT ![p] = place]
          /\ base' = base \/ base' = [base EXCEPT ![p] = 0]
          /\ \/ op' = [op EXCEPT ![p] = "none"] /\ \A q \in Proc \ {p} :
                    todo'[q] = todo[q] /\ got'[q] = got[q]
             \/ UNCHANGED <<op, todo, got>>
        BY <1>0, <1>1 DEF Step, Goto, Leave, ProcTypes
    <2>5. ASSUME NEW q \in Proc
          PROVE  ProcInv(q)'
        <3>1. base[q] \in Nat /\ base[q] <= Len(log)
            BY <1>0 DEF ProcTypes, LedgerInv, ProcInv
        <3>2. base'[q] <= Len(log') /\ base'[q] # Len(log')
            BY <1>0, <2>3, <2>4, <3>1 DEF ProcTypes
        <3>3. CompletionStands(q)' /\ ProposalStands(q)'
            BY <3>2 DEF ProposalStands, CompletionStands
        <3>4. pc[p] \notin Witnessing
            BY <1>0 DEF Witnessing
        <3>5. WitnessStands(q)'
            BY <1>0, <2>4, <3>4 DEF ProcTypes, LedgerInv, ProcInv, WitnessStands
        <3>6. pc'[q] = "idle" => op'[q] = "none"
            BY <1>0, <2>4 DEF ProcTypes, LedgerInv, ProcInv
        <3> QED BY <1>0, <3>2, <3>3, <3>5, <3>6 DEF ProcInv
    <2>6. LedgerInv'
        <3>1. \A c \in Criteria : workspace'[c] \in Visible(c)'
            BY <1>0 DEF LedgerInv, Visible, Observation
        <3> QED BY <1>0, <2>3, <2>5, <3>1 DEF LedgerInv
    <2> QED BY <1>0, <1>2, <2>1, <2>2, <2>3, <2>6, TypeParts DEF StoreTypes, CounterTypes
<1> QED BY <1>3, <1>4

(* The steps after the commit, and the refusal of a call.                   *)
LEMMA SettlePreserves ==
    ASSUME TypeOK, LedgerInv, NEW p \in Proc,
           ProjectState(p) \/ ProjectionFails(p) \/ PurgeItem(p)
    PROVE  TypeOK' /\ LedgerInv' /\ UNCHANGED log
<1>0. /\ StoreTypes /\ ProcTypes /\ CounterTypes
      /\ UNCHANGED <<log, workspace, everAged, crashes, edits>>
      /\ pc[p] \in {"project", "rename"} /\ root # "none" /\ Leave(p, "unlock")
    BY TypeParts DEF ProjectState, ProjectionFails, PurgeItem, Store, Counters, LedgerInv, ProcInv
<1>1. root' \in {"live", "purged", "ghost"}
    BY <1>0 DEF ProjectState, ProjectionFails, PurgeItem, Store, StoreTypes
<1>2. projection' \in Nat
    BY <1>0 DEF ProjectState, ProjectionFails, PurgeItem, Store, StoreTypes, ProcTypes
<1>3. lock' \in [present : BOOLEAN, owners : SUBSET Proc, aged : BOOLEAN]
    <2>1. lock' \in {lock, NoLock}
        BY DEF ProjectState, ProjectionFails, PurgeItem, Store
    <2> QED BY <1>0, <2>1, LockTypes DEF StoreTypes
<1>4. StoreTypes' /\ CounterTypes'
    BY <1>0, <1>1, <1>2, <1>3 DEF StoreTypes, CounterTypes
<1>5. ProcTypes' /\ LedgerInv'
    BY <1>0, <1>1, LeaveTypes, LeavePreserves DEF Where
<1> QED BY <1>0, <1>4, <1>5, TypeParts

\* A refused call writes nothing.
LEMMA RefusePreserves ==
    ASSUME TypeOK, LedgerInv, NEW p \in Proc, Refuse(p)
    PROVE  TypeOK' /\ LedgerInv' /\ UNCHANGED log
<1>1. /\ StoreTypes /\ ProcTypes /\ CounterTypes
      /\ pc[p] = "inspect" /\ root # "none" /\ Leave(p, "unlock")
      /\ UNCHANGED <<log, root, projection, lock, workspace, everAged, crashes, edits>>
    BY TypeParts DEF Refuse, Store, Counters, LedgerInv, ProcInv
<1>2. ProcTypes' /\ LedgerInv'
    BY <1>1, LeaveTypes, LeavePreserves DEF Where
<1> QED BY <1>1, <1>2, TypeParts DEF StoreTypes, CounterTypes

\* A lock that ages, a crash and an edit of the workspace keep the invariant.
LEMMA EnvironmentPreserves ==
    ASSUME TypeOK, LedgerInv,
           \/ LockAges
           \/ \E p \in Proc : Crash(p)
           \/ \E c \in Criteria : \E o \in Visible(c) : Edit(c, o)
    PROVE  TypeOK' /\ LedgerInv' /\ UNCHANGED log
<1>0. StoreTypes /\ ProcTypes /\ CounterTypes
    BY TypeParts
<1>1. CASE LockAges
    <2>1. /\ UNCHANGED <<log, root, projection, workspace, pc, op, base, next, todo, got,
                         touched, crashes, edits>>
          /\ lock' = [lock EXCEPT !.aged = TRUE] /\ everAged' = TRUE
        BY <1>1 DEF LockAges, procVars
    <2>2. TypeOK'
        BY <2>1 DEF TypeOK
    <2>3. ASSUME NEW q \in Proc
          PROVE  ProcInv(q)'
        BY <2>1 DEF LedgerInv, ProcInv, ProposalStands, CompletionStands, WitnessStands
    <2> QED BY <2>1, <2>2, <2>3 DEF LedgerInv
<1>2. ASSUME NEW p \in Proc, Crash(p)
      PROVE  TypeOK' /\ LedgerInv' /\ UNCHANGED log
    <2>1. /\ Return(p) /\ crashes' = crashes + 1 /\ crashes < MaxCrashes
          /\ UNCHANGED <<log, root, projection, lock, workspace, everAged, edits>>
        BY <1>2 DEF Crash, Store
    <2>2. StoreTypes' /\ CounterTypes'
        BY <1>0, <2>1, BoundsAssumption DEF StoreTypes, CounterTypes
    <2> QED BY <1>0, <2>1, <2>2, ReturnKeeps, TypeParts
<1>3. ASSUME NEW c \in Criteria, NEW o \in Visible(c), Edit(c, o)
      PROVE  TypeOK' /\ LedgerInv' /\ UNCHANGED log
    <2>1. /\ UNCHANGED <<log, root, projection, lock, pc, op, base, next, todo, got,
                         everAged, crashes>>
          /\ workspace' = [workspace EXCEPT ![c] = o]
          /\ edits' = edits + 1 /\ edits < MaxEdits
          /\ touched' = [p \in Proc |-> IF op[p] = "complete" \/ next[p].state = "completed"
                                        THEN touched[p] \cup {c} ELSE touched[p]]
        BY <1>3 DEF Edit
    <2>2. o \in Observations \cup {"unreadable"}
        BY DEF Visible, Observation, Observations
    <2>3. touched' \in [Proc -> SUBSET Criteria]
        BY <1>0, <2>1 DEF ProcTypes
    <2>4. StoreTypes' /\ ProcTypes' /\ CounterTypes'
        BY <1>0, <2>1, <2>2, <2>3, BoundsAssumption DEF StoreTypes, ProcTypes, CounterTypes
    <2>5. \A d \in Criteria : workspace'[d] \in Visible(d)'
        BY <1>0, <2>1 DEF StoreTypes, LedgerInv, Visible, Observation
    <2>6. ASSUME NEW q \in Proc
          PROVE  ProcInv(q)'
        BY <2>1 DEF LedgerInv, ProcInv, ProposalStands, CompletionStands, WitnessStands
    <2> QED BY <2>1, <2>4, <2>5, <2>6, TypeParts DEF LedgerInv
<1> QED BY <1>1, <1>2, <1>3

\* Creating the item is the first step of the abstract one.
LEMMA CreatePreserves ==
    ASSUME TypeOK, LedgerInv, Create
    PROVE  TypeOK' /\ LedgerInv' /\ ItemCreate
<1>1. /\ log = << >> /\ log' = <<CreatedRevision>> /\ root' = "live" /\ projection' = 1
      /\ UNCHANGED <<lock, workspace, pc, op, base, next, todo, got, touched,
                     everAged, crashes, edits>>
      /\ \A p \in Proc : pc[p] = "idle" /\ op[p] = "none"
    BY DEF Create, LedgerInv, ProcInv, procVars, Counters
<1>2. log' \in Seq(Revision) /\ log' # << >> /\ Len(log) = 0 /\ Len(log') = 1
    BY <1>1, CreatedType
<1>3. TypeOK'
    BY <1>1, <1>2 DEF TypeOK
<1>4. ASSUME NEW q \in Proc
      PROVE  ProcInv(q)'
    BY <1>1, <1>2 DEF TypeOK, LedgerInv, ProcInv, ProposalStands, CompletionStands, WitnessStands
<1> QED BY <1>1, <1>2, <1>3, <1>4 DEF LedgerInv, ItemCreate

(* Every step keeps the invariant and is a step of the atomic item.         *)
LEMMA StepRefines ==
    ASSUME TypeOK, LedgerInv, [Next]_vars
    PROVE  TypeOK' /\ LedgerInv' /\ [ItemNext]_log
<1>1. CASE Create
    BY <1>1, CreatePreserves DEF ItemNext
<1>2. ASSUME NEW p \in Proc, Locking(p)
      PROVE  TypeOK' /\ LedgerInv' /\ UNCHANGED log
    <2>1. UNCHANGED log
        BY <1>2 DEF Locking, TryMkdir, RelockFails, StatLock, Takeover, RetryMkdir,
            CreateOwner, UndoLock, RemoveOwner, RemoveLock, Store
    <2> QED BY <1>2, <2>1, LockingPreserves
<1>3. ASSUME NEW p \in Proc, Calling(p)
      PROVE  TypeOK' /\ LedgerInv' /\ UNCHANGED log
    <2>1. TypeOK' /\ LedgerInv'
        BY <1>3, RefusePreserves, UnderLockPreserves, FinishPreserves, WitnessPreserves
           DEF Calling
    <2>2. UNCHANGED log
        BY <1>3 DEF Calling, Refuse, UnderLock, Start, Resume, Delete, Checkpoint, Pause,
            StartToolCall, FinishToolCall, RecordYodaReview, BeginComplete,
            BeginCollectEvidence, BeginTwoLock, FinishCollectEvidence, FinishComplete,
            Propose, WitnessEvidence, WitnessAgain, Store
    <2> QED BY <2>1, <2>2
<1>4. ASSUME NEW p \in Proc, CommitRevision(p)
      PROVE  TypeOK' /\ LedgerInv' /\ [ItemNext]_log
    <2>1. TypeOK' /\ LedgerInv'
        BY <1>4, CommitPreserves
    <2>2. CASE log' = log
        BY <2>1, <2>2
    <2>3. CASE log' # log
        <3>1. log # << >> /\ Successor(log, next[p]) /\ log' = Append(log, next[p])
            BY <1>4, <2>3, CommitPreserves
        <3>2. log \in Seq(Revision) /\ next[p] \in Revision
            BY DEF TypeOK
        <3>3. Latest(log') = next[p]
            BY <3>1, <3>2 DEF Latest
        <3> QED BY <2>1, <3>1, <3>3 DEF ItemNext, ItemMutate
    <2> QED BY <2>2, <2>3
<1>5. ASSUME NEW p \in Proc, ProjectState(p) \/ ProjectionFails(p) \/ PurgeItem(p)
      PROVE  TypeOK' /\ LedgerInv' /\ UNCHANGED log
    BY <1>5, SettlePreserves
<1>6. ASSUME \/ LockAges
             \/ \E p \in Proc : Crash(p)
             \/ \E c \in Criteria : \E o \in Visible(c) : Edit(c, o)
      PROVE  TypeOK' /\ LedgerInv' /\ UNCHANGED log
    BY <1>6, EnvironmentPreserves
<1>7. CASE UNCHANGED vars
    <2>1. UNCHANGED <<log, root, projection, lock, workspace, pc, op, base, next, todo, got,
                      touched, everAged, crashes, edits>>
        BY <1>7 DEF vars, procVars
    <2>2. TypeOK'
        BY <2>1 DEF TypeOK
    <2>3. ASSUME NEW q \in Proc
          PROVE  ProcInv(q)'
        BY <2>1 DEF LedgerInv, ProcInv, ProposalStands, CompletionStands, WitnessStands
    <2> QED BY <2>1, <2>2, <2>3 DEF LedgerInv
<1> QED
    BY <1>1, <1>2, <1>3, <1>4, <1>5, <1>6, <1>7 DEF Next, Publishing

\* The invariant holds before there is an item.
LEMMA InitInvariant == Init => TypeOK /\ LedgerInv
<1> SUFFICES ASSUME Init PROVE TypeOK /\ LedgerInv
    OBVIOUS
<1>1. log \in Seq(Revision) /\ Len(log) = 0
    BY DEF Init, ItemInit
<1>2. TypeOK
    <2>1. StoreTypes
        BY <1>1, LockTypes DEF Init, StoreTypes
    <2>2. ProcTypes
        BY CreatedType, ReceiptTypes DEF Init, ProcTypes, Where
    <2>3. CounterTypes
        <3>1. everAged \in BOOLEAN
            BY DEF Init
        <3>2. crashes \in 0..MaxCrashes /\ edits \in 0..MaxEdits
            BY BoundsAssumption DEF Init
        <3> QED BY <3>1, <3>2 DEF CounterTypes
    <2> QED BY <2>1, <2>2, <2>3, TypeParts
<1>3. ASSUME NEW p \in Proc
      PROVE  ProcInv(p)
    BY <1>1 DEF Init, ProcInv, ProposalStands, CompletionStands, WitnessStands
<1> QED
    BY <1>2, <1>3 DEF Init, ItemInit, LedgerInv, Visible

(* Published revisions and all working state are well formed, whatever the  *)
(* number of processes and the bounds.                                      *)
THEOREM LedgerTyped == Spec => []TypeOK
<1>1. Init => TypeOK /\ LedgerInv
    BY InitInvariant
<1>2. TypeOK /\ LedgerInv /\ [Next]_vars => TypeOK' /\ LedgerInv'
    BY StepRefines
<1> QED
    BY <1>1, <1>2, PTL DEF Spec

(* The shared, lock-stealing, crashing ledger implements the atomic item:   *)
(* no interleaving of stale owners, takeovers, crashes and edits publishes  *)
(* a revision that is not one whole operation on the revision before it     *)
(* (the no-clobber link of commitRevision).                                 *)
THEOREM LedgerRefinesItem == Spec => ItemSpec
<1>1. Init => TypeOK /\ LedgerInv
    BY InitInvariant
<1>2. TypeOK /\ LedgerInv /\ [Next]_vars => TypeOK' /\ LedgerInv' /\ [ItemNext]_log
    BY StepRefines
<1>3. Init => ItemInit
    BY DEF Init
<1> QED
    BY <1>1, <1>2, <1>3, PTL DEF Spec, ItemSpec

----------------------------------------------------------------------------
(* What a history guarantees.                                               *)

(* Which operation wrote a revision can be read off it: only Complete       *)
(* completes, only FinishToolCall ends a tool call, and nothing but another *)
(* tombstone follows a tombstone.                                           *)
LEMMA SuccessorTells ==
    ASSUME NEW l \in Seq(Revision), l # << >>, NEW r, Successor(l, r)
    PROVE  /\ r \in Revision
           /\ r.state = "completed" =>
                \E a \in 1..Len(l) : CanComplete(l, a) /\ r.attempt = a
           /\ r.receipt.kind = "tool" /\ r.receipt.outcome # "started" =>
                \E a, k \in 1..Len(l) :
                    OpenToolCall(l, a, k) /\ r.receipt.of = k /\ r.attempt = a
           /\ r.receipt.kind = "tool" => r.receipt.of \in 1..(Len(l) + 1)
           /\ Latest(l).state = "cancelled" => r.state = "cancelled"
  <1>0. Latest(l) \in Revision /\ Len(l) \in Nat \ {0}
    BY LatestType
  <1>1. \/ CanStart(l) /\ r = StartRevision(l)
        \/ CanResume(l) /\ r = ResumeRevision(l)
        \/ CanDelete(l) /\ r = TombstoneRevision
        \/ \E a \in 1..Len(l) :
             \/ CanCheckpoint(l, a) /\ r = CheckpointRevision(l, a)
             \/ CanPause(l, a) /\ r = PauseRevision(l)
        \/ \E a \in 1..Len(l) : CanComplete(l, a) /\ r = CompleteRevision(l)
        \/ \E a \in 1..Len(l) :
             \E kind \in {"tool", "evidence", "yoda"} : \E of, outcome :
                /\ HoldsAttempt(l, a) /\ r = WithReceipt(l, kind, of, outcome)
                /\ [kind |-> kind, of |-> of, outcome |-> outcome] \in Receipt
                /\ \/ kind = "tool" /\ outcome = "started" /\ of = Len(l) + 1
                   \/ kind = "tool" /\ of \in 1..Len(l) /\ OpenToolCall(l, a, of)
                   \/ kind # "tool"
    <2>1. /\ \A c \in Criteria : \A o \in Observation(c) : o \in Observations
          /\ Len(l) + 1 \in Nat /\ \A k \in 1..Len(l) : k \in Nat
      BY <1>0 DEF Observation, Observations
    <2> QED
      BY <2>1, ReceiptTypes, Zenon
         DEF Successor, CanCollectEvidence, EvidenceRevision, CanStartToolCall, StartToolCallRevision,
          CanFinishToolCall, FinishToolCallRevision, CanRecordReview, ReviewRevision,
          HoldsActiveAttempt
  <1> USE <1>0
  <1>2. CASE CanStart(l) /\ r = StartRevision(l)
    BY <1>2, RevisionTypes DEF CanStart, StartRevision, NoReceipt
  <1>3. CASE CanResume(l) /\ r = ResumeRevision(l)
    BY <1>3, RevisionTypes DEF CanResume, ResumeRevision, NoReceipt, Revision
  <1>4. CASE CanDelete(l) /\ r = TombstoneRevision
    BY <1>4, CreatedType DEF TombstoneRevision, CreatedRevision, NoReceipt
  <1>5. ASSUME NEW a \in 1..Len(l),
               \/ CanCheckpoint(l, a) /\ r = CheckpointRevision(l, a)
               \/ CanPause(l, a) /\ r = PauseRevision(l)
        PROVE  /\ r \in Revision /\ r.state # "completed" /\ r.receipt.kind # "tool"
               /\ Latest(l).state # "cancelled"
    <2>1. r \in Revision
      BY <1>5, RevisionTypes
    <2>2. Latest(l).state = "running"
      BY <1>5 DEF CanCheckpoint, CanPause, HoldsActiveAttempt, HoldsAttempt
    <2>3. r.receipt = NoReceipt /\ r.state \in {"running", "paused"}
      BY <1>5, <2>2 DEF CheckpointRevision, PauseRevision, Revision
    <2> QED
      BY <2>1, <2>2, <2>3 DEF NoReceipt
  <1>6. ASSUME NEW a \in 1..Len(l), CanComplete(l, a), r = CompleteRevision(l)
        PROVE  /\ r \in Revision /\ r.attempt = a /\ r.receipt.kind # "tool"
               /\ Latest(l).state # "cancelled"
    BY <1>6, RevisionTypes DEF CanComplete, CanBeginComplete, HoldsAttempt, CompleteRevision,
        NoReceipt, Revision
  <1>7. ASSUME NEW a \in 1..Len(l), NEW kind, NEW of, NEW outcome, HoldsAttempt(l, a),
               r = WithReceipt(l, kind, of, outcome),
               [kind |-> kind, of |-> of, outcome |-> outcome] \in Receipt
        PROVE  /\ r \in Revision /\ r.state = "running" /\ r.attempt = a
               /\ r.receipt = [kind |-> kind, of |-> of, outcome |-> outcome]
               /\ Latest(l).state = "running"
    <2>1. r \in Revision
      BY <1>7, RevisionTypes
    <2> QED
      BY <1>7, <2>1 DEF HoldsAttempt, WithReceipt, Revision
  <1>8. ASSUME NEW a \in 1..Len(l), NEW kind \in {"tool", "evidence", "yoda"}, NEW of, NEW outcome,
               HoldsAttempt(l, a), r = WithReceipt(l, kind, of, outcome),
               [kind |-> kind, of |-> of, outcome |-> outcome] \in Receipt,
               \/ kind = "tool" /\ outcome = "started" /\ of = Len(l) + 1
               \/ kind = "tool" /\ of \in 1..Len(l) /\ OpenToolCall(l, a, of)
               \/ kind # "tool"
        PROVE  /\ r \in Revision /\ r.state = "running" /\ Latest(l).state = "running"
               /\ r.receipt.kind = "tool" /\ r.receipt.outcome # "started" =>
                    \E b, k \in 1..Len(l) :
                        OpenToolCall(l, b, k) /\ r.receipt.of = k /\ r.attempt = b
               /\ r.receipt.kind = "tool" => r.receipt.of \in 1..(Len(l) + 1)
    BY <1>7, <1>8
  <1> QED
    BY <1>1, <1>2, <1>3, <1>4, <1>5, <1>6, <1>8

(* Among finitely many revisions that qualify there is a newest one.        *)
LEMMA NewestExists ==
    ASSUME NEW n \in Nat, NEW S \in SUBSET (1..n), S # {}
    PROVE  \E i \in S : \A j \in S : j <= i
  <1> DEFINE T == {m \in Nat : n - m \in S}
  <1>0. \A i \in S : i \in Nat /\ n - i \in Nat /\ n - (n - i) = i
    OBVIOUS
  <1>1. T \subseteq Nat /\ T # {}
    BY <1>0
  <1>2. PICK x \in T : \A y \in T : ~ (<<y, x>> \in OpToRel(<, Nat))
    <2> HIDE DEF T
    <2> QED
      BY <1>1, WFMin, NatLessThanWellFounded
  <1>3. \A y \in T : ~ (y < x)
    BY <1>1, <1>2 DEF OpToRel
  <1>4. x \in Nat /\ n - x \in S
    OBVIOUS
  <1>5. ASSUME NEW j \in S PROVE j <= n - x
    <2>1. n - j \in T
      BY <1>0
    <2>2. ~(n - j < x)
      BY <1>3, <2>1
    <2> QED
      BY <1>0, <1>4, <2>2
  <1> QED
    BY <1>4, <1>5

(* Appending a revision does not change what the history said before.       *)
LEMMA AppendKeeps ==
    ASSUME NEW l \in Seq(Revision), NEW r \in Revision
    PROVE  /\ Append(l, r) \in Seq(Revision) /\ Len(Append(l, r)) = Len(l) + 1
           /\ Append(l, r)[Len(l) + 1] = r
           /\ \A n \in 1..Len(l) : Append(l, r)[n] = l[n]
           /\ \A n \in 0..Len(l) : \A c :
                LatestEvidence(Append(l, r), n, c) = LatestEvidence(l, n, c)
  <1>1. /\ Append(l, r) \in Seq(Revision) /\ Len(Append(l, r)) = Len(l) + 1
        /\ Append(l, r)[Len(l) + 1] = r
        /\ \A n \in 1..Len(l) : Append(l, r)[n] = l[n]
    OBVIOUS
  <1>2. ASSUME NEW n \in 0..Len(l), NEW c
        PROVE  LatestEvidence(Append(l, r), n, c) = LatestEvidence(l, n, c)
    <2> DEFINE found == {i \in 1..n : IsEvidence(l[i], c)}
               newest == CHOOSE i \in found : \A j \in found : j <= i
    <2>0. \A i \in 1..n : Append(l, r)[i] = l[i]
      BY <1>1
    <2>1. {i \in 1..n : IsEvidence(Append(l, r)[i], c)} = found
      BY <2>0
    <2>2. LatestEvidence(l, n, c) = IF found = {} THEN "none" ELSE l[newest].receipt.outcome
      BY DEF LatestEvidence
    <2>3. LatestEvidence(Append(l, r), n, c) =
            IF found = {} THEN "none" ELSE Append(l, r)[newest].receipt.outcome
      <3>1. LatestEvidence(Append(l, r), n, c) =
              LET later == {i \in 1..n : IsEvidence(Append(l, r)[i], c)}
              IN  IF later = {} THEN "none"
                  ELSE Append(l, r)[CHOOSE i \in later : \A j \in later : j <= i].receipt.outcome
        BY DEF LatestEvidence
      <3> HIDE DEF found
      <3> QED
        BY <2>1, <3>1
    <2>4. CASE found # {}
      <3>1. \E i \in found : \A j \in found : j <= i
        <4>1. n \in Nat /\ found \in SUBSET (1..n)
          OBVIOUS
        <4> HIDE DEF found
        <4> QED
          BY <2>4, <4>1, NewestExists
      <3>2. newest \in 1..n
        BY <3>1
      <3> QED
        BY <2>0, <2>2, <2>3, <3>2
    <2> QED
      BY <2>2, <2>3, <2>4
  <1> QED
    BY <1>1, <1>2

(* The inductive form of HistorySound: the first revision is that of Create *)
(* and a receipt names a tool call that has begun.                          *)
HistoryInv ==
    /\ log \in Seq(Revision)
    /\ HistorySound
    /\ log # << >> => log[1].state = "ready"
    /\ \A n \in 1..Len(log) : log[n].receipt.kind = "tool" => log[n].receipt.of \in 1..n

(* A history stays sound when an operation adds to it.                      *)
LEMMA AppendSound ==
    ASSUME HistoryInv, log # << >>, NEW r, Successor(log, r), log' = Append(log, r)
    PROVE  HistoryInv'
  <1>0. r \in Revision /\ Len(log) \in Nat \ {0} /\ log \in Seq(Revision) /\ log[1].state = "ready"
    BY SuccessorTells DEF HistoryInv
  <1>1. /\ log' \in Seq(Revision) /\ Len(log') = Len(log) + 1 /\ log'[Len(log) + 1] = r
        /\ \A n \in 1..Len(log) : log'[n] = log[n]
        /\ \A n \in 0..Len(log) : \A c : LatestEvidence(log', n, c) = LatestEvidence(log, n, c)
    BY <1>0, AppendKeeps
  <1>2. CompletionEarned'
    <2> SUFFICES ASSUME NEW n \in 1..(Len(log) + 1), log'[n].state = "completed"
                 PROVE  /\ \A c \in Criteria : LatestEvidence(log', n - 1, c) \in Passing
                        /\ RequireYodaReview =>
                             /\ log'[n - 1].receipt.kind = "yoda"
                             /\ log'[n - 1].receipt.outcome = "approved"
                             /\ log'[n - 1].attempt = log'[n].attempt
      BY <1>1 DEF CompletionEarned
    <2>1. CASE n \in 1..Len(log)
      <3>1. log[n].state = "completed" /\ n - 1 \in 0..Len(log)
        BY <1>0, <1>1, <2>1
      <3>2. /\ \A c \in Criteria : LatestEvidence(log, n - 1, c) \in Passing
            /\ RequireYodaReview =>
                 /\ log[n - 1].receipt.kind = "yoda"
                 /\ log[n - 1].receipt.outcome = "approved"
                 /\ log[n - 1].attempt = log[n].attempt
        BY <2>1, <3>1 DEF HistoryInv, HistorySound, CompletionEarned
      <3>3. n # 1 /\ n - 1 \in 1..Len(log)
        BY <1>0, <2>1, <3>1
      <3> QED
        BY <1>0, <1>1, <2>1, <3>1, <3>2, <3>3
    <2>2. CASE n = Len(log) + 1
      <3>1. PICK a \in 1..Len(log) : CanComplete(log, a) /\ r.attempt = a
        BY <1>1, <2>2, SuccessorTells
      <3>2. n - 1 = Len(log) /\ Len(log) \in 1..Len(log)
        BY <1>0, <2>2
      <3>3. log'[n - 1] = Latest(log)
        BY <1>1, <3>2 DEF Latest
      <3> QED
        BY <1>0, <1>1, <2>2, <3>1, <3>2, <3>3 DEF CanComplete, CanBeginComplete, CurrentApproval
    <2> QED
      BY <1>0, <2>1, <2>2
  <1>3. ToolCallOnce'
    <2> SUFFICES ASSUME NEW n \in 1..(Len(log) + 1),
                        log'[n].receipt.kind = "tool", log'[n].receipt.outcome # "started",
                        NEW k, k = log'[n].receipt.of
                 PROVE  /\ k < n /\ IsToolCall(log'[k], k)
                        /\ log'[k].receipt.outcome = "started"
                        /\ log'[k].attempt = log'[n].attempt
                        /\ \A i \in (k + 1)..(n - 1) : ~IsToolCall(log'[i], k)
      BY <1>1 DEF ToolCallOnce
    <2>1. CASE n \in 1..Len(log)
      <3>1. /\ k < n /\ IsToolCall(log[k], k)
            /\ log[k].receipt.outcome = "started"
            /\ log[k].attempt = log[n].attempt
            /\ \A i \in (k + 1)..(n - 1) : ~IsToolCall(log[i], k)
        BY <1>1, <2>1 DEF HistoryInv, HistorySound, ToolCallOnce
      <3>2. k \in 1..n
        BY <1>1, <2>1 DEF HistoryInv
      <3>3. k \in 1..Len(log) /\ \A i \in (k + 1)..(n - 1) : i \in 1..Len(log)
        BY <1>0, <2>1, <3>2
      <3>4. /\ log'[k] = log[k] /\ log'[n] = log[n]
            /\ \A i \in (k + 1)..(n - 1) : log'[i] = log[i]
        BY <1>1, <2>1, <3>3
      <3> QED
        BY <3>1, <3>4
    <2>2. CASE n = Len(log) + 1
      <3>1. PICK a \in 1..Len(log) : OpenToolCall(log, a, k) /\ r.attempt = a /\ k \in 1..Len(log)
        BY <1>1, <2>2, SuccessorTells
      <3>2. log[k].receipt.outcome = "started"
        BY <3>1 DEF OpenToolCall, IsToolCall, HistoryInv, HistorySound, ToolCallOnce
      <3>3. \A i \in (k + 1)..(n - 1) : i \in (k + 1)..Len(log) /\ i \in 1..Len(log)
        BY <1>0, <2>2, <3>1
      <3>4. /\ log'[k] = log[k] /\ log'[n] = r /\ k < n
            /\ \A i \in (k + 1)..(n - 1) : log'[i] = log[i]
        BY <1>0, <1>1, <2>2, <3>1, <3>3
      <3> QED
        BY <3>1, <3>2, <3>3, <3>4 DEF OpenToolCall
    <2>3. n \in 1..Len(log) \/ n = Len(log) + 1
      BY <1>0
    <2> QED
      BY <2>1, <2>2, <2>3
  <1>4. \A n \in 1..Len(log') : log'[n].receipt.kind = "tool" => log'[n].receipt.of \in 1..n
    BY <1>0, <1>1, SuccessorTells DEF HistoryInv
  <1>5. log'[1].state = "ready"
    BY <1>0, <1>1
  <1> QED
    BY <1>1, <1>2, <1>3, <1>4, <1>5 DEF HistoryInv, HistorySound

(* ItemHistorySound: every history of the atomic item is sound (Complete,   *)
(* currentYodaApproval, FinishToolCall).                                    *)
THEOREM ItemHistorySound == ItemSpec => []HistorySound
  <1>1. ItemInit => HistoryInv
    BY DEF ItemInit, HistoryInv, HistorySound, CompletionEarned, ToolCallOnce
  <1>2. ASSUME HistoryInv, [ItemNext]_log PROVE HistoryInv'
    <2>1. CASE ItemCreate
      <3>1. log' = <<CreatedRevision>> /\ CreatedRevision \in Revision
        BY <2>1, CreatedType DEF ItemCreate
      <3>2. log' \in Seq(Revision) /\ Len(log') = 1 /\ log'[1] = CreatedRevision
        BY <3>1
      <3> QED
        BY <3>2 DEF HistoryInv, HistorySound, CompletionEarned, ToolCallOnce, CreatedRevision,
            NoReceipt
    <2>2. CASE ItemMutate
      BY <1>2, <2>2, AppendSound DEF ItemMutate
    <2>3. CASE UNCHANGED log
      BY <1>2, <2>3 DEF HistoryInv, HistorySound, CompletionEarned, ToolCallOnce
    <2> QED
      BY <1>2, <2>1, <2>2, <2>3 DEF ItemNext
  <1> QED
    BY <1>1, <1>2, PTL DEF ItemSpec, HistoryInv

(* LedgerHistorySound: so is every history that processes write which race, *)
(* crash and take over each other's locks.                                  *)
THEOREM LedgerHistorySound == Spec => []HistorySound
BY LedgerRefinesItem, ItemHistorySound, PTL

----------------------------------------------------------------------------
(* Locks, projection and purge.                                             *)

(* Who has made the lock directory and not yet removed it, or given up.     *)
Occupied == {p \in Proc : pc[p] \in {"owner", "undo", "inspect", "commit", "project", "rename",
                                     "unlock", "rmdir"}}

(* While no lock has aged, nobody takes one over, and the directory is      *)
(* there as long as somebody occupies it, unless the item is purged, lock   *)
(* and all, and its purger about to return.                                 *)
LockRespected ==
    /\ ~lock.aged /\ root # "ghost"
    /\ root = "purged" => ~lock.present
    /\ \A p \in Proc : pc[p] \notin {"takeover", "mkdir"}
    /\ \A p, q \in Occupied : p = q
    /\ \A p \in Occupied : \/ root = "live" /\ lock.present
                           \/ root = "purged" /\ pc[p] = "unlock"

(* The inductive form of LockedWrites.                                      *)
LockInv == (~everAged => LockRespected) /\ ProjectionNotAhead /\ PurgeOnlyTombstoned

(* What Complete has witnessed again and nobody has edited looks as its     *)
(* receipt says, as long as nobody has published.                           *)
IsCompleting(p) == op[p] = "complete" \/ (pc[p] = "commit" /\ next[p].state = "completed")
FreshStands(p) ==
    /\ IsCompleting(p) /\ base[p] = Len(log) =>
         \A c \in Criteria \ (todo[p] \cup touched[p]) :
            workspace[c] = LatestEvidence(log, Len(log), c)
    /\ pc[p] = "commit" /\ next[p].state = "completed" => todo[p] = {}
FreshInv == \A p \in Proc : FreshStands(p)

(* A step that leaves the store alone disturbs neither, unless it brings a  *)
(* process into the occupied places, or to a write it has not earned.       *)
LEMMA QuietKeepsLock ==
    ASSUME ProcTypes, LockInv, NEW p \in Proc, NEW place \in Where,
           pc' = [pc EXCEPT ![p] = place],
           UNCHANGED <<log, root, projection, lock, everAged>>,
           \A q \in Proc \ {p} : base'[q] = base[q] /\ next'[q] = next[q],
           place \notin {"project", "rename", "takeover", "mkdir"},
           place \in {"owner", "undo", "inspect", "commit", "unlock", "rmdir"} =>
             p \in Occupied /\ pc[p] # "unlock"
    PROVE  LockInv'
  <1>1. LockRespected => LockRespected'
    BY DEF ProcTypes, LockRespected, Occupied
  <1>2. ProjectionNotAhead' /\ PurgeOnlyTombstoned'
    BY DEF ProcTypes, LockInv, ProjectionNotAhead, PurgeOnlyTombstoned
  <1> QED
    BY <1>1, <1>2 DEF LockInv

\* Only the process whose lock directory it is goes past it, unless one has aged.
LEMMA LockingKeepsLock ==
    ASSUME TypeOK, LedgerInv, LockInv, NEW p \in Proc, Locking(p)
    PROVE  LockInv'
  <1>0. /\ UNCHANGED <<log, root, projection, everAged>>
        /\ lock \in [present : BOOLEAN, owners : SUBSET Proc, aged : BOOLEAN]
        /\ pc \in [Proc -> Where] /\ base \in [Proc -> Nat] /\ next \in [Proc -> Revision]
    BY DEF Locking, TryMkdir, RelockFails, StatLock, Takeover, RetryMkdir, CreateOwner,
        UndoLock, RemoveOwner, RemoveLock, Store, Counters, TypeOK
  <1>1. ASSUME ~everAged PROVE LockRespected'
    <2>0. LockRespected
      BY <1>1 DEF LockInv
    <2> USE <1>0, <2>0 DEF LockRespected, Occupied, NoLock, FreshLock, Step, Goto, Return, Leave
    <2>1. CASE TryMkdir(p)
      BY <2>1 DEF TryMkdir, RootExists
    <2>2. CASE RelockFails(p) \/ StatLock(p) \/ Takeover(p) \/ RetryMkdir(p)
      BY <2>2 DEF RelockFails, StatLock, Takeover, RetryMkdir, RootExists, Store
    <2>3. CASE CreateOwner(p)
      <3>1. lock' = lock \/ lock' = [lock EXCEPT !.owners = @ \cup {p}, !.aged = FALSE]
        BY <2>3 DEF CreateOwner
      <3>2. lock'.present = lock.present /\ ~lock'.aged
        BY <3>1
      <3>3. pc' = [pc EXCEPT ![p] = "inspect"] \/ pc' = [pc EXCEPT ![p] = "undo"]
        BY <2>3 DEF CreateOwner
      <3> QED
        BY <2>3, <3>2, <3>3 DEF CreateOwner
    <2>4. CASE UndoLock(p)
      BY <2>4 DEF UndoLock, RemoveEmptyLock
    <2>5. CASE RemoveOwner(p)
      <3>1. lock' = lock \/ lock' = [lock EXCEPT !.owners = @ \ {p}, !.aged = FALSE]
        BY <2>5 DEF RemoveOwner
      <3>2. lock'.present = lock.present /\ ~lock'.aged
        BY <3>1
      <3>3. \E place \in {"rmdir", "idle", "witness"} :
              pc' = [pc EXCEPT ![p] = place] /\ (place = "rmdir" => lock.present)
        BY <2>5 DEF RemoveOwner
      <3> QED
        BY <2>5, <3>2, <3>3 DEF RemoveOwner
    <2>6. CASE RemoveLock(p)
      BY <2>6 DEF RemoveLock, RemoveEmptyLock
    <2> QED
      BY <2>1, <2>2, <2>3, <2>4, <2>5, <2>6 DEF Locking
  <1>2. /\ \A q \in Proc : pc'[q] \in {"project", "rename"} => pc[q] = pc'[q]
        /\ \A q \in Proc : pc'[q] \in {"project", "rename"} => base'[q] = base[q] /\ next'[q] = next[q]
    BY <1>0 DEF Locking, TryMkdir, RelockFails, StatLock, Takeover, RetryMkdir, CreateOwner,
        UndoLock, RemoveOwner, RemoveLock, Step, Goto, Return, Leave
  <1>3. ProjectionNotAhead' /\ PurgeOnlyTombstoned'
    BY <1>0, <1>2 DEF LockInv, ProjectionNotAhead, PurgeOnlyTombstoned
  <1> QED
    BY <1>0, <1>1, <1>3 DEF LockInv

\* What a call decides under the lock leaves the lock alone.
LEMMA CallingKeepsLock ==
    ASSUME TypeOK, LedgerInv, LockInv, NEW p \in Proc, Calling(p)
    PROVE  LockInv'
  <1>0. ProcTypes
    BY TypeParts
  <1>1. /\ UNCHANGED <<log, root, projection, lock, everAged>>
        /\ \A q \in Proc \ {p} : base'[q] = base[q] /\ next'[q] = next[q]
        /\ \/ pc[p] = "inspect" /\ \E place \in {"commit", "unlock"} : pc' = [pc EXCEPT ![p] = place]
           \/ \E place \in {"relock", "witness", "idle"} : pc' = [pc EXCEPT ![p] = place]
    BY <1>0 DEF ProcTypes, Calling, Refuse, UnderLock, Start, Resume, Delete, Checkpoint, Pause,
        StartToolCall, FinishToolCall, RecordYodaReview, BeginComplete, BeginCollectEvidence,
        BeginTwoLock, FinishCollectEvidence, FinishComplete, Propose, WitnessEvidence,
        WitnessAgain, Store, Counters, Return, Leave, Goto
  <1> QED
    BY <1>0, <1>1, QuietKeepsLock DEF Where, Occupied

\* A commit is made by the holder.
LEMMA CommitKeepsLock ==
    ASSUME TypeOK, LedgerInv, LockInv, NEW p \in Proc, CommitRevision(p)
    PROVE  LockInv'
  <1>0. ProcTypes /\ log \in Seq(Revision) /\ pc[p] = "commit"
    BY TypeParts DEF TypeOK, CommitRevision
  <1>1. CASE log' = log /\ Leave(p, "unlock")
    BY <1>0, <1>1, QuietKeepsLock DEF CommitRevision, Leave, ProcTypes, Where, Occupied, Counters
  <1>2. CASE /\ root = "live" /\ Len(log) = base[p] /\ log' = Append(log, next[p])
             /\ Step(p, AfterCommit(p)) \/ Leave(p, "unlock")
    <2>1. Successor(log, next[p]) /\ log # << >>
      BY <1>0, <1>2 DEF LedgerInv, ProcInv, ProposalStands
    <2>2. /\ next[p] \in Revision /\ Len(log') = Len(log) + 1 /\ Len(log) \in Nat
          /\ log'[Len(log) + 1] = next[p] /\ \A n \in 1..Len(log) : log'[n] = log[n]
          /\ Latest(log') = next[p]
          /\ Latest(log).state = "cancelled" => next[p].state = "cancelled"
      BY <1>0, <1>2, <2>1, SuccessorTells, AppendKeeps DEF Latest
    <2>3. UNCHANGED <<root, projection, lock, everAged>> /\ projection \in Nat
      BY DEF CommitRevision, Counters, TypeOK
    <2>4. \E place \in {"unlock", "project", "rename"} :
            /\ pc' = [pc EXCEPT ![p] = place]
            /\ place = "rename" => next[p].state = "cancelled"
            /\ place # "unlock" => UNCHANGED <<base, next>>
            /\ \A q \in Proc \ {p} : base'[q] = base[q] /\ next'[q] = next[q]
      BY <1>0, <1>2 DEF AfterCommit, Tombstone, Step, Goto, Leave, ProcTypes
    <2>5. LockRespected => LockRespected'
      BY <1>0, <1>2, <2>3, <2>4 DEF LockRespected, Occupied, ProcTypes
    <2>6. ProjectionNotAhead'
      <3>1. projection' <= Len(log')
        BY <2>2, <2>3 DEF LockInv, ProjectionNotAhead
      <3>2. ASSUME NEW q \in Proc, pc'[q] = "project"
            PROVE  base'[q] < Len(log') /\ log'[base'[q] + 1] = next'[q]
        <4>1. CASE q = p
          BY <1>0, <1>2, <2>2, <2>4, <3>2, <4>1 DEF ProcTypes
        <4>2. CASE q # p
          <5>1. /\ base'[q] = base[q] /\ next'[q] = next[q] /\ pc[q] = "project"
                /\ base[q] \in Nat
            BY <1>0, <2>4, <3>2, <4>2 DEF ProcTypes
          <5>2. base[q] < Len(log) /\ log[base[q] + 1] = next[q]
            BY <5>1 DEF LockInv, ProjectionNotAhead
          <5> QED
            BY <2>2, <5>1, <5>2
        <4> QED
          BY <4>1, <4>2
      <3> QED
        BY <3>1, <3>2 DEF ProjectionNotAhead
    <2>7. PurgeOnlyTombstoned'
      BY <1>0, <1>2, <2>2, <2>3, <2>4 DEF LockInv, PurgeOnlyTombstoned, ProcTypes
    <2> QED
      BY <2>3, <2>5, <2>6, <2>7 DEF LockInv
  <1> QED
    BY <1>1, <1>2 DEF CommitRevision

\* The projection and the purge are written by the holder.
LEMMA SettleKeepsLock ==
    ASSUME TypeOK, LedgerInv, LockInv, NEW p \in Proc,
           ProjectState(p) \/ ProjectionFails(p) \/ PurgeItem(p)
    PROVE  LockInv'
  <1>0. /\ ProcTypes /\ UNCHANGED <<log, everAged>> /\ Leave(p, "unlock")
        /\ log \in Seq(Revision) /\ Len(log) \in Nat /\ root # "none"
        /\ root \in {"none", "live", "purged", "ghost"}
    BY TypeParts DEF TypeOK, ProjectState, ProjectionFails, PurgeItem, Store, Counters,
        LedgerInv, ProcInv
  <1>1. LockRespected => LockRespected'
    BY <1>0 DEF ProjectState, ProjectionFails, PurgeItem, Leave, LockRespected, Occupied,
        ProcTypes, NoLock, RootExists, Store
  <1>2. ProjectionNotAhead'
    BY <1>0 DEF ProjectState, ProjectionFails, PurgeItem, Leave, LockInv, ProjectionNotAhead,
        ProcTypes, Store
  <1>3. PurgeOnlyTombstoned'
    BY <1>0 DEF ProjectState, ProjectionFails, PurgeItem, Leave, LockInv, PurgeOnlyTombstoned,
        ProcTypes, Store
  <1> QED
    BY <1>0, <1>1, <1>2, <1>3 DEF LockInv

\* A crash leaves the lock to nobody; ageing ends the claim.
LEMMA EnvironmentKeepsLock ==
    ASSUME TypeOK, LedgerInv, LockInv,
           \/ Create
           \/ LockAges
           \/ \E p \in Proc : Crash(p)
           \/ \E c \in Criteria : \E o \in Visible(c) : Edit(c, o)
           \/ UNCHANGED vars
    PROVE  LockInv'
  <1>0. ProcTypes
    BY TypeParts
  <1>1. CASE Create
    BY <1>0, <1>1 DEF Create, Counters, procVars, LedgerInv, ProcInv, LockInv, LockRespected,
        Occupied, ProjectionNotAhead, PurgeOnlyTombstoned
  <1>2. CASE LockAges
    BY <1>2 DEF LockAges, procVars, LockInv, ProjectionNotAhead, PurgeOnlyTombstoned
  <1>3. ASSUME NEW p \in Proc, Crash(p) PROVE LockInv'
    BY <1>0, <1>3, QuietKeepsLock DEF Crash, Return, Leave, Store, ProcTypes, Where
  <1>4. ASSUME NEW c \in Criteria, NEW o, Edit(c, o) PROVE LockInv'
    BY <1>4 DEF Edit, LockInv, LockRespected, Occupied, ProjectionNotAhead, PurgeOnlyTombstoned
  <1>5. CASE UNCHANGED vars
    BY <1>5 DEF vars, procVars, LockInv, LockRespected, Occupied, ProjectionNotAhead,
        PurgeOnlyTombstoned
  <1> QED
    BY <1>1, <1>2, <1>3, <1>4, <1>5

(* LedgerLocked: for any number of processes, as long as no lock outlives   *)
(* the two minutes they exclude each other; and whatever is taken over,     *)
(* state.json never shows an unpublished revision and only a tombstoned     *)
(* item is purged (lock, commitRevision, Delete).                           *)
THEOREM LedgerLocked == Spec => []LockedWrites
  <1>1. Init => TypeOK /\ LedgerInv /\ LockInv
    <2>1. Init => LockInv
      BY DEF Init, ItemInit, NoLock, LockInv, LockRespected, Occupied, ProjectionNotAhead,
          PurgeOnlyTombstoned
    <2> QED
      BY <2>1, InitInvariant
  <1>2. ASSUME TypeOK, LedgerInv, LockInv, [Next]_vars
        PROVE  TypeOK' /\ LedgerInv' /\ LockInv'
    <2>1. LockInv'
      BY <1>2, LockingKeepsLock, CallingKeepsLock, CommitKeepsLock, SettleKeepsLock,
         EnvironmentKeepsLock
         DEF Next, Publishing
    <2> QED
      BY <1>2, <2>1, StepRefines
  <1>3. LockInv => LockedWrites
    BY DEF LockInv, LockRespected, Occupied, LockedWrites, ExclusionUnlessAged, InCriticalSection
  <1> QED
    BY <1>1, <1>2, <1>3, PTL DEF Spec

----------------------------------------------------------------------------
(* The second witness of Complete.                                          *)

(* A call that leaves history and workspace alone answers for itself only.  *)
LEMMA QuietKeepsFresh ==
    ASSUME ProcTypes, FreshInv, NEW p \in Proc, UNCHANGED <<log, workspace>>, FreshStands(p)',
           \A q \in Proc \ {p} : /\ pc'[q] = pc[q] /\ op'[q] = op[q] /\ base'[q] = base[q]
                                 /\ next'[q] = next[q] /\ todo'[q] = todo[q]
                                 /\ touched'[q] = touched[q]
    PROVE  FreshInv'
  <1>1. ASSUME NEW q \in Proc \ {p} PROVE FreshStands(q)'
    BY <1>1 DEF FreshInv, FreshStands, IsCompleting
  <1> QED
    BY <1>1 DEF FreshInv

\* A process that goes on without a completion to commit keeps what it compared.
LEMMA StepKeepsFresh ==
    ASSUME ProcTypes, FreshInv, UNCHANGED <<log, workspace>>, NEW p \in Proc, NEW place,
           Leave(p, place) \/ Step(p, place), place # "commit"
    PROVE  FreshInv'
  <1>1. FreshStands(p)'
    BY DEF FreshInv, FreshStands, IsCompleting, ProcTypes, Leave, Step, Goto, CreatedRevision
  <1> QED
    BY <1>1, QuietKeepsFresh DEF ProcTypes, Leave, Step, Goto

\* A completion is proposed only with nothing left to compare.
LEMMA ProposeKeepsFresh ==
    ASSUME ProcTypes, FreshInv, NEW p \in Proc, NEW e, NEW r, Propose(p, e, r),
           r.state = "completed" => op[p] = "complete" /\ base[p] = Len(log) /\ todo[p] = {}
    PROVE  FreshInv'
  <1>1. /\ pc' = [pc EXCEPT ![p] = "commit"] /\ op' = [op EXCEPT ![p] = "none"]
        /\ base' = [base EXCEPT ![p] = e] /\ next' = [next EXCEPT ![p] = r] /\ e = Len(log)
        /\ UNCHANGED <<log, workspace, todo, touched>>
    BY DEF Propose, Goto, Store
  <1>2. FreshStands(p)'
    BY <1>1 DEF ProcTypes, FreshInv, FreshStands, IsCompleting
  <1> QED
    BY <1>1, <1>2, QuietKeepsFresh DEF ProcTypes

\* Every decision of a call keeps the freshness of its comparison.
LEMMA CallingKeepsFresh ==
    ASSUME TypeOK, LedgerInv, FreshInv, NEW p \in Proc, Calling(p)
    PROVE  FreshInv'
  <1>0. ProcTypes /\ log \in Seq(Revision)
    BY TypeParts DEF TypeOK
  <1>1. CASE Refuse(p)
    BY <1>0, <1>1, StepKeepsFresh DEF Refuse, Store
  <1>2. ASSUME NEW e \in 1..MaxRevision, UnderLock(p, e) PROVE FreshInv'
    <2>0. log # << >>
      BY <1>2 DEF UnderLock, Start, Resume, Delete, Checkpoint, Pause, StartToolCall,
          BeginComplete, BeginCollectEvidence, FinishToolCall, RecordYodaReview, Inspecting,
          LedgerInv
    <2>1. Latest(log) \in Revision
      BY <1>0, <2>0, LatestType
    <2>2. /\ StartRevision(log).state # "completed"
          /\ ResumeRevision(log).state # "completed"
          /\ TombstoneRevision.state # "completed"
          /\ PauseRevision(log).state # "completed"
          /\ \A a : CheckpointRevision(log, a).state = Latest(log).state
          /\ \A kind, of, outcome : WithReceipt(log, kind, of, outcome).state = Latest(log).state
      BY <2>1 DEF Revision, StartRevision, ResumeRevision, TombstoneRevision, CreatedRevision,
          PauseRevision, CheckpointRevision, WithReceipt
    <2>3. ASSUME NEW a, NEW name, NEW criteria, BeginTwoLock(p, e, name, criteria),
                 name = "complete" => criteria = Criteria, Inspecting(p)
          PROVE  FreshInv'
      <3>1. /\ pc' = [pc EXCEPT ![p] = "unlock"] /\ op' = [op EXCEPT ![p] = name]
            /\ base' = [base EXCEPT ![p] = e] /\ todo' = [todo EXCEPT ![p] = criteria]
            /\ touched' = [touched EXCEPT ![p] = {}]
            /\ UNCHANGED <<log, workspace, next>>
        BY <2>3 DEF BeginTwoLock, Goto, Store
      <3>2. FreshStands(p)'
        BY <1>0, <2>3, <3>1 DEF ProcTypes, FreshStands, IsCompleting
      <3> QED
        BY <1>0, <3>1, <3>2, QuietKeepsFresh DEF ProcTypes
    <2>4. CASE \/ Start(p, e) \/ Resume(p, e) \/ Delete(p, e)
      BY <1>0, <2>2, <2>4, ProposeKeepsFresh DEF Start, Resume, Delete
    <2>5. ASSUME NEW a \in 1..e,
                 \/ Checkpoint(p, e, a) \/ Pause(p, e, a) \/ StartToolCall(p, e, a)
                 \/ \E k \in 1..e, o \in ToolCallOutcome : FinishToolCall(p, e, a, k, o)
                 \/ \E n \in 1..e, d \in ReviewDecision : RecordYodaReview(p, e, a, n, d)
          PROVE  FreshInv'
      <3>1. Latest(log).state = "running"
        BY <2>5 DEF Checkpoint, Pause, StartToolCall, FinishToolCall, RecordYodaReview,
            CanCheckpoint, CanPause, CanStartToolCall, CanFinishToolCall, CanRecordReview,
            HoldsActiveAttempt, HoldsAttempt
      <3> QED
        BY <1>0, <2>2, <2>5, <3>1, ProposeKeepsFresh
           DEF Checkpoint, Pause, StartToolCall, FinishToolCall, RecordYodaReview,
            StartToolCallRevision, FinishToolCallRevision, ReviewRevision
    <2>6. ASSUME NEW a \in 1..e,
                 BeginComplete(p, e, a) \/ \E c \in Criteria : BeginCollectEvidence(p, e, a, c)
          PROVE  FreshInv'
      BY <2>3, <2>6 DEF BeginComplete, BeginCollectEvidence
    <2> QED
      BY <1>2, <2>4, <2>5, <2>6 DEF UnderLock
  <1>3. ASSUME NEW a \in 1..Len(log), FinishCollectEvidence(p, a) \/ FinishComplete(p, a)
        PROVE  FreshInv'
    <2>0. log # << >> /\ todo[p] = {} /\ base[p] = Len(log) /\ Latest(log).state = "running"
      BY <1>3 DEF FinishCollectEvidence, FinishComplete, Unmoved, HoldsAttempt, LedgerInv,
          ProcInv, WitnessStands, Witnessing
    <2>1. Latest(log) \in Revision
      BY <1>0, <2>0, LatestType
    <2>2. \A c, o : EvidenceRevision(log, c, o).state # "completed"
      BY <2>0, <2>1 DEF EvidenceRevision, WithReceipt, Revision
    <2> QED
      BY <1>0, <1>3, <2>0, <2>2, ProposeKeepsFresh DEF FinishCollectEvidence, FinishComplete
  <1>4. ASSUME NEW c \in Criteria, WitnessEvidence(p, c) \/ WitnessAgain(p, c)
        PROVE  FreshInv'
    <2>1. CASE Return(p)
      BY <1>0, <1>4, <2>1, StepKeepsFresh DEF WitnessEvidence, WitnessAgain, Return, Store
    <2>2. CASE ~Return(p)
      <3>1. /\ UNCHANGED <<log, workspace, op, base, next, touched>>
            /\ \E place \in {"relock", "witness"} : pc' = [pc EXCEPT ![p] = place]
            /\ \A q \in Proc \ {p} : todo'[q] = todo[q]
        BY <1>0, <1>4, <2>2 DEF WitnessEvidence, WitnessAgain, Store, Goto, ProcTypes
      <3>2. op[p] = "complete" => StillValid(p, c) /\ todo'[p] = todo[p] \ {c}
        BY <1>0, <1>4, <2>2 DEF WitnessEvidence, WitnessAgain, ProcTypes
      <3>3. FreshStands(p)'
        BY <1>0, <3>1, <3>2 DEF ProcTypes, FreshInv, FreshStands, IsCompleting, StillValid
      <3> QED
        BY <1>0, <3>1, <3>3, QuietKeepsFresh DEF ProcTypes
    <2> QED
      BY <2>1, <2>2
  <1> QED
    BY <1>1, <1>2, <1>3, <1>4 DEF Calling

\* A commit moves the log on, and what others compared is then stale by their base.
LEMMA CommitKeepsFresh ==
    ASSUME TypeOK, LedgerInv, FreshInv, NEW p \in Proc, CommitRevision(p)
    PROVE  FreshInv'
  <1>0. ProcTypes /\ log \in Seq(Revision) /\ workspace' = workspace
    BY TypeParts DEF TypeOK, CommitRevision
  <1>1. \E place \in {"unlock", "project", "rename"} : Leave(p, place) \/ Step(p, place)
    BY DEF CommitRevision, AfterCommit
  <1>2. CASE log' = log
    BY <1>0, <1>1, <1>2, StepKeepsFresh
  <1>3. CASE log' # log
    <2>1. log' = Append(log, next[p]) /\ next[p] \in Revision
      BY <1>0, <1>3 DEF CommitRevision, ProcTypes
    <2>2. Len(log') = Len(log) + 1 /\ Len(log) \in Nat
      BY <1>0, <2>1, AppendKeeps
    <2>3. ASSUME NEW q \in Proc PROVE FreshStands(q)'
      <3>1. base[q] \in Nat /\ base[q] <= Len(log) /\ base'[q] \in {base[q], 0}
        BY <1>0, <1>1 DEF ProcTypes, LedgerInv, ProcInv, Leave, Step, Goto
      <3>2. base'[q] # Len(log')
        BY <2>2, <3>1
      <3>3. pc'[q] = "commit" => pc[q] = "commit" /\ next'[q] = next[q] /\ todo'[q] = todo[q]
        BY <1>0, <1>1 DEF ProcTypes, Leave, Step, Goto
      <3> QED
        BY <3>2, <3>3 DEF FreshInv, FreshStands
    <2> QED
      BY <2>3 DEF FreshInv
  <1> QED
    BY <1>2, <1>3

\* An edit is noted for every process that has compared.
LEMMA EnvironmentKeepsFresh ==
    ASSUME TypeOK, LedgerInv, FreshInv,
           \/ Create
           \/ LockAges
           \/ \E c \in Criteria : \E o \in Visible(c) : Edit(c, o)
           \/ UNCHANGED vars
    PROVE  FreshInv'
  <1>0. ProcTypes /\ workspace \in [Criteria -> Observations \cup {"unreadable"}]
    BY TypeParts DEF TypeOK
  <1>1. CASE Create
    BY <1>1 DEF Create, procVars, LedgerInv, ProcInv, FreshInv, FreshStands, IsCompleting
  <1>2. CASE LockAges
    BY <1>2 DEF LockAges, procVars, FreshInv, FreshStands, IsCompleting
  <1>3. ASSUME NEW c \in Criteria, NEW o, Edit(c, o) PROVE FreshInv'
    <2>1. ASSUME NEW q \in Proc PROVE FreshStands(q)'
      <3>1. /\ UNCHANGED <<log, pc, op, base, next, todo>>
            /\ \A d \in Criteria \ {c} : workspace'[d] = workspace[d]
            /\ IsCompleting(q) => touched'[q] = touched[q] \cup {c}
        BY <1>0, <1>3, <2>1 DEF Edit, IsCompleting, ProcTypes
      <3> QED
        BY <2>1, <3>1 DEF FreshInv, FreshStands, IsCompleting
    <2> QED
      BY <2>1 DEF FreshInv
  <1>4. CASE UNCHANGED vars
    BY <1>4 DEF vars, procVars, FreshInv, FreshStands, IsCompleting
  <1> QED
    BY <1>1, <1>2, <1>3, <1>4

\* Every step keeps what a completion rests on.
LEMMA NextKeepsFresh ==
    ASSUME TypeOK, LedgerInv, FreshInv, [Next]_vars
    PROVE  FreshInv'
  <1>0. ProcTypes
    BY TypeParts
  <1>1. ASSUME NEW p \in Proc, Locking(p) PROVE FreshInv'
    <2>1. /\ UNCHANGED <<log, workspace>>
          /\ \E place \in Where \ {"commit"} : Leave(p, place) \/ Step(p, place)
      BY <1>1 DEF Locking, TryMkdir, RelockFails, StatLock, Takeover, RetryMkdir, CreateOwner,
          UndoLock, RemoveOwner, RemoveLock, Return, Store, Where
    <2> QED
      BY <1>0, <2>1, StepKeepsFresh
  <1>2. ASSUME NEW p \in Proc, \/ ProjectState(p) \/ ProjectionFails(p) \/ PurgeItem(p)
                               \/ Crash(p)
        PROVE  FreshInv'
    BY <1>0, <1>2, StepKeepsFresh
       DEF ProjectState, ProjectionFails, PurgeItem, Crash, Return, Store
  <1> QED
    BY <1>1, <1>2, CallingKeepsFresh, CommitKeepsFresh, EnvironmentKeepsFresh
       DEF Next, Publishing

(* Only Create and commitRevision add to the history.                       *)
LEMMA OnlyCommitPublishes ==
    ASSUME [Next]_vars, log' # log
    PROVE  Create \/ \E q \in Proc : CommitRevision(q)
  <1>1. ASSUME NEW p \in Proc, Locking(p) PROVE log' = log
    BY <1>1 DEF Locking, TryMkdir, RelockFails, StatLock, Takeover, RetryMkdir, CreateOwner,
        UndoLock, RemoveOwner, RemoveLock, Store
  <1>2. ASSUME NEW p \in Proc, Calling(p) PROVE log' = log
    BY <1>2 DEF Calling, Refuse, UnderLock, Start, Resume, Delete, Checkpoint, Pause,
        StartToolCall, FinishToolCall, RecordYodaReview, BeginComplete, BeginCollectEvidence,
        BeginTwoLock, FinishCollectEvidence, FinishComplete, Propose, WitnessEvidence,
        WitnessAgain, Store
  <1>3. ASSUME NEW p \in Proc, ProjectState(p) \/ ProjectionFails(p) \/ PurgeItem(p) \/ Crash(p)
        PROVE  log' = log
    BY <1>3 DEF ProjectState, ProjectionFails, PurgeItem, Crash, Store
  <1>4. ASSUME \/ LockAges
               \/ \E c \in Criteria : \E o \in Visible(c) : Edit(c, o)
               \/ UNCHANGED vars
        PROVE  log' = log
    BY <1>4 DEF LockAges, Edit, vars
  <1> QED
    BY <1>1, <1>2, <1>3, <1>4 DEF Next, Publishing

(* LedgerCompletionFresh: a completing revision is published only while     *)
(* every criterion nobody has edited since Complete began looks as its      *)
(* passing receipt says, whoever else locks, publishes or crashes meanwhile *)
(* (the second witness of Complete and the compare in commitRevision).      *)
THEOREM LedgerCompletionFresh == Spec => CompletionFresh
  <1>1. Init => TypeOK /\ LedgerInv /\ FreshInv
    <2>1. Init => FreshInv
      BY DEF Init, FreshInv, FreshStands, IsCompleting
    <2> QED
      BY <2>1, InitInvariant
  <1>2. ASSUME TypeOK, LedgerInv, FreshInv, [Next]_vars
        PROVE  TypeOK' /\ LedgerInv' /\ FreshInv'
    BY <1>2, StepRefines, NextKeepsFresh
  <1>3. ASSUME TypeOK, LedgerInv, FreshInv, [Next]_vars
        PROVE  [\A p \in Proc : Completing(p) =>
                  \A c \in Criteria \ touched[p] :
                     workspace[c] = LatestEvidence(log, Len(log), c)]_vars
    <2> SUFFICES ASSUME NEW p \in Proc, Completing(p), NEW c \in Criteria \ touched[p]
                 PROVE  workspace[c] = LatestEvidence(log, Len(log), c)
      OBVIOUS
    <2>0. ProcTypes /\ pc[p] = "commit" /\ log' # log /\ pc'[p] # "commit" /\ next[p].state = "completed"
      BY <1>3, TypeParts DEF Completing
    <2>1. ~Create
      BY <1>3, <2>0 DEF Create, LedgerInv, ProcInv
    <2>2. PICK q \in Proc : CommitRevision(q)
      BY <1>3, <2>0, <2>1, OnlyCommitPublishes
    <2>3. q = p
      BY <2>0, <2>2 DEF CommitRevision, Step, Goto, Leave, ProcTypes
    <2>4. base[p] = Len(log)
      BY <2>0, <2>2, <2>3 DEF CommitRevision
    <2> QED
      BY <1>3, <2>0, <2>4 DEF FreshInv, FreshStands, IsCompleting
  <1> QED
    BY <1>1, <1>2, <1>3, PTL DEF Spec, CompletionFresh
-----------------------------------------------------------------------------
(***************************************************************************)
(* The readers of the ledger.  Revisions are only added to a history, so   *)
(* what was read of one is what a beginning of it holds, for good; a       *)
(* listing shows every item it began with or has it still to look at.      *)
(***************************************************************************)
PartName == {"item", "transitions", "evidences", "toolCalls", "yodaReviews"}
Extracts == {Extract(part, l) : part \in PartName, l \in Seq(Revision)}

\* (h: the histories.)  What an export under way has read was read at revisions from
\* the first one on.
ExportSound(v, h) ==
  /\ v = [call |-> "export", item |-> v.item, parts |-> v.parts]
  /\ v.item \in Item /\ v.parts \in Seq(Extracts) /\ Len(v.parts) <= 5
  /\ \A k \in 1..Len(v.parts) : \E n \in 1..Len(h[v.item]) :
       /\ v.parts[k] = Extract(ExportOrder[k], SubSeq(h[v.item], 1, n))
       /\ v.parts[1][1] <= n

\* An item that was there is still to be looked at or was seen as late as that.
ListingSound(v, h) ==
  /\ v = [call |-> v.call, entries |-> v.entries, left |-> v.left, seen |-> v.seen]
  /\ DOMAIN v.entries \subseteq Item
  /\ \A i \in DOMAIN v.entries :
       /\ v.entries[i] \in Nat /\ v.entries[i] <= Len(h[i])
       /\ i \in v.left \/ \E s \in v.seen : s.item = i /\ s.revision >= v.entries[i]

ReaderSound(v, h) ==
  /\ v.call \in {"none", "failed", "next", "export", "list", "active"}
  /\ v.call = "export" => ExportSound(v, h)
  /\ v.call \in {"list", "active"} => ListingSound(v, h)

ReadersInv ==
  /\ history \in [Item -> Seq(Revision)]
  /\ reader = [r \in Reader |-> reader[r]]
  /\ \A r \in Reader : ReaderSound(reader[r], history)

Grown(h, g) ==
  /\ h \in [Item -> Seq(Revision)] /\ g \in [Item -> Seq(Revision)]
  /\ \A i \in Item : Len(h[i]) <= Len(g[i]) /\ \A n \in 1..Len(h[i]) : g[i][n] = h[i][n]

\* What was the beginning of a history is the beginning of what it has grown to.
LEMMA BeginningStays ==
  ASSUME NEW s \in Seq(Revision), NEW t \in Seq(Revision), NEW n \in 1..Len(s), Len(s) <= Len(t),
         \A k \in 1..Len(s) : t[k] = s[k]
  PROVE  n \in 1..Len(t) /\ SubSeq(s, 1, n) = SubSeq(t, 1, n)
<1>1. SubSeq(s, 1, n) = [k \in 1..n |-> s[k]] /\ SubSeq(t, 1, n) = [k \in 1..n |-> t[k]]
  OBVIOUS
<1>2. \A k \in 1..n : s[k] = t[k]
  OBVIOUS
<1> QED
  BY <1>1, <1>2

\* What a reader holds stands when the histories grow.
LEMMA SoundStays ==
  ASSUME NEW h, NEW g, Grown(h, g), NEW v, ReaderSound(v, h)
  PROVE  ReaderSound(v, g)
<1>1. ASSUME v.call = "export" PROVE ExportSound(v, g)
  <2>1. ExportSound(v, h)
    BY <1>1 DEF ReaderSound
  <2>2. ASSUME NEW k \in 1..Len(v.parts)
        PROVE  \E n \in 1..Len(g[v.item]) :
                 /\ v.parts[k] = Extract(ExportOrder[k], SubSeq(g[v.item], 1, n))
                 /\ v.parts[1][1] <= n
    <3>1. PICK n \in 1..Len(h[v.item]) :
            v.parts[k] = Extract(ExportOrder[k], SubSeq(h[v.item], 1, n)) /\ v.parts[1][1] <= n
      BY <2>1, <2>2 DEF ExportSound
    <3>2. h[v.item] \in Seq(Revision) /\ g[v.item] \in Seq(Revision) /\ Len(h[v.item]) <= Len(g[v.item])
          /\ \A m \in 1..Len(h[v.item]) : g[v.item][m] = h[v.item][m]
      BY <2>1 DEF ExportSound, Grown
    <3>3. n \in 1..Len(g[v.item]) /\ SubSeq(h[v.item], 1, n) = SubSeq(g[v.item], 1, n)
      BY <3>2, BeginningStays
    <3> QED
      BY <3>1, <3>3
  <2> QED
    BY <2>1, <2>2 DEF ExportSound
<1>2. ASSUME v.call \in {"list", "active"} PROVE ListingSound(v, g)
  <2>1. ListingSound(v, h)
    BY <1>2 DEF ReaderSound
  <2>2. ASSUME NEW i \in DOMAIN v.entries PROVE v.entries[i] <= Len(g[i])
    <3>1. i \in Item /\ v.entries[i] \in Nat /\ v.entries[i] <= Len(h[i])
      BY <2>1 DEF ListingSound
    <3>2. Len(h[i]) <= Len(g[i]) /\ Len(h[i]) \in Nat /\ Len(g[i]) \in Nat
      BY <3>1 DEF Grown
    <3> QED
      BY <3>1, <3>2
  <2> QED
    BY <2>1, <2>2 DEF ListingSound
<1> QED
  BY <1>1, <1>2 DEF ReaderSound

\* Histories that no step changes have grown by nothing.
LEMMA NothingGrown == ASSUME NEW h \in [Item -> Seq(Revision)] PROVE Grown(h, h)
  BY DEF Grown

\* The revisions that writers may propose are revisions.
LEMMA CandidateTypes ==
  ASSUME NEW l \in Seq(Revision), l # << >>, NEW new \in Candidates(l)
  PROVE  new \in Revision
<1>1. Len(l) \in Nat \ {0} /\ Len(l) + 1 \in Nat /\ \A k \in 1..Len(l) : k \in Nat
  BY LatestType
<1>2. /\ StartRevision(l) \in Revision /\ ResumeRevision(l) \in Revision /\ TombstoneRevision \in Revision
      /\ PauseRevision(l) \in Revision /\ CompleteRevision(l) \in Revision
      /\ \A a \in 1..Len(l) : CheckpointRevision(l, a) \in Revision
  BY <1>1, RevisionTypes, CreatedType
<1>3. StartToolCallRevision(l) \in Revision
  <2>1. [kind |-> "tool", of |-> Len(l) + 1, outcome |-> "started"] \in Receipt
    BY <1>1, ReceiptTypes
  <2> QED
    BY <2>1, RevisionTypes DEF StartToolCallRevision
<1>4. \A k \in 1..Len(l) : FinishToolCallRevision(l, k, "succeeded") \in Revision
  <2>1. \A k \in 1..Len(l) : [kind |-> "tool", of |-> k, outcome |-> "succeeded"] \in Receipt
    BY <1>1, ReceiptTypes DEF ToolCallOutcome
  <2> QED
    BY <2>1, RevisionTypes DEF FinishToolCallRevision
<1>5. \A d \in ReviewDecision : ReviewRevision(l, Len(l), d) \in Revision
  <2>1. \A d \in ReviewDecision : [kind |-> "yoda", of |-> Len(l), outcome |-> d] \in Receipt
    BY <1>1, ReceiptTypes
  <2> QED
    BY <2>1, RevisionTypes DEF ReviewRevision
<1>6. \A c \in Criteria : \A o \in Observation(c) : EvidenceRevision(l, c, o) \in Revision
  <2>1. \A c \in Criteria : \A o \in Observation(c) : [kind |-> "evidence", of |-> c, outcome |-> o] \in Receipt
    BY ReceiptTypes DEF Observation, Observations
  <2> QED
    BY <2>1, RevisionTypes DEF EvidenceRevision
<1> QED
  BY <1>2, <1>3, <1>4, <1>5, <1>6 DEF Candidates

\* Writers only add to histories.
LEMMA WritersAdd ==
  ASSUME ReadersInv, NEW i \in Item, CreateItem(i) \/ Commit(i) \/ Purge(i) \/ Damage(i)
  PROVE  Grown(history, history') /\ UNCHANGED reader
<1>1. history \in [Item -> Seq(Revision)] /\ history[i] \in Seq(Revision)
  BY DEF ReadersInv
<1>2. CASE CreateItem(i)
  <2>1. history' = [history EXCEPT ![i] = <<CreatedRevision>>] /\ Len(history[i]) = 0
    BY <1>2 DEF CreateItem
  <2>2. <<CreatedRevision>> \in Seq(Revision) /\ Len(<<CreatedRevision>>) = 1
    BY CreatedType
  <2>3. history' \in [Item -> Seq(Revision)]
    BY <1>1, <2>1, <2>2
  <2> QED
    BY <1>1, <1>2, <2>1, <2>2, <2>3 DEF CreateItem, Grown
<1>3. CASE Commit(i)
  <2>1. PICK new \in Candidates(history[i]) : history' = [history EXCEPT ![i] = Append(@, new)]
    BY <1>3 DEF Commit
  <2>2. history[i] # << >>
    BY <1>3 DEF Commit, Present
  <2>3. new \in Revision
    BY <1>1, <2>2, CandidateTypes
  <2>4. /\ Append(history[i], new) \in Seq(Revision) /\ Len(Append(history[i], new)) = Len(history[i]) + 1
        /\ \A n \in 1..Len(history[i]) : Append(history[i], new)[n] = history[i][n]
    BY <1>1, <2>3
  <2>5. history' \in [Item -> Seq(Revision)]
    BY <1>1, <2>1, <2>4
  <2>6. \A j \in Item \ {i} : history'[j] = history[j]
    BY <1>1, <2>1
  <2>7. history'[i] = Append(history[i], new)
    BY <1>1, <2>1
  <2>8. Len(history[i]) <= Len(history'[i]) /\ \A n \in 1..Len(history[i]) : history'[i][n] = history[i][n]
    BY <1>1, <2>4, <2>7
  <2>9. \A j \in Item \ {i} : Len(history[j]) <= Len(history'[j])
    BY <1>1, <2>6
  <2> QED
    BY <1>1, <1>3, <2>5, <2>6, <2>8, <2>9 DEF Commit, Grown
<1>4. CASE Purge(i) \/ Damage(i)
  BY <1>1, <1>4, NothingGrown DEF Purge, Damage
<1> QED
  BY <1>2, <1>3, <1>4

\* One reader has got on, with something sound; the histories are as they were.
LEMMA ReaderGoesOn ==
  ASSUME ReadersInv, NEW r \in Reader, NEW value, Answers(r, value), ReaderSound(value, history)
  PROVE  ReadersInv'
<1>1. history' = history /\ reader' = [reader EXCEPT ![r] = value]
  BY DEF Answers, HistoriesStay
<1>2. reader' = [q \in Reader |-> reader'[q]] /\ reader'[r] = value /\ \A q \in Reader \ {r} : reader'[q] = reader[q]
  BY <1>1 DEF ReadersInv
<1>3. \A q \in Reader : ReaderSound(reader'[q], history')
  BY <1>1, <1>2 DEF ReadersInv
<1> QED
  BY <1>1, <1>2, <1>3 DEF ReadersInv

\* A call that fails, or was told one item, holds nothing.
LEMMA HoldsNothing ==
  /\ ReaderSound(Failed, history) /\ ReaderSound(NoReading, history)
  /\ \A i : ReaderSound(nextProjection(i), history)
  BY DEF ReaderSound, Failed, NoReading, nextProjection

\* What can be inspected has a revision to show (inspectUnlocked).
LEMMA ItemShown ==
  ASSUME ReadersInv, NEW i, CanInspect(i)
  PROVE  i \in Item /\ history[i] \in Seq(Revision) /\ Len(history[i]) \in Nat \ {0}
<1>1. i \in Item /\ history[i] # << >>
  BY DEF CanInspect, Present
<1> QED
  BY <1>1 DEF ReadersInv

\* The first part of an export is the number of revisions, the others are read by name.
LEMMA OrderOfExport ==
  /\ Len(ExportOrder) = 5 /\ ExportOrder[1] = "item"
  /\ \A k \in 1..5 : ExportOrder[k] \in PartName
  /\ \A name \in PartName : \E k \in 1..5 : ExportOrder[k] = name
  /\ \A j, k \in 1..5 : ExportOrder[j] = ExportOrder[k] => j = k
  /\ DOMAIN ExportOrder = 1..5
<1>1. /\ Len(ExportOrder) = 5 /\ DOMAIN ExportOrder = 1..5
      /\ ExportOrder[1] = "item" /\ ExportOrder[2] = "transitions" /\ ExportOrder[3] = "evidences"
      /\ ExportOrder[4] = "toolCalls" /\ ExportOrder[5] = "yodaReviews"
  BY DEF ExportOrder
<1>2. \A k \in 1..5 : k = 1 \/ k = 2 \/ k = 3 \/ k = 4 \/ k = 5
  OBVIOUS
<1>3. \A k \in 1..5 : ExportOrder[k] \in PartName
  BY <1>1, <1>2 DEF PartName
<1>4. \A name \in PartName : \E k \in 1..5 : ExportOrder[k] = name
  <2>1. 1 \in 1..5 /\ 2 \in 1..5 /\ 3 \in 1..5 /\ 4 \in 1..5 /\ 5 \in 1..5
    OBVIOUS
  <2> QED
    BY <1>1, <2>1 DEF PartName
<1>5. \A j, k \in 1..5 : ExportOrder[j] = ExportOrder[k] => j = k
  BY <1>1, <1>2
<1> QED
  BY <1>1, <1>3, <1>4, <1>5

\* The item part of an export is its revision.
LEMMA ItemPart == \A l : Extract("item", l) = <<Len(l)>>
  BY DEF Extract

\* Beginning an export, and reading one part after the other.
LEMMA ExportGoesOn ==
  ASSUME ReadersInv, NEW r \in Reader, ExportStep(r) \/ \E i \in Item : BeginExport(r, i)
  PROVE  ReadersInv'
<1>1. ASSUME NEW i \in Item, BeginExport(r, i) PROVE ReadersInv'
  <2> DEFINE value == [call |-> "export", item |-> i, parts |-> << >>]
  <2>1. Answers(r, value)
    BY <1>1 DEF BeginExport
  <2>2. << >> \in Seq(Extracts) /\ Len(<< >>) = 0
    OBVIOUS
  <2>3. ExportSound(value, history)
    BY <2>2 DEF ExportSound
  <2>4. ReaderSound(value, history)
    BY <2>3 DEF ReaderSound
  <2> HIDE DEF value
  <2> QED
    BY <2>1, <2>4, ReaderGoesOn
<1>2. ASSUME ExportStep(r), ~CanInspect(reader[r].item) PROVE ReadersInv'
  <2>1. Answers(r, Failed)
    BY <1>2 DEF ExportStep
  <2> QED
    BY <2>1, HoldsNothing, ReaderGoesOn
<1>3. ASSUME ExportStep(r), CanInspect(reader[r].item) PROVE ReadersInv'
  <2> DEFINE v == reader[r]
             m == Len(v.parts)
             h == history[v.item]
             new == Extract(ExportOrder[m + 1], h)
             value == [v EXCEPT !.parts = Append(@, new)]
  <2>1. v.call = "export" /\ ExportSound(v, history) /\ m < 5
    BY <1>3, OrderOfExport DEF ExportStep, ReadersInv, ReaderSound
  <2>2. Answers(r, value)
    BY <1>3 DEF ExportStep
  <2>3. h \in Seq(Revision) /\ Len(h) \in Nat \ {0} /\ SubSeq(h, 1, Len(h)) = h /\ v.item \in Item
    BY <1>3, ItemShown
  <2>4. v.parts \in Seq(Extracts) /\ m \in Nat /\ m + 1 \in 1..5
    BY <2>1 DEF ExportSound
  <2>5. new \in Extracts
    BY <2>3, <2>4, OrderOfExport DEF Extracts
  <2> DEFINE parts == Append(v.parts, new)
  <2>6. /\ parts \in Seq(Extracts) /\ Len(parts) = m + 1 /\ parts[m + 1] = new
        /\ \A k \in 1..m : parts[k] = v.parts[k]
    <3> HIDE DEF new
    <3> QED
      BY <2>4, <2>5
  <2>7. value = [call |-> "export", item |-> v.item, parts |-> parts]
    <3>1. v = [call |-> "export", item |-> v.item, parts |-> v.parts]
      BY <2>1 DEF ExportSound
    <3> HIDE DEF v, new
    <3> QED
      BY <3>1
  <2>8. \A k \in 1..m : \E n \in 1..Len(h) : parts[k] = Extract(ExportOrder[k], SubSeq(h, 1, n)) /\ v.parts[1][1] <= n
    <3>1. \A k \in 1..m : \E n \in 1..Len(h) :
            v.parts[k] = Extract(ExportOrder[k], SubSeq(h, 1, n)) /\ v.parts[1][1] <= n
      BY <2>1 DEF ExportSound
    <3> HIDE DEF parts, m, h, v
    <3> QED
      BY <2>6, <3>1
  <2>9. parts[1][1] <= Len(h) /\ (m # 0 => parts[1] = v.parts[1])
    <3>1. CASE m = 0
      <4>1. parts[1] = Extract("item", h)
        BY <2>6, <3>1, OrderOfExport
      <4>2. parts[1] = <<Len(h)>>
        BY <4>1, ItemPart
      <4> QED
        BY <2>3, <3>1, <4>2
    <3>2. CASE m # 0
      <4>1. 1 \in 1..m
        BY <2>4, <3>2
      <4>2. parts[1] = v.parts[1]
        BY <2>6, <4>1
      <4>3. PICK n \in 1..Len(h) : v.parts[1] = Extract(ExportOrder[1], SubSeq(h, 1, n))
        BY <2>1, <4>1 DEF ExportSound
      <4>4. SubSeq(h, 1, n) \in Seq(Revision) /\ Len(SubSeq(h, 1, n)) = n
        BY <2>3, <4>3
      <4>5. v.parts[1] = <<n>>
        BY <4>3, <4>4, OrderOfExport, ItemPart
      <4> QED
        BY <2>3, <4>2, <4>3, <4>5
    <3> QED
      BY <3>1, <3>2
  <2>10. \A k \in 1..m + 1 : \E n \in 1..Len(h) : parts[k] = Extract(ExportOrder[k], SubSeq(h, 1, n)) /\ parts[1][1] <= n
    <3>1. ASSUME NEW k \in 1..m PROVE \E n \in 1..Len(h) : parts[k] = Extract(ExportOrder[k], SubSeq(h, 1, n)) /\ parts[1][1] <= n
      <4>1. m # 0
        BY <2>4
      <4> HIDE DEF parts, m, h, v
      <4> QED
        BY <2>8, <2>9, <4>1
    <3>2. \E n \in 1..Len(h) : parts[m + 1] = Extract(ExportOrder[m + 1], SubSeq(h, 1, n)) /\ parts[1][1] <= n
      <4>1. Len(h) \in 1..Len(h)
        BY <2>3
      <4>2. parts[m + 1] = Extract(ExportOrder[m + 1], SubSeq(h, 1, Len(h)))
        BY <2>3, <2>6
      <4> HIDE DEF parts, h, m, v
      <4> QED
        BY <2>9, <4>1, <4>2
    <3>3. \A k \in 1..m + 1 : k \in 1..m \/ k = m + 1
      BY <2>4
    <3> HIDE DEF parts, h, m, v
    <3> QED
      BY <3>1, <3>2, <3>3
  <2>11. ExportSound(value, history)
    <3>1. value.item = v.item /\ value.parts = parts
      BY <2>7
    <3>2. Len(value.parts) <= 5
      BY <2>4, <2>6, <3>1
    <3> HIDE DEF parts, m, v, value
    <3> QED
      BY <2>3, <2>6, <2>7, <2>10, <3>1, <3>2 DEF ExportSound
  <2>12. ReaderSound(value, history)
    <3>1. value.call = "export"
      BY <2>7
    <3> HIDE DEF value
    <3> QED
      BY <2>11, <3>1 DEF ReaderSound
  <2> HIDE DEF value
  <2> QED
    BY <2>2, <2>12, ReaderGoesOn
<1> QED
  BY <1>1, <1>2, <1>3

\* Beginning a listing, and looking at one item after the other.
LEMMA ListingGoesOn ==
  ASSUME ReadersInv, NEW r \in Reader, InspectNext(r) \/ \E call \in {"list", "active"} : BeginListing(r, call)
  PROVE  ReadersInv'
<1>1. ASSUME NEW call \in {"list", "active"}, BeginListing(r, call) PROVE ReadersInv'
  <2> DEFINE value == [call |-> call, entries |-> [i \in Present |-> Len(history[i])], left |-> Present, seen |-> {}]
  <2>1. Answers(r, value) \/ Answers(r, Failed)
    BY <1>1 DEF BeginListing
  <2>2. Present \subseteq Item /\ \A i \in Present : Len(history[i]) \in Nat /\ Len(history[i]) <= Len(history[i])
    BY DEF Present, ReadersInv
  <2>3. ListingSound(value, history)
    <3>1. value.entries = [i \in Present |-> Len(history[i])] /\ value.left = Present
      OBVIOUS
    <3> QED
      BY <2>2, <3>1 DEF ListingSound
  <2>4. ReaderSound(value, history)
    <3>1. value.call = call
      OBVIOUS
    <3> HIDE DEF value
    <3> QED
      BY <2>3, <3>1 DEF ReaderSound
  <2> HIDE DEF value
  <2> QED
    BY <2>1, <2>4, HoldsNothing, ReaderGoesOn
<1>2. ASSUME InspectNext(r) PROVE ReadersInv'
  <2> DEFINE v == reader[r]
             i == FirstName(v.left)
             value == [call |-> v.call, entries |-> v.entries, left |-> v.left \ {i}, seen |-> v.seen \cup {Shown(i)}]
  <2>1. v.call \in {"list", "active"} /\ ListingSound(v, history)
    BY <1>2 DEF InspectNext, ReadersInv, ReaderSound
  <2>2. Answers(r, IF ~CanInspect(i) THEN Failed ELSE value)
    BY <1>2 DEF InspectNext, OnUnreadable
  <2>3. CASE ~CanInspect(i)
    <3>1. Answers(r, Failed)
      BY <2>2, <2>3
    <3> QED
      BY <3>1, HoldsNothing, ReaderGoesOn
  <2>4. CASE CanInspect(i)
    <3>1. Answers(r, value)
      BY <2>2, <2>4
    <3>2. value = [call |-> v.call, entries |-> v.entries, left |-> v.left \ {i}, seen |-> v.seen \cup {Shown(i)}]
      OBVIOUS
    <3>3. Shown(i).item = i /\ Shown(i).revision = Len(history[i]) /\ Len(history[i]) \in Nat
      BY <2>4, ItemShown DEF Shown
    <3> HIDE DEF i
    <3>4. ASSUME NEW k \in DOMAIN v.entries
          PROVE  k \in v.left \ {i} \/ \E s \in v.seen \cup {Shown(i)} : s.item = k /\ s.revision >= v.entries[k]
      <4>1. v.entries[k] \in Nat /\ v.entries[k] <= Len(history[k])
            /\ (k \in v.left \/ \E s \in v.seen : s.item = k /\ s.revision >= v.entries[k])
        BY <2>1, <3>4 DEF ListingSound
      <4>2. CASE k = i
        BY <3>3, <4>1, <4>2
      <4>3. CASE k # i
        BY <4>1, <4>3
      <4> QED
        BY <4>2, <4>3
    <3>5. ListingSound(value, history)
      <4>1. value.call = v.call /\ value.entries = v.entries /\ value.left = v.left \ {i} /\ value.seen = v.seen \cup {Shown(i)}
        BY <3>2
      <4> HIDE DEF value, v
      <4> QED
        BY <2>1, <3>2, <3>4, <4>1 DEF ListingSound
    <3>6. ReaderSound(value, history)
      <4>1. value.call \in {"list", "active"}
        BY <2>1, <3>2
      <4> HIDE DEF value
      <4> QED
        BY <3>5, <4>1 DEF ReaderSound
    <3> HIDE DEF value
    <3> QED
      BY <3>1, <3>6, ReaderGoesOn
  <2> QED
    BY <2>3, <2>4
<1> QED
  BY <1>1, <1>2

\* What is told of one item, and the end of a call.
LEMMA CallsEnd ==
  ASSUME ReadersInv, NEW r \in Reader, ResolveActive(r) \/ CallOver(r)
  PROVE  ReadersInv'
<1>1. \/ Answers(r, Failed) \/ Answers(r, NoReading) \/ \E i : Answers(r, nextProjection(i))
  BY DEF ResolveActive, CallOver, NextAnswer
<1> QED
  BY <1>1, HoldsNothing, ReaderGoesOn

\* Every step of a writer or a reader keeps all of it.
LEMMA ReadersStep == ReadersInv /\ [ReadersNext]_readerVars => ReadersInv'
<1> SUFFICES ASSUME ReadersInv, [ReadersNext]_readerVars PROVE ReadersInv'
  OBVIOUS
<1>1. ASSUME Grown(history, history'), UNCHANGED reader PROVE ReadersInv'
  <2>1. \A r \in Reader : ReaderSound(reader[r], history')
    BY <1>1, SoundStays DEF ReadersInv
  <2>2. history' \in [Item -> Seq(Revision)]
    BY <1>1 DEF Grown
  <2> QED
    BY <1>1, <2>1, <2>2 DEF ReadersInv
<1>2. CASE \E i \in Item : CreateItem(i) \/ Commit(i) \/ Purge(i) \/ Damage(i)
  BY <1>1, <1>2, WritersAdd
<1>3. CASE \E r \in Reader : \/ \E i \in Item : BeginExport(r, i)
                             \/ \E call \in {"list", "active"} : BeginListing(r, call)
                             \/ ExportStep(r) \/ InspectNext(r) \/ ResolveActive(r) \/ CallOver(r)
  BY <1>3, ExportGoesOn, ListingGoesOn, CallsEnd
<1>4. CASE UNCHANGED readerVars
  <2>1. Grown(history, history') /\ UNCHANGED reader
    BY <1>4, NothingGrown DEF readerVars, ReadersInv
  <2> QED
    BY <1>1, <2>1
<1> QED
  BY <1>2, <1>3, <1>4 DEF ReadersNext

\* An answer is what a sound reader holds when it has looked at everything.
LEMMA AccountedForFromInv == ReadersInv => AnswersAccountedFor
<1> SUFFICES ASSUME ReadersInv, NEW r \in Reader, Answered(r)
    PROVE  /\ reader[r].call = "export" =>
                \A name \in {"transitions", "evidences", "toolCalls", "yodaReviews"} :
                  \E n \in Part(r, "item")[1] .. Len(history[reader[r].item]) :
                    Part(r, name) = Extract(name, SubSeq(history[reader[r].item], 1, n))
           /\ reader[r].call = "list" =>
                \A i \in DOMAIN reader[r].entries :
                  \E s \in reader[r].seen : s.item = i /\ s.revision >= reader[r].entries[i]
  BY DEF AnswersAccountedFor
<1>1. ASSUME reader[r].call = "export", NEW name \in {"transitions", "evidences", "toolCalls", "yodaReviews"}
      PROVE  \E n \in Part(r, "item")[1] .. Len(history[reader[r].item]) :
               Part(r, name) = Extract(name, SubSeq(history[reader[r].item], 1, n))
  <2> DEFINE v == reader[r]
             h == history[v.item]
  <2>1. ExportSound(v, history) /\ Len(v.parts) = 5
    BY <1>1, OrderOfExport DEF Answered, ReadersInv, ReaderSound
  <2>2. h \in Seq(Revision) /\ Len(h) \in Nat
    BY <2>1 DEF ExportSound, ReadersInv
  <2>3. \A x \in PartName : \E k \in 1..5 : ExportOrder[k] = x /\ Part(r, x) = v.parts[k]
    BY OrderOfExport DEF Part
  <2>4. PICK k \in 1..5 : ExportOrder[k] = name /\ Part(r, name) = v.parts[k]
    BY <2>3 DEF PartName
  <2>5. Part(r, "item") = v.parts[1]
    BY <2>3, OrderOfExport DEF PartName
  <2>6. PICK n \in 1..Len(h) : v.parts[k] = Extract(ExportOrder[k], SubSeq(h, 1, n)) /\ v.parts[1][1] <= n
    BY <2>1, <2>4 DEF ExportSound
  <2>7. v.parts[1][1] \in Nat
    <3>1. PICK m \in 1..Len(h) : v.parts[1] = Extract(ExportOrder[1], SubSeq(h, 1, m))
      BY <2>1 DEF ExportSound
    <3>2. Len(SubSeq(h, 1, m)) = m
      BY <2>2, <3>1
    <3>3. v.parts[1] = <<m>>
      BY <3>1, <3>2, OrderOfExport, ItemPart
    <3> QED
      BY <3>1, <3>3
  <2>8. n \in Part(r, "item")[1] .. Len(h)
    BY <2>2, <2>5, <2>6, <2>7
  <2> QED
    BY <2>4, <2>6, <2>8
<1>2. ASSUME reader[r].call = "list", NEW i \in DOMAIN reader[r].entries
      PROVE  \E s \in reader[r].seen : s.item = i /\ s.revision >= reader[r].entries[i]
  BY <1>2 DEF Answered, ReadersInv, ReaderSound, ListingSound
<1> QED
  BY <1>1, <1>2

\* For any items, readers, damaged files and histories, an export that succeeds has every
\* transition and receipt its state rests on, and a list leaves out no item (Export, List).
THEOREM AnswersAreAccountedFor == ReadersSpec => []AnswersAccountedFor
<1>1. ReadersInit => ReadersInv
  <2> SUFFICES ASSUME ReadersInit PROVE ReadersInv
    OBVIOUS
  <2>1. << >> \in Seq(Revision)
    OBVIOUS
  <2> QED
    BY <2>1, HoldsNothing DEF ReadersInit, ReadersInv
<1> QED
  BY <1>1, ReadersStep, AccountedForFromInv, PTL DEF ReadersSpec
=============================================================================
