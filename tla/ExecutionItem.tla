---------------------------- MODULE ExecutionItem ----------------------------
(***************************************************************************)
(* What the execution ledger (internal/execution) promises about one item: *)
(* its history is a single line of immutable revisions, each of which is   *)
(* the result of one whole operation applied to the revision before it.    *)
(* There are no processes, locks or crashes here; ExecutionLedger has      *)
(* them and is shown to implement ItemSpec.                                *)
(*                                                                         *)
(* log[n] is the revision file revisions/<n>.json.  Opaque random IDs are  *)
(* represented by the number of the revision that first publishes them:    *)
(* attempt n was created by revision n, tool call n was started by         *)
(* revision n.  0 stands for an empty ID.                                  *)
(***************************************************************************)
EXTENDS Integers, Sequences

CONSTANTS
    ArtifactCriteria,    \* criteria of type artifact_snapshot
    CommandCriteria,     \* criteria of type command_check
    RequireYodaReview    \* the contract's review gate

ASSUME ContractAssumption ==
    /\ ArtifactCriteria \cap CommandCriteria = {}
    /\ ArtifactCriteria \cup CommandCriteria # {}
    /\ RequireYodaReview \in BOOLEAN

VARIABLE log             \* the published revisions of the item, oldest first

Criteria == ArtifactCriteria \cup CommandCriteria

ItemState == {"ready", "running", "paused", "evaluating", "completed", "cancelled"}
AttemptState == {"none", "active", "interrupted", "completed"}
ToolCallOutcome == {"succeeded", "failed", "unavailable"}
ReviewDecision == {"approved", "rejected"}

(* What a witness can see of a criterion: the digest of an artifact, or the *)
(* exit status of a command.                                                *)
Observation(c) == IF c \in ArtifactCriteria THEN {"digestA", "digestB"}
                                            ELSE {"exit0", "exit1"}
Observations == {"digestA", "digestB", "exit0", "exit1"}
Passing == Observations \ {"exit1"}

(* The receipts that validateEvidenceReceipt, validateToolCallReceipt and   *)
(* validateYodaReviewReceipt admit.  A revision holds at most one.          *)
EvidenceReceipt == [kind : {"evidence"}, of : Criteria, outcome : Observations]
ToolCallReceipt == [kind : {"tool"}, of : Nat, outcome : {"started"} \cup ToolCallOutcome]
YodaReviewReceipt == [kind : {"yoda"}, of : Nat, outcome : ReviewDecision]
Receipt ==
    [kind : {"none"}, of : {0}, outcome : {"none"}]
      \cup EvidenceReceipt \cup ToolCallReceipt \cup YodaReviewReceipt

NoReceipt == [kind |-> "none", of |-> 0, outcome |-> "none"]

Revision ==
    [state : ItemState, active : Nat, attempt : Nat, mode : AttemptState,
     checkpoint : Nat, receipt : Receipt]

----------------------------------------------------------------------------
(* Reading the history.                                                     *)

Latest(l) == l[Len(l)]

IsEvidence(r, c) == r.receipt.kind = "evidence" /\ r.receipt.of = c
IsToolCall(r, k) == r.receipt.kind = "tool" /\ r.receipt.of = k

(* The outcome of the newest receipt for c among the first n revisions, or  *)
(* "none".  Receipts of earlier attempts count.                             *)
LatestEvidence(l, n, c) ==
    LET found == {i \in 1..n : IsEvidence(l[i], c)}
    IN  IF found = {} THEN "none"
        ELSE LET newest == CHOOSE i \in found : \A j \in found : j <= i
             IN  l[newest].receipt.outcome

(* The call k was started by attempt a and has no terminal receipt.         *)
OpenToolCall(l, a, k) ==
    /\ k \in 1..Len(l)
    /\ IsToolCall(l[k], k) /\ l[k].attempt = a
    /\ \A i \in (k + 1)..Len(l) : ~IsToolCall(l[i], k)

(* The caller's attempt is the one the item is running under.               *)
HoldsAttempt(l, a) ==
    /\ Latest(l).state = "running"
    /\ Latest(l).active = a
    /\ Latest(l).attempt = a

HoldsActiveAttempt(l, a) == HoldsAttempt(l, a) /\ Latest(l).mode = "active"

(* Mutant: an approval stays current whatever is recorded after it.         *)
CurrentApprovalEver(l, a) ==
    \E i \in 1..Len(l) : /\ l[i].receipt.kind = "yoda"
                         /\ l[i].receipt.outcome = "approved"
                         /\ l[i].attempt = a

(* currentYodaApproval: the newest review approves, and nothing has been    *)
(* recorded since.                                                          *)
CurrentApproval(l, a) ==
    /\ Latest(l).receipt.kind = "yoda"
    /\ Latest(l).receipt.outcome = "approved"
    /\ Latest(l).attempt = a

----------------------------------------------------------------------------
(* validateRevision: what every revision must satisfy to be published.      *)

ValidRevision(r) ==
    /\ r.receipt.kind \in {"tool", "yoda"} => r.state = "running"
    /\ r.attempt = 0 => r.active = 0
    /\ r.attempt # 0 =>
         /\ r.state = "running" => r.mode = "active" /\ r.active = r.attempt
         /\ r.state = "paused" =>
              r.mode = "interrupted" /\ r.active = 0 /\ r.checkpoint # 0
         /\ r.state = "completed" => r.mode = "completed" /\ r.active = 0
         /\ r.state \notin {"running", "paused", "completed"} => r.active = 0

(* One guard and one resulting revision per operation.                      *)

CreatedRevision ==
    [state |-> "ready", active |-> 0, attempt |-> 0, mode |-> "none",
     checkpoint |-> 0, receipt |-> NoReceipt]

CanStart(l) == Latest(l).state = "ready"
StartRevision(l) ==
    [state |-> "running", active |-> Len(l) + 1, attempt |-> Len(l) + 1,
     mode |-> "active", checkpoint |-> 0, receipt |-> NoReceipt]

CanCheckpoint(l, a) == HoldsActiveAttempt(l, a)
CheckpointRevision(l, a) ==
    [Latest(l) EXCEPT !.checkpoint = a, !.receipt = NoReceipt]

CanPause(l, a) == HoldsActiveAttempt(l, a) /\ Latest(l).checkpoint = a
PauseRevision(l) ==
    [Latest(l) EXCEPT !.state = "paused", !.active = 0, !.mode = "interrupted",
                      !.receipt = NoReceipt]

CanResume(l) ==
    /\ Latest(l).state = "paused"
    /\ Latest(l).checkpoint # 0
    /\ Latest(l).mode = "interrupted"
ResumeRevision(l) ==
    [Latest(l) EXCEPT !.state = "running", !.active = Len(l) + 1,
                      !.attempt = Len(l) + 1, !.mode = "active",
                      !.receipt = NoReceipt]

WithReceipt(l, kind, of, outcome) ==
    [Latest(l) EXCEPT !.receipt = [kind |-> kind, of |-> of, outcome |-> outcome]]

CanCollectEvidence(l, a) == HoldsActiveAttempt(l, a)
EvidenceRevision(l, c, o) == WithReceipt(l, "evidence", c, o)

CanStartToolCall(l, a) == HoldsActiveAttempt(l, a)
StartToolCallRevision(l) == WithReceipt(l, "tool", Len(l) + 1, "started")

CanFinishToolCall(l, a, k) == HoldsActiveAttempt(l, a) /\ OpenToolCall(l, a, k)
FinishToolCallRevision(l, k, o) == WithReceipt(l, "tool", k, o)

(* The signed envelope must be about the item's current revision.           *)
CanRecordReview(l, a, reviewed) ==
    HoldsActiveAttempt(l, a) /\ RequireYodaReview /\ reviewed = Len(l)
ReviewRevision(l, reviewed, d) == WithReceipt(l, "yoda", reviewed, d)

(* The checks Complete makes under its first lock ...                       *)
CanBeginComplete(l, a) ==
    HoldsAttempt(l, a) /\ (RequireYodaReview => CurrentApproval(l, a))
(* ... and, criterion by criterion, outside of it.                          *)
CanComplete(l, a) ==
    /\ CanBeginComplete(l, a)
    /\ \A c \in Criteria : LatestEvidence(l, Len(l), c) \in Passing
CompleteRevision(l) ==
    [Latest(l) EXCEPT !.state = "completed", !.active = 0, !.mode = "completed",
                      !.receipt = NoReceipt]

CanDelete(l) == Latest(l).state \notin {"running", "evaluating"}
TombstoneRevision == [CreatedRevision EXCEPT !.state = "cancelled"]

----------------------------------------------------------------------------
(* The atomic item.                                                         *)

(* r is the outcome of one whole operation on the history l.                *)
Successor(l, r) ==
    /\ ValidRevision(r)
    /\ \/ CanStart(l) /\ r = StartRevision(l)
       \/ CanResume(l) /\ r = ResumeRevision(l)
       \/ CanDelete(l) /\ r = TombstoneRevision
       \/ \E a \in 1..Len(l) :
            \/ CanCheckpoint(l, a) /\ r = CheckpointRevision(l, a)
            \/ CanPause(l, a) /\ r = PauseRevision(l)
            \/ CanComplete(l, a) /\ r = CompleteRevision(l)
            \/ CanStartToolCall(l, a) /\ r = StartToolCallRevision(l)
            \/ CanCollectEvidence(l, a)
                 /\ \E c \in Criteria : \E o \in Observation(c) :
                      r = EvidenceRevision(l, c, o)
            \/ \E k \in 1..Len(l) : CanFinishToolCall(l, a, k)
                 /\ \E o \in ToolCallOutcome : r = FinishToolCallRevision(l, k, o)
            \/ \E n \in 1..Len(l) : CanRecordReview(l, a, n)
                 /\ \E d \in ReviewDecision : r = ReviewRevision(l, n, d)

ItemInit == log = << >>

ItemCreate == log = << >> /\ log' = << CreatedRevision >>

ItemMutate ==
    /\ log # << >>
    /\ log' = Append(log, Latest(log'))
    /\ Successor(log, Latest(log'))

ItemNext == ItemCreate \/ ItemMutate

ItemSpec == ItemInit /\ [][ItemNext]_log

----------------------------------------------------------------------------
(* What the history of an item guarantees, whoever wrote it.                *)

(* CompletionEarned: an item is completed only on top of a revision in      *)
(* which every criterion's newest receipt passes and, when the contract     *)
(* asks for it, an approving review by the same attempt is the last thing   *)
(* recorded (Complete, currentYodaApproval).                                *)
CompletionEarned ==
    \A n \in 1..Len(log) : log[n].state = "completed" =>
        /\ \A c \in Criteria : LatestEvidence(log, n - 1, c) \in Passing
        /\ RequireYodaReview =>
             /\ log[n - 1].receipt.kind = "yoda"
             /\ log[n - 1].receipt.outcome = "approved"
             /\ log[n - 1].attempt = log[n].attempt

(* ToolCallOnce: a tool call has at most one terminal receipt, it comes     *)
(* after its start and is written by the attempt that started it            *)
(* (FinishToolCall).                                                        *)
ToolCallOnce ==
    \A n \in 1..Len(log) :
        (log[n].receipt.kind = "tool" /\ log[n].receipt.outcome # "started") =>
            LET k == log[n].receipt.of
            IN  /\ k < n /\ IsToolCall(log[k], k)
                /\ log[k].receipt.outcome = "started"
                /\ log[k].attempt = log[n].attempt
                /\ \A i \in (k + 1)..(n - 1) : ~IsToolCall(log[i], k)

(* HistorySound: both, of every history that the operations can write.      *)
HistorySound == CompletionEarned /\ ToolCallOnce
=============================================================================
