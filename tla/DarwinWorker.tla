---------------------------- MODULE DarwinWorker ----------------------------
(***************************************************************************)
(* Darwin's health jobs: a worker reads the product surfaces, plans at     *)
(* most MaxActions proposals, repairs stale managed state, publishes what  *)
(* is left as one immutable assessment per occurrence, and records the     *)
(* outcome as a maintenance receipt.  Workers of different occurrences run *)
(* at the same time; the occurrence guard keeps those of one occurrence    *)
(* apart and ends with its process.                                        *)
(***************************************************************************)
EXTENDS Integers, FiniteSets

CONSTANTS Worker,
          Housekeeping, Deep, Structural,   \* occurrences of the three jobs
          MaxActions,                       \* maxActions
          MaxChanges, MaxCrashes            \* bounds: surfaces change, workers stop

\* No worker is the mark of a free lock.
ASSUME WorkerAssumption == "free" \notin Worker

VARIABLES managed,      \* managed-state/current.json
          surface,      \* counts behind the other surfaces
          repairLock,   \* repair.lock, an OS lock
          guard,        \* holder of each occurrence's guard
          assessment,     \* proposals/<artifact id>.json, by occurrence
          receipts,     \* maintenance receipts of each occurrence
          worker,       \* place and locals of each worker
          stales, repairs,      \* history: times managed state became stale, repairs in force
          changes, darwinCrashes

healthVars == <<managed, surface, repairLock, guard, assessment, receipts, worker,
          stales, repairs, changes, darwinCrashes>>
healthHistory == <<stales, repairs, changes, darwinCrashes>>

Occurrence == Housekeeping \cup Deep \cup Structural
FreeLock == "free"
NoArtifact == {}
IdleWorker == [at |-> "idle"]
Terminal == {"succeeded", "reviewed_no_change", "proposal_emitted"}

HealthInit == /\ managed = [state |-> "stale", generation |-> 0, by |-> FreeLock]
        /\ surface = [scheduler_missed |-> 0, documents |-> 0]
        /\ repairLock = FreeLock
        /\ guard = [o \in Occurrence |-> FreeLock]
        /\ assessment = [o \in Occurrence |-> NoArtifact]
        /\ receipts = [o \in Occurrence |-> {}]
        /\ worker = [x \in Worker |-> IdleWorker]
        /\ stales = 1 /\ repairs = 0 /\ changes = 0 /\ darwinCrashes = 0

-----------------------------------------------------------------------------
\* LocalProductHealthBuilder.Build and BuildHealthPacket: a surface that is not
\* healthy is one observation with a code, a severity and a count.  State
\* documents are reviewed by the weekly job only.
HealthObservation(c, severity, n) == [code |-> c, severity |-> severity, count |-> n]
reviewStateDocuments(o) == IF o \in Deep THEN surface.documents ELSE 0
HealthObservations(o) ==
  {b \in {HealthObservation("scheduler_missed", 3, surface.scheduler_missed),
          HealthObservation("state_documents", 2, reviewStateDocuments(o)),
          HealthObservation("state_stale", 2, IF managed.state = "stale" THEN 1 ELSE 0)} : b.count > 0}

\* Plan: by severity, then count, then code; the first MaxActions.
CodeOrder == [scheduler_missed |-> 1, state_documents |-> 2, state_stale |-> 3]
Before(a, b) ==
  \/ a.severity > b.severity
  \/ a.severity = b.severity /\ a.count > b.count
  \/ a.severity = b.severity /\ a.count = b.count /\ CodeOrder[a.code] < CodeOrder[b.code]
HealthPlan(obs) ==
  {b.code : b \in {c \in obs : Cardinality({d \in obs : Before(d, c)}) < MaxActions}}

\* isExecutableRepair: only the stale managed state is repaired.
Repairs(plan) == plan \cap {"state_stale"}
Diagnostics(plan) == plan \ {"state_stale"}

\* summarize: what is not repaired counts as no action.
RepairSummary(plan, repaired) ==
  CASE plan = {} -> "no_action"
    [] Repairs(plan) # {} /\ repaired /\ Diagnostics(plan) = {} -> "succeeded"
    [] Repairs(plan) # {} /\ repaired /\ Diagnostics(plan) # {} -> "partial"
    [] Repairs(plan) # {} /\ ~repaired -> "failed"
    [] OTHER -> "no_action"

\* maintenance.Store.AppendReceipt: terminal evidence of an occurrence is not
\* contradicted; the same evidence is not written twice.
Receipt(state, proposals) == [state |-> state, proposals |-> proposals]
Ended(o) == {r \in receipts[o] : r.state \in Terminal}
AppendReceipt(o, r) ==
  receipts' = IF Ended(o) = {} THEN [receipts EXCEPT ![o] = @ \cup {r}] ELSE receipts

Go(x, w) == worker' = [worker EXCEPT ![x] = w]
FinishRun(x, o) == /\ Go(x, IdleWorker)
                /\ guard' = [guard EXCEPT ![o] = FreeLock]

-----------------------------------------------------------------------------
\* The lease, the fence and the guard of the occurrence (MaintenanceWorker).
Start(x, o) ==
  /\ worker[x].at = "idle" /\ guard[o] = FreeLock
  /\ guard' = [guard EXCEPT ![o] = x]
  /\ Go(x, [at |-> "recover", occ |-> o])
  /\ UNCHANGED <<managed, surface, repairLock, assessment, receipts, healthHistory>>

\* recoverProposalArtifact, existingTerminalReceipt and the head of the deep
\* review: an assessment that was published is concluded, not made again.
Published(o) == assessment[o] # NoArtifact
Recover(x) ==
  /\ worker[x].at = "recover"
  /\ LET o == worker[x].occ IN
     CASE Published(o) /\ o \notin Housekeeping ->
            /\ AppendReceipt(o, Receipt("proposal_emitted", assessment[o]))
            /\ FinishRun(x, o)
       [] ~(Published(o) /\ o \notin Housekeeping) /\ Ended(o) # {} ->
            FinishRun(x, o) /\ UNCHANGED receipts
       [] OTHER -> Go(x, [at |-> "build", occ |-> o]) /\ UNCHANGED <<receipts, guard>>
  /\ UNCHANGED <<managed, surface, repairLock, assessment, healthHistory>>

\* The packet is read and planned; only then is anything changed.
Build(x) ==
  /\ worker[x].at = "build"
  /\ LET o == worker[x].occ
         plan == HealthPlan(HealthObservations(o))
     IN Go(x, [at |-> IF o \notin Structural /\ Repairs(plan) # {} THEN "lock" ELSE "conclude",
               occ |-> o, plan |-> plan, repaired |-> FALSE])
  /\ UNCHANGED <<managed, surface, repairLock, guard, assessment, receipts, healthHistory>>

\* withManagedStateLock waits for the lock; after three seconds it gives up.
\* Mutant: a lock that is held does not keep a repair out.
RepairLockFreeAlways == TRUE
RepairLockFree == repairLock = FreeLock
LockRepair(x) ==
  /\ worker[x].at = "lock"
  /\ \/ RepairLockFree /\ repairLock' = x /\ Go(x, [worker[x] EXCEPT !.at = "read"])
     \/ ~RepairLockFree /\ UNCHANGED repairLock /\ Go(x, [worker[x] EXCEPT !.at = "conclude"])
  /\ UNCHANGED <<managed, surface, guard, assessment, receipts, healthHistory>>

\* ManagedStateRepairInvoker.Invoke: a repair made by this occurrence before
\* is a success; a state that is not stale any more is left alone.
StaleUnderLock(m) == m.state = "stale"
ReadManaged(x) ==
  /\ worker[x].at = "read"
  /\ LET done == managed.state = "healthy" /\ managed.by = worker[x].occ IN
     Go(x, [worker[x] EXCEPT !.at = IF ~done /\ StaleUnderLock(managed) THEN "replace" ELSE "unlock",
                             !.repaired = done])
  /\ UNCHANGED <<managed, surface, repairLock, guard, assessment, receipts, healthHistory>>

\* The replacement, its validation, and the restoration of the previous bytes
\* when it does not validate.  The lock is held throughout.
Replace(x) ==
  /\ worker[x].at = "replace"
  /\ managed' = [state |-> "healthy", generation |-> managed.generation + 1, by |-> worker[x].occ]
  /\ repairs' = repairs + 1
  /\ Go(x, [worker[x] EXCEPT !.at = "validate"])
  /\ UNCHANGED <<surface, repairLock, guard, assessment, receipts, stales, changes, darwinCrashes>>
Validate(x) ==
  /\ worker[x].at = "validate"
  /\ \/ /\ Go(x, [worker[x] EXCEPT !.at = "unlock", !.repaired = TRUE])
        /\ UNCHANGED <<managed, repairs>>
     \/ /\ managed' = [state |-> "stale", generation |-> managed.generation - 1, by |-> FreeLock]
        /\ repairs' = repairs - 1
        /\ Go(x, [worker[x] EXCEPT !.at = "unlock"])
  /\ UNCHANGED <<surface, repairLock, guard, assessment, receipts, stales, changes, darwinCrashes>>
UnlockRepair(x) ==
  /\ worker[x].at = "unlock"
  /\ repairLock' = FreeLock
  /\ Go(x, [worker[x] EXCEPT !.at = "conclude"])
  /\ UNCHANGED <<managed, surface, guard, assessment, receipts, healthHistory>>

\* executeLeasedCommand (housekeeping): only a plan that was carried out in
\* full is a success.
ConcludeHousekeeping(x) ==
  /\ worker[x].at = "conclude" /\ worker[x].occ \in Housekeeping
  /\ LET o == worker[x].occ
         outcome == RepairSummary(worker[x].plan, worker[x].repaired)
     IN /\ AppendReceipt(o, Receipt(CASE outcome = "succeeded" -> "succeeded"
                                      [] outcome = "no_action" -> "reviewed_no_change"
                                      [] OTHER -> "failed", {}))
        /\ FinishRun(x, o)
  /\ UNCHANGED <<managed, surface, repairLock, assessment, healthHistory>>

\* DeepReviewHandler.execute and the proposal-only branch: a failed repair ends
\* the job without a receipt of its own; a repair with nothing else to say is a
\* success; what is left becomes the occurrence's assessment.
Proposals(w) == IF w.occ \in Deep THEN Diagnostics(w.plan) ELSE w.plan
ConcludeReview(x) ==
  /\ worker[x].at = "conclude" /\ worker[x].occ \notin Housekeeping
  /\ LET w == worker[x]
         o == w.occ
         failed == o \in Deep /\ Repairs(w.plan) # {} /\ ~w.repaired
     IN CASE failed -> FinishRun(x, o) /\ UNCHANGED receipts
          [] ~failed /\ Proposals(w) # {} ->
               Go(x, [w EXCEPT !.at = "publish"]) /\ UNCHANGED <<receipts, guard>>
          [] OTHER ->
               /\ AppendReceipt(o, Receipt(IF w.repaired THEN "succeeded" ELSE "reviewed_no_change", {}))
               /\ FinishRun(x, o)
  /\ UNCHANGED <<managed, surface, repairLock, assessment, healthHistory>>

\* ProposalStore.Append is a no-clobber link: an assessment that is there and
\* differs is a conflict that ends the job.
PublishArtifact(x) ==
  /\ worker[x].at = "publish"
  /\ LET w == worker[x] IN
     IF assessment[w.occ] \in {NoArtifact, Proposals(w)}
     THEN /\ assessment' = [assessment EXCEPT ![w.occ] = Proposals(w)]
          /\ Go(x, [w EXCEPT !.at = "receipt"]) /\ UNCHANGED guard
     ELSE FinishRun(x, w.occ) /\ UNCHANGED assessment
  /\ UNCHANGED <<managed, surface, repairLock, receipts, healthHistory>>
RecordProposal(x) ==
  /\ worker[x].at = "receipt"
  /\ AppendReceipt(worker[x].occ, Receipt("proposal_emitted", Proposals(worker[x])))
  /\ FinishRun(x, worker[x].occ)
  /\ UNCHANGED <<managed, surface, repairLock, assessment, healthHistory>>

\* A worker that stops loses both of its OS locks.
Crash(x) ==
  /\ worker[x].at # "idle" /\ darwinCrashes < MaxCrashes
  /\ darwinCrashes' = darwinCrashes + 1
  /\ FinishRun(x, worker[x].occ)
  /\ repairLock' = IF repairLock = x THEN FreeLock ELSE repairLock
  /\ UNCHANGED <<managed, surface, assessment, receipts, stales, repairs, changes>>

\* The rest of the system: scheduler receipts and state documents come and go,
\* and managed state becomes stale again.
SurfaceChanges ==
  /\ changes < MaxChanges /\ changes' = changes + 1
  /\ \/ /\ surface' \in [scheduler_missed : {0, 1}, documents : {0, 2}] \ {surface}
        /\ UNCHANGED <<managed, stales>>
     \/ /\ managed.state = "healthy" /\ repairLock = FreeLock
        /\ managed' = [managed EXCEPT !.state = "stale"] /\ stales' = stales + 1
        /\ UNCHANGED surface
  /\ UNCHANGED <<repairLock, guard, assessment, receipts, worker, repairs, darwinCrashes>>

HealthNext == \/ SurfaceChanges
        \/ \E x \in Worker :
             \/ \E o \in Occurrence : Start(x, o)
             \/ Recover(x) \/ Build(x) \/ LockRepair(x) \/ ReadManaged(x) \/ Replace(x)
             \/ Validate(x) \/ UnlockRepair(x) \/ ConcludeHousekeeping(x)
             \/ ConcludeReview(x) \/ PublishArtifact(x) \/ RecordProposal(x) \/ Crash(x)

HealthSpec == HealthInit /\ [][HealthNext]_healthVars

-----------------------------------------------------------------------------
\* An occurrence has one assessment: its receipts speak of the artifact on disk
\* and of nothing else, although a worker may have stopped between artifact and
\* receipt and the surfaces changed before the next attempt (handler.go:100).
OneAssessment ==
  \A o \in Occurrence : assessment[o] # NoArtifact =>
    \A r \in Ended(o) : r.state = "proposal_emitted" /\ r.proposals = assessment[o]

\* Stale managed state is repaired once each time it becomes stale, also when
\* two jobs saw it stale before either repaired it (repair.go:88).
RepairedOnce == repairs <= stales

\* Neither a retry nor a second job assesses or repairs anything twice.
DoneOnce == OneAssessment /\ RepairedOnce
=============================================================================
