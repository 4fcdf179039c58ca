------------------------- MODULE MaintenanceWorker -------------------------
(***************************************************************************)
(* One scheduled occurrence of a maintenance job: packages maintenance     *)
(* (worker.go, store.go) and scheduler (lease.go, scheduler.go).           *)
(*                                                                         *)
(* A wake is one process that calls Worker.Run.  Wakes share the           *)
(* occurrence's lease file, its fence marker (.quarantine), the OS guard   *)
(* (flock, never waited for) and two receipt stores.  A wake's handler     *)
(* runs in a goroutine of its own and may outlive the wake's deadline and  *)
(* the call that started it; it stops at the latest with its process.      *)
(*                                                                         *)
(* A wake's fence token is the wake itself: tokens are random and fresh.   *)
(* Times are ticks of one clock; now[w] is the time w read when it began.  *)
(***************************************************************************)
EXTENDS Integers, FiniteSets

CONSTANTS
    Wake,        \* processes that wake up for the occurrence, each once
    Nobody,      \* no wake
    TTL,         \* life of a lease, in ticks
    Cooldown,    \* ticks in which a presence wake leaves a recent attempt alone
    MaxClock,    \* bound: ticks of the clock
    MaxCrashes   \* bound: wakes that stop in the middle of the call

ASSUME WorkerAssumption ==
    /\ Nobody \notin Wake
    /\ TTL \in Nat \ {0} /\ Cooldown \in Nat
    /\ MaxClock \in Nat /\ MaxCrashes \in Nat

VARIABLES
    clock,
    lease,     \* the lease file: token and expiry
    marker,    \* the fence marker: token and state
    guard,     \* the wake that holds the guard
    receipts,  \* states of the occurrence's maintenance receipts
    sched,     \* scheduler receipts of the occurrence
    pc, now,
    result,    \* the receipt state the wake is about to record
    late,      \* the deadline passed before the handler's outcome was seen
    handler,   \* the handler goroutine: none, running or its outcome
    crashes

shared == <<clock, lease, marker, guard, receipts, sched>>
vars == <<shared, pc, now, result, late, handler, crashes>>

NoLease == [token |-> Nobody, expires |-> 0]
NoMarker == [token |-> Nobody, state |-> "none"]

(* Results that complete the occurrence (reviewed_no_change stands also for *)
(* proposal_emitted), and the failure that stands for every other outcome.  *)
Success == {"succeeded", "reviewed_no_change"}
Outcome == Success \cup {"failed"}
Conclusive == Success \cup {"recovery_required"}

Goto(w, place) == pc' = [pc EXCEPT ![w] = place]
Finish(w) == Goto(w, "done")
Local == <<now, result, late, handler, crashes>>

----------------------------------------------------------------------------
(* maintenance.Store.AppendReceipt reads the receipts of the occurrence,    *)
(* and writes when no conclusive one is there; nothing but the caller's     *)
(* guard, where there is one, keeps the two together.  Which prior receipt  *)
(* is met first is up to the directory.                                     *)

Prior(state) ==
    {s \in receipts \cap Conclusive : state = "recovery_required" => s = state}

Unrecorded(state) == Prior(state) = {}
Repeats(state) == state \in Prior(state)
Conflicts(state) == \E s \in Prior(state) : s # state

WriteReceipt(state) == receipts' = receipts \cup {state}

Completed == receipts \cap Success # {}

(* scheduler.Store.AppendReceipt, and what PlanDue makes of the receipts.   *)
AppendScheduled(state, at) == sched' = sched \cup {[state |-> state, at |-> at]}

Satisfied == \E r \in sched : r.state = "succeeded"

----------------------------------------------------------------------------
(* Worker.Run: is the occurrence due, and is it left alone this time?       *)

Recent(states, t) ==
    \E r \in sched : r.state \in states /\ t >= r.at /\ t - r.at < Cooldown

Begin(w, presence, idle) ==
    /\ pc[w] = "idle" /\ clock + TTL < MaxClock
    /\ now' = [now EXCEPT ![w] = clock]
    /\ \/ /\ \/ Satisfied
             \/ presence /\ ~idle /\ Recent({"suppressed"}, clock)
          /\ Finish(w) /\ UNCHANGED result
       \/ /\ ~Satisfied /\ presence
          /\ \/ ~idle /\ ~Recent({"suppressed"}, clock)
             \/ idle /\ Recent({"failed", "unavailable"}, clock)
          /\ Goto(w, "note") /\ result' = [result EXCEPT ![w] = "suppressed"]
       \/ /\ ~Satisfied
          /\ presence => idle /\ ~Recent({"failed", "unavailable"}, clock)
          /\ Goto(w, "prior") /\ UNCHANGED result
    /\ UNCHANGED <<shared, late, handler, crashes>>

(* runOccurrence up to the lease: a recorded success is returned as it is;  *)
(* without a qualified handler, or without authority, nothing runs.         *)
CheckPrior(w) ==
    /\ pc[w] = "prior"
    /\ \/ Completed /\ Finish(w) /\ UNCHANGED result
       \/ /\ ~Completed
          /\ \/ Goto(w, "acquire") /\ result' = [result EXCEPT ![w] = "failed"]
             \/ /\ Goto(w, "note")
                /\ \E s \in {"unavailable", "rejected"} :
                     result' = [result EXCEPT ![w] = s]
    /\ UNCHANGED <<shared, now, late, handler, crashes>>

(* suppressedReceipt and unavailableReceipt: the scheduler hears of all but *)
(* a rejection, of an unavailable handler even when its receipt is refused. *)
Noted(w) == IF result[w] = "rejected" THEN "unavailable" ELSE result[w]

AfterNote(w) == IF result[w] = "rejected" THEN "done" ELSE "noteScheduled"

Note(w) ==
    /\ \/ /\ pc[w] = "note"
          /\ \/ Unrecorded(Noted(w)) /\ Goto(w, "noteWrite")
             \/ Repeats(Noted(w)) /\ Goto(w, AfterNote(w))
             \/ /\ Conflicts(Noted(w))
                /\ Goto(w, IF result[w] = "unavailable" THEN "noteScheduled" ELSE "done")
          /\ UNCHANGED receipts
       \/ pc[w] = "noteWrite" /\ WriteReceipt(Noted(w)) /\ Goto(w, AfterNote(w))
    /\ UNCHANGED <<clock, lease, marker, guard, sched, Local>>

NoteScheduled(w) ==
    /\ pc[w] = "noteScheduled"
    /\ AppendScheduled(result[w], now[w])
    /\ Finish(w)
    /\ UNCHANGED <<clock, lease, marker, guard, receipts, Local>>

----------------------------------------------------------------------------
(* The guard: every lease operation takes it, and gives up when it is held. *)

TakeGuard(w, place, inside, busy) ==
    /\ pc[w] = place
    /\ IF guard = Nobody THEN guard' = w /\ Goto(w, inside)
                         ELSE UNCHANGED guard /\ Goto(w, busy)
    /\ UNCHANGED <<clock, lease, marker, receipts, sched, Local>>

(* The rest of a lease operation, which ends by releasing the guard.        *)
Guarded(w, place) == pc[w] = place /\ guard = w

AfterPublish(w) == IF late[w] THEN "late" ELSE "release"

GuardStep(w) ==
    \/ TakeGuard(w, "acquire", "acquiring", "done")
    \/ TakeGuard(w, "arm", "arming", "release")
    \/ TakeGuard(w, "quarantine", "quarantining", "done")
    \/ TakeGuard(w, "publish", "publishing", AfterPublish(w))
    \/ TakeGuard(w, "release", "releasing", "recovery")

TryAcquireLease(w) ==
    /\ Guarded(w, "acquiring")
    /\ IF marker # NoMarker \/ (lease # NoLease /\ lease.expires > now[w])
       THEN UNCHANGED lease /\ Finish(w)
       ELSE /\ lease' = [token |-> w, expires |-> now[w] + TTL]
            /\ Goto(w, "arm")
    /\ guard' = Nobody
    /\ UNCHANGED <<clock, marker, receipts, sched, Local>>

(* writeFenceMarker: only the holder of the lease writes or turns a marker. *)
MayFence(w) == lease.token = w /\ marker.token \in {Nobody, w}

ArmLease(w) ==
    /\ Guarded(w, "arming")
    /\ IF MayFence(w)
       THEN marker' = [token |-> w, state |-> "active"] /\ Goto(w, "start")
       ELSE UNCHANGED marker /\ Goto(w, "release")
    /\ guard' = Nobody
    /\ UNCHANGED <<clock, lease, receipts, sched, Local>>

QuarantineLease(w) ==
    /\ Guarded(w, "quarantining")
    /\ IF MayFence(w)
       THEN marker' = [token |-> w, state |-> "quarantined"] /\ Goto(w, "publish")
       ELSE UNCHANGED marker /\ Finish(w)
    /\ guard' = Nobody
    /\ UNCHANGED <<clock, lease, receipts, sched, Local>>

----------------------------------------------------------------------------
(* The handler.                                                             *)

(* The grant may be refused; then the lease is released and nothing ran.    *)
StartHandler(w) ==
    /\ pc[w] = "start"
    /\ \/ handler' = [handler EXCEPT ![w] = "running"] /\ Goto(w, "await")
       \/ UNCHANGED handler /\ Goto(w, "release")
    /\ UNCHANGED <<shared, now, result, late, crashes>>

HandlerReturns(w, o) ==
    /\ handler[w] = "running" /\ pc[w] # "dead"
    /\ handler' = [handler EXCEPT ![w] = o]
    /\ UNCHANGED <<shared, pc, now, result, late, crashes>>

(* An outcome seen after the deadline counts as a timeout.                  *)
SeeOutcome(w) ==
    /\ pc[w] = "await" /\ handler[w] # "running"
    /\ \E s \in {handler[w], "timed_out"} : result' = [result EXCEPT ![w] = s]
    /\ Goto(w, "publish")
    /\ UNCHANGED <<shared, now, late, handler, crashes>>

DeadlinePasses(w) ==
    /\ pc[w] = "await"
    /\ result' = [result EXCEPT ![w] = "timed_out"]
    /\ late' = [late EXCEPT ![w] = TRUE]
    /\ Goto(w, "quarantine")
    /\ UNCHANGED <<shared, now, handler, crashes>>

(* Mutant: the fence is lifted when the wait is over, handler or not.       *)
AwaitLateImpatiently(w) ==
    /\ pc[w] = "late"
    /\ Goto(w, "release")
    /\ UNCHANGED <<shared, Local>>

(* boundLateHandler: wait for the handler, but not for ever.                *)
AwaitLate(w) ==
    /\ pc[w] = "late"
    /\ \/ handler[w] # "running" /\ Goto(w, "release")
       \/ Finish(w)
    /\ UNCHANGED <<shared, Local>>

----------------------------------------------------------------------------
(* publishOccurrence within WithCurrentLease.  The expiry is compared with  *)
(* the time the wake began.                                                 *)

HoldsCurrentLease(w) == lease.token = w /\ lease.expires > now[w]

Publish(w) ==
    /\ \/ /\ Guarded(w, "publishing") /\ HoldsCurrentLease(w)
          /\ \/ Unrecorded(result[w]) /\ Goto(w, "writing")
             \/ Repeats(result[w]) /\ Goto(w, "scheduling")
          /\ UNCHANGED <<guard, receipts>>
       \/ /\ Guarded(w, "publishing")
          /\ HoldsCurrentLease(w) => Conflicts(result[w])
          /\ guard' = Nobody /\ Goto(w, AfterPublish(w))
          /\ UNCHANGED receipts
       \/ /\ Guarded(w, "writing")
          /\ WriteReceipt(result[w]) /\ Goto(w, "scheduling")
          /\ UNCHANGED guard
    /\ UNCHANGED <<clock, lease, marker, sched, Local>>

PublishScheduled(w) ==
    /\ Guarded(w, "scheduling")
    /\ AppendScheduled(IF result[w] \in Success THEN "succeeded" ELSE "failed", now[w])
    /\ guard' = Nobody /\ Goto(w, AfterPublish(w))
    /\ UNCHANGED <<clock, lease, marker, receipts, Local>>

----------------------------------------------------------------------------
(* ReleaseLease removes the marker and then the lease.                      *)

ReleaseMarker(w) ==
    /\ Guarded(w, "releasing")
    /\ IF lease.token \in {Nobody, w} /\ marker.token \in {Nobody, w}
       THEN /\ marker' = NoMarker
            /\ IF lease = NoLease THEN guard' = Nobody /\ Finish(w)
                                  ELSE UNCHANGED guard /\ Goto(w, "unleasing")
       ELSE UNCHANGED marker /\ guard' = Nobody /\ Goto(w, "recovery")
    /\ UNCHANGED <<clock, lease, receipts, sched, Local>>

ReleaseLease(w) ==
    /\ Guarded(w, "unleasing")
    /\ lease' = NoLease /\ guard' = Nobody
    /\ Finish(w)
    /\ UNCHANGED <<clock, marker, receipts, sched, Local>>

(* recordReleaseRecovery, outside of the guard.                             *)
RecordRecovery(w) ==
    \/ /\ pc[w] = "recovery"
       /\ \/ Unrecorded("recovery_required") /\ Goto(w, "recoveryWrite")
          \/ Repeats("recovery_required") /\ Goto(w, "recoveryScheduled")
       /\ UNCHANGED <<shared, Local>>
    \/ /\ pc[w] = "recoveryWrite"
       /\ WriteReceipt("recovery_required") /\ Goto(w, "recoveryScheduled")
       /\ UNCHANGED <<clock, lease, marker, guard, sched, Local>>
    \/ /\ pc[w] = "recoveryScheduled"
       /\ AppendScheduled("failed", clock)
       /\ Finish(w)
       /\ UNCHANGED <<clock, lease, marker, guard, receipts, Local>>

----------------------------------------------------------------------------
(* Mutant: only timed-out fences are recovered.                             *)
RecoverTimedOutLease ==
    /\ guard = Nobody /\ marker.state = "quarantined" /\ lease.token = marker.token
    /\ lease.expires < clock /\ pc[lease.token] = "dead"
    /\ marker' = NoMarker /\ lease' \in {NoLease, lease}
    /\ UNCHANGED <<clock, guard, receipts, sched, pc, Local>>

(* RecoverQuarantinedLease: the operator attests that the process has       *)
(* exited.  The call removes the marker and then the lease; it may stop in  *)
(* between.                                                                 *)
RecoverQuarantinedLease ==
    /\ guard = Nobody /\ marker # NoMarker /\ lease.token = marker.token
    /\ lease.expires < clock /\ pc[lease.token] = "dead"
    /\ marker' = NoMarker /\ lease' \in {NoLease, lease}
    /\ UNCHANGED <<clock, guard, receipts, sched, pc, Local>>

Tick ==
    /\ clock < MaxClock
    /\ clock' = clock + 1
    /\ UNCHANGED <<lease, marker, guard, receipts, sched, pc, Local>>

(* The process ends: after its call, handler running or not, ...            *)
Stop(w) ==
    /\ Goto(w, "dead")
    /\ guard' = IF guard = w THEN Nobody ELSE guard
    /\ UNCHANGED <<clock, lease, marker, receipts, sched, now, result, late, handler>>

Exit(w) == pc[w] \in {"late", "done"} /\ Stop(w) /\ UNCHANGED crashes

(* ... or in the middle of it.                                              *)
Crash(w) ==
    /\ pc[w] \notin {"idle", "late", "done", "dead"} /\ crashes < MaxCrashes
    /\ Stop(w)
    /\ crashes' = crashes + 1

----------------------------------------------------------------------------
Init ==
    /\ clock = 0 /\ lease = NoLease /\ marker = NoMarker /\ guard = Nobody
    /\ receipts = {} /\ sched = {}
    /\ pc = [w \in Wake |-> "idle"]
    /\ now = [w \in Wake |-> 0]
    /\ result = [w \in Wake |-> "failed"]
    /\ late = [w \in Wake |-> FALSE]
    /\ handler = [w \in Wake |-> "none"]
    /\ crashes = 0

Leasing(w) ==
    \/ GuardStep(w) \/ TryAcquireLease(w) \/ ArmLease(w) \/ QuarantineLease(w)
    \/ ReleaseMarker(w) \/ ReleaseLease(w)

Recording(w) ==
    CheckPrior(w) \/ Note(w) \/ NoteScheduled(w)
    \/ Publish(w) \/ PublishScheduled(w) \/ RecordRecovery(w)

Handling(w) == StartHandler(w) \/ SeeOutcome(w) \/ DeadlinePasses(w) \/ AwaitLate(w)

Next ==
    \/ \E w \in Wake :
         \/ \E presence, idle \in BOOLEAN : Begin(w, presence, idle)
         \/ Leasing(w) \/ Recording(w) \/ Handling(w)
         \/ \E o \in Outcome : HandlerReturns(w, o)
         \/ Exit(w) \/ Crash(w)
    \/ RecoverQuarantinedLease \/ Tick

Spec == Init /\ [][Next]_vars

(* A wake in its call keeps running and its process ends some time after    *)
(* the call, time passes, and an operator recovers what can be recovered.   *)
Fairness ==
    /\ \A w \in Wake : WF_vars(Leasing(w) \/ Recording(w) \/ Handling(w)) /\ WF_vars(Exit(w))
    /\ WF_vars(Tick) /\ WF_vars(RecoverQuarantinedLease)
FairSpec == Spec /\ Fairness

----------------------------------------------------------------------------
(* Properties.                                                              *)

Running(w) == handler[w] = "running" /\ pc[w] # "dead"

(* OneHandler: two handlers never run for the same occurrence at the same   *)
(* time, however late one of them is and however long the clock has passed  *)
(* the expiry of its lease (ArmLease, QuarantineLease).                     *)
OneHandler == \A v, w \in Wake : Running(v) /\ Running(w) => v = w

(* OneVerdict: the results recorded as completing the occurrence agree,     *)
(* although a second wake may run its handler again, and although checking  *)
(* and writing are two steps (AppendReceipt within WithCurrentLease).       *)
OneVerdict == Cardinality(receipts \cap Success) <= 1

(* MarkerHasLease: a marker is never without the lease it fences, wherever  *)
(* a wake stops.  QuarantinedLeases fails on such a marker and              *)
(* RecoverQuarantinedLease refuses it, so it would bar the occurrence for   *)
(* good (the order of removal in ReleaseLease).                             *)
MarkerHasLease == marker # NoMarker => lease.token = marker.token

(* Fenced: what lease, marker and receipts together guarantee when wakes    *)
(* overlap, handlers are late and processes stop.                           *)
Fenced == OneHandler /\ OneVerdict /\ MarkerHasLease

(* FenceLifted: the fence of a wake that stopped does not bar the           *)
(* occurrence for good: "a crashed process leaves an explicit marker that   *)
(* becomes recoverable after the lease deadline" (ArmLease).                *)
FenceLifted ==
    (marker # NoMarker /\ pc[marker.token] = "dead") ~> marker = NoMarker

(* SucceededNotRerun: specs/009-scheduler-catch-up.md requires of the       *)
(* scheduler that "successful occurrences do not execute twice".            *)
SucceededNotRerun ==
    [][\A w \in Wake : ~Running(w) /\ Running(w)' => ~Completed]_vars
=============================================================================
