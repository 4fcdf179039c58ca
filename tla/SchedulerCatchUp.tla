--------------------------- MODULE SchedulerCatchUp ---------------------------
(***************************************************************************)
(* What the scheduler finds due (scheduler/scheduler.go).  The first wake  *)
(* enrolls the workspace; every wake reads the receipts, plans the missed  *)
(* occurrences of each job in the time zone of the machine, runs them one  *)
(* by one and appends a receipt for each.  Time passes, the machine moves  *)
(* between zones, attempts fail or find no capability, and the process can *)
(* stop after an occurrence has run and before its receipt is written.     *)
(*                                                                         *)
(* A calendar of DayTicks ticks a day, weeks of two days and months of two *)
(* and three days in turn stands for hours, weeks and months.              *)
(***************************************************************************)
EXTENDS Naturals, Integers, FiniteSets, FiniteSetsExt

CONSTANTS JobTables,           \* tables of jobs: [id -> [cadence, day, tick, interval, catchUp]]
          DayTicks, Zones,     \* offsets from UTC in ticks
          Horizon, MaxWakes, MaxTravel

VARIABLES jobs, now, zone, enrolledAt, receipts, wake, wakes, travels

catchVars == <<jobs, now, zone, enrolledAt, receipts, wake, wakes, travels>>

NotEnrolled == -1
Asleep == [due |-> {}, running |-> FALSE]
\* validateJob
ValidJob(job) ==
  /\ job.cadence \in {"daily", "weekly", "monthly", "interval"}
  /\ IF job.cadence = "interval" THEN job.interval > 0 ELSE job.interval = 0
  /\ job.cadence = "monthly" => job.day \in 0..1              \* a day that every month has
  /\ job.tick \in 0..(DayTicks - 1) /\ job.catchUp > 0

CatchInit ==
  /\ jobs \in JobTables /\ now = 1 /\ zone \in Zones /\ enrolledAt = NotEnrolled /\ receipts = {} /\ wake = Asleep
  /\ wakes = 0 /\ travels = 0

-----------------------------------------------------------------------------
\* nextOccurrence, in local time: the candidate of this day, week or month, and the
\* next one when that is not after the cursor.
DayOf(t) == t \div DayTicks
At(day, job) == day * DayTicks + job.tick
MonthStart(day) == 5 * (day \div 5) + (IF day % 5 < 2 THEN 0 ELSE 2)
NextMonth(day) == 5 * (day \div 5) + (IF day % 5 < 2 THEN 2 ELSE 5)
ToWeekday(job, day) == (job.day + 2 - (day % 2)) % 2
Candidate(job, day) ==
  CASE job.cadence = "daily"   -> At(day, job)
    [] job.cadence = "weekly"  -> At(day + ToWeekday(job, day), job)
    [] job.cadence = "monthly" -> At(MonthStart(day) + job.day, job)
Following(job, day) ==
  CASE job.cadence = "daily"   -> At(day + 1, job)
    [] job.cadence = "weekly"  -> At(day + ToWeekday(job, day) + 2, job)
    [] job.cadence = "monthly" -> At(NextMonth(day) + job.day, job)
NextOccurrence(job, after) ==
  IF job.cadence = "interval" THEN after + job.interval ELSE
  LET local == after + zone  candidate == Candidate(job, DayOf(local)) IN
  (IF candidate > local THEN candidate ELSE Following(job, DayOf(local))) - zone

-----------------------------------------------------------------------------
\* PlanDue: from the enrollment, or for an interval from the last success, the
\* occurrences up to now without a successful receipt, at most catchUp of them.
Served(id, t) == [job |-> id, at |-> t, state |-> "succeeded"] \in {[job |-> r.job, at |-> r.at, state |-> r.state] : r \in receipts}
Successes(id) == {r.attempted : r \in {r \in receipts : r.job = id /\ r.state = "succeeded"}}
\* Mutant: every job starts where it last succeeded.
CursorAtSuccess(id) == IF Successes(id) # {} THEN Max(Successes(id)) ELSE enrolledAt
Cursor(id) == IF jobs[id].cadence = "interval" /\ Successes(id) # {} THEN Max(Successes(id)) ELSE enrolledAt

RECURSIVE Missed(_, _, _)
Missed(id, after, room) ==
  LET t == NextOccurrence(jobs[id], after) IN
  IF t > now \/ room = 0 THEN {}
  ELSE IF Served(id, t) THEN Missed(id, t, room) ELSE {t} \cup Missed(id, t, room - 1)
Due(id) == Missed(id, Cursor(id), jobs[id].catchUp)
PlanDue == UNION {{[job |-> id, at |-> t] : t \in Due(id)} : id \in DOMAIN jobs}
\* One invalid job fails the planning of all (as a second job of one identifier would:
\* a table has one of each).
PlanFails == \E id \in DOMAIN jobs : ~ValidJob(jobs[id])

-----------------------------------------------------------------------------
\* EnsureEnrollment: once, and never moved.
EnsureEnrollment ==
  /\ enrolledAt = NotEnrolled /\ enrolledAt' = now
  /\ UNCHANGED <<jobs, now, zone, receipts, wake, wakes, travels>>
WakeUp ==
  /\ enrolledAt # NotEnrolled /\ now >= enrolledAt /\ ~PlanFails /\ ~wake.running /\ wakes < MaxWakes
  /\ wakes' = wakes + 1 /\ wake' = [due |-> PlanDue, running |-> TRUE]
  /\ UNCHANGED <<jobs, now, zone, enrolledAt, receipts, travels>>

\* RunDue with AppendReceipt: the earliest occurrence (jobs of one time in any order);
\* what the executor answers is the state of its receipt.  Failed, unavailable and
\* suppressed attempts count alike for the planning.
Earliest(due) == {o \in due : \A q \in due : o.at <= q.at}
RunNext(state) ==
  /\ \E o \in Earliest(wake.due) :
     /\ receipts' = receipts \cup {[job |-> o.job, at |-> o.at, attempted |-> now, state |-> state]}
     /\ wake' = [wake EXCEPT !.due = @ \ {o}]
  /\ UNCHANGED <<jobs, now, zone, enrolledAt, wakes, travels>>
WakeEnds ==
  /\ wake.running /\ wake' = Asleep                     \* all done, cancelled or stopped
  /\ UNCHANGED <<jobs, now, zone, enrolledAt, receipts, wakes, travels>>

-----------------------------------------------------------------------------
TimePasses ==
  /\ now < Horizon /\ ~wake.running
  /\ now' \in {now + 1, now + DayTicks} /\ now' <= Horizon
  /\ UNCHANGED <<jobs, zone, enrolledAt, receipts, wake, wakes, travels>>
Travels ==
  /\ travels < MaxTravel /\ travels' = travels + 1
  /\ zone' \in Zones \ {zone} /\ ~wake.running
  /\ UNCHANGED <<jobs, now, enrolledAt, receipts, wake, wakes>>

CatchNext ==
  \/ EnsureEnrollment \/ WakeUp \/ WakeEnds \/ TimePasses \/ Travels
  \/ \E state \in {"succeeded", "unsuccessful"} : RunNext(state)

CatchSpec == CatchInit /\ [][CatchNext]_catchVars

-----------------------------------------------------------------------------
\* The slots of a calendar job, said without a cursor.
IsSlot(job, t) ==
  LET local == t + zone  day == DayOf(local) IN
  /\ local % DayTicks = job.tick
  /\ CASE job.cadence = "daily"   -> TRUE
       [] job.cadence = "weekly"  -> day % 2 = job.day
       [] job.cadence = "monthly" -> day - MonthStart(day) = job.day
Backlog(id) == {t \in (enrolledAt + 1)..now : IsSlot(jobs[id], t) /\ ~Served(id, t)}
Oldest(set, n) == {t \in set : Cardinality({u \in set : u < t}) < n}

\* PlanDue: at every moment, after any failures, skipped wakes and changes of zone, a
\* calendar job has due exactly the oldest of its unserved slots since enrollment, as
\* many as its catch-up bound allows: none is passed over because a later one
\* succeeded.  An interval job has something due once its interval has passed since
\* its last success, and every due time lies a whole number of intervals after it.
DueIsBacklog ==
  enrolledAt # NotEnrolled /\ ~PlanFails => \A id \in DOMAIN jobs :
    IF jobs[id].cadence # "interval" THEN Due(id) = Oldest(Backlog(id), jobs[id].catchUp)
    ELSE LET last == IF Successes(id) = {} THEN enrolledAt ELSE Max(Successes(id)) IN
         /\ (Due(id) # {}) <=> (now - last >= jobs[id].interval)
         /\ \A t \in Due(id) : (t - last) % jobs[id].interval = 0
=============================================================================
