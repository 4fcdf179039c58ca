----------------------------- MODULE Federation -----------------------------
(***************************************************************************)
(* The export of structural batches and portable skills from an            *)
(* installation to the central inbox.  Each is one file of an outbox;      *)
(* flushes submit what is due and remove what was answered, or count a     *)
(* failed attempt.  No lock keeps flushes apart, answers get lost, and a   *)
(* process may stop within any write.  The inbox files a payload under its *)
(* digest and is what the digests of a period count.                       *)
(***************************************************************************)
EXTENDS Naturals, FiniteSets

CONSTANTS Batch, Skill,        \* payloads of the two outboxes
          Flusher,
          MaximumDeliveryAttempts,
          MaxFedTime, MaxFedFaults

VARIABLES enrollment,          \* enrollment.json: none, active or revoked
          outbox,              \* the file of each payload
          strays,              \* temporary files that a stopped write has left
          inbox,               \* number of files the center holds for a payload
          tornInbox,           \* payloads whose file at the center is cut off
          queued,              \* history: what has been enqueued
          flusher, fedClock, fedFaults

fedVars == <<enrollment, outbox, strays, inbox, tornInbox, queued, flusher, fedClock, fedFaults>>

Payload == Batch \cup Skill
Gone == [file |-> "gone"]
Torn == [file |-> "torn"]
QueuedItem(attempts, next, exhausted) ==
  [file |-> "whole", attempts |-> attempts, next |-> next, exhausted |-> exhausted]
NoItem == [payload |-> "none", item |-> Gone]
Resting == [at |-> "idle", now |-> 0, todo |-> {}, current |-> NoItem]

FedInit ==
  /\ enrollment = "none" /\ outbox = [p \in Payload |-> Gone] /\ strays = {}
  /\ inbox = [p \in Payload |-> 0] /\ tornInbox = {} /\ queued = {}
  /\ flusher = [f \in Flusher |-> Resting] /\ fedClock = 0 /\ fedFaults = 0

-----------------------------------------------------------------------------
Do(f, w) == flusher' = [flusher EXCEPT ![f] = w]
Faulty == fedFaults < MaxFedFaults /\ fedFaults' = fedFaults + 1

\* Enroll creates the file exclusively; Revoke is final.
Enroll ==
  /\ enrollment = "none" /\ enrollment' = "active"
  /\ UNCHANGED <<outbox, strays, inbox, tornInbox, queued, flusher, fedClock, fedFaults>>
RevokeEnrollment ==
  /\ enrollment = "active" /\ enrollment' = "revoked"
  /\ UNCHANGED <<outbox, strays, inbox, tornInbox, queued, flusher, fedClock, fedFaults>>

\* An exclusive create that may be cut off; a file that exists is taken for this
\* payload.  One that was delivered before has no file and is queued again.
WriteQueued(p) ==
  /\ enrollment = "active" /\ outbox[p] = Gone
  /\ queued' = queued \cup {p}
  /\ \/ outbox' = [outbox EXCEPT ![p] = QueuedItem(0, fedClock, FALSE)] /\ UNCHANGED fedFaults
     \/ outbox' = [outbox EXCEPT ![p] = Torn] /\ Faulty
  /\ UNCHANGED <<enrollment, strays, inbox, tornInbox, flusher, fedClock>>
Enqueue(p) == p \in Batch /\ WriteQueued(p)
EnqueuePortable(p) == p \in Skill /\ WriteQueued(p)

\* Pending: one unreadable file of the directory fails the call; a temporary
\* file that was left complete is one more item of its payload.
OutboxReadable(box) ==
  /\ \A p \in box : outbox[p] # Torn
  /\ \A s \in strays : s.payload \in box => s.item # Torn
PendingIn(box) ==
  {[payload |-> p, item |-> outbox[p]] : p \in {q \in box : outbox[q] # Gone}}
    \cup {s \in strays : s.payload \in box}

\* A flush checks the enrollment once and takes what is due now.
Due(s) == ~s.item.exhausted /\ s.item.next <= fedClock
BeginFlush(f, box) ==
  /\ flusher[f] = Resting /\ enrollment = "active" /\ OutboxReadable(box)
  /\ {s \in PendingIn(box) : Due(s)} # {}
  /\ Do(f, [Resting EXCEPT !.at = "flush", !.now = fedClock, !.todo = {s \in PendingIn(box) : Due(s)}])
  /\ UNCHANGED <<enrollment, outbox, strays, inbox, tornInbox, queued, fedClock, fedFaults>>
Flush(f) == BeginFlush(f, Batch)
FlushPortable(f) == BeginFlush(f, Skill)

\* CentralBridge and CentralInbox: filed under the digest, and a payload that
\* is there is acknowledged without a look at it.
\* Mutant: every submission is filed anew.
FiledAnew(p) == inbox' = [inbox EXCEPT ![p] = @ + 1]
Filed(p) == inbox' = [inbox EXCEPT ![p] = 1]

\* ServeHTTP: accepted and answered, accepted with the answer lost or the write
\* at the center cut off, or never received or refused.
ServeHTTP(p, answered) ==
  \/ Filed(p) /\ UNCHANGED tornInbox /\ IF answered THEN UNCHANGED fedFaults ELSE Faulty
  \/ /\ ~answered /\ inbox[p] = 0 /\ Faulty /\ Filed(p)
     /\ tornInbox' = tornInbox \cup {p}
  \/ ~answered /\ Faulty /\ UNCHANGED <<inbox, tornInbox>>
Submit(f, s) ==
  /\ flusher[f].at = "flush" /\ s \in flusher[f].todo
  /\ \E answered \in BOOLEAN :
       /\ ServeHTTP(s.payload, answered)
       /\ Do(f, [flusher[f] EXCEPT !.at = IF answered THEN "remove" ELSE "retry", !.current = s])
  /\ UNCHANGED <<enrollment, outbox, strays, queued, fedClock>>

\* The next item of the flush, if there is one.
GoesOn(f, left) == IF left = {} THEN Resting ELSE [Resting EXCEPT !.at = "flush", !.now = flusher[f].now, !.todo = left]

\* What was answered is removed; a file that another flush removed ends this one.
RemoveQueued(f) ==
  /\ flusher[f].at = "remove"
  /\ LET p == flusher[f].current.payload
         left == flusher[f].todo \ {flusher[f].current} IN
     IF outbox[p] = Gone THEN Do(f, Resting) /\ UNCHANGED outbox
     ELSE /\ outbox' = [outbox EXCEPT ![p] = Gone]
          /\ Do(f, GoesOn(f, left))
  /\ UNCHANGED <<enrollment, strays, inbox, tornInbox, queued, fedClock, fedFaults>>

\* A failed attempt is counted in the item as it was read, and written back with
\* the time of the next one, whatever has become of the file.
retryDelay(attempts) == attempts
Retried(item, now) ==
  IF item.attempts + 1 >= MaximumDeliveryAttempts
  THEN QueuedItem(MaximumDeliveryAttempts, 0, TRUE)
  ELSE QueuedItem(item.attempts + 1, now + retryDelay(item.attempts + 1), FALSE)
RetainQueued(f) ==
  /\ flusher[f].at = "retry"
  /\ LET s == flusher[f].current
         left == flusher[f].todo \ {s} IN
     /\ outbox' = [outbox EXCEPT ![s.payload] = Retried(s.item, flusher[f].now)]
     /\ Do(f, GoesOn(f, left))
  /\ UNCHANGED <<enrollment, strays, inbox, tornInbox, queued, fedClock, fedFaults>>

\* The process stops: within writeAtomicJSON it leaves a temporary file in the
\* outbox directory, complete or cut off.
FlusherStops(f) ==
  /\ flusher[f].at # "idle" /\ Faulty /\ Do(f, Resting)
  /\ \/ UNCHANGED strays
     \/ /\ flusher[f].at = "retry"
        /\ \E item \in {Torn, Retried(flusher[f].current.item, flusher[f].now)} :
             strays' = strays \cup {[payload |-> flusher[f].current.payload, item |-> item]}
  /\ UNCHANGED <<enrollment, outbox, inbox, tornInbox, queued, fedClock>>

FedTick == /\ fedClock < MaxFedTime /\ fedClock' = fedClock + 1
           /\ UNCHANGED <<enrollment, outbox, strays, inbox, tornInbox, queued, flusher, fedFaults>>

FedNext ==
  \/ Enroll \/ RevokeEnrollment \/ FedTick
  \/ \E p \in Payload : Enqueue(p) \/ EnqueuePortable(p)
  \/ \E f \in Flusher :
       \/ Flush(f) \/ FlushPortable(f) \/ RemoveQueued(f) \/ RetainQueued(f) \/ FlusherStops(f)
       \/ flusher[f].at = "flush" /\ \E s \in flusher[f].todo : Submit(f, s)
FedSpec == FedInit /\ [][FedNext]_fedVars

-----------------------------------------------------------------------------
\* CentralInbox.Digest: how many payloads of a set the center counts; a file it
\* cannot read fails the digest of every period.
PeriodDigest(ps) == IF tornInbox # {} THEN 0
              ELSE Cardinality({c \in ps \X (1..2) : c[2] <= inbox[c[1]]})

\* Across retries, lost answers, two flushes at once and stopped processes, the
\* center counts a payload once, and a payload leaves the outbox only for a file
\* at the center: the cohort evidence is neither inflated nor lost.
CountedOnce ==
  /\ PeriodDigest(Payload) <= Cardinality(queued)
  /\ \A p \in queued : outbox[p] = Gone => inbox[p] = 1

=============================================================================
