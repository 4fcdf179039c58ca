----------------------------- MODULE YodaReview -----------------------------
(***************************************************************************)
(* One weekly occurrence of the Yoda self review.  A worker reserves the   *)
(* occurrence in an append-only receipt log, asks the model while its      *)
(* lease is renewed, commits the model's proposal to the owner context and *)
(* finalizes the receipt.  A lease that runs out lets another worker take  *)
(* over with a fresh fencing token.  Every log operation holds the         *)
(* receipt lock, which the system releases when a process ends.            *)
(***************************************************************************)
EXTENDS Naturals

CONSTANTS Reviewer,            \* processes that run the weekly review
          Answer,              \* what the model may propose
          Lease, MaxReviewTime, MaxToken

ASSUME LeaseAssumption == Lease \in Nat

VARIABLES weekly,              \* the latest receipt of the occurrence
          tornLog,             \* a cut off line makes every later read fail
          refinement,          \* the occurrence's proposal in the owner context
          stale,               \* the canonical snapshot is not the requested one
          tokens, reviewer, reviewClock

reviewVars == <<weekly, tornLog, refinement, stale, tokens, reviewer, reviewClock>>

Unreserved == [state |-> "none", token |-> 0, until |-> 0]
NoRefinement == [answer |-> "none", token |-> 0, late |-> FALSE]
Away == [at |-> "away", now |-> 0, token |-> 0, resumed |-> FALSE, answer |-> "none", verdict |-> "none"]
TerminalStates == {"proposal", "unavailable", "failed"}

ReviewInit ==
  /\ weekly = Unreserved /\ tornLog = FALSE /\ refinement = NoRefinement /\ stale = FALSE
  /\ tokens = 0 /\ reviewer = [w \in Reviewer |-> Away] /\ reviewClock = 0

-----------------------------------------------------------------------------
\* withLock: an operation on the log is one action, and reads all of it first; a
\* line that cannot be decoded fails every operation from then on.
Locked == ~tornLog
\* What append may leave in the log when it is cut off.
CutOff(w) == {tornLog, tornLog \/ reviewer[w].at \in {"reserve", "finalize", "model"}}
\* BuildRequest binds the request to the time and to the canonical snapshot.
BuildRequest(now) == [Away EXCEPT !.at = "reserve", !.now = now]

At(w, step) == reviewer[w].at = step
Turn(w, next) == reviewer' = [reviewer EXCEPT ![w] = next]
Hop(w, step) == Turn(w, [reviewer[w] EXCEPT !.at = step])

\* Review is called with the time of the call, which waits for the lock.
CallReview(w) ==
  /\ At(w, "away") /\ weekly.state \notin TerminalStates
  /\ Turn(w, BuildRequest(reviewClock))
  /\ UNCHANGED <<weekly, tornLog, refinement, stale, tokens, reviewClock>>

\* Reserve: a new occurrence is leased; a lease that has run out is taken over
\* with a new token; a running one is busy; a terminal receipt is returned.
Reserve(w) ==
  /\ At(w, "reserve") /\ Locked /\ tokens < MaxToken
  /\ weekly.state \in {"none", "reserved"} /\ weekly.until <= reviewer[w].now
  /\ tokens' = tokens + 1
  /\ weekly' = [state |-> "reserved", token |-> tokens', until |-> reviewer[w].now + Lease]
  /\ Turn(w, [reviewer[w] EXCEPT !.at = "snapshot", !.token = tokens', !.resumed = weekly.state = "reserved"])
  /\ UNCHANGED <<tornLog, refinement, stale, reviewClock>>
\* ErrOccurrenceBusy, an existing terminal receipt, or a log that cannot be read.
ReserveReturns(w) ==
  /\ At(w, "reserve")
  /\ ~Locked \/ weekly.state \in TerminalStates
       \/ (weekly.state = "reserved" /\ weekly.until > reviewer[w].now)
  /\ Turn(w, Away)
  /\ UNCHANGED <<weekly, tornLog, refinement, stale, tokens, reviewClock>>

Concluding(w, verdict) == [reviewer[w] EXCEPT !.at = "finalize", !.verdict = verdict]

\* The snapshot is checked, then a resumed occurrence looks for the proposal
\* that a stopped worker may have committed, and needs no model.
Found(w) == reviewer[w].resumed /\ refinement # NoRefinement
Resume(w) ==
  /\ At(w, "snapshot")
  /\ IF stale THEN Turn(w, Concluding(w, "failed"))
     ELSE IF Found(w)
          THEN Turn(w, [Concluding(w, "proposal") EXCEPT !.answer = refinement.answer])
          ELSE \/ Hop(w, "model")
               \/ Turn(w, Concluding(w, "unavailable"))     \* no adapter or authority
  /\ UNCHANGED <<weekly, tornLog, refinement, stale, tokens, reviewClock>>

Fenced(w) == weekly.state = "reserved" /\ weekly.token = reviewer[w].token

\* renewLoop: a lease is renewed only before it runs out.
Renew(w) ==
  /\ At(w, "model") /\ Locked /\ Fenced(w) /\ weekly.until > reviewClock
  /\ weekly.until < reviewClock + Lease
  /\ weekly' = [weekly EXCEPT !.until = reviewClock + Lease]
  /\ UNCHANGED <<tornLog, refinement, stale, tokens, reviewer, reviewClock>>

\* The model answers, fails, proposes what is not valid, or the deadline ends it.
Answered(w) ==
  /\ At(w, "model")
  /\ \/ \E a \in Answer : Turn(w, [reviewer[w] EXCEPT !.at = "check", !.answer = a])
     \/ Turn(w, Concluding(w, "failed"))
  /\ UNCHANGED <<weekly, tornLog, refinement, stale, tokens, reviewClock>>

\* ValidateProposal and the snapshot once more; a failed renewal ends the call
\* without a verdict; the time of the commit is taken before its lock.
Check(w) ==
  /\ At(w, "check")
  /\ IF stale THEN Turn(w, Concluding(w, "failed"))
     ELSE \/ Turn(w, [reviewer[w] EXCEPT !.at = "commit", !.now = reviewClock])
          \/ (tornLog \/ ~Fenced(w) \/ weekly.until <= reviewClock) /\ Turn(w, Away)
  /\ UNCHANGED <<weekly, tornLog, refinement, stale, tokens, reviewClock>>

\* CommitOwnerctxProposal: under the lock the fence is read again and the
\* proposal created if absent; one that is there has another token, which is an
\* error (sameProposalBinding), and so is a lease that has run out meanwhile.
\* Mutant: the commit trusts the reservation it was given.
MayCommitAlways(w) == weekly.state = "reserved"
MayCommit(w) == Fenced(w) /\ weekly.until > reviewer[w].now
Commit(w) ==
  /\ At(w, "commit") /\ Locked
  /\ IF ~MayCommit(w) \/ refinement # NoRefinement
     THEN Turn(w, Concluding(w, "failed")) /\ UNCHANGED refinement
     ELSE LET late == weekly.until <= reviewClock IN
          /\ refinement' = [answer |-> reviewer[w].answer, token |-> reviewer[w].token, late |-> late]
          /\ Turn(w, Concluding(w, IF late \/ stale THEN "failed" ELSE "proposal"))
  /\ UNCHANGED <<weekly, tornLog, stale, tokens, reviewClock>>

\* Finalize: the token must be the reservation's, and a receipt ends once.
Finalize(w) ==
  /\ At(w, "finalize") /\ Locked
  /\ weekly' = IF Fenced(w) THEN [weekly EXCEPT !.state = reviewer[w].verdict] ELSE weekly
  /\ Turn(w, Away)
  /\ UNCHANGED <<tornLog, refinement, stale, tokens, reviewClock>>

\* The process ends, the lock is not to be had in time, or the log is torn.
ReviewerStops(w) ==
  /\ ~At(w, "away") /\ Turn(w, Away)
  /\ tornLog' \in CutOff(w)
  /\ UNCHANGED <<weekly, refinement, stale, tokens, reviewClock>>

\* The owner changes a facet.
SnapshotChanges ==
  /\ ~stale /\ stale' = TRUE
  /\ UNCHANGED <<weekly, tornLog, refinement, tokens, reviewer, reviewClock>>
ReviewTick ==
  /\ reviewClock < MaxReviewTime /\ reviewClock' = reviewClock + 1
  /\ UNCHANGED <<weekly, tornLog, refinement, stale, tokens, reviewer>>

ReviewNext ==
  \/ SnapshotChanges \/ ReviewTick
  \/ \E w \in Reviewer :
       \/ CallReview(w) \/ Reserve(w) \/ ReserveReturns(w) \/ Resume(w) \/ Renew(w)
       \/ Answered(w) \/ Check(w) \/ Commit(w) \/ Finalize(w) \/ ReviewerStops(w)
ReviewSpec == ReviewInit /\ [][ReviewNext]_reviewVars

-----------------------------------------------------------------------------
\* Across takeovers, stopped workers and late answers the receipt tells what is
\* in the owner context: a proposal is reported only when it is durable, and a
\* receipt without one leaves none behind, unless the snapshot has changed or
\* the commit itself outlived its lease.
ReceiptTellsProposal ==
  /\ weekly.state = "proposal" => refinement # NoRefinement
  /\ weekly.state \in {"failed", "unavailable"} =>
       refinement = NoRefinement \/ refinement.late \/ stale
=============================================================================
