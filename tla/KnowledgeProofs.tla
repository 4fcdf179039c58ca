--------------------------- MODULE KnowledgeProofs ---------------------------
(***************************************************************************)
(* What is proved of the components that keep what agents know and learn,  *)
(* for any number of processes, pages, promotions, payloads and faults.    *)
(***************************************************************************)
EXTENDS AgentState, AtlasOps, YodaReview, ContextPromotion, ManagedAtlas,
        Federation, SequenceTheorems, MemoryEngine, PriorWork, PromptHistory,
        OwnerContext, OwnerObservation, FiniteSetTheorems, TLAPS

-----------------------------------------------------------------------------
(***************************************************************************)
(* AtlasOps.  The session that holds grants.lock is the only one between   *)
(* its read of the document and its write, so the document it will write   *)
(* still has every revocation.                                             *)
(***************************************************************************)
Documents == [StandingGrant -> {"none", "active", "paused", "revoked"}]
KeepsRevocations(s) ==
  /\ "at" \in DOMAIN session[s]
  /\ session[s].at = "grants" =>
       /\ grantLock = s /\ session[s].document \in Documents
       /\ \A g \in StandingGrant : grants[g] = "revoked" => session[s].document[g] = "revoked"
GrantsInv ==
  /\ grants \in Documents \/ grants = TornGrants
  /\ DOMAIN session = AtlasSession
  /\ \A s \in AtlasSession : KeepsRevocations(s)

\* What one session does leaves the others as they are.
LEMMA OneSessionPuts ==
  ASSUME DOMAIN session = AtlasSession, NEW s \in AtlasSession, NEW next, Puts(s, next)
  PROVE  DOMAIN session' = AtlasSession /\ session'[s] = next /\ \A t \in AtlasSession \ {s} : session'[t] = session[t]
  BY DEF Puts

\* A session that goes on without touching the grants.
LEMMA PageWorkKeepsGrants ==
  ASSUME GrantsInv, NEW s \in AtlasSession, NEW next, Puts(s, next), UNCHANGED <<grants, grantLock>>,
         "at" \in DOMAIN next, next.at # "grants"
  PROVE  GrantsInv'
<1>1. DOMAIN session' = AtlasSession /\ session'[s] = next /\ \A t \in AtlasSession \ {s} : session'[t] = session[t]
  BY OneSessionPuts DEF GrantsInv
<1> QED
  BY <1>1 DEF GrantsInv, KeepsRevocations, TornGrants

\* Every step of a session keeps the invariant.
LEMMA GrantsStep ==
  ASSUME GrantsInv, [AtlasNext]_atlasVars
  PROVE  GrantsInv'
<1>0. /\ DOMAIN session = AtlasSession /\ \A s \in AtlasSession : KeepsRevocations(s)
      /\ AtRest.at = "rest" /\ "at" \in DOMAIN AtRest
  BY DEF GrantsInv, AtRest
<1>1. ASSUME NEW s \in AtlasSession, NEW op, NEW key, NEW by, Call(s, op, key, by) PROVE GrantsInv'
  <2>1. PICK expected \in {"any", "stale"} :
          Puts(s, [at |-> IF expected = "stale" THEN "record" ELSE "change",
                   op |-> op, key |-> key, current |-> page,
                   state |-> IF expected = "stale" THEN "proposed" ELSE "written"])
    BY <1>1 DEF Call
  <2> QED
    BY <1>1, <2>1, PageWorkKeepsGrants DEF Call
<1>2. ASSUME NEW s \in AtlasSession, NEW at \in {"record", "write"}, NEW state,
             UNCHANGED <<grants, grantLock>>,
             \/ Puts(s, [session[s] EXCEPT !.at = at])
             \/ Puts(s, [session[s] EXCEPT !.at = at, !.state = state])
      PROVE  GrantsInv'
  BY <1>0, <1>2, PageWorkKeepsGrants DEF KeepsRevocations
<1>3. ASSUME NEW s \in AtlasSession, CreatePage(s) \/ CommitEdit(s) \/ Write(s) PROVE GrantsInv'
  BY <1>2, <1>3 DEF CreatePage, CommitEdit, Write
<1>4. ASSUME NEW s \in AtlasSession, Record(s) PROVE GrantsInv'
  BY <1>0, <1>4, PageWorkKeepsGrants DEF Record
<1>5. ASSUME NEW s \in AtlasSession, MutateGrants(s) PROVE GrantsInv'
  <2>1. PICK g \in StandingGrant : \E c \in Changes(grants[g]) :
          Puts(s, [at |-> "grants", document |-> [grants EXCEPT ![g] = c.to]])
    BY <1>5 DEF MutateGrants
  <2>2. PICK c \in Changes(grants[g]) : Puts(s, [at |-> "grants", document |-> [grants EXCEPT ![g] = c.to]])
    BY <2>1
  <2>3. grants \in Documents /\ c.to \in {"active", "paused", "revoked"} /\ grants[g] # "revoked"
    BY <1>5 DEF MutateGrants, GrantsInv, Changes
  <2>4. [grants EXCEPT ![g] = c.to] \in Documents /\ \A h \in StandingGrant : grants[h] = "revoked" => [grants EXCEPT ![g] = c.to][h] = "revoked"
    BY <2>3 DEF Documents
  <2>5. /\ DOMAIN session' = AtlasSession /\ session'[s] = [at |-> "grants", document |-> [grants EXCEPT ![g] = c.to]]
        /\ \A t \in AtlasSession \ {s} : session'[t] = session[t]
    BY <1>0, <2>2, OneSessionPuts
  <2>6. grantLock = Nobody /\ grantLock' = s /\ grants' = grants
    BY <1>5 DEF MutateGrants, LockFreeOfOthers
  <2>7. KeepsRevocations(s)'
    BY <2>4, <2>5, <2>6 DEF KeepsRevocations
  <2>8. ASSUME NEW t \in AtlasSession \ {s} PROVE KeepsRevocations(t)'
    BY <1>0, <2>5, <2>6, SessionAssumption DEF KeepsRevocations
  <2> QED
    BY <2>3, <2>5, <2>6, <2>7, <2>8 DEF GrantsInv
<1>6. ASSUME NEW s \in AtlasSession, WriteGrants(s) PROVE GrantsInv'
  <2>1. /\ DOMAIN session' = AtlasSession /\ session'[s] = AtRest /\ \A t \in AtlasSession \ {s} : session'[t] = session[t]
    BY <1>0, <1>6, OneSessionPuts DEF WriteGrants
  <2>2. grants' \in Documents /\ grantLock = s
    BY <1>0, <1>6 DEF WriteGrants, KeepsRevocations, Sits
  <2>3. ASSUME NEW t \in AtlasSession PROVE KeepsRevocations(t)'
    BY <1>0, <2>1, <2>2 DEF KeepsRevocations
  <2> QED
    BY <2>1, <2>2, <2>3 DEF GrantsInv
<1>7. ASSUME NEW s \in AtlasSession, AtlasCrash(s) PROVE GrantsInv'
  <2>1. /\ DOMAIN session' = AtlasSession /\ session'[s] = AtRest /\ \A t \in AtlasSession \ {s} : session'[t] = session[t]
    BY <1>0, <1>7, OneSessionPuts DEF AtlasCrash
  <2>2. /\ grantLock' = IF grantLock = s THEN Nobody ELSE grantLock
        /\ grants' = grants \/ (session[s].at = "grants" /\ grants' = TornGrants)
    BY <1>7 DEF AtlasCrash, Sits
  <2>3. ASSUME NEW t \in AtlasSession PROVE KeepsRevocations(t)'
    BY <1>0, <2>1, <2>2 DEF KeepsRevocations
  <2> QED
    BY <2>1, <2>2, <2>3 DEF GrantsInv, TornGrants
<1>8. CASE UNCHANGED atlasVars
  BY <1>8 DEF atlasVars, GrantsInv, KeepsRevocations, TornGrants
<1> QED
  BY <1>1, <1>3, <1>4, <1>5, <1>6, <1>7, <1>8 DEF AtlasNext, AppendEntry, SetField, Link

\* RevokeGrant: whatever several sessions do to the grants at once, a revoked grant is
\* never again read as active or paused (RevokedForGood).
THEOREM RevocationFinal == AtlasSpec => RevokedForGood
<1>1. AtlasInit => GrantsInv
  BY DEF AtlasInit, GrantsInv, KeepsRevocations, AtRest, Documents
<1>2. GrantsInv /\ [AtlasNext]_atlasVars => GrantsInv'
  BY GrantsStep
<1>3. GrantsInv /\ [AtlasNext]_atlasVars =>
        [\A g \in StandingGrant : grants[g] = "revoked" => grants'[g] \in {"revoked", "torn"}]_atlasVars
  <2> SUFFICES ASSUME GrantsInv, AtlasNext, NEW g \in StandingGrant, grants[g] = "revoked"
               PROVE  grants'[g] \in {"revoked", "torn"}
    OBVIOUS
  <2>1. \/ grants' = grants \/ grants' = TornGrants
        \/ \E s \in AtlasSession : session[s].at = "grants" /\ grants' = session[s].document
    BY DEF AtlasNext, AppendEntry, SetField, Link, Call, CreatePage, CommitEdit, Write, Record, MutateGrants, WriteGrants,
           AtlasCrash, Sits
  <2> QED
    BY <2>1 DEF GrantsInv, KeepsRevocations, TornGrants
<1> QED
  BY <1>1, <1>2, <1>3, PTL DEF AtlasSpec, RevokedForGood

-----------------------------------------------------------------------------
(***************************************************************************)
(* YodaReview.  A fencing token belongs to one reviewer.  The one whose    *)
(* token the reservation names finds no proposal before its own commit,    *)
(* unless it resumed and took that one over, and carries a verdict to the  *)
(* receipt that agrees with the owner context.                             *)
(***************************************************************************)
Steps == {"away", "reserve", "snapshot", "model", "check", "commit", "finalize"}
ReviewerState ==
  [at : Steps, now : Nat, token : Nat, resumed : BOOLEAN, answer : Answer \cup {"none"}, verdict : TerminalStates \cup {"none"}]
ReviewTyped ==
  /\ tokens \in Nat /\ reviewClock \in Nat
  /\ weekly \in [state : {"none", "reserved"} \cup TerminalStates, token : Nat, until : Nat] /\ weekly.token <= tokens
  /\ refinement \in [answer : Answer \cup {"none"}, token : Nat, late : BOOLEAN]
  /\ DOMAIN reviewer = Reviewer
  /\ \A w \in Reviewer : /\ reviewer[w] \in ReviewerState /\ reviewer[w].token <= tokens
                         /\ reviewer[w].at \notin {"away", "reserve"} => reviewer[w].token > 0
TokensUnique ==
  \A v, w \in Reviewer : v # w /\ reviewer[v].token = reviewer[w].token => reviewer[v].token = 0
\* What a reviewer that holds the reservation may count on, and what it will say.
NothingProposed == refinement = NoRefinement
VerdictTrue(w) ==
  /\ reviewer[w].at = "finalize" => reviewer[w].verdict \in TerminalStates
  /\ reviewer[w].at = "finalize" /\ reviewer[w].verdict = "proposal" => ~NothingProposed
  /\ Fenced(w) =>
       /\ reviewer[w].at = "snapshot" /\ ~reviewer[w].resumed => NothingProposed
       /\ reviewer[w].at \in {"model", "check", "commit"} => NothingProposed
       /\ reviewer[w].at = "finalize" /\ reviewer[w].verdict # "proposal" => NothingProposed \/ refinement.late \/ stale
ReviewInv ==
  /\ ReviewTyped /\ TokensUnique /\ ReceiptTellsProposal
  /\ weekly.state = "none" => NothingProposed
  /\ \A w \in Reviewer : VerdictTrue(w)

\* A reviewer goes on and nothing else changes.
LEMMA OneReviewerTurns ==
  ASSUME ReviewInv, NEW w \in Reviewer, NEW next \in ReviewerState, Turn(w, next),
         UNCHANGED <<weekly, refinement, stale, tokens, reviewClock>>,
         next.token = reviewer[w].token \/ next.token = 0,
         next.at \notin {"away", "reserve"} => next.token > 0,
         next.at = "finalize" => next.verdict \in TerminalStates,
         next.at = "finalize" /\ next.verdict = "proposal" => ~NothingProposed,
         weekly.state = "reserved" /\ weekly.token = next.token =>
            /\ next.at = "snapshot" /\ ~next.resumed => NothingProposed
            /\ next.at \in {"model", "check", "commit"} => NothingProposed
            /\ next.at = "finalize" /\ next.verdict # "proposal" => NothingProposed \/ refinement.late \/ stale
  PROVE  ReviewInv'
<1>1. DOMAIN reviewer' = Reviewer /\ reviewer'[w] = next /\ \A v \in Reviewer \ {w} : reviewer'[v] = reviewer[v]
  BY DEF Turn, ReviewInv, ReviewTyped
<1>2. ReviewTyped'
  BY <1>1 DEF ReviewInv, ReviewTyped
<1>3. TokensUnique'
  BY <1>1 DEF ReviewInv, TokensUnique
<1>4. ASSUME NEW v \in Reviewer PROVE VerdictTrue(v)'
  <2>1. CASE v = w
    BY <1>1, <2>1 DEF VerdictTrue, Fenced, NothingProposed
  <2>2. CASE v # w
    BY <1>1, <2>2 DEF ReviewInv, VerdictTrue, Fenced, NothingProposed
  <2> QED
    BY <2>1, <2>2
<1> QED
  BY <1>2, <1>3, <1>4 DEF ReviewInv, ReceiptTellsProposal, NothingProposed

\* A verdict, with an answer that was found or without one.
LEMMA Concludes ==
  ASSUME NEW w \in Reviewer, reviewer[w] \in ReviewerState, NEW verdict \in TerminalStates
  PROVE  /\ Concluding(w, verdict) \in ReviewerState /\ Concluding(w, verdict).at = "finalize"
         /\ Concluding(w, verdict).token = reviewer[w].token /\ Concluding(w, verdict).verdict = verdict
  BY DEF ReviewerState, Concluding, Steps

\* Reserve gives the reservation a fresh token.
LEMMA ReserveKeeps ==
  ASSUME ReviewInv, NEW w \in Reviewer, Reserve(w)
  PROVE  ReviewInv'
<1> DEFINE again == weekly.state = "reserved"
           next == [reviewer[w] EXCEPT !.at = "snapshot", !.token = tokens + 1, !.resumed = again]
<1>1. /\ reviewer[w] \in ReviewerState /\ tokens \in Nat /\ reviewer[w].now \in Nat /\ reviewer[w].now + Lease \in Nat
      /\ tokens + 1 \in Nat
  BY LeaseAssumption DEF ReviewInv, ReviewTyped, ReviewerState
<1>2. again \in BOOLEAN
  OBVIOUS
<1>3. /\ tokens' = tokens + 1 /\ weekly' = [state |-> "reserved", token |-> tokens + 1, until |-> reviewer[w].now + Lease]
      /\ Turn(w, next) /\ UNCHANGED <<refinement, stale, reviewClock>>
      /\ weekly.state \in {"none", "reserved"}
  BY DEF Reserve
<1> HIDE DEF again
<1>4. /\ next \in ReviewerState /\ next.at = "snapshot" /\ next.token = tokens + 1 /\ next.resumed = again
  <2>1. "snapshot" \in Steps
    BY DEF Steps
  <2> QED
    BY <1>1, <1>2, <2>1 DEF ReviewerState
<1> HIDE DEF next
<1>5. DOMAIN reviewer' = Reviewer /\ reviewer'[w] = next /\ \A v \in Reviewer \ {w} : reviewer'[v] = reviewer[v]
  BY <1>3 DEF Turn, ReviewInv, ReviewTyped
<1>6. ReviewTyped'
  <2>1. weekly' \in [state : {"none", "reserved"} \cup TerminalStates, token : Nat, until : Nat] /\ weekly'.token <= tokens'
    BY <1>1, <1>3
  <2>2. ASSUME NEW v \in Reviewer
        PROVE  /\ reviewer'[v] \in ReviewerState /\ reviewer'[v].token <= tokens'
               /\ reviewer'[v].at \notin {"away", "reserve"} => reviewer'[v].token > 0
    <3>1. reviewer[v] \in ReviewerState /\ reviewer[v].token \in Nat /\ reviewer[v].token <= tokens
      BY DEF ReviewInv, ReviewTyped, ReviewerState
    <3> QED
      BY <1>1, <1>3, <1>4, <1>5, <3>1 DEF ReviewInv, ReviewTyped
  <2> QED
    BY <1>1, <1>3, <1>5, <2>1, <2>2 DEF ReviewInv, ReviewTyped
<1>7. TokensUnique'
  BY <1>1, <1>4, <1>5 DEF ReviewInv, ReviewTyped, TokensUnique, ReviewerState
<1>8. ASSUME NEW v \in Reviewer PROVE VerdictTrue(v)'
  <2>1. CASE v = w
    BY <1>3, <1>4, <1>5, <2>1 DEF VerdictTrue, Fenced, NothingProposed, ReviewInv, again
  <2>2. CASE v # w
    <3>1. reviewer[v].token # tokens + 1
      BY <1>1 DEF ReviewInv, ReviewTyped, ReviewerState
    <3> QED
      BY <1>3, <1>5, <2>2, <3>1 DEF ReviewInv, VerdictTrue, Fenced, NothingProposed
  <2> QED
    BY <2>1, <2>2
<1> QED
  BY <1>3, <1>6, <1>7, <1>8 DEF ReviewInv, ReceiptTellsProposal, TerminalStates

\* Commit writes the one proposal, under the token of the reservation.
LEMMA CommitKeeps ==
  ASSUME ReviewInv, NEW w \in Reviewer, Commit(w)
  PROVE  ReviewInv'
<1>0. /\ reviewer[w] \in ReviewerState /\ reviewer[w].at = "commit" /\ reviewer[w].token > 0 /\ VerdictTrue(w)
      /\ UNCHANGED <<weekly, stale, tokens, reviewClock>>
  BY DEF ReviewInv, ReviewTyped, Commit, At
<1>1. CASE ~MayCommit(w) \/ refinement # NoRefinement
  <2>1. Turn(w, Concluding(w, "failed")) /\ UNCHANGED refinement
    BY <1>1 DEF Commit
  <2>2. Fenced(w) => NothingProposed
    BY <1>0 DEF VerdictTrue
  <2>3. "failed" \in TerminalStates
    BY DEF TerminalStates
  <2> QED
    BY <1>0, <2>1, <2>2, <2>3, Concludes, OneReviewerTurns DEF Fenced
<1>2. CASE MayCommit(w) /\ refinement = NoRefinement
  <2> DEFINE late == weekly.until <= reviewClock
             verdict == IF late \/ stale THEN "failed" ELSE "proposal"
  <2>1. /\ refinement' = [answer |-> reviewer[w].answer, token |-> reviewer[w].token, late |-> late]
        /\ Turn(w, Concluding(w, verdict))
    BY <1>2 DEF Commit
  <2>2. Fenced(w)
    BY <1>2 DEF MayCommit
  <2>3. ~NothingProposed' /\ refinement'.late = late /\ verdict \in TerminalStates
    BY <1>0, <2>1 DEF NothingProposed, NoRefinement, TerminalStates, ReviewerState
  <2>4. verdict # "proposal" => late \/ stale
    OBVIOUS
  <2> HIDE DEF late, verdict
  <2>5. /\ DOMAIN reviewer' = Reviewer /\ reviewer'[w] = Concluding(w, verdict)
        /\ \A v \in Reviewer \ {w} : reviewer'[v] = reviewer[v]
    BY <2>1 DEF Turn, ReviewInv, ReviewTyped
  <2>6. /\ Concluding(w, verdict) \in ReviewerState /\ Concluding(w, verdict).at = "finalize"
        /\ Concluding(w, verdict).token = reviewer[w].token /\ Concluding(w, verdict).verdict = verdict
    BY <1>0, <2>3, Concludes
  <2>7. ReviewTyped' /\ TokensUnique'
    <3>1. late \in BOOLEAN
      BY DEF late
    <3>2. refinement' \in [answer : Answer \cup {"none"}, token : Nat, late : BOOLEAN]
      BY <1>0, <2>1, <3>1 DEF ReviewerState
    <3> QED
      BY <1>0, <2>5, <2>6, <3>2 DEF ReviewInv, ReviewTyped, TokensUnique
  <2>8. VerdictTrue(w)'
    BY <1>0, <2>3, <2>4, <2>5, <2>6 DEF VerdictTrue
  <2>9. ASSUME NEW v \in Reviewer \ {w} PROVE VerdictTrue(v)'
    <3>1. reviewer[v].token # weekly.token
      BY <1>0, <2>2 DEF ReviewInv, TokensUnique, Fenced, ReviewTyped, ReviewerState
    <3>2. reviewer[v].at = "finalize" => reviewer[v].verdict \in TerminalStates
      BY DEF ReviewInv, VerdictTrue
    <3> QED
      BY <1>0, <2>3, <2>5, <3>1, <3>2 DEF VerdictTrue, Fenced
  <2> QED
    BY <1>0, <2>2, <2>3, <2>7, <2>8, <2>9 DEF ReviewInv, ReceiptTellsProposal, Fenced, TerminalStates
<1> QED
  BY <1>1, <1>2

\* Finalize puts a verdict into the receipt only under its token.
LEMMA FinalizeKeeps ==
  ASSUME ReviewInv, NEW w \in Reviewer, Finalize(w)
  PROVE  ReviewInv'
<1>1. /\ Away \in ReviewerState /\ Away.at = "away" /\ Away.token = 0
  BY DEF Away, ReviewerState, Steps
<1>2. /\ reviewer[w].at = "finalize" /\ Turn(w, Away) /\ UNCHANGED <<refinement, stale, tokens, reviewClock>>
      /\ VerdictTrue(w)
  BY DEF Finalize, At, ReviewInv
<1>3. CASE ~Fenced(w)
  BY <1>1, <1>2, <1>3, OneReviewerTurns DEF Finalize
<1>4. CASE Fenced(w)
  <2>1. weekly' = [weekly EXCEPT !.state = reviewer[w].verdict] /\ reviewer[w].verdict \in TerminalStates
    BY <1>2, <1>4 DEF Finalize, VerdictTrue
  <2>2. /\ weekly' \in [state : {"none", "reserved"} \cup TerminalStates, token : Nat, until : Nat]
        /\ weekly'.state = reviewer[w].verdict /\ weekly'.token = weekly.token
    BY <2>1 DEF ReviewInv, ReviewTyped
  <2>3. DOMAIN reviewer' = Reviewer /\ reviewer'[w] = Away /\ \A v \in Reviewer \ {w} : reviewer'[v] = reviewer[v]
    BY <1>2 DEF Turn, ReviewInv, ReviewTyped
  <2>4. ReviewTyped' /\ TokensUnique'
    BY <1>1, <1>2, <2>2, <2>3 DEF ReviewInv, ReviewTyped, TokensUnique
  <2>5. weekly'.state \notin {"none", "reserved"}
    BY <2>1, <2>2 DEF TerminalStates
  <2>6. ASSUME NEW v \in Reviewer PROVE VerdictTrue(v)'
    BY <1>1, <1>2, <2>3, <2>5 DEF ReviewInv, VerdictTrue, Fenced, NothingProposed
  <2>7. ReceiptTellsProposal'
    BY <1>2, <1>4, <2>1, <2>2 DEF VerdictTrue, ReceiptTellsProposal, NothingProposed, TerminalStates
  <2> QED
    BY <2>4, <2>5, <2>6, <2>7 DEF ReviewInv
<1> QED
  BY <1>3, <1>4

\* Every step of a reviewer, of the owner and of time keeps the invariant.
LEMMA ReviewStep ==
  ASSUME ReviewInv, [ReviewNext]_reviewVars
  PROVE  ReviewInv'
<1>0. /\ Away \in ReviewerState /\ Away.at = "away" /\ Away.token = 0
      /\ \A w \in Reviewer : reviewer[w] \in ReviewerState /\ VerdictTrue(w)
                            /\ (reviewer[w].at \notin {"away", "reserve"} => reviewer[w].token > 0)
      /\ reviewClock \in Nat /\ {"failed", "unavailable", "proposal"} \subseteq TerminalStates
  BY DEF Away, ReviewerState, Steps, ReviewInv, ReviewTyped, TerminalStates
<1>1. ASSUME NEW w \in Reviewer, Turn(w, Away), UNCHANGED <<weekly, refinement, stale, tokens, reviewClock>>
      PROVE  ReviewInv'
  BY <1>0, <1>1, OneReviewerTurns
<1>2. ASSUME NEW w \in Reviewer, CallReview(w) PROVE ReviewInv'
  <2>1. /\ BuildRequest(reviewClock) \in ReviewerState /\ BuildRequest(reviewClock).at = "reserve"
        /\ BuildRequest(reviewClock).token = 0
    BY <1>0 DEF BuildRequest, ReviewerState, Steps
  <2> QED
    BY <1>2, <2>1, OneReviewerTurns DEF CallReview
<1>3. ASSUME NEW w \in Reviewer, Resume(w) PROVE ReviewInv'
  <2>0. /\ reviewer[w].at = "snapshot" /\ reviewer[w].token > 0 /\ UNCHANGED <<weekly, refinement, stale, tokens, reviewClock>>
    BY <1>0, <1>3 DEF Resume, At
  <2>1. CASE stale
    BY <1>0, <1>3, <2>0, <2>1, Concludes, OneReviewerTurns DEF Resume
  <2>2. CASE ~stale /\ Found(w)
    <3> DEFINE next == [Concluding(w, "proposal") EXCEPT !.answer = refinement.answer]
    <3>1. Turn(w, next) /\ ~NothingProposed
      BY <1>3, <2>2 DEF Resume, Found, NothingProposed
    <3>2. refinement.answer \in Answer \cup {"none"}
      BY DEF ReviewInv, ReviewTyped
    <3>3. /\ Concluding(w, "proposal") \in ReviewerState /\ Concluding(w, "proposal").at = "finalize"
          /\ Concluding(w, "proposal").token = reviewer[w].token /\ Concluding(w, "proposal").verdict = "proposal"
      BY <1>0, Concludes
    <3>4. next \in ReviewerState /\ next.at = "finalize" /\ next.token = reviewer[w].token /\ next.verdict = "proposal"
      BY <3>2, <3>3 DEF ReviewerState
    <3>5. "proposal" \in TerminalStates
      BY DEF TerminalStates
    <3> HIDE DEF next
    <3> QED
      BY <2>0, <3>1, <3>4, <3>5, OneReviewerTurns
  <2>3. CASE ~stale /\ ~Found(w)
    <3>1. Fenced(w) => NothingProposed
      BY <1>0, <2>0, <2>3 DEF VerdictTrue, Found, NothingProposed
    <3>2. CASE Turn(w, Concluding(w, "unavailable"))
      BY <1>0, <2>0, <3>1, <3>2, Concludes, OneReviewerTurns DEF Fenced
    <3>3. CASE Hop(w, "model")
      <4>1. /\ [reviewer[w] EXCEPT !.at = "model"] \in ReviewerState /\ [reviewer[w] EXCEPT !.at = "model"].at = "model"
            /\ [reviewer[w] EXCEPT !.at = "model"].token = reviewer[w].token
        BY <1>0 DEF ReviewerState, Steps
      <4> QED
        BY <2>0, <3>1, <3>3, <4>1, OneReviewerTurns DEF Fenced, Hop
    <3> QED
      BY <1>3, <2>3, <3>2, <3>3 DEF Resume
  <2> QED
    BY <2>1, <2>2, <2>3
<1>4. ASSUME NEW w \in Reviewer, Renew(w) PROVE ReviewInv'
  <2>1. /\ weekly' = [weekly EXCEPT !.until = reviewClock + Lease] /\ reviewClock + Lease \in Nat
        /\ UNCHANGED <<refinement, stale, tokens, reviewer, reviewClock>>
    BY <1>0, <1>4, LeaseAssumption DEF Renew
  <2>2. /\ weekly' \in [state : {"none", "reserved"} \cup TerminalStates, token : Nat, until : Nat]
        /\ weekly'.state = weekly.state /\ weekly'.token = weekly.token
    BY <2>1 DEF ReviewInv, ReviewTyped
  <2> QED
    BY <2>1, <2>2 DEF ReviewInv, ReviewTyped, TokensUnique, VerdictTrue, Fenced, NothingProposed, ReceiptTellsProposal
<1>5. ASSUME NEW w \in Reviewer, Answered(w) PROVE ReviewInv'
  <2>0. /\ reviewer[w].at = "model" /\ reviewer[w].token > 0 /\ UNCHANGED <<weekly, refinement, stale, tokens, reviewClock>>
        /\ Fenced(w) => NothingProposed
    BY <1>0, <1>5 DEF Answered, At, VerdictTrue
  <2>1. CASE Turn(w, Concluding(w, "failed"))
    BY <1>0, <2>0, <2>1, Concludes, OneReviewerTurns DEF Fenced
  <2>2. ASSUME NEW a \in Answer, Turn(w, [reviewer[w] EXCEPT !.at = "check", !.answer = a]) PROVE ReviewInv'
    <3>1. /\ [reviewer[w] EXCEPT !.at = "check", !.answer = a] \in ReviewerState
          /\ [reviewer[w] EXCEPT !.at = "check", !.answer = a].at = "check"
          /\ [reviewer[w] EXCEPT !.at = "check", !.answer = a].token = reviewer[w].token
      BY <1>0 DEF ReviewerState, Steps
    <3> QED
      BY <2>0, <2>2, <3>1, OneReviewerTurns DEF Fenced
  <2> QED
    BY <1>5, <2>1, <2>2 DEF Answered
<1>6. ASSUME NEW w \in Reviewer, Check(w) PROVE ReviewInv'
  <2>0. /\ reviewer[w].at = "check" /\ reviewer[w].token > 0 /\ UNCHANGED <<weekly, refinement, stale, tokens, reviewClock>>
        /\ Fenced(w) => NothingProposed
    BY <1>0, <1>6 DEF Check, At, VerdictTrue
  <2>1. CASE Turn(w, Concluding(w, "failed"))
    BY <1>0, <2>0, <2>1, Concludes, OneReviewerTurns DEF Fenced
  <2>2. CASE Turn(w, [reviewer[w] EXCEPT !.at = "commit", !.now = reviewClock])
    <3>1. /\ [reviewer[w] EXCEPT !.at = "commit", !.now = reviewClock] \in ReviewerState
          /\ [reviewer[w] EXCEPT !.at = "commit", !.now = reviewClock].at = "commit"
          /\ [reviewer[w] EXCEPT !.at = "commit", !.now = reviewClock].token = reviewer[w].token
      BY <1>0 DEF ReviewerState, Steps
    <3> QED
      BY <2>0, <2>2, <3>1, OneReviewerTurns DEF Fenced
  <2> QED
    BY <1>1, <1>6, <2>0, <2>1, <2>2 DEF Check
<1>7. ASSUME NEW w \in Reviewer, ReserveReturns(w) \/ ReviewerStops(w) PROVE ReviewInv'
  BY <1>1, <1>7 DEF ReserveReturns, ReviewerStops
<1>8. CASE SnapshotChanges
  BY <1>8 DEF SnapshotChanges, ReviewInv, ReviewTyped, TokensUnique, VerdictTrue, Fenced, NothingProposed, ReceiptTellsProposal
<1>9. CASE ReviewTick
  BY <1>9 DEF ReviewTick, ReviewInv, ReviewTyped, TokensUnique, VerdictTrue, Fenced, NothingProposed, ReceiptTellsProposal
<1>10. CASE UNCHANGED reviewVars
  BY <1>10 DEF reviewVars, ReviewInv, ReviewTyped, TokensUnique, VerdictTrue, Fenced, NothingProposed, ReceiptTellsProposal
<1> QED
  BY <1>2, <1>3, <1>4, <1>5, <1>6, <1>7, <1>8, <1>9, <1>10, ReserveKeeps, CommitKeeps, FinalizeKeeps DEF ReviewNext

\* The weekly review: across takeovers, stopped workers and late answers the receipt
\* tells what is in the owner context (ReceiptTellsProposal).
THEOREM ReceiptHonest == ReviewSpec => []ReceiptTellsProposal
<1>1. ReviewInit => ReviewInv
  BY DEF ReviewInit, ReviewInv, ReviewTyped, TokensUnique, VerdictTrue, Fenced, NothingProposed, ReceiptTellsProposal,
         Unreserved, NoRefinement, Away, ReviewerState, Steps, TerminalStates
<1>2. ReviewInv /\ [ReviewNext]_reviewVars => ReviewInv'
  BY ReviewStep
<1>3. ReviewInv => ReceiptTellsProposal
  BY DEF ReviewInv
<1> QED
  BY <1>1, <1>2, <1>3, PTL DEF ReviewSpec

-----------------------------------------------------------------------------
(***************************************************************************)
(* ContextPromotion.  A signed file is never replaced, so what a call has  *)
(* linked stays what it wrote; a call that reaches the end of its list has *)
(* linked every file itself, and the files of a revocation are linked only *)
(* by a call that moved the anchor first.                                  *)
(***************************************************************************)
FromSource == <<"source", "account", "promoted">>
FromAccount == <<"account", "promoted">>
FromPromoted == <<"promoted">>
FromRevocation == <<"revocation", "revoked">>
FromRevoked == <<"revoked">>
AllWritten == << >>
PromotionTodos == {PromotionFiles, FromSource, FromAccount, FromPromoted, AllWritten}
RevocationTodos == {RevocationFiles, FromRevocation, FromRevoked, AllWritten}
Promoting(s) ==
  LET i == service[s].input
      todo == service[s].todo IN
  /\ service[s] \in [at : {"promote"}, input : Promotion, todo : PromotionTodos]
  /\ todo # PromotionFiles => Shown("prepared", i)
  /\ todo \notin {PromotionFiles, FromSource} => Shown("source", i)
  /\ todo \notin {PromotionFiles, FromSource, FromAccount} => Shown("account", i)
  /\ todo = AllWritten => Shown("promoted", i)
Revoking(s) ==
  /\ service[s] \in [at : {"revoke"}, input : Promotion, todo : RevocationTodos]
  /\ anchor[anchorKey(service[s].input)].phase = "revoked"
Anchored(k) ==
  \/ anchor[k] = None
  \/ /\ anchor[k] \in [phase : {"preparing", "active", "revoked"}, input : Promotion]
     /\ anchorKey(anchor[k].input) = k
     /\ anchor[k].phase = "active" =>
          \A kind \in {"prepared", "source", "account", "promoted"} : Shown(kind, anchor[k].input)
Barred(k) == evidence[<<"revocation_prepared", k[1], k[2]>>] # Missing => anchor[k].phase = "revoked"
PromotionInv ==
  /\ DOMAIN service = Service /\ DOMAIN anchor = Key /\ DOMAIN evidence = Paths
  /\ \A s \in Service : service[s] = Idle \/ Promoting(s) \/ Revoking(s)
  /\ \A k \in Key : Anchored(k) /\ Barred(k)

\* The lists, from their first files.
LEMMA FileLists ==
  /\ Head(PromotionFiles) = "prepared" /\ Tail(PromotionFiles) = FromSource
  /\ Head(FromSource) = "source" /\ Tail(FromSource) = FromAccount
  /\ Head(FromAccount) = "account" /\ Tail(FromAccount) = FromPromoted
  /\ Head(FromPromoted) = "promoted" /\ Tail(FromPromoted) = AllWritten
  /\ Head(RevocationFiles) = "revocation_prepared" /\ Tail(RevocationFiles) = FromRevocation
  /\ Head(FromRevocation) = "revocation" /\ Tail(FromRevocation) = FromRevoked
  /\ Head(FromRevoked) = "revoked" /\ Tail(FromRevoked) = AllWritten
<1>1. /\ Head(PromotionFiles) = "prepared" /\ Tail(PromotionFiles) = FromSource
      /\ Head(FromSource) = "source" /\ Tail(FromSource) = FromAccount
  BY DEF PromotionFiles, FromSource, FromAccount
<1>2. /\ Head(FromAccount) = "account" /\ Tail(FromAccount) = FromPromoted
      /\ Head(FromPromoted) = "promoted" /\ Tail(FromPromoted) = AllWritten
  BY DEF FromAccount, FromPromoted, AllWritten
<1>3. /\ Head(RevocationFiles) = "revocation_prepared" /\ Tail(RevocationFiles) = FromRevocation
      /\ Head(FromRevocation) = "revocation" /\ Tail(FromRevocation) = FromRevoked
      /\ Head(FromRevoked) = "revoked" /\ Tail(FromRevoked) = AllWritten
  BY DEF RevocationFiles, FromRevocation, FromRevoked, AllWritten
<1> QED
  BY <1>1, <1>2, <1>3

\* Only the last list is empty.
LEMMA ListsNotEmpty ==
  /\ PromotionFiles # << >> /\ FromSource # << >> /\ FromAccount # << >> /\ FromPromoted # << >>
  /\ RevocationFiles # << >> /\ FromRevocation # << >> /\ FromRevoked # << >>
  /\ AllWritten = << >>
<1>1. Len(PromotionFiles) = 4 /\ Len(FromSource) = 3 /\ Len(FromAccount) = 2 /\ Len(FromPromoted) = 1 /\ Len(<< >>) = 0
  BY DEF PromotionFiles, FromSource, FromAccount, FromPromoted
<1>2. Len(RevocationFiles) = 3 /\ Len(FromRevocation) = 2 /\ Len(FromRevoked) = 1
  BY DEF RevocationFiles, FromRevocation, FromRevoked
<1>3. 4 # 0 /\ 3 # 0 /\ 2 # 0 /\ 1 # 0
  OBVIOUS
<1> QED
  BY <1>1, <1>2, <1>3, Zenon DEF AllWritten

\* A file says something, and has a path of its own.
LEMMA FilesAreThere ==
  ASSUME NEW i \in Promotion,
         NEW kind \in {"prepared", "source", "account", "promoted", "revocation_prepared", "revocation", "revoked"}
  PROVE  Content(kind, i) # Missing /\ Path(kind, i) \in Paths /\ anchorKey(i) \in Key
  BY DEF Content, Missing, Path, Paths, Promotion, anchorKey, Key

\* A call keeps or extends the evidence; what was shown is still shown.
LEMMA ShownStays ==
  ASSUME PromotionInv, NEW p \in Paths, evidence[p] = Missing, NEW c, evidence' = [evidence EXCEPT ![p] = c],
         NEW i \in Promotion,
         NEW kind \in {"prepared", "source", "account", "promoted", "revocation_prepared", "revocation", "revoked"},
         Shown(kind, i)
  PROVE  Shown(kind, i)'
  BY FilesAreThere DEF Shown, PromotionInv, Path, Content

\* A new promotion has nothing to show yet, and its anchor is its own.
LEMMA PromoteKeeps ==
  ASSUME PromotionInv, NEW s \in Service, NEW i \in Promotion, Promote(s, i)
  PROVE  PromotionInv'
<1> DEFINE k == anchorKey(i)
           a == [phase |-> "preparing", input |-> i]
           c == [at |-> "promote", input |-> i, todo |-> PromotionFiles]
<1>1. /\ anchor[k] = None /\ anchor' = [anchor EXCEPT ![k] = a] /\ service' = [service EXCEPT ![s] = c]
      /\ evidence' = evidence /\ k \in Key /\ None.phase = "none"
  BY FilesAreThere DEF Promote, None
<1>2. /\ DOMAIN service' = Service /\ service'[s] = c /\ \A t \in Service \ {s} : service'[t] = service[t]
      /\ DOMAIN anchor' = Key /\ anchor'[k] = a /\ \A j \in Key \ {k} : anchor'[j] = anchor[j]
      /\ DOMAIN evidence' = Paths
  BY <1>1 DEF PromotionInv
<1>3. Promoting(s)'
  BY <1>2, ListsNotEmpty DEF Promoting, PromotionTodos
<1>4. ASSUME NEW t \in Service \ {s} PROVE (service[t] = Idle \/ Promoting(t) \/ Revoking(t))'
  <2>1. CASE Promoting(t)
    BY <1>1, <1>2, <2>1 DEF Promoting, Shown
  <2>2. CASE Revoking(t)
    <3>1. anchorKey(service[t].input) \in Key \ {k}
      BY <1>1, <2>2, FilesAreThere DEF Revoking
    <3> QED
      BY <1>2, <2>2, <3>1 DEF Revoking
  <2> QED
    BY <1>2, <2>1, <2>2 DEF PromotionInv
<1>5. ASSUME NEW j \in Key PROVE Anchored(j)' /\ Barred(j)'
  <2>1. CASE j = k
    BY <1>1, <1>2, <2>1 DEF Anchored, Barred, PromotionInv
  <2>2. CASE j # k
    BY <1>1, <1>2, <2>2 DEF Anchored, Barred, PromotionInv, Shown
  <2> QED
    BY <2>1, <2>2
<1> QED
  BY <1>2, <1>3, <1>4, <1>5 DEF PromotionInv

\* A revocation moves the anchor before it writes anything.
LEMMA RevokeKeeps ==
  ASSUME PromotionInv, NEW s \in Service, NEW k \in Key, Revoke(s, k)
  PROVE  PromotionInv'
<1> DEFINE i == anchor[k].input
           c == [at |-> "revoke", input |-> i, todo |-> RevocationFiles]
<1>1. /\ anchor[k].phase = "active" /\ anchor' = [anchor EXCEPT ![k].phase = "revoked"]
      /\ service' = [service EXCEPT ![s] = c] /\ evidence' = evidence
  BY DEF Revoke
<1>2. anchor[k] \in [phase : {"preparing", "active", "revoked"}, input : Promotion] /\ anchorKey(i) = k
  BY <1>1 DEF PromotionInv, Anchored, None
<1>3. /\ DOMAIN service' = Service /\ service'[s] = c /\ \A t \in Service \ {s} : service'[t] = service[t]
      /\ DOMAIN anchor' = Key /\ \A j \in Key \ {k} : anchor'[j] = anchor[j]
      /\ DOMAIN evidence' = Paths
  BY <1>1 DEF PromotionInv
<1>4. /\ anchor'[k] \in [phase : {"preparing", "active", "revoked"}, input : Promotion]
      /\ anchor'[k].phase = "revoked" /\ anchor'[k].input = i
  BY <1>1, <1>2 DEF PromotionInv
<1> HIDE DEF i
<1>5. Revoking(s)'
  BY <1>2, <1>3, <1>4 DEF Revoking, RevocationTodos, i
<1>6. ASSUME NEW t \in Service \ {s} PROVE (service[t] = Idle \/ Promoting(t) \/ Revoking(t))'
  <2>1. CASE Promoting(t)
    BY <1>1, <1>3, <2>1 DEF Promoting, Shown
  <2>2. CASE Revoking(t)
    <3>1. anchorKey(service[t].input) \in Key
      BY <2>2, FilesAreThere DEF Revoking
    <3> QED
      BY <1>3, <1>4, <2>2, <3>1 DEF Revoking
  <2> QED
    BY <1>3, <2>1, <2>2 DEF PromotionInv
<1>7. ASSUME NEW j \in Key PROVE Anchored(j)' /\ Barred(j)'
  <2>1. CASE j = k
    BY <1>2, <1>4, <2>1 DEF Anchored, Barred
  <2>2. CASE j # k
    BY <1>1, <1>3, <2>2 DEF Anchored, Barred, PromotionInv, Shown
  <2> QED
    BY <2>1, <2>2
<1> QED
  BY <1>3, <1>5, <1>6, <1>7 DEF PromotionInv

\* A call that ends, done or not, without a step of its anchor.
LEMMA ReleaseKeeps ==
  ASSUME PromotionInv, NEW s \in Service, service' = [service EXCEPT ![s] = Idle], UNCHANGED <<anchor, evidence>>
  PROVE  PromotionInv'
  BY DEF PromotionInv, Promoting, Revoking, Anchored, Barred, Shown

\* The anchor becomes active at the end of a list that was written whole.
LEMMA FinishKeeps ==
  ASSUME PromotionInv, NEW s \in Service, Finish(s)
  PROVE  PromotionInv'
<1> DEFINE i == service[s].input
           k == anchorKey(i)
<1>1. service' = [service EXCEPT ![s] = Idle] /\ evidence' = evidence /\ service[s] # Idle /\ service[s].todo = << >>
  BY DEF Finish
<1>2. CASE anchor' = anchor
  BY <1>1, <1>2, ReleaseKeeps
<1>3. CASE anchor' # anchor
  <2>1. service[s].at = "promote" /\ anchor[k] = [phase |-> "preparing", input |-> i] /\ anchor' = [anchor EXCEPT ![k].phase = "active"]
    BY <1>3 DEF Finish
  <2>2. Promoting(s)
    BY <1>1, <2>1 DEF PromotionInv, Revoking
  <2>3. i \in Promotion /\ k \in Key
    BY <2>2, FilesAreThere DEF Promoting
  <2>4. Shown("prepared", i) /\ Shown("source", i) /\ Shown("account", i) /\ Shown("promoted", i)
    BY <1>1, <2>2, ListsNotEmpty DEF Promoting
  <2>5. /\ DOMAIN service' = Service /\ service'[s] = Idle /\ \A t \in Service \ {s} : service'[t] = service[t]
        /\ DOMAIN anchor' = Key /\ \A j \in Key \ {k} : anchor'[j] = anchor[j]
        /\ anchor'[k] = [phase |-> "active", input |-> i]
        /\ DOMAIN evidence' = Paths
    BY <1>1, <2>1, <2>3 DEF PromotionInv
  <2>6. ASSUME NEW t \in Service \ {s} PROVE (service[t] = Idle \/ Promoting(t) \/ Revoking(t))'
    <3>1. CASE Promoting(t)
      BY <1>1, <2>5, <3>1 DEF Promoting, Shown
    <3>2. CASE Revoking(t)
      <4>1. anchorKey(service[t].input) \in Key \ {k}
        BY <2>1, <3>2, FilesAreThere DEF Revoking
      <4> QED
        BY <2>5, <3>2, <4>1 DEF Revoking
    <3> QED
      BY <2>5, <3>1, <3>2 DEF PromotionInv
  <2>7. ASSUME NEW j \in Key PROVE Anchored(j)' /\ Barred(j)'
    <3>1. CASE j = k
      <4>1. Anchored(j)'
        BY <1>1, <2>3, <2>4, <2>5, <3>1 DEF Anchored, Shown
      <4>2. Barred(j)'
        BY <1>1, <2>1, <3>1 DEF Barred, PromotionInv
      <4> QED
        BY <4>1, <4>2
    <3>2. CASE j # k
      BY <1>1, <2>5, <3>2 DEF Anchored, Barred, PromotionInv, Shown
    <3> QED
      BY <3>1, <3>2
  <2> QED
    BY <2>5, <2>6, <2>7 DEF PromotionInv
<1> QED
  BY <1>2, <1>3

\* Linking the next file.
LEMMA WriteKeeps ==
  ASSUME PromotionInv, NEW s \in Service, WriteSigned(s)
  PROVE  PromotionInv'
<1> DEFINE i == service[s].input
           todo == service[s].todo
           kind == Head(todo)
           p == Path(kind, i)
<1>1. CASE ~Linkable(p)
  BY <1>1, ReleaseKeeps DEF WriteSigned
<1>2. CASE Linkable(p)
  <2>1. /\ evidence[p] = Missing /\ evidence' = [evidence EXCEPT ![p] = Content(kind, i)] /\ anchor' = anchor
        /\ service' = [service EXCEPT ![s].todo = Tail(todo)] /\ todo # << >> /\ service[s] # Idle
    BY <1>2 DEF WriteSigned, Linkable
  <2>2. Promoting(s) \/ Revoking(s)
    BY <2>1 DEF PromotionInv
  <2>3. /\ i \in Promotion
        /\ kind \in {"prepared", "source", "account", "promoted", "revocation_prepared", "revocation", "revoked"}
        /\ service[s].at = "promote" => kind # "revocation_prepared"
    BY <2>1, <2>2, FileLists, ListsNotEmpty DEF Promoting, Revoking, PromotionTodos, RevocationTodos
  <2>4. p \in Paths /\ DOMAIN evidence' = Paths /\ evidence'[p] = Content(kind, i)
    BY <2>1, <2>3, FilesAreThere DEF PromotionInv
  <2>5. /\ DOMAIN service' = Service /\ \A t \in Service \ {s} : service'[t] = service[t]
        /\ service'[s] = [service[s] EXCEPT !.todo = Tail(todo)]
    BY <2>1 DEF PromotionInv
  <2>6. ASSUME NEW j \in Promotion,
               NEW any \in {"prepared", "source", "account", "promoted", "revocation_prepared", "revocation", "revoked"},
               Shown(any, j)
        PROVE  Shown(any, j)'
    BY <2>1, <2>4, <2>6, ShownStays
  <2> HIDE DEF kind, p
  <2>7. ASSUME NEW t \in Service \ {s} PROVE (service[t] = Idle \/ Promoting(t) \/ Revoking(t))'
    <3>1. CASE Promoting(t)
      BY <2>5, <2>6, <3>1 DEF Promoting
    <3>2. CASE Revoking(t)
      BY <2>1, <2>5, <3>2 DEF Revoking
    <3> QED
      BY <2>5, <3>1, <3>2 DEF PromotionInv
  <2>8. ASSUME NEW k \in Key PROVE Anchored(k)' /\ Barred(k)'
    <3>1. Anchored(k)'
      BY <2>1, <2>6 DEF PromotionInv, Anchored
    <3>2. Barred(k)'
      <4>1. CASE p = <<"revocation_prepared", k[1], k[2]>>
        <5>1. kind = "revocation_prepared" /\ anchorKey(i) = k
          BY <2>3, <4>1 DEF Path, p, anchorKey, Key
        <5>2. Revoking(s)
          BY <2>2, <2>3, <5>1 DEF Promoting
        <5> QED
          BY <2>1, <5>1, <5>2 DEF Revoking, Barred
      <4>2. CASE p # <<"revocation_prepared", k[1], k[2]>>
        BY <2>1, <2>4, <4>2 DEF PromotionInv, Barred, Paths, Key
      <4> QED
        BY <4>1, <4>2
    <3> QED
      BY <3>1, <3>2
  <2>9. (Promoting(s) \/ Revoking(s))'
    <3>1. CASE Revoking(s)
      <4>1. Tail(todo) \in RevocationTodos
        BY <2>1, <3>1, FileLists, ListsNotEmpty DEF Revoking, RevocationTodos
      <4>2. service'[s] \in [at : {"revoke"}, input : Promotion, todo : RevocationTodos] /\ service'[s].input = i
        BY <2>5, <3>1, <4>1 DEF Revoking
      <4> QED
        BY <2>1, <3>1, <4>2 DEF Revoking
    <3>2. CASE Promoting(s)
      <4>1. Tail(todo) \in PromotionTodos
        BY <2>1, <3>2, FileLists, ListsNotEmpty DEF Promoting, PromotionTodos
      <4>2. /\ service'[s] \in [at : {"promote"}, input : Promotion, todo : PromotionTodos] /\ service'[s].input = i
            /\ service'[s].todo = Tail(todo)
        BY <2>5, <3>2, <4>1 DEF Promoting
      <4>3. \/ todo = PromotionFiles /\ kind = "prepared" /\ Tail(todo) = FromSource
            \/ todo = FromSource /\ kind = "source" /\ Tail(todo) = FromAccount
            \/ todo = FromAccount /\ kind = "account" /\ Tail(todo) = FromPromoted
            \/ todo = FromPromoted /\ kind = "promoted" /\ Tail(todo) = AllWritten
        BY <2>1, <3>2, FileLists, ListsNotEmpty DEF Promoting, PromotionTodos, kind
      <4>4. PICK j, q : j \in Promotion /\ j = i /\ q = kind
        BY <2>3
      <4>5. Shown(q, j)'
        BY <2>4, <4>4 DEF Shown, p
      <4>6. /\ q # "prepared" => todo # PromotionFiles
            /\ q \notin {"prepared", "source"} => todo \notin {PromotionFiles, FromSource}
            /\ q \notin {"prepared", "source", "account"} => todo \notin {PromotionFiles, FromSource, FromAccount}
        BY <4>4, FileLists DEF kind
      <4>7. /\ q # "prepared" => Shown("prepared", j)'
            /\ q \notin {"prepared", "source"} => Shown("source", j)'
            /\ q \notin {"prepared", "source", "account"} => Shown("account", j)'
        BY <2>6, <3>2, <4>4, <4>6 DEF Promoting
      <4>8. /\ Shown("prepared", j)'
            /\ Tail(todo) # FromSource => Shown("source", j)'
            /\ Tail(todo) \notin {FromSource, FromAccount} => Shown("account", j)'
            /\ Tail(todo) = AllWritten => Shown("promoted", j)'
        <5>1. AllWritten \notin {FromSource, FromAccount, FromPromoted}
          BY ListsNotEmpty
        <5> HIDE DEF todo, kind, i
        <5>2. CASE q = "prepared"
          BY <4>3, <4>4, <4>5, <5>1, <5>2
        <5>3. CASE q = "source"
          BY <4>3, <4>4, <4>5, <4>7, <5>1, <5>3
        <5>4. CASE q = "account"
          BY <4>3, <4>4, <4>5, <4>7, <5>1, <5>4
        <5>5. CASE q = "promoted"
          BY <4>3, <4>4, <4>5, <4>7, <5>1, <5>5
        <5> QED
          BY <4>3, <4>4, <5>2, <5>3, <5>4, <5>5
      <4> HIDE DEF todo, i
      <4>9. Promoting(s)'
        BY <4>2, <4>4, <4>8 DEF Promoting
      <4> QED
        BY <4>9
    <3> QED
      BY <2>2, <3>1, <3>2
  <2> QED
    BY <2>1, <2>4, <2>5, <2>7, <2>8, <2>9 DEF PromotionInv
<1> QED
  BY <1>1, <1>2

\* Promote and Revoke: an active promotion can be read, audited and revoked, whatever
\* other services, accounts and interrupted calls have left in the same directories,
\* and the evidence of a revocation exists only behind the barrier (ActiveIsEvidenced).
THEOREM PromotionEvidenced == PromotionSpec => []ActiveIsEvidenced
<1>1. PromotionInit => PromotionInv
  BY DEF PromotionInit, PromotionInv, Anchored, Barred, Key, Paths
<1>2. PromotionInv /\ [PromotionNext]_promotionVars => PromotionInv'
  <2> SUFFICES ASSUME PromotionInv, [PromotionNext]_promotionVars PROVE PromotionInv'
    OBVIOUS
  <2>1. ASSUME NEW s \in Service, Interrupt(s) PROVE PromotionInv'
    BY <2>1, ReleaseKeeps DEF Interrupt
  <2>2. ASSUME NEW w \in Workspace, NEW d \in Digest, EditArtifact(w, d) PROVE PromotionInv'
    BY <2>2 DEF EditArtifact, PromotionInv, Promoting, Revoking, Anchored, Barred, Shown
  <2>3. CASE UNCHANGED promotionVars
    BY <2>3 DEF promotionVars, PromotionInv, Promoting, Revoking, Anchored, Barred, Shown
  <2> QED
    BY <2>1, <2>2, <2>3, PromoteKeeps, RevokeKeeps, WriteKeeps, FinishKeeps DEF PromotionNext
<1>3. PromotionInv => ActiveIsEvidenced
  <2> SUFFICES ASSUME PromotionInv, NEW k \in Key
               PROVE  /\ anchor[k].phase = "active" => ReadableByAccount(k) /\ Audited(k)
                      /\ evidence[<<"revocation_prepared", k[1], k[2]>>] # Missing => anchor[k].phase = "revoked"
    BY DEF ActiveIsEvidenced
  <2>1. Anchored(k) /\ Barred(k) /\ None.phase # "active"
    BY DEF PromotionInv, None
  <2>2. anchor[k].phase = "active" => \A kind \in {"prepared", "source", "account", "promoted"} : Shown(kind, anchor[k].input)
    BY <2>1 DEF Anchored
  <2>3. anchor[k].phase = "active" => ReadableByAccount(k)
    BY <2>2 DEF ReadableByAccount, Verified
  <2>4. anchor[k].phase = "active" => Audited(k)
    BY <2>2 DEF Audited
  <2> QED
    BY <2>1, <2>3, <2>4 DEF Barred
<1> QED
  BY <1>1, <1>2, <1>3, PTL DEF PromotionSpec
-----------------------------------------------------------------------------
(***************************************************************************)
(* ManagedAtlas.  The output, when it is there, and the stage of a swap    *)
(* are whole.  Before the first fault what was once published is the       *)
(* output, or during the swap the backup; the one fault finds it there,    *)
(* and from then on a backup only goes while the next stage is whole.      *)
(***************************************************************************)
Publishing == {"drop_backup", "backup", "swap", "restore", "clean"}
CompileShaped ==
  \E at \in {"none", "fingerprint", "concepts"} \cup Publishing, list \in SUBSET Source : \E there, concepts, watermark :
    compile = [at |-> at, list |-> list, stage |-> [there |-> there, concepts |-> concepts, watermark |-> watermark]]
StageIsWhole ==
  /\ compile.at = "concepts" => compile.stage.there /\ DOMAIN compile.stage.watermark = compile.list
  /\ compile.at \in Publishing => WholeBundle(compile.stage)
FaultlessKeeps ==
  /\ ~everPublished => ~output.there /\ previous = NoBundle
  /\ compile.at = "clean" => output.there
  /\ compile.at = "restore" => compileFaults = 1 /\ (everPublished => WholeBundle(previous))
  /\ (compileFaults = 0 /\ everPublished) =>
       /\ compile.at # "swap" => output.there
       /\ compile.at = "swap" => WholeBundle(previous)
CompileInv ==
  /\ compileFaults \in Nat /\ allowlist \subseteq Source
  /\ CompileShaped /\ StageIsWhole /\ FaultlessKeeps /\ AtlasKept

\* The state between two compilations.
LEMMA RestShaped ==
  /\ ~NoBundle.there /\ NotCompiling.at = "none"
  /\ compile = NotCompiling => CompileShaped /\ StageIsWhole
<1>1. NotCompiling = [at |-> "none", list |-> {}, stage |-> [there |-> FALSE, concepts |-> {}, watermark |-> << >>]]
  BY DEF NotCompiling, NoBundle
<1>2. compile = NotCompiling => CompileShaped
  BY <1>1 DEF CompileShaped
<1> QED
  BY <1>1, <1>2 DEF StageIsWhole, Publishing, NoBundle

\* A step at which the compiler gives up or stops.
LEMMA GivesUp ==
  ASSUME compile' = NotCompiling
  PROVE  compile'.at = "none" /\ CompileShaped' /\ StageIsWhole'
<1>1. NotCompiling = [at |-> "none", list |-> {}, stage |-> [there |-> FALSE, concepts |-> {}, watermark |-> << >>]]
  BY DEF NotCompiling, NoBundle
<1>2. CompileShaped'
  BY <1>1 DEF CompileShaped
<1> QED
  BY <1>1, <1>2 DEF StageIsWhole, Publishing

\* A step at which the compiler goes on with its stage as it is.
LEMMA StageStays ==
  ASSUME CompileShaped, StageIsWhole, compile.at \in Publishing,
         NEW at \in Publishing, compile' = [compile EXCEPT !.at = at]
  PROVE  CompileShaped' /\ StageIsWhole' /\ compile'.at = at /\ compile'.stage = compile.stage
<1>1. PICK old \in {"none", "fingerprint", "concepts"} \cup Publishing, list \in SUBSET Source : \E there, concepts, watermark :
        compile = [at |-> old, list |-> list, stage |-> [there |-> there, concepts |-> concepts, watermark |-> watermark]]
  BY DEF CompileShaped
<1>2. PICK there, concepts, watermark :
        compile = [at |-> old, list |-> list, stage |-> [there |-> there, concepts |-> concepts, watermark |-> watermark]]
  BY <1>1
<1>3. compile' = [at |-> at, list |-> list, stage |-> [there |-> there, concepts |-> concepts, watermark |-> watermark]]
  BY <1>2
<1>4. CompileShaped'
  <2>1. at \in {"none", "fingerprint", "concepts"} \cup Publishing /\ list \in SUBSET Source
    BY <1>1
  <2>2. \E t, c, w : compile' = [at |-> at, list |-> list, stage |-> [there |-> t, concepts |-> c, watermark |-> w]]
    BY <1>3, Zenon
  <2> QED
    BY <2>1, <2>2, Zenon DEF CompileShaped
<1>5. compile'.at = at /\ compile'.stage = compile.stage /\ at # "concepts"
  BY <1>2, <1>3 DEF Publishing
<1>6. WholeBundle(compile'.stage)
  BY <1>5 DEF StageIsWhole
<1> QED
  BY <1>4, <1>5, <1>6 DEF StageIsWhole

\* Nothing is lost by a step, as long as there is at most one fault.
LEMMA CompileStep ==
  ASSUME MaxCompileFaults \in {0, 1}, CompileInv, [ManagedNext]_managedVars
  PROVE  CompileInv'
<1> USE DEF CompileInv, CompileAt, Onward, SourcesSame, CountersSame
<1>0. PICK at \in {"none", "fingerprint", "concepts"} \cup Publishing, list \in SUBSET Source : \E there, concepts, watermark :
        compile = [at |-> at, list |-> list, stage |-> [there |-> there, concepts |-> concepts, watermark |-> watermark]]
  BY DEF CompileShaped
<1>1. PICK there, concepts, watermark :
        compile = [at |-> at, list |-> list, stage |-> [there |-> there, concepts |-> concepts, watermark |-> watermark]]
  BY <1>0
<1>13. /\ compile.at \in Publishing => compile.stage.there /\ WholeBundle(compile.stage)
       /\ ~NoBundle.there /\ (output.there => WholeBundle(output))
       /\ \A b : WholeBundle(b) => b.there
  BY RestShaped DEF StageIsWhole, WholeBundle, AtlasKept
\* Before the swap nothing that is published changes.
<1>14. ASSUME compile.at \notin Publishing \cup {"restore"}, compile'.at \in {"none", "fingerprint", "concepts"} \/ compile'.at = "drop_backup",
              UNCHANGED <<output, previous, everPublished, compileFaults>>, CompileShaped', StageIsWhole'
       PROVE  FaultlessKeeps' /\ AtlasKept'
  BY <1>14 DEF FaultlessKeeps, AtlasKept, Publishing
<1>2. CASE LoadAllowlist
  <2>1. compile' = [at |-> "fingerprint", list |-> allowlist, stage |-> [there |-> FALSE, concepts |-> {}, watermark |-> << >>]]
    BY <1>2 DEF LoadAllowlist, NoBundle
  <2>3. CompileShaped'
    BY <2>1 DEF CompileShaped
  <2>2. CompileShaped' /\ StageIsWhole' /\ compile.at = "none" /\ compile'.at = "fingerprint"
    BY <1>2, <2>1, <2>3 DEF LoadAllowlist, StageIsWhole, Publishing
  <2> QED
    BY <1>2, <1>14, <2>2 DEF LoadAllowlist, Publishing
<1>3. CASE Fingerprint
  <2>1. CompileShaped' /\ StageIsWhole' /\ compile'.at \in {"none", "concepts"}
    <3>1. CASE compile' = NotCompiling
      BY <3>1, GivesUp
    <3>2. CASE compile' # NotCompiling
      <4>1. compile' = [at |-> "concepts", list |-> list, stage |-> [there |-> TRUE, concepts |-> {}, watermark |-> Watermark(list)]]
        BY <1>1, <1>3, <3>2 DEF Fingerprint
      <4>2. DOMAIN Watermark(list) = list
        BY DEF Watermark
      <4> QED
        BY <4>1, <4>2 DEF CompileShaped, StageIsWhole, Publishing
    <3> QED
      BY <3>1, <3>2
  <2> QED
    BY <1>3, <1>14, <2>1 DEF Fingerprint, Publishing
<1>4. ASSUME NEW s \in Source, WriteConcept(s) PROVE CompileInv'
  <2>1. CompileShaped' /\ StageIsWhole' /\ compile'.at \in {"none", "concepts"}
    <3>1. CASE compile' = NotCompiling
      BY <3>1, GivesUp
    <3>2. CASE compile' # NotCompiling
      <4>1. at = "concepts"
        BY <1>1, <1>4 DEF WriteConcept
      <4>2. PICK more : compile' = [at |-> at, list |-> list, stage |-> [there |-> there, concepts |-> more, watermark |-> watermark]]
        BY <1>1, <1>4, <3>2 DEF WriteConcept
      <4> QED
        BY <1>1, <4>1, <4>2 DEF CompileShaped, StageIsWhole, Publishing
    <3> QED
      BY <3>1, <3>2
  <2> QED
    BY <1>4, <1>14, <2>1 DEF WriteConcept, Publishing
<1>5. CASE ValidateStage
  <2>1. CompileShaped' /\ StageIsWhole' /\ compile'.at \in {"none", "drop_backup"}
    <3>1. CASE compile' = NotCompiling
      BY <3>1, GivesUp
    <3>2. CASE compile' # NotCompiling
      <4>1. /\ compile' = [at |-> "drop_backup", list |-> list, stage |-> [there |-> there, concepts |-> concepts, watermark |-> watermark]]
            /\ Closed(compile.stage) /\ Written = list /\ compile.at = "concepts"
        BY <1>1, <1>5, <3>2 DEF ValidateStage
      <4>2. compile'.stage = compile.stage
        BY <1>1, <4>1
      <4>3. WholeBundle(compile.stage)
        BY <1>1, <4>1 DEF WholeBundle, Written, StageIsWhole
      <4> QED
        BY <4>1, <4>2, <4>3 DEF CompileShaped, StageIsWhole, Publishing
    <3> QED
      BY <3>1, <3>2
  <2> QED
    BY <1>5, <1>14, <2>1 DEF ValidateStage, Publishing
<1>15. CASE RemoveBackupFile
  <2>1. compile.at \in {"drop_backup", "clean"} /\ UNCHANGED <<compile, output, everPublished, compileFaults, allowlist>>
    BY <1>15 DEF RemoveBackupFile
  <2>2. ~everPublished => previous' = previous
    BY <1>13, <1>15 DEF RemoveBackupFile, FaultlessKeeps, NoBundle
  <2>3. CompileShaped' /\ StageIsWhole'
    BY <2>1 DEF CompileShaped, StageIsWhole
  <2>4. FaultlessKeeps'
    BY <2>1, <2>2 DEF FaultlessKeeps
  <2>5. AtlasKept'
    BY <1>13, <2>1 DEF AtlasKept, FaultlessKeeps, Publishing
  <2> QED
    BY <2>1, <2>3, <2>4, <2>5
<1>6. CASE DropBackup
  <2>1. CompileShaped' /\ StageIsWhole' /\ compile'.at = "backup" /\ compile'.stage = compile.stage
    BY <1>6, StageStays DEF DropBackup, Publishing
  <2> QED
    BY <1>6, <1>13, <2>1 DEF DropBackup, FaultlessKeeps, AtlasKept, Publishing
<1>7. CASE Backup
  <2>1. CASE compile' = NotCompiling /\ output.there /\ UNCHANGED <<output, previous>>
    BY <1>7, <1>13, <2>1, GivesUp DEF Backup, FaultlessKeeps, AtlasKept
  <2>2. CASE compile' = [compile EXCEPT !.at = "swap"]
    <3>1. CompileShaped' /\ StageIsWhole' /\ compile'.at = "swap" /\ compile'.stage = compile.stage
      BY <1>7, <2>2, StageStays DEF Backup, Publishing
    <3>2. CASE ~output.there /\ UNCHANGED <<output, previous>>
      BY <1>7, <1>13, <3>1, <3>2 DEF Backup, FaultlessKeeps, AtlasKept, Publishing
    <3>3. CASE output.there /\ previous' = output /\ output' = NoBundle
      BY <1>7, <1>13, <3>1, <3>3 DEF Backup, FaultlessKeeps, AtlasKept, Publishing
    <3> QED
      BY <1>7, <3>1, <3>2, <3>3, RestShaped DEF Backup, KeptAside
  <2> QED
    BY <1>7, <2>1, <2>2 DEF Backup
<1>8. CASE Swap
  <2>1. CompileShaped' /\ StageIsWhole' /\ compile'.at = "clean" /\ compile'.stage = compile.stage
    BY <1>8, StageStays DEF Swap, Publishing
  <2>2. WholeBundle(output') /\ output'.there
    BY <1>8, <1>13 DEF Swap, Publishing
  <2> QED
    BY <1>8, <2>1, <2>2 DEF Swap, FaultlessKeeps, AtlasKept
<1>9. CASE SwapFails
  <2>1. CompileShaped' /\ StageIsWhole' /\ compile'.at = "restore" /\ compile'.stage = compile.stage
    BY <1>9, StageStays DEF SwapFails, Publishing
  <2>2. compileFaults = 0 /\ compileFaults' = 1 /\ compile.at = "swap"
    BY <1>9 DEF SwapFails
  <2> QED
    BY <1>9, <2>1, <2>2 DEF SwapFails, FaultlessKeeps, AtlasKept
<1>16. CASE RestoreOutput
  <2>1. compile'.at = "none" /\ CompileShaped' /\ StageIsWhole'
    BY <1>16, GivesUp DEF RestoreOutput
  <2>2. compileFaults = 1 /\ (everPublished => WholeBundle(previous)) /\ (~everPublished => previous = NoBundle)
    BY <1>16 DEF RestoreOutput, FaultlessKeeps
  <2> QED
    BY <1>13, <1>16, <2>1, <2>2 DEF RestoreOutput, FaultlessKeeps, AtlasKept
<1>10. CASE Clean
  <2>1. compile'.at = "none" /\ CompileShaped' /\ StageIsWhole'
    BY <1>10, GivesUp DEF Clean
  <2> QED
    BY <1>10, <1>13, <2>1 DEF Clean, FaultlessKeeps, AtlasKept
<1>11. CASE CompilerStops
  <2>1. compile'.at = "none" /\ CompileShaped' /\ StageIsWhole'
    BY <1>11, GivesUp DEF CompilerStops
  <2>2. compileFaults = 0 /\ compileFaults' = 1
    BY <1>11 DEF CompilerStops
  <2> QED
    BY <1>11, <1>13, <2>1, <2>2 DEF CompilerStops, FaultlessKeeps, AtlasKept
<1>12. CASE \/ \E s \in Source : EditSource(s)
            \/ \E some \in SUBSET Source : EditAllowlist(some)
            \/ UNCHANGED managedVars
  <2>1. UNCHANGED <<compile, output, previous, everPublished, compileFaults>> /\ allowlist' \subseteq Source
    BY <1>12 DEF EditSource, EditAllowlist, managedVars
  <2> QED
    BY <2>1 DEF CompileShaped, StageIsWhole, FaultlessKeeps, AtlasKept
<1> QED
  BY <1>2, <1>3, <1>4, <1>5, <1>6, <1>7, <1>8, <1>9, <1>10, <1>11, <1>12, <1>15, <1>16 DEF ManagedNext

\* ReconcileManaged and atomicPublishDirectory: with any sources, edited and listed at
\* any moment, removals that fail at any file, and the compiler stopped or its rename
\* failed once at any step, the published atlas is not lost and what is in the output
\* directory is a whole bundle (AtlasKept).
THEOREM AtlasNotLost ==
  ASSUME MaxCompileFaults \in {0, 1}
  PROVE  ManagedSpec => []AtlasKept
<1>1. ManagedInit => CompileInv
  <2> SUFFICES ASSUME ManagedInit PROVE CompileInv
    OBVIOUS
  <2>1. CompileShaped /\ StageIsWhole /\ compile.at = "none"
    BY RestShaped DEF ManagedInit
  <2>2. output.there => WholeBundle(output)
    <3> DEFINE all == [there |-> TRUE, watermark |-> [s \in Source |-> 0],
                       concepts |-> {[id |-> s, version |-> 0, to |-> {}] : s \in Source}]
    <3>1. WholeBundle(all)
      <4>1. DOMAIN all.watermark = Source /\ all.there
        OBVIOUS
      <4>2. \A c \in all.concepts : c.to = {} /\ c.id \in Source
        OBVIOUS
      <4>3. \A s \in Source : \E c \in all.concepts : c.id = s
        <5> SUFFICES ASSUME NEW s \in Source PROVE \E c \in all.concepts : c.id = s
          OBVIOUS
        <5>1. [id |-> s, version |-> 0, to |-> {}] \in all.concepts
          OBVIOUS
        <5> QED
          BY <5>1
      <4> HIDE DEF all
      <4>4. {c.id : c \in all.concepts} = Source
        BY <4>2, <4>3
      <4> QED
        BY <4>1, <4>2, <4>4 DEF WholeBundle, Closed
    <3>2. output = NoBundle \/ output = all
      BY DEF ManagedInit
    <3> QED
      BY <3>1, <3>2, RestShaped
  <2> QED
    BY <2>1, <2>2 DEF ManagedInit, CompileInv, FaultlessKeeps, AtlasKept
<1>2. CompileInv /\ [ManagedNext]_managedVars => CompileInv'
  BY CompileStep
<1>3. CompileInv => AtlasKept
  BY DEF CompileInv
<1> QED
  BY <1>1, <1>2, <1>3, PTL DEF ManagedSpec

-----------------------------------------------------------------------------
(***************************************************************************)
(* Federation.  The center holds at most one file of a payload, and only   *)
(* of one that was enqueued; whatever a flush or a temporary file carries  *)
(* was enqueued; and a flush that is about to remove a file had an answer, *)
(* so the center has it.                                                   *)
(***************************************************************************)
DeliveriesOf(f) ==
  /\ DOMAIN flusher[f] = {"at", "now", "todo", "current"}
  /\ \A s \in flusher[f].todo : s.payload \in queued
  /\ flusher[f].at \in {"remove", "retry"} => flusher[f].current.payload \in queued
  /\ flusher[f].at = "remove" => inbox[flusher[f].current.payload] = 1
DeliveryInv ==
  /\ IsFiniteSet(queued) /\ queued \subseteq Payload
  /\ DOMAIN outbox = Payload /\ inbox \in [Payload -> {0, 1}] /\ DOMAIN flusher = Flusher
  /\ \A p \in Payload : inbox[p] = 1 => p \in queued
  /\ \A p \in Payload : outbox[p] # Gone => p \in queued
  /\ \A p \in queued : outbox[p] = Gone => inbox[p] = 1
  /\ \A s \in strays : s.payload \in queued
  /\ \A f \in Flusher : DeliveriesOf(f)

\* What is written to the outbox is a file.
LEMMA NotGone ==
  /\ Torn # Gone
  /\ \A attempts, next, exhausted : QueuedItem(attempts, next, exhausted) # Gone
  /\ \A item, now : Retried(item, now) # Gone
<1>1. \A attempts, next, exhausted : QueuedItem(attempts, next, exhausted).file = "whole"
  BY DEF QueuedItem
<1>2. \A attempts, next, exhausted : QueuedItem(attempts, next, exhausted) # Gone
  BY <1>1 DEF Gone
<1> QED
  BY <1>2 DEF Torn, Gone, Retried

\* One flush goes on, the others stay where they are.
LEMMA OneFlusherMoves ==
  ASSUME DOMAIN flusher = Flusher, NEW f \in Flusher, NEW w, Do(f, w)
  PROVE  DOMAIN flusher' = Flusher /\ flusher'[f] = w /\ \A g \in Flusher \ {f} : flusher'[g] = flusher[g]
  BY DEF Do

\* A flush that takes up the rest of its items, or ends.
LEMMA MovingOnDelivers ==
  ASSUME DeliveryInv, NEW f \in Flusher, NEW left, left \subseteq flusher[f].todo
  PROVE  /\ DOMAIN GoesOn(f, left) = {"at", "now", "todo", "current"} /\ GoesOn(f, left).at \in {"idle", "flush"}
         /\ GoesOn(f, left).todo \subseteq flusher[f].todo
         /\ DOMAIN Resting = {"at", "now", "todo", "current"} /\ Resting.at = "idle" /\ Resting.todo = {}
  BY DEF GoesOn, Resting

\* Every step keeps the account of the payloads.
LEMMA DeliveryStep ==
  ASSUME DeliveryInv, [FedNext]_fedVars
  PROVE  DeliveryInv'
<1>0. DOMAIN flusher = Flusher /\ \A f \in Flusher : DeliveriesOf(f)
  BY DEF DeliveryInv
<1>1. CASE Enroll \/ RevokeEnrollment \/ FedTick \/ UNCHANGED fedVars
  BY <1>1 DEF Enroll, RevokeEnrollment, FedTick, fedVars, DeliveryInv, DeliveriesOf
<1>2. ASSUME NEW p \in Payload, WriteQueued(p) PROVE DeliveryInv'
  <2>1. IsFiniteSet(queued')
    BY <1>2, FS_AddElement DEF WriteQueued, DeliveryInv
  <2>2. PICK item : outbox' = [outbox EXCEPT ![p] = item] /\ item # Gone
    BY <1>2, NotGone DEF WriteQueued
  <2> QED
    BY <1>2, <2>1, <2>2 DEF WriteQueued, DeliveryInv, DeliveriesOf
<1>3. ASSUME NEW f \in Flusher, NEW box \in {Batch, Skill}, BeginFlush(f, box) PROVE DeliveryInv'
  <2>1. ASSUME NEW s \in PendingIn(box) PROVE s.payload \in queued
    BY <2>1 DEF PendingIn, DeliveryInv, Payload
  <2> DEFINE w == [Resting EXCEPT !.at = "flush", !.now = fedClock, !.todo = {s \in PendingIn(box) : Due(s)}]
  <2>2. Do(f, w) /\ DOMAIN w = {"at", "now", "todo", "current"} /\ w.at = "flush" /\ w.todo \subseteq PendingIn(box)
    BY <1>3 DEF BeginFlush, Resting
  <2> HIDE DEF w
  <2> QED
    BY <1>0, <1>3, <2>1, <2>2, OneFlusherMoves DEF BeginFlush, DeliveryInv, DeliveriesOf
<1>4. ASSUME NEW f \in Flusher, NEW s \in flusher[f].todo, Submit(f, s) PROVE DeliveryInv'
  <2>1. s.payload \in queued /\ s.payload \in Payload
    BY <1>0 DEF DeliveriesOf, DeliveryInv
  <2>2. PICK answered \in BOOLEAN :
          /\ ServeHTTP(s.payload, answered)
          /\ Do(f, [flusher[f] EXCEPT !.at = IF answered THEN "remove" ELSE "retry", !.current = s])
    BY <1>4 DEF Submit
  <2>3. inbox' = inbox \/ inbox' = [inbox EXCEPT ![s.payload] = 1]
    BY <2>2 DEF ServeHTTP, Filed
  <2>4. answered => inbox' = [inbox EXCEPT ![s.payload] = 1]
    BY <2>2 DEF ServeHTTP, Filed
  <2> DEFINE w == [flusher[f] EXCEPT !.at = IF answered THEN "remove" ELSE "retry", !.current = s]
  <2>5. /\ Do(f, w) /\ DOMAIN w = {"at", "now", "todo", "current"} /\ w.todo = flusher[f].todo /\ w.current = s
        /\ w.at \in {"remove", "retry"} /\ (w.at = "remove" => inbox' = [inbox EXCEPT ![s.payload] = 1])
    BY <1>0, <2>2, <2>4 DEF DeliveriesOf
  <2> HIDE DEF w
  <2>6. DOMAIN flusher' = Flusher /\ flusher'[f] = w /\ \A g \in Flusher \ {f} : flusher'[g] = flusher[g]
    BY <1>0, <2>5, OneFlusherMoves
  <2>7. inbox' \in [Payload -> {0, 1}] /\ \A p \in Payload : inbox[p] = 1 => inbox'[p] = 1
    BY <2>1, <2>3 DEF DeliveryInv
  <2>8. ASSUME NEW g \in Flusher PROVE DeliveriesOf(g)'
    BY <1>0, <1>4, <2>1, <2>5, <2>6, <2>7 DEF Submit, DeliveriesOf, DeliveryInv
  <2> QED
    BY <1>4, <2>1, <2>3, <2>6, <2>7, <2>8 DEF Submit, DeliveryInv
<1>5. ASSUME NEW f \in Flusher, RemoveQueued(f) PROVE DeliveryInv'
  <2>1. flusher[f].current.payload \in queued /\ inbox[flusher[f].current.payload] = 1
    BY <1>0, <1>5 DEF RemoveQueued, DeliveriesOf
  <2>2. PICK w : Do(f, w) /\ DOMAIN w = {"at", "now", "todo", "current"} /\ w.at \in {"idle", "flush"} /\ w.todo \subseteq flusher[f].todo
    BY <1>5, MovingOnDelivers DEF RemoveQueued
  <2>3. outbox' = outbox \/ outbox' = [outbox EXCEPT ![flusher[f].current.payload] = Gone]
    BY <1>5 DEF RemoveQueued
  <2>4. UNCHANGED <<strays, inbox, queued>>
    BY <1>5 DEF RemoveQueued
  <2> QED
    BY <1>0, <2>1, <2>2, <2>3, <2>4, OneFlusherMoves DEF DeliveryInv, DeliveriesOf
<1>6. ASSUME NEW f \in Flusher, RetainQueued(f) PROVE DeliveryInv'
  <2>1. flusher[f].current.payload \in queued
    BY <1>0, <1>6 DEF RetainQueued, DeliveriesOf
  <2>2. PICK w : Do(f, w) /\ DOMAIN w = {"at", "now", "todo", "current"} /\ w.at \in {"idle", "flush"} /\ w.todo \subseteq flusher[f].todo
    BY <1>6, MovingOnDelivers DEF RetainQueued
  <2>3. PICK item : outbox' = [outbox EXCEPT ![flusher[f].current.payload] = item] /\ item # Gone
    BY <1>6, NotGone DEF RetainQueued
  <2>4. UNCHANGED <<strays, inbox, queued>>
    BY <1>6 DEF RetainQueued
  <2> QED
    BY <1>0, <2>1, <2>2, <2>3, <2>4, OneFlusherMoves DEF DeliveryInv, DeliveriesOf
<1>7. ASSUME NEW f \in Flusher, FlusherStops(f) PROVE DeliveryInv'
  <2>1. Do(f, Resting) /\ DOMAIN Resting = {"at", "now", "todo", "current"} /\ Resting.at = "idle" /\ Resting.todo = {}
    BY <1>7 DEF FlusherStops, Resting
  <2>2. UNCHANGED <<outbox, inbox, queued>>
    BY <1>7 DEF FlusherStops
  <2>3. \A s \in strays' : s.payload \in queued
    BY <1>0, <1>7 DEF FlusherStops, DeliveryInv, DeliveriesOf
  <2> QED
    BY <1>0, <2>1, <2>2, <2>3, OneFlusherMoves DEF DeliveryInv, DeliveriesOf
<1> QED
  BY <1>1, <1>2, <1>3, <1>4, <1>5, <1>6, <1>7 DEF FedNext, Enqueue, EnqueuePortable, Flush, FlushPortable

\* What the center counts is no more than what was enqueued.
LEMMA DigestBounded ==
  ASSUME DeliveryInv
  PROVE  PeriodDigest(Payload) <= Cardinality(queued)
<1> DEFINE counted == {c \in Payload \X (1..2) : c[2] <= inbox[c[1]]}
           first == [c \in counted |-> c[1]]
<1>1. Cardinality(queued) \in Nat /\ IsFiniteSet(queued)
  BY FS_CardinalityType DEF DeliveryInv
<1>2. \A c \in counted : c = <<c[1], 1>> /\ c[1] \in queued
  BY DEF DeliveryInv
<1>3. first \in Injection(counted, queued)
  BY <1>2 DEF Injection, IsInjective
<1>4. Cardinality(counted) <= Cardinality(queued)
  BY <1>1, <1>3, FS_Injection
<1> QED
  BY <1>1, <1>4 DEF PeriodDigest

\* CentralBridge and the outboxes: with any payloads, any number of flushes at once,
\* answers lost and processes stopped any number of times, the center counts a payload
\* once and a payload leaves the outbox only for a file at the center (CountedOnce).
THEOREM PayloadCountedOnce == FedSpec => []CountedOnce
<1>1. FedInit => DeliveryInv
  BY FS_EmptySet DEF FedInit, DeliveryInv, DeliveriesOf, Resting
<1>2. DeliveryInv /\ [FedNext]_fedVars => DeliveryInv'
  BY DeliveryStep
<1>3. DeliveryInv => CountedOnce
  BY DigestBounded DEF DeliveryInv, CountedOnce
<1> QED
  BY <1>1, <1>2, <1>3, PTL DEF FedSpec

-----------------------------------------------------------------------------
(***************************************************************************)
(* AgentState.  CommitsAreWhole speaks of files only; that no writer ever  *)
(* overwrites or activates the version of another rests on what each       *)
(* writer carries: its transaction is its own, its version is there once   *)
(* it went past the first rename, and so is its commit file past the       *)
(* second and the third.                                                   *)
(***************************************************************************)
Committing(x) ==
  /\ x = [at |-> "commit", tx |-> x.tx, step |-> x.step, snapshot |-> x.snapshot]
  /\ x.tx \in Transaction /\ x.step \in 1..4 /\ x.snapshot # NoSnapshot

\* How far the files of a commit are, by the step of its writer.
InStep(x) ==
  /\ x.step = 1 => versions[x.tx] = NoSnapshot
  /\ x.step \in 2..4 => versions[x.tx] = x.snapshot
  /\ x.step \in 3..4 => \E n \in DOMAIN commits : commits[n].tx = x.tx
  /\ x.step = 4 => \E n \in Active : commits[n].tx = x.tx

WriterSound(w) ==
  \/ stateWriter[w] = WriterIdle
  \/ Committing(stateWriter[w]) /\ InStep(stateWriter[w])

\* No two writers work on the same transaction.
OwnTransaction ==
  \A v, w \in StateWriter :
    v # w /\ stateWriter[v] # WriterIdle /\ stateWriter[w] # WriterIdle
      => stateWriter[v].tx # stateWriter[w].tx

StateTyped ==
  /\ DOMAIN versions = Transaction
  /\ commits \in Seq([tx : Transaction, active : BOOLEAN])
  /\ DOMAIN stateWriter = StateWriter

\* A commit file, pending or not, is of a version that is there.
VersionsFirst == \A n \in DOMAIN commits : versions[commits[n].tx] # NoSnapshot

StateInv == /\ StateTyped /\ OwnTransaction /\ VersionsFirst /\ CommitsAreWhole
            /\ \A w \in StateWriter : WriterSound(w)

-----------------------------------------------------------------------------
\* A commit in progress is told from an idle writer by its place.
LEMMA CommittingIsNotIdle == ASSUME NEW x, Committing(x) PROVE x.at = "commit" /\ x # WriterIdle
  BY DEF Committing, WriterIdle

\* An agent without a snapshot has nothing to break.
LEMMA StateInvInit == StateInit => StateInv
  BY DEF StateInit, StateInv, StateTyped, OwnTransaction, VersionsFirst, CommitsAreWhole, Active,
         WriterSound

\* An unused transaction has no version and no writer.
LEMMA UnusedIsFree ==
  ASSUME StateInv, NEW t \in Transaction \ Used
  PROVE  /\ versions[t] = NoSnapshot
         /\ \A v \in StateWriter : stateWriter[v] # WriterIdle => stateWriter[v].tx # t
<1>1. versions[t] = NoSnapshot
  BY DEF Used
<1>2. ASSUME NEW v \in StateWriter, stateWriter[v] # WriterIdle PROVE stateWriter[v].tx # t
  <2>1. stateWriter[v].at = "commit"
    BY <1>2, CommittingIsNotIdle DEF StateInv, WriterSound
  <2> QED BY <2>1 DEF Used
<1> QED BY <1>1, <1>2

\* Apply takes a transaction that nobody uses; it writes nothing yet.
LEMMA ApplySound ==
  ASSUME StateInv, NEW w \in StateWriter, NEW update \in Update, Apply(w, update)
  PROVE  StateInv'
<1> DEFINE merged == [sections |-> Compact(MergeSection(LoadActive.sections, update.section)),
                      at |-> update.at]
<1>1. PICK t \in Transaction \ Used :
        stateWriter' = [stateWriter EXCEPT ![w] =
          [at |-> "commit", tx |-> t, step |-> 1, snapshot |-> merged]]
  BY DEF Apply
<1>2. merged # NoSnapshot
  <2>1. merged.at = update.at /\ NoSnapshot.at = 0
    BY DEF NoSnapshot
  <2>2. update.at # 0
    BY DEF Update
  <2> QED BY <2>1, <2>2
<1> HIDE DEF merged
<1>3. UNCHANGED <<versions, commits, projection>> /\ stateWriter[w] = WriterIdle
  BY DEF Apply
<1>4. /\ versions[t] = NoSnapshot
      /\ \A v \in StateWriter : stateWriter[v] # WriterIdle => stateWriter[v].tx # t
  BY UnusedIsFree
<1>5. StateTyped'
  BY <1>1, <1>3 DEF StateInv, StateTyped
<1>6. stateWriter'[w] = [at |-> "commit", tx |-> t, step |-> 1, snapshot |-> merged]
  BY <1>1 DEF StateInv, StateTyped
<1>7. \A v \in StateWriter : v # w => stateWriter'[v] = stateWriter[v]
  BY <1>1 DEF StateInv, StateTyped
<1>8. OwnTransaction'
  BY <1>4, <1>6, <1>7 DEF StateInv, OwnTransaction
<1>9. ASSUME NEW v \in StateWriter PROVE WriterSound(v)'
  <2>1. CASE v = w
    <3>1. Committing(stateWriter'[w])
      BY <1>2, <1>6 DEF Committing
    <3>2. InStep(stateWriter[w])'
      BY <1>3, <1>4, <1>6 DEF InStep
    <3> QED BY <3>1, <3>2, <2>1 DEF WriterSound, Committing, NoSnapshot
  <2>2. CASE v # w
    BY <1>3, <1>7, <2>2 DEF StateInv, WriterSound, InStep, Committing, Active
  <2> QED BY <2>1, <2>2
<1>10. (VersionsFirst /\ CommitsAreWhole)'
  BY <1>3 DEF StateInv, VersionsFirst, CommitsAreWhole, Active
<1> QED BY <1>5, <1>8, <1>9, <1>10 DEF StateInv

-----------------------------------------------------------------------------
\* What a step of writer w leaves alone: the other writers, whose transactions
\* differ from the one w works on.
LEMMA OthersDiffer ==
  ASSUME StateInv, NEW w \in StateWriter, Committing(stateWriter[w]),
         NEW v \in StateWriter, v # w, stateWriter[v] # WriterIdle
  PROVE  Committing(stateWriter[v]) /\ InStep(stateWriter[v])
           /\ stateWriter[v].tx # stateWriter[w].tx
  BY CommittingIsNotIdle DEF StateInv, WriterSound, OwnTransaction

\* The next place of a writer that goes on.
LEMMA CommitGoesOn ==
  ASSUME StateInv, NEW w \in StateWriter, Committing(stateWriter[w]), stateWriter[w].step # 4,
         stateWriter' = [stateWriter EXCEPT ![w] = [stateWriter[w] EXCEPT !.step = @ + 1]]
  PROVE  /\ Committing(stateWriter'[w])
         /\ stateWriter'[w].tx = stateWriter[w].tx
         /\ stateWriter'[w].snapshot = stateWriter[w].snapshot
         /\ stateWriter'[w].step = stateWriter[w].step + 1
         /\ \A v \in StateWriter : v # w => stateWriter'[v] = stateWriter[v]
         /\ DOMAIN stateWriter' = StateWriter
         /\ OwnTransaction'
<1> DEFINE x == stateWriter[w]
           y == [x EXCEPT !.step = @ + 1]
<1>1. x = [at |-> "commit", tx |-> x.tx, step |-> x.step, snapshot |-> x.snapshot]
  BY DEF Committing
<1>2. y = [at |-> "commit", tx |-> x.tx, step |-> x.step + 1, snapshot |-> x.snapshot]
  BY <1>1
<1>3. stateWriter'[w] = y /\ DOMAIN stateWriter' = StateWriter
        /\ \A v \in StateWriter : v # w => stateWriter'[v] = stateWriter[v]
  BY DEF StateInv, StateTyped
<1>4. x.step + 1 \in 1..4
  BY DEF Committing
<1>5. y.tx = x.tx /\ y.snapshot = x.snapshot /\ y.step = x.step + 1
  BY <1>2
<1>6. Committing(y)
  BY <1>2, <1>4, <1>5 DEF Committing
<1> HIDE DEF x, y
<1>7. OwnTransaction'
  BY <1>3, <1>5, CommittingIsNotIdle DEF StateInv, OwnTransaction, x
<1> QED BY <1>3, <1>5, <1>6, <1>7 DEF x

\* Commit files are pairs of a transaction and whether they are in place.
LEMMA CommitFiles ==
  ASSUME StateTyped
  PROVE  /\ Len(commits) \in Nat /\ DOMAIN commits = 1..Len(commits)
         /\ \A n \in DOMAIN commits :
              commits[n] \in [tx : Transaction, active : BOOLEAN] /\ commits[n].tx \in Transaction
<1>1. commits \in Seq([tx : Transaction, active : BOOLEAN])
  BY DEF StateTyped
<1>2. Len(commits) \in Nat /\ DOMAIN commits = 1..Len(commits)
  BY <1>1, LenProperties
<1>3. \A n \in DOMAIN commits : commits[n] \in [tx : Transaction, active : BOOLEAN]
  BY <1>1, <1>2, ElementOfSeq
<1> QED BY <1>2, <1>3

-----------------------------------------------------------------------------
\* The version directory is renamed into place under a name nobody else uses.
LEMMA VersionSound ==
  ASSUME StateInv, NEW w \in StateWriter, Committing(stateWriter[w]), InStep(stateWriter[w]),
         stateWriter[w].step = 1, CommitStep(w)
  PROVE  StateInv'
<1> DEFINE x == stateWriter[w]
<1>1. /\ versions' = [versions EXCEPT ![x.tx] = x.snapshot]
      /\ UNCHANGED <<commits, projection>>
      /\ stateWriter' = [stateWriter EXCEPT ![w] = [stateWriter[w] EXCEPT !.step = @ + 1]]
  BY DEF CommitStep, CommitOrder, Named, Project
<1>2. /\ Committing(stateWriter'[w])
      /\ stateWriter'[w].tx = x.tx /\ stateWriter'[w].snapshot = x.snapshot
      /\ stateWriter'[w].step = 2
      /\ \A v \in StateWriter : v # w => stateWriter'[v] = stateWriter[v]
      /\ DOMAIN stateWriter' = StateWriter /\ OwnTransaction'
  <2>1. stateWriter[w].step # 4
    OBVIOUS
  <2>2. /\ Committing(stateWriter'[w])
        /\ stateWriter'[w].tx = stateWriter[w].tx
        /\ stateWriter'[w].snapshot = stateWriter[w].snapshot
        /\ stateWriter'[w].step = stateWriter[w].step + 1
        /\ \A v \in StateWriter : v # w => stateWriter'[v] = stateWriter[v]
        /\ DOMAIN stateWriter' = StateWriter
        /\ OwnTransaction'
    BY <1>1, <2>1, CommitGoesOn, Zenon
  <2> QED BY <2>2
<1>3. x.tx \in Transaction /\ x.snapshot # NoSnapshot /\ versions[x.tx] = NoSnapshot
  BY DEF Committing, InStep
<1> HIDE DEF x
<1>4. /\ versions'[x.tx] = x.snapshot
      /\ \A t \in Transaction : t # x.tx => versions'[t] = versions[t]
      /\ DOMAIN versions' = Transaction
  BY <1>1, <1>3 DEF StateInv, StateTyped
<1>5. StateTyped'
  BY <1>1, <1>2, <1>4 DEF StateInv, StateTyped
<1>6. \A n \in DOMAIN commits : commits[n].tx \in Transaction
  BY CommitFiles DEF StateInv
<1>7. VersionsFirst'
  BY <1>1, <1>3, <1>4, <1>6 DEF StateInv, VersionsFirst
<1>8. \A n \in DOMAIN commits : versions'[commits[n].tx] = versions[commits[n].tx]
  BY <1>3, <1>4, <1>6 DEF StateInv, VersionsFirst
<1>9. CommitsAreWhole'
  BY <1>1, <1>8 DEF StateInv, CommitsAreWhole, Active
<1>10. ASSUME NEW v \in StateWriter PROVE WriterSound(v)'
  <2>1. CASE v = w
    <3>1. InStep(stateWriter[w])'
      BY <1>2, <1>4 DEF InStep
    <3> QED BY <3>1, <1>2, <2>1 DEF WriterSound, Committing, NoSnapshot
  <2>2. CASE v # w /\ stateWriter[v] = WriterIdle
    BY <1>2, <2>2 DEF WriterSound, WriterIdle
  <2>3. CASE v # w /\ stateWriter[v] # WriterIdle
    <3>1. Committing(stateWriter[v]) /\ InStep(stateWriter[v]) /\ stateWriter[v].tx # x.tx
      BY <2>3, OthersDiffer DEF x
    <3>2. versions'[stateWriter[v].tx] = versions[stateWriter[v].tx]
      BY <3>1, <1>4 DEF Committing
    <3>3. stateWriter'[v] = stateWriter[v]
      BY <1>2, <2>3
    <3>4. InStep(stateWriter[v])'
      BY <3>1, <3>2, <3>3, <1>1 DEF InStep, Active
    <3> QED BY <3>1, <3>3, <3>4 DEF WriterSound, Committing, NoSnapshot
  <2> QED BY <2>1, <2>2, <2>3
<1> QED BY <1>2, <1>5, <1>7, <1>9, <1>10 DEF StateInv

\* The commit file is written under its name, pending.
LEMMA PendingSound ==
  ASSUME StateInv, NEW w \in StateWriter, Committing(stateWriter[w]), InStep(stateWriter[w]),
         stateWriter[w].step = 2, CommitStep(w)
  PROVE  StateInv'
<1> DEFINE x == stateWriter[w]
           N == Len(commits) + 1
<1>1. /\ commits' = Append(commits, Pending(x.tx))
      /\ UNCHANGED <<versions, projection>>
      /\ stateWriter' = [stateWriter EXCEPT ![w] = [stateWriter[w] EXCEPT !.step = @ + 1]]
  BY DEF CommitStep, CommitOrder, Named, Project
<1>2. /\ Committing(stateWriter'[w])
      /\ stateWriter'[w].tx = x.tx /\ stateWriter'[w].snapshot = x.snapshot
      /\ stateWriter'[w].step = 3
      /\ \A v \in StateWriter : v # w => stateWriter'[v] = stateWriter[v]
      /\ DOMAIN stateWriter' = StateWriter /\ OwnTransaction'
  <2>1. stateWriter[w].step # 4
    OBVIOUS
  <2>2. /\ Committing(stateWriter'[w])
        /\ stateWriter'[w].tx = stateWriter[w].tx
        /\ stateWriter'[w].snapshot = stateWriter[w].snapshot
        /\ stateWriter'[w].step = stateWriter[w].step + 1
        /\ \A v \in StateWriter : v # w => stateWriter'[v] = stateWriter[v]
        /\ DOMAIN stateWriter' = StateWriter
        /\ OwnTransaction'
    BY <1>1, <2>1, CommitGoesOn, Zenon
  <2> QED BY <2>2
<1>3. x.tx \in Transaction /\ x.snapshot # NoSnapshot /\ versions[x.tx] = x.snapshot
  BY DEF Committing, InStep
<1> HIDE DEF x
<1>4. /\ DOMAIN commits' = DOMAIN commits \cup {N}
      /\ commits'[N] = [tx |-> x.tx, active |-> FALSE]
      /\ \A n \in DOMAIN commits : commits'[n] = commits[n] /\ n # N
  BY <1>1 DEF StateInv, StateTyped, Pending
<1>5. StateTyped'
  BY <1>1, <1>2, <1>3 DEF StateInv, StateTyped, Pending
<1> HIDE DEF N
<1>6. Active' = Active
  BY <1>4 DEF Active
<1>7. \A n \in Active : commits'[n] = commits[n]
  BY <1>4 DEF Active
<1>8. (VersionsFirst /\ CommitsAreWhole)'
  <2>1. VersionsFirst'
    <3> SUFFICES ASSUME NEW n \in DOMAIN commits' PROVE versions[commits'[n].tx] # NoSnapshot
      BY <1>1 DEF VersionsFirst, NoSnapshot
    <3>1. CASE n = N
      BY <3>1, <1>3, <1>4
    <3>2. CASE n \in DOMAIN commits
      BY <3>2, <1>4 DEF StateInv, VersionsFirst
    <3> QED BY <3>1, <3>2, <1>4
  <2>2. CommitsAreWhole'
    BY <1>1, <1>6, <1>7 DEF StateInv, CommitsAreWhole, NoSnapshot
  <2> QED BY <2>1, <2>2
<1>9. ASSUME NEW v \in StateWriter PROVE WriterSound(v)'
  <2>1. CASE v = w
    <3>1. InStep(stateWriter[w])'
      BY <1>1, <1>2, <1>3, <1>4 DEF InStep
    <3> QED BY <3>1, <1>2, <2>1 DEF WriterSound, Committing, NoSnapshot
  <2>2. CASE v # w /\ stateWriter[v] = WriterIdle
    BY <1>2, <2>2 DEF WriterSound, WriterIdle
  <2>3. CASE v # w /\ stateWriter[v] # WriterIdle
    <3>1. Committing(stateWriter[v]) /\ InStep(stateWriter[v])
      BY <2>3, OthersDiffer
    <3>2. stateWriter'[v] = stateWriter[v]
      BY <1>2, <2>3
    <3>3. InStep(stateWriter[v])'
      BY <3>1, <3>2, <1>1, <1>4, <1>6, <1>7 DEF InStep
    <3> QED BY <3>1, <3>2, <3>3 DEF WriterSound, Committing, NoSnapshot
  <2> QED BY <2>1, <2>2, <2>3
<1> QED BY <1>2, <1>5, <1>8, <1>9 DEF StateInv

\* The pending file is renamed; its version is there.
LEMMA ActivateSound ==
  ASSUME StateInv, NEW w \in StateWriter, Committing(stateWriter[w]), InStep(stateWriter[w]),
         stateWriter[w].step = 3, CommitStep(w)
  PROVE  StateInv'
<1> DEFINE x == stateWriter[w]
<1>1. /\ commits' = [n \in DOMAIN commits |->
                       [commits[n] EXCEPT !.active = @ \/ commits[n].tx = x.tx]]
      /\ UNCHANGED <<versions, projection>>
      /\ stateWriter' = [stateWriter EXCEPT ![w] = [stateWriter[w] EXCEPT !.step = @ + 1]]
  BY DEF CommitStep, CommitOrder, Named, Project
<1>2. /\ Committing(stateWriter'[w])
      /\ stateWriter'[w].tx = x.tx /\ stateWriter'[w].snapshot = x.snapshot
      /\ stateWriter'[w].step = 4
      /\ \A v \in StateWriter : v # w => stateWriter'[v] = stateWriter[v]
      /\ DOMAIN stateWriter' = StateWriter /\ OwnTransaction'
  <2>1. stateWriter[w].step # 4
    OBVIOUS
  <2>2. /\ Committing(stateWriter'[w])
        /\ stateWriter'[w].tx = stateWriter[w].tx
        /\ stateWriter'[w].snapshot = stateWriter[w].snapshot
        /\ stateWriter'[w].step = stateWriter[w].step + 1
        /\ \A v \in StateWriter : v # w => stateWriter'[v] = stateWriter[v]
        /\ DOMAIN stateWriter' = StateWriter
        /\ OwnTransaction'
    BY <1>1, <2>1, CommitGoesOn, Zenon
  <2> QED BY <2>2
<1>3. /\ x.tx \in Transaction /\ versions[x.tx] = x.snapshot
      /\ \E n \in DOMAIN commits : commits[n].tx = x.tx
  BY DEF Committing, InStep
<1> HIDE DEF x
<1>4. \A n \in DOMAIN commits : commits[n] \in [tx : Transaction, active : BOOLEAN]
  BY CommitFiles DEF StateInv
<1>5. /\ DOMAIN commits' = DOMAIN commits
      /\ \A n \in DOMAIN commits :
           /\ commits'[n] \in [tx : Transaction, active : BOOLEAN]
           /\ commits'[n].tx = commits[n].tx
           /\ commits[n].active => commits'[n].active
           /\ commits[n].tx = x.tx => commits'[n].active
  BY <1>1, <1>4
<1>6. commits' \in Seq([tx : Transaction, active : BOOLEAN])
  <2>1. Len(commits) \in Nat /\ DOMAIN commits = 1..Len(commits)
    BY CommitFiles DEF StateInv
  <2>2. commits' \in [1..Len(commits) -> [tx : Transaction, active : BOOLEAN]]
    BY <1>1, <1>5, <2>1
  <2> DEFINE S == [tx : Transaction, active : BOOLEAN]
             k == Len(commits)
  <2>3. k \in Nat /\ commits' \in [1..k -> S]
    BY <2>1, <2>2
  <2> HIDE DEF S, k
  <2>4. commits' \in UNION {[1..n -> S] : n \in Nat}
    BY <2>3
  <2>5. commits' \in Seq(S)
    BY <2>4, SeqDef, Zenon
  <2> QED BY <2>5 DEF S
<1>7. StateTyped'
  BY <1>1, <1>2, <1>6 DEF StateInv, StateTyped
<1>8. VersionsFirst'
  BY <1>1, <1>5 DEF StateInv, VersionsFirst
<1>9. Active \subseteq Active' /\ Active' \subseteq DOMAIN commits
  BY <1>5 DEF Active
<1>10. CommitsAreWhole'
  <2>1. \A n \in Active' : versions[commits'[n].tx] # NoSnapshot
    BY <1>5, <1>9 DEF StateInv, VersionsFirst
  <2>2. ASSUME projection # NoSnapshot
        PROVE  \E n \in Active' : versions[commits'[n].tx] = projection
    <3>1. PICK n \in Active : versions[commits[n].tx] = projection
      BY <2>2 DEF StateInv, CommitsAreWhole
    <3> QED BY <3>1, <1>5, <1>9 DEF Active
  <2> QED BY <2>1, <2>2, <1>1 DEF CommitsAreWhole, NoSnapshot
<1>11. \E n \in Active' : commits'[n].tx = x.tx
  BY <1>3, <1>5 DEF Active
<1>12. ASSUME NEW v \in StateWriter PROVE WriterSound(v)'
  <2>1. CASE v = w
    <3>1. \E n \in DOMAIN commits' : commits'[n].tx = x.tx
      BY <1>3, <1>5
    <3>2. versions'[x.tx] = x.snapshot
      BY <1>1, <1>3
    <3>3. InStep(stateWriter[w])'
      BY <1>2, <1>11, <3>1, <3>2 DEF InStep
    <3> QED BY <3>3, <1>2, <2>1 DEF WriterSound, Committing, NoSnapshot
  <2>2. CASE v # w /\ stateWriter[v] = WriterIdle
    BY <1>2, <2>2 DEF WriterSound, WriterIdle
  <2>3. CASE v # w /\ stateWriter[v] # WriterIdle
    <3>1. Committing(stateWriter[v]) /\ InStep(stateWriter[v])
      BY <2>3, OthersDiffer
    <3>2. stateWriter'[v] = stateWriter[v]
      BY <1>2, <2>3
    <3> DEFINE y == stateWriter[v]
    <3>3. /\ (\E n \in DOMAIN commits : commits[n].tx = y.tx)
               => (\E n \in DOMAIN commits' : commits'[n].tx = y.tx)
          /\ (\E n \in Active : commits[n].tx = y.tx)
               => (\E n \in Active' : commits'[n].tx = y.tx)
      BY <1>5, <1>9 DEF Active
    <3>4. InStep(stateWriter[v])'
      <4>1. stateWriter'[v] = y /\ versions' = versions
        BY <3>2, <1>1
      <4>2. /\ y.step = 1 => versions[y.tx] = NoSnapshot
            /\ y.step \in 2..4 => versions[y.tx] = y.snapshot
            /\ y.step \in 3..4 => \E n \in DOMAIN commits' : commits'[n].tx = y.tx
            /\ y.step = 4 => \E n \in Active' : commits'[n].tx = y.tx
        BY <3>1, <3>3 DEF InStep
      <4> HIDE DEF y
      <4> QED BY <4>1, <4>2 DEF InStep, NoSnapshot
    <3> QED BY <3>1, <3>2, <3>4 DEF WriterSound, Committing, NoSnapshot
  <2> QED BY <2>1, <2>2, <2>3
<1> QED BY <1>2, <1>7, <1>8, <1>10, <1>12 DEF StateInv

\* What remains when a writer is done with its commit or stops within it.
LEMMA RestsSound ==
  ASSUME StateInv, NEW w \in StateWriter,
         stateWriter' = [stateWriter EXCEPT ![w] = WriterIdle],
         UNCHANGED <<versions, commits>>, CommitsAreWhole'
  PROVE  StateInv'
<1>1. /\ stateWriter'[w] = WriterIdle /\ DOMAIN stateWriter' = StateWriter
      /\ \A v \in StateWriter : v # w => stateWriter'[v] = stateWriter[v]
  BY DEF StateInv, StateTyped
<1>2. StateTyped' /\ VersionsFirst'
  BY <1>1 DEF StateInv, StateTyped, VersionsFirst
<1>3. OwnTransaction'
  BY <1>1 DEF StateInv, OwnTransaction, WriterIdle
<1>4. ASSUME NEW v \in StateWriter PROVE WriterSound(v)'
  BY <1>1 DEF StateInv, WriterSound, InStep, Committing, Active, WriterIdle, NoSnapshot
<1> QED BY <1>2, <1>3, <1>4 DEF StateInv

\* The projection is replaced by the snapshot of a commit that is in place.
LEMMA ProjectSound ==
  ASSUME StateInv, NEW w \in StateWriter, Committing(stateWriter[w]), InStep(stateWriter[w]),
         stateWriter[w].step = 4, CommitStep(w)
  PROVE  StateInv'
<1>1. /\ projection' = stateWriter[w].snapshot /\ UNCHANGED <<versions, commits>>
      /\ stateWriter' = [stateWriter EXCEPT ![w] = WriterIdle]
  BY DEF CommitStep, CommitOrder, Named, Project
<1>2. \E n \in Active : versions[commits[n].tx] = stateWriter[w].snapshot
  BY DEF InStep
<1>3. CommitsAreWhole'
  BY <1>1, <1>2 DEF StateInv, CommitsAreWhole, Active
<1> QED BY <1>1, <1>3, RestsSound

\* A writer that stops leaves its files as they are.
LEMMA StopsSound ==
  ASSUME StateInv, NEW w \in StateWriter, WriterStops(w)
  PROVE  StateInv'
<1>1. CommitsAreWhole'
  BY DEF WriterStops, StateInv, CommitsAreWhole, Active
<1> QED BY <1>1, RestsSound DEF WriterStops

\* No step of any writer breaks the invariant.
LEMMA StateInvStep == StateInv /\ [StateNext]_stateVars => StateInv'
<1> SUFFICES ASSUME StateInv, [StateNext]_stateVars PROVE StateInv'
  OBVIOUS
<1>1. ASSUME NEW w \in StateWriter, NEW update \in Update, Apply(w, update) PROVE StateInv'
  BY <1>1, ApplySound
<1>2. ASSUME NEW w \in StateWriter, CommitStep(w) PROVE StateInv'
  <2>1. stateWriter[w] # WriterIdle
    BY <1>2 DEF CommitStep, WriterIdle
  <2>2. Committing(stateWriter[w]) /\ InStep(stateWriter[w])
    BY <2>1 DEF StateInv, WriterSound
  <2>3. stateWriter[w].step \in {1, 2, 3, 4}
    BY <2>2 DEF Committing
  <2> QED BY <1>2, <2>2, <2>3, VersionSound, PendingSound, ActivateSound, ProjectSound
<1>3. ASSUME NEW w \in StateWriter, WriterStops(w) PROVE StateInv'
  BY <1>3, StopsSound
<1>4. CASE UNCHANGED stateVars
  BY <1>4 DEF stateVars, StateInv, StateTyped, OwnTransaction, VersionsFirst, CommitsAreWhole, Active,
              WriterSound, Committing, InStep, WriterIdle, NoSnapshot
<1> QED BY <1>1, <1>2, <1>3, <1>4 DEF StateNext

\* However updates of one agent overlap and stop, every commit file that loadActive
\* may read names a whole version, and state.md shows one that was activated.
THEOREM StateCommitsWhole == StateSpec => []CommitsAreWhole
<1>1. StateInv => CommitsAreWhole
  BY DEF StateInv
<1>2. StateSpec => []StateInv
  BY StateInvInit, StateInvStep, PTL DEF StateSpec
<1> QED BY <1>1, <1>2, PTL

-----------------------------------------------------------------------------
(***************************************************************************)
(* MemoryEngine. The activation lock has one holder, and whoever is at     *)
(* work holds it: so what a cycle made over the newest commit still fits   *)
(* on the newest commit when it is committed.                              *)
(***************************************************************************)
Reference == [key : MemoryKey \cup {"captures"}, tx : Nat]
Artifact == [tx : Nat, sources : SUBSET Reference]
Tree == [MemoryKey -> Artifact]
WeekKey == <<"L2", "week">>
ThemeKey == <<"L3", "current">>
LifeKey == <<"lifetime", "current">>

\* What one commit promises over the one before it.
DigestsOf(tree) == {ref(k, tree[k]) : k \in {j \in MemoryKey : j[1] = "L1" /\ tree[j] # NoDigest}}
Belongs(tree, parent) ==
  /\ \A k \in MemoryKey : parent[k] # NoDigest => tree[k] # NoDigest
  /\ tree[WeekKey] # parent[WeekKey] =>
       tree[WeekKey].sources = DigestsOf(tree) /\ ref(WeekKey, tree[WeekKey]) \in tree[ThemeKey].sources
ParentOf(n) == IF n = 1 THEN EmptyTree ELSE manifests[n - 1]

\* What a cycle has staged or written aside belongs with the newest commit.
Fitting(w) ==
  /\ w.at \in {"idle", "staged", "pending", "committed"}
  /\ w.at = "idle" => w = Awake
  /\ w.at = "staged" => Carried(Latest, w.artifacts) \in Tree /\ Belongs(Carried(Latest, w.artifacts), Latest)
  /\ w.at = "pending" => w.manifest \in Tree /\ Belongs(w.manifest, Latest)
MemoryTyped ==
  /\ captures \in [Day -> Nat] /\ manifests \in Seq(Tree) /\ orphans \in Nat
  /\ activationLock \subseteq Dreamer /\ dreamer = [x \in Dreamer |-> dreamer[x]]
MemoryInv ==
  /\ MemoryTyped
  /\ \A x, y \in activationLock : x = y
  /\ \A x \in Dreamer : dreamer[x].at # "idle" => x \in activationLock
  /\ \A x \in Dreamer : Fitting(dreamer[x])
  /\ \A n \in 1..Len(manifests) : Belongs(manifests[n], ParentOf(n))

\* The trees and keys a cycle works with.
LEMMA TreeFacts ==
  ASSUME MemoryTyped
  PROVE  /\ NoDigest \in Artifact /\ EmptyTree \in Tree /\ Latest \in Tree
         /\ WeekKey \in MemoryKey /\ ThemeKey \in MemoryKey /\ LifeKey \in MemoryKey
         /\ WeekKey # ThemeKey /\ ThemeKey # LifeKey /\ WeekKey # LifeKey
<1>1. NoDigest \in Artifact
  BY DEF NoDigest, Artifact
<1>2. EmptyTree \in Tree
  BY <1>1 DEF EmptyTree, Tree
<1>3. Latest \in Tree
  <2>1. CASE manifests = << >>
    BY <1>2, <2>1 DEF Latest
  <2>2. CASE manifests # << >>
    <3>1. manifests \in Seq(Tree) /\ Len(manifests) \in 1..Len(manifests)
      BY <2>2 DEF MemoryTyped
    <3> QED BY <2>2, <3>1 DEF Latest, Last
  <2> QED BY <2>1, <2>2
<1>4. WeekKey \in MemoryKey /\ ThemeKey \in MemoryKey /\ LifeKey \in MemoryKey
  BY DEF WeekKey, ThemeKey, LifeKey, MemoryKey
<1>5. WeekKey # ThemeKey /\ ThemeKey # LifeKey /\ WeekKey # LifeKey
  BY DEF WeekKey, ThemeKey, LifeKey
<1> QED BY <1>1, <1>2, <1>3, <1>4, <1>5

\* What a transaction makes is something.
LEMMA MadeFacts ==
  ASSUME MemoryTyped, NEW sources \in SUBSET Reference
  PROVE  Made(sources) \in Artifact /\ Made(sources) # NoDigest /\ Made(sources).sources = sources
<1>1. Cardinality({x \in Dreamer : dreamer[x].at # "idle"}) \in Nat
  <2>1. IsFiniteSet({x \in Dreamer : dreamer[x].at # "idle"})
    BY FS_Subset, DreamerAssumption
  <2> QED BY <2>1, FS_CardinalityType
<1>2. PICK c \in Nat : c = Cardinality({x \in Dreamer : dreamer[x].at # "idle"})
  BY <1>1
<1>3. PICK n \in Nat : n = Len(manifests)
  BY DEF MemoryTyped
<1>4. Tx \in Nat
  BY <1>2, <1>3 DEF Tx, MemoryTyped
<1>5. PICK t \in Nat : t = Tx
  BY <1>4
<1> QED BY <1>5 DEF Made, Artifact, NoDigest

\* A reference names an artifact of a tree.
LEMMA ReferenceFacts ==
  ASSUME NEW k \in MemoryKey, NEW a \in Artifact
  PROVE  ref(k, a) \in Reference
BY DEF ref, Reference, Artifact

\* A step that leaves the commits and changes one dreamer, within what the lock allows.
LEMMA DreamerStep ==
  ASSUME MemoryInv, NEW x \in Dreamer, NEW w, dreamer' = [dreamer EXCEPT ![x] = w], manifests' = manifests, Fitting(w),
         captures' \in [Day -> Nat], orphans' \in Nat, activationLock' \subseteq Dreamer,
         \A y, z \in activationLock' : y = z, w.at # "idle" => x \in activationLock',
         \A y \in Dreamer \ {x} : y \in activationLock => y \in activationLock'
  PROVE  MemoryInv'
<1>1. \A y \in Dreamer : dreamer'[y] = IF y = x THEN w ELSE dreamer[y]
  BY DEF MemoryInv, MemoryTyped
<1>2. MemoryTyped'
  <2>1. dreamer' = [y \in Dreamer |-> dreamer'[y]]
    BY DEF MemoryInv, MemoryTyped
  <2> QED BY <2>1 DEF MemoryInv, MemoryTyped
<1>3. \A y \in Dreamer : dreamer'[y].at # "idle" => y \in activationLock'
  BY <1>1 DEF MemoryInv
<1>4. \A y \in Dreamer : Fitting(dreamer[y]) /\ Latest' = Latest
  BY DEF MemoryInv, Latest
<1>5. ASSUME NEW y \in Dreamer
      PROVE  Fitting(dreamer[y])'
  <2>1. PICK v : v = dreamer'[y]
    OBVIOUS
  <2>2. Fitting(v)
    BY <1>1, <1>4, <2>1
  <2>3. Fitting(v)'
    BY <1>4, <2>2 DEF Fitting
  <2> QED BY <2>1, <2>3
<1>6. \A n \in 1..Len(manifests') : Belongs(manifests'[n], ParentOf(n)')
  BY DEF MemoryInv, ParentOf
<1> QED BY <1>2, <1>3, <1>5, <1>6 DEF MemoryInv

\* A cycle starts with what fits on the newest commit.
LEMMA SleepKeeps ==
  ASSUME MemoryInv, NEW x \in Dreamer, NEW artifacts, Sleep(x, artifacts),
         Carried(Latest, artifacts) \in Tree, Belongs(Carried(Latest, artifacts), Latest)
  PROVE  MemoryInv'
<1>1. PICK w : w = [at |-> "staged", artifacts |-> artifacts]
  OBVIOUS
<1>2. w.at = "staged" /\ w.artifacts = artifacts
  BY <1>1
<1>3. Fitting(w)
  BY <1>2 DEF Fitting
<1>4. /\ dreamer' = [dreamer EXCEPT ![x] = w] /\ activationLock' = {x}
      /\ UNCHANGED <<captures, manifests, orphans>>
  BY <1>1 DEF Sleep, CycleLockFree
<1>5. \A y \in Dreamer \ {x} : y \in activationLock => y \in activationLock'
  BY DEF Sleep, CycleLockFree
<1>6. captures' \in [Day -> Nat] /\ orphans' \in Nat
  BY <1>4 DEF MemoryInv, MemoryTyped
<1> QED BY <1>3, <1>4, <1>5, <1>6, DreamerStep

\* The daily digest replaces one day.
LEMMA DailyKeeps ==
  ASSUME MemoryInv, NEW x \in Dreamer, NEW d \in Day, DreamDaily(x, d)
  PROVE  MemoryInv'
<1>1. MemoryTyped
  BY DEF MemoryInv
<1>2. PICK s : s = {[key |-> "captures", tx |-> captures[d]]}
  OBVIOUS
<1>3. s \in SUBSET Reference
  BY <1>1, <1>2 DEF Reference, MemoryTyped
<1>4. PICK k \in MemoryKey : k = <<"L1", d>> /\ k[1] = "L1" /\ k # WeekKey
  <2>1. <<"L1", d>> \in MemoryKey /\ <<"L1", d>>[1] = "L1"
    BY DEF MemoryKey
  <2>2. WeekKey[1] = "L2"
    BY DEF WeekKey
  <2> QED BY <2>1, <2>2
<1>5. PICK m \in Artifact : m = Made(s) /\ m # NoDigest
  BY <1>1, <1>3, MadeFacts
<1>6. PICK a : a = [j \in {k} |-> m]
  OBVIOUS
<1>7. Sleep(x, a)
  BY <1>2, <1>4, <1>5, <1>6 DEF DreamDaily
<1>8. PICK l \in Tree : l = Latest
  BY <1>1, TreeFacts
<1>9. PICK t : t = Carried(l, a)
  OBVIOUS
<1>10. t \in Tree /\ \A j \in MemoryKey : t[j] = IF j = k THEN m ELSE l[j]
  BY <1>5, <1>6, <1>8, <1>9 DEF Carried, Tree
<1>11. Belongs(t, l)
  <2>1. WeekKey \in MemoryKey
    BY <1>1, TreeFacts
  <2>2. t[WeekKey] = l[WeekKey]
    BY <1>4, <1>10, <2>1
  <2>3. \A j \in MemoryKey : l[j] # NoDigest => t[j] # NoDigest
    BY <1>5, <1>10
  <2> QED BY <2>2, <2>3 DEF Belongs
<1> QED BY <1>7, <1>8, <1>9, <1>10, <1>11, SleepKeeps

\* The three artifacts of a weekly cycle, and the rollup of them that it stages.
WeekMade == Made(WeekSources)
ThemeMade == Made(With(ThemeKey, Latest[ThemeKey], {ref(WeekKey, WeekMade)}))
LifeMade == Made(With(LifeKey, Latest[LifeKey], {ref(ThemeKey, ThemeMade)}))
Rollup(eligible, week, theme, life) ==
  [k \in {WeekKey, ThemeKey} \cup (IF eligible THEN {LifeKey} ELSE {}) |->
     CASE k = WeekKey -> week [] k = ThemeKey -> theme [] k = LifeKey -> life]

\* The weekly rollup is made from the digests it is committed with.
LEMMA WeeklyKeeps ==
  ASSUME MemoryInv, NEW x \in Dreamer, DreamWeekly(x)
  PROVE  MemoryInv'
<1>1. MemoryTyped
  BY DEF MemoryInv
<1>2. PICK l \in Tree : l = Latest
  BY <1>1, TreeFacts
<1>0. PICK eligible \in BOOLEAN : Sleep(x, Rollup(eligible, WeekMade, ThemeMade, LifeMade))
  BY DEF DreamWeekly, WeekKey, ThemeKey, LifeKey, WeekMade, ThemeMade, LifeMade, Rollup
<1>3. PICK week, theme, life, a :
        /\ week = WeekMade /\ theme = ThemeMade /\ life = LifeMade /\ a = Rollup(eligible, week, theme, life)
        /\ Sleep(x, a)
  BY <1>0
<1>4. WeekKey \in MemoryKey /\ ThemeKey \in MemoryKey /\ LifeKey \in MemoryKey /\ WeekKey # ThemeKey /\ ThemeKey # LifeKey /\ WeekKey # LifeKey
  BY <1>1, TreeFacts
<1>5. WeekSources \in SUBSET Reference /\ WeekSources = DigestsOf(l)
  <2>1. WeekSources = DigestsOf(l)
    BY <1>2 DEF WeekSources, DigestsOf
  <2>2. \A k \in MemoryKey : l[k] \in Artifact
    BY DEF Tree
  <2> QED BY <2>1, <2>2, ReferenceFacts DEF DigestsOf
<1>6. week \in Artifact /\ week # NoDigest /\ week.sources = WeekSources
  BY <1>1, <1>3, <1>5, MadeFacts DEF WeekMade
<1>7. /\ With(ThemeKey, Latest[ThemeKey], {ref(WeekKey, week)}) \in SUBSET Reference
      /\ ref(WeekKey, week) \in With(ThemeKey, Latest[ThemeKey], {ref(WeekKey, week)})
  <2>1. ref(WeekKey, week) \in Reference /\ ref(ThemeKey, l[ThemeKey]) \in Reference
    BY <1>4, <1>6, ReferenceFacts DEF Tree
  <2> QED BY <1>2, <2>1 DEF With
<1>8. theme \in Artifact /\ theme # NoDigest /\ ref(WeekKey, week) \in theme.sources
  BY <1>1, <1>3, <1>7, MadeFacts DEF ThemeMade
<1>9. With(LifeKey, Latest[LifeKey], {ref(ThemeKey, theme)}) \in SUBSET Reference
  <2>1. ref(ThemeKey, theme) \in Reference /\ ref(LifeKey, l[LifeKey]) \in Reference
    BY <1>4, <1>8, ReferenceFacts DEF Tree
  <2> QED BY <1>2, <2>1 DEF With
<1>10. life \in Artifact /\ life # NoDigest
  BY <1>1, <1>3, <1>9, MadeFacts DEF LifeMade
<1>11. PICK t : t = Carried(l, a)
  OBVIOUS
<1>12. /\ a[WeekKey] = week /\ a[ThemeKey] = theme /\ (eligible => a[LifeKey] = life)
       /\ DOMAIN a = {WeekKey, ThemeKey} \cup (IF eligible THEN {LifeKey} ELSE {})
  BY <1>3, <1>4 DEF Rollup
<1>13. /\ t[WeekKey] = week /\ t[ThemeKey] = theme /\ DOMAIN t = MemoryKey
       /\ \A k \in MemoryKey \ {WeekKey, ThemeKey} : t[k] = l[k] \/ t[k] = life
       /\ \A k \in MemoryKey : k[1] = "L1" => t[k] = l[k]
  <2>1. \A k \in MemoryKey : t[k] = IF k \in DOMAIN a THEN a[k] ELSE l[k]
    BY <1>11 DEF Carried
  <2>2. \A k \in MemoryKey : k[1] = "L1" => k \notin {WeekKey, ThemeKey, LifeKey}
    BY DEF WeekKey, ThemeKey, LifeKey
  <2>3. DOMAIN t = MemoryKey
    BY <1>11 DEF Carried
  <2> QED BY <1>4, <1>12, <2>1, <2>2, <2>3
<1>14. t \in Tree
  <2>1. \A k \in MemoryKey : t[k] \in Artifact
    BY <1>6, <1>8, <1>10, <1>13 DEF Tree
  <2>2. t = [k \in MemoryKey |-> t[k]]
    BY <1>11 DEF Carried
  <2> QED BY <2>1, <2>2 DEF Tree
<1>15. Belongs(t, l)
  <2>1. \A k \in MemoryKey : l[k] # NoDigest => t[k] # NoDigest
    BY <1>6, <1>8, <1>10, <1>13
  <2>2. DigestsOf(t) = DigestsOf(l)
    BY <1>13 DEF DigestsOf
  <2>3. t[WeekKey].sources = DigestsOf(t) /\ ref(WeekKey, t[WeekKey]) \in t[ThemeKey].sources
    BY <1>5, <1>6, <1>8, <1>13, <2>2
  <2> QED BY <2>1, <2>3 DEF Belongs
<1> QED BY <1>2, <1>3, <1>11, <1>14, <1>15, SleepKeeps

\* A dreamer at work holds the lock alone.
LEMMA HolderAlone ==
  ASSUME MemoryInv, NEW x \in Dreamer, dreamer[x].at # "idle"
  PROVE  activationLock = {x} /\ \A y \in Dreamer \ {x} : dreamer[y].at = "idle" /\ dreamer[y] = Awake
<1>1. activationLock = {x}
  BY DEF MemoryInv
<1>2. \A y \in Dreamer \ {x} : dreamer[y].at = "idle"
  BY <1>1 DEF MemoryInv
<1> QED BY <1>1, <1>2 DEF MemoryInv, Fitting

\* Staging puts the artifacts over the newest commit.
LEMMA StageKeeps ==
  ASSUME MemoryInv, NEW x \in Dreamer, StageManifest(x)
  PROVE  MemoryInv'
<1>1. PICK v : v = dreamer[x] /\ v.at = "staged" /\ Fitting(v)
  BY DEF StageManifest, MemoryInv
<1>2. PICK w : w = [at |-> "pending", manifest |-> Carried(Latest, v.artifacts)]
  OBVIOUS
<1>3. Fitting(w)
  BY <1>1, <1>2 DEF Fitting
<1>4. dreamer' = [dreamer EXCEPT ![x] = w] /\ UNCHANGED <<captures, manifests, orphans, activationLock>>
  BY <1>1, <1>2 DEF StageManifest
<1>5. x \in activationLock /\ captures' \in [Day -> Nat] /\ orphans' \in Nat /\ activationLock' \subseteq Dreamer
  BY <1>1, <1>4 DEF MemoryInv, MemoryTyped
<1>6. \A y, z \in activationLock' : y = z
  BY <1>4 DEF MemoryInv
<1> QED BY <1>3, <1>4, <1>5, <1>6, DreamerStep

\* The commit appends a manifest that was made over the newest one.
LEMMA ManifestCommitKeeps ==
  ASSUME MemoryInv, NEW x \in Dreamer, CommitManifest(x)
  PROVE  MemoryInv'
<1>1. PICK m : m = dreamer[x].manifest /\ m \in Tree /\ Belongs(m, Latest) /\ dreamer[x].at = "pending"
  BY DEF CommitManifest, MemoryInv, Fitting
<1>2. /\ manifests' = Append(manifests, m) /\ UNCHANGED <<captures, orphans, activationLock>>
      /\ dreamer' = [dreamer EXCEPT ![x] = [at |-> "committed"]]
  BY <1>1 DEF CommitManifest
<1>3. PICK n \in Nat : n = Len(manifests) /\ manifests \in Seq(Tree)
  BY DEF MemoryInv, MemoryTyped
<1>4. manifests' \in Seq(Tree) /\ Len(manifests') = n + 1 /\ manifests'[n + 1] = m /\ \A k \in 1..n : manifests'[k] = manifests[k]
  BY <1>1, <1>2, <1>3
<1>5. MemoryTyped'
  <2>1. dreamer' = [y \in Dreamer |-> dreamer'[y]]
    BY <1>2 DEF MemoryInv, MemoryTyped
  <2> QED BY <1>2, <1>4, <2>1 DEF MemoryInv, MemoryTyped
<1>6. \A k \in 1..n : ParentOf(k)' = ParentOf(k)
  BY <1>3, <1>4 DEF ParentOf
<1>7. ParentOf(n + 1)' = Latest
  <2>1. CASE n = 0
    <3>1. Len(manifests) = 0 /\ manifests \in Seq(Tree) /\ n + 1 = 1
      BY <1>3, <2>1
    <3>2. manifests = << >>
      BY <3>1
    <3> QED BY <3>1, <3>2 DEF ParentOf, Latest
  <2>2. CASE n # 0
    <3>1. manifests # << >> /\ manifests'[n] = manifests[n] /\ n + 1 # 1 /\ n + 1 - 1 = n
      BY <1>3, <1>4, <2>2
    <3> QED BY <1>3, <3>1 DEF ParentOf, Latest, Last
  <2> QED BY <2>1, <2>2
<1>8. ASSUME NEW k \in 1..Len(manifests')
      PROVE  Belongs(manifests'[k], ParentOf(k)')
  <2>1. CASE k = n + 1
    BY <1>1, <1>4, <1>7, <2>1
  <2>2. CASE k \in 1..n
    <3>1. Belongs(manifests[k], ParentOf(k))
      BY <1>3, <2>2 DEF MemoryInv
    <3> QED BY <1>4, <1>6, <2>2, <3>1
  <2> QED BY <1>3, <1>4, <2>1, <2>2
<1>9. \A y \in Dreamer : dreamer'[y] = IF y = x THEN [at |-> "committed"] ELSE dreamer[y]
  BY <1>2 DEF MemoryInv, MemoryTyped
<1>10. \A y \in Dreamer \ {x} : dreamer[y] = Awake
  BY <1>1, HolderAlone
<1>11. ASSUME NEW y \in Dreamer
       PROVE  Fitting(dreamer[y])'
  <2>1. PICK v : v = dreamer'[y] /\ v.at \in {"idle", "committed"} /\ (v.at = "idle" => v = Awake)
    BY <1>9, <1>10 DEF Awake
  <2>2. Fitting(v)'
    BY <2>1 DEF Fitting, Awake
  <2> QED BY <2>1, <2>2
<1>12. \A y \in Dreamer : dreamer'[y].at # "idle" => y \in activationLock'
  BY <1>1, <1>2, <1>9, <1>10 DEF MemoryInv, Awake
<1>13. \A y, z \in activationLock' : y = z
  BY <1>2 DEF MemoryInv
<1> QED BY <1>5, <1>8, <1>11, <1>12, <1>13 DEF MemoryInv

\* Waking, failing, crashing, and the person who clears the lock.
LEMMA WakeKeeps ==
  ASSUME MemoryInv, NEW x \in Dreamer, Wake(x) \/ DreamFails(x) \/ ClearLock(x)
  PROVE  MemoryInv'
<1>1. /\ dreamer' = [dreamer EXCEPT ![x] = Awake] /\ manifests' = manifests /\ captures' = captures
      /\ orphans' \in Nat /\ activationLock' \in {activationLock, activationLock \ {x}}
  <2>1. CASE Wake(x)
    BY <2>1 DEF Wake, MemoryInv, MemoryTyped
  <2>2. CASE DreamFails(x)
    BY <2>2 DEF DreamFails, MemoryInv, MemoryTyped
  <2>3. CASE ClearLock(x)
    BY <2>3 DEF ClearLock, MemoryInv, MemoryTyped
  <2> QED BY <2>1, <2>2, <2>3
<1>0. Awake.at = "idle" /\ Fitting(Awake)
  BY DEF Fitting, Awake
<1>2. PICK w : w = Awake /\ w.at = "idle" /\ Fitting(w)
  BY <1>0
<1>3. captures' \in [Day -> Nat] /\ activationLock' \subseteq Dreamer /\ \A y, z \in activationLock' : y = z
  BY <1>1 DEF MemoryInv, MemoryTyped
<1>4. \A y \in Dreamer \ {x} : y \in activationLock => y \in activationLock'
  BY <1>1
<1> QED BY <1>1, <1>2, <1>3, <1>4, DreamerStep

\* Every commit keeps the layers of the one before it, and a new weekly rollup was made from
\* the digests it is committed with (dreamDaily, DreamWeekly and activate of the memory engine).
THEOREM CommitsBelong == MemorySpec => []CommitsBelongTogether
<1>1. MemoryInit => MemoryInv
  <2> SUFFICES ASSUME MemoryInit
               PROVE  MemoryInv
    OBVIOUS
  <2>1. Awake.at = "idle" /\ Fitting(Awake)
    BY DEF Awake, Fitting
  <2>2. MemoryTyped
    BY DEF MemoryInit, MemoryTyped
  <2> QED BY <2>1, <2>2 DEF MemoryInit, MemoryInv
<1>2. MemoryInv /\ [MemoryNext]_memoryVars => MemoryInv'
  <2> SUFFICES ASSUME MemoryInv, [MemoryNext]_memoryVars
               PROVE  MemoryInv'
    OBVIOUS
  <2>1. CASE UNCHANGED memoryVars
    <3>1. UNCHANGED <<captures, manifests, orphans, activationLock, dreamer>>
      BY <2>1 DEF memoryVars
    <3>2. Latest' = Latest /\ \A n : ParentOf(n)' = ParentOf(n)
      BY <3>1 DEF Latest, ParentOf
    <3>3. \A y \in Dreamer : Fitting(dreamer[y])'
      BY <3>1, <3>2 DEF MemoryInv, Fitting
    <3> QED BY <3>1, <3>2, <3>3 DEF MemoryInv, MemoryTyped
  <2>2. CASE \E d \in Day : Capture(d)
    <3>1. captures' \in [Day -> Nat] /\ UNCHANGED <<manifests, orphans, activationLock, dreamer>>
      BY <2>2 DEF Capture, MemoryInv, MemoryTyped
    <3>2. Latest' = Latest /\ \A n : ParentOf(n)' = ParentOf(n)
      BY <3>1 DEF Latest, ParentOf
    <3>3. \A y \in Dreamer : Fitting(dreamer[y])'
      BY <3>1, <3>2 DEF MemoryInv, Fitting
    <3> QED BY <3>1, <3>2, <3>3 DEF MemoryInv, MemoryTyped
  <2>3. CASE \E x \in Dreamer : \/ \E d \in Day : DreamDaily(x, d)
                                \/ DreamWeekly(x) \/ StageManifest(x) \/ CommitManifest(x) \/ Wake(x)
                                \/ DreamFails(x) \/ ClearLock(x)
    BY <2>3, DailyKeeps, WeeklyKeeps, StageKeeps, ManifestCommitKeeps, WakeKeeps
  <2> QED BY <2>1, <2>2, <2>3 DEF MemoryNext
<1>3. MemoryInv => CommitsBelongTogether
  BY DEF MemoryInv, CommitsBelongTogether, Belongs, ParentOf, DigestsOf, WeekKey, ThemeKey
<1> QED BY <1>1, <1>2, <1>3, PTL DEF MemorySpec


-----------------------------------------------------------------------------
(***************************************************************************)
(* PriorWork.  Under the import lock one importer is in the middle of an   *)
(* import, of the catalog after the active one or of the active one again. *)
(* A barrier is at least as new as the last revocation of its item, or the *)
(* item was listed since and the barrier was cleared; while the fence is   *)
(* down every item of the batch that was revoked last is barred, and its   *)
(* barrier is not stale.  An audit tells of a published version no newer   *)
(* than the active one.                                                    *)
(***************************************************************************)
Catalogs == [sequence : 1..MaxSequence, mark : Mark, snapshot : Snapshot, items : SUBSET Item]
ImportWork ==
  [at : Writing, occ : PresenceRun, presence : BOOLEAN, catalog : Catalogs, listed : SUBSET Item,
   state : {"unchanged", "published"}, todo : SUBSET Item, all : SUBSET Item, before : Catalogs \cup {NoCatalog}]
PriorTyped ==
  /\ active \in Catalogs \cup {NoCatalog}
  /\ barriers \in [Item -> Nat] /\ revokedAt \in [Item -> Nat] /\ listedAt \in [Item -> Nat]
  /\ fence \in BOOLEAN /\ batch \subseteq Item
  /\ importer = [x \in Importer |-> importer[x]] /\ DOMAIN audits = PresenceRun /\ synced \subseteq PresenceRun

\* What holds of an importer in the middle of an import.
WorkFits(w) ==
  /\ w \in ImportWork /\ w.listed = w.catalog.snapshot.items
  /\ w.at = "clear" => w.catalog = active
  /\ w.at # "clear" => /\ w.before = active /\ w.catalog.sequence = active.sequence + 1
                       /\ w.catalog.items \subseteq active.items \cup w.listed
  /\ w.at = "fence" => w.todo = w.all
  /\ w.at = "barrier" => fence /\ batch = w.all /\ \A i \in w.all \ w.todo : barriers[i] = w.catalog.sequence
  /\ w.at = "activate" => w.catalog \in catalogVersions
ImporterFits(w) ==
  /\ w.at \in {"idle", "collect", "verify"} \cup Writing
  /\ w.at \in {"collect", "verify"} => w.occ \in PresenceRun
  /\ w.at \in Writing => WorkFits(w)
ImporterAlone ==
  /\ importLock \in Importer \cup {FreeImport, Stopped}
  /\ \A x \in Importer : importer[x].at \in Writing => importLock = x

\* The catalog in place was published, and its items were listed.
ActiveListed ==
  /\ \A i \in active.items : listedAt[i] > 0
  /\ active # NoCatalog => active \in catalogVersions /\ \A i \in active.snapshot.items : listedAt[i] = active.sequence
\* A barrier is cleared only by a listing newer than the revocation, and no barrier of
\* the batch is stale once the fence is down.
BarriersHold ==
  /\ \A i \in Item :
       /\ revokedAt[i] <= active.sequence + 1 /\ barriers[i] <= active.sequence + 1 /\ listedAt[i] <= active.sequence
       /\ revokedAt[i] <= barriers[i] \/ (barriers[i] = 0 /\ revokedAt[i] < listedAt[i])
  /\ ~fence => \A i \in batch : /\ barriers[i] # 0
                                /\ (active # NoCatalog /\ i \in active.snapshot.items) => barriers[i] > active.sequence
ImportsAudited ==
  /\ \A o \in PresenceRun : audits[o] # NoAudit =>
       /\ audits[o].catalog \in Catalogs /\ audits[o].catalog \in catalogVersions
       /\ audits[o].catalog.sequence <= active.sequence
  /\ \A o \in synced : audits[o] # NoAudit
PriorInv ==
  /\ PriorTyped /\ ImporterAlone /\ ActiveListed /\ BarriersHold /\ ImportsAudited
  /\ \A x \in Importer : ImporterFits(importer[x])

\* The catalog a snapshot leads to holds nothing that was neither active nor listed.
LEMMA MergedFits ==
  ASSUME PriorInv, NEW s \in Snapshot
  PROVE  /\ Merged(s) \in Catalogs /\ Merged(s).sequence = s.sequence /\ Merged(s).snapshot = s
         /\ Merged(s).items \subseteq active.items \cup s.items
         /\ Tombstones(s) \subseteq Item /\ s.items \subseteq Item /\ s.sequence \in Nat /\ s.sequence > 0
<1>1. /\ s.sequence \in 1..MaxSequence /\ s.mark \in Mark /\ s.items \subseteq Item /\ s.gone \subseteq Item
  BY DEF Snapshot
<1>2. active.items \subseteq Item
  BY DEF PriorInv, PriorTyped, Catalogs, NoCatalog
<1>3. Merged(s).items \subseteq Item /\ Merged(s).items \subseteq active.items \cup s.items
  BY <1>1, <1>2 DEF Merged
<1>4. Merged(s) \in Catalogs /\ Merged(s).sequence = s.sequence /\ Merged(s).snapshot = s
  BY <1>1, <1>3 DEF Merged, Catalogs
<1>5. Tombstones(s) \subseteq Item
  BY <1>1, <1>2 DEF Tombstones
<1> QED
  BY <1>1, <1>3, <1>4, <1>5, ImporterAssumption

\* No catalog is told from a catalog by its sequence.
LEMMA CatalogFacts ==
  ASSUME PriorInv
  PROVE  /\ active.sequence \in Nat /\ active.items \subseteq Item
         /\ active = NoCatalog => active.sequence = 0
         /\ active # NoCatalog => active \in Catalogs /\ active.sequence > 0 /\ active.snapshot.items \subseteq Item
  BY ImporterAssumption DEF PriorInv, PriorTyped, Catalogs, NoCatalog, Snapshot

\* A step of the importer that holds the lock, or of one beside it, as a move to w.
LEMMA BeginFits ==
  ASSUME PriorInv, NEW x, NEW o \in PresenceRun, NEW presence \in BOOLEAN, NEW s \in Snapshot, Begin(x, o, presence, s)
  PROVE  \E w \in ImportWork : WorkFits(w) /\ importer' = [importer EXCEPT ![x] = w] /\ importLock' = x /\ importLock = FreeImport
                               /\ w.at \in {"clear", "publish", "fence"}
<1>1. /\ Merged(s) \in Catalogs /\ Merged(s).sequence = s.sequence /\ Merged(s).snapshot = s
      /\ Merged(s).items \subseteq active.items \cup s.items
      /\ Tombstones(s) \subseteq Item /\ s.items \subseteq Item /\ s.sequence \in Nat /\ s.sequence > 0
  BY MergedFits
<1>2. PICK w : w = Begun(o, presence, s)
  OBVIOUS
<1>3. active \in Catalogs \cup {NoCatalog} /\ active.sequence \in Nat
  BY CatalogFacts DEF PriorInv, PriorTyped
<1>4. w \in ImportWork
  BY <1>1, <1>2, <1>3 DEF Begun, ImportWork, Writing
<1>5. /\ w.listed = s.items /\ w.catalog = Merged(s) /\ w.before = active /\ w.todo = w.all
      /\ IF s.sequence = active.sequence THEN w.at = "clear" ELSE w.at \in {"publish", "fence"}
  BY <1>2 DEF Begun
<1>6. s.sequence = active.sequence \/ s.sequence = active.sequence + 1
  <2>1. CASE active = NoCatalog
    BY <2>1 DEF Begin, Acceptable, InOrder, NoCatalog
  <2>2. CASE active # NoCatalog
    BY <2>2 DEF Begin, Acceptable, InOrder
  <2> QED
    BY <2>1, <2>2
<1>7. s.sequence = active.sequence => Merged(s) = active
  <2>1. CASE active = NoCatalog
    BY <2>1 DEF Begin, Acceptable, InOrder, NoCatalog
  <2>2. CASE active # NoCatalog
    BY <1>1, <1>3, <2>2 DEF Begin, Acceptable, InOrder
  <2> QED
    BY <2>1, <2>2
<1>8. WorkFits(w)
  BY <1>1, <1>4, <1>5, <1>6, <1>7 DEF WorkFits
<1> QED
  BY <1>2, <1>4, <1>5, <1>8 DEF Begin, GoImporter

PriorFilesStand == UNCHANGED <<active, catalogVersions, fence, barriers, audits, revokedAt, listedAt, batch>>

\* A step of the importer under the lock, or a step that changes no file, disturbs no
\* other import.
LEMMA ImporterMoves ==
  ASSUME PriorInv, NEW x \in Importer, NEW w,
         importer' = [importer EXCEPT ![x] = w], ImporterFits(w)', w.at \in Writing => importLock' = x,
         importLock' \in Importer \cup {FreeImport, Stopped}, importLock' # importLock => importLock \in {FreeImport, x},
         PriorFilesStand \/ importLock = x,
         PriorTyped', ActiveListed', BarriersHold', ImportsAudited'
  PROVE  PriorInv'
<1>1. PriorTyped /\ ImporterAlone /\ \A y \in Importer : ImporterFits(importer[y])
  BY DEF PriorInv
<1>2. importer'[x] = w /\ \A y \in Importer : y # x => importer'[y] = importer[y]
  BY <1>1 DEF PriorTyped
<1>3. ASSUME NEW y \in Importer, y # x, importer[y].at \in Writing
      PROVE  importLock = y /\ importLock' = importLock /\ PriorFilesStand
  BY <1>1, <1>3, ImporterAssumption DEF ImporterAlone, FreeImport
<1>4. ImporterAlone'
  <2> SUFFICES ASSUME NEW y \in Importer, importer'[y].at \in Writing PROVE importLock' = y
    BY DEF ImporterAlone
  <2> QED
    BY <1>2, <1>3
<1>5. ASSUME NEW y \in Importer PROVE ImporterFits(importer[y])'
  <2>1. CASE y = x
    BY <1>2, <2>1 DEF ImporterFits, WorkFits
  <2>2. CASE y # x /\ importer[y].at \notin Writing
    BY <1>1, <1>2, <2>2 DEF ImporterFits
  <2>3. CASE y # x /\ importer[y].at \in Writing
    <3>1. PriorFilesStand /\ importer'[y] = importer[y] /\ ImporterFits(importer[y])
      BY <1>1, <1>2, <1>3, <2>3
    <3> QED
      BY <3>1 DEF ImporterFits, WorkFits, PriorFilesStand
  <2> QED
    BY <2>1, <2>2, <2>3
<1> QED
  BY <1>4, <1>5 DEF PriorInv

\* Files nobody changed keep what is said of them.
LEMMA StandingFiles ==
  ASSUME PriorInv, PriorFilesStand, UNCHANGED synced, NEW x, NEW w, importer' = [importer EXCEPT ![x] = w]
  PROVE  PriorTyped' /\ ActiveListed' /\ BarriersHold' /\ ImportsAudited'
  BY DEF PriorInv, PriorFilesStand, PriorTyped, ActiveListed, BarriersHold, ImportsAudited

\* Whoever is in the middle of an import holds the lock.
LEMMA WorkerHolds ==
  ASSUME PriorInv, NEW x \in Importer, importer[x].at \in Writing
  PROVE  importLock = x /\ WorkFits(importer[x]) /\ importer[x] \in ImportWork
  BY DEF PriorInv, ImporterAlone, ImporterFits, WorkFits

\* Going to another place of the same import, with other barriers to write.
GoesTo(x, w, place, left) == w = [[importer[x] EXCEPT !.at = place] EXCEPT !.todo = left]

\* The next place of the same import.
LEMMA GoesToFacts ==
  ASSUME NEW x, importer[x] \in ImportWork, NEW place \in Writing, NEW left \in SUBSET Item,
         NEW w, GoesTo(x, w, place, left)
  PROVE  /\ w \in ImportWork /\ w.at = place /\ w.todo = left
         /\ w.occ = importer[x].occ /\ w.catalog = importer[x].catalog /\ w.listed = importer[x].listed
         /\ w.all = importer[x].all /\ w.before = importer[x].before
  BY DEF GoesTo, ImportWork

\* Outside of an import nothing is relied on.
LEMMA LeavesFits ==
  ASSUME NEW w, w.at \in {"idle", "collect", "verify"}, w.at # "idle" => w.occ \in PresenceRun
  PROVE  ImporterFits(w)' /\ w.at \notin Writing
  BY DEF ImporterFits, Writing

\* Steps outside of an import keep the invariant.
LEMMA OutsideKeeps ==
  ASSUME PriorInv, NEW x \in Importer, NEW w, importer' = [importer EXCEPT ![x] = w],
         w.at \in {"idle", "collect", "verify"}, w.at # "idle" => w.occ \in PresenceRun,
         PriorFilesStand, UNCHANGED synced,
         importLock' \in {importLock, FreeImport, Stopped}, importLock' # importLock => importLock = x
  PROVE  PriorInv'
<1>1. ImporterFits(w)' /\ w.at \notin Writing
  BY LeavesFits
<1>2. importLock' \in Importer \cup {FreeImport, Stopped}
  BY DEF PriorInv, ImporterAlone
<1>3. PriorTyped' /\ ActiveListed' /\ BarriersHold' /\ ImportsAudited'
  BY StandingFiles
<1> QED
  BY <1>1, <1>2, <1>3, ImporterMoves

\* Beginning an import keeps the invariant.
LEMMA BeginKeeps ==
  ASSUME PriorInv, NEW x \in Importer, NEW o \in PresenceRun, NEW presence \in BOOLEAN, NEW s \in Snapshot,
         Begin(x, o, presence, s), PriorFilesStand, UNCHANGED synced
  PROVE  PriorInv'
<1>1. PICK w \in ImportWork : /\ WorkFits(w) /\ importer' = [importer EXCEPT ![x] = w] /\ importLock' = x /\ importLock = FreeImport
                              /\ w.at \in {"clear", "publish", "fence"}
  BY BeginFits
<1>2. ImporterFits(w)'
  BY <1>1 DEF ImporterFits, WorkFits, Writing, PriorFilesStand
<1>3. PriorTyped' /\ ActiveListed' /\ BarriersHold' /\ ImportsAudited'
  BY <1>1, StandingFiles
<1> QED
  BY <1>1, <1>2, <1>3, ImporterMoves

\* Collecting and importing keep the invariant, refused or not.
LEMMA ImportBeginsKeeps ==
  ASSUME PriorInv, NEW x \in Importer, NEW s \in Snapshot, Collect(x, s) \/ \E o \in PresenceRun : Import(x, o, s)
  PROVE  PriorInv'
<1>1. PriorFilesStand /\ UNCHANGED synced
  BY DEF Collect, Import, PriorFilesStand, revocationHistory
<1>2. ASSUME NEW o \in PresenceRun, Import(x, o, s) PROVE PriorInv'
  BY <1>1, <1>2, BeginKeeps DEF Import
<1>3. CASE Collect(x, s)
  <2>1. importer[x].occ \in PresenceRun /\ importer[x].at = "collect"
    BY <1>3 DEF Collect, PriorInv, ImporterFits
  <2>2. CASE Begin(x, importer[x].occ, TRUE, s)
    BY <1>1, <2>1, <2>2, BeginKeeps
  <2>3. CASE ~Begin(x, importer[x].occ, TRUE, s)
    <3>1. importLock' = importLock
      BY <1>3, <2>3 DEF Collect
    <3>2. PICK w : w.at = "verify" /\ w.occ \in PresenceRun /\ importer' = [importer EXCEPT ![x] = w]
      <4> DEFINE told(r) == [at |-> "verify", occ |-> importer[x].occ, report |-> r]
      <4>1. \E r : importer' = [importer EXCEPT ![x] = told(r)]
        <5>1. \A r : [told(audits[importer[x].occ]) EXCEPT !.report = r] = told(r)
          OBVIOUS
        <5> QED
          BY <1>3, <2>3, <5>1 DEF Collect, GoImporter
      <4> QED
        BY <2>1, <4>1
    <3> QED
      BY <1>1, <3>1, <3>2, OutsideKeeps
  <2> QED
    BY <2>2, <2>3
<1> QED
  BY <1>2, <1>3

\* Taking the claim keeps the invariant.
LEMMA StartsKeeps ==
  ASSUME PriorInv, NEW x \in Importer, NEW o \in PresenceRun, StartPresence(x, o)
  PROVE  PriorInv'
<1>1. PriorFilesStand /\ UNCHANGED <<synced, importLock>>
  BY DEF StartPresence, PriorFilesStand, revocationHistory
<1>2. PICK w : w = [at |-> "collect", occ |-> o]
  OBVIOUS
<1>3. w.at = "collect" /\ w.occ \in PresenceRun /\ importer' = [importer EXCEPT ![x] = w]
  BY <1>2 DEF StartPresence, GoImporter
<1> QED
  BY <1>1, <1>3, OutsideKeeps

\* Return from Apply with some report.
LEMMA ReturnPlace ==
  ASSUME PriorInv, NEW x \in Importer, importer[x].at \in Writing, NEW report, Return(x, report)
  PROVE  /\ importLock' = FreeImport /\ importLock = x
         /\ \E w : /\ w.at \in {"idle", "verify"} /\ (w.at # "idle" => w.occ \in PresenceRun)
                   /\ importer' = [importer EXCEPT ![x] = w]
<1>1. importLock = x /\ importer[x] \in ImportWork
  BY WorkerHolds
<1>2. importer[x].occ \in PresenceRun
  BY <1>1 DEF ImportWork
<1>3. PICK w : w = (IF importer[x].presence THEN [at |-> "verify", occ |-> importer[x].occ, report |-> report] ELSE IdleImporter)
  OBVIOUS
<1>4. w.at \in {"idle", "verify"} /\ (w.at # "idle" => w.occ \in PresenceRun)
  BY <1>2, <1>3 DEF IdleImporter
<1>5. importer' = [importer EXCEPT ![x] = w] /\ importLock' = FreeImport
  BY <1>3 DEF Return, GoImporter
<1> QED
  BY <1>1, <1>4, <1>5

\* A failed file operation and a process that stops leave what was written.
LEMMA FailsKeeps ==
  ASSUME PriorInv, NEW x \in Importer, Fail(x) \/ Stop(x)
  PROVE  PriorInv'
<1>1. PriorFilesStand /\ UNCHANGED synced
  BY DEF Fail, Stop, PriorFilesStand, revocationHistory
<1>2. CASE Fail(x)
  <2>1. importer[x].at \in Writing /\ Return(x, NoAudit)
    BY <1>2 DEF Fail
  <2>2. importLock' = FreeImport /\ importLock = x
    BY <2>1, ReturnPlace
  <2>3. PICK w : /\ w.at \in {"idle", "verify"} /\ (w.at # "idle" => w.occ \in PresenceRun)
                 /\ importer' = [importer EXCEPT ![x] = w]
    BY <2>1, ReturnPlace
  <2> QED
    BY <1>1, <2>2, <2>3, OutsideKeeps
<1>3. CASE Stop(x)
  <2>1. importer' = [importer EXCEPT ![x] = IdleImporter] /\ IdleImporter.at = "idle"
    BY <1>3 DEF Stop, GoImporter, IdleImporter
  <2>2. PICK w : w = IdleImporter
    OBVIOUS
  <2>3. importer' = [importer EXCEPT ![x] = w] /\ w.at = "idle"
    BY <2>1, <2>2
  <2>4. CASE importLock = x
    <3>1. importLock' = Stopped
      BY <1>3, <2>4 DEF Stop
    <3>2. importLock' \in Importer \cup {FreeImport, Stopped}
      BY <3>1
    <3>3. PriorTyped' /\ ActiveListed' /\ BarriersHold' /\ ImportsAudited'
      BY <1>1, <2>3, StandingFiles
    <3>4. ImporterFits(w)' /\ w.at \notin Writing
      BY <2>3, LeavesFits
    <3>5. ImporterAlone'
      BY <2>3, <2>4, <3>1, <3>4, ImporterAssumption DEF PriorInv, PriorTyped, ImporterAlone, Stopped, FreeImport
    <3>6. ASSUME NEW y \in Importer PROVE ImporterFits(importer[y])'
      <4>1. CASE y = x
        BY <2>3, <3>4, <4>1 DEF PriorInv, PriorTyped, ImporterFits, Writing
      <4>2. CASE y # x
        <5>1. importer'[y] = importer[y] /\ ImporterFits(importer[y]) /\ importer[y].at \notin Writing
          BY <2>3, <2>4, <4>2 DEF PriorInv, PriorTyped, ImporterAlone
        <5> QED
          BY <5>1 DEF ImporterFits
      <4> QED
        BY <4>1, <4>2
    <3> QED
      BY <3>3, <3>5, <3>6 DEF PriorInv
  <2>5. CASE importLock # x
    <3>1. importLock' = importLock
      BY <1>3, <2>5 DEF Stop
    <3> QED
      BY <1>1, <2>3, <3>1, OutsideKeeps
  <2> QED
    BY <2>4, <2>5
<1> QED
  BY <1>2, <1>3

\* The fence goes up before the first barrier.
LEMMA FenceKeeps ==
  ASSUME PriorInv, NEW x \in Importer, WriteFence(x)
  PROVE  PriorInv'
<1>1. importer[x].at = "fence" /\ importer[x].at \in Writing
  BY DEF WriteFence, Writing
<1>2. importLock = x /\ WorkFits(importer[x]) /\ importer[x] \in ImportWork
  BY <1>1, WorkerHolds
<1>3. PICK w : GoesTo(x, w, "barrier", importer[x].todo)
  BY DEF GoesTo
<1>4. /\ w \in ImportWork /\ w.at = "barrier" /\ w.todo = importer[x].todo
      /\ w.catalog = importer[x].catalog /\ w.listed = importer[x].listed
      /\ w.all = importer[x].all /\ w.before = importer[x].before
  <2>1. importer[x].todo \in SUBSET Item /\ "barrier" \in Writing
    BY <1>2 DEF Writing, ImportWork
  <2> QED
    BY <1>2, <1>3, <2>1, GoesToFacts
<1>5. importer' = [importer EXCEPT ![x] = w]
  BY <1>2, <1>3 DEF WriteFence, GoImporter, GoesTo, ImportWork
<1>6. /\ UNCHANGED <<active, catalogVersions, barriers, audits, importLock, synced, revokedAt, listedAt>>
      /\ fence' = TRUE /\ batch' = importer[x].all
  BY DEF WriteFence
<1>7. PriorTyped'
  BY <1>2, <1>5, <1>6 DEF PriorInv, PriorTyped, ImportWork
<1>8. ActiveListed' /\ BarriersHold' /\ ImportsAudited'
  BY <1>6 DEF PriorInv, ActiveListed, BarriersHold, ImportsAudited
<1>9. ImporterFits(w)'
  BY <1>1, <1>2, <1>4, <1>6 DEF ImporterFits, WorkFits, Writing
<1>10. importLock' \in Importer \cup {FreeImport, Stopped} /\ importLock' = x
  BY <1>2, <1>6
<1> QED
  BY <1>2, <1>5, <1>6, <1>7, <1>8, <1>9, <1>10, ImporterMoves

\* A barrier of a revoked item.
LEMMA WriteBarrierKeeps ==
  ASSUME PriorInv, NEW x \in Importer, NEW i \in Item, WriteBarrier(x, i)
  PROVE  PriorInv'
<1>1. importer[x].at = "barrier" /\ importer[x].at \in Writing
  BY DEF WriteBarrier, Writing
<1>2. importLock = x /\ WorkFits(importer[x]) /\ importer[x] \in ImportWork
  BY <1>1, WorkerHolds
<1>3. PICK w : GoesTo(x, w, "barrier", importer[x].todo \ {i})
  BY DEF GoesTo
<1>4. /\ w \in ImportWork /\ w.at = "barrier" /\ w.todo = importer[x].todo \ {i}
      /\ w.catalog = importer[x].catalog /\ w.listed = importer[x].listed
      /\ w.all = importer[x].all /\ w.before = importer[x].before
  <2>1. importer[x].todo \ {i} \in SUBSET Item /\ "barrier" \in Writing
    BY <1>2 DEF Writing, ImportWork
  <2> QED
    BY <1>2, <1>3, <2>1, GoesToFacts
<1>5. importer' = [importer EXCEPT ![x] = w]
  <2>1. w = [importer[x] EXCEPT !.todo = importer[x].todo \ {i}]
    BY <1>1, <1>2, <1>3 DEF GoesTo, ImportWork
  <2> QED
    BY <2>1 DEF WriteBarrier, GoImporter
<1>6. /\ UNCHANGED <<active, catalogVersions, fence, audits, importLock, synced, revokedAt, listedAt, batch>>
      /\ barriers' = [barriers EXCEPT ![i] = importer[x].catalog.sequence]
  BY DEF WriteBarrier, revocationHistory
<1>7. importer[x].catalog.sequence = active.sequence + 1 /\ active.sequence \in Nat /\ fence
  BY <1>1, <1>2, CatalogFacts DEF WorkFits
<1>8. PriorTyped'
  BY <1>5, <1>6, <1>7 DEF PriorInv, PriorTyped
<1>9. BarriersHold'
  BY <1>6, <1>7 DEF PriorInv, PriorTyped, BarriersHold
<1>10. ActiveListed' /\ ImportsAudited'
  BY <1>6 DEF PriorInv, ActiveListed, ImportsAudited
<1>11. ImporterFits(w)'
  <2>1. \A j \in w.all \ w.todo : barriers'[j] = w.catalog.sequence
    BY <1>1, <1>2, <1>4, <1>6 DEF WorkFits, ImportWork, PriorInv, PriorTyped
  <2> QED
    BY <1>1, <1>2, <1>4, <1>6, <2>1 DEF ImporterFits, WorkFits, Writing
<1>12. importLock' \in Importer \cup {FreeImport, Stopped} /\ importLock' = x
  BY <1>2, <1>6
<1> QED
  BY <1>2, <1>5, <1>6, <1>8, <1>9, <1>10, <1>11, <1>12, ImporterMoves

\* The fence goes down when every item of the batch has its barrier.
LEMMA RemoveFenceKeeps ==
  ASSUME PriorInv, NEW x \in Importer, RemoveFence(x)
  PROVE  PriorInv'
<1>1. importer[x].at = "barrier" /\ importer[x].at \in Writing /\ importer[x].todo = {}
  BY DEF RemoveFence, BarriersDone, Writing
<1>2. importLock = x /\ WorkFits(importer[x]) /\ importer[x] \in ImportWork
  BY <1>1, WorkerHolds
<1>3. PICK w : GoesTo(x, w, "publish", importer[x].todo)
  BY DEF GoesTo
<1>4. /\ w \in ImportWork /\ w.at = "publish" /\ w.todo = importer[x].todo
      /\ w.catalog = importer[x].catalog /\ w.listed = importer[x].listed
      /\ w.all = importer[x].all /\ w.before = importer[x].before
  <2>1. importer[x].todo \in SUBSET Item /\ "publish" \in Writing
    BY <1>2 DEF Writing, ImportWork
  <2> QED
    BY <1>2, <1>3, <2>1, GoesToFacts
<1>5. importer' = [importer EXCEPT ![x] = w]
  <2>1. w = [importer[x] EXCEPT !.at = "publish"]
    BY <1>2, <1>3 DEF GoesTo, ImportWork
  <2> QED
    BY <2>1 DEF RemoveFence, GoImporter
<1>6. /\ UNCHANGED <<active, catalogVersions, barriers, audits, importLock, synced, listedAt, batch>>
      /\ fence' = FALSE
      /\ revokedAt' = [i \in Item |-> IF i \in importer[x].all THEN importer[x].catalog.sequence ELSE revokedAt[i]]
  BY DEF RemoveFence
<1>7. /\ importer[x].catalog.sequence = active.sequence + 1 /\ active.sequence \in Nat
      /\ batch = importer[x].all /\ \A i \in importer[x].all : barriers[i] = active.sequence + 1
  BY <1>1, <1>2, CatalogFacts DEF WorkFits
<1>8. PriorTyped'
  BY <1>5, <1>6, <1>7 DEF PriorInv, PriorTyped
<1>9. BarriersHold'
  BY <1>6, <1>7 DEF PriorInv, PriorTyped, BarriersHold
<1>10. ActiveListed' /\ ImportsAudited'
  BY <1>6 DEF PriorInv, ActiveListed, ImportsAudited
<1>11. ImporterFits(w)'
  BY <1>1, <1>2, <1>4, <1>6 DEF ImporterFits, WorkFits, Writing
<1>12. importLock' \in Importer \cup {FreeImport, Stopped} /\ importLock' = x
  BY <1>2, <1>6
<1> QED
  BY <1>2, <1>5, <1>6, <1>8, <1>9, <1>10, <1>11, <1>12, ImporterMoves

\* A version is published before it is activated.
LEMMA PublishKeeps ==
  ASSUME PriorInv, NEW x \in Importer, PublishBundle(x)
  PROVE  PriorInv'
<1>1. importer[x].at = "publish" /\ importer[x].at \in Writing
  BY DEF PublishBundle, Writing
<1>2. importLock = x /\ WorkFits(importer[x]) /\ importer[x] \in ImportWork
  BY <1>1, WorkerHolds
<1>3. PICK w : GoesTo(x, w, "activate", importer[x].todo)
  BY DEF GoesTo
<1>4. /\ w \in ImportWork /\ w.at = "activate" /\ w.todo = importer[x].todo
      /\ w.catalog = importer[x].catalog /\ w.listed = importer[x].listed
      /\ w.all = importer[x].all /\ w.before = importer[x].before
  <2>1. importer[x].todo \in SUBSET Item /\ "activate" \in Writing
    BY <1>2 DEF Writing, ImportWork
  <2> QED
    BY <1>2, <1>3, <2>1, GoesToFacts
<1>5. importer' = [importer EXCEPT ![x] = w]
  <2>1. w = [importer[x] EXCEPT !.at = "activate"]
    BY <1>2, <1>3 DEF GoesTo, ImportWork
  <2> QED
    BY <2>1 DEF PublishBundle, GoImporter
<1>6. /\ UNCHANGED <<active, fence, barriers, audits, importLock, synced, revokedAt, listedAt, batch>>
      /\ catalogVersions' = catalogVersions \cup {importer[x].catalog}
  BY DEF PublishBundle, WithVersion, revocationHistory
<1>8. PriorTyped'
  BY <1>5, <1>6 DEF PriorInv, PriorTyped
<1>9. BarriersHold' /\ ActiveListed' /\ ImportsAudited'
  BY <1>6 DEF PriorInv, ActiveListed, ImportsAudited, BarriersHold
<1>11. ImporterFits(w)'
  BY <1>1, <1>2, <1>4, <1>6 DEF ImporterFits, WorkFits, Writing
<1>12. importLock' \in Importer \cup {FreeImport, Stopped} /\ importLock' = x
  BY <1>2, <1>6
<1> QED
  BY <1>2, <1>5, <1>6, <1>8, <1>9, <1>11, <1>12, ImporterMoves

\* Activation lists what the snapshot lists and nothing that was revoked after.
LEMMA ActivateKeeps ==
  ASSUME PriorInv, NEW x \in Importer, Activate(x)
  PROVE  PriorInv'
<1>1. importer[x].at = "activate" /\ importer[x].at \in Writing
  BY DEF Activate, Writing
<1>2. importLock = x /\ WorkFits(importer[x]) /\ importer[x] \in ImportWork
  BY <1>1, WorkerHolds
<1>3. PICK w : GoesTo(x, w, "clear", importer[x].todo)
  BY DEF GoesTo
<1>4. /\ w \in ImportWork /\ w.at = "clear" /\ w.todo = importer[x].todo
      /\ w.catalog = importer[x].catalog /\ w.listed = importer[x].listed
      /\ w.all = importer[x].all /\ w.before = importer[x].before
  <2>1. importer[x].todo \in SUBSET Item /\ "clear" \in Writing
    BY <1>2 DEF Writing, ImportWork
  <2> QED
    BY <1>2, <1>3, <2>1, GoesToFacts
<1>5. importer' = [importer EXCEPT ![x] = w]
  <2>1. w = [importer[x] EXCEPT !.at = "clear"]
    BY <1>2, <1>3 DEF GoesTo, ImportWork
  <2> QED
    BY <2>1 DEF Activate, GoImporter
<1>6. PICK catalog, listed : catalog = importer[x].catalog /\ listed = importer[x].listed
  OBVIOUS
<1>7. /\ UNCHANGED <<catalogVersions, fence, barriers, audits, importLock, synced, revokedAt>>
      /\ active' = catalog /\ batch' = batch \ listed
      /\ listedAt' = [i \in Item |-> IF i \in listed THEN catalog.sequence ELSE listedAt[i]]
  BY <1>6 DEF Activate
<1>8. /\ catalog \in Catalogs /\ listed \subseteq Item /\ listed = catalog.snapshot.items
      /\ catalog.sequence = active.sequence + 1 /\ active.sequence \in Nat
      /\ catalog.items \subseteq active.items \cup listed /\ catalog.items \subseteq Item /\ catalog \in catalogVersions
  BY <1>1, <1>2, <1>6, CatalogFacts DEF WorkFits, ImportWork, Catalogs
<1>9. PriorTyped'
  BY <1>5, <1>7, <1>8 DEF PriorInv, PriorTyped
<1>10. ActiveListed'
  BY <1>7, <1>8 DEF PriorInv, PriorTyped, ActiveListed
<1>11. ImportsAudited'
  <2>1. \A o \in PresenceRun : audits[o] # NoAudit => audits[o].catalog.sequence \in Nat
    BY ImporterAssumption DEF PriorInv, ImportsAudited, Catalogs
  <2> QED
    BY <1>7, <1>8, <2>1 DEF PriorInv, PriorTyped, ImportsAudited
<1>12. BarriersHold'
  <2>1. ASSUME NEW i \in Item
        PROVE  /\ revokedAt[i] <= active'.sequence + 1 /\ barriers[i] <= active'.sequence + 1 /\ listedAt'[i] <= active'.sequence
               /\ revokedAt[i] <= barriers[i] \/ (barriers[i] = 0 /\ revokedAt[i] < listedAt'[i])
    BY <1>7, <1>8 DEF PriorInv, PriorTyped, BarriersHold
  <2> QED
    BY <1>7, <1>8, <2>1 DEF PriorInv, PriorTyped, BarriersHold
<1>13. ImporterFits(w)'
  BY <1>1, <1>2, <1>4, <1>6, <1>7 DEF ImporterFits, WorkFits, Writing
<1>14. importLock' \in Importer \cup {FreeImport, Stopped} /\ importLock' = x
  BY <1>2, <1>7
<1> QED
  BY <1>2, <1>5, <1>7, <1>9, <1>10, <1>11, <1>12, <1>13, <1>14, ImporterMoves

\* A barrier older than the active catalog goes for an item that catalog lists.
LEMMA ClearKeeps ==
  ASSUME PriorInv, NEW x \in Importer, NEW i \in Item, ClearBarrier(x, i)
  PROVE  PriorInv'
<1>1. importer[x].at = "clear" /\ importer[x].at \in Writing
  BY DEF ClearBarrier, Writing
<1>2. importLock = x /\ WorkFits(importer[x]) /\ importer[x] \in ImportWork
  BY <1>1, WorkerHolds
<1>3. PICK w : w = importer[x]
  OBVIOUS
<1>4. importer' = [importer EXCEPT ![x] = w]
  BY <1>3 DEF ClearBarrier, PriorInv, PriorTyped
<1>5. /\ UNCHANGED <<active, catalogVersions, fence, audits, importLock, synced, revokedAt, listedAt, batch>>
      /\ barriers' = [barriers EXCEPT ![i] = 0]
  BY DEF ClearBarrier, revocationHistory
<1>6. active \in Catalogs /\ active # NoCatalog /\ active.sequence \in Nat /\ active.sequence > 0
  <2>1. active \in Catalogs /\ active.sequence > 0
    BY <1>1, <1>2, ImporterAssumption DEF WorkFits, ImportWork, Catalogs
  <2> QED
    BY <2>1, CatalogFacts
<1>7. i \in active.snapshot.items /\ barriers[i] # 0 /\ barriers[i] < active.sequence
  BY <1>1, <1>2 DEF ClearBarrier, StaleBarrier, WorkFits
<1>8. PriorTyped'
  BY <1>4, <1>5 DEF PriorInv, PriorTyped
<1>9. BarriersHold'
  <2>1. listedAt[i] = active.sequence
    BY <1>6, <1>7 DEF PriorInv, ActiveListed
  <2>2. ~fence => i \notin batch
    BY <1>6, <1>7 DEF PriorInv, BarriersHold, PriorTyped
  <2> QED
    BY <1>5, <1>6, <1>7, <2>1, <2>2 DEF PriorInv, PriorTyped, BarriersHold
<1>10. ActiveListed' /\ ImportsAudited'
  BY <1>5 DEF PriorInv, ActiveListed, ImportsAudited
<1>11. ImporterFits(w)'
  BY <1>1, <1>2, <1>3, <1>5 DEF ImporterFits, WorkFits, Writing
<1>12. importLock' \in Importer \cup {FreeImport, Stopped} /\ importLock' = x
  BY <1>2, <1>5
<1> QED
  BY <1>2, <1>4, <1>5, <1>8, <1>9, <1>10, <1>11, <1>12, ImporterMoves

\* The audit tells of the active catalog.
LEMMA AuditKeeps ==
  ASSUME PriorInv, NEW x \in Importer, WriteImportAudit(x)
  PROVE  PriorInv'
<1>1. importer[x].at = "clear" /\ importer[x].at \in Writing
  BY DEF WriteImportAudit, Writing
<1>2. importLock = x /\ WorkFits(importer[x]) /\ importer[x] \in ImportWork
  BY <1>1, WorkerHolds
<1>3. PICK report : report = [state |-> importer[x].state, catalog |-> importer[x].catalog]
  OBVIOUS
<1>4. /\ audits' = [audits EXCEPT ![importer[x].occ] = report] /\ Return(x, report)
      /\ UNCHANGED <<active, catalogVersions, fence, barriers, synced, revokedAt, listedAt, batch>>
  BY <1>3 DEF WriteImportAudit, revocationHistory
<1>5. importLock' = FreeImport
  BY <1>4 DEF Return
<1>6. PICK w : /\ w.at \in {"idle", "verify"} /\ (w.at # "idle" => w.occ \in PresenceRun)
               /\ importer' = [importer EXCEPT ![x] = w]
  BY <1>1, <1>4, ReturnPlace
<1>7. importer[x].catalog = active /\ active \in Catalogs /\ active \in catalogVersions /\ active.sequence \in Nat
  <2>1. importer[x].catalog = active /\ active \in Catalogs
    BY <1>1, <1>2 DEF WorkFits, ImportWork
  <2>2. active # NoCatalog
    BY <2>1, ImporterAssumption DEF Catalogs, NoCatalog
  <2> QED
    BY <2>1, <2>2, CatalogFacts DEF PriorInv, ActiveListed
<1>8. report # NoAudit /\ report.catalog = active
  BY <1>2, <1>3, <1>7 DEF NoAudit, ImportWork
<1>9. PriorTyped' /\ ActiveListed' /\ BarriersHold'
  BY <1>4, <1>6 DEF PriorInv, PriorTyped, ActiveListed, BarriersHold
<1>10. ImportsAudited'
  BY <1>4, <1>7, <1>8 DEF PriorInv, PriorTyped, ImportsAudited
<1>11. ImporterFits(w)' /\ w.at \notin Writing
  BY <1>6, LeavesFits
<1> QED
  BY <1>2, <1>5, <1>6, <1>9, <1>10, <1>11, ImporterMoves

\* A receipt needs the audit it reports.
LEMMA ReceiptKeeps ==
  ASSUME PriorInv, NEW x \in Importer, AppendSyncReceipt(x)
  PROVE  PriorInv'
<1>1. UNCHANGED <<active, catalogVersions, fence, barriers, audits, importLock, revokedAt, listedAt, batch>> /\ PriorFilesStand
  BY DEF AppendSyncReceipt, PriorFilesStand, revocationHistory
<1>2. PICK w : w = IdleImporter
  OBVIOUS
<1>3. importer' = [importer EXCEPT ![x] = w] /\ w.at = "idle"
  BY <1>2 DEF AppendSyncReceipt, GoImporter, IdleImporter
<1>4. importer[x].occ \in PresenceRun
  BY DEF AppendSyncReceipt, PriorInv, ImporterFits
<1>5. \A o \in synced' : o \in PresenceRun /\ audits[o] # NoAudit
  BY <1>4 DEF AppendSyncReceipt, Proven, PriorInv, PriorTyped, ImportsAudited
<1>6. PriorTyped' /\ ActiveListed' /\ BarriersHold' /\ ImportsAudited'
  BY <1>1, <1>3, <1>5 DEF PriorInv, PriorTyped, ActiveListed, BarriersHold, ImportsAudited
<1>7. ImporterFits(w)' /\ w.at \notin Writing
  BY <1>3, LeavesFits
<1>8. importLock' \in Importer \cup {FreeImport, Stopped}
  BY <1>1 DEF PriorInv, ImporterAlone
<1> QED
  BY <1>1, <1>3, <1>6, <1>7, <1>8, ImporterMoves

\* Recovery of the lock and expiry of the enrollment change no file.
LEMMA PriorBesideKeeps ==
  ASSUME PriorInv, PriorFilesStand, UNCHANGED <<importer, synced>>,
         importLock' = importLock \/ (importLock = Stopped /\ importLock' = FreeImport)
  PROVE  PriorInv'
<1>1. PriorTyped' /\ ActiveListed' /\ BarriersHold' /\ ImportsAudited'
  BY DEF PriorInv, PriorFilesStand, PriorTyped, ActiveListed, BarriersHold, ImportsAudited
<1>2. ImporterAlone'
  BY ImporterAssumption DEF PriorInv, ImporterAlone, Stopped, FreeImport
<1>3. ASSUME NEW y \in Importer PROVE ImporterFits(importer[y])'
  <2>1. ImporterFits(importer[y])
    BY DEF PriorInv
  <2> QED
    BY <2>1 DEF ImporterFits, WorkFits, PriorFilesStand
<1> QED
  BY <1>1, <1>2, <1>3 DEF PriorInv

\* Every step of import and presence run keeps the invariant.
LEMMA PriorStep == PriorInv /\ [PriorNext]_priorVars => PriorInv'
<1> SUFFICES ASSUME PriorInv, [PriorNext]_priorVars PROVE PriorInv'
  OBVIOUS
<1>1. CASE UNCHANGED priorVars \/ RecoverLock \/ Expire
  <2>1. PriorFilesStand /\ UNCHANGED <<importer, synced>> /\ (importLock' = importLock \/ (importLock = Stopped /\ importLock' = FreeImport))
    BY <1>1 DEF priorVars, RecoverLock, Expire, PriorFilesStand, revocationHistory
  <2> QED
    BY <2>1, PriorBesideKeeps
<1>2. ASSUME NEW x \in Importer, Step(x) PROVE PriorInv'
  <2>1. CASE WriteFence(x) \/ RemoveFence(x) \/ PublishBundle(x) \/ Activate(x)
    BY <2>1, FenceKeeps, RemoveFenceKeeps, PublishKeeps, ActivateKeeps
  <2>2. CASE WriteImportAudit(x) \/ AppendSyncReceipt(x) \/ Fail(x) \/ Stop(x)
    BY <2>2, AuditKeeps, ReceiptKeeps, FailsKeeps
  <2>3. ASSUME NEW o \in PresenceRun, StartPresence(x, o) PROVE PriorInv'
    BY <2>3, StartsKeeps
  <2>4. ASSUME NEW s \in Snapshot, Collect(x, s) \/ \E o \in PresenceRun : Import(x, o, s) PROVE PriorInv'
    BY <2>4, ImportBeginsKeeps
  <2>5. ASSUME NEW i \in Item, WriteBarrier(x, i) \/ ClearBarrier(x, i) PROVE PriorInv'
    BY <2>5, WriteBarrierKeeps, ClearKeeps
  <2> QED
    BY <1>2, <2>1, <2>2, <2>3, <2>4, <2>5 DEF Step
<1> QED
  BY <1>1, <1>2 DEF PriorNext

\* The invariant holds at first.
LEMMA PriorStarts == PriorInit => PriorInv
<1> SUFFICES ASSUME PriorInit PROVE PriorInv
  OBVIOUS
<1>1. PriorTyped
  BY DEF PriorInit, PriorTyped
<1>2. ImporterAlone /\ \A x \in Importer : ImporterFits(importer[x])
  BY DEF PriorInit, ImporterAlone, ImporterFits, IdleImporter, Writing
<1>3. active.items = {} /\ active.sequence = 0 /\ active = NoCatalog
  BY DEF PriorInit, NoCatalog
<1>4. ActiveListed /\ BarriersHold /\ ImportsAudited
  BY <1>3 DEF PriorInit, ActiveListed, BarriersHold, ImportsAudited
<1> QED
  BY <1>1, <1>2, <1>4 DEF PriorInv

\* The invariant gives both parts of the property.
LEMMA SoundFromPriorInv == PriorInv => PriorWorkSound
<1> SUFFICES ASSUME PriorInv PROVE PriorWorkSound
  OBVIOUS
<1>1. RevocationSticks
  <2> SUFFICES ASSUME NEW i \in FindResults PROVE listedAt[i] > revokedAt[i] /\ i \notin batch
    BY DEF RevocationSticks
  <2>1. i \in active.items /\ i \in Item /\ barriers[i] = 0 /\ ~fence
    BY CatalogFacts DEF FindResults
  <2>2. listedAt[i] > 0 /\ listedAt[i] \in Nat /\ revokedAt[i] \in Nat
    BY <2>1 DEF PriorInv, PriorTyped, ActiveListed
  <2> QED
    BY <2>1, <2>2 DEF PriorInv, BarriersHold
<1>2. SyncedIsPublished
  BY DEF PriorInv, PriorTyped, ImportsAudited, SyncedIsPublished
<1> QED
  BY <1>1, <1>2 DEF PriorWorkSound

\* For any importers, items, snapshots and faults, what Find returns was listed after it
\* was last revoked, and an occurrence recorded as synchronised has an audited
\* publication that no older one has replaced (Apply, RunPresence).
THEOREM PriorWorkIsSound == PriorSpec => []PriorWorkSound
  BY PriorStarts, PriorStep, SoundFromPriorInv, PTL DEF PriorSpec


-----------------------------------------------------------------------------
(***************************************************************************)
(* PromptHistory.  The config may fall back to the default behind the lock *)
(* holder's back, so the holder's call is tied to the entries and not to   *)
(* the config: AppendStands for a prompt that is bound but not yet stored, *)
(* StoreStands for a configuration whose entries are already cut.          *)
(***************************************************************************)
\* What the files and the calls may hold.
StoredEntry == [owner : Owner, occurrence : PromptNumber, recorded : Nat, size : Size]
PromptConfig == [owner : Owner \cup {NoOwner}, max : Nat]
PromptCall ==
  {PromptIdle}
    \cup [at : {"default", "lock"} \cup Calls, call : Calls]
    \cup [at : {"append"}, entry : StoredEntry, max : Nat]
    \cup [at : {"store"}, config : PromptConfig]
AtStore == {"record", "configure", "delete", "reset", "read", "append", "store"}

PromptTyped ==
  /\ entries \subseteq StoredEntry /\ config \in PromptConfig /\ clock \in Nat
  /\ writer \in [PromptWriter -> PromptCall]

\* One process at most is at the files, and has the lock file made.
OneAtStore ==
  /\ \A w \in PromptWriter : writer[w].at \in AtStore => promptLock = "held"
  /\ \A v, w \in PromptWriter : writer[v].at \in AtStore /\ writer[w].at \in AtStore => v = w

\* What a process carries agrees with the entries.
AppendStands(w) ==
  writer[w].at = "append" =>
    /\ \A f \in entries : f.owner = writer[w].entry.owner
    /\ config.owner \in {NoOwner, writer[w].entry.owner}
StoreStands(w) ==
  writer[w].at = "store" /\ writer[w].config.owner # NoOwner =>
    \A f \in entries : f.owner = writer[w].config.owner

PromptInv ==
  /\ PromptTyped /\ OneAtStore /\ SoleOwnerHistory
  /\ \A w \in PromptWriter : AppendStands(w) /\ StoreStands(w)

\* Whatever fits, what is retained was there before (retainPromptHistory).
LEMMA RetainKeeps == ASSUME NEW set, NEW max PROVE Retain(set, max) \subseteq set
  BY DEF Retain

\* The owner of the entries is the owner of each of them.
LEMMA EntryOwnerIs ==
  ASSUME PromptInv, entries # {}
  PROVE  EntryOwner \in Owner /\ \A e \in entries : e.owner = EntryOwner
  BY DEF PromptInv, PromptTyped, StoredEntry, SoleOwnerHistory, EntryOwner

\* A process that holds no lock leaves the entries alone and may write the default
\* config (ensurePromptHistoryStore).
LEMMA PromptOutsideKeeps ==
  ASSUME PromptInv, NEW w \in PromptWriter, NEW x \in PromptCall, x.at \notin AtStore,
         writer' = [writer EXCEPT ![w] = x], UNCHANGED entries, clock' \in Nat,
         config' \in {config, DefaultPromptHistoryConfig},
         promptLock' = promptLock \/ writer[w].at \in AtStore
  PROVE  PromptInv'
<1>1. config' \in PromptConfig /\ config'.owner \in {config.owner, NoOwner}
  BY PromptAssumption DEF PromptInv, PromptTyped, DefaultPromptHistoryConfig, PromptConfig
<1>2. writer' \in [PromptWriter -> PromptCall] /\ \A v \in PromptWriter : writer'[v] = IF v = w THEN x ELSE writer[v]
  BY DEF PromptInv, PromptTyped
<1>3. PromptTyped' /\ SoleOwnerHistory'
  BY <1>1, <1>2 DEF PromptInv, PromptTyped, SoleOwnerHistory
<1>4. OneAtStore'
  BY <1>2 DEF PromptInv, OneAtStore
<1>5. ASSUME NEW v \in PromptWriter PROVE AppendStands(v)' /\ StoreStands(v)'
  BY <1>1, <1>2 DEF PromptInv, AppendStands, StoreStands, AtStore
<1> QED
  BY <1>3, <1>4, <1>5 DEF PromptInv

\* The holder of the lock may drop entries and leave, if what it stores fits.
LEMMA HolderKeeps ==
  ASSUME PromptInv, NEW w \in PromptWriter, writer[w].at \in AtStore, NEW x \in PromptCall,
         writer' = [writer EXCEPT ![w] = x], clock' = clock,
         x.at \in AtStore => promptLock' = "held",
         entries' \subseteq StoredEntry, config' \in PromptConfig,
         SoleOwnerHistory', AppendStands(w)', StoreStands(w)'
  PROVE  PromptInv'
<1>1. writer' \in [PromptWriter -> PromptCall] /\ \A v \in PromptWriter : writer'[v] = IF v = w THEN x ELSE writer[v]
  BY DEF PromptInv, PromptTyped
<1>2. \A v \in PromptWriter : v # w => writer[v].at \notin AtStore
  BY DEF PromptInv, OneAtStore
<1>3. PromptTyped' /\ OneAtStore'
  BY <1>1, <1>2 DEF PromptInv, PromptTyped, OneAtStore
<1>4. ASSUME NEW v \in PromptWriter, v # w PROVE AppendStands(v)' /\ StoreStands(v)'
  BY <1>1, <1>2, <1>4 DEF AppendStands, StoreStands, AtStore
<1> QED
  BY <1>3, <1>4 DEF PromptInv

\* The binding is stored before the entry (RecordUserPrompt).
LEMMA BindOwnerKeeps ==
  ASSUME PromptInv, NEW w \in PromptWriter, NEW e \in Entry, BindOwner(w, e)
  PROVE  PromptInv'
<1> DEFINE x == [at |-> "append", entry |-> e, max |-> config.max]
<1>1. e \in StoredEntry /\ config \in PromptConfig /\ entries \subseteq StoredEntry
  BY DEF PromptInv, PromptTyped, Entry, StoredEntry
<1>2. x \in PromptCall /\ x.at = "append" /\ x.entry = e
  BY <1>1 DEF PromptCall, PromptConfig
<1>3. /\ writer[w].at \in AtStore /\ promptLock = "held"
      /\ UNCHANGED <<entries, promptLock, clock>> /\ writer' = [writer EXCEPT ![w] = x]
  BY DEF BindOwner, AtStore, PromptInv, OneAtStore
<1>4. writer'[w] = x
  BY <1>3 DEF PromptInv, PromptTyped
<1>5. /\ \A f \in entries : f.owner = e.owner
      /\ config' \in PromptConfig /\ config'.owner \in {NoOwner, e.owner}
  <2>1. CASE config.owner # NoOwner
    BY <1>1, <2>1 DEF BindOwner, BoundOwner, PromptInv, SoleOwnerHistory, PromptConfig
  <2>2. CASE config.owner = NoOwner /\ entries # {}
    <3>1. EntryOwner \in Owner /\ \A f \in entries : f.owner = EntryOwner
      BY <2>2, EntryOwnerIs
    <3>2. BoundOwner = EntryOwner /\ EntryOwner # NoOwner
      BY <2>2, <3>1, PromptAssumption DEF BoundOwner
    <3> QED
      BY <1>1, <2>2, <3>1, <3>2 DEF BindOwner
  <2>3. CASE config.owner = NoOwner /\ entries = {}
    <3>1. config' = [config EXCEPT !.owner = e.owner]
      BY <2>3 DEF BindOwner, BoundOwner
    <3> QED
      BY <1>1, <2>3, <3>1 DEF PromptConfig, StoredEntry
  <2> QED
    BY <2>1, <2>2, <2>3
<1>6. SoleOwnerHistory' /\ AppendStands(w)' /\ StoreStands(w)'
  BY <1>2, <1>3, <1>4, <1>5 DEF PromptInv, SoleOwnerHistory, AppendStands, StoreStands
<1> HIDE DEF x
<1> QED
  BY <1>1, <1>2, <1>3, <1>5, <1>6, HolderKeeps

\* The entry is stored, if it is new and fits, with what else is retained
\* (RecordUserPrompt).
LEMMA AppendEntryKeeps ==
  ASSUME PromptInv, NEW w \in PromptWriter, AppendPrompt(w)
  PROVE  PromptInv'
<1> DEFINE e == writer[w].entry
<1>1. e \in StoredEntry /\ config \in PromptConfig /\ entries \subseteq StoredEntry
  BY DEF PromptInv, PromptTyped, AppendPrompt, PromptCall, PromptIdle, Calls
<1>2. /\ entries' \subseteq entries \cup {e}
      /\ e \in entries' /\ e \notin entries => Known(e) = {}
  <2>1. Retain(entries \cup {e}, writer[w].max) \subseteq entries \cup {e}
    BY RetainKeeps
  <2> QED
    BY <2>1 DEF AppendPrompt
<1>3. /\ \A f \in entries : f.owner = e.owner
      /\ config.owner \in {NoOwner, e.owner}
  BY DEF PromptInv, AppendStands, AppendPrompt
<1>4. SoleOwnerHistory'
  <2>1. config' = config
    BY DEF AppendPrompt
  <2>2. e \in entries' /\ e \notin entries => \A f \in entries : f.occurrence # e.occurrence
    BY <1>2 DEF Known
  <2>3. \A f, g \in entries : f.owner = g.owner /\ (f.occurrence = g.occurrence => f = g)
    BY DEF PromptInv, SoleOwnerHistory
  <2> HIDE DEF e
  <2>4. \A f, g \in entries' : f.owner = g.owner /\ (f.occurrence = g.occurrence => f = g)
    BY <1>2, <1>3, <2>2, <2>3
  <2>5. config'.owner # NoOwner => \A f \in entries' : f.owner = config'.owner
    BY <1>2, <1>3, <2>1
  <2> QED
    BY <2>4, <2>5 DEF SoleOwnerHistory
<1>5. /\ writer[w].at \in AtStore /\ writer' = [writer EXCEPT ![w] = PromptIdle] /\ clock' = clock /\ config' = config
  BY DEF AppendPrompt, AtStore, LetGo
<1>6. writer'[w] = PromptIdle /\ PromptIdle \in PromptCall /\ PromptIdle.at \notin AtStore
  BY <1>5 DEF PromptInv, PromptTyped, PromptCall, PromptIdle, AtStore
<1>7. AppendStands(w)' /\ StoreStands(w)'
  BY <1>6 DEF AppendStands, StoreStands, PromptIdle
<1> QED
  BY <1>1, <1>2, <1>4, <1>5, <1>6, <1>7, HolderKeeps

\* The owner a configuration will bind is that of all entries (ConfigurePromptHistory).
LEMMA CutEntriesKeeps ==
  ASSUME PromptInv, NEW w \in PromptWriter, NEW owner \in Owner \cup {NoOwner}, NEW max \in EntriesChoice,
         CutEntries(w, owner, max)
  PROVE  PromptInv'
<1> DEFINE x == [at |-> "store", config |-> Configured(owner, max)]
<1>1. entries' \subseteq entries /\ entries \subseteq StoredEntry /\ config \in PromptConfig
  BY RetainKeeps DEF CutEntries, PromptInv, PromptTyped
<1>2. /\ BoundOwner \in Owner \cup {NoOwner}
      /\ BoundOwner = NoOwner => entries = {}
      /\ \A f \in entries : f.owner = BoundOwner
  <2>1. CASE config.owner # NoOwner
    BY <1>1, <2>1 DEF BoundOwner, PromptInv, SoleOwnerHistory, PromptConfig
  <2>2. CASE config.owner = NoOwner /\ entries # {}
    BY <2>2, EntryOwnerIs, PromptAssumption DEF BoundOwner
  <2>3. CASE config.owner = NoOwner /\ entries = {}
    BY <2>3 DEF BoundOwner
  <2> QED
    BY <2>1, <2>2, <2>3
<1>3. /\ Configured(owner, max) \in PromptConfig
      /\ \A f \in entries' : f.owner = Configured(owner, max).owner
  BY <1>1, <1>2, PromptAssumption DEF Configured, PromptConfig
<1>4. x \in PromptCall /\ x.at = "store" /\ x.config = Configured(owner, max)
  BY <1>3 DEF PromptCall
<1>5. /\ writer[w].at \in AtStore /\ promptLock = "held" /\ UNCHANGED <<config, promptLock, clock>>
      /\ writer' = [writer EXCEPT ![w] = x]
  BY DEF CutEntries, AtStore, PromptInv, OneAtStore
<1>6. writer'[w] = x
  BY <1>5 DEF PromptInv, PromptTyped
<1>7. SoleOwnerHistory' /\ AppendStands(w)' /\ StoreStands(w)'
  BY <1>1, <1>3, <1>4, <1>5, <1>6 DEF PromptInv, SoleOwnerHistory, AppendStands, StoreStands
<1> HIDE DEF x
<1> QED
  BY <1>1, <1>4, <1>5, <1>7, HolderKeeps

\* The holder of the lock lets go with fewer entries, or with its config.
LEMMA LeavesKeeps ==
  ASSUME PromptInv, NEW w \in PromptWriter, writer[w].at \in AtStore, entries' \subseteq entries,
         writer' = [writer EXCEPT ![w] = PromptIdle], clock' = clock,
         config' = config \/ (writer[w].at = "store" /\ config' = writer[w].config)
  PROVE  PromptInv'
<1>1. writer'[w] = PromptIdle /\ PromptIdle \in PromptCall /\ PromptIdle.at \notin AtStore
  BY DEF PromptInv, PromptTyped, PromptCall, PromptIdle, AtStore
<1>2. config' \in PromptConfig /\ config \in PromptConfig
  BY DEF PromptInv, PromptTyped, PromptCall, PromptIdle, Calls
<1>3. SoleOwnerHistory'
  BY DEF PromptInv, SoleOwnerHistory, StoreStands
<1>4. AppendStands(w)' /\ StoreStands(w)'
  BY <1>1 DEF AppendStands, StoreStands, PromptIdle
<1>5. entries' \subseteq StoredEntry
  BY DEF PromptInv, PromptTyped
<1> QED
  BY <1>1, <1>2, <1>3, <1>4, <1>5, HolderKeeps

\* Who takes the lock is alone at the files (acquirePromptHistoryLock).
LEMMA AcquireKeeps ==
  ASSUME PromptInv, NEW w \in PromptWriter, Acquire(w)
  PROVE  PromptInv'
<1> DEFINE x == [writer[w] EXCEPT !.at = writer[w].call]
<1>1. writer[w] \in [at : {"default", "lock"} \cup Calls, call : Calls]
  BY DEF PromptInv, PromptTyped, PromptCall, PromptIdle, Acquire
<1>2. x \in PromptCall /\ x.at \in Calls
  BY <1>1 DEF PromptCall
<1>3. writer' = [writer EXCEPT ![w] = x] /\ UNCHANGED <<entries, config, clock>> /\ promptLock = "free" /\ promptLock' = "held"
  BY DEF Acquire
<1> HIDE DEF x
<1>4. writer' \in [PromptWriter -> PromptCall] /\ \A v \in PromptWriter : writer'[v] = IF v = w THEN x ELSE writer[v]
  BY <1>2, <1>3 DEF PromptInv, PromptTyped
<1>5. \A v \in PromptWriter : writer[v].at \notin AtStore
  BY <1>3 DEF PromptInv, OneAtStore
<1>6. PromptTyped' /\ SoleOwnerHistory' /\ OneAtStore'
  BY <1>3, <1>4, <1>5 DEF PromptInv, PromptTyped, SoleOwnerHistory, OneAtStore
<1>7. ASSUME NEW v \in PromptWriter PROVE AppendStands(v)' /\ StoreStands(v)'
  BY <1>2, <1>3, <1>4, <1>5 DEF AppendStands, StoreStands, AtStore, Calls
<1> QED
  BY <1>6, <1>7 DEF PromptInv

\* Every step keeps the invariant of the history (RecordUserPrompt,
\* ConfigurePromptHistory).
LEMMA PromptStep == PromptInv /\ [PromptNext]_promptVars => PromptInv'
<1> SUFFICES ASSUME PromptInv, [PromptNext]_promptVars PROVE PromptInv'
  OBVIOUS
<1>1. CASE TimePasses \/ UNCHANGED promptVars
  <2>1. UNCHANGED <<entries, config, promptLock, writer>> /\ clock' \in Nat
    BY <1>1 DEF TimePasses, promptVars, PromptInv, PromptTyped
  <2> QED
    BY <2>1 DEF PromptInv, PromptTyped, OneAtStore, SoleOwnerHistory, AppendStands, StoreStands
<1>2. ASSUME NEW w \in PromptWriter, NEW call \in Calls, EnsureStore(w, call) PROVE PromptInv'
  <2> DEFINE x == [at |-> IF config = EmptyFile THEN "default" ELSE "lock", call |-> call]
  <2>1. x \in PromptCall /\ x.at \notin AtStore
    BY DEF PromptCall, AtStore
  <2>2. writer' = [writer EXCEPT ![w] = x] /\ UNCHANGED <<entries, config, promptLock, clock>> /\ clock \in Nat
    BY <1>2 DEF EnsureStore, PromptInv, PromptTyped
  <2> HIDE DEF x
  <2> QED
    BY <2>1, <2>2, PromptOutsideKeeps
<1>3. ASSUME NEW w \in PromptWriter, WriteDefault(w) PROVE PromptInv'
  <2> DEFINE x == [writer[w] EXCEPT !.at = "lock"]
  <2>0. writer[w] \in [at : {"default", "lock"} \cup Calls, call : Calls]
    BY <1>3 DEF PromptInv, PromptTyped, PromptCall, PromptIdle, WriteDefault
  <2>1. x \in PromptCall /\ x.at \notin AtStore
    BY <2>0 DEF PromptCall, AtStore
  <2>2. /\ writer' = [writer EXCEPT ![w] = x] /\ UNCHANGED <<entries, promptLock, clock>> /\ clock \in Nat
        /\ config' = DefaultPromptHistoryConfig
    BY <1>3 DEF WriteDefault, PromptInv, PromptTyped
  <2> HIDE DEF x
  <2> QED
    BY <2>1, <2>2, PromptOutsideKeeps
<1>4. ASSUME NEW w \in PromptWriter, LockTimesOut(w) \/ ReadStore(w) \/ PromptWriterStops(w) PROVE PromptInv'
  <2>1. PromptIdle \in PromptCall /\ PromptIdle.at \notin AtStore
    BY DEF PromptCall, PromptIdle, AtStore
  <2>2. /\ writer' = [writer EXCEPT ![w] = PromptIdle] /\ UNCHANGED <<entries, config, clock>> /\ clock \in Nat
        /\ promptLock' = promptLock \/ writer[w].at \in AtStore
    BY <1>4 DEF LockTimesOut, ReadStore, PromptWriterStops, PromptInv, PromptTyped, PromptCall, PromptIdle, AtStore, Calls
  <2> QED
    BY <2>1, <2>2, PromptOutsideKeeps
<1>5. ASSUME NEW w \in PromptWriter,
             \/ Refused(w) \/ StoreConfig(w) \/ ResetPromptHistory(w)
             \/ \E e \in entries : DeletePromptHistory(w, e)
      PROVE  PromptInv'
  BY <1>5, LeavesKeeps DEF Refused, StoreConfig, ResetPromptHistory, DeletePromptHistory, LetGo, AtStore
<1> QED
  BY <1>1, <1>2, <1>3, <1>4, <1>5, AcquireKeeps, BindOwnerKeeps, AppendEntryKeeps, CutEntriesKeeps DEF PromptNext

\* For any writers, owners, prompts, budgets and crashes, the history has one owner,
\* although the default config may be written over a binding (RecordUserPrompt).
THEOREM SoleOwnerKept == PromptSpec => []SoleOwnerHistory
<1>1. PromptInit => PromptInv
  BY PromptAssumption DEF PromptInit, PromptInv, PromptTyped, PromptConfig, EmptyFile, PromptCall, PromptIdle, OneAtStore, AtStore,
     SoleOwnerHistory, AppendStands, StoreStands
<1>2. PromptInv => SoleOwnerHistory
  BY DEF PromptInv
<1> QED
  BY <1>1, <1>2, PromptStep, PTL DEF PromptSpec


-----------------------------------------------------------------------------
(***************************************************************************)
(* Owner context: whatever processes do with the facets, the refinements   *)
(* and the interview, an interrupted interview leaves at most one draft    *)
(* and that draft can be taken up.                                         *)
(***************************************************************************)
\* What the files hold, and where a process can be.
ProposalFile == [facet : Facet, source : Body, body : Text, state : {"proposed", "applied"}]
DraftFile == [state : {"drafted"}] \cup [state : {"prepared", "applied"}, ref : RefinementProposal]
Drafted == [state |-> "drafted"]
Prepared(p) == [state |-> "prepared", ref |-> p]
Todo == {<<"version", "audit", "self", "audited", "applied">>, <<"audit", "self", "audited", "applied">>,
         <<"self", "audited", "applied">>, <<"audited", "applied">>, <<"applied">>}
Place ==
  {ActorIdle}
    \cup [at : {"apply"}, ref : RefinementProposal, draft : Draft \cup {Unset}]
    \cup [at : {"write"}, ref : RefinementProposal, draft : Draft \cup {Unset}, todo : Todo]
    \cup [at : {"write"}, ref : RefinementProposal, draft : Draft \cup {Unset}, before : Body, todo : Todo]
    \cup [at : {"submit"}, draft : Draft]
    \cup [at : {"prepare", "resume", "confirm", "close"}, ref : RefinementProposal, draft : Draft]
    \cup [at : {"restore", "restored"}, ref : RefinementProposal]

OwnerTyped ==
  /\ self \in [Facet -> Body]
  /\ proposals \in [RefinementProposal -> {Unset} \cup ProposalFile]
  /\ facetVersions \in [RefinementProposal -> {Unset} \cup Body]
  /\ refinementAudits \in [RefinementProposal -> {Unset} \cup [state : {"prepared", "applied"}]]
  /\ expansionDrafts \in [Draft -> {Unset} \cup DraftFile]
  /\ draftLock \in Actor \cup {NoActor} /\ actor \in [Actor -> Place]

\* The refinement p of the draft d can be applied, unless somebody else changed the
\* facet: it is unchanged, or replaced under an audit.
Resumable(d, p) ==
  /\ proposals[p] # Unset /\ proposals[p].facet = d.facet
  /\ p \notin touched =>
       \/ self[d.facet] = proposals[p].source
       \/ self[d.facet] = proposals[p].body /\ refinementAudits[p] # Unset

\* Versions are written before audits, audits before the facet.
AuditsFit == \A p \in RefinementProposal : refinementAudits[p] # Unset => facetVersions[p] \in Body /\ proposals[p] # Unset
WriteFits(w) ==
  /\ Head(w.todo) = "version" => w.before \in Body
  /\ Head(w.todo) = "audit" => facetVersions[w.ref] \in Body
  /\ Head(w.todo) \in {"self", "audited", "applied"} => refinementAudits[w.ref] # Unset

\* A confirmation under way holds the lock and knows the state of its draft.
Answering(w) == w.at \in {"resume", "confirm", "close"} \/ (w.at \in {"apply", "write"} /\ w.draft # Unset)
ActorFits(x) ==
  /\ actor[x].at \in {"apply", "write", "prepare", "resume", "confirm", "close"} => proposals[actor[x].ref] # Unset
  /\ actor[x].at = "write" => WriteFits(actor[x])
  /\ actor[x].at = "restore" => refinementAudits[actor[x].ref] # Unset
  /\ actor[x].at \in {"submit", "prepare"} => draftLock = x /\ expansionDrafts[actor[x].draft] = Drafted
  /\ Answering(actor[x]) => draftLock = x /\ expansionDrafts[actor[x].draft] = Prepared(actor[x].ref)
  /\ actor[x].at = "prepare" => Resumable(actor[x].draft, actor[x].ref)

OpenDraft(d) == expansionDrafts[d] # Unset /\ expansionDrafts[d].state # "applied"
OneOpen == \A d, e \in Draft : OpenDraft(d) /\ OpenDraft(e) => d = e
PreparedFit == \A d \in Draft : expansionDrafts[d] # Unset /\ expansionDrafts[d].state = "prepared" => Resumable(d, expansionDrafts[d].ref)

OwnerInv == OwnerTyped /\ AuditsFit /\ OneOpen /\ PreparedFit /\ \A x \in Actor : ActorFits(x)

-----------------------------------------------------------------------------
\* The files that are only added to, and what can be resumed stays so.
FilesKept ==
  \A p \in RefinementProposal :
    /\ proposals[p] # Unset => /\ proposals'[p] # Unset /\ proposals'[p].facet = proposals[p].facet
                               /\ proposals'[p].source = proposals[p].source /\ proposals'[p].body = proposals[p].body
    /\ refinementAudits[p] # Unset => refinementAudits'[p] # Unset
    /\ facetVersions[p] \in Body => facetVersions'[p] \in Body
ResumableKept == \A d \in Draft, p \in RefinementProposal : Resumable(d, p) => Resumable(d, p)'

\* What is written on a facet is remembered, or is what the refinement says.
LEMMA ResumableStays ==
  ASSUME OwnerInv, FilesKept,
         \/ UNCHANGED <<self, touched>>
         \/ \E f \in Facet, b \in Body, by \in SUBSET RefinementProposal :
              /\ WriteFacet(f, b, by)
              /\ \A p \in by : proposals[p] # Unset => f = proposals[p].facet /\ b = proposals[p].body /\ refinementAudits[p] # Unset
  PROVE  ResumableKept
<1> SUFFICES ASSUME NEW d \in Draft, NEW p \in RefinementProposal, Resumable(d, p) PROVE Resumable(d, p)'
  BY DEF ResumableKept
<1>1. /\ proposals[p] # Unset /\ proposals[p].facet = d.facet
      /\ proposals'[p] # Unset /\ proposals'[p].facet = d.facet
      /\ proposals'[p].source = proposals[p].source /\ proposals'[p].body = proposals[p].body
      /\ refinementAudits[p] # Unset => refinementAudits'[p] # Unset
  BY DEF Resumable, FilesKept
<1>2. CASE UNCHANGED <<self, touched>>
  BY <1>1, <1>2 DEF Resumable
<1>3. ASSUME NEW f \in Facet, NEW b \in Body, NEW by \in SUBSET RefinementProposal, WriteFacet(f, b, by),
             \A q \in by : proposals[q] # Unset => f = proposals[q].facet /\ b = proposals[q].body /\ refinementAudits[q] # Unset
      PROVE  Resumable(d, p)'
  <2>1. /\ touched \subseteq touched'
        /\ d.facet = f /\ p \notin by => p \in touched'
        /\ d.facet = f => self'[d.facet] = b
        /\ d.facet # f => self'[d.facet] = self[d.facet]
    BY <1>1, <1>3 DEF WriteFacet, OwnerInv, OwnerTyped, Draft
  <2> QED
    BY <1>1, <1>3, <2>1 DEF Resumable
<1> QED
  BY <1>2, <1>3

\* Nobody is moved by what another process does.
LEMMA OthersFit ==
  ASSUME OwnerInv, FilesKept, ResumableKept, NEW y \in Actor, actor'[y] = actor[y],
         draftLock = y => draftLock' = y /\ expansionDrafts' = expansionDrafts
  PROVE  ActorFits(y)'
<1> DEFINE w == actor[y]
<1>1. w \in Place /\ ActorFits(y)
  BY DEF OwnerInv, OwnerTyped
<1>2. /\ w.at \in {"apply", "write", "prepare", "resume", "confirm", "close", "restore"} => w.ref \in RefinementProposal
      /\ w.at \in {"prepare"} => w.draft \in Draft
  BY <1>1 DEF Place, ActorIdle
<1>3. w.at = "write" => WriteFits(w)'
  BY <1>1, <1>2 DEF ActorFits, WriteFits, FilesKept
<1>4. /\ w.at \in {"apply", "write", "prepare", "resume", "confirm", "close"} => proposals'[w.ref] # Unset
      /\ w.at = "restore" => refinementAudits'[w.ref] # Unset
      /\ w.at = "prepare" => Resumable(w.draft, w.ref)'
  BY <1>1, <1>2 DEF ActorFits, FilesKept, ResumableKept
<1>5. /\ w.at \in {"submit", "prepare"} => draftLock' = y /\ expansionDrafts'[w.draft] = Drafted
      /\ Answering(w) => draftLock' = y /\ expansionDrafts'[w.draft] = Prepared(w.ref)
  BY <1>1 DEF ActorFits
<1> QED
  BY <1>3, <1>4, <1>5 DEF ActorFits, Answering, WriteFits

\* One process, or none, does a step.
LEMMA OneActs ==
  ASSUME OwnerInv, OwnerTyped', AuditsFit', FilesKept, ResumableKept,
         NEW x \in Actor \cup {NoActor}, \A y \in Actor \ {x} : actor'[y] = actor[y],
         x \in Actor => ActorFits(x)',
         draftLock' = draftLock \/ draftLock \in {x, NoActor},
         \/ expansionDrafts' = expansionDrafts
         \/ draftLock \in {x, NoActor} /\ OneOpen' /\ PreparedFit'
  PROVE  OwnerInv'
<1>1. ASSUME NEW y \in Actor \ {x} PROVE ActorFits(y)'
  BY <1>1, OthersFit, ActorAssumption
<1>2. ASSUME expansionDrafts' = expansionDrafts PROVE OneOpen' /\ PreparedFit'
  <2>1. \A d \in Draft : expansionDrafts[d] # Unset /\ expansionDrafts[d].state = "prepared" => expansionDrafts[d].ref \in RefinementProposal
    BY DEF OwnerInv, OwnerTyped, DraftFile
  <2> QED
    BY <1>2, <2>1 DEF OwnerInv, OneOpen, OpenDraft, PreparedFit, ResumableKept
<1> QED
  BY <1>1, <1>2 DEF OwnerInv

\* The writes that are left after the first of them.
LEMMA TodoSteps ==
  ASSUME NEW t \in Todo
  PROVE  /\ Head(t) \in {"version", "audit", "self", "audited", "applied"}
         /\ Len(t) > 1 => Tail(t) \in Todo
         /\ Len(t) > 1 => /\ Head(t) = "version" => Head(Tail(t)) = "audit"
                          /\ Head(t) \in {"audit", "self", "audited"} => Head(Tail(t)) \in {"self", "audited", "applied"}
         /\ Len(t) > 1 <=> Head(t) # "applied"
<1>1. CASE t = <<"version", "audit", "self", "audited", "applied">>
  <2>1. Tail(t) = <<"audit", "self", "audited", "applied">>
    BY <1>1
  <2> QED
    BY <1>1, <2>1 DEF Todo
<1>2. CASE t = <<"audit", "self", "audited", "applied">>
  <2>1. Tail(t) = <<"self", "audited", "applied">>
    BY <1>2
  <2> QED
    BY <1>2, <2>1 DEF Todo
<1>3. CASE t = <<"self", "audited", "applied">>
  <2>1. Tail(t) = <<"audited", "applied">>
    BY <1>3
  <2> QED
    BY <1>3, <2>1 DEF Todo
<1>4. CASE t = <<"audited", "applied">>
  <2>1. Tail(t) = <<"applied">>
    BY <1>4
  <2> QED
    BY <1>4, <2>1 DEF Todo
<1>5. CASE t = <<"applied">>
  BY <1>5
<1> QED
  BY <1>1, <1>2, <1>3, <1>4, <1>5 DEF Todo

\* What no file holds is neither a draft nor a proposal.
LEMMA NoDraft == Unset \notin Draft /\ Unset \notin ProposalFile /\ Unset \notin DraftFile
  BY DEF Unset, Draft, ProposalFile, DraftFile

\* Steps of which only the facets are told.
LEMMA FacetStepKeeps ==
  ASSUME OwnerInv, UNCHANGED <<proposals, facetVersions, refinementAudits, expansionDrafts, draftLock, actor>>,
         UNCHANGED <<self, touched>> \/ \E f \in Facet, b \in Body : WriteFacet(f, b, {})
  PROVE  OwnerInv'
<1>1. FilesKept
  BY DEF FilesKept
<1>2. ResumableKept
  BY <1>1, ResumableStays
<1>3. OwnerTyped' /\ AuditsFit'
  BY DEF OwnerInv, OwnerTyped, AuditsFit, WriteFacet
<1> QED
  BY <1>1, <1>2, <1>3, OneActs, ActorAssumption

\* A draft is drafted while no other is open.
LEMMA DraftExpansionKeeps ==
  ASSUME OwnerInv, NEW f \in Facet, NEW b \in Text, DraftExpansion(f, b)
  PROVE  OwnerInv'
<1> DEFINE d == [facet |-> f, base |-> self[f], body |-> b]
<1>1. FilesKept
  BY DEF FilesKept, DraftExpansion
<1>2. ResumableKept
  BY <1>1, ResumableStays DEF DraftExpansion
<1>3. d \in Draft /\ expansionDrafts' = [expansionDrafts EXCEPT ![d] = Drafted] /\ draftLock = NoActor
  BY DEF OwnerInv, OwnerTyped, Draft, DraftExpansion, Drafted
<1> HIDE DEF d
<1>4. \A e \in Draft : ~OpenDraft(e)
  BY DEF DraftExpansion, DraftsUnderReview, OpenDraft, OwnerInv, OwnerTyped, DraftFile
<1>5. \A e \in Draft : expansionDrafts'[e] = IF e = d THEN Drafted ELSE expansionDrafts[e]
  BY <1>3 DEF OwnerInv, OwnerTyped
<1>6. OwnerTyped' /\ AuditsFit'
  <2>1. expansionDrafts' \in [Draft -> {Unset} \cup DraftFile]
    BY <1>3 DEF OwnerInv, OwnerTyped, DraftFile, Drafted
  <2> QED
    BY <2>1 DEF OwnerInv, OwnerTyped, AuditsFit, DraftExpansion
<1>7. OneOpen'
  BY <1>4, <1>5 DEF OneOpen, OpenDraft
<1>8. PreparedFit'
  BY <1>4, <1>5 DEF PreparedFit, OpenDraft, Drafted
<1> QED
  BY <1>1, <1>2, <1>3, <1>6, <1>7, <1>8, OneActs, ActorAssumption DEF DraftExpansion

\* A step of a process that leaves facets and drafts alone.
LEMMA PlaceKeeps ==
  ASSUME OwnerInv, NEW x \in Actor, NEW w \in Place, GoOn(x, w), UNCHANGED <<self, touched, expansionDrafts>>,
         proposals' \in [RefinementProposal -> {Unset} \cup ProposalFile],
         UNCHANGED <<facetVersions, refinementAudits>>, FilesKept,
         draftLock' \in Actor \cup {NoActor}, draftLock' = draftLock \/ draftLock \in {x, NoActor},
         w.at \in {"apply", "write", "prepare", "resume", "confirm", "close"} => proposals'[w.ref] # Unset,
         w.at = "write" => WriteFits(w), w.at = "restore" => refinementAudits[w.ref] # Unset,
         w.at \in {"submit", "prepare"} => draftLock' = x /\ expansionDrafts[w.draft] = Drafted,
         Answering(w) => draftLock' = x /\ expansionDrafts[w.draft] = Prepared(w.ref),
         w.at = "prepare" => Resumable(w.draft, w.ref)'
  PROVE  OwnerInv'
<1>1. ResumableKept
  BY ResumableStays
<1>2. actor' \in [Actor -> Place] /\ actor'[x] = w /\ \A y \in Actor \ {x} : actor'[y] = actor[y]
  BY DEF GoOn, OwnerInv, OwnerTyped
<1>3. OwnerTyped' /\ AuditsFit'
  BY <1>2 DEF OwnerInv, OwnerTyped, AuditsFit, FilesKept
<1>4. WriteFits(w)' = WriteFits(w)
  BY DEF WriteFits
<1>5. ActorFits(x)'
  BY <1>2, <1>4 DEF ActorFits, Answering, WriteFits
<1> QED
  BY <1>1, <1>2, <1>3, <1>5, OneActs

\* A refinement that is submitted holds the facet as it is.
LEMMA SubmittedFits ==
  ASSUME OwnerInv, NEW p \in RefinementProposal, NEW f \in Facet, NEW b \in Text, Submitted(p, f, b)
  PROVE  /\ proposals' \in [RefinementProposal -> {Unset} \cup ProposalFile]
         /\ proposals[p] = Unset /\ proposals'[p] # Unset /\ proposals'[p].facet = f /\ proposals'[p].source = self[f]
         /\ \A q \in RefinementProposal : proposals[q] # Unset => proposals'[q] = proposals[q]
<1> DEFINE n == [facet |-> f, source |-> self[f], body |-> b, state |-> "proposed"]
<1>1. n \in ProposalFile
  BY DEF OwnerInv, OwnerTyped, ProposalFile
<1>2. n # Unset /\ n.facet = f /\ n.source = self[f]
  BY <1>1, NoDraft
<1>3. proposals' = [proposals EXCEPT ![p] = n] /\ proposals[p] = Unset
  BY DEF Submitted
<1> HIDE DEF n
<1> QED
  BY <1>1, <1>2, <1>3 DEF OwnerInv, OwnerTyped

\* A refinement is submitted outside the interview.
LEMMA SubmitRefinementKeeps ==
  ASSUME OwnerInv, NEW x \in Actor, NEW p \in RefinementProposal, NEW f \in Facet, NEW b \in Text,
         NEW automatic \in BOOLEAN, SubmitRefinement(x, p, f, b, automatic)
  PROVE  OwnerInv'
<1> DEFINE a == [at |-> "apply", ref |-> p, draft |-> Unset]
           w == IF automatic THEN a ELSE ActorIdle
<1>1. w \in Place /\ a.at = "apply" /\ a.ref = p /\ a.draft = Unset /\ ActorIdle.at = "idle"
  BY DEF Place, ActorIdle
<1>2. Submitted(p, f, b) /\ GoOn(x, w) /\ UNCHANGED <<self, touched, expansionDrafts, facetVersions, refinementAudits, draftLock>>
  BY DEF SubmitRefinement
<1>3. /\ proposals' \in [RefinementProposal -> {Unset} \cup ProposalFile]
      /\ proposals'[p] # Unset /\ FilesKept
  BY <1>2, SubmittedFits DEF FilesKept
<1>4. w \in {a, ActorIdle}
  OBVIOUS
<1> HIDE DEF w, a
<1> QED
  BY <1>1, <1>2, <1>3, <1>4, PlaceKeeps DEF Answering, OwnerInv, OwnerTyped

\* A process begins an operation.
LEMMA StartKeeps ==
  ASSUME OwnerInv, NEW x \in Actor, NEW p \in RefinementProposal, ApplyRefinement(x, p) \/ RevertRefinement(x, p)
  PROVE  OwnerInv'
<1> DEFINE a == [at |-> "apply", ref |-> p, draft |-> Unset]
           r == [at |-> "restore", ref |-> p]
<1>1. /\ a \in Place /\ a.at = "apply" /\ a.ref = p /\ a.draft = Unset
      /\ r \in Place /\ r.at = "restore" /\ r.ref = p
  BY DEF Place
<1>2. /\ (GoOn(x, a) /\ proposals[p] # Unset) \/ (GoOn(x, r) /\ refinementAudits[p] # Unset)
      /\ UNCHANGED <<self, touched, expansionDrafts, facetVersions, refinementAudits, draftLock, proposals>>
  BY DEF ApplyRefinement, RevertRefinement
<1>3. FilesKept
  BY <1>2 DEF FilesKept
<1> HIDE DEF a, r
<1> QED
  BY <1>1, <1>2, <1>3, PlaceKeeps DEF Answering, OwnerInv, OwnerTyped

\* apply reads the facet.
LEMMA ReadFacetKeeps ==
  ASSUME OwnerInv, NEW x \in Actor, ReadFacet(x)
  PROVE  OwnerInv'
<1> DEFINE v == actor[x]
           p == v.ref
           f == proposals[p].facet
           rest == [at |-> "write", ref |-> p, draft |-> v.draft, todo |-> <<"audited", "applied">>]
           all == [at |-> "write", ref |-> p, draft |-> v.draft, before |-> self[f], todo |-> ApplyOrder]
<1>1. v \in [at : {"apply"}, ref : RefinementProposal, draft : Draft \cup {Unset}] /\ ActorFits(x)
  BY DEF OwnerInv, OwnerTyped, Place, ActorIdle, ReadFacet
<1>2. proposals[p] \in ProposalFile /\ f \in Facet /\ self[f] \in Body
  BY <1>1 DEF ActorFits, OwnerInv, OwnerTyped, ProposalFile
<1>3. /\ rest \in Place /\ rest.at = "write" /\ rest.ref = p /\ rest.draft = v.draft /\ rest.todo = <<"audited", "applied">>
      /\ all \in Place /\ all.at = "write" /\ all.ref = p /\ all.draft = v.draft /\ all.before \in Body
      /\ all.todo = ApplyOrder
  BY <1>1, <1>2 DEF Place, Todo, ApplyOrder
<1>4. ActorIdle \in Place /\ ActorIdle.at = "idle"
  BY DEF Place, ActorIdle
<1>5. /\ GoOn(x, all) \/ GoOn(x, ActorIdle) \/ (GoOn(x, rest) /\ refinementAudits[p] # Unset)
      /\ draftLock' = IF actor'[x] = ActorIdle /\ draftLock = x THEN NoActor ELSE draftLock
      /\ UNCHANGED <<self, proposals, facetVersions, refinementAudits, expansionDrafts, touched>>
  BY DEF ReadFacet
<1>6. Head(<<"audited", "applied">>) = "audited" /\ Head(ApplyOrder) = "version"
  BY DEF ApplyOrder
<1>7. FilesKept /\ proposals \in [RefinementProposal -> {Unset} \cup ProposalFile] /\ draftLock' \in Actor \cup {NoActor}
  BY <1>5 DEF FilesKept, OwnerInv, OwnerTyped
<1>8. /\ proposals[p] # Unset
      /\ v.draft # Unset => draftLock = x /\ expansionDrafts[v.draft] = Prepared(p)
  BY <1>1 DEF ActorFits, Answering
<1>9. WriteFits(all) /\ (refinementAudits[p] # Unset => WriteFits(rest))
  BY <1>3, <1>6 DEF WriteFits
<1>10. \A w : GoOn(x, w) => actor'[x] = w
  BY DEF GoOn, OwnerInv, OwnerTyped
<1>11. all # ActorIdle /\ rest # ActorIdle
  BY <1>3, <1>4
<1> HIDE DEF all, rest, v, p, f
<1>12. CASE GoOn(x, all)
  BY <1>3, <1>5, <1>7, <1>8, <1>9, <1>10, <1>11, <1>12, PlaceKeeps DEF Answering
<1>13. CASE GoOn(x, ActorIdle)
  BY <1>4, <1>5, <1>7, <1>13, PlaceKeeps DEF Answering
<1>14. CASE GoOn(x, rest) /\ refinementAudits[p] # Unset
  BY <1>3, <1>5, <1>7, <1>8, <1>9, <1>10, <1>11, <1>14, PlaceKeeps DEF Answering
<1> QED
  BY <1>5, <1>12, <1>13, <1>14

\* What one write of apply does to the files.
LEMMA WritesKeep ==
  ASSUME OwnerInv, NEW x \in Actor, WriteRefinement(x)
  PROVE  /\ self' \in [Facet -> Body]
         /\ proposals' \in [RefinementProposal -> {Unset} \cup ProposalFile]
         /\ facetVersions' \in [RefinementProposal -> {Unset} \cup Body]
         /\ refinementAudits' \in [RefinementProposal -> {Unset} \cup [state : {"prepared", "applied"}]]
         /\ AuditsFit' /\ FilesKept /\ ResumableKept
         /\ Head(actor[x].todo) = "version" => facetVersions'[actor[x].ref] \in Body
         /\ Head(actor[x].todo) = "audit" => refinementAudits'[actor[x].ref] # Unset
<1> DEFINE p == actor[x].ref
           step == Head(actor[x].todo)
<1>1. p \in RefinementProposal /\ actor[x].at = "write" /\ ActorFits(x) /\ actor[x].todo \in Todo
  BY DEF OwnerInv, OwnerTyped, Place, ActorIdle, WriteRefinement
<1>2. /\ proposals[p] \in ProposalFile /\ WriteFits(actor[x])
      /\ proposals[p].facet \in Facet /\ proposals[p].body \in Body
  BY <1>1 DEF ActorFits, OwnerInv, OwnerTyped, ProposalFile, Body
<1>3. step \in {"version", "audit", "self", "audited", "applied"}
  BY <1>1, TodoSteps
<1>4. /\ facetVersions' = (IF step = "version" THEN [facetVersions EXCEPT ![p] = actor[x].before] ELSE facetVersions)
      /\ refinementAudits' = (IF step \in {"audit", "audited"}
                    THEN [refinementAudits EXCEPT ![p] = [state |-> IF step = "audit" THEN "prepared" ELSE "applied"]] ELSE refinementAudits)
      /\ IF step = "self" THEN WriteFacet(proposals[p].facet, proposals[p].body, {p}) ELSE UNCHANGED <<self, touched>>
      /\ proposals' = (IF step = "applied" THEN [proposals EXCEPT ![p].state = "applied"] ELSE proposals)
  BY DEF WriteRefinement
<1>5. /\ step = "version" => actor[x].before \in Body
      /\ step = "audit" => facetVersions[p] \in Body
      /\ step \in {"self", "audited", "applied"} => refinementAudits[p] # Unset
  BY <1>2 DEF WriteFits
<1> HIDE DEF step, p
<1> DEFINE audit == [state |-> IF step = "audit" THEN "prepared" ELSE "applied"]
<1>6. audit \in [state : {"prepared", "applied"}] /\ audit # Unset
  BY DEF Unset
<1> HIDE DEF audit
<1>7. /\ self' \in [Facet -> Body]
      /\ facetVersions' \in [RefinementProposal -> {Unset} \cup Body]
      /\ \A q \in RefinementProposal : facetVersions[q] \in Body => facetVersions'[q] \in Body
      /\ step = "version" => facetVersions'[p] \in Body
  BY <1>1, <1>2, <1>4, <1>5 DEF OwnerInv, OwnerTyped, WriteFacet
<1>8. /\ refinementAudits' \in [RefinementProposal -> {Unset} \cup [state : {"prepared", "applied"}]]
      /\ \A q \in RefinementProposal : refinementAudits[q] # Unset => refinementAudits'[q] # Unset
      /\ \A q \in RefinementProposal : refinementAudits'[q] # Unset => refinementAudits[q] # Unset \/ (q = p /\ step = "audit")
      /\ step = "audit" => refinementAudits'[p] # Unset
  <2>1. refinementAudits' = IF step \in {"audit", "audited"} THEN [refinementAudits EXCEPT ![p] = audit] ELSE refinementAudits
    BY <1>4 DEF audit
  <2> QED
    BY <1>1, <1>3, <1>5, <1>6, <2>1 DEF OwnerInv, OwnerTyped
<1>9. /\ proposals' \in [RefinementProposal -> {Unset} \cup ProposalFile]
      /\ \A q \in RefinementProposal : proposals[q] # Unset =>
            /\ proposals'[q] # Unset /\ proposals'[q].facet = proposals[q].facet
            /\ proposals'[q].source = proposals[q].source /\ proposals'[q].body = proposals[q].body
  <2> DEFINE n == [proposals[p] EXCEPT !.state = "applied"]
  <2>1. n \in ProposalFile /\ n.facet = proposals[p].facet /\ n.source = proposals[p].source /\ n.body = proposals[p].body
    BY <1>2 DEF ProposalFile
  <2>2. proposals' = IF step = "applied" THEN [proposals EXCEPT ![p] = n] ELSE proposals
    BY <1>4
  <2> HIDE DEF n
  <2> QED
    BY <1>1, <2>1, <2>2, NoDraft DEF OwnerInv, OwnerTyped
<1>10. FilesKept
  BY <1>7, <1>8, <1>9 DEF FilesKept
<1>11. AuditsFit'
  BY <1>2, <1>5, <1>7, <1>8, <1>9, NoDraft DEF AuditsFit, OwnerInv
<1>12. ResumableKept
  BY <1>1, <1>2, <1>4, <1>5, <1>10, ResumableStays
<1> QED
  BY <1>7, <1>8, <1>9, <1>10, <1>11, <1>12 DEF step, p

\* Each write of apply, in its order.
LEMMA WriteRefinementKeeps ==
  ASSUME OwnerInv, NEW x \in Actor, WriteRefinement(x)
  PROVE  OwnerInv'
<1> DEFINE v == actor[x]
           next == [v EXCEPT !.todo = Tail(@)]
           done == [at |-> "confirm", ref |-> v.ref, draft |-> v.draft]
<1>1. /\ v \in [at : {"write"}, ref : RefinementProposal, draft : Draft \cup {Unset}, todo : Todo]
               \cup [at : {"write"}, ref : RefinementProposal, draft : Draft \cup {Unset}, before : Body, todo : Todo]
      /\ ActorFits(x) /\ v.at = "write" /\ v.ref \in RefinementProposal /\ v.todo \in Todo
  BY DEF OwnerInv, OwnerTyped, Place, ActorIdle, WriteRefinement
<1>2. /\ proposals[v.ref] # Unset /\ WriteFits(v)
      /\ v.draft # Unset => draftLock = x /\ expansionDrafts[v.draft] = Prepared(v.ref)
  BY <1>1 DEF ActorFits, Answering
<1>3. Len(v.todo) > 1 => /\ next \in Place /\ next.at = "write" /\ next.ref = v.ref /\ next.draft = v.draft
                         /\ next.todo = Tail(v.todo)
  BY <1>1, TodoSteps DEF Place
<1>4. v.draft # Unset => done \in Place /\ done.at = "confirm" /\ done.ref = v.ref /\ done.draft = v.draft
  BY <1>1 DEF Place
<1>5. ActorIdle \in Place /\ ActorIdle.at = "idle"
  BY DEF Place, ActorIdle
<1>6. /\ GoOn(x, IF Len(v.todo) > 1 THEN next ELSE IF v.draft = Unset THEN ActorIdle ELSE done)
      /\ UNCHANGED <<expansionDrafts, draftLock>>
  BY DEF WriteRefinement
<1> DEFINE w == IF Len(v.todo) > 1 THEN next ELSE IF v.draft = Unset THEN ActorIdle ELSE done
<1>7. w \in Place
  BY <1>3, <1>4, <1>5
<1>8. actor' \in [Actor -> Place] /\ actor'[x] = w /\ \A y \in Actor \ {x} : actor'[y] = actor[y]
  BY <1>6, <1>7 DEF GoOn, OwnerInv, OwnerTyped
<1>9. OwnerTyped' /\ AuditsFit'
  BY <1>6, <1>8, WritesKeep DEF OwnerInv, OwnerTyped
<1>10. ActorFits(x)'
  <2>1. proposals'[v.ref] # Unset /\ FilesKept
    BY <1>1, <1>2, WritesKeep DEF FilesKept
  <2>2. Len(v.todo) > 1 => /\ Head(next.todo) # "version"
                           /\ Head(next.todo) = "audit" => facetVersions'[v.ref] \in Body
                           /\ Head(next.todo) \in {"self", "audited", "applied"} => refinementAudits'[v.ref] # Unset
    <3>1. \A t \in Todo : Head(t) \in {"version", "audit", "self", "audited", "applied"}
      BY TodoSteps
    <3>2. Len(v.todo) > 1 => /\ Head(v.todo) = "version" => Head(next.todo) = "audit" /\ facetVersions'[v.ref] \in Body
                             /\ Head(v.todo) \in {"audit", "self", "audited"} =>
                                  Head(next.todo) \in {"self", "audited", "applied"} /\ refinementAudits'[v.ref] # Unset
      <4> HIDE DEF next
      <4>1. Head(v.todo) \in {"self", "audited"} => refinementAudits[v.ref] # Unset
        BY <1>2 DEF WriteFits
      <4> QED
        BY <1>1, <1>3, <2>1, <4>1, TodoSteps, WritesKeep DEF FilesKept
    <3>3. Len(v.todo) > 1 => Head(v.todo) # "applied"
      BY <1>1, TodoSteps
    <3> HIDE DEF next
    <3> QED
      BY <1>1, <3>1, <3>2, <3>3
  <2>3. CASE Len(v.todo) > 1
    <3>1. w = next
      BY <2>3
    <3> HIDE DEF next, w
    <3> QED
      BY <1>2, <1>3, <1>6, <1>8, <2>1, <2>2, <2>3, <3>1 DEF ActorFits, Answering, WriteFits
  <2>4. CASE ~(Len(v.todo) > 1) /\ v.draft # Unset
    <3>1. w = done
      BY <2>4
    <3> HIDE DEF done, w
    <3> QED
      BY <1>2, <1>4, <1>6, <1>8, <2>1, <2>4, <3>1 DEF ActorFits, Answering, WriteFits
  <2>5. CASE ~(Len(v.todo) > 1) /\ v.draft = Unset
    <3>1. w = ActorIdle
      BY <2>5
    <3> HIDE DEF w
    <3> QED
      BY <1>5, <1>8, <3>1 DEF ActorFits, Answering
  <2> QED
    BY <2>3, <2>4, <2>5
<1> HIDE DEF w, v, next, done
<1> QED
  BY <1>6, <1>8, <1>9, <1>10, WritesKeep, OneActs

\* A process restores the version of a refinement: the proposals on its facet are
\* touched, its own included.
LEMMA RestoreKeeps ==
  ASSUME OwnerInv, NEW x \in Actor, Restore(x)
  PROVE  OwnerInv'
<1> DEFINE p == actor[x].ref
           f == proposals[p].facet
           w == [actor[x] EXCEPT !.at = "restored"]
<1>1. actor[x] \in [at : {"restore", "restored"}, ref : RefinementProposal] /\ refinementAudits[p] # Unset
  BY DEF OwnerInv, OwnerTyped, Place, ActorIdle, Restore, ActorFits
<1>2. p \in RefinementProposal /\ proposals[p] \in ProposalFile /\ f \in Facet /\ facetVersions[p] \in Body
  BY <1>1 DEF OwnerInv, OwnerTyped, AuditsFit, ProposalFile
<1>3. w \in Place /\ w.at = "restored"
  BY <1>1 DEF Place
<1>4. /\ WriteFacet(f, facetVersions[p], {}) /\ actor' = [actor EXCEPT ![x] = w]
      /\ UNCHANGED <<proposals, facetVersions, refinementAudits, expansionDrafts, draftLock>>
  BY DEF Restore, GoOn
<1> HIDE DEF w, p, f
<1>5. FilesKept
  BY <1>4 DEF FilesKept
<1>6. ResumableKept
  BY <1>2, <1>4, <1>5, ResumableStays
<1>7. actor' \in [Actor -> Place] /\ actor'[x] = w /\ \A y \in Actor \ {x} : actor'[y] = actor[y]
  BY <1>3, <1>4 DEF OwnerInv, OwnerTyped
<1>8. OwnerTyped' /\ AuditsFit'
  BY <1>2, <1>4, <1>7 DEF OwnerInv, OwnerTyped, AuditsFit, WriteFacet
<1>9. ActorFits(x)'
  BY <1>3, <1>7 DEF ActorFits, Answering
<1> QED
  BY <1>4, <1>5, <1>6, <1>7, <1>8, <1>9, OneActs

\* A process that ends, or is told that the facet has changed, lets go of the lock.
LEMMA EndKeeps ==
  ASSUME OwnerInv, NEW x \in Actor, Restored(x) \/ StopActor(x)
  PROVE  OwnerInv'
<1>1. ActorIdle \in Place /\ ActorIdle.at = "idle"
  BY DEF Place, ActorIdle
<1>2. /\ GoOn(x, ActorIdle) /\ UNCHANGED <<self, touched, expansionDrafts, proposals, facetVersions, refinementAudits>>
      /\ draftLock' = draftLock \/ (draftLock = x /\ draftLock' = NoActor)
  BY DEF Restored, StopActor
<1>3. FilesKept /\ proposals \in [RefinementProposal -> {Unset} \cup ProposalFile] /\ draftLock' \in Actor \cup {NoActor}
  BY <1>2 DEF FilesKept, OwnerInv, OwnerTyped
<1> QED
  BY <1>1, <1>2, <1>3, PlaceKeeps DEF Answering

\* ConfirmExpansion goes on from where an earlier call has stopped.
LEMMA ConfirmExpansionKeeps ==
  ASSUME OwnerInv, NEW x \in Actor, NEW d \in Draft, ConfirmExpansion(x, d)
  PROVE  OwnerInv'
<1> DEFINE s == [at |-> "submit", draft |-> d]
           a == [at |-> "resume", ref |-> expansionDrafts[d].ref, draft |-> d]
<1>1. expansionDrafts[d] \in DraftFile /\ expansionDrafts[d].state \in {"drafted", "prepared"}
  BY DEF ConfirmExpansion, DraftsUnderReview, OwnerInv, OwnerTyped
<1>2. s \in Place /\ s.at = "submit" /\ s.draft = d
  BY DEF Place
<1>3. expansionDrafts[d].state = "drafted" => expansionDrafts[d] = Drafted
  BY <1>1 DEF DraftFile, Drafted
<1>4. expansionDrafts[d].state = "prepared" =>
        /\ expansionDrafts[d] = Prepared(expansionDrafts[d].ref) /\ expansionDrafts[d].ref \in RefinementProposal
        /\ proposals[expansionDrafts[d].ref] # Unset
        /\ a \in Place /\ a.at = "resume" /\ a.ref = expansionDrafts[d].ref /\ a.draft = d
  <2> HAVE expansionDrafts[d].state = "prepared"
  <2>1. expansionDrafts[d] \in [state : {"prepared", "applied"}, ref : RefinementProposal]
    BY <1>1 DEF DraftFile
  <2>2. expansionDrafts[d] # Unset /\ d # Unset
    BY <1>1, NoDraft
  <2>3. Resumable(d, expansionDrafts[d].ref)
    BY <2>2 DEF OwnerInv, PreparedFit
  <2> QED
    BY <2>1, <2>3 DEF Prepared, Place, Resumable
<1>5. /\ draftLock = NoActor /\ draftLock' = x
      /\ \/ GoOn(x, s) /\ expansionDrafts[d].state = "drafted"
         \/ GoOn(x, a) /\ expansionDrafts[d].state = "prepared"
      /\ UNCHANGED <<self, touched, expansionDrafts, proposals, facetVersions, refinementAudits>>
  BY <1>1 DEF ConfirmExpansion
<1>6. FilesKept /\ proposals \in [RefinementProposal -> {Unset} \cup ProposalFile]
  BY <1>5 DEF FilesKept, OwnerInv, OwnerTyped
<1> HIDE DEF s, a
<1>7. CASE GoOn(x, s) /\ expansionDrafts[d].state = "drafted"
  BY <1>2, <1>3, <1>5, <1>6, <1>7, PlaceKeeps DEF Answering
<1>8. CASE GoOn(x, a) /\ expansionDrafts[d].state = "prepared"
  BY <1>4, <1>5, <1>6, <1>8, PlaceKeeps DEF Answering
<1> QED
  BY <1>5, <1>7, <1>8

\* The open draft becomes a refinement.
LEMMA SubmitDraftKeeps ==
  ASSUME OwnerInv, NEW x \in Actor, NEW p \in RefinementProposal, SubmitDraft(x, p)
  PROVE  OwnerInv'
<1>0. actor[x] \in [at : {"submit"}, draft : Draft] /\ draftLock = x /\ expansionDrafts[actor[x].draft] = Drafted
  BY DEF OwnerInv, OwnerTyped, Place, ActorIdle, SubmitDraft, ActorFits
<1>1. PICK d \in Draft : actor[x].draft = d /\ draftLock = x /\ expansionDrafts[d] = Drafted
  BY <1>0
<1>2. d.facet \in Facet /\ d.body \in Text
  BY <1>1 DEF Draft
<1> DEFINE w == [at |-> "prepare", ref |-> p, draft |-> d]
<1>3. w \in Place /\ w.at = "prepare" /\ w.ref = p /\ w.draft = d
  BY <1>2 DEF Place
<1>4. Submitted(p, d.facet, d.body) /\ GoOn(x, w) /\ UNCHANGED <<self, touched, expansionDrafts, facetVersions, refinementAudits, draftLock>>
  BY <1>1 DEF SubmitDraft
<1>5. /\ proposals' \in [RefinementProposal -> {Unset} \cup ProposalFile]
      /\ proposals'[p] # Unset /\ proposals'[p].facet = d.facet /\ proposals'[p].source = self[d.facet] /\ FilesKept
  BY <1>2, <1>4, SubmittedFits DEF FilesKept
<1>6. Resumable(d, p)'
  BY <1>4, <1>5 DEF Resumable
<1>7. draftLock' \in Actor \cup {NoActor}
  BY <1>4 DEF OwnerInv, OwnerTyped
<1> HIDE DEF w
<1> QED
  BY <1>1, <1>3, <1>4, <1>5, <1>6, <1>7, PlaceKeeps DEF Answering

\* The draft is marked with its refinement, which can be applied as things are.
LEMMA PrepareDraftKeeps ==
  ASSUME OwnerInv, NEW x \in Actor, PrepareDraft(x)
  PROVE  OwnerInv'
<1>0. /\ actor[x] \in [at : {"prepare", "resume", "confirm", "close"}, ref : RefinementProposal, draft : Draft]
      /\ draftLock = x /\ expansionDrafts[actor[x].draft] = Drafted
      /\ Resumable(actor[x].draft, actor[x].ref) /\ proposals[actor[x].ref] # Unset
  BY DEF OwnerInv, OwnerTyped, Place, ActorIdle, PrepareDraft, ActorFits
<1>1. PICK d \in Draft, p \in RefinementProposal :
        /\ actor[x].draft = d /\ actor[x].ref = p
        /\ draftLock = x /\ expansionDrafts[d] = Drafted /\ Resumable(d, p) /\ proposals[p] # Unset
  BY <1>0
<1> DEFINE w == [actor[x] EXCEPT !.at = "resume"]
<1>2. w \in Place /\ w.at = "resume" /\ w.ref = p /\ w.draft = d
  BY <1>0, <1>1 DEF Place
<1>3. /\ expansionDrafts' = [expansionDrafts EXCEPT ![d] = Prepared(p)] /\ actor' = [actor EXCEPT ![x] = w]
      /\ UNCHANGED <<self, proposals, facetVersions, refinementAudits, draftLock, touched>>
  BY <1>1 DEF PrepareDraft, GoOn, Prepared
<1> HIDE DEF w
<1>4. /\ expansionDrafts' \in [Draft -> {Unset} \cup DraftFile]
      /\ \A e \in Draft : expansionDrafts'[e] = IF e = d THEN Prepared(p) ELSE expansionDrafts[e]
  BY <1>2, <1>3 DEF OwnerInv, OwnerTyped, DraftFile, Prepared
<1>5. actor' \in [Actor -> Place] /\ actor'[x] = w /\ \A y \in Actor \ {x} : actor'[y] = actor[y]
  BY <1>2, <1>3 DEF OwnerInv, OwnerTyped
<1>6. OwnerTyped' /\ AuditsFit'
  BY <1>3, <1>4, <1>5 DEF OwnerInv, OwnerTyped, AuditsFit
<1>7. FilesKept /\ ResumableKept
  BY <1>3, ResumableStays DEF FilesKept
<1>8. OpenDraft(d)
  BY <1>1, NoDraft DEF OpenDraft, Drafted, Unset
<1>9. OneOpen'
  BY <1>2, <1>4, <1>8 DEF OwnerInv, OneOpen, OpenDraft
<1>10. PreparedFit'
  <2> SUFFICES ASSUME NEW e \in Draft, expansionDrafts'[e] # Unset, expansionDrafts'[e].state = "prepared" PROVE Resumable(e, expansionDrafts[e].ref)'
    BY DEF PreparedFit
  <2>1. CASE e = d
    <3>1. Resumable(d, p)'
      BY <1>1, <1>2, <1>7 DEF ResumableKept
    <3> QED
      BY <1>4, <2>1, <3>1 DEF Prepared, Resumable
  <2>2. CASE e # d
    BY <1>1, <1>2, <1>4, <1>8, <2>2, NoDraft DEF OwnerInv, OneOpen, OpenDraft
  <2> QED
    BY <2>1, <2>2
<1>11. ActorFits(x)'
  BY <1>1, <1>2, <1>3, <1>4, <1>5 DEF ActorFits, Answering
<1> QED
  BY <1>1, <1>3, <1>5, <1>6, <1>7, <1>9, <1>10, <1>11, OneActs

\* A refinement that is not applied yet is applied next.
LEMMA ReadRefinementKeeps ==
  ASSUME OwnerInv, NEW x \in Actor, ReadRefinement(x)
  PROVE  OwnerInv'
<1>1. /\ actor[x] \in [at : {"prepare", "resume", "confirm", "close"}, ref : RefinementProposal, draft : Draft]
      /\ draftLock = x /\ expansionDrafts[actor[x].draft] = Prepared(actor[x].ref) /\ proposals[actor[x].ref] # Unset
  BY DEF OwnerInv, OwnerTyped, Place, ActorIdle, ReadRefinement, ActorFits, Answering
<1>2. PICK d \in Draft, p \in RefinementProposal : actor[x].draft = d /\ actor[x].ref = p
  BY <1>1
<1> DEFINE c == [at |-> "confirm", ref |-> p, draft |-> d]
           a == [at |-> "apply", ref |-> p, draft |-> d]
<1>3. /\ c \in Place /\ c.at = "confirm" /\ c.ref = p /\ c.draft = d
      /\ a \in Place /\ a.at = "apply" /\ a.ref = p /\ a.draft = d
  BY DEF Place
<1>4. GoOn(x, a) \/ GoOn(x, c)
  BY <1>1, <1>2 DEF ReadRefinement
<1>5. UNCHANGED <<self, touched, proposals, facetVersions, refinementAudits, expansionDrafts, draftLock>>
  BY DEF ReadRefinement
<1>6. FilesKept /\ proposals \in [RefinementProposal -> {Unset} \cup ProposalFile] /\ draftLock \in Actor \cup {NoActor}
  BY <1>5 DEF FilesKept, OwnerInv, OwnerTyped
<1> HIDE DEF a, c
<1>7. CASE GoOn(x, a)
  BY <1>1, <1>2, <1>3, <1>5, <1>6, <1>7, PlaceKeeps
<1>8. CASE GoOn(x, c)
  BY <1>1, <1>2, <1>3, <1>5, <1>6, <1>8, PlaceKeeps
<1> QED
  BY <1>4, <1>7, <1>8

\* The digest of the facet is confirmed.
LEMMA ConfirmFacetKeeps ==
  ASSUME OwnerInv, NEW x \in Actor, ConfirmFacet(x)
  PROVE  OwnerInv'
<1> DEFINE w == [actor[x] EXCEPT !.at = "close"]
<1>1. /\ actor[x] \in [at : {"prepare", "resume", "confirm", "close"}, ref : RefinementProposal, draft : Draft]
      /\ draftLock = x /\ expansionDrafts[actor[x].draft] = Prepared(actor[x].ref) /\ proposals[actor[x].ref] # Unset
  BY DEF OwnerInv, OwnerTyped, Place, ActorIdle, ConfirmFacet, ActorFits, Answering
<1>2. w \in Place /\ w.at = "close" /\ w.ref = actor[x].ref /\ w.draft = actor[x].draft
  BY <1>1 DEF Place
<1>3. GoOn(x, w) /\ UNCHANGED <<self, touched, proposals, facetVersions, refinementAudits, expansionDrafts, draftLock>>
  BY DEF ConfirmFacet
<1>4. FilesKept /\ proposals \in [RefinementProposal -> {Unset} \cup ProposalFile] /\ draftLock \in Actor \cup {NoActor}
  BY <1>3 DEF FilesKept, OwnerInv, OwnerTyped
<1> HIDE DEF w
<1> QED
  BY <1>1, <1>2, <1>3, <1>4, PlaceKeeps

\* Closing a draft leaves none open.
LEMMA CloseDraftKeeps ==
  ASSUME OwnerInv, NEW x \in Actor, CloseDraft(x)
  PROVE  OwnerInv'
<1> DEFINE d == actor[x].draft
           p == actor[x].ref
           n == [state |-> "applied", ref |-> p]
<1>1. /\ actor[x] \in [at : {"prepare", "resume", "confirm", "close"}, ref : RefinementProposal, draft : Draft]
      /\ draftLock = x /\ expansionDrafts[d] = Prepared(p)
  BY DEF OwnerInv, OwnerTyped, Place, ActorIdle, CloseDraft, ActorFits, Answering
<1>2. n \in DraftFile /\ n.state = "applied" /\ d \in Draft
  BY <1>1 DEF DraftFile
<1>3. /\ \A e \in Draft : expansionDrafts'[e] = n \/ expansionDrafts'[e] = Unset \/ (e # d /\ expansionDrafts'[e] = expansionDrafts[e])
      /\ expansionDrafts' \in [Draft -> {Unset} \cup DraftFile]
  <2>1. expansionDrafts' = [e \in Draft |->
                     IF e = d THEN n
                     ELSE IF e.facet = d.facet /\ expansionDrafts[e] # Unset /\ expansionDrafts[e].state = "applied"
                     THEN Unset ELSE expansionDrafts[e]]
    BY DEF CloseDraft
  <2> HIDE DEF n, d
  <2> QED
    BY <1>2, <2>1 DEF OwnerInv, OwnerTyped
<1>4. /\ actor' = [actor EXCEPT ![x] = ActorIdle] /\ draftLock' = NoActor
      /\ UNCHANGED <<self, proposals, facetVersions, refinementAudits, touched>>
  BY DEF CloseDraft, GoOn
<1> HIDE DEF n
<1>5. \A e \in Draft : ~OpenDraft(e)'
  <2>1. OpenDraft(d)
    BY <1>1 DEF OpenDraft, Prepared, Unset
  <2>2. \A e \in Draft : e # d => ~OpenDraft(e)
    BY <1>2, <2>1 DEF OwnerInv, OneOpen
  <2> HIDE DEF d
  <2> QED
    BY <1>2, <1>3, <2>2 DEF OpenDraft
<1>6. OneOpen' /\ PreparedFit'
  BY <1>5 DEF OneOpen, OpenDraft, PreparedFit
<1>7. actor' \in [Actor -> Place] /\ actor'[x] = ActorIdle /\ \A y \in Actor \ {x} : actor'[y] = actor[y]
  BY <1>4 DEF OwnerInv, OwnerTyped, Place
<1>8. OwnerTyped' /\ AuditsFit'
  BY <1>3, <1>4, <1>7 DEF OwnerInv, OwnerTyped, AuditsFit
<1>9. FilesKept /\ ResumableKept
  BY <1>4, ResumableStays DEF FilesKept
<1>10. ActorFits(x)'
  BY <1>7 DEF ActorFits, Answering, ActorIdle
<1> QED
  BY <1>1, <1>4, <1>6, <1>7, <1>8, <1>9, <1>10, OneActs

\* Every step keeps the invariant.
LEMMA OwnerStep == OwnerInv /\ [OwnerNext]_ownerVars => OwnerInv'
<1> SUFFICES ASSUME OwnerInv, [OwnerNext]_ownerVars PROVE OwnerInv'
  OBVIOUS
<1>1. ASSUME NEW f \in Facet, NEW b \in Text, EditFacet(f, b) PROVE OwnerInv'
  BY <1>1, FacetStepKeeps DEF EditFacet, Body
<1>2. CASE ConfirmOnboarding \/ SelectOnboardingTrack \/ UNCHANGED ownerVars
  BY <1>2, FacetStepKeeps DEF ConfirmOnboarding, SelectOnboardingTrack, ownerVars
<1> QED
  BY <1>1, <1>2, DraftExpansionKeeps, ReadFacetKeeps, WriteRefinementKeeps, RestoreKeeps, EndKeeps,
     PrepareDraftKeeps, ReadRefinementKeeps, ConfirmFacetKeeps, CloseDraftKeeps, ConfirmExpansionKeeps, StartKeeps,
     SubmitDraftKeeps, SubmitRefinementKeeps DEF OwnerNext

\* A new owner has answered nothing.
LEMMA OwnerStarts == OwnerInit => OwnerInv
<1> SUFFICES ASSUME OwnerInit PROVE OwnerInv
  OBVIOUS
<1>1. OwnerTyped
  BY DEF OwnerInit, OwnerTyped, Body, Place
<1> QED
  BY <1>1 DEF OwnerInit, OwnerInv, AuditsFit, OneOpen, OpenDraft, PreparedFit, ActorFits, Answering, ActorIdle

\* With the invariant the open draft can be confirmed.
LEMMA ResumableFromOwnerInv == OwnerInv => InterviewResumable
<1> SUFFICES ASSUME OwnerInv PROVE InterviewResumable
  OBVIOUS
<1>1. OneOpenDraft
  <2> DEFINE open == {d \in Draft : expansionDrafts[d] # Unset /\ expansionDrafts[d].state # "applied"}
  <2>1. open = {} \/ \E d \in Draft : open = {d}
    BY DEF OwnerInv, OneOpen, OpenDraft
  <2>2. Cardinality({}) = 0 /\ \A d \in Draft : Cardinality({d}) = 1
    BY FS_EmptySet, FS_Singleton
  <2>3. Cardinality(open) \in {0, 1}
    BY <2>1, <2>2
  <2> QED
    BY <2>3 DEF OneOpenDraft
<1>2. PreparedResumable
  BY DEF OwnerInv, PreparedFit, Resumable, PreparedResumable, DraftsUnderReview
<1> QED
  BY <1>1, <1>2 DEF InterviewResumable

\* For any processes, facets, texts, proposals and crashes, there is one draft at most
\* to take up, and it can be taken up unless another writer changed its facet
\* (ConfirmExpansion, apply).
THEOREM InterviewTakenUp == OwnerSpec => []InterviewResumable
  BY OwnerStarts, OwnerStep, ResumableFromOwnerInv, PTL DEF OwnerSpec


-----------------------------------------------------------------------------
(***************************************************************************)
(* Owner observations: the log of late, repeated and concurrent            *)
(* transitions, and what each line continues.                              *)
(***************************************************************************)
\* The shorter of two intervals is the smaller set.
LEMMA SmallerInterval ==
  ASSUME NEW y \in Nat, NEW m \in Nat, NEW n \in Nat, y < m, m <= n
  PROVE  <<1..y, 1..m>> \in StrictSubsetOrdering(1..n)
<1>1. 1..y \subseteq 1..m /\ 1..m \subseteq 1..n /\ 1..y \subseteq 1..n
  OBVIOUS
<1>2. m \in 1..m /\ m \notin 1..y
  OBVIOUS
<1> QED
  BY <1>1, <1>2 DEF StrictSubsetOrdering

\* Every set of numbers that is not empty has a least one.
LEMMA LeastNumber ==
  ASSUME NEW T, T \subseteq Nat, T # {}
  PROVE  \E x \in T : \A y \in T : x <= y
<1>1. PICK n : n \in T
  OBVIOUS
<1> DEFINE below == {1..k : k \in {j \in T : j <= n}}
<1>2. IsFiniteSet(1..n) /\ n \in Nat
  BY <1>1, FS_Interval
<1>3. IsWellFoundedOn(StrictSubsetOrdering(1..n), SUBSET (1..n))
  BY <1>2, FS_StrictSubsetOrderingWellFounded, FS_FiniteSubsetsOfFinite
<1>4. below \subseteq SUBSET (1..n) /\ below # {}
  <2>1. \A k \in T : k \in Nat
    OBVIOUS
  <2>2. n \in {j \in T : j <= n}
    BY <1>1, <2>1
  <2>3. 1..n \in below
    BY <2>2
  <2>4. ASSUME NEW k \in {j \in T : j <= n} PROVE 1..k \in SUBSET (1..n)
    <3>1. k \in Nat /\ n \in Nat /\ k <= n
      BY <1>1, <2>1
    <3> QED
      BY <3>1
  <2> QED
    BY <2>3, <2>4
<1>5. PICK least \in below : \A s \in below : <<s, least>> \notin StrictSubsetOrdering(1..n)
  <2> HIDE DEF below
  <2> QED
    BY <1>3, <1>4, WFMin
<1>6. PICK m \in T : m <= n /\ least = 1..m
  BY DEF below
<1>7. ASSUME NEW y \in T, y < m PROVE FALSE
  <2>1. y \in Nat /\ m \in Nat /\ n \in Nat
    BY <1>2, <1>6, <1>7
  <2>2. y < m /\ m <= n
    BY <1>6, <1>7
  <2>3. y <= n
    BY <2>1, <2>2
  <2>4. 1..y \in below
    BY <2>1, <2>3
  <2> HIDE DEF below
  <2>5. <<1..y, 1..m>> \in StrictSubsetOrdering(1..n)
    BY <2>1, <2>2, SmallerInterval
  <2> QED
    BY <1>5, <1>6, <2>4, <2>5
<1>8. ASSUME NEW y \in T PROVE m <= y
  <2>1. y \in Nat /\ m \in Nat /\ ~(y < m)
    BY <1>6, <1>7
  <2> QED
    BY <2>1
<1> QED
  BY <1>6, <1>8

\* Lines of the log, and what callers keep of it.
LogLine == [obs : Observation, state : TerminalState \cup {"captured"} \cup Wanted, transition : {0} \cup Transition, expected : Nat]
Decided == [obs : Observation, next : Wanted, state : TerminalState \cup {"captured"} \cup Wanted, revision : Nat, canonical : Nat]

\* A caller decides on an observation that it has read in the log.
AskedOfKnown ==
  \A t \in Transition : asked[t] # NotAsked => \E k \in DOMAIN log : log[k].obs = asked[t].obs

ObservationInv ==
  /\ log \in Seq(LogLine) /\ canonical \in Nat
  /\ asked \in [Transition -> {NotAsked} \cup Decided]
  /\ AskedOfKnown
  /\ ChainedByRevision

\* A set of positions of a log has a last one.
LEMMA GreatestNumber ==
  ASSUME NEW b \in Nat, NEW T \in SUBSET (1..b), T # {}
  PROVE  \E n \in T : \A m \in T : m <= n
<1> DEFINE bounds == {n \in Nat : \A m \in T : m <= n}
<1>1. b \in bounds /\ bounds \subseteq Nat
  OBVIOUS
<1>2. PICK n \in bounds : \A m \in bounds : n <= m
  <2> HIDE DEF bounds
  <2> QED
    BY <1>1, LeastNumber
<1>3. CASE n \in T
  BY <1>2, <1>3
<1>4. CASE n \notin T
  <2>1. ASSUME NEW m \in T PROVE m \in Nat /\ n \in Nat /\ 0 < m /\ m < n
    <3>1. m \in 1..b /\ m # n /\ m <= n /\ n \in Nat
      BY <1>2, <1>4
    <3> QED
      BY <3>1
  <2>2. n - 1 \in Nat
    <3>1. PICK m \in T : TRUE
      OBVIOUS
    <3>2. m \in Nat /\ n \in Nat /\ 0 < m /\ m < n
      BY <2>1
    <3> QED
      BY <3>2
  <2>2a. ASSUME NEW m \in T PROVE m <= n - 1
    <3>1. m \in Nat /\ n \in Nat /\ m < n
      BY <2>1
    <3> QED
      BY <3>1
  <2>3. n - 1 \in bounds
    BY <2>2, <2>2a
  <2>4. n \in Nat /\ n <= n - 1
    BY <1>2, <2>3
  <2> QED
    BY <2>4
<1> QED
  BY <1>3, <1>4

\* latestObservations.
LEMMA LatestIs ==
  ASSUME ObservationInv, NEW o \in Observation, Records(o) # {}
  PROVE  /\ LatestLine(o) \in Records(o) /\ LatestLine(o) \in Nat /\ \A k \in Records(o) : k <= LatestLine(o)
<1>1. Len(log) \in Nat /\ Records(o) \in SUBSET (1..Len(log))
  BY DEF ObservationInv, Records
<1>2. \E n \in Records(o) : \A k \in Records(o) : k <= n
  BY <1>1, GreatestNumber
<1> QED
  BY <1>1, <1>2 DEF LatestLine

\* What the author of a line has seen.
Seen(o) == IF Records(o) = {} THEN 0 ELSE LatestLine(o)
Continues(new) ==
  /\ \A i \in DOMAIN new : new[i].expected = Seen(new[i].obs)
  /\ \A i, j \in DOMAIN new : i # j => new[i].obs # new[j].obs

\* The part of an operation that was appended continues the log.
LEMMA LogContinues ==
  ASSUME ObservationInv, NEW new \in Seq(LogLine), Continues(new), NEW n \in 0..Len(new),
         log' = log \o SubSeq(new, 1, n), UNCHANGED <<asked, canonical>>
  PROVE  ObservationInv'
<1> DEFINE part == SubSeq(new, 1, n)
<1>1. /\ part \in Seq(LogLine) /\ Len(part) = n /\ n \in Nat /\ \A i \in 1..n : part[i] = new[i]
      /\ DOMAIN new = 1..Len(new) /\ Len(new) \in Nat
  OBVIOUS
<1> HIDE DEF part
<1>2. /\ log' \in Seq(LogLine) /\ DOMAIN log = 1..Len(log) /\ Len(log) \in Nat
      /\ DOMAIN log' = 1..(Len(log) + n)
      /\ \A k \in 1..Len(log) : log'[k] = log[k]
      /\ \A i \in 1..n : log'[Len(log) + i] = new[i]
  BY <1>1 DEF ObservationInv, part
<1>3. ASSUME NEW m \in DOMAIN log'
      PROVE  LET earlier == {k \in 1..(m - 1) : log'[k].obs = log'[m].obs} IN
             log'[m].expected = IF earlier = {} THEN 0 ELSE CHOOSE k \in earlier : \A j \in earlier : j <= k
  <2> DEFINE earlier == {k \in 1..(m - 1) : log'[k].obs = log'[m].obs}
  <2>1. CASE m \in 1..Len(log)
    <3>1. \A k \in 1..(m - 1) : k \in 1..Len(log)
      BY <1>2, <2>1
    <3>2. log'[m] = log[m] /\ \A k \in 1..(m - 1) : log'[k] = log[k]
      BY <1>2, <2>1, <3>1
    <3>3. earlier = {k \in 1..(m - 1) : log[k].obs = log[m].obs}
      BY <3>2
    <3>4. m \in DOMAIN log /\ ChainedByRevision
      BY <1>2, <2>1 DEF ObservationInv
    <3>5. log[m].expected = IF earlier = {} THEN 0 ELSE CHOOSE k \in earlier : \A j \in earlier : j <= k
      BY <3>3, <3>4 DEF ChainedByRevision
    <3> HIDE DEF earlier
    <3> QED
      BY <3>2, <3>5 DEF earlier
  <2>2. CASE m \notin 1..Len(log)
    <3>1. PICK i \in 1..n : m = Len(log) + i
      <4>1. m - Len(log) \in 1..n /\ m = Len(log) + (m - Len(log))
        BY <1>1, <1>2, <2>2
      <4> QED
        BY <4>1
    <3>2. log'[m] = new[i] /\ i \in DOMAIN new /\ new[i].obs \in Observation
      BY <1>1, <1>2, <3>1 DEF LogLine
    <3>3. earlier = Records(new[i].obs)
      <4>1. ASSUME NEW k \in Nat, k \in earlier PROVE k \in Records(new[i].obs)
        <5>1. CASE k \in 1..Len(log)
          BY <1>2, <3>2, <4>1, <5>1 DEF Records
        <5>2. CASE k \notin 1..Len(log)
          <6>0. k \in Nat /\ k \in 1..(m - 1) /\ log'[k].obs = log'[m].obs
            BY <4>1
          <6>1. PICK h \in 1..n : k = Len(log) + h /\ h # i
            <7>1. Len(log) \in Nat /\ n \in Nat /\ i \in 1..n /\ m = Len(log) + i
              BY <1>1, <1>2, <3>1
            <7>2. k > Len(log) /\ k < Len(log) + i
              BY <5>2, <6>0, <7>1
            <7>3. k - Len(log) \in 1..n /\ k = Len(log) + (k - Len(log)) /\ k - Len(log) # i
              BY <6>0, <7>1, <7>2
            <7> QED
              BY <7>3
          <6>2. log'[k] = new[h] /\ h \in DOMAIN new
            BY <1>1, <1>2, <6>1
          <6>3. new[h].obs = new[i].obs
            BY <3>2, <6>0, <6>2
          <6> QED
            BY <3>2, <6>1, <6>2, <6>3 DEF Continues
        <5> QED
          BY <5>1, <5>2
      <4>2. ASSUME NEW k \in Records(new[i].obs) PROVE k \in earlier
        BY <1>2, <3>1, <3>2, <4>2 DEF Records
      <4>3. earlier \subseteq Nat
        OBVIOUS
      <4> HIDE DEF earlier
      <4> QED
        BY <4>1, <4>2, <4>3
    <3> HIDE DEF earlier
    <3>4. new[i].expected = IF earlier = {} THEN 0 ELSE CHOOSE k \in earlier : \A j \in earlier : j <= k
      BY <3>2, <3>3 DEF Continues, Seen, LatestLine
    <3> QED
      BY <3>2, <3>4 DEF earlier
  <2> QED
    BY <2>1, <2>2
<1>4. ChainedByRevision'
  BY <1>3 DEF ChainedByRevision
<1>5. AskedOfKnown'
  <2>1. ASSUME NEW t \in Transition, asked'[t] # NotAsked PROVE \E k \in DOMAIN log' : log'[k].obs = asked'[t].obs
    <3>1. asked' = asked /\ AskedOfKnown
      BY DEF ObservationInv
    <3>2. PICK k \in DOMAIN log : log[k].obs = asked[t].obs
      BY <2>1, <3>1 DEF AskedOfKnown
    <3>3. k \in DOMAIN log' /\ log'[k] = log[k]
      BY <1>1, <1>2, <3>2
    <3> QED
      BY <3>1, <3>2, <3>3
  <2> QED
    BY <2>1 DEF AskedOfKnown
<1>6. /\ canonical' \in Nat /\ asked' \in [Transition -> {NotAsked} \cup Decided]
  BY DEF ObservationInv
<1> QED
  BY <1>2, <1>4, <1>5, <1>6 DEF ObservationInv

\* An operation may append all its lines or be stopped after some.
LEMMA WritesContinue ==
  ASSUME ObservationInv, NEW new \in Seq(LogLine), Continues(new), Writes(new), UNCHANGED <<asked, canonical>>
  PROVE  ObservationInv'
<1>1. PICK n \in 0..Len(new) : log' = log \o SubSeq(new, 1, n)
  <2>1. Len(new) \in 0..Len(new) /\ SubSeq(new, 1, Len(new)) = new
    OBVIOUS
  <2> QED
    BY <2>1 DEF Writes, Appended, StopUnder
<1> QED
  BY <1>1, LogContinues

\* An observation is captured once.
LEMMA CapturedContinues ==
  ASSUME ObservationInv, NEW o \in Observation, AppendObservation(o)
  PROVE  ObservationInv'
<1> DEFINE x == Line(o, "captured", 0, 0)
<1>1. x \in LogLine /\ x.obs = o /\ x.expected = 0
  BY DEF Line, LogLine
<1> HIDE DEF x
<1>2. <<x>> \in Seq(LogLine) /\ Continues(<<x>>)
  BY <1>1 DEF Continues, Seen, AppendObservation
<1>3. Captured(o) = <<x>>
  BY DEF Captured, x
<1> QED
  BY <1>2, <1>3, WritesContinue DEF AppendObservation

\* A transition names the line that its caller saw last.
LEMMA MovedContinues ==
  ASSUME ObservationInv, NEW t \in Transition, TransitionObservation(t)
  PROVE  ObservationInv'
<1> DEFINE r == asked[t]
           x == Line(r.obs, r.next, t, r.revision)
<1>1. r \in Decided /\ Records(r.obs) # {} /\ LatestLine(r.obs) = r.revision
  <2>1. r # NotAsked /\ LatestLine(r.obs) = r.revision /\ r \in {NotAsked} \cup Decided /\ AskedOfKnown
    BY DEF TransitionObservation, Applicable, AsSeen, ObservationInv
  <2>2. PICK k \in DOMAIN log : log[k].obs = r.obs
    BY <2>1 DEF AskedOfKnown
  <2> QED
    BY <2>1, <2>2 DEF Records
<1>2. x \in LogLine /\ x.obs = r.obs /\ x.expected = Seen(x.obs)
  BY <1>1 DEF Line, LogLine, Decided, Seen
<1> HIDE DEF x
<1>3. <<x>> \in Seq(LogLine) /\ Continues(<<x>>)
  BY <1>2 DEF Continues
<1>4. Moved(t) = <<x>>
  BY DEF Moved, x
<1> QED
  BY <1>3, <1>4, WritesContinue DEF TransitionObservation

\* Only finitely many observations were recorded.
LEMMA ProvisionalFinite == ASSUME ObservationInv PROVE Cardinality(Provisional) \in Nat
<1> DEFINE D == {n \in 1..Len(log) : log[n].obs \in Provisional}
           f == [n \in D |-> log[n].obs]
<1>1. IsFiniteSet(D)
  <2>1. Len(log) \in Nat
    BY DEF ObservationInv
  <2>2. IsFiniteSet(1..Len(log))
    BY <2>1, FS_Interval
  <2> QED
    BY <2>2, FS_Subset
<1>2. f \in Surjection(D, Provisional)
  <2>1. f \in [D -> Provisional]
    OBVIOUS
  <2>2. \A o \in Provisional : \E n \in D : f[n] = o
    BY DEF Provisional, Records, ObservationInv
  <2> QED
    BY <2>1, <2>2 DEF Surjection
<1> HIDE DEF f, D
<1>3. IsFiniteSet(Provisional)
  BY <1>1, <1>2, FS_Surjection
<1> QED
  BY <1>3, FS_CardinalityType

\* A list by its positions.
LEMMA ListOfLines ==
  ASSUME NEW S, NEW n \in Nat, NEW a \in [1..n -> S]
  PROVE  a \in Seq(S)
  OBVIOUS

\* A reset names the last line of each observation, once.
LEMMA ResetContinues ==
  ASSUME ObservationInv, ResetDerivedSelf
  PROVE  ObservationInv'
<1> DEFINE m == Cardinality(Provisional)
<1>1. PICK s \in Resets : Writes(Redacted(s))
  BY DEF ResetDerivedSelf
<1>2. m \in Nat
  BY ProvisionalFinite
<1>3. s \in [1..m -> Provisional] /\ \A i, j \in 1..m : i # j => s[i] # s[j]
  BY <1>1 DEF Resets
<1> HIDE DEF m
<1>4. \A i \in 1..m : s[i] \in Observation /\ Records(s[i]) # {} /\ LatestLine(s[i]) \in Nat
  BY <1>3, LatestIs DEF Provisional
<1>5. \A i \in 1..m : /\ Redacted(s)[i] \in LogLine /\ Redacted(s)[i].obs = s[i]
                      /\ Redacted(s)[i].expected = Seen(s[i])
  BY <1>3, <1>4 DEF Redacted, Line, LogLine, TerminalState, Seen
<1>6. Redacted(s) = [i \in 1..m |-> Redacted(s)[i]]
  BY <1>3 DEF Redacted
<1>7. Redacted(s) \in Seq(LogLine)
  <2>1. Redacted(s) \in [1..m -> LogLine]
    BY <1>5, <1>6
  <2> QED
    BY <1>2, <2>1, ListOfLines
<1>8. DOMAIN Redacted(s) = 1..m
  BY <1>6
<1>9. Continues(Redacted(s))
  BY <1>3, <1>5, <1>8 DEF Continues
<1> QED
  BY <1>1, <1>7, <1>9, WritesContinue DEF ResetDerivedSelf

\* The lines are chained by the log alone.
LEMMA ChainOfTheLog == ChainedByRevision /\ log' = log => ChainedByRevision'
<1> SUFFICES ASSUME ChainedByRevision, log' = log, NEW n \in DOMAIN log'
             PROVE  LET earlier == {k \in 1..(n - 1) : log'[k].obs = log'[n].obs} IN
                    log'[n].expected = IF earlier = {} THEN 0 ELSE CHOOSE k \in earlier : \A j \in earlier : j <= k
  BY DEF ChainedByRevision
<1> DEFINE earlier == {k \in 1..(n - 1) : log[k].obs = log[n].obs}
<1>1. n \in DOMAIN log /\ {k \in 1..(n - 1) : log'[k].obs = log'[n].obs} = earlier
  OBVIOUS
<1>2. log[n].expected = IF earlier = {} THEN 0 ELSE CHOOSE k \in earlier : \A j \in earlier : j <= k
  BY <1>1 DEF ChainedByRevision
<1> HIDE DEF earlier
<1> QED
  BY <1>1, <1>2

\* A caller decides on what it reads.
LEMMA AskKeeps ==
  ASSUME ObservationInv, NEW o \in Observation, NEW t \in Transition, NEW s \in Wanted, Ask(t, o, s)
  PROVE  ObservationInv'
<1> DEFINE n == [obs |-> o, next |-> s, state |-> State(o), revision |-> LatestLine(o), canonical |-> canonical]
<1>1. Records(o) # {} /\ asked' = [asked EXCEPT ![t] = n] /\ UNCHANGED <<log, canonical>>
  BY DEF Ask
<1>2. n \in Decided /\ n.obs = o
  <2>1. LatestLine(o) \in Nat /\ LatestLine(o) \in DOMAIN log
    BY <1>1, LatestIs DEF Records
  <2>2. State(o) \in TerminalState \cup {"captured"} \cup Wanted
    <3>1. log[LatestLine(o)] \in LogLine
      BY <2>1 DEF ObservationInv
    <3> QED
      BY <3>1 DEF State, LogLine
  <2> QED
    BY <2>1, <2>2 DEF Decided, ObservationInv
<1> HIDE DEF n
<1>3. asked' \in [Transition -> {NotAsked} \cup Decided] /\ \A u \in Transition : asked'[u] = IF u = t THEN n ELSE asked[u]
  BY <1>1, <1>2 DEF ObservationInv
<1>5. ChainedByRevision' 
  BY <1>1, ChainOfTheLog DEF ObservationInv
<1>6. AskedOfKnown'
  <2>1. \E k \in DOMAIN log : log[k].obs = o
    BY <1>1 DEF Records
  <2> QED
    BY <1>1, <1>2, <1>3, <2>1 DEF ObservationInv, AskedOfKnown
<1> QED
  BY <1>1, <1>3, <1>5, <1>6 DEF ObservationInv

\* Every step keeps the invariant.
LEMMA ObservationStep == ObservationInv /\ [ObservationNext]_observationVars => ObservationInv'
<1> SUFFICES ASSUME ObservationInv, [ObservationNext]_observationVars PROVE ObservationInv'
  OBVIOUS
<1>1. CASE FacetChanges \/ UNCHANGED observationVars
  <2>1. UNCHANGED <<log, asked>> /\ canonical' \in Nat
    BY <1>1 DEF FacetChanges, observationVars, ObservationInv
  <2>2. ChainedByRevision'
    BY <2>1, ChainOfTheLog DEF ObservationInv
  <2>3. AskedOfKnown' /\ log' \in Seq(LogLine) /\ asked' \in [Transition -> {NotAsked} \cup Decided]
    BY <2>1 DEF ObservationInv, AskedOfKnown
  <2> QED
    BY <2>1, <2>2, <2>3 DEF ObservationInv
<1> QED
  BY <1>1, CapturedContinues, MovedContinues, ResetContinues, AskKeeps DEF ObservationNext

\* For any observations, callers, late and repeated transitions and stops, a line
\* continues the one its author had seen (TransitionObservation, ResetDerivedSelf).
THEOREM LogChained == ObservationSpec => []ChainedByRevision
<1>1. ObservationInit => ObservationInv
  <2> SUFFICES ASSUME ObservationInit PROVE ObservationInv
    OBVIOUS
  <2>1. log \in Seq(LogLine) /\ DOMAIN log = {}
    BY DEF ObservationInit
  <2> QED
    BY <2>1 DEF ObservationInit, ObservationInv, ChainedByRevision, AskedOfKnown
<1>2. ObservationInv => ChainedByRevision
  BY DEF ObservationInv
<1> QED
  BY <1>1, <1>2, ObservationStep, PTL DEF ObservationSpec

\* The owner's context and the observations about the owner are written by
\* different operations, each under a lock of its own: for both, what one process
\* has seen still holds when it writes (ConfirmExpansion, TransitionObservation).
THEOREM OwnerContextIsSound == OwnerSpec /\ ObservationSpec => []OwnerContextSound
<1>1. InterviewResumable /\ ChainedByRevision => OwnerContextSound
  BY DEF OwnerContextSound
<1> QED
  BY <1>1, InterviewTakenUp, LogChained, PTL

=============================================================================
