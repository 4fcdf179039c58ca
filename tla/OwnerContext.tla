---------------------------- MODULE OwnerContext ----------------------------
(***************************************************************************)
(* The owner's self: facets that owners edit, onboarding that confirms     *)
(* them, refinements that replace one facet with an audit trail, and the   *)
(* expansion interview whose reviewed draft becomes a refinement.  Only    *)
(* the expansion holds a lock, and the operating system releases it when   *)
(* its process ends; refinements compare the facet with what they were     *)
(* proposed against, then write without a lock.                            *)
(***************************************************************************)
EXTENDS Naturals, Sequences, FiniteSets

CONSTANTS Actor,              \* processes of the owner
          Facets,             \* sequence of the facets the interview asks for
          TrackFacets,        \* facets that onboarding reviews
          Template, Text,     \* body of an unanswered facet, bodies of answered ones
          MaxProposal, MaxOwnerCrashes

NoActor == "nobody"
ASSUME ActorAssumption == NoActor \notin Actor

VARIABLES self,          \* body of each facet
          onboarded,     \* onboarding digest the owner confirmed
          proposals, facetVersions, refinementAudits, reversions,   \* owner/refinement/
          expansionDrafts,        \* owner/interview/drafts, by the content that names them
          confirmations, \* owner/interview/confirmations.json
          draftLock,     \* owner/interview/.transition.lock
          actor,         \* place and locals of each process
          touched,       \* history: proposals whose facet another writer has changed
          ownerCrashes

ownerVars == <<self, onboarded, proposals, facetVersions, refinementAudits, reversions, expansionDrafts,
               confirmations, draftLock, actor, touched, ownerCrashes>>

Facet == {Facets[n] : n \in DOMAIN Facets}
Body == Text \cup {Template}
Unset == [unset |-> TRUE]
ActorIdle == [at |-> "idle"]
RefinementProposal == 1..MaxProposal
Draft == [facet : Facet, base : Body, body : Text]

OwnerInit ==
  /\ self = [f \in Facet |-> Template] /\ onboarded = Unset
  /\ proposals = [p \in RefinementProposal |-> Unset] /\ facetVersions = [p \in RefinementProposal |-> Unset]
  /\ refinementAudits = [p \in RefinementProposal |-> Unset] /\ reversions = [p \in RefinementProposal |-> Unset]
  /\ expansionDrafts = [d \in Draft |-> Unset] /\ confirmations = [f \in Facet |-> Template]
  /\ draftLock = NoActor /\ actor = [x \in Actor |-> ActorIdle]
  /\ touched = {} /\ ownerCrashes = 0

-----------------------------------------------------------------------------
facetAnswered(f) == self[f] # Template
onboardingDigest == [f \in TrackFacets |-> self[f]]

\* onboarding: every facet of the track is answered and confirmed as it is now.
Onboarded == (\A f \in TrackFacets : facetAnswered(f)) /\ onboarded = onboardingDigest

\* expansionStatus: the drafts under review.
DraftsUnderReview == {d \in Draft : expansionDrafts[d] # Unset /\ expansionDrafts[d].state \in {"drafted", "prepared"}}

\* The next facet to ask for; a confirmation may always have become too old.  Where the
\* interview has confirmed nothing, the onboarding that covers the facet stands in.
CurrentFacet(f) ==
  /\ facetAnswered(f)
  /\ confirmations[f] = self[f] \/ (confirmations[f] = Template /\ f \in TrackFacets /\ Onboarded)
NextFacets == {Facets[n] : n \in {m \in DOMAIN Facets : \A k \in 1..(m - 1) : CurrentFacet(Facets[k])}}

GoOn(x, w) == actor' = [actor EXCEPT ![x] = w]
\* Writing a facet, remembered against the proposals that did not ask for it.
WriteFacet(f, b, by) ==
  /\ self' = [self EXCEPT ![f] = b]
  /\ touched' = touched \cup {p \in RefinementProposal \ by : proposals[p] # Unset /\ proposals[p].facet = f}

-----------------------------------------------------------------------------
\* External: the owner, or an onboarding interview, edits a facet.
EditFacet(f, b) ==
  /\ b # self[f] /\ WriteFacet(f, b, {})
  /\ UNCHANGED <<onboarded, proposals, facetVersions, refinementAudits, reversions, expansionDrafts, confirmations,
                 draftLock, actor, ownerCrashes>>

\* ConfirmOnboarding of the digest on display.
ConfirmOnboarding ==
  /\ (\A f \in TrackFacets : facetAnswered(f)) /\ onboarded # onboardingDigest
  /\ onboarded' = onboardingDigest
  /\ UNCHANGED <<self, proposals, facetVersions, refinementAudits, reversions, expansionDrafts, confirmations,
                 draftLock, actor, touched, ownerCrashes>>

\* SelectOnboardingTrack drops the confirmation.
SelectOnboardingTrack ==
  /\ onboarded # Unset /\ onboarded' = Unset
  /\ UNCHANGED <<self, proposals, facetVersions, refinementAudits, reversions, expansionDrafts, confirmations,
                 draftLock, actor, touched, ownerCrashes>>

\* SubmitRefinement reads the facet and creates the proposal.
Submitted(p, f, b) ==
  /\ proposals[p] = Unset /\ \A q \in 1..(p - 1) : proposals[q] # Unset
  /\ proposals' = [proposals EXCEPT ![p] = [facet |-> f, source |-> self[f], body |-> b,
                                            state |-> "proposed"]]

\* A proposal of an agent; an authorized producer of an automatic facet goes on
\* to apply it, any other waits for the owner.
SubmitRefinement(x, p, f, b, automatic) ==
  /\ actor[x] = ActorIdle /\ Submitted(p, f, b)
  /\ GoOn(x, IF automatic THEN [at |-> "apply", ref |-> p, draft |-> Unset] ELSE ActorIdle)
  /\ UNCHANGED <<self, onboarded, facetVersions, refinementAudits, reversions, expansionDrafts, confirmations,
                 draftLock, touched, ownerCrashes>>

\* ApplyRefinement, confirmed; one that is applied is answered as it is.
ApplyRefinement(x, p) ==
  /\ actor[x] = ActorIdle /\ proposals[p] # Unset /\ proposals[p].state = "proposed"
  /\ GoOn(x, [at |-> "apply", ref |-> p, draft |-> Unset])
  /\ UNCHANGED <<self, onboarded, proposals, facetVersions, refinementAudits, reversions, expansionDrafts,
                 confirmations, draftLock, touched, ownerCrashes>>

\* The writes of apply, in their order.
ApplyOrder == <<"version", "audit", "self", "audited", "applied">>

\* apply reads the facet: unchanged, it writes all; already replaced by this
\* proposal under its audit, it writes the rest; else a revision conflict.
ReadFacet(x) ==
  /\ actor[x].at = "apply"
  /\ LET p == actor[x].ref
         f == proposals[p].facet IN
     GoOn(x, IF self[f] # proposals[p].source /\ self[f] = proposals[p].body /\ refinementAudits[p] # Unset
           THEN [at |-> "write", ref |-> p, draft |-> actor[x].draft,
                 todo |-> <<"audited", "applied">>]
           ELSE IF self[f] = proposals[p].source
           THEN [at |-> "write", ref |-> p, draft |-> actor[x].draft,
                 before |-> self[f], todo |-> ApplyOrder]
           ELSE ActorIdle)
  /\ draftLock' = IF actor'[x] = ActorIdle /\ draftLock = x THEN NoActor ELSE draftLock
  /\ UNCHANGED <<self, onboarded, proposals, facetVersions, refinementAudits, reversions, expansionDrafts,
                 confirmations, touched, ownerCrashes>>

\* One write of apply; a confirmed draft goes on after the last one.
WriteRefinement(x) ==
  /\ actor[x].at = "write"
  /\ LET p == actor[x].ref
         f == proposals[p].facet
         step == Head(actor[x].todo) IN
     /\ facetVersions' = IF step = "version" THEN [facetVersions EXCEPT ![p] = actor[x].before]
                    ELSE facetVersions
     /\ refinementAudits' = IF step \in {"audit", "audited"}
                  THEN [refinementAudits EXCEPT ![p] = [state |-> IF step = "audit" THEN "prepared"
                                                        ELSE "applied"]]
                  ELSE refinementAudits
     /\ IF step = "self" THEN WriteFacet(f, proposals[p].body, {p})
        ELSE UNCHANGED <<self, touched>>
     /\ proposals' = IF step = "applied" THEN [proposals EXCEPT ![p].state = "applied"]
                     ELSE proposals
     /\ GoOn(x, IF Len(actor[x].todo) > 1 THEN [actor[x] EXCEPT !.todo = Tail(@)]
              ELSE IF actor[x].draft = Unset THEN ActorIdle
              ELSE [at |-> "confirm", ref |-> p, draft |-> actor[x].draft])
  /\ UNCHANGED <<onboarded, reversions, expansionDrafts, confirmations, draftLock, ownerCrashes>>

\* RevertRefinement: the facet is still what the refinement made of it.
RevertRefinement(x, p) ==
  /\ actor[x] = ActorIdle /\ refinementAudits[p] # Unset /\ self[proposals[p].facet] = proposals[p].body
  /\ reversions' = [reversions EXCEPT ![p] = [state |-> "prepared"]]
  /\ GoOn(x, [at |-> "restore", ref |-> p])
  /\ UNCHANGED <<self, onboarded, proposals, facetVersions, refinementAudits, expansionDrafts, confirmations,
                 draftLock, touched, ownerCrashes>>
Restore(x) ==
  /\ actor[x].at = "restore"
  /\ WriteFacet(proposals[actor[x].ref].facet, facetVersions[actor[x].ref], {})
  /\ GoOn(x, [actor[x] EXCEPT !.at = "restored"])
  /\ UNCHANGED <<onboarded, proposals, facetVersions, refinementAudits, reversions, expansionDrafts, confirmations,
                 draftLock, ownerCrashes>>
Restored(x) ==
  /\ actor[x].at = "restored"
  /\ reversions' = [reversions EXCEPT ![actor[x].ref].state = "applied"]
  /\ GoOn(x, ActorIdle)
  /\ UNCHANGED <<self, onboarded, proposals, facetVersions, refinementAudits, expansionDrafts, confirmations,
                 draftLock, touched, ownerCrashes>>

-----------------------------------------------------------------------------
\* DraftExpansion under the lock: the answer to the next question is drafted;
\* the token binds it to the facet as it is.
DraftExpansion(f, b) ==
  /\ draftLock = NoActor
  /\ Onboarded /\ DraftsUnderReview = {} /\ f \in NextFacets /\ b # self[f]
  /\ expansionDrafts' = [expansionDrafts EXCEPT ![[facet |-> f, base |-> self[f], body |-> b]]
                  = [state |-> "drafted"]]
  /\ UNCHANGED <<self, onboarded, proposals, facetVersions, refinementAudits, reversions, confirmations,
                 draftLock, actor, touched, ownerCrashes>>

\* ConfirmExpansion takes the lock.  A drafted one must still meet its facet and
\* is submitted next; a prepared one has its refinement, which is taken up again.
ConfirmExpansion(x, d) ==
  /\ actor[x] = ActorIdle /\ draftLock = NoActor /\ d \in DraftsUnderReview
  /\ expansionDrafts[d].state = "drafted" => self[d.facet] = d.base
  /\ draftLock' = x
  /\ GoOn(x, IF expansionDrafts[d].state = "drafted" THEN [at |-> "submit", draft |-> d]
           ELSE [at |-> "resume", ref |-> expansionDrafts[d].ref, draft |-> d])
  /\ UNCHANGED <<self, onboarded, proposals, facetVersions, refinementAudits, reversions, expansionDrafts,
                 confirmations, touched, ownerCrashes>>

SubmitDraft(x, p) ==
  /\ actor[x].at = "submit" /\ Submitted(p, actor[x].draft.facet, actor[x].draft.body)
  /\ GoOn(x, [at |-> "prepare", ref |-> p, draft |-> actor[x].draft])
  /\ UNCHANGED <<self, onboarded, facetVersions, refinementAudits, reversions, expansionDrafts, confirmations,
                 draftLock, touched, ownerCrashes>>
PrepareDraft(x) ==
  /\ actor[x].at = "prepare"
  /\ expansionDrafts' = [expansionDrafts EXCEPT ![actor[x].draft] = [state |-> "prepared", ref |-> actor[x].ref]]
  /\ GoOn(x, [actor[x] EXCEPT !.at = "resume"])
  /\ UNCHANGED <<self, onboarded, proposals, facetVersions, refinementAudits, reversions, confirmations,
                 draftLock, touched, ownerCrashes>>
\* ApplyRefinement of the draft's refinement: one that is applied needs no write.
ReadRefinement(x) ==
  /\ actor[x].at = "resume"
  /\ GoOn(x, [actor[x] EXCEPT !.at = IF proposals[actor[x].ref].state = "applied" THEN "confirm" ELSE "apply"])
  /\ UNCHANGED <<self, onboarded, proposals, facetVersions, refinementAudits, reversions, expansionDrafts,
                 confirmations, draftLock, touched, ownerCrashes>>
ConfirmFacet(x) ==
  /\ actor[x].at = "confirm"
  /\ confirmations' = [confirmations EXCEPT ![actor[x].draft.facet] = actor[x].draft.body]
  /\ GoOn(x, [actor[x] EXCEPT !.at = "close"])
  /\ UNCHANGED <<self, onboarded, proposals, facetVersions, refinementAudits, reversions, expansionDrafts, draftLock,
                 touched, ownerCrashes>>
\* compactExpansionDrafts removes the applied drafts of the facet, one by one; a
\* crash among them is a crash before this step.  Then the draft is closed.
CloseDraft(x) ==
  /\ actor[x].at = "close"
  /\ expansionDrafts' = [d \in Draft |->
       IF d = actor[x].draft THEN [state |-> "applied", ref |-> actor[x].ref]
       ELSE IF d.facet = actor[x].draft.facet /\ expansionDrafts[d] # Unset /\ expansionDrafts[d].state = "applied"
       THEN Unset ELSE expansionDrafts[d]]
  /\ draftLock' = NoActor /\ GoOn(x, ActorIdle)
  /\ UNCHANGED <<self, onboarded, proposals, facetVersions, refinementAudits, reversions, confirmations,
                 touched, ownerCrashes>>

\* A write fails or the process ends: what was written stays, the lock is released.
StopActor(x) ==
  /\ actor[x] # ActorIdle /\ ownerCrashes < MaxOwnerCrashes
  /\ ownerCrashes' = ownerCrashes + 1
  /\ draftLock' = IF draftLock = x THEN NoActor ELSE draftLock
  /\ GoOn(x, ActorIdle)
  /\ UNCHANGED <<self, onboarded, proposals, facetVersions, refinementAudits, reversions, expansionDrafts,
                 confirmations, touched>>

OwnerNext ==
  \/ \E f \in Facet, b \in Text : EditFacet(f, b) \/ DraftExpansion(f, b)
  \/ ConfirmOnboarding \/ SelectOnboardingTrack
  \/ \E x \in Actor :
       \/ ReadFacet(x) \/ WriteRefinement(x) \/ Restore(x) \/ Restored(x)
       \/ PrepareDraft(x) \/ ReadRefinement(x) \/ ConfirmFacet(x) \/ CloseDraft(x) \/ StopActor(x)
       \/ \E d \in Draft : ConfirmExpansion(x, d)
       \/ \E p \in RefinementProposal :
            \/ ApplyRefinement(x, p) \/ RevertRefinement(x, p) \/ SubmitDraft(x, p)
            \/ \E f \in Facet, b \in Text, automatic \in BOOLEAN :
                 SubmitRefinement(x, p, f, b, automatic)
OwnerSpec == OwnerInit /\ [][OwnerNext]_ownerVars

-----------------------------------------------------------------------------
\* At most one draft is ever under review, across crashes between the submission
\* of a refinement and the end of its confirmation: Inspect fails for good on two.
OneOpenDraft ==
  Cardinality({d \in Draft : expansionDrafts[d] # Unset /\ expansionDrafts[d].state # "applied"}) <= 1

\* A confirmation that stopped after its refinement was submitted can be taken up
\* again: unless another writer changed the facet, apply finds it unchanged, or
\* replaced under an audit that proves by whom.
PreparedResumable ==
  \A d \in DraftsUnderReview :
    (expansionDrafts[d].state = "prepared" /\ expansionDrafts[d].ref \notin touched) =>
      LET p == expansionDrafts[d].ref
      IN \/ self[d.facet] = proposals[p].source
         \/ self[d.facet] = proposals[p].body /\ refinementAudits[p] # Unset

\* An interrupted interview never blocks the next answer: there is one draft to
\* take up, and it can be taken up.
InterviewResumable == OneOpenDraft /\ PreparedResumable
=============================================================================
