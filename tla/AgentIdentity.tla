--------------------------- MODULE AgentIdentity ---------------------------
(***************************************************************************)
(* The owner's personalization of the managed agents: a guided interview   *)
(* asks for one role at a time, an answer becomes a draft, and a confirmed *)
(* draft replaces the stored profile.  Draft and confirmation hold the     *)
(* transition lock, which a stopped process gives up; every file is        *)
(* replaced atomically, but a confirmation is four files one after the     *)
(* other and may stop between any two.                                     *)
(***************************************************************************)
EXTENDS Naturals, FiniteSets

CONSTANTS Interviewer, DraftSet, MaxIdentityCrashes, MaxEdits

VARIABLES drafts,              \* the files under agents/interview/drafts
          profile,             \* agents/personalization.json
          interviewer, transitionLock, identityCrashes, edits

identityVars == <<drafts, profile, interviewer, transitionLock, identityCrashes, edits>>

NoDraft == [state |-> "none"]
NotThere == [roles |-> 0, by |-> "nobody"]
Free == "free"
Listening == [at |-> "listening"]

IdentityInit ==
  /\ drafts = [d \in DraftSet |-> NoDraft] /\ profile = NotThere
  /\ interviewer = [i \in Interviewer |-> Listening]
  /\ transitionLock = Free /\ identityCrashes = 0 /\ edits = 0

-----------------------------------------------------------------------------
\* readProfileDraft refuses a file that is not a valid draft in one of these states.
ReadableDraft(d) == drafts[d].state \in {"drafted", "prepared", "applied"}
OpenDrafts == {d \in DraftSet : ReadableDraft(d) /\ drafts[d].state # "applied"}
\* The envelope the review digest is computed over: what the draft was written
\* against and what it would store.
Envelope(base, next) == [state |-> "drafted", base |-> base, profile |-> next]
\* The question GuidedIdentityInterview asks: the first role not configured.
NextRole == IF profile.roles < 3 THEN profile.roles + 1 ELSE 3
LockFree == transitionLock = Free
Says(i, next) == interviewer' = [interviewer EXCEPT ![i] = next]
Release(i) == transitionLock' = Free /\ Says(i, Listening)

\* GuidedIdentityInterview: an open draft must be reviewed first, else the first
\* role the profile does not configure is asked for; DraftProfile takes an
\* answer to that question alone, or any change once the interview is complete.
DraftProfile(i, d) ==
  /\ interviewer[i] = Listening /\ LockFree
  /\ drafts[d] = NoDraft /\ OpenDrafts = {}
  /\ drafts' = [drafts EXCEPT ![d] = Envelope(profile, [roles |-> NextRole, by |-> d])]
  /\ UNCHANGED <<profile, interviewer, transitionLock, identityCrashes, edits>>

\* ConfirmProfileDraft: the reviewed draft is open and its base, or what it was
\* to write, is what is stored.
Confirmable(d) ==
  \/ drafts[d].state = "drafted" /\ profile = drafts[d].base
  \/ drafts[d].state = "prepared" /\ profile \in {drafts[d].base, drafts[d].profile}
Confirm(i, d) ==
  /\ interviewer[i] = Listening /\ LockFree /\ ReadableDraft(d) /\ Confirmable(d)
  /\ transitionLock' = i /\ Says(i, [at |-> "confirm", draft |-> d, step |-> 1,
                                        saved |-> profile = drafts[d].profile])
  /\ UNCHANGED <<drafts, profile, identityCrashes, edits>>

\* The order of the writes: the draft is marked prepared, the profile saved,
\* closed drafts removed, and the draft marked applied.
\* Mutant: the profile is saved before the draft says so.
ConfirmOrderUnmarked == <<"save", "prepare", "compact", "apply">>
ConfirmOrder == <<"prepare", "save", "compact", "apply">>
\* writeIdentityJSON replaces one draft file atomically.
WriteDraft(d, state) == drafts' = [drafts EXCEPT ![d].state = state] /\ UNCHANGED profile
CompactDrafts(d) ==
  /\ drafts' = [c \in DraftSet |-> IF c # d /\ drafts[c].state = "applied"
                                   THEN [state |-> "removed"] ELSE drafts[c]]
  /\ UNCHANGED profile
ConfirmStep(i) ==
  /\ interviewer[i].at = "confirm"
  /\ LET d == interviewer[i].draft
         step == ConfirmOrder[interviewer[i].step] IN
     /\ CASE step = "prepare" -> WriteDraft(d, "prepared")
          [] step = "save"    -> /\ profile' = IF interviewer[i].saved THEN profile ELSE drafts[d].profile
                                 /\ UNCHANGED drafts
          [] step = "compact" -> CompactDrafts(d)
          [] step = "apply"   -> WriteDraft(d, "applied")
     /\ IF step = "apply" THEN Release(i)
        ELSE /\ Says(i, [interviewer[i] EXCEPT !.step = @ + 1])
             /\ UNCHANGED transitionLock
  /\ UNCHANGED <<identityCrashes, edits>>

\* A write fails or the process stops: what was written stays.
ConfirmStops(i) ==
  /\ interviewer[i].at = "confirm"
  /\ identityCrashes < MaxIdentityCrashes /\ identityCrashes' = identityCrashes + 1
  /\ Release(i)
  /\ UNCHANGED <<drafts, profile, edits>>

\* Save called from elsewhere takes no lock.
Save ==
  /\ edits < MaxEdits /\ edits' = edits + 1
  /\ profile' = [roles |-> 3, by |-> "owner"]
  /\ UNCHANGED <<drafts, interviewer, transitionLock, identityCrashes>>

IdentityNext ==
  \/ Save
  \/ \E i \in Interviewer :
       \/ \E d \in DraftSet : DraftProfile(i, d) \/ Confirm(i, d)
       \/ ConfirmStep(i) \/ ConfirmStops(i)
IdentitySpec == IdentityInit /\ [][IdentityNext]_identityVars

-----------------------------------------------------------------------------
\* An interrupted confirmation can be taken up again: unless the profile was
\* saved from elsewhere, the one open draft is confirmable, so the interview
\* never ends in a draft that blocks every next answer.
InterruptedConfirmable ==
  transitionLock = Free =>
    /\ Cardinality(OpenDrafts) <= 1
    /\ \A d \in OpenDrafts : Confirmable(d) \/ edits > 0
=============================================================================
