---------------------------- MODULE LearningProofs ----------------------------
(***************************************************************************)
(* What is proved of the identity interview, of Darwin's evolution store   *)
(* and of its health jobs, of the daily journal and of the workspace       *)
(* agent's control plane, for any number of processes, drafts, records,    *)
(* occurrences, checkpoints, plans, budgets and crashes.                   *)
(***************************************************************************)
EXTENDS AgentIdentity, DarwinEvolution, DarwinWorker, DailyJournal, WorkspaceAgent,
        FiniteSetTheorems, TLAPS

-----------------------------------------------------------------------------
(***************************************************************************)
(* AgentIdentity.  There is one open draft at most, and unless somebody    *)
(* saved the profile from elsewhere it is confirmable even between the     *)
(* files of a confirmation.  The holder of the lock is the only process    *)
(* that confirms, its draft is the open one, and past the first file the   *)
(* draft says so.                                                          *)
(***************************************************************************)
Closed == {NoDraft, [state |-> "removed"]}
DraftShaped(d) ==
  \/ drafts[d] \in Closed
  \/ \E state \in {"drafted", "prepared", "applied"} : \E base, next :
       drafts[d] = [state |-> state, base |-> base, profile |-> next]
Confirming(i) ==
  /\ transitionLock = i
  /\ \E d \in DraftSet, step \in 1..4, saved \in BOOLEAN :
       /\ interviewer[i] = [at |-> "confirm", draft |-> d, step |-> step, saved |-> saved]
       /\ d \in OpenDrafts
       /\ step > 1 => drafts[d].state = "prepared"
IdentityInv ==
  /\ DOMAIN drafts = DraftSet /\ DOMAIN interviewer = Interviewer /\ edits \in Nat
  /\ \A d \in DraftSet : DraftShaped(d)
  /\ \A i \in Interviewer : interviewer[i] = Listening \/ Confirming(i)
  /\ \A c, d \in OpenDrafts : c = d
  /\ edits = 0 => \A d \in OpenDrafts : Confirmable(d)

\* What an open draft is.
LEMMA OpenIsDraft ==
  ASSUME NEW d \in DraftSet, DraftShaped(d)
  PROVE  d \in OpenDrafts <=> drafts[d].state \in {"drafted", "prepared"}
  BY DEF OpenDrafts, ReadableDraft, DraftShaped, Closed, NoDraft

\* A draft that is written, or one that stays as it was.
LEMMA WrittenIsShaped ==
  ASSUME NEW c \in DraftSet,
         \/ DraftShaped(c) /\ drafts'[c] = drafts[c]
         \/ drafts'[c] \in Closed
         \/ \E state \in {"drafted", "prepared", "applied"} : \E base, next :
              drafts'[c] = [state |-> state, base |-> base, profile |-> next]
  PROVE  DraftShaped(c)'
<1>1. CASE DraftShaped(c) /\ drafts'[c] = drafts[c]
  BY <1>1, Zenon DEF DraftShaped
<1>2. CASE drafts'[c] \in Closed
  BY <1>2, Zenon DEF DraftShaped
<1> QED
  BY <1>1, <1>2, Zenon DEF DraftShaped

\* One process goes on, the others stay.
LEMMA OneInterviewerSays ==
  ASSUME DOMAIN interviewer = Interviewer, NEW i \in Interviewer, NEW next, Says(i, next)
  PROVE  DOMAIN interviewer' = Interviewer /\ interviewer'[i] = next /\ \A j \in Interviewer \ {i} : interviewer'[j] = interviewer[j]
  BY DEF Says

\* While one process confirms, the others listen.
LEMMA OthersListen ==
  ASSUME IdentityInv, NEW i \in Interviewer, transitionLock = i \/ transitionLock = Free, Free \notin Interviewer
  PROVE  \A j \in Interviewer \ {i} : interviewer[j] = Listening
  BY DEF IdentityInv, Confirming

\* Every step keeps the invariant.
LEMMA IdentityStep ==
  ASSUME Free \notin Interviewer, IdentityInv, [IdentityNext]_identityVars
  PROVE  IdentityInv'
<1>0. /\ DOMAIN drafts = DraftSet /\ DOMAIN interviewer = Interviewer /\ edits \in Nat
      /\ \A d \in DraftSet : DraftShaped(d)
      /\ \A i \in Interviewer : interviewer[i] = Listening \/ Confirming(i)
      /\ \A c, d \in OpenDrafts : c = d
      /\ edits = 0 => \A d \in OpenDrafts : Confirmable(d)
  BY DEF IdentityInv
<1>1. CASE UNCHANGED identityVars
  BY <1>1 DEF identityVars, IdentityInv, DraftShaped, Confirming, OpenDrafts, ReadableDraft, Confirmable
<1>2. CASE Save
  BY <1>2 DEF Save, IdentityInv, DraftShaped, Confirming, OpenDrafts, ReadableDraft
<1>3. ASSUME NEW i \in Interviewer, NEW d \in DraftSet, DraftProfile(i, d) PROVE IdentityInv'
  <2>1. drafts' = [drafts EXCEPT ![d] = [state |-> "drafted", base |-> profile, profile |-> [roles |-> NextRole, by |-> d]]]
    BY <1>3 DEF DraftProfile, Envelope
  <2>2. \A c \in DraftSet : DraftShaped(c)'
    <3>1. /\ drafts'[d] = [state |-> "drafted", base |-> profile, profile |-> [roles |-> NextRole, by |-> d]]
          /\ \A c \in DraftSet \ {d} : drafts'[c] = drafts[c]
      BY <1>0, <2>1
    <3> QED
      BY <1>0, <3>1, WrittenIsShaped
  <2>3. OpenDrafts' = {d}
    BY <1>0, <1>3, <2>1 DEF DraftProfile, OpenDrafts, ReadableDraft
  <2>4. Confirmable(d)'
    BY <1>0, <1>3, <2>1 DEF DraftProfile, Confirmable
  <2>5. \A j \in Interviewer : interviewer[j] = Listening
    BY <1>0, <1>3, OthersListen DEF DraftProfile, LockFree
  <2> QED
    BY <1>0, <1>3, <2>1, <2>2, <2>3, <2>4, <2>5 DEF DraftProfile, IdentityInv
<1>4. ASSUME NEW i \in Interviewer, NEW d \in DraftSet, Confirm(i, d) PROVE IdentityInv'
  <2>1. d \in OpenDrafts /\ UNCHANGED <<drafts, profile, edits>>
    BY <1>0, <1>4 DEF Confirm, OpenDrafts, Confirmable
  <2>2. \A j \in Interviewer \ {i} : interviewer[j] = Listening
    BY <1>4, OthersListen DEF Confirm, LockFree
  <2> DEFINE saved == profile = drafts[d].profile
  <2>3. saved \in BOOLEAN
    OBVIOUS
  <2> HIDE DEF saved
  <2>4. /\ DOMAIN interviewer' = Interviewer /\ interviewer'[i] = [at |-> "confirm", draft |-> d, step |-> 1, saved |-> saved]
        /\ \A j \in Interviewer \ {i} : interviewer'[j] = interviewer[j]
    BY <1>0, <1>4, OneInterviewerSays DEF Confirm, saved
  <2>5. Confirming(i)'
    BY <1>4, <2>1, <2>3, <2>4 DEF Confirm, Confirming, OpenDrafts, ReadableDraft
  <2> QED
    BY <1>0, <2>1, <2>2, <2>4, <2>5 DEF IdentityInv, DraftShaped, OpenDrafts, ReadableDraft, Confirmable
<1>5. ASSUME NEW i \in Interviewer, ConfirmStops(i) PROVE IdentityInv'
  <2>1. Confirming(i)
    BY <1>0, <1>5 DEF ConfirmStops, Listening
  <2>2. \A j \in Interviewer \ {i} : interviewer[j] = Listening
    BY <2>1, OthersListen DEF Confirming
  <2>3. \A j \in Interviewer : interviewer'[j] = Listening
    BY <1>0, <1>5, <2>2, OneInterviewerSays DEF ConfirmStops, Release
  <2> QED
    BY <1>0, <1>5, <2>3, OneInterviewerSays DEF ConfirmStops, Release, IdentityInv, DraftShaped, OpenDrafts, ReadableDraft, Confirmable
<1>6. ASSUME NEW i \in Interviewer, ConfirmStep(i) PROVE IdentityInv'
  <2>1. Confirming(i)
    BY <1>0, <1>6 DEF ConfirmStep, Listening
  <2>2. PICK d \in DraftSet, step \in 1..4, saved \in BOOLEAN :
          /\ interviewer[i] = [at |-> "confirm", draft |-> d, step |-> step, saved |-> saved]
          /\ d \in OpenDrafts /\ (step > 1 => drafts[d].state = "prepared")
    BY <2>1 DEF Confirming
  <2>3. \A j \in Interviewer \ {i} : interviewer[j] = Listening
    BY <2>1, OthersListen DEF Confirming
  <2>4. PICK base, next : drafts[d] = [state |-> drafts[d].state, base |-> base, profile |-> next]
    BY <1>0, <2>2, OpenIsDraft DEF DraftShaped, Closed, NoDraft
  <2>5. \A c \in OpenDrafts : c = d
    BY <1>0, <2>2
  <2>6. CASE step = 1
    <3>1. ConfirmOrder[interviewer[i].step] = "prepare"
      BY <2>2, <2>6 DEF ConfirmOrder
    <3>2. /\ drafts' = [drafts EXCEPT ![d] = [state |-> "prepared", base |-> base, profile |-> next]]
          /\ profile' = profile /\ Says(i, [interviewer[i] EXCEPT !.step = @ + 1]) /\ UNCHANGED <<transitionLock, edits>>
      BY <1>6, <2>2, <2>4, <3>1 DEF ConfirmStep, WriteDraft
    <3>3. OpenDrafts' = {d} /\ \A c \in DraftSet : DraftShaped(c)'
      <4>1. /\ drafts'[d] = [state |-> "prepared", base |-> base, profile |-> next]
            /\ \A c \in DraftSet \ {d} : drafts'[c] = drafts[c]
        BY <1>0, <3>2
      <4>2. OpenDrafts' = {d}
        BY <2>2, <2>5, <4>1 DEF OpenDrafts, ReadableDraft
      <4> QED
        BY <1>0, <4>1, <4>2, WrittenIsShaped
    <3>4. edits = 0 => Confirmable(d)'
      BY <1>0, <2>2, <2>4, <3>2 DEF Confirmable
    <3>5. interviewer'[i] = [at |-> "confirm", draft |-> d, step |-> 2, saved |-> saved]
      BY <1>0, <2>2, <2>6, <3>2, OneInterviewerSays
    <3>6. Confirming(i)'
      BY <1>0, <2>1, <3>2, <3>3, <3>5 DEF Confirming
    <3> QED
      BY <1>0, <2>3, <3>2, <3>3, <3>4, <3>6, OneInterviewerSays DEF IdentityInv
  <2>7. CASE step = 2
    <3>1. ConfirmOrder[interviewer[i].step] = "save"
      BY <2>2, <2>7 DEF ConfirmOrder
    <3>2. /\ profile' = profile \/ profile' = next
          /\ drafts' = drafts /\ Says(i, [interviewer[i] EXCEPT !.step = @ + 1]) /\ UNCHANGED <<transitionLock, edits>>
      BY <1>6, <2>2, <2>4, <3>1 DEF ConfirmStep
    <3>3. OpenDrafts' = {d} /\ \A c \in DraftSet : DraftShaped(c)'
      BY <1>0, <2>2, <2>5, <3>2 DEF OpenDrafts, ReadableDraft, DraftShaped
    <3>4. edits = 0 => Confirmable(d)'
      BY <1>0, <2>2, <2>4, <2>7, <3>2 DEF Confirmable
    <3>5. interviewer'[i] = [at |-> "confirm", draft |-> d, step |-> 3, saved |-> saved]
      BY <1>0, <2>2, <2>7, <3>2, OneInterviewerSays
    <3>6. Confirming(i)'
      BY <1>0, <2>1, <2>2, <2>7, <3>2, <3>3, <3>5 DEF Confirming
    <3> QED
      BY <1>0, <2>3, <3>2, <3>3, <3>4, <3>6, OneInterviewerSays DEF IdentityInv
  <2>8. CASE step = 3
    <3>1. ConfirmOrder[interviewer[i].step] = "compact"
      BY <2>2, <2>8 DEF ConfirmOrder
    <3>2. /\ drafts' = [c \in DraftSet |-> IF c # d /\ drafts[c].state = "applied" THEN [state |-> "removed"] ELSE drafts[c]]
          /\ profile' = profile /\ Says(i, [interviewer[i] EXCEPT !.step = @ + 1]) /\ UNCHANGED <<transitionLock, edits>>
      BY <1>6, <2>2, <3>1 DEF ConfirmStep, CompactDrafts
    <3>3. OpenDrafts' = {d} /\ \A c \in DraftSet : DraftShaped(c)'
      <4>1. \A c \in DraftSet : drafts'[c] = drafts[c] \/ (c # d /\ drafts[c].state = "applied" /\ drafts'[c] = [state |-> "removed"])
        BY <1>0, <3>2
      <4>2. drafts'[d] = drafts[d]
        BY <3>2
      <4>3. OpenDrafts' = {d}
        BY <2>2, <2>5, <4>1, <4>2 DEF OpenDrafts, ReadableDraft
      <4> QED
        BY <1>0, <4>1, <4>3, WrittenIsShaped DEF Closed
    <3>4. edits = 0 => Confirmable(d)'
      BY <1>0, <2>2, <3>2 DEF Confirmable
    <3>5. interviewer'[i] = [at |-> "confirm", draft |-> d, step |-> 4, saved |-> saved]
      BY <1>0, <2>2, <2>8, <3>2, OneInterviewerSays
    <3>6. Confirming(i)'
      BY <1>0, <2>1, <2>2, <2>8, <3>2, <3>3, <3>5 DEF Confirming
    <3> QED
      BY <1>0, <2>3, <3>2, <3>3, <3>4, <3>6, OneInterviewerSays DEF IdentityInv
  <2>9. CASE step = 4
    <3>1. ConfirmOrder[interviewer[i].step] = "apply"
      BY <2>2, <2>9 DEF ConfirmOrder
    <3>2. /\ drafts' = [drafts EXCEPT ![d] = [state |-> "applied", base |-> base, profile |-> next]]
          /\ profile' = profile /\ Says(i, Listening) /\ UNCHANGED edits
      BY <1>6, <2>2, <2>4, <3>1 DEF ConfirmStep, WriteDraft, Release
    <3>3. OpenDrafts' = {} /\ \A c \in DraftSet : DraftShaped(c)'
      <4>1. /\ drafts'[d] = [state |-> "applied", base |-> base, profile |-> next]
            /\ \A c \in DraftSet \ {d} : drafts'[c] = drafts[c]
        BY <1>0, <3>2
      <4>2. OpenDrafts' = {}
        BY <2>2, <2>5, <4>1 DEF OpenDrafts, ReadableDraft
      <4> QED
        BY <1>0, <4>1, <4>2, WrittenIsShaped
    <3> QED
      BY <1>0, <2>3, <3>2, <3>3, OneInterviewerSays DEF IdentityInv
  <2> QED
    BY <2>6, <2>7, <2>8, <2>9
<1> QED
  BY <1>1, <1>2, <1>3, <1>4, <1>5, <1>6 DEF IdentityNext

\* ConfirmProfileDraft: with any number of processes and drafts, stopped any number of
\* times between any two of its files, an interrupted confirmation can be taken up
\* again, unless the profile was saved from elsewhere (InterruptedConfirmable).
THEOREM InterruptedTakenUp ==
  ASSUME Free \notin Interviewer
  PROVE  IdentitySpec => []InterruptedConfirmable
<1>1. IdentityInit => IdentityInv
  BY DEF IdentityInit, IdentityInv, DraftShaped, Closed, OpenDrafts, ReadableDraft, NoDraft
<1>2. IdentityInv /\ [IdentityNext]_identityVars => IdentityInv'
  BY IdentityStep
<1>3. IdentityInv => InterruptedConfirmable
  <2> SUFFICES ASSUME IdentityInv PROVE InterruptedConfirmable
    OBVIOUS
  <2>1. Cardinality(OpenDrafts) <= 1
    <3>1. CASE OpenDrafts = {}
      BY <3>1, FS_EmptySet
    <3>2. CASE OpenDrafts # {}
      <4>1. PICK d \in OpenDrafts : TRUE
        BY <3>2
      <4>2. OpenDrafts = {d}
        BY <4>1 DEF IdentityInv
      <4>3. Cardinality({d}) = 1
        BY FS_Singleton
      <4> QED
        BY <4>2, <4>3
    <3> QED
      BY <3>1, <3>2
  <2> QED
    BY <2>1 DEF IdentityInv, InterruptedConfirmable
<1> QED
  BY <1>1, <1>2, <1>3, PTL DEF IdentitySpec

-----------------------------------------------------------------------------
(***************************************************************************)
(* DarwinEvolution.  Files are never replaced, so what a record relies on, *)
(* once there, stays there: a record is backed by the files that its       *)
(* writer validated it against, and remains so until it is published and   *)
(* ever after, whatever others publish in between.  Events and versions    *)
(* are taken in order because each relies on all before it.                *)
(***************************************************************************)
EpisodeBacked(path, r) ==
  \E e \in Episode, w \in Window, pin \in Pin : path = EpisodePath(e) /\ r = [window |-> w, pin |-> pin]
EventBacked(path, r) ==
  \E e \in Episode, n \in 1 .. MaxRevision, s \in EventStates :
    /\ path = EventPath(e, n) /\ r = [state |-> s]
    /\ Exists(EpisodePath(e)) /\ \A m \in 1 .. (n - 1) : Exists(EventPath(e, m))
    /\ ValidTransition(StateAt(e, n - 1), s)
WindowBacked(path, r) ==
  \E w \in Window, v \in 1 .. MaxVersion, pin \in Pin, observed \in SUBSET Episode :
    /\ path = WindowPath(w, v) /\ r = [version |-> v, pin |-> pin, observed |-> observed]
    /\ \A u \in 1 .. (v - 1) : Exists(WindowPath(w, u))
    /\ v > 1 => files[WindowPath(w, 1)].pin = pin
    /\ \A e \in observed : Exists(EpisodePath(e)) /\ files[EpisodePath(e)] = [window |-> w, pin |-> pin]
ProposalBacked(path, r) ==
  \E p \in Proposal, w \in Window, v \in 1 .. MaxVersion, pin \in Pin :
    /\ path = ProposalPath(p) /\ Exists(WindowPath(w, v)) /\ files[WindowPath(w, v)].pin = pin
    /\ r = [window |-> w, pin |-> pin, evidence |-> files[WindowPath(w, v)]]
DecisionBacked(path, r) ==
  \E p \in Proposal, d \in Decisions :
    path = DecisionPath(p) /\ Exists(ProposalPath(p)) /\ r = [of |-> files[ProposalPath(p)], decision |-> d]
Backed(path, r) ==
  \/ EpisodeBacked(path, r) \/ EventBacked(path, r) \/ WindowBacked(path, r)
  \/ ProposalBacked(path, r) \/ DecisionBacked(path, r)

FilesBacked == \A path, r : (Exists(path) /\ files[path] = r) => Backed(path, r)
PendingBacked ==
  \A x \in Writer :
    pending[x] = Nothing \/ \E path, r : pending[x] = [path |-> path, record |-> r] /\ Backed(path, r)
InOrder ==
  /\ \A e \in Episode : \E k \in 0 .. MaxRevision : Revisions(e) = 1 .. k
  /\ \A w \in Window : \E k \in 0 .. MaxVersion : Versions(w) = 1 .. k
EvolutionInv == DOMAIN pending = Writer /\ FilesBacked /\ PendingBacked /\ InOrder

\* The paths of different records are different.
LEMMA PathsDiffer ==
  /\ \A e, f : EpisodePath(e) = EpisodePath(f) => e = f
  /\ \A e, f, n, m : EventPath(e, n) = EventPath(f, m) => (e = f /\ n = m)
  /\ \A w, y, v, u : WindowPath(w, v) = WindowPath(y, u) => (w = y /\ v = u)
  /\ \A p, q : ProposalPath(p) = ProposalPath(q) => p = q
  /\ \A p, q : DecisionPath(p) = DecisionPath(q) => p = q
  BY DEF EpisodePath, EventPath, WindowPath, ProposalPath, DecisionPath

\* And every path tells the kind of its record.
LEMMA KindsOfPaths ==
  /\ \A e : EpisodePath(e)[1] = "episode"
  /\ \A e, n : EventPath(e, n)[1] = "event"
  /\ \A w, v : WindowPath(w, v)[1] = "window"
  /\ \A p : ProposalPath(p)[1] = "proposal"
  /\ \A p : DecisionPath(p)[1] = "decision"
  BY DEF EpisodePath, EventPath, WindowPath, ProposalPath, DecisionPath

\* What kind of record a path can have.
LEMMA KindsOfRecords ==
  ASSUME NEW r
  PROVE  /\ \A e : Backed(EpisodePath(e), r) => EpisodeBacked(EpisodePath(e), r)
         /\ \A e, n : Backed(EventPath(e, n), r) => EventBacked(EventPath(e, n), r)
         /\ \A w, v : Backed(WindowPath(w, v), r) => WindowBacked(WindowPath(w, v), r)
         /\ \A p : Backed(ProposalPath(p), r) => ProposalBacked(ProposalPath(p), r)
         /\ \A p : Backed(DecisionPath(p), r) => DecisionBacked(DecisionPath(p), r)
<1>1. ASSUME NEW path PROVE /\ EpisodeBacked(path, r) => path[1] = "episode"
                            /\ EventBacked(path, r) => path[1] = "event"
                            /\ WindowBacked(path, r) => path[1] = "window"
                            /\ ProposalBacked(path, r) => path[1] = "proposal"
                            /\ DecisionBacked(path, r) => path[1] = "decision"
  BY KindsOfPaths DEF EpisodeBacked, EventBacked, WindowBacked, ProposalBacked, DecisionBacked
<1> QED
  BY <1>1, KindsOfPaths DEF Backed

\* What is there stays, and with it what backs a record.
LEMMA BackedStays ==
  ASSUME MaxRevision \in Nat, MaxVersion \in Nat, NEW path, NEW r, Backed(path, r),
         \A q : Exists(q) => (Exists(q)' /\ files'[q] = files[q])
  PROVE  Backed(path, r)'
<1>1. CASE EpisodeBacked(path, r)
  BY <1>1 DEF Backed, EpisodeBacked
<1>2. CASE EventBacked(path, r)
  <2>1. PICK e \in Episode, n \in 1 .. MaxRevision, s \in EventStates :
          /\ path = EventPath(e, n) /\ r = [state |-> s]
          /\ Exists(EpisodePath(e)) /\ \A m \in 1 .. (n - 1) : Exists(EventPath(e, m))
          /\ ValidTransition(StateAt(e, n - 1), s)
    BY <1>2 DEF EventBacked
  <2>2. (StateAt(e, n - 1))' = StateAt(e, n - 1)
    BY <2>1 DEF StateAt
  <2>3. EventBacked(path, r)'
    BY <2>1, <2>2 DEF EventBacked
  <2> QED
    BY <2>3 DEF Backed
<1>3. CASE WindowBacked(path, r)
  <2>1. PICK w \in Window, v \in 1 .. MaxVersion, pin \in Pin, observed \in SUBSET Episode :
          /\ path = WindowPath(w, v) /\ r = [version |-> v, pin |-> pin, observed |-> observed]
          /\ \A u \in 1 .. (v - 1) : Exists(WindowPath(w, u))
          /\ v > 1 => files[WindowPath(w, 1)].pin = pin
          /\ \A e \in observed : Exists(EpisodePath(e)) /\ files[EpisodePath(e)] = [window |-> w, pin |-> pin]
    BY <1>3 DEF WindowBacked
  <2>2. v > 1 => files'[WindowPath(w, 1)].pin = pin
    BY <2>1
  <2>3. /\ \A u \in 1 .. (v - 1) : Exists(WindowPath(w, u))'
        /\ \A e \in observed : Exists(EpisodePath(e))' /\ files'[EpisodePath(e)] = [window |-> w, pin |-> pin]
    BY <2>1
  <2>4. WindowBacked(path, r)'
    BY <2>1, <2>2, <2>3, Zenon DEF WindowBacked
  <2> QED
    BY <2>4 DEF Backed
<1>4. CASE ProposalBacked(path, r)
  BY <1>4 DEF Backed, ProposalBacked
<1>5. CASE DecisionBacked(path, r)
  BY <1>5 DEF Backed, DecisionBacked
<1> QED
  BY <1>1, <1>2, <1>3, <1>4, <1>5 DEF Backed

\* Events and versions without a gap are counted by their number.
LEMMA CountedInOrder ==
  ASSUME MaxRevision \in Nat, MaxVersion \in Nat, InOrder
  PROVE  /\ \A e \in Episode : Revision(e) \in Nat /\ Revisions(e) = 1 .. Revision(e)
         /\ \A w \in Window : Version(w) \in Nat /\ Versions(w) = 1 .. Version(w)
<1>1. ASSUME NEW k \in Nat PROVE Cardinality(1 .. k) = k
  BY FS_Interval
<1>2. ASSUME NEW e \in Episode PROVE Revision(e) \in Nat /\ Revisions(e) = 1 .. Revision(e)
  <2>1. PICK k \in 0 .. MaxRevision : Revisions(e) = 1 .. k
    BY DEF InOrder
  <2> QED
    BY <1>1, <2>1 DEF Revision
<1>3. ASSUME NEW w \in Window PROVE Version(w) \in Nat /\ Versions(w) = 1 .. Version(w)
  <2>1. PICK k \in 0 .. MaxVersion : Versions(w) = 1 .. k
    BY DEF InOrder
  <2> QED
    BY <1>1, <2>1 DEF Version
<1> QED
  BY <1>2, <1>3

\* A writer that prepares a record goes on with it alone.
LEMMA PreparesBacked ==
  ASSUME EvolutionInv, NEW x \in Writer, NEW path, NEW r, Prepare(x, path, r), Backed(path, r)
  PROVE  EvolutionInv'
<1>1. files' = files /\ DOMAIN pending' = Writer /\ pending'[x] = [path |-> path, record |-> r]
      /\ \A y \in Writer \ {x} : pending'[y] = pending[y]
  BY DEF Prepare, EvolutionInv
<1>2. ASSUME NEW q, NEW t PROVE Backed(q, t)' <=> Backed(q, t)
  BY <1>1 DEF Backed, EpisodeBacked, EventBacked, WindowBacked, ProposalBacked, DecisionBacked, Exists, StateAt
<1>3. FilesBacked'
  BY <1>1, <1>2 DEF FilesBacked, EvolutionInv, Exists
<1>4. PendingBacked'
  BY <1>1, <1>2 DEF PendingBacked, EvolutionInv
<1>5. InOrder'
  BY <1>1 DEF InOrder, EvolutionInv, Revisions, Versions, Exists
<1> QED
  BY <1>1, <1>3, <1>4, <1>5 DEF EvolutionInv

\* Whatever AppendEpisode to AppendDecision validate backs the record.
LEMMA AppendBacked ==
  ASSUME MaxRevision \in Nat, MaxVersion \in Nat, EvolutionInv, NEW x \in Writer, AppendRecord(x)
  PROVE  EvolutionInv'
<1>0. FilesBacked /\ InOrder
  BY DEF EvolutionInv
<1>1. ASSUME NEW e \in Episode, NEW w \in Window, NEW pin \in Pin, AppendEpisode(x, e, w, pin) PROVE EvolutionInv'
  <2>1. Backed(EpisodePath(e), [window |-> w, pin |-> pin])
    BY DEF Backed, EpisodeBacked
  <2> QED
    BY <1>1, <2>1, PreparesBacked DEF AppendEpisode
<1>2. ASSUME NEW e \in Episode, NEW n \in 1 .. MaxRevision, NEW s \in EventStates, AppendEpisodeEvent(x, e, n, s)
      PROVE  EvolutionInv'
  <2>1. Revisions(e) = 1 .. (n - 1) /\ Revision(e) = n - 1
    BY <1>0, <1>2, CountedInOrder DEF AppendEpisodeEvent
  <2>2. \A m \in 1 .. (n - 1) : Exists(EventPath(e, m))
    BY <2>1 DEF Revisions
  <2>3. EventBacked(EventPath(e, n), [state |-> s])
    BY <1>2, <2>1, <2>2 DEF EventBacked, AppendEpisodeEvent, Recoverable
  <2> QED
    BY <1>2, <2>3, PreparesBacked DEF AppendEpisodeEvent, Backed
<1>3. ASSUME NEW w \in Window, NEW v \in 1 .. MaxVersion, NEW pin \in Pin, NEW o \in SUBSET Episode, AppendWindow(x, w, v, pin, o)
      PROVE  EvolutionInv'
  <2>1. Versions(w) = 1 .. (v - 1) /\ Version(w) = v - 1
    BY <1>0, <1>3, CountedInOrder DEF AppendWindow, CanAppendWindow
  <2>2. \A u \in 1 .. (v - 1) : Exists(WindowPath(w, u))
    BY <2>1 DEF Versions
  <2>3. v > 1 => files[WindowPath(w, 1)].pin = pin
    BY <1>3, <2>1 DEF AppendWindow, CanAppendWindow
  <2>4. ASSUME NEW e \in o PROVE Exists(EpisodePath(e)) /\ files[EpisodePath(e)] = [window |-> w, pin |-> pin]
    <3>1. Exists(EpisodePath(e)) /\ files[EpisodePath(e)].window = w /\ files[EpisodePath(e)].pin = pin
      BY <1>3 DEF AppendWindow, CanAppendWindow, EpisodesFit, Recoverable
    <3>2. EpisodeBacked(EpisodePath(e), files[EpisodePath(e)])
      BY <1>0, <3>1, KindsOfRecords DEF FilesBacked
    <3> QED
      BY <3>1, <3>2 DEF EpisodeBacked
  <2>5. WindowBacked(WindowPath(w, v), [version |-> v, pin |-> pin, observed |-> o])
    BY <2>2, <2>3, <2>4, Zenon DEF WindowBacked
  <2> QED
    BY <1>3, <2>5, PreparesBacked DEF AppendWindow, Backed
<1>4. ASSUME NEW p \in Proposal, NEW w \in Window, NEW pin \in Pin, AppendProposal(x, p, w, pin) PROVE EvolutionInv'
  <2>1. PICK v \in Versions(w) :
          /\ CanAppendProposal(w, pin, files[WindowPath(w, v)])
          /\ Prepare(x, ProposalPath(p), [window |-> w, pin |-> pin, evidence |-> files[WindowPath(w, v)]])
    BY <1>4 DEF AppendProposal
  <2>2. v \in 1 .. MaxVersion /\ Exists(WindowPath(w, v)) /\ files[WindowPath(w, v)].pin = pin
    BY <2>1 DEF Versions, CanAppendProposal
  <2>3. ProposalBacked(ProposalPath(p), [window |-> w, pin |-> pin, evidence |-> files[WindowPath(w, v)]])
    BY <2>2, Zenon DEF ProposalBacked
  <2> QED
    BY <2>1, <2>3, PreparesBacked DEF Backed
<1>5. ASSUME NEW p \in Proposal, NEW d \in Decisions, AppendDecision(x, p, d) PROVE EvolutionInv'
  <2>1. DecisionBacked(DecisionPath(p), [of |-> files[ProposalPath(p)], decision |-> d])
    BY <1>5, Zenon DEF AppendDecision, DecisionBacked
  <2> QED
    BY <1>5, <2>1, PreparesBacked DEF AppendDecision, Backed
<1> QED
  BY <1>1, <1>2, <1>3, <1>4, <1>5 DEF AppendRecord

\* A writer lets go of its record, published or not, while files only come to be.
LEMMA LetsGo ==
  ASSUME MaxRevision \in Nat, MaxVersion \in Nat, EvolutionInv, NEW x \in Writer,
         pending' = [pending EXCEPT ![x] = Nothing],
         \A q : Exists(q) => (Exists(q)' /\ files'[q] = files[q])
  PROVE  DOMAIN pending' = Writer /\ PendingBacked'
<1>1. DOMAIN pending' = Writer /\ pending'[x] = Nothing /\ \A y \in Writer \ {x} : pending'[y] = pending[y]
  BY DEF EvolutionInv
<1>2. ASSUME NEW path, NEW r, Backed(path, r) PROVE Backed(path, r)'
  BY <1>2, BackedStays
<1> QED
  BY <1>1, <1>2 DEF EvolutionInv, PendingBacked

\* publishEvolutionFile keeps what is there and adds a record that is backed.
LEMMA PublishBacked ==
  ASSUME MaxRevision \in Nat, MaxVersion \in Nat, EvolutionInv, NEW x \in Writer, Publish(x)
  PROVE  EvolutionInv'
<1>0. FilesBacked /\ InOrder /\ pending' = [pending EXCEPT ![x] = Nothing]
  BY DEF EvolutionInv, Publish
<1>1. PICK path, r : pending[x] = [path |-> path, record |-> r] /\ Backed(path, r)
  BY DEF Publish, EvolutionInv, PendingBacked
<1>2. CASE Exists(path)
  <2>1. files' = files
    BY <1>1, <1>2 DEF Publish
  <2>2. DOMAIN pending' = Writer /\ PendingBacked'
    BY <1>0, <2>1, LetsGo DEF Exists
  <2>3. ASSUME NEW q, NEW t, Backed(q, t) PROVE Backed(q, t)'
    BY <2>1, <2>3, BackedStays DEF Exists
  <2>4. FilesBacked' /\ InOrder'
    BY <1>0, <2>1, <2>3 DEF FilesBacked, InOrder, Revisions, Versions, Exists
  <2> QED
    BY <2>2, <2>4 DEF EvolutionInv
<1>3. CASE ~Exists(path)
  <2>1. DOMAIN files' = DOMAIN files \cup {path} /\ files'[path] = r /\ \A q \in DOMAIN files : files'[q] = files[q]
    BY <1>1, <1>3 DEF Publish, Exists
  <2>2. \A q : Exists(q)' <=> (Exists(q) \/ q = path)
    BY <2>1 DEF Exists
  <2>3. \A q : Exists(q) => (Exists(q)' /\ files'[q] = files[q])
    BY <2>1 DEF Exists
  <2>4. ASSUME NEW q, NEW t, Backed(q, t) PROVE Backed(q, t)'
    BY <2>3, <2>4, BackedStays
  <2>5. FilesBacked'
    BY <1>0, <1>1, <2>1, <2>2, <2>3, <2>4 DEF FilesBacked
  <2>6. ASSUME NEW e \in Episode PROVE \E k \in 0 .. MaxRevision : (Revisions(e))' = 1 .. k
    <3>1. PICK k \in 0 .. MaxRevision : Revisions(e) = 1 .. k
      BY <1>0 DEF InOrder
    <3>2. CASE \E n \in 1 .. MaxRevision : path = EventPath(e, n)
      <4>1. PICK n \in 1 .. MaxRevision : path = EventPath(e, n)
        BY <3>2
      <4>2. EventBacked(EventPath(e, n), r)
        BY <1>1, <4>1, KindsOfRecords
      <4>3. \A m \in 1 .. (n - 1) : Exists(EventPath(e, m))
        BY <4>2, PathsDiffer DEF EventBacked
      <4>4. 1 .. (n - 1) \subseteq Revisions(e) /\ n \notin Revisions(e)
        BY <1>3, <4>1, <4>3 DEF Revisions
      <4>5. n = k + 1
        BY <3>1, <4>4
      <4>6. (Revisions(e))' = Revisions(e) \cup {n}
        BY <2>2, <4>1, PathsDiffer DEF Revisions
      <4> QED
        BY <3>1, <4>5, <4>6
    <3>3. CASE \A n \in 1 .. MaxRevision : path # EventPath(e, n)
      BY <2>2, <3>1, <3>3 DEF Revisions
    <3> QED
      BY <3>2, <3>3
  <2>7. ASSUME NEW w \in Window PROVE \E k \in 0 .. MaxVersion : (Versions(w))' = 1 .. k
    <3>1. PICK k \in 0 .. MaxVersion : Versions(w) = 1 .. k
      BY <1>0 DEF InOrder
    <3>2. CASE \E v \in 1 .. MaxVersion : path = WindowPath(w, v)
      <4>1. PICK v \in 1 .. MaxVersion : path = WindowPath(w, v)
        BY <3>2
      <4>2. WindowBacked(WindowPath(w, v), r)
        BY <1>1, <4>1, KindsOfRecords
      <4>3. \A u \in 1 .. (v - 1) : Exists(WindowPath(w, u))
        BY <4>2, PathsDiffer DEF WindowBacked
      <4>4. 1 .. (v - 1) \subseteq Versions(w) /\ v \notin Versions(w)
        BY <1>3, <4>1, <4>3 DEF Versions
      <4>5. v = k + 1
        BY <3>1, <4>4
      <4>6. (Versions(w))' = Versions(w) \cup {v}
        BY <2>2, <4>1, PathsDiffer DEF Versions
      <4> QED
        BY <3>1, <4>5, <4>6
    <3>3. CASE \A v \in 1 .. MaxVersion : path # WindowPath(w, v)
      BY <2>2, <3>1, <3>3 DEF Versions
    <3> QED
      BY <3>2, <3>3
  <2>8. DOMAIN pending' = Writer /\ PendingBacked'
    BY <1>0, <2>3, LetsGo
  <2> QED
    BY <2>5, <2>6, <2>7, <2>8 DEF EvolutionInv, InOrder
<1> QED
  BY <1>2, <1>3

\* A writer that stops leaves the files as they are.
LEMMA AbandonBacked ==
  ASSUME MaxRevision \in Nat, MaxVersion \in Nat, EvolutionInv, NEW x \in Writer, Abandon(x)
  PROVE  EvolutionInv'
<1>1. files' = files /\ DOMAIN pending' = Writer /\ PendingBacked'
  BY LetsGo DEF Abandon, Exists
<1>2. ASSUME NEW q, NEW t, Backed(q, t) PROVE Backed(q, t)'
  BY <1>1, <1>2, BackedStays DEF Exists
<1>3. FilesBacked' /\ InOrder'
  BY <1>1, <1>2 DEF EvolutionInv, FilesBacked, InOrder, Revisions, Versions, Exists
<1> QED
  BY <1>1, <1>3 DEF EvolutionInv

\* Records that are all backed make every episode and window recoverable.
LEMMA BackedIsRecoverable ==
  ASSUME MaxRevision \in Nat, MaxVersion \in Nat, EvolutionInv
  PROVE  EvolutionRecoverable
<1>1. ASSUME NEW e \in Episode, Exists(EpisodePath(e)), NEW n \in Revisions(e)
      PROVE  ValidTransition(StateAt(e, n - 1), StateAt(e, n))
  <2>1. n \in 1 .. MaxRevision /\ Exists(EventPath(e, n))
    BY <1>1 DEF Revisions
  <2>2. EventBacked(EventPath(e, n), files[EventPath(e, n)])
    BY <2>1, KindsOfRecords DEF EvolutionInv, FilesBacked
  <2>3. PICK s \in EventStates : files[EventPath(e, n)] = [state |-> s] /\ ValidTransition(StateAt(e, n - 1), s)
    BY <2>2, PathsDiffer DEF EventBacked
  <2>4. StateAt(e, n) = s
    BY <2>1, <2>3 DEF StateAt
  <2> QED
    BY <2>3, <2>4
<1>2. ASSUME NEW w \in Window, NEW v \in Versions(w) PROVE files[WindowPath(w, v)].pin = files[WindowPath(w, 1)].pin
  <2>1. v \in 1 .. MaxVersion /\ Exists(WindowPath(w, v))
    BY <1>2 DEF Versions
  <2>2. WindowBacked(WindowPath(w, v), files[WindowPath(w, v)])
    BY <2>1, KindsOfRecords DEF EvolutionInv, FilesBacked
  <2>3. v > 1 => files[WindowPath(w, v)].pin = files[WindowPath(w, 1)].pin
    BY <2>2, PathsDiffer DEF WindowBacked
  <2> QED
    BY <2>1, <2>3
<1>3. /\ \A e \in Episode : Revisions(e) = 1 .. Cardinality(Revisions(e))
      /\ \A w \in Window : Versions(w) = 1 .. Version(w)
  BY CountedInOrder DEF EvolutionInv, Revision
<1> QED
  BY <1>1, <1>2, <1>3 DEF EvolutionRecoverable, Recoverable, RecoverableWindow

\* And a decision leads to its proposal, its evidence and the observed episodes.
LEMMA BackedIsChained ==
  ASSUME EvolutionInv
  PROVE  EvidenceChain
<1> SUFFICES ASSUME NEW p \in Proposal, Exists(DecisionPath(p))
             PROVE  LET prop == files[DecisionPath(p)].of IN
                    /\ Exists(ProposalPath(p)) /\ files[ProposalPath(p)] = prop
                    /\ \E v \in Versions(prop.window) : files[WindowPath(prop.window, v)] = prop.evidence
                    /\ \A e \in prop.evidence.observed :
                         Exists(EpisodePath(e)) /\ files[EpisodePath(e)] = [window |-> prop.window, pin |-> prop.pin]
  BY DEF EvidenceChain
<1>1. DecisionBacked(DecisionPath(p), files[DecisionPath(p)])
  BY KindsOfRecords DEF EvolutionInv, FilesBacked
<1>2. Exists(ProposalPath(p)) /\ files[ProposalPath(p)] = files[DecisionPath(p)].of
  BY <1>1, PathsDiffer DEF DecisionBacked
<1>3. ProposalBacked(ProposalPath(p), files[ProposalPath(p)])
  BY <1>2, KindsOfRecords DEF EvolutionInv, FilesBacked
<1>4. PICK w \in Window, v \in 1 .. MaxVersion, pin \in Pin :
        /\ Exists(WindowPath(w, v)) /\ files[WindowPath(w, v)].pin = pin
        /\ files[ProposalPath(p)] = [window |-> w, pin |-> pin, evidence |-> files[WindowPath(w, v)]]
  BY <1>3, PathsDiffer DEF ProposalBacked
<1>5. WindowBacked(WindowPath(w, v), files[WindowPath(w, v)])
  BY <1>4, KindsOfRecords DEF EvolutionInv, FilesBacked
<1>6. PICK y \in Window, u \in 1 .. MaxVersion, seen \in Pin, observed \in SUBSET Episode :
        /\ WindowPath(w, v) = WindowPath(y, u)
        /\ files[WindowPath(w, v)] = [version |-> u, pin |-> seen, observed |-> observed]
        /\ \A n \in 1 .. (u - 1) : Exists(WindowPath(y, n))
        /\ u > 1 => files[WindowPath(y, 1)].pin = seen
        /\ \A e \in observed : Exists(EpisodePath(e)) /\ files[EpisodePath(e)] = [window |-> y, pin |-> seen]
  BY <1>5, Zenon DEF WindowBacked
<1>7. y = w /\ seen = pin
  BY <1>4, <1>6, PathsDiffer
<1>8. v \in Versions(w)
  BY <1>4 DEF Versions
<1> QED
  BY <1>2, <1>4, <1>6, <1>7, <1>8

\* EvolutionStore: with any number of writers, records and stopped writers, and
\* without a lock, every published episode and window can be recovered and every
\* decision leads to unchanged evidence under its pins (EvolutionSound).
THEOREM EvolutionChained ==
  ASSUME MaxRevision \in Nat, MaxVersion \in Nat
  PROVE  EvolutionSpec => []EvolutionSound
<1>1. EvolutionInit => EvolutionInv
  <2> SUFFICES ASSUME EvolutionInit PROVE EvolutionInv
    OBVIOUS
  <2>1. \A q : ~Exists(q)
    BY DEF EvolutionInit, Exists
  <2>2. \A e : Revisions(e) = 1 .. 0
    BY <2>1 DEF Revisions
  <2>3. \A w : Versions(w) = 1 .. 0
    BY <2>1 DEF Versions
  <2>4. InOrder
    <3>1. 0 \in 0 .. MaxRevision /\ 0 \in 0 .. MaxVersion
      OBVIOUS
    <3> QED
      BY <2>2, <2>3, <3>1, Zenon DEF InOrder
  <2>5. DOMAIN pending = Writer /\ PendingBacked
    BY DEF EvolutionInit, PendingBacked
  <2> QED
    BY <2>1, <2>4, <2>5 DEF EvolutionInv, FilesBacked
<1>2. EvolutionInv /\ [EvolutionNext]_evolutionVars => EvolutionInv'
  <2> SUFFICES ASSUME EvolutionInv, [EvolutionNext]_evolutionVars PROVE EvolutionInv'
    OBVIOUS
  <2>1. ASSUME NEW x \in Writer, AppendRecord(x) \/ Publish(x) \/ Abandon(x) PROVE EvolutionInv'
    BY <2>1, AppendBacked, PublishBacked, AbandonBacked
  <2>2. CASE UNCHANGED evolutionVars
    <3>1. files' = files /\ pending' = pending
      BY <2>2 DEF evolutionVars
    <3>2. ASSUME NEW q, NEW t, Backed(q, t) PROVE Backed(q, t)'
      BY <3>1, <3>2, BackedStays DEF Exists
    <3> QED
      BY <3>1, <3>2 DEF EvolutionInv, FilesBacked, PendingBacked, InOrder, Revisions, Versions, Exists
  <2> QED
    BY <2>1, <2>2 DEF EvolutionNext
<1>3. EvolutionInv => EvolutionSound
  BY BackedIsRecoverable, BackedIsChained DEF EvolutionSound
<1> QED
  BY <1>1, <1>2, <1>3, PTL DEF EvolutionSpec

-----------------------------------------------------------------------------
(***************************************************************************)
(* DarwinWorker. A worker at work holds the guard of its occurrence, and   *)
(* until it has published nothing terminal is on record there: so receipts *)
(* speak of the one assessment. Managed state is repaired under its lock,  *)
(* by the worker that saw it stale there.                                  *)
(***************************************************************************)
Code == {"scheduler_missed", "state_documents", "state_stale"}
Early == [at : {"recover", "build"}, occ : Occurrence]
Planned == [at : {"lock", "read", "replace", "validate", "unlock", "conclude", "publish", "receipt"},
            occ : Occurrence, plan : SUBSET Code, repaired : BOOLEAN]
WorkerRecord == {IdleWorker} \cup Early \cup Planned
HealthReceipt == [state : Terminal \cup {"failed"}, proposals : SUBSET Code]
ManagedState == [state : {"stale", "healthy"}, generation : Int, by : Occurrence \cup {FreeLock}]

DarwinTyped ==
  /\ worker \in [Worker -> WorkerRecord] /\ guard \in [Occurrence -> Worker \cup {FreeLock}]
  /\ assessment \in [Occurrence -> SUBSET Code] /\ receipts \in [Occurrence -> SUBSET HealthReceipt]
  /\ managed \in ManagedState /\ repairs \in Int /\ stales \in Int

\* The repair lock is held from the reading to the unlocking of managed state, and
\* each repair in force answers for one time it became stale.
Mending == {"read", "replace", "validate", "unlock"}
RepairInv ==
  /\ \A x \in Worker : worker[x].at \in Mending => repairLock = x
  /\ \A x \in Worker : worker[x].at = "replace" => managed.state = "stale"
  /\ repairs <= stales /\ (managed.state = "stale" => repairs < stales)

\* Before a worker has published, nothing of its occurrence is on record.
Unassessed == {"build", "lock", "read", "replace", "validate", "unlock", "conclude", "publish"}
Unwritten(w, artifacts, ended) ==
  /\ w.at \in Unassessed /\ w.occ \notin Housekeeping => artifacts[w.occ] = {} /\ ended = {}
  /\ w.at = "publish" => w.occ \notin Housekeeping /\ Proposals(w) # {}
  /\ w.at = "receipt" => w.occ \notin Housekeeping /\ artifacts[w.occ] = Proposals(w) /\ ended = {}
EndedOf(records, o) == {r \in records[o] : r.state \in Terminal}
Agree(a, ended) == a # {} => \A r \in ended : r.state = "proposal_emitted" /\ r.proposals = a
AssessInv ==
  /\ \A x \in Worker : worker[x].at # "idle" => guard[worker[x].occ] = x
  /\ \A x \in Worker : worker[x].at # "idle" => Unwritten(worker[x], assessment, EndedOf(receipts, worker[x].occ))
  /\ \A o \in Occurrence : Agree(assessment[o], EndedOf(receipts, o))
  /\ \A o \in Housekeeping : assessment[o] = {}
DarwinInv == DarwinTyped /\ RepairInv /\ AssessInv

\* What the place of a worker says about its record.
LEMMA RecordFacts ==
  ASSUME NEW w \in WorkerRecord
  PROVE  /\ w.at = "idle" => w = IdleWorker
         /\ w.at \in {"recover", "build"} => w \in Early
         /\ w.at \notin {"idle", "recover", "build"} => w \in Planned
         /\ w.at # "idle" => w.occ \in Occurrence
BY DEF WorkerRecord, IdleWorker, Early, Planned

\* A step of one worker at its occurrence: what it leaves there is enough.
LEMMA AssessStep ==
  ASSUME DarwinTyped, AssessInv, NEW x \in Worker, NEW w \in WorkerRecord, NEW o \in Occurrence,
         worker' = [worker EXCEPT ![x] = w], guard' \in [Occurrence -> Worker \cup {FreeLock}],
         assessment' \in [Occurrence -> SUBSET Code],
         \A q \in Occurrence \ {o} : guard'[q] = guard[q] /\ assessment'[q] = assessment[q] /\ receipts'[q] = receipts[q],
         \A y \in Worker \ {x} : worker[y].at # "idle" => worker[y].occ # o,
         w.at # "idle" => w.occ = o /\ guard'[o] = x /\ Unwritten(w, assessment', EndedOf(receipts', o)),
         Agree(assessment'[o], EndedOf(receipts', o)), o \in Housekeeping => assessment'[o] = {}
  PROVE  AssessInv'
<1>1. worker' \in [Worker -> WorkerRecord] /\ \A y \in Worker : worker'[y] = IF y = x THEN w ELSE worker[y]
  BY DEF DarwinTyped
<1>2. \A q \in Occurrence \ {o} : EndedOf(receipts', q) = EndedOf(receipts, q)
  BY DEF EndedOf
<1>3. \A y \in Worker : worker'[y].at # "idle" => guard'[worker'[y].occ] = y
  BY <1>1, RecordFacts DEF AssessInv
<1>4. ASSUME NEW y \in Worker, worker'[y].at # "idle"
      PROVE  Unwritten(worker'[y], assessment', EndedOf(receipts', worker'[y].occ))
  <2>1. CASE y = x
    BY <1>1, <1>4, <2>1
  <2>2. CASE y # x
    <3>1. PICK v : v = worker[y]
      OBVIOUS
    <3>2. v \in WorkerRecord /\ v.at # "idle" /\ v.occ \in Occurrence \ {o} /\ worker'[y] = v
      BY <1>1, <1>4, <2>2, <3>1, RecordFacts
    <3>3. Unwritten(v, assessment, EndedOf(receipts, v.occ))
      BY <3>1, <3>2 DEF AssessInv
    <3>4. assessment'[v.occ] = assessment[v.occ] /\ EndedOf(receipts', v.occ) = EndedOf(receipts, v.occ)
      BY <1>2, <3>2
    <3> QED BY <3>2, <3>3, <3>4 DEF Unwritten
  <2> QED BY <2>1, <2>2
<1>5. \A q \in Occurrence : Agree(assessment'[q], EndedOf(receipts', q))
  BY <1>2 DEF AssessInv
<1>6. Housekeeping \subseteq Occurrence
  BY DEF Occurrence
<1>7. \A q \in Housekeeping : assessment'[q] = {}
  BY <1>6 DEF AssessInv
<1> QED BY <1>3, <1>4, <1>5, <1>7 DEF AssessInv

\* A plan holds codes of the packet.
LEMMA PlanTyped ==
  ASSUME NEW o
  PROVE  HealthPlan(HealthObservations(o)) \subseteq Code
<1>1. ASSUME NEW b \in HealthObservations(o)
      PROVE  b.code \in Code
  BY DEF HealthObservations, HealthObservation, Code
<1>2. ASSUME NEW c \in HealthPlan(HealthObservations(o))
      PROVE  \E b \in HealthObservations(o) : c = b.code
  BY DEF HealthPlan
<1> QED BY <1>1, <1>2

\* A step of one worker at its occurrence that leaves what the others rely on keeps the
\* invariant.
LEMMA DarwinStep ==
  ASSUME DarwinInv, NEW x \in Worker, NEW w \in WorkerRecord, NEW o \in Occurrence,
         worker' = [worker EXCEPT ![x] = w], guard' \in [Occurrence -> Worker \cup {FreeLock}],
         assessment' \in [Occurrence -> SUBSET Code], receipts' \in [Occurrence -> SUBSET HealthReceipt],
         \A q \in Occurrence \ {o} : guard'[q] = guard[q] /\ assessment'[q] = assessment[q] /\ receipts'[q] = receipts[q],
         \A y \in Worker \ {x} : worker[y].at # "idle" => worker[y].occ # o,
         w.at # "idle" => w.occ = o /\ guard'[o] = x /\ Unwritten(w, assessment', EndedOf(receipts', o)),
         Agree(assessment'[o], EndedOf(receipts', o)), o \in Housekeeping => assessment'[o] = {},
         managed' \in ManagedState, repairs' \in Int, stales' \in Int,
         repairs' <= stales', managed'.state = "stale" => repairs' < stales',
         w.at \in Mending => repairLock' = x, w.at = "replace" => managed'.state = "stale",
         \A y \in Worker \ {x} : worker[y].at \in Mending => repairLock' = repairLock /\ managed'.state = managed.state
  PROVE  DarwinInv'
<1>1. worker' \in [Worker -> WorkerRecord] /\ \A y \in Worker : worker'[y] = IF y = x THEN w ELSE worker[y]
  BY DEF DarwinInv, DarwinTyped
<1>2. DarwinTyped'
  BY <1>1 DEF DarwinInv, DarwinTyped
<1>3. AssessInv'
  BY AssessStep DEF DarwinInv
<1>4. RepairInv'
  BY <1>1 DEF DarwinInv, RepairInv, Mending
<1> QED BY <1>2, <1>3, <1>4 DEF DarwinInv

\* A worker at work is alone with its occurrence.
LEMMA WorkerFacts ==
  ASSUME DarwinInv, NEW x \in Worker, worker[x].at # "idle"
  PROVE  /\ worker[x] \in WorkerRecord /\ worker[x].occ \in Occurrence /\ guard[worker[x].occ] = x
         /\ \A y \in Worker \ {x} : worker[y].at # "idle" => worker[y].occ # worker[x].occ
         /\ \A y \in Worker \ {x} : worker[x].at \in Mending => worker[y].at \notin Mending
         /\ worker[x].at \in Mending => repairLock = x
         /\ Unwritten(worker[x], assessment, EndedOf(receipts, worker[x].occ))
         /\ Agree(assessment[worker[x].occ], EndedOf(receipts, worker[x].occ))
<1>1. worker[x] \in WorkerRecord /\ worker[x].occ \in Occurrence
  BY RecordFacts DEF DarwinInv, DarwinTyped
<1>2. guard[worker[x].occ] = x /\ \A y \in Worker \ {x} : worker[y].at # "idle" => worker[y].occ # worker[x].occ
  BY DEF DarwinInv, AssessInv
<1>3. /\ worker[x].at \in Mending => repairLock = x
      /\ \A y \in Worker \ {x} : worker[x].at \in Mending => worker[y].at \notin Mending
  BY DEF DarwinInv, RepairInv
<1>4. Unwritten(worker[x], assessment, EndedOf(receipts, worker[x].occ)) /\ Agree(assessment[worker[x].occ], EndedOf(receipts, worker[x].occ))
  BY <1>1 DEF DarwinInv, AssessInv
<1> QED BY <1>1, <1>2, <1>3, <1>4

\* A worker that goes on at its occurrence without touching artifacts or receipts.
LEMMA GoesOn ==
  ASSUME DarwinInv, NEW x \in Worker, worker[x].at # "idle", NEW w \in WorkerRecord,
         w.at # "idle", w.occ = worker[x].occ, Go(x, w), UNCHANGED <<guard, assessment, receipts>>,
         Unwritten(w, assessment, EndedOf(receipts, w.occ)),
         managed' \in ManagedState, repairs' \in Int, stales' \in Int,
         repairs' <= stales', managed'.state = "stale" => repairs' < stales',
         w.at \in Mending => repairLock' = x, w.at = "replace" => managed'.state = "stale",
         \A y \in Worker \ {x} : worker[y].at \in Mending => repairLock' = repairLock /\ managed'.state = managed.state
  PROVE  DarwinInv'
<1>1. PICK o \in Occurrence : o = worker[x].occ
  BY WorkerFacts
<1>2. guard'[o] = x /\ \A y \in Worker \ {x} : worker[y].at # "idle" => worker[y].occ # o
  BY <1>1, WorkerFacts
<1>3. /\ guard' \in [Occurrence -> Worker \cup {FreeLock}] /\ assessment' \in [Occurrence -> SUBSET Code]
      /\ receipts' \in [Occurrence -> SUBSET HealthReceipt]
  BY DEF DarwinInv, DarwinTyped
<1>4. Agree(assessment'[o], EndedOf(receipts', o)) /\ (o \in Housekeeping => assessment'[o] = {})
  BY DEF DarwinInv, AssessInv
<1>5. Unwritten(w, assessment', EndedOf(receipts', o))
  BY <1>1
<1>6. worker' = [worker EXCEPT ![x] = w] /\ w.occ = o
  BY <1>1 DEF Go
<1>7. \A q \in Occurrence \ {o} : guard'[q] = guard[q] /\ assessment'[q] = assessment[q] /\ receipts'[q] = receipts[q]
  OBVIOUS
<1>8. w.at # "idle" => w.occ = o /\ guard'[o] = x /\ Unwritten(w, assessment', EndedOf(receipts', o))
  BY <1>2, <1>5, <1>6
<1>9. \A y \in Worker \ {x} : worker[y].at # "idle" => worker[y].occ # o
  BY <1>2
<1> QED BY <1>3, <1>4, <1>6, <1>7, <1>8, <1>9, DarwinStep

\* A worker that ends: only the receipts of its occurrence may have grown.
LEMMA Finishes ==
  ASSUME DarwinInv, NEW x \in Worker, worker[x].at # "idle", FinishRun(x, worker[x].occ),
         UNCHANGED <<assessment, managed, repairs, stales>>,
         receipts' \in [Occurrence -> SUBSET HealthReceipt],
         \A q \in Occurrence \ {worker[x].occ} : receipts'[q] = receipts[q],
         Agree(assessment[worker[x].occ], EndedOf(receipts', worker[x].occ)),
         repairLock' = repairLock \/ repairLock = x
  PROVE  DarwinInv'
<1>1. PICK o \in Occurrence : o = worker[x].occ
  BY WorkerFacts
<1>2. /\ guard' \in [Occurrence -> Worker \cup {FreeLock}]
      /\ \A q \in Occurrence \ {o} : guard'[q] = guard[q] /\ assessment'[q] = assessment[q] /\ receipts'[q] = receipts[q]
  BY <1>1 DEF FinishRun, DarwinInv, DarwinTyped
<1>3. \A y \in Worker \ {x} : worker[y].at # "idle" => worker[y].occ # o
  BY <1>1, WorkerFacts
<1>4. assessment' \in [Occurrence -> SUBSET Code] /\ repairs' \in Int /\ stales' \in Int /\ managed' \in ManagedState
  BY DEF DarwinInv, DarwinTyped
<1>5. repairs' <= stales' /\ (managed'.state = "stale" => repairs' < stales')
  BY DEF DarwinInv, RepairInv
<1>6. \A y \in Worker \ {x} : worker[y].at \in Mending => repairLock' = repairLock /\ managed'.state = managed.state
  BY DEF DarwinInv, RepairInv
<1>7. Agree(assessment'[o], EndedOf(receipts', o)) /\ (o \in Housekeeping => assessment'[o] = {})
  BY <1>1 DEF DarwinInv, AssessInv
<1>8. IdleWorker \in WorkerRecord /\ IdleWorker.at = "idle" /\ worker' = [worker EXCEPT ![x] = IdleWorker]
  BY DEF IdleWorker, WorkerRecord, FinishRun, Go
<1>9. IdleWorker.at \notin Mending
  BY <1>8 DEF Mending
<1> QED BY <1>2, <1>3, <1>4, <1>5, <1>6, <1>7, <1>8, <1>9, DarwinStep

\* What appending a receipt makes of the receipts.
LEMMA AppendFacts ==
  ASSUME DarwinInv, NEW o \in Occurrence, NEW r \in HealthReceipt, AppendReceipt(o, r)
  PROVE  /\ receipts' \in [Occurrence -> SUBSET HealthReceipt]
         /\ \A q \in Occurrence \ {o} : receipts'[q] = receipts[q]
         /\ EndedOf(receipts', o) = EndedOf(receipts, o) \/ \A e \in EndedOf(receipts', o) : e = r
BY DEF DarwinInv, DarwinTyped, AppendReceipt, Ended, EndedOf

\* The head of a run: a guard is taken, what was concluded is concluded again, or a plan is made.
LEMMA HeadKeeps ==
  ASSUME DarwinInv, NEW x \in Worker, (\E o \in Occurrence : Start(x, o)) \/ Recover(x) \/ Build(x)
  PROVE  DarwinInv'
<1>1. CASE \E o \in Occurrence : Start(x, o)
  <2>1. PICK o \in Occurrence : Start(x, o)
    BY <1>1
  <2>2. PICK w : w = [at |-> "recover", occ |-> o]
    OBVIOUS
  <2>3. w \in WorkerRecord /\ w.at = "recover" /\ w.occ = o
    BY <2>2 DEF WorkerRecord, Early
  <2>4. worker' = [worker EXCEPT ![x] = w] /\ guard' = [guard EXCEPT ![o] = x] /\ guard[o] = FreeLock
    BY <2>1, <2>2 DEF Start, Go
  <2>5. UNCHANGED <<managed, repairLock, assessment, receipts, stales, repairs>>
    BY <2>1 DEF Start, healthHistory
  <2>6. /\ guard' \in [Occurrence -> Worker \cup {FreeLock}] /\ guard'[o] = x
        /\ assessment' \in [Occurrence -> SUBSET Code] /\ receipts' \in [Occurrence -> SUBSET HealthReceipt]
        /\ managed' \in ManagedState /\ repairs' \in Int /\ stales' \in Int
    BY <2>4, <2>5 DEF DarwinInv, DarwinTyped
  <2>7. \A q \in Occurrence \ {o} : guard'[q] = guard[q] /\ assessment'[q] = assessment[q] /\ receipts'[q] = receipts[q]
    BY <2>4, <2>5 DEF DarwinInv, DarwinTyped
  <2>8. \A y \in Worker \ {x} : worker[y].at # "idle" => worker[y].occ # o
    BY <2>4, WorkerAssumption, WorkerFacts DEF FreeLock
  <2>9. Unwritten(w, assessment', EndedOf(receipts', o))
    BY <2>3 DEF Unwritten, Unassessed
  <2>10. Agree(assessment'[o], EndedOf(receipts', o)) /\ (o \in Housekeeping => assessment'[o] = {})
    BY <2>5 DEF DarwinInv, AssessInv
  <2>11. repairs' <= stales' /\ (managed'.state = "stale" => repairs' < stales')
    BY <2>5 DEF DarwinInv, RepairInv
  <2>12. w.at \notin Mending /\ w.at # "replace"
    BY <2>3 DEF Mending
  <2>13. w.at # "idle" => w.occ = o /\ guard'[o] = x /\ Unwritten(w, assessment', EndedOf(receipts', o))
    BY <2>3, <2>6, <2>9
  <2>14. \A y \in Worker \ {x} : worker[y].at \in Mending => repairLock' = repairLock /\ managed'.state = managed.state
    BY <2>5
  <2>15. worker' = [worker EXCEPT ![x] = w] /\ w \in WorkerRecord
    BY <2>3, <2>4
  <2>16. w.at \in Mending => repairLock' = x
    BY <2>12
  <2>17. w.at = "replace" => managed'.state = "stale"
    BY <2>12
  <2> QED BY <2>6, <2>7, <2>8, <2>10, <2>11, <2>13, <2>14, <2>15, <2>16, <2>17, DarwinStep
<1>2. CASE Recover(x)
  <2>1. PICK o \in Occurrence : o = worker[x].occ /\ worker[x].at = "recover"
    BY <1>2, WorkerFacts DEF Recover
  <2>2. UNCHANGED <<managed, repairLock, assessment, stales, repairs>>
    BY <1>2 DEF Recover, healthHistory
  <2>3. CASE Published(o) /\ o \notin Housekeeping
    <3>1. PICK r : r = Receipt("proposal_emitted", assessment[o])
      OBVIOUS
    <3>2. AppendReceipt(o, r) /\ FinishRun(x, o)
      BY <1>2, <2>1, <2>3, <3>1 DEF Recover
    <3>3. r \in HealthReceipt /\ r.state = "proposal_emitted" /\ r.proposals = assessment[o]
      BY <3>1 DEF Receipt, HealthReceipt, Terminal, DarwinInv, DarwinTyped
    <3>4. Agree(assessment[o], EndedOf(receipts', o))
      BY <3>2, <3>3, AppendFacts, <2>1, WorkerFacts DEF Agree
    <3> QED BY <2>1, <2>2, <3>2, <3>3, <3>4, AppendFacts, Finishes
  <2>4. CASE ~(Published(o) /\ o \notin Housekeeping) /\ Ended(o) # {}
    <3>1. FinishRun(x, o) /\ UNCHANGED receipts
      BY <1>2, <2>1, <2>4 DEF Recover
    <3>2. receipts' \in [Occurrence -> SUBSET HealthReceipt] /\ Agree(assessment[o], EndedOf(receipts', o))
      BY <2>1, <3>1, WorkerFacts DEF DarwinInv, DarwinTyped
    <3> QED BY <2>1, <2>2, <3>1, <3>2, Finishes
  <2>5. CASE ~(Published(o) /\ o \notin Housekeeping) /\ Ended(o) = {}
    <3>1. PICK w : w = [at |-> "build", occ |-> o]
      OBVIOUS
    <3>2. Go(x, w) /\ UNCHANGED <<receipts, guard>>
      BY <1>2, <2>1, <2>5, <3>1 DEF Recover
    <3>3. w \in WorkerRecord /\ w.at = "build" /\ w.occ = o
      BY <3>1 DEF WorkerRecord, Early
    <3>4. Unwritten(w, assessment, EndedOf(receipts, w.occ))
      BY <2>5, <3>3 DEF Unwritten, Published, NoArtifact, Ended, EndedOf
    <3>5. managed' \in ManagedState /\ repairs' \in Int /\ stales' \in Int /\ repairs' <= stales'
      BY <2>2 DEF DarwinInv, DarwinTyped, RepairInv
    <3>6. managed'.state = "stale" => repairs' < stales'
      BY <2>2 DEF DarwinInv, RepairInv
    <3>7. w.at \notin Mending /\ w.at # "replace"
      BY <3>3 DEF Mending
    <3> QED BY <2>1, <2>2, <3>2, <3>3, <3>4, <3>5, <3>6, <3>7, GoesOn
  <2> QED BY <2>3, <2>4, <2>5
<1>3. CASE Build(x)
  <2>1. PICK o \in Occurrence : o = worker[x].occ /\ worker[x].at = "build"
    BY <1>3, WorkerFacts DEF Build
  <2>2. UNCHANGED <<managed, repairLock, guard, assessment, receipts, stales, repairs>>
    BY <1>3 DEF Build, healthHistory
  <2>3. PICK at \in {"lock", "conclude"}, plan \in SUBSET Code : Go(x, [at |-> at, occ |-> o, plan |-> plan, repaired |-> FALSE])
    BY <1>3, <2>1, PlanTyped DEF Build
  <2>4. PICK w : w = [at |-> at, occ |-> o, plan |-> plan, repaired |-> FALSE]
    OBVIOUS
  <2>5. w \in Planned /\ w.at \in {"lock", "conclude"} /\ w.occ = o /\ Go(x, w)
    BY <2>3, <2>4 DEF Planned
  <2>6. w \in WorkerRecord /\ w.at # "idle" /\ w.at \notin Mending /\ w.at # "replace"
    BY <2>5 DEF WorkerRecord, Mending
  <2>7. Unwritten(w, assessment, EndedOf(receipts, w.occ))
    <3>1. Unwritten(worker[x], assessment, EndedOf(receipts, o))
      BY <2>1, WorkerFacts
    <3>2. o \notin Housekeeping => assessment[o] = {} /\ EndedOf(receipts, o) = {}
      BY <2>1, <3>1 DEF Unwritten, Unassessed
    <3> QED BY <2>5, <3>2 DEF Unwritten
  <2>8. managed' \in ManagedState /\ repairs' \in Int /\ stales' \in Int /\ repairs' <= stales'
    BY <2>2 DEF DarwinInv, DarwinTyped, RepairInv
  <2>9. managed'.state = "stale" => repairs' < stales'
    BY <2>2 DEF DarwinInv, RepairInv
  <2>10. w.occ = worker[x].occ /\ worker[x].at # "idle"
    BY <2>1, <2>5
  <2> QED BY <2>2, <2>5, <2>6, <2>7, <2>8, <2>9, <2>10, GoesOn
<1> QED BY <1>1, <1>2, <1>3

\* A planned worker at its next place.
Placed(v, at, done) == [v EXCEPT !.at = at, !.repaired = done]

\* A planned worker that takes its next place keeps its occurrence and its plan.
LEMMA NextPlace ==
  ASSUME DarwinInv, NEW x \in Worker, worker[x].at \in {"lock", "read", "replace", "validate", "unlock"},
         NEW at \in {"read", "replace", "validate", "unlock", "conclude"}, NEW done \in BOOLEAN
  PROVE  /\ Placed(worker[x], at, done) \in WorkerRecord
         /\ Placed(worker[x], at, done).at = at /\ Placed(worker[x], at, done).occ = worker[x].occ
         /\ Unwritten(Placed(worker[x], at, done), assessment, EndedOf(receipts, worker[x].occ))
<1>1. PICK v \in Planned : v = worker[x]
  BY WorkerFacts, RecordFacts
<1>2. PICK w : w = Placed(v, at, done)
  OBVIOUS
<1>3. w \in Planned /\ w.at = at /\ w.occ = v.occ
  BY <1>2 DEF Planned, Placed
<1>4. Unwritten(v, assessment, EndedOf(receipts, v.occ)) /\ v.at \in Unassessed
  BY <1>1, WorkerFacts DEF Unassessed
<1>5. Unwritten(w, assessment, EndedOf(receipts, v.occ))
  BY <1>3, <1>4 DEF Unwritten
<1> QED BY <1>1, <1>2, <1>3, <1>5 DEF WorkerRecord

\* What a step of the repair leaves: the lock with who is in it, and a repair for
\* each time the state was found stale.
Repairing(x, at, done) ==
  /\ Go(x, Placed(worker[x], at, done))
  /\ at \in Mending => repairLock' = x
  /\ at = "replace" => managed'.state = "stale"
  /\ managed' \in ManagedState /\ repairs' \in Int /\ repairs' <= stales'
  /\ managed'.state = "stale" => repairs' < stales'
  /\ \A y \in Worker \ {x} : worker[y].at \in Mending => repairLock' = repairLock /\ managed'.state = managed.state

\* The repair under its lock.
LEMMA RepairKeeps ==
  ASSUME DarwinInv, NEW x \in Worker,
         LockRepair(x) \/ ReadManaged(x) \/ Replace(x) \/ Validate(x) \/ UnlockRepair(x)
  PROVE  DarwinInv'
<1>1. /\ worker[x].at \in {"lock", "read", "replace", "validate", "unlock"} /\ worker[x].at # "idle"
      /\ UNCHANGED <<guard, assessment, receipts, stales>>
  BY DEF LockRepair, ReadManaged, Replace, Validate, UnlockRepair, healthHistory
<1>2. PICK v \in Planned : v = worker[x]
  BY <1>1, WorkerFacts, RecordFacts
<1>3. \A f : [v EXCEPT !.at = f] = Placed(v, f, v.repaired)
  BY <1>2 DEF Planned, Placed
<1>4. \E at \in {"read", "replace", "validate", "unlock", "conclude"}, done \in BOOLEAN : Repairing(x, at, done)
  <2>1. /\ managed \in ManagedState /\ repairs \in Int /\ stales \in Int /\ repairs <= stales
        /\ managed.state = "stale" => repairs < stales
    BY DEF DarwinInv, DarwinTyped, RepairInv
  <2>2. v.repaired \in BOOLEAN
    BY <1>2 DEF Planned
  <2>3. CASE LockRepair(x)
    <3>1. UNCHANGED <<managed, repairs, stales>>
      BY <2>3 DEF LockRepair, healthHistory
    <3>2. CASE RepairLockFree /\ repairLock' = x /\ Go(x, [worker[x] EXCEPT !.at = "read"])
      <4>1. Go(x, Placed(worker[x], "read", v.repaired))
        BY <1>2, <1>3, <3>2
      <4>2. \A y \in Worker \ {x} : worker[y].at \notin Mending
        BY <3>2, WorkerAssumption DEF RepairLockFree, FreeLock, DarwinInv, RepairInv
      <4>3. Repairing(x, "read", v.repaired)
        BY <2>1, <3>1, <3>2, <4>1, <4>2 DEF Repairing
      <4> QED BY <2>2, <4>3
    <3>3. CASE UNCHANGED repairLock /\ Go(x, [worker[x] EXCEPT !.at = "conclude"])
      <4>1. Go(x, Placed(worker[x], "conclude", v.repaired))
        BY <1>2, <1>3, <3>3
      <4>2. Repairing(x, "conclude", v.repaired)
        BY <2>1, <3>1, <3>3, <4>1 DEF Repairing, Mending
      <4> QED BY <2>2, <4>2
    <3> QED BY <2>3, <3>2, <3>3 DEF LockRepair
  <2>4. CASE ReadManaged(x)
    <3>1. UNCHANGED <<managed, repairs, stales, repairLock>> /\ repairLock = x
      BY <2>4, WorkerFacts DEF ReadManaged, healthHistory, Mending
    <3>2. PICK at \in {"replace", "unlock"}, done \in BOOLEAN :
             Go(x, Placed(worker[x], at, done)) /\ (at = "replace" => managed.state = "stale")
      BY <2>4 DEF ReadManaged, StaleUnderLock, Placed
    <3>3. Repairing(x, at, done)
      BY <2>1, <3>1, <3>2 DEF Repairing, Mending
    <3> QED BY <3>3
  <2>5. CASE Replace(x)
    <3>1. /\ Go(x, Placed(worker[x], "validate", v.repaired))
          /\ managed' = [state |-> "healthy", generation |-> managed.generation + 1, by |-> v.occ]
          /\ repairs' = repairs + 1 /\ UNCHANGED <<repairLock, stales>>
      BY <1>2, <1>3, <2>5 DEF Replace
    <3>2. managed.state = "stale" /\ repairLock = x /\ \A y \in Worker \ {x} : worker[y].at \notin Mending
      BY <2>5, WorkerFacts DEF Replace, Mending, DarwinInv, RepairInv
    <3>3. managed' \in ManagedState /\ managed'.state = "healthy"
      BY <1>2, <2>1, <3>1 DEF ManagedState, Planned
    <3>4. Repairing(x, "validate", v.repaired)
      BY <2>1, <3>1, <3>2, <3>3 DEF Repairing
    <3> QED BY <2>2, <3>4
  <2>6. CASE Validate(x)
    <3>1. UNCHANGED <<repairLock, stales>> /\ repairLock = x /\ \A y \in Worker \ {x} : worker[y].at \notin Mending
      BY <2>6, WorkerFacts DEF Validate, Mending
    <3>2. CASE Go(x, Placed(worker[x], "unlock", TRUE)) /\ UNCHANGED <<managed, repairs>>
      <4>1. Go(x, Placed(worker[x], "unlock", TRUE))
        BY <3>2
      <4>2. Repairing(x, "unlock", TRUE)
        BY <2>1, <3>1, <3>2, <4>1 DEF Repairing
      <4> QED BY <4>2
    <3>3. CASE /\ managed' = [state |-> "stale", generation |-> managed.generation - 1, by |-> FreeLock]
               /\ repairs' = repairs - 1 /\ Go(x, [worker[x] EXCEPT !.at = "unlock"])
      <4>1. Go(x, Placed(worker[x], "unlock", v.repaired)) /\ managed'.state = "stale"
        BY <1>2, <1>3, <3>3
      <4>2. managed' \in ManagedState
        BY <2>1, <3>3 DEF ManagedState
      <4>3. Repairing(x, "unlock", v.repaired)
        BY <2>1, <3>1, <3>3, <4>1, <4>2 DEF Repairing
      <4> QED BY <2>2, <4>3
    <3> QED BY <2>6, <3>2, <3>3 DEF Validate, Placed
  <2>7. CASE UnlockRepair(x)
    <3>1. /\ Go(x, Placed(worker[x], "conclude", v.repaired))
          /\ UNCHANGED <<managed, repairs, stales>>
      BY <1>2, <1>3, <2>7 DEF UnlockRepair, healthHistory
    <3>2. \A y \in Worker \ {x} : worker[y].at \notin Mending
      BY <2>7, WorkerFacts DEF UnlockRepair, Mending
    <3>3. Repairing(x, "conclude", v.repaired)
      BY <2>1, <3>1, <3>2 DEF Repairing, Mending
    <3> QED BY <2>2, <3>3
  <2> QED BY <2>3, <2>4, <2>5, <2>6, <2>7
<1>5. PICK at \in {"read", "replace", "validate", "unlock", "conclude"}, done \in BOOLEAN : Repairing(x, at, done)
  BY <1>4
<1>6. PICK w : w = Placed(worker[x], at, done)
  OBVIOUS
<1>7. w \in WorkerRecord /\ w.at = at /\ w.occ = worker[x].occ /\ Unwritten(w, assessment, EndedOf(receipts, w.occ))
  BY <1>1, <1>6, NextPlace
<1>8. Go(x, w) /\ w.at # "idle" /\ stales' \in Int
  BY <1>1, <1>5, <1>6, <1>7 DEF DarwinInv, DarwinTyped, Repairing
<1>9. /\ w.at \in Mending => repairLock' = x
      /\ w.at = "replace" => managed'.state = "stale"
      /\ managed' \in ManagedState /\ repairs' \in Int /\ repairs' <= stales'
      /\ managed'.state = "stale" => repairs' < stales'
      /\ \A y \in Worker \ {x} : worker[y].at \in Mending => repairLock' = repairLock /\ managed'.state = managed.state
  BY <1>5, <1>7 DEF Repairing
<1> QED BY <1>1, <1>7, <1>8, <1>9, GoesOn

\* What a job concludes, publishes and records of its occurrence.
LEMMA ConcludeKeeps ==
  ASSUME DarwinInv, NEW x \in Worker,
         ConcludeHousekeeping(x) \/ ConcludeReview(x) \/ RecordProposal(x)
  PROVE  DarwinInv'
<1>1. PICK o \in Occurrence : /\ o = worker[x].occ /\ worker[x].at \in {"conclude", "receipt"} /\ worker[x].at # "idle"
                              /\ UNCHANGED <<managed, repairLock, assessment, stales, repairs>>
  BY WorkerFacts DEF ConcludeHousekeeping, ConcludeReview, RecordProposal, healthHistory
<1>2. PICK v \in Planned : v = worker[x]
  BY <1>1, WorkerFacts, RecordFacts
<1>3. /\ Unwritten(v, assessment, EndedOf(receipts, o)) /\ Agree(assessment[o], EndedOf(receipts, o)) /\ v.occ = o
      /\ receipts \in [Occurrence -> SUBSET HealthReceipt]
  BY <1>1, <1>2, WorkerFacts DEF DarwinInv, DarwinTyped
<1>4. ASSUME NEW r \in HealthReceipt, AppendReceipt(o, r), FinishRun(x, o),
             assessment[o] # {} => r.state = "proposal_emitted" /\ r.proposals = assessment[o]
      PROVE  DarwinInv'
  <2>1. Agree(assessment[o], EndedOf(receipts', o))
    BY <1>3, <1>4, AppendFacts DEF Agree
  <2> QED BY <1>1, <1>4, <2>1, AppendFacts, Finishes
<1>5. CASE ConcludeHousekeeping(x)
  <2>1. PICK outcome \in {"succeeded", "reviewed_no_change", "failed"} :
          AppendReceipt(o, Receipt(outcome, {})) /\ FinishRun(x, o)
    BY <1>1, <1>5 DEF ConcludeHousekeeping
  <2>2. PICK r : r = Receipt(outcome, {})
    OBVIOUS
  <2>3. r \in HealthReceipt
    BY <2>2 DEF Receipt, HealthReceipt, Terminal
  <2>4. assessment[o] = {}
    BY <1>1, <1>5 DEF ConcludeHousekeeping, DarwinInv, AssessInv
  <2> QED BY <1>4, <2>1, <2>2, <2>3, <2>4
<1>6. CASE ConcludeReview(x)
  <2>1. o \notin Housekeeping /\ v.at = "conclude" /\ assessment[o] = {} /\ EndedOf(receipts, o) = {}
    BY <1>1, <1>2, <1>3, <1>6 DEF ConcludeReview, Unwritten, Unassessed
  <2>2. CASE FinishRun(x, o) /\ UNCHANGED receipts
    BY <1>1, <1>3, <2>2, Finishes
  <2>3. CASE Proposals(v) # {} /\ Go(x, [v EXCEPT !.at = "publish"]) /\ UNCHANGED <<receipts, guard>>
    <3>1. PICK w : w = [v EXCEPT !.at = "publish"]
      OBVIOUS
    <3>2. w \in Planned /\ w.at = "publish" /\ w.occ = o /\ w.plan = v.plan
      BY <1>2, <1>3, <3>1 DEF Planned
    <3>3. Unwritten(w, assessment, EndedOf(receipts, o))
      BY <1>3, <2>1, <2>3, <3>2 DEF Unwritten, Proposals
    <3>4. managed' \in ManagedState /\ repairs' \in Int /\ stales' \in Int /\ repairs' <= stales'
      BY <1>1 DEF DarwinInv, DarwinTyped, RepairInv
    <3>5. managed'.state = "stale" => repairs' < stales'
      BY <1>1 DEF DarwinInv, RepairInv
    <3>6. w.at \notin Mending /\ w.at # "replace" /\ w \in WorkerRecord /\ w.at # "idle"
      BY <3>2 DEF Mending, WorkerRecord
    <3>7. Go(x, w) /\ w.occ = worker[x].occ
      BY <1>1, <2>3, <3>1, <3>2
    <3> QED BY <1>1, <2>3, <3>2, <3>3, <3>4, <3>5, <3>6, <3>7, GoesOn
  <2>4. CASE \E state \in {"succeeded", "reviewed_no_change"} : AppendReceipt(o, Receipt(state, {})) /\ FinishRun(x, o)
    <3>1. PICK state \in {"succeeded", "reviewed_no_change"} : AppendReceipt(o, Receipt(state, {})) /\ FinishRun(x, o)
      BY <2>4
    <3>2. PICK r : r = Receipt(state, {})
      OBVIOUS
    <3>3. r \in HealthReceipt
      BY <3>2 DEF Receipt, HealthReceipt, Terminal
    <3> QED BY <1>4, <2>1, <3>1, <3>2, <3>3
  <2> QED BY <1>1, <1>2, <1>6, <2>2, <2>3, <2>4 DEF ConcludeReview
<1>7. CASE RecordProposal(x)
  <2>1. AppendReceipt(o, Receipt("proposal_emitted", Proposals(v))) /\ FinishRun(x, o) /\ v.at = "receipt"
    BY <1>1, <1>2, <1>7 DEF RecordProposal
  <2>2. assessment[o] = Proposals(v) /\ assessment[o] \subseteq Code
    BY <1>3, <2>1 DEF Unwritten, DarwinInv, DarwinTyped
  <2>3. PICK r : r = Receipt("proposal_emitted", assessment[o])
    OBVIOUS
  <2>4. r \in HealthReceipt /\ r.state = "proposal_emitted" /\ r.proposals = assessment[o]
    BY <2>2, <2>3 DEF Receipt, HealthReceipt, Terminal
  <2> QED BY <1>4, <2>1, <2>2, <2>3, <2>4
<1> QED BY <1>5, <1>6, <1>7

\* The assessment is linked where none is, or the same is.
LEMMA PublishKeeps ==
  ASSUME DarwinInv, NEW x \in Worker, PublishArtifact(x)
  PROVE  DarwinInv'
<1>1. PICK o \in Occurrence : /\ o = worker[x].occ /\ worker[x].at = "publish" /\ worker[x].at # "idle"
                              /\ UNCHANGED <<managed, repairLock, receipts, stales, repairs>>
  BY WorkerFacts DEF PublishArtifact, healthHistory
<1>2. PICK v \in Planned : v = worker[x]
  BY <1>1, WorkerFacts, RecordFacts
<1>3. o \notin Housekeeping /\ Proposals(v) # {} /\ Proposals(v) \subseteq Code /\ assessment[o] = {} /\ EndedOf(receipts, o) = {} /\ v.occ = o
  <2>1. Unwritten(v, assessment, EndedOf(receipts, o)) /\ v.at = "publish" /\ v.occ = o
    BY <1>1, <1>2, WorkerFacts
  <2>2. Proposals(v) \subseteq Code
    BY <1>2 DEF Proposals, Diagnostics, Planned
  <2> QED BY <2>1, <2>2 DEF Unwritten, Unassessed
<1>4. PICK w : w = [v EXCEPT !.at = "receipt"]
  OBVIOUS
<1>5. w \in Planned /\ w.at = "receipt" /\ w.occ = o /\ w.plan = v.plan
  BY <1>2, <1>3, <1>4 DEF Planned
<1>6. assessment' = [assessment EXCEPT ![o] = Proposals(v)] /\ worker' = [worker EXCEPT ![x] = w] /\ UNCHANGED guard
  BY <1>1, <1>2, <1>3, <1>4 DEF PublishArtifact, NoArtifact, Go
<1>7. /\ assessment' \in [Occurrence -> SUBSET Code] /\ assessment'[o] = Proposals(v)
      /\ \A q \in Occurrence \ {o} : assessment'[q] = assessment[q]
  BY <1>3, <1>6 DEF DarwinInv, DarwinTyped
<1>8. Unwritten(w, assessment', EndedOf(receipts', o)) /\ EndedOf(receipts', o) = {}
  <2>1. EndedOf(receipts', o) = {}
    BY <1>1, <1>3
  <2> QED BY <1>3, <1>5, <1>7, <2>1 DEF Unwritten, Unassessed, Proposals
<1>9. Agree(assessment'[o], EndedOf(receipts', o))
  BY <1>8 DEF Agree
<1>10. guard'[o] = x /\ \A y \in Worker \ {x} : worker[y].at # "idle" => worker[y].occ # o
  BY <1>1, <1>6, WorkerFacts
<1>11. guard' \in [Occurrence -> Worker \cup {FreeLock}] /\ receipts' \in [Occurrence -> SUBSET HealthReceipt]
  BY <1>1, <1>6 DEF DarwinInv, DarwinTyped
<1>12. \A q \in Occurrence \ {o} : guard'[q] = guard[q] /\ assessment'[q] = assessment[q] /\ receipts'[q] = receipts[q]
  BY <1>1, <1>6, <1>7
<1>13. managed' \in ManagedState /\ repairs' \in Int /\ stales' \in Int
  BY <1>1 DEF DarwinInv, DarwinTyped
<1>14. repairs' <= stales' /\ (managed'.state = "stale" => repairs' < stales')
  BY <1>1 DEF DarwinInv, RepairInv
<1>15. \A y \in Worker \ {x} : worker[y].at \in Mending => repairLock' = repairLock /\ managed'.state = managed.state
  BY <1>1
<1>16. w \in WorkerRecord /\ w.at # "replace" /\ w.at \notin Mending
  BY <1>5 DEF WorkerRecord, Mending
<1>17. w.at # "idle" => w.occ = o /\ guard'[o] = x /\ Unwritten(w, assessment', EndedOf(receipts', o))
  BY <1>5, <1>8, <1>10
<1>18. worker' = [worker EXCEPT ![x] = w] /\ \A y \in Worker \ {x} : worker[y].at # "idle" => worker[y].occ # o
  BY <1>6, <1>10
<1>19. w.at \in Mending => repairLock' = x
  BY <1>16
<1>20. w.at = "replace" => managed'.state = "stale"
  BY <1>16
<1>21. o \in Housekeeping => assessment'[o] = {}
  BY <1>3
<1> QED BY <1>7, <1>9, <1>11, <1>12, <1>13, <1>14, <1>15, <1>16, <1>17, <1>18, <1>19, <1>20, <1>21, DarwinStep

\* A worker that stops, and surfaces that change.
LEMMA OutsideKeeps ==
  ASSUME DarwinInv, SurfaceChanges \/ \E x \in Worker : Crash(x)
  PROVE  DarwinInv'
<1>1. CASE \E x \in Worker : Crash(x)
  <2>1. PICK x \in Worker : Crash(x)
    BY <1>1
  <2>2. /\ worker[x].at # "idle" /\ FinishRun(x, worker[x].occ) /\ UNCHANGED <<assessment, managed, repairs, stales, receipts>>
        /\ repairLock' = repairLock \/ repairLock = x
    BY <2>1 DEF Crash
  <2>3. receipts' \in [Occurrence -> SUBSET HealthReceipt] /\ Agree(assessment[worker[x].occ], EndedOf(receipts', worker[x].occ))
    BY <2>2, WorkerFacts DEF DarwinInv, DarwinTyped
  <2> QED BY <2>2, <2>3, Finishes
<1>2. CASE SurfaceChanges
  <2>1. UNCHANGED <<repairLock, guard, assessment, receipts, worker, repairs>>
    BY <1>2 DEF SurfaceChanges
  <2>2. (UNCHANGED <<managed, stales>>) \/
        (managed.state = "healthy" /\ repairLock = FreeLock /\ managed' = [managed EXCEPT !.state = "stale"] /\ stales' = stales + 1)
    BY <1>2 DEF SurfaceChanges
  <2>3. (managed' = managed /\ stales' = stales) \/
        (managed' \in ManagedState /\ stales' = stales + 1 /\ repairLock = FreeLock)
    BY <2>2 DEF DarwinInv, DarwinTyped, ManagedState
  <2>4. AssessInv'
    <3>1. AssessInv
      BY DEF DarwinInv
    <3> QED BY <2>1, <3>1 DEF AssessInv
  <2>5. DarwinTyped'
    BY <2>1, <2>3 DEF DarwinInv, DarwinTyped
  <2>6. repairs \in Int /\ stales \in Int /\ repairs <= stales /\ RepairInv
    BY DEF DarwinInv, DarwinTyped, RepairInv
  <2>7. RepairInv'
    <3>1. CASE managed' = managed /\ stales' = stales
      BY <2>1, <2>6, <3>1 DEF RepairInv
    <3>2. CASE stales' = stales + 1 /\ repairLock = FreeLock
      <4>1. \A y \in Worker : worker[y].at \notin Mending
        BY <2>6, <3>2, WorkerAssumption DEF RepairInv, FreeLock
      <4> QED BY <2>1, <2>6, <3>2, <4>1 DEF RepairInv, Mending
    <3> QED BY <2>3, <3>1, <3>2
  <2> QED BY <2>4, <2>5, <2>7 DEF DarwinInv
<1> QED BY <1>1, <1>2

\* Neither a retry nor a second job assesses or repairs anything twice: the receipts of an
\* occurrence speak of its one artifact, and a repair answers for each time the managed state
\* became stale (handler.go, repair.go).
THEOREM AssessedOnce == HealthSpec => []DoneOnce
<1>1. HealthInit => DarwinInv
  <2> SUFFICES ASSUME HealthInit
               PROVE  DarwinInv
    OBVIOUS
  <2>1. IdleWorker \in WorkerRecord /\ IdleWorker.at = "idle"
    BY DEF WorkerRecord, IdleWorker
  <2>2. \A x \in Worker : worker[x] = IdleWorker
    BY DEF HealthInit
  <2>3. DarwinTyped
    BY <2>1 DEF HealthInit, DarwinTyped, NoArtifact, ManagedState
  <2>4. RepairInv
    BY <2>1, <2>2 DEF HealthInit, RepairInv, Mending
  <2>5. \A o \in Occurrence : assessment[o] = {}
    BY DEF HealthInit, NoArtifact
  <2>6. AssessInv
    BY <2>1, <2>2, <2>5 DEF AssessInv, Agree, Occurrence
  <2> QED BY <2>3, <2>4, <2>6 DEF DarwinInv
<1>2. DarwinInv /\ [HealthNext]_healthVars => DarwinInv'
  <2> SUFFICES ASSUME DarwinInv, [HealthNext]_healthVars
               PROVE  DarwinInv'
    OBVIOUS
  <2>1. CASE UNCHANGED healthVars
    <3>1. UNCHANGED <<managed, repairLock, guard, assessment, receipts, worker, stales, repairs>>
      BY <2>1 DEF healthVars
    <3>2. AssessInv'
      BY <3>1 DEF DarwinInv, AssessInv
    <3> QED BY <3>1, <3>2 DEF DarwinInv, DarwinTyped, RepairInv
  <2>2. CASE HealthNext
    BY <2>2, HeadKeeps, RepairKeeps, ConcludeKeeps, PublishKeeps, OutsideKeeps DEF HealthNext
  <2> QED BY <2>1, <2>2
<1>3. DarwinInv => DoneOnce
  BY DEF DarwinInv, AssessInv, Agree, EndedOf, Ended, NoArtifact, RepairInv, DoneOnce, OneAssessment, RepairedOnce
<1> QED BY <1>1, <1>2, <1>3, PTL DEF HealthSpec


-----------------------------------------------------------------------------
(***************************************************************************)
(* DailyJournal.  Behind the lock directory one hook works at a time, and  *)
(* a hook that died under it keeps the others out.  The page has an ID     *)
(* once, whatever was settled is covered by the generation, and so is      *)
(* everything consumed; before the pending file of a checkpoint is         *)
(* removed, the whole generation is requested or acknowledged, and an      *)
(* acknowledgement is of the generation as it stands.                      *)
(***************************************************************************)
NoteBlock == [id : Checkpoint, says : Summary]
JournalEntry == NoteBlock \cup {Legacy, Timestamp[1]}
SavingAt == {"page", "generation", "committed", "request", "remove"}
HookPlace ==
  {HookIdle}
  \cup [at : {"lock"}, names : SUBSET Checkpoint, legacy : BOOLEAN]
  \cup [at : {"legacy", "legacyMarker"}, names : SUBSET Checkpoint]
  \cup [at : {"drain"}, names : SUBSET Checkpoint]
  \cup [at : SavingAt, names : SUBSET Checkpoint, id : Checkpoint, says : Summary, replay : BOOLEAN]
  \cup [at : {"ack", "ackRemove"}, digest : Seq(JournalEntry)]

DailyTyped ==
  /\ queue \in [Checkpoint -> Summary \cup {NoNote}]
  /\ bindings \in [Checkpoint -> Summary \cup {NoNote}]
  /\ settled \in [Checkpoint -> Summary \cup {NoNote}]
  /\ dayPage \in Seq(NoteBlock)
  /\ generation \in Seq(JournalEntry) /\ dreamRequest \in Seq(JournalEntry) /\ dreamAck \in Seq(JournalEntry)
  /\ dailyLock \in BOOLEAN
  /\ dailyHook \in [DailyHook -> HookPlace]

\* The places at which a hook holds the lock directory.
UnderLock(w) == w.at \in {"legacy", "legacyMarker", "drain", "ackRemove"} \cup SavingAt
DailyLocked ==
  /\ \A h \in DailyHook : UnderLock(dailyHook[h]) => dailyLock
  /\ \A h, g \in DailyHook : UnderLock(dailyHook[h]) /\ UnderLock(dailyHook[g]) => h = g

OnceOnPage == \A n, m \in DOMAIN dayPage : dayPage[n].id = dayPage[m].id => n = m
SettledIsCovered ==
  \A c \in Checkpoint : settled[c] # NoNote =>
     settled[c] = bindings[c] /\ Covers(generation, Block(c, settled[c]))
ConsumedStays ==
  \A b \in consumed :
     /\ b \in NoteBlock /\ OnPage(b) /\ Covers(generation, b)
     /\ Covers(dreamRequest, b) \/ Covers(dreamAck, b)

\* What a hook in the middle of a save relies on.
SaveAgrees(w) ==
  /\ w.at \in SavingAt => bindings[w.id] = w.says /\ w.says # NoNote
  /\ w.at = "page" =>
       /\ w.replay <=> OnPage(Block(w.id, w.says))
       /\ \A n \in DOMAIN dayPage : dayPage[n].id = w.id => dayPage[n].says = w.says
  /\ w.at \in SavingAt \ {"page"} => OnPage(Block(w.id, w.says))
  /\ w.at \in {"committed", "request", "remove"} => Covers(generation, Block(w.id, w.says))
  /\ w.at = "remove" => dreamAck = generation \/ dreamRequest = generation
  /\ w.at = "ackRemove" => dreamAck = generation
JournalInv ==
  /\ DailyTyped /\ DailyLocked /\ OnceOnPage /\ SettledIsCovered /\ ConsumedStays
  /\ \A h \in DailyHook : SaveAgrees(dailyHook[h])

JournalFilesTyped ==
  /\ queue \in [Checkpoint -> Summary \cup {NoNote}]
  /\ bindings \in [Checkpoint -> Summary \cup {NoNote}]
  /\ settled \in [Checkpoint -> Summary \cup {NoNote}]
  /\ dayPage \in Seq(NoteBlock)
  /\ generation \in Seq(JournalEntry) /\ dreamRequest \in Seq(JournalEntry) /\ dreamAck \in Seq(JournalEntry)

\* The invariant of the journal holds at first.
LEMMA JournalStarts == DailyInit => JournalInv
<1> SUFFICES ASSUME DailyInit PROVE JournalInv
  OBVIOUS
<1>1. Timestamp \in Seq(JournalEntry) /\ NoChain \in Seq(JournalEntry)
  BY DEF Timestamp, NoChain, JournalEntry
<1>2. DailyTyped
  <2>1. queue \in [Checkpoint -> Summary \cup {NoNote}] /\ dayPage \in Seq(NoteBlock)
    BY DEF DailyInit
  <2>2. generation \in Seq(JournalEntry) /\ dreamRequest \in Seq(JournalEntry) /\ dreamAck \in Seq(JournalEntry)
    BY <1>1 DEF DailyInit
  <2>3. HookIdle \in HookPlace
    BY DEF HookPlace
  <2>4. dailyHook \in [DailyHook -> HookPlace]
    BY <2>3 DEF DailyInit
  <2> QED
    BY <2>1, <2>2, <2>4 DEF DailyInit, DailyTyped
<1>3. DailyLocked /\ OnceOnPage /\ SettledIsCovered /\ ConsumedStays
  BY DEF DailyInit, DailyLocked, OnceOnPage, SettledIsCovered, ConsumedStays, UnderLock, HookIdle, SavingAt
<1>4. \A h \in DailyHook : SaveAgrees(dailyHook[h])
  BY DEF DailyInit, SaveAgrees, HookIdle, SavingAt
<1> QED
  BY <1>2, <1>3, <1>4 DEF JournalInv

\* A step of the hook that holds the lock directory changes what the other hooks rely on
\* for nobody: they are outside of it.
LEMMA LockHolderMoves ==
  ASSUME JournalInv, NEW h \in DailyHook, NEW w \in HookPlace, UnderLock(dailyHook[h]),
         dailyHook' = [dailyHook EXCEPT ![h] = w],
         dailyLock' \in BOOLEAN, UnderLock(w) => dailyLock' = dailyLock,
         JournalFilesTyped', OnceOnPage', SettledIsCovered', ConsumedStays', SaveAgrees(w)'
  PROVE  JournalInv'
<1>1. DailyTyped /\ DailyLocked
  BY DEF JournalInv
<1>2. DailyTyped'
  BY <1>1 DEF DailyTyped, JournalFilesTyped
<1>3. dailyHook'[h] = w /\ \A g \in DailyHook : g # h => dailyHook'[g] = dailyHook[g] /\ ~UnderLock(dailyHook[g])
  BY <1>1 DEF DailyTyped, DailyLocked
<1>4. DailyLocked'
  BY <1>1, <1>3 DEF DailyLocked, UnderLock
<1>5. ASSUME NEW g \in DailyHook PROVE SaveAgrees(dailyHook[g])'
  <2>1. CASE g = h
    BY <1>3, <2>1 DEF SaveAgrees, OnPage, Block, Covers, SavingAt
  <2>2. CASE g # h
    BY <1>3, <2>2 DEF SaveAgrees, UnderLock, SavingAt
  <2> QED
    BY <2>1, <2>2
<1> QED
  BY <1>2, <1>4, <1>5 DEF JournalInv

\* A hook that takes the free lock is alone under it.
LEMMA LockTaken ==
  ASSUME JournalInv, NEW h \in DailyHook, NEW w \in HookPlace, ~dailyLock, dailyLock' = TRUE,
         dailyHook' = [dailyHook EXCEPT ![h] = w],
         JournalFilesTyped', OnceOnPage', SettledIsCovered', ConsumedStays', SaveAgrees(w)'
  PROVE  JournalInv'
<1>1. DailyTyped /\ DailyLocked
  BY DEF JournalInv
<1>2. DailyTyped'
  BY <1>1 DEF DailyTyped, JournalFilesTyped
<1>3. dailyHook'[h] = w /\ \A g \in DailyHook : g # h => dailyHook'[g] = dailyHook[g] /\ ~UnderLock(dailyHook[g])
  BY <1>1 DEF DailyTyped, DailyLocked
<1>4. DailyLocked'
  BY <1>1, <1>3 DEF DailyLocked, UnderLock
<1>5. ASSUME NEW g \in DailyHook PROVE SaveAgrees(dailyHook[g])'
  <2>1. CASE g = h
    BY <1>3, <2>1 DEF SaveAgrees, OnPage, Block, Covers, SavingAt
  <2>2. CASE g # h
    BY <1>3, <2>2 DEF SaveAgrees, UnderLock, SavingAt
  <2> QED
    BY <2>1, <2>2
<1> QED
  BY <1>2, <1>4, <1>5 DEF JournalInv

JournalStands == UNCHANGED <<bindings, dayPage, generation, settled, dreamRequest, dreamAck, consumed>>

\* Steps that leave page, generation, request and acknowledgement alone keep what is said
\* of them.
LEMMA StandsKeeps ==
  ASSUME JournalInv, JournalStands
  PROVE  OnceOnPage' /\ SettledIsCovered' /\ ConsumedStays'
  BY DEF JournalInv, JournalStands, OnceOnPage, SettledIsCovered, ConsumedStays, OnPage, Covers, Block

\* A hook that stands outside the lock afterwards and changes none of the files keeps the
\* invariant.
LEMMA OutsiderMoves ==
  ASSUME JournalInv, NEW h \in DailyHook, NEW w \in HookPlace, ~UnderLock(w),
         dailyHook' = [dailyHook EXCEPT ![h] = w], JournalStands, UNCHANGED <<queue, dailyLock>>
  PROVE  JournalInv'
<1>1. DailyTyped /\ DailyLocked /\ \A g \in DailyHook : SaveAgrees(dailyHook[g])
  BY DEF JournalInv
<1>2. DailyTyped'
  BY <1>1 DEF DailyTyped, JournalStands
<1>3. dailyHook'[h] = w /\ \A g \in DailyHook : g # h => dailyHook'[g] = dailyHook[g]
  BY <1>1 DEF DailyTyped
<1>4. DailyLocked'
  BY <1>1, <1>3 DEF DailyLocked, UnderLock
<1>5. ASSUME NEW g \in DailyHook PROVE SaveAgrees(dailyHook[g])'
  <2>1. CASE g = h
    BY <1>3, <2>1 DEF SaveAgrees, UnderLock, SavingAt
  <2>2. CASE g # h
    <3>1. dailyHook'[g] = dailyHook[g] /\ SaveAgrees(dailyHook[g])
      BY <1>1, <1>3, <2>2
    <3> QED
      BY <3>1 DEF SaveAgrees, OnPage, Block, Covers, SavingAt, JournalStands
  <2> QED
    BY <2>1, <2>2
<1>6. OnceOnPage' /\ SettledIsCovered' /\ ConsumedStays'
  BY StandsKeeps
<1> QED
  BY <1>2, <1>4, <1>5, <1>6 DEF JournalInv

\* What a hook carries at each place.
LEMMA PlaceFacts ==
  ASSUME JournalInv, NEW h \in DailyHook
  PROVE  /\ dailyHook[h].at \in {"lock", "legacy", "legacyMarker", "drain"} \cup SavingAt => dailyHook[h].names \subseteq Checkpoint
         /\ dailyHook[h].at = "lock" => dailyHook[h].legacy \in BOOLEAN
         /\ dailyHook[h].at \in SavingAt =>
              dailyHook[h].id \in Checkpoint /\ dailyHook[h].says \in Summary /\ dailyHook[h].replay \in BOOLEAN
         /\ dailyHook[h].at \in {"ack", "ackRemove"} => dailyHook[h].digest \in Seq(JournalEntry)
         /\ dailyHook[h] \in HookPlace
<1>1. dailyHook[h] \in HookPlace
  BY DEF JournalInv, DailyTyped
<1> QED
  BY <1>1 DEF HookPlace, HookIdle, SavingAt

\* A chain that grows covers what it covered, and the new entry.
LEMMA GrowsStillCovers ==
  ASSUME NEW S, NEW chain \in Seq(S), NEW e \in S, NEW b, Covers(chain, b) \/ b = e
  PROVE  Covers(Append(chain, e), b)
<1>1. DOMAIN chain = 1..Len(chain) /\ DOMAIN Append(chain, e) = 1..(Len(chain) + 1) /\ Len(chain) \in Nat
  OBVIOUS
<1>2. \A n \in 1..Len(chain) : Append(chain, e)[n] = chain[n]
  OBVIOUS
<1>3. Append(chain, e)[Len(chain) + 1] = e
  OBVIOUS
<1> QED
  BY <1>1, <1>2, <1>3 DEF Covers

\* Advancing the generation loses no checkpoint.
LEMMA GenerationKeeps ==
  ASSUME JournalInv, NEW e \in JournalEntry, generation' = Append(generation, e),
         UNCHANGED <<queue, bindings, dayPage, settled, dreamRequest, dreamAck, consumed>>
  PROVE  JournalFilesTyped' /\ OnceOnPage' /\ SettledIsCovered' /\ ConsumedStays'
<1>1. DailyTyped /\ OnceOnPage /\ SettledIsCovered /\ ConsumedStays
  BY DEF JournalInv
<1>2. \A b : Covers(generation, b) => Covers(generation', b)
  BY <1>1, GrowsStillCovers DEF DailyTyped
<1>3. JournalFilesTyped'
  BY <1>1 DEF DailyTyped, JournalFilesTyped
<1>4. SettledIsCovered'
  BY <1>1, <1>2 DEF SettledIsCovered
<1>5. ConsumedStays'
  BY <1>1, <1>2 DEF ConsumedStays, OnPage, Covers
<1> QED
  BY <1>1, <1>3, <1>4, <1>5 DEF OnceOnPage

\* Files nobody changed stay what they are.
LEMMA FilesStayTyped ==
  ASSUME JournalInv, UNCHANGED dailyFiles
  PROVE  JournalFilesTyped' /\ (UNCHANGED consumed => JournalStands)
  BY DEF JournalInv, DailyTyped, JournalFilesTyped, dailyFiles, JournalStands

\* Listing the pending files, seeing the request and dying keep the invariant.
LEMMA StopListsKeeps ==
  ASSUME JournalInv, NEW h \in DailyHook, StopLists(h) \/ DreamStarts(h) \/ HookDies(h)
  PROVE  JournalInv'
<1>1. JournalStands /\ UNCHANGED <<queue, dailyLock>>
  BY DEF StopLists, DreamStarts, HookDies, dailyFiles, JournalStands
<1>2. PICK w \in HookPlace : ~UnderLock(w) /\ dailyHook' = [dailyHook EXCEPT ![h] = w]
  <2>1. CASE StopLists(h)
    <3>1. PICK names \in SUBSET Checkpoint :
            dailyHook' = [dailyHook EXCEPT ![h] = [at |-> "lock", names |-> names, legacy |-> LegacyPending]]
      BY <2>1 DEF StopLists, Names
    <3>2. [at |-> "lock", names |-> names, legacy |-> LegacyPending] \in HookPlace
      BY DEF HookPlace, LegacyPending
    <3> QED
      BY <3>1, <3>2 DEF UnderLock, SavingAt
  <2>2. CASE DreamStarts(h)
    <3>1. [at |-> "ack", digest |-> dreamRequest] \in HookPlace
      BY DEF HookPlace, JournalInv, DailyTyped
    <3> QED
      BY <3>1, <2>2 DEF DreamStarts, UnderLock, SavingAt
  <2>3. CASE HookDies(h)
    <3>1. HookIdle \in HookPlace
      BY DEF HookPlace
    <3> QED
      BY <3>1, <2>3 DEF HookDies, UnderLock, SavingAt, HookIdle
  <2> QED
    BY <2>1, <2>2, <2>3
<1> QED
  BY <1>1, <1>2, OutsiderMoves

\* dailyStop takes the lock or gives up.
LEMMA StopLocksKeeps ==
  ASSUME JournalInv, NEW h \in DailyHook, StopLocks(h)
  PROVE  JournalInv'
<1>1. JournalStands /\ UNCHANGED queue /\ JournalFilesTyped'
  BY FilesStayTyped DEF StopLocks, dailyFiles, JournalStands
<1>2. CASE dailyLock
  <2>1. HookIdle \in HookPlace /\ ~UnderLock(HookIdle)
    BY DEF HookPlace, HookIdle, UnderLock, SavingAt
  <2>2. dailyHook' = [dailyHook EXCEPT ![h] = HookIdle] /\ UNCHANGED dailyLock
    BY <1>2 DEF StopLocks
  <2> QED
    BY <1>1, <2>1, <2>2, OutsiderMoves
<1>3. CASE ~dailyLock
  <2>1. dailyHook[h].names \subseteq Checkpoint
    BY PlaceFacts DEF StopLocks
  <2>2. PICK w \in HookPlace : w.at \in {"legacy", "drain"} /\ dailyHook' = [dailyHook EXCEPT ![h] = w]
    <3>1. [at |-> "legacy", names |-> dailyHook[h].names] \in HookPlace
      BY <2>1 DEF HookPlace
    <3>2. DrainState(dailyHook[h].names) \in HookPlace /\ DrainState(dailyHook[h].names).at = "drain"
      BY <2>1 DEF HookPlace, DrainState
    <3> QED
      BY <1>3, <3>1, <3>2 DEF StopLocks
  <2>3. SaveAgrees(w)'
    BY <2>2 DEF SaveAgrees, SavingAt
  <2>4. dailyLock' = TRUE
    BY <1>3 DEF StopLocks
  <2> QED
    BY <1>1, <1>3, <2>2, <2>3, <2>4, LockTaken, StandsKeeps
<1>4. dailyLock \in BOOLEAN
  BY DEF JournalInv, DailyTyped
<1> QED
  BY <1>2, <1>3, <1>4

\* A hook between two checkpoints relies on nothing but the lock.
LEMMA DrainPlace ==
  ASSUME NEW names \in SUBSET Checkpoint
  PROVE  /\ DrainState(names) \in HookPlace /\ UnderLock(DrainState(names))
         /\ SaveAgrees(DrainState(names)) /\ DrainState(names).at = "drain"
  BY DEF DrainState, HookPlace, UnderLock, SaveAgrees, SavingAt

\* A request of the old format is hashed into the generation and replaced by it.
LEMMA LegacyKeeps ==
  ASSUME JournalInv, NEW h \in DailyHook, LegacyGeneration(h) \/ LegacyMarker(h)
  PROVE  JournalInv'
<1>0. /\ DailyTyped /\ UnderLock(dailyHook[h]) /\ dailyLock' = dailyLock /\ dailyLock' \in BOOLEAN
      /\ dailyHook[h].names \in SUBSET Checkpoint /\ dailyHook[h] \in HookPlace
  BY PlaceFacts DEF JournalInv, DailyTyped, LegacyGeneration, LegacyMarker, UnderLock
<1>1. PICK w \in HookPlace : w.at \in {"legacyMarker", "drain"} /\ dailyHook' = [dailyHook EXCEPT ![h] = w]
  <2>1. DrainState(dailyHook[h].names) \in HookPlace /\ DrainState(dailyHook[h].names).at = "drain"
    BY <1>0, DrainPlace
  <2>2. dailyHook[h].at = "legacy" =>
          /\ [dailyHook[h] EXCEPT !.at = "legacyMarker"] \in HookPlace
          /\ [dailyHook[h] EXCEPT !.at = "legacyMarker"].at = "legacyMarker"
    BY <1>0 DEF HookPlace, HookIdle, SavingAt
  <2>3. \/ dailyHook' = [dailyHook EXCEPT ![h] = DrainState(dailyHook[h].names)]
        \/ dailyHook[h].at = "legacy" /\ dailyHook' = [dailyHook EXCEPT ![h] = [dailyHook[h] EXCEPT !.at = "legacyMarker"]]
    BY <1>0 DEF LegacyGeneration, LegacyMarker, DailyTyped
  <2> QED
    BY <2>1, <2>2, <2>3
<1>2. SaveAgrees(w)'
  BY <1>1 DEF SaveAgrees, SavingAt
<1>3. JournalFilesTyped' /\ OnceOnPage' /\ SettledIsCovered' /\ ConsumedStays'
  <2>1. CASE LegacyGeneration(h)
    <3>1. UNCHANGED <<queue, bindings, dayPage, settled, dreamRequest, dreamAck, consumed>>
      BY <2>1 DEF LegacyGeneration
    <3>2. CASE LegacyPending
      <4>1. generation' = Append(generation, Legacy) /\ Legacy \in JournalEntry
        BY <2>1, <3>2 DEF LegacyGeneration, JournalEntry
      <4> QED
        BY <3>1, <4>1, GenerationKeeps
    <3>3. CASE ~LegacyPending
      <4>1. UNCHANGED dailyFiles /\ JournalStands
        BY <2>1, <3>1, <3>3 DEF LegacyGeneration, dailyFiles, JournalStands
      <4> QED
        BY <4>1, FilesStayTyped, StandsKeeps
    <3> QED
      BY <3>2, <3>3
  <2>2. CASE LegacyMarker(h)
    <3>1. /\ UNCHANGED <<queue, bindings, dayPage, generation, settled, dreamAck, consumed>>
          /\ dreamRequest' = generation
      BY <2>2 DEF LegacyMarker
    <3>2. JournalFilesTyped' /\ OnceOnPage' /\ SettledIsCovered'
      BY <3>1 DEF JournalInv, DailyTyped, JournalFilesTyped, OnceOnPage, SettledIsCovered, Covers, Block
    <3>3. ConsumedStays'
      BY <3>1 DEF JournalInv, ConsumedStays, OnPage, Covers
    <3> QED
      BY <3>2, <3>3
  <2> QED
    BY <2>1, <2>2
<1> QED
  BY <1>0, <1>1, <1>2, <1>3, LockHolderMoves

\* A checkpoint is bound to its ID only as long as neither binding nor page say anything
\* else of it.
LEMMA SaveReadsKeeps ==
  ASSUME JournalInv, NEW h \in DailyHook, NEW c \in Checkpoint, SaveReads(h, c)
  PROVE  JournalInv'
<1>1. /\ DailyTyped /\ UnderLock(dailyHook[h]) /\ dailyLock' = dailyLock /\ dailyLock' \in BOOLEAN
      /\ dailyHook[h].names \in SUBSET Checkpoint
  BY PlaceFacts DEF JournalInv, DailyTyped, SaveReads, UnderLock
<1>2. CASE Admissible(c, queue[c])
  <2>1. PICK s \in Summary : s = queue[c] /\ s # NoNote
    BY <1>1, <1>2 DEF Admissible, DailyTyped
  <2>2. PICK w : w = [at |-> "page", names |-> dailyHook[h].names \ {c}, id |-> c, says |-> s, replay |-> OnPage(Block(c, s))]
    OBVIOUS
  <2>3. dailyHook' = [dailyHook EXCEPT ![h] = w] /\ bindings' = [bindings EXCEPT ![c] = s]
    BY <1>2, <2>1, <2>2 DEF SaveReads
  <2>4. w \in HookPlace
    BY <1>1, <2>2 DEF HookPlace, SavingAt, OnPage
  <2>5. /\ UNCHANGED <<queue, dayPage, generation, settled, dreamRequest, dreamAck, consumed>>
        /\ bindings[c] \in {NoNote, s}
        /\ \A n \in DOMAIN dayPage : dayPage[n].id = c => dayPage[n].says = s
    BY <1>2, <2>1 DEF SaveReads, Admissible
  <2>6. SaveAgrees(w)'
    BY <1>1, <2>1, <2>2, <2>3, <2>5 DEF SaveAgrees, SavingAt, OnPage, Block, DailyTyped
  <2>7. JournalFilesTyped' /\ OnceOnPage'
    BY <1>1, <2>3, <2>5 DEF JournalInv, DailyTyped, JournalFilesTyped, OnceOnPage
  <2>8. SettledIsCovered'
    BY <1>1, <2>3, <2>5 DEF JournalInv, DailyTyped, SettledIsCovered, Covers, Block
  <2>9. ConsumedStays'
    BY <2>5 DEF JournalInv, ConsumedStays, Covers, OnPage
  <2> QED
    BY <1>1, <2>3, <2>4, <2>6, <2>7, <2>8, <2>9, LockHolderMoves
<1>3. CASE ~Admissible(c, queue[c])
  <2>1. PICK w : w = DrainState(dailyHook[h].names \ {c})
    OBVIOUS
  <2>2. dailyHook[h].at = "drain" /\ [dailyHook[h] EXCEPT !.names = dailyHook[h].names \ {c}] = w
    <3>1. dailyHook[h].at = "drain" /\ dailyHook[h] \in HookPlace
      BY PlaceFacts DEF SaveReads
    <3>2. dailyHook[h] \in [at : {"drain"}, names : SUBSET Checkpoint]
      BY <3>1 DEF HookPlace, HookIdle, SavingAt
    <3> QED
      BY <2>1, <3>2 DEF DrainState
  <2>3. dailyHook' = [dailyHook EXCEPT ![h] = w] /\ UNCHANGED dailyFiles /\ JournalStands
    BY <1>3, <2>2 DEF SaveReads, dailyFiles, JournalStands
  <2>4. w \in HookPlace /\ w.at = "drain"
    BY <1>1, <2>1, DrainPlace
  <2>5. SaveAgrees(w)'
    BY <2>4 DEF SaveAgrees, SavingAt
  <2> QED
    BY <1>1, <2>3, <2>4, <2>5, LockHolderMoves, FilesStayTyped, StandsKeeps
<1> QED
  BY <1>2, <1>3

\* A hook in the middle of a save goes on to another step of it.
SaveGoesOn(h, w, step) == w = [dailyHook[h] EXCEPT !.at = step]

\* What a hook in the middle of a save holds when it goes on to the next step.
LEMMA SaveGoes ==
  ASSUME JournalInv, NEW h \in DailyHook, dailyHook[h].at \in SavingAt, NEW step \in SavingAt, SaveNext(h, step), UNCHANGED dailyLock
  PROVE  /\ dailyLock' \in BOOLEAN /\ UnderLock(dailyHook[h]) /\ DailyTyped /\ SaveAgrees(dailyHook[h])
         /\ dailyHook[h].id \in Checkpoint /\ dailyHook[h].says \in Summary
         /\ Block(dailyHook[h].id, dailyHook[h].says) \in NoteBlock
         /\ \E w \in HookPlace :
              /\ dailyHook' = [dailyHook EXCEPT ![h] = w] /\ w.at = step
              /\ w.id = dailyHook[h].id /\ w.says = dailyHook[h].says /\ w.replay = dailyHook[h].replay
<1>1. DailyTyped /\ SaveAgrees(dailyHook[h]) /\ dailyLock' \in BOOLEAN /\ UnderLock(dailyHook[h])
  BY DEF JournalInv, DailyTyped, UnderLock
<1>2. dailyHook[h].id \in Checkpoint /\ dailyHook[h].says \in Summary
  BY PlaceFacts
<1>3. Block(dailyHook[h].id, dailyHook[h].says) \in NoteBlock
  BY <1>2 DEF Block, NoteBlock
<1>4. PICK w : SaveGoesOn(h, w, step)
  BY DEF SaveGoesOn
<1>5. dailyHook' = [dailyHook EXCEPT ![h] = w]
  BY <1>1, <1>4 DEF SaveNext, SaveGoesOn, DailyTyped
<1>6. /\ w \in HookPlace /\ w.at = step
      /\ w.id = dailyHook[h].id /\ w.says = dailyHook[h].says /\ w.replay = dailyHook[h].replay
  BY <1>4, PlaceFacts DEF HookPlace, HookIdle, SavingAt, SaveGoesOn
<1> QED
  BY <1>1, <1>2, <1>3, <1>5, <1>6

\* A block whose ID is not on the page can be appended without repeating one.
LEMMA AppendOnce ==
  ASSUME dayPage \in Seq(NoteBlock), OnceOnPage, NEW b \in NoteBlock, dayPage' = Append(dayPage, b),
         \A n \in DOMAIN dayPage : dayPage[n].id # b.id
  PROVE  /\ dayPage' \in Seq(NoteBlock) /\ OnceOnPage' /\ OnPage(b)'
         /\ \A x : OnPage(x) => OnPage(x)'
<1>1. DOMAIN dayPage = 1..Len(dayPage) /\ DOMAIN dayPage' = 1..(Len(dayPage) + 1) /\ Len(dayPage) \in Nat
  OBVIOUS
<1>2. /\ \A n \in 1..Len(dayPage) : dayPage'[n] = dayPage[n]
      /\ dayPage'[Len(dayPage) + 1] = b
  OBVIOUS
<1>3. dayPage' \in Seq(NoteBlock)
  OBVIOUS
<1>4. OnceOnPage'
  <2> SUFFICES ASSUME NEW n \in DOMAIN dayPage', NEW m \in DOMAIN dayPage', dayPage'[n].id = dayPage'[m].id PROVE n = m
    BY DEF OnceOnPage
  <2>1. CASE n \in 1..Len(dayPage) /\ m \in 1..Len(dayPage)
    BY <1>1, <1>2, <2>1 DEF OnceOnPage
  <2>2. CASE n = Len(dayPage) + 1 /\ m \in 1..Len(dayPage)
    BY <1>1, <1>2, <2>2
  <2>3. CASE m = Len(dayPage) + 1 /\ n \in 1..Len(dayPage)
    BY <1>1, <1>2, <2>3
  <2> QED
    BY <1>1, <2>1, <2>2, <2>3
<1>5. OnPage(b)'
  BY <1>1, <1>2 DEF OnPage
<1>6. \A x : OnPage(x) => OnPage(x)'
  BY <1>1, <1>2 DEF OnPage
<1> QED
  BY <1>3, <1>4, <1>5, <1>6

\* The block is appended unless it was there when the checkpoint was read, and nobody
\* else writes the page.
LEMMA SavePageKeeps ==
  ASSUME JournalInv, NEW h \in DailyHook, SavePage(h)
  PROVE  JournalInv'
<1>1. /\ dailyHook[h].at = "page" /\ SaveNext(h, "generation") /\ UNCHANGED dailyLock
      /\ UNCHANGED <<queue, bindings, generation, settled, dreamRequest, dreamAck, consumed>>
  BY DEF SavePage, AtSave
<1>2. /\ dailyLock' \in BOOLEAN /\ UnderLock(dailyHook[h]) /\ DailyTyped /\ SaveAgrees(dailyHook[h])
      /\ Block(dailyHook[h].id, dailyHook[h].says) \in NoteBlock
  BY <1>1, SaveGoes DEF SavingAt
<1>3. PICK w \in HookPlace :
        /\ dailyHook' = [dailyHook EXCEPT ![h] = w] /\ w.at = "generation"
        /\ w.id = dailyHook[h].id /\ w.says = dailyHook[h].says
  BY <1>1, SaveGoes DEF SavingAt
<1>4. PICK b \in NoteBlock : b = Block(w.id, w.says)
  BY <1>2, <1>3
<1>5. /\ dayPage' \in Seq(NoteBlock) /\ OnceOnPage' /\ OnPage(b)'
      /\ \A x : OnPage(x) => OnPage(x)'
  <2>1. CASE dailyHook[h].replay
    <3>1. dayPage' = dayPage
      BY <2>1 DEF SavePage
    <3>2. OnPage(b) /\ OnceOnPage /\ dayPage \in Seq(NoteBlock)
      BY <1>1, <1>2, <1>3, <1>4, <2>1 DEF SaveAgrees, JournalInv, DailyTyped
    <3> QED
      BY <3>1, <3>2 DEF OnPage, OnceOnPage
  <2>2. CASE ~dailyHook[h].replay
    <3>1. dayPage' = Append(dayPage, b)
      BY <1>3, <1>4, <2>2 DEF SavePage
    <3>2. /\ ~OnPage(b) /\ OnceOnPage /\ dayPage \in Seq(NoteBlock)
          /\ \A n \in DOMAIN dayPage : dayPage[n].id = w.id => dayPage[n].says = w.says
      BY <1>1, <1>2, <1>3, <1>4, <2>2 DEF SaveAgrees, JournalInv, DailyTyped
    <3>3. ASSUME NEW n \in DOMAIN dayPage, dayPage[n].id = b.id PROVE FALSE
      <4>1. dayPage[n] \in NoteBlock /\ b.id = w.id /\ b.says = w.says
        BY <1>4, <3>2 DEF Block
      <4>2. dayPage[n].says = b.says
        BY <3>2, <3>3, <4>1
      <4>3. dayPage[n] = b
        BY <3>3, <4>1, <4>2 DEF NoteBlock
      <4> QED
        BY <3>2, <4>3 DEF OnPage
    <3> QED
      BY <3>1, <3>2, <3>3, AppendOnce
  <2> QED
    BY <2>1, <2>2
<1>6. JournalFilesTyped'
  BY <1>1, <1>2, <1>5 DEF DailyTyped, JournalFilesTyped
<1>7. SettledIsCovered'
  BY <1>1 DEF JournalInv, SettledIsCovered, Covers
<1>8. ConsumedStays'
  BY <1>1, <1>5 DEF JournalInv, ConsumedStays, Covers
<1>9. SaveAgrees(w)'
  <2>1. bindings[w.id] = w.says /\ w.says # NoNote
    BY <1>1, <1>2, <1>3 DEF SaveAgrees, SavingAt
  <2>2. OnPage(Block(w.id, w.says))'
    BY <1>4, <1>5 DEF Block
  <2> QED
    BY <1>1, <1>3, <2>1, <2>2 DEF SaveAgrees, SavingAt
<1> QED
  BY <1>1, <1>2, <1>3, <1>5, <1>6, <1>7, <1>8, <1>9, LockHolderMoves

\* After this step the generation covers the checkpoint, even one committed before a
\* crash.
LEMMA SaveGenerationKeeps ==
  ASSUME JournalInv, NEW h \in DailyHook, SaveGeneration(h)
  PROVE  JournalInv'
<1>1. /\ dailyHook[h].at = "generation" /\ UNCHANGED dailyLock
      /\ UNCHANGED <<queue, bindings, dayPage, settled, dreamRequest, dreamAck, consumed>>
  BY DEF SaveGeneration, AtSave
<1>2. PICK step \in {"committed", "request"} :
        /\ SaveNext(h, step)
        /\ step = "committed" => generation' = Append(generation, Block(dailyHook[h].id, dailyHook[h].says))
        /\ step = "request" => UNCHANGED generation /\ settled[dailyHook[h].id] # NoNote
  BY DEF SaveGeneration
<1>3. /\ dailyLock' \in BOOLEAN /\ UnderLock(dailyHook[h]) /\ DailyTyped /\ SaveAgrees(dailyHook[h])
      /\ dailyHook[h].id \in Checkpoint /\ Block(dailyHook[h].id, dailyHook[h].says) \in NoteBlock
  BY <1>1, <1>2, SaveGoes DEF SavingAt
<1>4. PICK w \in HookPlace :
        /\ dailyHook' = [dailyHook EXCEPT ![h] = w] /\ w.at = step
        /\ w.id = dailyHook[h].id /\ w.says = dailyHook[h].says
  BY <1>1, <1>2, SaveGoes DEF SavingAt
<1>5. PICK b \in NoteBlock : b = Block(w.id, w.says)
  BY <1>3, <1>4
<1>6. /\ JournalFilesTyped' /\ OnceOnPage' /\ SettledIsCovered' /\ ConsumedStays'
      /\ Covers(generation', b)
  <2>1. CASE step = "committed"
    <3>1. generation' = Append(generation, b) /\ b \in JournalEntry /\ generation \in Seq(JournalEntry)
      BY <1>2, <1>3, <1>4, <1>5, <2>1 DEF JournalEntry, DailyTyped
    <3>2. Covers(generation', b)
      BY <3>1, GrowsStillCovers
    <3> QED
      BY <1>1, <3>1, <3>2, GenerationKeeps
  <2>2. CASE step = "request"
    <3>1. UNCHANGED dailyFiles /\ JournalStands
      BY <1>1, <1>2, <2>2 DEF dailyFiles, JournalStands
    <3>2. Covers(generation, b)
      <4>1. settled[w.id] = bindings[w.id] /\ Covers(generation, Block(w.id, settled[w.id]))
        BY <1>2, <1>3, <1>4, <2>2 DEF JournalInv, SettledIsCovered
      <4>2. bindings[w.id] = w.says
        BY <1>1, <1>3, <1>4 DEF SaveAgrees, SavingAt
      <4> QED
        BY <1>5, <4>1, <4>2
    <3> QED
      BY <1>1, <1>2, <2>2, <3>1, <3>2, FilesStayTyped, StandsKeeps
  <2> QED
    BY <2>1, <2>2
<1>7. SaveAgrees(w)'
  <2>1. bindings'[w.id] = w.says /\ w.says # NoNote /\ OnPage(b)'
    BY <1>1, <1>3, <1>4, <1>5 DEF SaveAgrees, SavingAt, OnPage
  <2> QED
    BY <1>2, <1>4, <1>5, <1>6, <2>1 DEF SaveAgrees, SavingAt, Block, Covers
<1> QED
  BY <1>1, <1>3, <1>4, <1>6, <1>7, LockHolderMoves

\* A checkpoint is marked committed under the words it is bound to.
LEMMA SaveCommittedKeeps ==
  ASSUME JournalInv, NEW h \in DailyHook, SaveCommitted(h)
  PROVE  JournalInv'
<1>1. /\ dailyHook[h].at = "committed" /\ SaveNext(h, "request") /\ UNCHANGED dailyLock
      /\ settled' = [settled EXCEPT ![dailyHook[h].id] = dailyHook[h].says]
      /\ UNCHANGED <<queue, bindings, dayPage, generation, dreamRequest, dreamAck, consumed>>
  BY DEF SaveCommitted, AtSave
<1>2. /\ dailyLock' \in BOOLEAN /\ UnderLock(dailyHook[h]) /\ DailyTyped /\ SaveAgrees(dailyHook[h])
      /\ dailyHook[h].id \in Checkpoint /\ dailyHook[h].says \in Summary
  BY <1>1, SaveGoes DEF SavingAt
<1>3. PICK w \in HookPlace :
        /\ dailyHook' = [dailyHook EXCEPT ![h] = w] /\ w.at = "request"
        /\ w.id = dailyHook[h].id /\ w.says = dailyHook[h].says
  BY <1>1, SaveGoes DEF SavingAt
<1>4. bindings[w.id] = w.says /\ w.says # NoNote /\ OnPage(Block(w.id, w.says)) /\ Covers(generation, Block(w.id, w.says))
  BY <1>1, <1>2, <1>3 DEF SaveAgrees, SavingAt
<1>5. JournalFilesTyped' /\ OnceOnPage'
  BY <1>1, <1>2 DEF JournalInv, DailyTyped, JournalFilesTyped, OnceOnPage
<1>6. SettledIsCovered'
  BY <1>1, <1>2, <1>3, <1>4 DEF JournalInv, DailyTyped, SettledIsCovered, Covers, Block
<1>7. ConsumedStays'
  BY <1>1 DEF JournalInv, ConsumedStays, Covers, OnPage
<1>8. SaveAgrees(w)'
  BY <1>1, <1>3, <1>4 DEF SaveAgrees, SavingAt, Covers, OnPage, Block
<1> QED
  BY <1>1, <1>2, <1>3, <1>5, <1>6, <1>7, <1>8, LockHolderMoves

\* After this step the whole generation is requested or acknowledged.
LEMMA SaveRequestKeeps ==
  ASSUME JournalInv, NEW h \in DailyHook, SaveRequest(h)
  PROVE  JournalInv'
<1>1. /\ dailyHook[h].at = "request" /\ SaveNext(h, "remove") /\ UNCHANGED dailyLock
      /\ dreamRequest' = RequestAfterSave
      /\ UNCHANGED <<queue, bindings, dayPage, generation, settled, dreamAck, consumed>>
  BY DEF SaveRequest, AtSave
<1>2. dailyLock' \in BOOLEAN /\ UnderLock(dailyHook[h]) /\ DailyTyped /\ SaveAgrees(dailyHook[h])
  BY <1>1, SaveGoes DEF SavingAt
<1>3. PICK w \in HookPlace :
        /\ dailyHook' = [dailyHook EXCEPT ![h] = w] /\ w.at = "remove"
        /\ w.id = dailyHook[h].id /\ w.says = dailyHook[h].says
  BY <1>1, SaveGoes DEF SavingAt
<1>4. bindings[w.id] = w.says /\ w.says # NoNote /\ OnPage(Block(w.id, w.says)) /\ Covers(generation, Block(w.id, w.says))
  BY <1>1, <1>2, <1>3 DEF SaveAgrees, SavingAt
<1>5. dreamAck' = generation' \/ dreamRequest' = generation'
  BY <1>1 DEF RequestAfterSave
<1>6. JournalFilesTyped' /\ OnceOnPage' /\ SettledIsCovered'
  BY <1>1, <1>2 DEF JournalInv, DailyTyped, JournalFilesTyped, OnceOnPage, SettledIsCovered, Covers, RequestAfterSave
<1>7. ConsumedStays'
  BY <1>1, <1>5 DEF JournalInv, ConsumedStays, Covers, OnPage
<1>8. SaveAgrees(w)'
  BY <1>1, <1>3, <1>4, <1>5 DEF SaveAgrees, SavingAt, Covers, OnPage, Block
<1> QED
  BY <1>1, <1>2, <1>3, <1>6, <1>7, <1>8, LockHolderMoves

\* The pending file goes once page and request stand.
LEMMA SaveRemovesKeeps ==
  ASSUME JournalInv, NEW h \in DailyHook, SaveRemoves(h)
  PROVE  JournalInv'
<1>1. /\ dailyHook[h].at = "remove" /\ dailyLock' = dailyLock
      /\ UNCHANGED <<bindings, dayPage, generation, settled, dreamRequest, dreamAck>>
  BY DEF SaveRemoves, AtSave
<1>2. /\ DailyTyped /\ SaveAgrees(dailyHook[h]) /\ UnderLock(dailyHook[h]) /\ dailyLock' \in BOOLEAN
      /\ dailyHook[h].names \in SUBSET Checkpoint /\ dailyHook[h].id \in Checkpoint /\ dailyHook[h].says \in Summary
  BY <1>1, PlaceFacts DEF JournalInv, DailyTyped, UnderLock, SavingAt
<1>3. PICK b \in NoteBlock : b = Block(dailyHook[h].id, dailyHook[h].says)
  BY <1>2 DEF Block, NoteBlock
<1>4. PICK w : w = DrainState(dailyHook[h].names)
  OBVIOUS
<1>5. w \in HookPlace /\ w.at = "drain"
  BY <1>2, <1>4, DrainPlace
<1>6. /\ dailyHook' = [dailyHook EXCEPT ![h] = w] /\ consumed' = consumed \cup {b}
      /\ queue' = [queue EXCEPT ![dailyHook[h].id] = NoNote]
  BY <1>1, <1>3, <1>4 DEF SaveRemoves
<1>7. OnPage(b) /\ Covers(generation, b) /\ (Covers(dreamRequest, b) \/ Covers(dreamAck, b))
  BY <1>1, <1>2, <1>3 DEF SaveAgrees, SavingAt
<1>8. JournalFilesTyped' /\ OnceOnPage' /\ SettledIsCovered'
  BY <1>1, <1>2, <1>6 DEF JournalInv, DailyTyped, JournalFilesTyped, OnceOnPage, SettledIsCovered, Covers
<1>9. ConsumedStays'
  BY <1>1, <1>6, <1>7 DEF JournalInv, ConsumedStays, Covers, OnPage
<1>10. SaveAgrees(w)'
  BY <1>5 DEF SaveAgrees, SavingAt
<1> QED
  BY <1>1, <1>2, <1>5, <1>6, <1>8, <1>9, <1>10, LockHolderMoves

\* The end of a drain.
LEMMA UnlockKeeps ==
  ASSUME JournalInv, NEW h \in DailyHook, StopUnlocks(h)
  PROVE  JournalInv'
<1>1. /\ dailyHook[h] = DrainState({}) /\ dailyLock' = FALSE /\ dailyHook' = [dailyHook EXCEPT ![h] = HookIdle]
      /\ UNCHANGED dailyFiles /\ JournalStands
  BY DEF StopUnlocks, dailyFiles, JournalStands
<1>2. UnderLock(dailyHook[h]) /\ HookIdle \in HookPlace /\ ~UnderLock(HookIdle) /\ SaveAgrees(HookIdle)'
  BY <1>1 DEF UnderLock, DrainState, HookPlace, HookIdle, SaveAgrees, SavingAt
<1> QED
  BY <1>1, <1>2, LockHolderMoves, FilesStayTyped, StandsKeeps

\* An acknowledgement is of the generation as it is then.
LEMMA AcksKeeps ==
  ASSUME JournalInv, NEW h \in DailyHook, DreamAcks(h)
  PROVE  JournalInv'
<1>1. dailyHook[h].at = "ack" /\ UNCHANGED <<queue, bindings, dayPage, generation, settled, dreamRequest, consumed>>
  BY DEF DreamAcks, AtSave
<1>2. CASE /\ ~dailyLock /\ AckCurrent(dailyHook[h].digest)
           /\ dreamAck' = dreamRequest /\ dailyLock' = TRUE /\ SaveNext(h, "ackRemove")
  <2>1. DailyTyped /\ dreamAck' = generation
    BY <1>2 DEF AckCurrent, JournalInv
  <2>2. PICK w : SaveGoesOn(h, w, "ackRemove")
    BY DEF SaveGoesOn
  <2>3. w \in HookPlace /\ w.at = "ackRemove"
    BY <1>1, <2>2, PlaceFacts DEF SaveGoesOn, HookPlace, HookIdle, SavingAt
  <2>4. dailyHook' = [dailyHook EXCEPT ![h] = w]
    BY <1>2, <2>1, <2>2 DEF SaveNext, SaveGoesOn, DailyTyped
  <2>5. SaveAgrees(w)'
    BY <1>1, <2>1, <2>3 DEF SaveAgrees, SavingAt
  <2>6. JournalFilesTyped' /\ OnceOnPage' /\ SettledIsCovered'
    BY <1>1, <2>1 DEF JournalInv, DailyTyped, JournalFilesTyped, OnceOnPage, SettledIsCovered, Covers
  <2>7. ConsumedStays'
    BY <1>1, <2>1 DEF JournalInv, ConsumedStays, Covers, OnPage
  <2> QED
    BY <1>2, <2>3, <2>4, <2>5, <2>6, <2>7, LockTaken
<1>3. CASE dailyHook' = [dailyHook EXCEPT ![h] = HookIdle] /\ UNCHANGED <<dreamAck, dailyLock>>
  <2>1. HookIdle \in HookPlace /\ ~UnderLock(HookIdle)
    BY DEF HookPlace, HookIdle, UnderLock, SavingAt
  <2> QED
    BY <1>1, <1>3, <2>1, OutsiderMoves DEF JournalStands
<1> QED
  BY <1>2, <1>3 DEF DreamAcks

\* The request goes only after the acknowledgement of the same generation.
LEMMA AckRemovesKeeps ==
  ASSUME JournalInv, NEW h \in DailyHook, AckRemoves(h)
  PROVE  JournalInv'
<1>1. /\ dailyHook[h].at = "ackRemove" /\ dreamRequest' = NoChain /\ dailyLock' = FALSE
      /\ dailyHook' = [dailyHook EXCEPT ![h] = HookIdle]
      /\ UNCHANGED <<queue, bindings, dayPage, generation, settled, dreamAck, consumed>>
  BY DEF AckRemoves, AtSave
<1>2. UnderLock(dailyHook[h]) /\ HookIdle \in HookPlace /\ ~UnderLock(HookIdle) /\ SaveAgrees(HookIdle)'
  BY <1>1 DEF UnderLock, HookPlace, HookIdle, SaveAgrees, SavingAt
<1>3. dreamAck = generation
  BY <1>1 DEF JournalInv, SaveAgrees
<1>4. NoChain \in Seq(JournalEntry)
  BY DEF NoChain
<1>5. JournalFilesTyped' /\ OnceOnPage' /\ SettledIsCovered'
  BY <1>1, <1>4 DEF JournalInv, DailyTyped, JournalFilesTyped, OnceOnPage, SettledIsCovered, Covers
<1>6. ConsumedStays'
  BY <1>1, <1>3 DEF JournalInv, ConsumedStays, Covers, OnPage
<1> QED
  BY <1>1, <1>2, <1>5, <1>6, LockHolderMoves

\* Steps beside the hooks keep the invariant as long as no lock in use is lost.
LEMMA BesidesKeeps ==
  ASSUME JournalInv, UNCHANGED dailyHook, JournalStands, queue' \in [Checkpoint -> Summary \cup {NoNote}],
         dailyLock' \in BOOLEAN, (\E h \in DailyHook : UnderLock(dailyHook[h])) => dailyLock'
  PROVE  JournalInv'
<1>1. DailyTyped' /\ DailyLocked'
  BY DEF JournalInv, DailyTyped, DailyLocked, JournalStands, UnderLock
<1>2. ASSUME NEW g \in DailyHook PROVE SaveAgrees(dailyHook[g])'
  <2>1. SaveAgrees(dailyHook[g])
    BY DEF JournalInv
  <2> QED
    BY <2>1 DEF SaveAgrees, OnPage, Block, Covers, SavingAt, JournalStands
<1> QED
  BY <1>1, <1>2, StandsKeeps DEF JournalInv

\* Agents that leave checkpoints.
LEMMA QueueKeeps ==
  ASSUME JournalInv, NEW c \in Checkpoint, NEW s \in Summary, Queue(c, s)
  PROVE  JournalInv'
<1>1. queue' \in [Checkpoint -> Summary \cup {NoNote}] /\ dailyLock \in BOOLEAN
  BY DEF JournalInv, DailyTyped, Queue
<1>2. UNCHANGED <<dailyHook, dailyLock>> /\ JournalStands
  BY DEF Queue, JournalStands
<1>3. (\E h \in DailyHook : UnderLock(dailyHook[h])) => dailyLock
  BY DEF JournalInv, DailyLocked
<1> QED
  BY <1>1, <1>2, <1>3, BesidesKeeps

\* The lock directory is removed by hand only when nobody is under it.
LEMMA LockRemovedKeeps ==
  ASSUME JournalInv, LockRemovedByHand
  PROVE  JournalInv'
<1>1. queue' \in [Checkpoint -> Summary \cup {NoNote}] /\ dailyLock' = FALSE /\ UNCHANGED dailyHook /\ JournalStands
  BY DEF JournalInv, DailyTyped, LockRemovedByHand, dailyFiles, JournalStands
<1>2. \A h \in DailyHook : ~UnderLock(dailyHook[h])
  BY DEF LockRemovedByHand, UnderLock, SavingAt
<1> QED
  BY <1>1, <1>2, BesidesKeeps

\* Every step of the journal keeps its invariant.
LEMMA JournalStep == JournalInv /\ [DailyNext]_dailyVars => JournalInv'
<1> SUFFICES ASSUME JournalInv, [DailyNext]_dailyVars PROVE JournalInv'
  OBVIOUS
<1>1. CASE UNCHANGED dailyVars
  <2>1. UNCHANGED <<dailyHook, dailyLock, queue>> /\ JournalStands
    BY <1>1 DEF dailyVars, dailyFiles, JournalStands
  <2>2. (\E h \in DailyHook : UnderLock(dailyHook[h])) => dailyLock
    BY DEF JournalInv, DailyLocked
  <2>3. queue \in [Checkpoint -> Summary \cup {NoNote}] /\ dailyLock \in BOOLEAN
    BY DEF JournalInv, DailyTyped
  <2> QED
    BY <2>1, <2>2, <2>3, BesidesKeeps
<1>2. ASSUME NEW c \in Checkpoint, NEW s \in Summary, Queue(c, s) PROVE JournalInv'
  BY <1>2, QueueKeeps
<1>3. CASE LockRemovedByHand
  BY <1>3, LockRemovedKeeps
<1>4. ASSUME NEW h \in DailyHook,
             \/ StopLists(h) \/ StopLocks(h) \/ LegacyGeneration(h) \/ LegacyMarker(h)
             \/ SavePage(h) \/ SaveGeneration(h) \/ SaveCommitted(h) \/ SaveRequest(h) \/ SaveRemoves(h)
             \/ StopUnlocks(h) \/ DreamStarts(h) \/ DreamAcks(h) \/ AckRemoves(h) \/ HookDies(h)
      PROVE  JournalInv'
  BY <1>4, StopListsKeeps, StopLocksKeeps, LegacyKeeps, SavePageKeeps, SaveGenerationKeeps, SaveCommittedKeeps,
     SaveRequestKeeps, SaveRemovesKeeps, UnlockKeeps, AcksKeeps, AckRemovesKeeps
<1>5. ASSUME NEW h \in DailyHook, NEW c \in Checkpoint, SaveReads(h, c) PROVE JournalInv'
  BY <1>5, SaveReadsKeeps
<1> QED
  BY <1>1, <1>2, <1>3, <1>4, <1>5 DEF DailyNext

\* No two blocks of one ID, counted.
LEMMA OnceIsOne ==
  ASSUME OnceOnPage, NEW b, OnPage(b)
  PROVE  Cardinality({n \in DOMAIN dayPage : dayPage[n].id = b.id}) = 1
<1>1. PICK m \in DOMAIN dayPage : dayPage[m] = b
  BY DEF OnPage
<1>2. {n \in DOMAIN dayPage : dayPage[n].id = b.id} = {m}
  BY <1>1 DEF OnceOnPage
<1> QED
  BY <1>2, FS_Singleton

\* For any hooks, checkpoints, words and crashes, and whatever the hooks do at once, a
\* checkpoint whose pending file was consumed stands on the page once and is covered by a
\* generation that is requested or acknowledged (dailySave, dailyDreamAck).
THEOREM ConsumedDreamt == DailySpec => []ConsumedIsDreamt
<1>1. JournalInv => ConsumedIsDreamt
  BY OnceIsOne DEF JournalInv, ConsumedStays, ConsumedIsDreamt
<1> QED
  BY JournalStarts, JournalStep, <1>1, PTL DEF DailySpec


-----------------------------------------------------------------------------
(***************************************************************************)
(* WorkspaceAgent.  A call is the list of file operations left to it, and  *)
(* calls of several processes interleave without a lock.  What each        *)
(* operation relies on is made earlier in the same call or stored already, *)
(* evidence is for queries that were let out, a slot that was taken is one *)
(* call's alone until it is written, and every query let out is in its     *)
(* slot.                                                                   *)
(***************************************************************************)
\* WorkspaceAgent.  The file operations of a call, the run files and the operational
\* state they write.
MadeFile == Fixed \cup Document \cup Approval \cup EvidenceFile
RunValue ==
  [status : {"none", "started"}, brief : Number \cup {0}] \cup [status : {"complete"}, brief : Number]
FileStep == [do : {"make", "fill"}, file : MadeFile] \cup [do : {"ensure"}, file : Fixed]
ReferStep == [do : {"refer"}, name : {"brief", "economic", "handoff"}, to : Number]
RunStep == [do : {"run"}, run : Number, value : RunValue]
ReadStep == [do : {"read"}]
WriteStep == [do : {"write"}, name : {"brief", "economic", "handoff"}, to : Number]
ResearchStep == [do : {"write"}, name : {"research"}, to : Plan]
TodoStep == FileStep \cup ReferStep \cup RunStep \cup ReadStep \cup WriteStep \cup ResearchStep

References == [brief : Number \cup {0}, economic : Number \cup {0}, handoff : Number \cup {0}]
Operational == [brief : Number \cup {0}, research : Plan \cup {0}, economic : Number \cup {0}, handoff : Number \cup {0}]
StateReads == {<<>>} \cup {<<s>> : s \in Operational}
ConsumingCalls == [todo : {<<>>, <<[do |-> "slot"]>>}, read : {<<>>}, plan : Plan \X Theme, slot : Nat \ {0}]
WorkingCalls == [todo : Seq(TodoStep), read : StateReads, plan : {<<>>}, slot : {0}]
AgentCalls == WorkingCalls \cup ConsumingCalls
Grant == [by : AgentProcess, plan : Plan, slot : Slot, theme : Theme]

AgentTyped ==
  /\ disk \in [File -> {"absent", "torn", "whole"}]
  /\ query = [f \in SlotFile |-> query[f]]
  /\ reference \in References /\ operational \in Operational /\ runs \in [Number -> RunValue]
  /\ process \in [AgentProcess -> AgentCalls] /\ told \subseteq Grant

\* The files a step relies on, and those a list of steps makes.
Deliverables(b) == {"brief", "plan", "artifact", "receipt"} \X {b}
Relies(s) ==
  {f \in File : \/ s.do \in {"refer", "write"} /\ s.name = "brief" /\ f = <<"brief", s.to>>
                \/ s.do = "refer" /\ s.name = "handoff" /\ f = <<"run", s.to>>
                \/ s.do = "run" /\ s.value.status = "complete" /\ f \in Deliverables(s.value.brief)}
Makes(s, f) == s.do \in {"make", "fill"} /\ s.file = f
MadeBy(todo) == {f \in File : \E j \in DOMAIN todo : Makes(todo[j], f)}

\* Evidence is made for queries that were let out.
WasTold(let, plan, theme) == \E t \in let : t.plan = plan /\ t.theme = theme
Entitled(s, let) ==
  \A plan \in Plan, theme \in Theme : Makes(s, <<"evidence", plan, theme>>) => WasTold(let, plan, theme)

\* What a step relies on is given, stored, or made by an earlier step of the call,
\* and the state is read before it is written.  (d: the documents; let: what was told.)
Ready(todo, k, given, d, let) ==
  /\ \A f \in Relies(todo[k]) :
       f \in given \/ d[f] = "whole" \/ \E j \in 1..(k - 1) : Makes(todo[j], f)
  /\ Entitled(todo[k], let)
  /\ todo[k].do = "write" /\ k > 1 => todo[k - 1].do = "read"
Fits(todo, given, d, let) == \A k \in DOMAIN todo : Ready(todo, k, given, d, let)
BriefStored(s, d) == s.brief # 0 => d[<<"brief", s.brief>>] = "whole"
Working(w, d, let) ==
  /\ Fits(w.todo, {}, d, let)
  /\ w.todo # <<>> => (w.todo[1].do = "write" => w.read # <<>>)
  /\ w.read # <<>> => BriefStored(w.read[1], d)

\* A call that consumes a query has an approved plan and, once it took a slot, has it alone.
Taking(w) == w.slot # 0 /\ w.todo # <<>>
SlotBy(w) == <<"slot", w.plan[1], w.slot>>
Budgeted(w, d) ==
  /\ d[<<"approved", w.plan[1]>>] = "whole"
  /\ w.todo # <<>> => w.slot \in Slot /\ d[SlotBy(w)] = "torn"
CallFits(w, d, let) == /\ w.slot = 0 => Working(w, d, let)
                       /\ w.slot # 0 => Budgeted(w, d)
SlotsApart ==
  \A p, q \in AgentProcess : Taking(process[p]) /\ Taking(process[q]) /\ p # q => SlotOf(p) # SlotOf(q)

\* What was told is in the slots, each query in its own, and the other way round.
ToldFits ==
  /\ \A t \in told : /\ disk[<<"slot", t.plan, t.slot>>] = "whole" /\ disk[<<"approved", t.plan>>] = "whole"
                     /\ query[<<"slot", t.plan, t.slot>>] = t.theme
  /\ \A t, u \in told : t.plan = u.plan /\ t.slot = u.slot => t = u
  /\ \A plan \in Plan, k \in Slot :
       disk[<<"slot", plan, k>>] = "whole" => WasTold(told, plan, query[<<"slot", plan, k>>])
  /\ \A plan \in Plan, theme \in Theme :
       disk[<<"evidence", plan, theme>>] # "absent" => WasTold(told, plan, theme)
StoredFits ==
  /\ BriefStored(reference, disk) /\ BriefStored(operational, disk)
  /\ reference.handoff # 0 => disk[<<"run", reference.handoff>>] = "whole"
  /\ \A n \in Number : runs[n].status = "complete" => \A f \in Deliverables(runs[n].brief) : disk[f] = "whole"
AgentInv ==
  /\ AgentTyped /\ SlotsApart /\ ToldFits /\ StoredFits
  /\ \A p \in AgentProcess : CallFits(process[p], disk, told)

\* Documents, slots and what they are told apart by.
LEMMA FilesApart ==
  /\ MadeFile \cup SlotFile = File /\ MadeFile \cap SlotFile = {}
  /\ \A plan \in Plan : <<"approved", plan>> \in MadeFile
  /\ \A plan \in Plan, k \in Slot : <<"slot", plan, k>> \in SlotFile
  /\ \A plan \in Plan, theme \in Theme : <<"evidence", plan, theme>> \in MadeFile
  /\ \A n \in Number : <<"run", n>> \in MadeFile /\ <<"brief", n>> \in Deliverables(n) /\ Deliverables(n) \subseteq MadeFile
<1>1. MadeFile \cup SlotFile = File
  BY DEF MadeFile, File
<1>2. ASSUME NEW f \in MadeFile, NEW plan, NEW k, f = <<"slot", plan, k>> PROVE FALSE
  <2>1. CASE f \in Fixed
    BY <1>2, <2>1 DEF Fixed
  <2>2. CASE f \in Document \cup Approval
    BY <1>2, <2>2 DEF Document, Approval
  <2>3. CASE f \in EvidenceFile
    BY <1>2, <2>3 DEF EvidenceFile
  <2> QED
    BY <2>1, <2>2, <2>3 DEF MadeFile
<1>3. MadeFile \cap SlotFile = {}
  BY <1>2 DEF SlotFile
<1>4. /\ \A plan \in Plan : <<"approved", plan>> \in MadeFile
      /\ \A plan \in Plan, k \in Slot : <<"slot", plan, k>> \in SlotFile
      /\ \A plan \in Plan, theme \in Theme : <<"evidence", plan, theme>> \in MadeFile
  BY DEF MadeFile, Approval, SlotFile, EvidenceFile
<1>5. \A n \in Number : <<"run", n>> \in MadeFile /\ <<"brief", n>> \in Deliverables(n) /\ Deliverables(n) \subseteq MadeFile
  BY DEF MadeFile, Document, Deliverables
<1> QED
  BY <1>1, <1>3, <1>4, <1>5

\* The kind of a step tells its form.
LEMMA StepForms ==
  ASSUME NEW s \in TodoStep
  PROVE  /\ s.do \in {"make", "fill", "ensure", "refer", "run", "read", "write"}
         /\ s.do \in {"make", "fill", "ensure"} => s \in FileStep
         /\ s.do = "refer" => s \in ReferStep
         /\ s.do = "run" => s \in RunStep
         /\ s.do = "write" => s \in WriteStep \cup ResearchStep
  BY DEF TodoStep, FileStep, ReferStep, RunStep, ReadStep, WriteStep, ResearchStep

\* Steps that only make or read rely on nothing.
LEMMA SelfReliant ==
  ASSUME NEW s, s.do \in {"make", "fill", "ensure", "read"}
  PROVE  Relies(s) = {}
  BY DEF Relies

\* More documents and more that was told do no harm to a call.
Grows(d, e) == \A f \in File : d[f] = "whole" => e[f] = "whole"

\* What fitted stays so while documents only become whole and queries are only let out.
LEMMA FitsStays ==
  ASSUME NEW todo, NEW given, NEW d, NEW e, NEW let, NEW more,
         Fits(todo, given, d, let), Grows(d, e), let \subseteq more
  PROVE  Fits(todo, given, e, more)
<1>1. \A k : Relies(todo[k]) \subseteq File
  BY DEF Relies
<1>2. ASSUME NEW k \in DOMAIN todo PROVE Entitled(todo[k], more)
  BY DEF Fits, Ready, Entitled, WasTold
<1> QED
  BY <1>1, <1>2 DEF Fits, Ready, Grows

\* The rest of a call, when its first step is done.
LEMMA TailFits ==
  ASSUME NEW todo \in Seq(TodoStep), todo # <<>>, NEW d, NEW let, Fits(todo, {}, d, let),
         \A f \in File : Makes(todo[1], f) => d[f] = "whole"
  PROVE  /\ Tail(todo) \in Seq(TodoStep) /\ Fits(Tail(todo), {}, d, let)
         /\ Tail(todo) # <<>> => (Tail(todo)[1].do = "write" => todo[1].do = "read")
<1> DEFINE rest == Tail(todo)
<1>1. /\ rest \in Seq(TodoStep) /\ Len(rest) = Len(todo) - 1 /\ Len(todo) \in Nat /\ Len(todo) > 0
      /\ DOMAIN rest = 1..(Len(todo) - 1) /\ DOMAIN todo = 1..Len(todo)
      /\ \A k \in 1..(Len(todo) - 1) : rest[k] = todo[k + 1]
  OBVIOUS
<1>2. ASSUME NEW k \in DOMAIN rest PROVE Ready(rest, k, {}, d, let)
  <2>1. k \in Nat /\ k > 0 /\ k + 1 \in DOMAIN todo /\ rest[k] = todo[k + 1] /\ (k + 1) - 1 = k
    BY <1>1
  <2>2. Ready(todo, k + 1, {}, d, let)
    BY <2>1 DEF Fits
  <2>3. ASSUME NEW f \in Relies(rest[k]), d[f] # "whole" PROVE \E j \in 1..(k - 1) : Makes(rest[j], f)
    <3>1. f \in File /\ f \in Relies(todo[k + 1])
      BY <2>1, <2>3 DEF Relies
    <3>2. PICK j \in 1..k : Makes(todo[j], f)
      BY <2>1, <2>2, <2>3, <3>1 DEF Ready
    <3>3. j # 1
      BY <3>1, <3>2, <2>3
    <3>4. j - 1 \in 1..(k - 1) /\ rest[j - 1] = todo[j]
      BY <1>1, <2>1, <3>2, <3>3
    <3> QED
      BY <3>2, <3>4
  <2>4. Entitled(rest[k], let)
    BY <2>1, <2>2 DEF Ready
  <2>5. ASSUME rest[k].do = "write", k > 1 PROVE rest[k - 1].do = "read"
    <3>1. todo[k].do = "read"
      BY <2>1, <2>2, <2>5 DEF Ready
    <3>2. rest[k - 1] = todo[k]
      BY <1>1, <2>1, <2>5
    <3> QED
      BY <3>1, <3>2
  <2> QED
    BY <2>3, <2>4, <2>5 DEF Ready
<1>3. ASSUME rest # <<>>, rest[1].do = "write" PROVE todo[1].do = "read"
  <2>1. 2 \in DOMAIN todo /\ rest[1] = todo[2]
    BY <1>1, <1>3
  <2>2. Ready(todo, 2, {}, d, let)
    BY <2>1 DEF Fits
  <2> QED
    BY <2>1, <2>2, <1>3 DEF Ready
<1> QED
  BY <1>1, <1>2, <1>3 DEF Fits

\* Two lists of steps, one after the other: the second may rely on what the first makes.
LEMMA ConcatFits ==
  ASSUME NEW s \in Seq(TodoStep), NEW t \in Seq(TodoStep), NEW given, NEW d, NEW let,
         Fits(s, given, d, let), Fits(t, given \cup MadeBy(s), d, let),
         s # <<>>, t # <<>>, t[1].do # "write"
  PROVE  /\ s \o t \in Seq(TodoStep) /\ s \o t # <<>> /\ (s \o t)[1] = s[1]
         /\ Fits(s \o t, given, d, let) /\ MadeBy(s) \subseteq MadeBy(s \o t)
<1> DEFINE both == s \o t
<1>1. /\ both \in Seq(TodoStep) /\ Len(both) = Len(s) + Len(t)
      /\ Len(s) \in Nat /\ Len(t) \in Nat /\ Len(s) > 0 /\ Len(t) > 0
      /\ DOMAIN both = 1..(Len(s) + Len(t)) /\ DOMAIN s = 1..Len(s) /\ DOMAIN t = 1..Len(t)
      /\ \A k \in 1..Len(s) : both[k] = s[k]
      /\ \A k \in 1..Len(t) : both[Len(s) + k] = t[k]
  OBVIOUS
<1> HIDE DEF both
<1>2. ASSUME NEW k \in 1..Len(s) PROVE Ready(both, k, given, d, let)
  <2>1. both[k] = s[k] /\ (k > 1 => both[k - 1] = s[k - 1]) /\ \A j \in 1..(k - 1) : both[j] = s[j]
    <3>1. \A j \in 1..(k - 1) : j \in 1..Len(s)
      BY <1>1
    <3>2. k > 1 => k - 1 \in 1..(k - 1)
      BY <1>1
    <3> QED
      BY <1>1, <3>1, <3>2
  <2>2. Ready(s, k, given, d, let)
    BY <1>1 DEF Fits
  <2> QED
    BY <2>1, <2>2 DEF Ready
<1>3. ASSUME NEW i \in 1..Len(t) PROVE Ready(both, Len(s) + i, given, d, let)
  <2> DEFINE k == Len(s) + i
  <2>1. k \in Nat /\ both[k] = t[i] /\ (i > 1 => both[k - 1] = t[i - 1])
    BY <1>1
  <2>2. Ready(t, i, given \cup MadeBy(s), d, let)
    BY <1>1 DEF Fits
  <2>3. ASSUME NEW f \in Relies(both[k]), f \notin given, d[f] # "whole" PROVE \E j \in 1..(k - 1) : Makes(both[j], f)
    <3>1. CASE f \in MadeBy(s)
      <4>1. PICK j \in 1..Len(s) : Makes(s[j], f)
        BY <1>1, <3>1 DEF MadeBy
      <4>2. j \in 1..(k - 1) /\ both[j] = s[j]
        BY <1>1, <4>1
      <4> QED
        BY <4>1, <4>2
    <3>2. CASE f \notin MadeBy(s)
      <4>1. PICK j \in 1..(i - 1) : Makes(t[j], f)
        BY <2>1, <2>2, <2>3, <3>2 DEF Ready
      <4>2. j \in 1..Len(t)
        BY <1>1, <4>1
      <4>3. Len(s) + j \in 1..(k - 1)
        BY <1>1, <4>1, <4>2
      <4>4. both[Len(s) + j] = t[j]
        BY <1>1, <4>2
      <4> QED
        BY <4>1, <4>3, <4>4
    <3> QED
      BY <3>1, <3>2
  <2>4. Entitled(both[k], let)
    BY <2>1, <2>2 DEF Ready
  <2>5. both[k].do = "write" /\ k > 1 => both[k - 1].do = "read"
    <3>1. i = 1 => both[k].do # "write"
      BY <2>1
    <3>2. i > 1 /\ t[i].do = "write" => t[i - 1].do = "read"
      BY <2>2 DEF Ready
    <3>3. i = 1 \/ i > 1
      OBVIOUS
    <3> QED
      BY <2>1, <3>1, <3>2, <3>3
  <2> QED
    BY <2>3, <2>4, <2>5 DEF Ready
<1>4. Fits(both, given, d, let)
  <2> SUFFICES ASSUME NEW k \in DOMAIN both PROVE Ready(both, k, given, d, let)
    BY DEF Fits
  <2>1. k \in 1..Len(s) \/ (k - Len(s) \in 1..Len(t) /\ Len(s) + (k - Len(s)) = k)
    BY <1>1
  <2> QED
    BY <2>1, <1>2, <1>3
<1>5. MadeBy(s) \subseteq MadeBy(both)
  <2> SUFFICES ASSUME NEW f \in MadeBy(s) PROVE f \in MadeBy(both)
    OBVIOUS
  <2>1. PICK j \in 1..Len(s) : Makes(s[j], f)
    BY <1>1 DEF MadeBy
  <2>2. j \in DOMAIN both /\ both[j] = s[j] /\ f \in File
    BY <1>1 DEF MadeBy
  <2> QED
    BY <2>1, <2>2 DEF MadeBy
<1>6. both # <<>> /\ both[1] = s[1]
  BY <1>1
<1> QED
  BY <1>1, <1>4, <1>5, <1>6 DEF both

\* What the others do leaves a call's own claims standing.
LEMMA CallStays ==
  ASSUME NEW w \in AgentCalls, NEW d, NEW e, NEW let, NEW more, CallFits(w, d, let),
         Grows(d, e), let \subseteq more, Taking(w) => e[SlotBy(w)] = d[SlotBy(w)]
  PROVE  CallFits(w, e, more)
<1>1. CASE w.slot = 0
  <2>1. Fits(w.todo, {}, e, more)
    BY <1>1, FitsStays DEF CallFits, Working
  <2>2. w.read # <<>> => BriefStored(w.read[1], e)
    <3>1. ASSUME w.read # <<>>, w.read[1].brief # 0 PROVE e[<<"brief", w.read[1].brief>>] = "whole"
      <4>1. w.read[1] \in Operational
        BY <1>1, <3>1 DEF AgentCalls, WorkingCalls, ConsumingCalls, StateReads
      <4>2. w.read[1].brief \in Number
        BY <4>1, <3>1 DEF Operational
      <4>3. <<"brief", w.read[1].brief>> \in File
        BY <4>2, FilesApart
      <4> QED
        BY <1>1, <3>1, <4>3 DEF CallFits, Working, BriefStored, Grows
    <3> QED
      BY <3>1 DEF BriefStored
  <2> QED
    BY <1>1, <2>1, <2>2 DEF CallFits, Working
<1>2. CASE w.slot # 0
  <2>1. w \in ConsumingCalls
    BY <1>2 DEF AgentCalls, WorkingCalls
  <2>2. w.plan[1] \in Plan
    BY <2>1 DEF ConsumingCalls
  <2>3. <<"approved", w.plan[1]>> \in File
    BY <2>2, FilesApart
  <2> QED
    BY <1>2, <2>3 DEF CallFits, Budgeted, Grows, Taking
<1> QED
  BY <1>1, <1>2

\* One process moves to a call that fits; no slot anybody holds is touched.
LEMMA OneAgentMoves ==
  ASSUME AgentInv, NEW p \in AgentProcess, NEW w \in AgentCalls, process' = [process EXCEPT ![p] = w],
         Grows(disk, disk'), told \subseteq told', CallFits(w, disk', told'),
         \A q \in AgentProcess \ {p} :
            Taking(process[q]) => /\ disk'[SlotOf(q)] = disk[SlotOf(q)]
                                  /\ Taking(w) => SlotBy(w) # SlotOf(q)
  PROVE  /\ process' \in [AgentProcess -> AgentCalls] /\ SlotsApart'
         /\ \A q \in AgentProcess : CallFits(process'[q], disk', told')
<1>1. process' \in [AgentProcess -> AgentCalls] /\ process'[p] = w /\ \A q \in AgentProcess \ {p} : process'[q] = process[q]
  BY DEF AgentInv, AgentTyped
<1>2. ASSUME NEW q \in AgentProcess \ {p} PROVE CallFits(process[q], disk', told')
  <2>1. process[q] \in AgentCalls /\ CallFits(process[q], disk, told)
    BY DEF AgentInv, AgentTyped
  <2>2. SlotOf(q) = SlotBy(process[q])
    BY DEF SlotOf, SlotBy
  <2> QED
    BY <2>1, <2>2, CallStays
<1>3. SlotsApart'
  <2> SUFFICES ASSUME NEW a \in AgentProcess, NEW b \in AgentProcess, Taking(process'[a]), Taking(process'[b]), a # b
               PROVE  SlotOf(a)' # SlotOf(b)'
    BY DEF SlotsApart
  <2>1. \A q \in AgentProcess \ {p} : SlotOf(q)' = SlotOf(q)
    BY <1>1 DEF SlotOf
  <2>2. SlotOf(p)' = SlotBy(w)
    BY <1>1 DEF SlotOf, SlotBy
  <2>3. CASE a # p /\ b # p
    BY <1>1, <2>1, <2>3 DEF AgentInv, SlotsApart
  <2>4. CASE a = p \/ b = p
    BY <1>1, <2>1, <2>2, <2>4
  <2> QED
    BY <2>3, <2>4
<1> QED
  BY <1>1, <1>2, <1>3

\* A document is created or written: what was told and stored stays so.
LEMMA DocumentMade ==
  ASSUME AgentInv, NEW f \in MadeFile, NEW v \in {"torn", "whole"}, disk' = [disk EXCEPT ![f] = v],
         disk[f] = "whole" => v = "whole", UNCHANGED <<told, query>>,
         \A plan \in Plan, theme \in Theme : f = <<"evidence", plan, theme>> => WasTold(told, plan, theme)
  PROVE  /\ disk' \in [File -> {"absent", "torn", "whole"}] /\ Grows(disk, disk') /\ disk'[f] = v
         /\ ToldFits'
         /\ \A q \in AgentProcess : Taking(process[q]) => disk'[SlotOf(q)] = disk[SlotOf(q)]
<1>1. disk \in [File -> {"absent", "torn", "whole"}] /\ f \in File
  BY FilesApart DEF AgentInv, AgentTyped
<1>2. disk' \in [File -> {"absent", "torn", "whole"}] /\ Grows(disk, disk') /\ disk'[f] = v
      /\ \A g \in File \ {f} : disk'[g] = disk[g]
  BY <1>1 DEF Grows
<1>3. \A plan \in Plan, k \in Slot : disk'[<<"slot", plan, k>>] = disk[<<"slot", plan, k>>]
  <2> SUFFICES ASSUME NEW plan \in Plan, NEW k \in Slot PROVE disk'[<<"slot", plan, k>>] = disk[<<"slot", plan, k>>]
    OBVIOUS
  <2>1. <<"slot", plan, k>> \in File \ {f}
    BY FilesApart
  <2> QED
    BY <2>1, <1>2
<1>4. ToldFits'
  <2>1. ToldFits /\ told \subseteq Grant
    BY DEF AgentInv, AgentTyped
  <2>2. ASSUME NEW t \in told
        PROVE  /\ disk'[<<"slot", t.plan, t.slot>>] = "whole" /\ disk'[<<"approved", t.plan>>] = "whole"
               /\ query[<<"slot", t.plan, t.slot>>] = t.theme
    <3>1. t.plan \in Plan /\ t.slot \in Slot
      BY <2>1, <2>2 DEF Grant
    <3>2. <<"approved", t.plan>> \in File
      BY <3>1, FilesApart
    <3> QED
      BY <1>2, <1>3, <2>1, <2>2, <3>1, <3>2 DEF ToldFits, Grows
  <2>3. ASSUME NEW plan \in Plan, NEW theme \in Theme, disk'[<<"evidence", plan, theme>>] # "absent"
        PROVE  WasTold(told, plan, theme)
    <3>1. <<"evidence", plan, theme>> \in File
      BY FilesApart
    <3> QED
      BY <1>2, <2>1, <2>3, <3>1 DEF ToldFits
  <2>4. \A plan \in Plan, k \in Slot :
          disk'[<<"slot", plan, k>>] = "whole" => WasTold(told, plan, query[<<"slot", plan, k>>])
    BY <1>3, <2>1 DEF ToldFits
  <2>5. told' = told /\ query' = query
    OBVIOUS
  <2> QED
    BY <2>1, <2>2, <2>3, <2>4, <2>5 DEF ToldFits
<1>5. ASSUME NEW q \in AgentProcess, Taking(process[q]) PROVE disk'[SlotOf(q)] = disk[SlotOf(q)]
  <2>1. process[q] \in ConsumingCalls /\ Budgeted(process[q], disk)
    BY <1>5 DEF AgentInv, AgentTyped, AgentCalls, WorkingCalls, Taking, CallFits
  <2>2. process[q].plan[1] \in Plan /\ process[q].slot \in Slot
    BY <2>1, <1>5 DEF ConsumingCalls, Budgeted, Taking
  <2> QED
    BY <1>3, <2>2 DEF SlotOf
<1> QED
  BY <1>2, <1>4, <1>5

\* A call that makes one document.
LEMMA MakingFits ==
  ASSUME NEW f \in MadeFile, NEW given, NEW d, NEW let,
         \A plan \in Plan, theme \in Theme : f = <<"evidence", plan, theme>> => WasTold(let, plan, theme)
  PROVE  /\ <<Make(f)>> \in Seq(TodoStep) /\ <<Make(f)>> # <<>> /\ <<Make(f)>>[1].do = "make"
         /\ Fits(<<Make(f)>>, given, d, let) /\ f \in MadeBy(<<Make(f)>>)
<1>1. Make(f) \in TodoStep /\ Make(f).do = "make" /\ Make(f).file = f
  BY DEF Make, TodoStep, FileStep
<1>2. Ready(<<Make(f)>>, 1, given, d, let)
  BY <1>1, SelfReliant DEF Ready, Entitled, Makes
<1>3. Fits(<<Make(f)>>, given, d, let)
  BY <1>2 DEF Fits
<1>4. f \in MadeBy(<<Make(f)>>)
  BY <1>1, FilesApart DEF MadeBy, Makes
<1> QED
  BY <1>1, <1>3, <1>4

\* The update of the operational state at the end of a call.
LEMMA UpdateFits ==
  ASSUME NEW name, NEW to, [do |-> "write", name |-> name, to |-> to] \in TodoStep, NEW given, NEW d, NEW let,
         name = "brief" => <<"brief", to>> \in given
  PROVE  /\ UpdateState(name, to) \in Seq(TodoStep) /\ UpdateState(name, to) # <<>>
         /\ UpdateState(name, to)[1].do = "read" /\ Fits(UpdateState(name, to), given, d, let)
<1> DEFINE read == [do |-> "read"]
           write == [do |-> "write", name |-> name, to |-> to]
           both == <<read, write>>
<1>1. read \in TodoStep /\ write \in TodoStep
  BY DEF TodoStep, ReadStep
<1>2. both \in Seq(TodoStep) /\ DOMAIN both = 1..2 /\ both[1] = read /\ both[2] = write /\ both # <<>>
  BY <1>1
<1>3. Ready(both, 1, given, d, let)
  BY <1>2, SelfReliant DEF Ready, Entitled, Makes
<1>4. Ready(both, 2, given, d, let)
  <2>1. \A f \in Relies(write) : f \in given
    BY DEF Relies
  <2> QED
    BY <1>2, <2>1 DEF Ready, Entitled, Makes
<1>5. Fits(both, given, d, let)
  BY <1>2, <1>3, <1>4 DEF Fits
<1> QED
  BY <1>2, <1>5 DEF UpdateState

\* SaveBrief: the reference and the state follow the brief.
LEMMA BriefFits ==
  ASSUME NEW n \in Number, NEW d, NEW let
  PROVE  /\ BriefSteps(n) \in Seq(TodoStep) /\ BriefSteps(n) # <<>> /\ BriefSteps(n)[1].do = "make"
         /\ Fits(BriefSteps(n), {}, d, let) /\ <<"brief", n>> \in MadeBy(BriefSteps(n))
<1> DEFINE make == Make(<<"brief", n>>)
           refer == Refer("brief", n)
           both == <<make, refer>>
<1>1. /\ make \in TodoStep /\ refer \in TodoStep /\ make.do = "make" /\ make.file = <<"brief", n>>
      /\ refer.do = "refer" /\ [do |-> "write", name |-> "brief", to |-> n] \in TodoStep
  BY FilesApart DEF Make, Refer, TodoStep, FileStep, ReferStep, WriteStep
<1>2. both \in Seq(TodoStep) /\ DOMAIN both = 1..2 /\ both[1] = make /\ both[2] = refer /\ both # <<>>
  BY <1>1
<1>3. Makes(make, <<"brief", n>>) /\ <<"brief", n>> \in MadeBy(both)
  <2>1. Makes(make, <<"brief", n>>)
    BY <1>1 DEF Makes
  <2>2. <<"brief", n>> \in File
    BY FilesApart
  <2>3. 1 \in DOMAIN both /\ both[1] = make
    BY <1>2
  <2> HIDE DEF make, refer, both
  <2> QED
    BY <2>1, <2>2, <2>3 DEF MadeBy
<1>4. \A plan \in Plan, theme \in Theme : <<"brief", n>> # <<"evidence", plan, theme>>
  OBVIOUS
<1>5. Ready(both, 1, {}, d, let)
  BY <1>1, <1>2, <1>4, SelfReliant DEF Ready, Entitled, Makes
<1>6. Ready(both, 2, {}, d, let)
  <2>1. \A f \in Relies(refer) : f = <<"brief", n>>
    BY DEF Relies, Refer
  <2>2. 1 \in 1..(2 - 1) /\ Makes(both[1], <<"brief", n>>)
    BY <1>2, <1>3
  <2> QED
    BY <1>1, <1>2, <2>1, <2>2 DEF Ready, Entitled, Makes
<1>7. Fits(both, {}, d, let)
  BY <1>2, <1>5, <1>6 DEF Fits
<1> HIDE DEF both
<1> DEFINE update == UpdateState("brief", n)
<1>8. /\ update \in Seq(TodoStep) /\ update # <<>> /\ update[1].do # "write"
      /\ Fits(update, {} \cup MadeBy(both), d, let)
  BY <1>1, <1>3, UpdateFits
<1> HIDE DEF update
<1>9. /\ both \o update \in Seq(TodoStep) /\ both \o update # <<>> /\ (both \o update)[1] = both[1]
      /\ Fits(both \o update, {}, d, let) /\ MadeBy(both) \subseteq MadeBy(both \o update)
  BY <1>2, <1>7, <1>8, ConcatFits
<1>10. BriefSteps(n) = both \o update
  BY DEF BriefSteps, both, update
<1> QED
  BY <1>1, <1>2, <1>3, <1>9, <1>10

\* CompleteFirstValue: the hand-off and the run follow what they deliver.
LEMMA DeliveryFits ==
  ASSUME NEW n \in Number, NEW b \in Number, NEW d, NEW let, NEW given,
         <<"brief", b>> \in given, d[<<"run", n>>] = "whole"
  PROVE  /\ DeliverySteps(n, b) \in Seq(TodoStep) /\ DeliverySteps(n, b) # <<>>
         /\ DeliverySteps(n, b)[1].do = "make" /\ Fits(DeliverySteps(n, b), given, d, let)
<1> DEFINE done == [status |-> "complete", brief |-> b]
           steps == <<Make(<<"plan", b>>), Make(<<"artifact", b>>), Make(<<"receipt", b>>), Refer("handoff", n),
                      WriteRun(n, done)>>
<1>1. /\ \A kind \in {"plan", "artifact", "receipt"} :
           /\ Make(<<kind, b>>) \in TodoStep /\ Make(<<kind, b>>).do = "make" /\ Make(<<kind, b>>).file = <<kind, b>>
           /\ Makes(Make(<<kind, b>>), <<kind, b>>)
           /\ \A plan \in Plan, theme \in Theme : ~Makes(Make(<<kind, b>>), <<"evidence", plan, theme>>)
      /\ Refer("handoff", n) \in TodoStep /\ Refer("handoff", n).do = "refer"
      /\ WriteRun(n, done) \in TodoStep /\ WriteRun(n, done).do = "run"
      /\ [do |-> "write", name |-> "handoff", to |-> n] \in TodoStep
  <2>1. \A kind \in {"plan", "artifact", "receipt"} : <<kind, b>> \in MadeFile
    BY DEF MadeFile, Document
  <2>2. \A kind \in {"plan", "artifact", "receipt"} :
           /\ Make(<<kind, b>>) \in TodoStep /\ Make(<<kind, b>>).do = "make" /\ Make(<<kind, b>>).file = <<kind, b>>
    BY <2>1 DEF Make, TodoStep, FileStep
  <2>3. \A kind, plan, theme : <<kind, b>> # <<"evidence", plan, theme>>
    OBVIOUS
  <2>4. done \in RunValue
    BY DEF RunValue
  <2>5. Refer("handoff", n) \in TodoStep /\ WriteRun(n, done) \in TodoStep /\ [do |-> "write", name |-> "handoff", to |-> n] \in TodoStep
    BY <2>4 DEF Refer, WriteRun, TodoStep, ReferStep, RunStep, WriteStep
  <2>6. Refer("handoff", n).do = "refer" /\ WriteRun(n, done).do = "run"
    BY DEF Refer, WriteRun
  <2> QED
    BY <2>2, <2>3, <2>5, <2>6 DEF Makes
<1>2. /\ steps \in Seq(TodoStep) /\ DOMAIN steps = 1..5 /\ steps # <<>>
      /\ steps[1] = Make(<<"plan", b>>) /\ steps[2] = Make(<<"artifact", b>>) /\ steps[3] = Make(<<"receipt", b>>)
      /\ steps[4] = Refer("handoff", n) /\ steps[5] = WriteRun(n, done)
  BY <1>1
<1> HIDE DEF steps
<1>3. ASSUME NEW k \in {1, 2, 3} PROVE Ready(steps, k, given, d, let)
  <2>1. steps[k].do = "make" /\ \A plan \in Plan, theme \in Theme : ~Makes(steps[k], <<"evidence", plan, theme>>)
    BY <1>1, <1>2
  <2> QED
    BY <2>1, SelfReliant DEF Ready, Entitled
<1>4. Ready(steps, 4, given, d, let)
  <2>1. \A f \in Relies(steps[4]) : f = <<"run", n>>
    BY <1>2 DEF Relies, Refer
  <2> QED
    BY <1>1, <1>2, <2>1 DEF Ready, Entitled, Makes
<1>5. Ready(steps, 5, given, d, let)
  <2>1. \A f \in Relies(steps[5]) : f \in Deliverables(b)
    BY <1>2 DEF Relies, WriteRun
  <2>2. \A f \in Deliverables(b) : f = <<"brief", b>> \/ f = <<"plan", b>> \/ f = <<"artifact", b>> \/ f = <<"receipt", b>>
    BY DEF Deliverables
  <2>3. Makes(steps[1], <<"plan", b>>) /\ Makes(steps[2], <<"artifact", b>>) /\ Makes(steps[3], <<"receipt", b>>)
    BY <1>1, <1>2
  <2>4. 1 \in 1..(5 - 1) /\ 2 \in 1..(5 - 1) /\ 3 \in 1..(5 - 1)
    OBVIOUS
  <2>5. \A f \in Relies(steps[5]) : f \in given \/ \E j \in 1..(5 - 1) : Makes(steps[j], f)
    BY <2>1, <2>2, <2>3, <2>4
  <2> QED
    BY <1>1, <1>2, <2>5 DEF Ready, Entitled, Makes
<1>6. Fits(steps, given, d, let)
  BY <1>2, <1>3, <1>4, <1>5 DEF Fits
<1> DEFINE update == UpdateState("handoff", n)
<1>7. /\ update \in Seq(TodoStep) /\ update # <<>> /\ update[1].do # "write"
      /\ Fits(update, given \cup MadeBy(steps), d, let)
  BY <1>1, UpdateFits
<1> HIDE DEF update
<1>8. /\ steps \o update \in Seq(TodoStep) /\ steps \o update # <<>> /\ (steps \o update)[1] = steps[1]
      /\ Fits(steps \o update, given, d, let)
  BY <1>2, <1>6, <1>7, ConcatFits
<1>9. DeliverySteps(n, b) = steps \o update
  BY DEF DeliverySteps, steps, update
<1> QED
  BY <1>1, <1>2, <1>8, <1>9

\* What nobody writes to stays as it was.
StoreStands == UNCHANGED <<disk, query, reference, operational, runs, told>>

\* A step that changes no file keeps what is said of the files.
LEMMA StoreStays ==
  ASSUME AgentInv, StoreStands
  PROVE  /\ ToldFits' /\ StoredFits' /\ Grows(disk, disk') /\ told \subseteq told'
         /\ disk' \in [File -> {"absent", "torn", "whole"}] /\ query' = [f \in SlotFile |-> query'[f]]
         /\ reference' \in References /\ operational' \in Operational /\ runs' \in [Number -> RunValue]
         /\ told' \subseteq Grant
  BY DEF AgentInv, AgentTyped, StoreStands, ToldFits, StoredFits, Grows, Slot

\* A process that moves to a call that fits, and leaves the store alone.
LEMMA TurnKeeps ==
  ASSUME AgentInv, NEW p \in AgentProcess, NEW w \in AgentCalls, process' = [process EXCEPT ![p] = w],
         StoreStands, CallFits(w, disk, told), ~Taking(w)
  PROVE  AgentInv'
<1>1. disk' = disk /\ told' = told
  BY DEF StoreStands
<1>2. Grows(disk, disk') /\ told \subseteq told' /\ CallFits(w, disk', told')
  BY <1>1 DEF Grows
<1>3. /\ process' \in [AgentProcess -> AgentCalls] /\ SlotsApart'
      /\ \A q \in AgentProcess : CallFits(process'[q], disk', told')
  BY <1>1, <1>2, OneAgentMoves
<1> QED
  BY <1>3, StoreStays DEF AgentInv, AgentTyped

\* A process without a call, and one that begins one.
LEMMA IdleFits == AgentIdle \in AgentCalls /\ ~Taking(AgentIdle) /\ \A d, let : CallFits(AgentIdle, d, let)
<1>1. AgentIdle \in AgentCalls /\ ~Taking(AgentIdle)
  BY DEF AgentIdle, AgentCalls, WorkingCalls, StateReads, Taking
<1>2. \A d, let : Fits(<<>>, {}, d, let)
  BY DEF Fits
<1> QED
  BY <1>1, <1>2 DEF AgentIdle, CallFits, Working

\* A call that gives up, or a process that stops, leaves what was written.
LEMMA AbortKeeps ==
  ASSUME AgentInv, NEW p \in AgentProcess, Aborts(p), StoreStands
  PROVE  AgentInv'
  BY IdleFits, TurnKeeps DEF Aborts

\* A call begins with steps that fit.
LEMMA BeginsKeeps ==
  ASSUME AgentInv, NEW p \in AgentProcess, NEW todo \in Seq(TodoStep), todo # <<>>, todo[1].do # "write",
         Fits(todo, {}, disk, told), Begins(p, todo)
  PROVE  AgentInv'
<1> DEFINE w == [todo |-> todo, read |-> <<>>, plan |-> <<>>, slot |-> 0]
<1>1. process' = [process EXCEPT ![p] = w] /\ StoreStands
  <2>1. process[p] = [todo |-> <<>>, read |-> <<>>, plan |-> <<>>, slot |-> 0] /\ StoreStands
    BY DEF Begins, StoreStands, AgentIdle
  <2>2. [process[p] EXCEPT !.todo = todo] = w
    BY <2>1
  <2>3. process' = [process EXCEPT ![p] = [process[p] EXCEPT !.todo = todo]]
    BY DEF Begins
  <2> QED
    BY <2>1, <2>2, <2>3
<1>2. w \in AgentCalls /\ ~Taking(w)
  BY DEF AgentCalls, WorkingCalls, StateReads, Taking
<1>3. CallFits(w, disk, told)
  BY DEF CallFits, Working
<1> HIDE DEF w
<1> QED
  BY <1>1, <1>2, <1>3, TurnKeeps

\* Every call begins with steps that fit.
LEMMA CallsBegin ==
  ASSUME AgentInv, NEW p \in AgentProcess,
         \/ Initialize(p) \/ SaveBrief(p) \/ SaveEconomicSnapshot(p) \/ StartFirstValue(p)
         \/ \E plan \in Plan : \/ CreateResearchPlan(p, plan) \/ ApproveResearchPlan(p, plan)
                               \/ \E theme \in Theme : RecordEvidence(p, plan, theme)
         \/ \E n \in Number : \/ AttachEconomicSnapshot(p, n) \/ RecordFirstValueIntervention(p, n)
                              \/ CompleteFirstValue(p, n)
  PROVE  AgentInv'
<1>1. CASE Initialize(p)
  <2> DEFINE todo == <<Ensure(<<"registry">>), Ensure(<<"state">>), Ensure(<<"readme">>)>>
  <2>1. \A f \in Fixed : Ensure(f) \in TodoStep /\ Ensure(f).do = "ensure"
    BY DEF Ensure, TodoStep, FileStep, MadeFile
  <2>2. <<"registry">> \in Fixed /\ <<"state">> \in Fixed /\ <<"readme">> \in Fixed
    BY DEF Fixed
  <2>3. todo \in Seq(TodoStep) /\ DOMAIN todo = 1..3 /\ todo # <<>> /\ \A k \in 1..3 : todo[k].do = "ensure"
    BY <2>1, <2>2
  <2> HIDE DEF todo
  <2>4. ASSUME NEW k \in 1..3 PROVE Ready(todo, k, {}, disk, told)
    BY <2>3, SelfReliant DEF Ready, Entitled, Makes
  <2>5. Fits(todo, {}, disk, told)
    BY <2>3, <2>4 DEF Fits
  <2>6. Begins(p, todo)
    BY <1>1 DEF Initialize, todo
  <2>7. todo[1].do # "write"
    BY <2>3
  <2> QED
    BY <2>3, <2>5, <2>6, <2>7, BeginsKeeps
<1>2. CASE SaveBrief(p)
  <2>1. PICK n \in Number : Begins(p, BriefSteps(n))
    BY <1>2 DEF SaveBrief, Fresh
  <2>2. /\ BriefSteps(n) \in Seq(TodoStep) /\ BriefSteps(n) # <<>> /\ BriefSteps(n)[1].do # "write"
        /\ Fits(BriefSteps(n), {}, disk, told)
    BY BriefFits
  <2> QED
    BY <2>1, <2>2, BeginsKeeps
<1>3. CASE SaveEconomicSnapshot(p) \/ StartFirstValue(p)
  <2>1. PICK n \in Number, kind \in {"snapshot", "run"} : Begins(p, <<Make(<<kind, n>>)>>)
    BY <1>3 DEF SaveEconomicSnapshot, StartFirstValue, Fresh
  <2>2. <<kind, n>> \in MadeFile /\ \A plan, theme : <<kind, n>> # <<"evidence", plan, theme>>
    BY DEF MadeFile, Document
  <2> DEFINE todo == <<Make(<<kind, n>>)>>
  <2>3. todo \in Seq(TodoStep) /\ todo # <<>> /\ todo[1].do # "write" /\ Fits(todo, {}, disk, told)
    BY <2>2, MakingFits
  <2> HIDE DEF todo
  <2> QED
    BY <2>1, <2>3, BeginsKeeps DEF todo
<1>4. ASSUME NEW plan \in Plan, CreateResearchPlan(p, plan) \/ ApproveResearchPlan(p, plan) PROVE AgentInv'
  <2>1. PICK kind \in {"proposed", "approved"} : Begins(p, <<Make(<<kind, plan>>)>> \o UpdateState("research", plan))
    BY <1>4 DEF CreateResearchPlan, ApproveResearchPlan
  <2>2. <<kind, plan>> \in MadeFile /\ \A other, theme : <<kind, plan>> # <<"evidence", other, theme>>
    BY DEF MadeFile, Approval
  <2> DEFINE first == <<Make(<<kind, plan>>)>>
             update == UpdateState("research", plan)
  <2>3. first \in Seq(TodoStep) /\ first # <<>> /\ first[1].do # "write" /\ Fits(first, {}, disk, told)
    BY <2>2, MakingFits
  <2>4. [do |-> "write", name |-> "research", to |-> plan] \in TodoStep
    BY DEF TodoStep, ResearchStep
  <2>5. update \in Seq(TodoStep) /\ update # <<>> /\ update[1].do # "write" /\ Fits(update, {} \cup MadeBy(first), disk, told)
    BY <2>4, UpdateFits
  <2>6. Begins(p, first \o update)
    BY <2>1
  <2> HIDE DEF first, update
  <2>7. /\ first \o update \in Seq(TodoStep) /\ first \o update # <<>> /\ (first \o update)[1].do # "write"
        /\ Fits(first \o update, {}, disk, told)
    BY <2>3, <2>5, ConcatFits
  <2> QED
    BY <2>6, <2>7, BeginsKeeps
<1>5. ASSUME NEW plan \in Plan, NEW theme \in Theme, RecordEvidence(p, plan, theme) PROVE AgentInv'
  <2>1. <<"evidence", plan, theme>> \in MadeFile
    BY FilesApart
  <2>2. WasTold(told, plan, theme)
    BY <1>5 DEF RecordEvidence, ValidEvidence, QueryWasConsumed, AgentInv, ToldFits
  <2>3. \A other \in Plan, t \in Theme : <<"evidence", plan, theme>> = <<"evidence", other, t>> => WasTold(told, other, t)
    BY <2>2
  <2> DEFINE todo == <<Make(<<"evidence", plan, theme>>)>>
  <2>4. todo \in Seq(TodoStep) /\ todo # <<>> /\ todo[1].do # "write" /\ Fits(todo, {}, disk, told)
    BY <2>1, <2>3, MakingFits
  <2>5. Begins(p, todo)
    BY <1>5 DEF RecordEvidence
  <2> HIDE DEF todo
  <2> QED
    BY <2>4, <2>5, BeginsKeeps
<1>6. ASSUME NEW n \in Number, AttachEconomicSnapshot(p, n) PROVE AgentInv'
  <2> DEFINE first == <<Refer("economic", n)>>
             update == UpdateState("economic", n)
  <2>1. Refer("economic", n) \in TodoStep /\ [do |-> "write", name |-> "economic", to |-> n] \in TodoStep
    BY DEF Refer, TodoStep, ReferStep, WriteStep
  <2>2. Ready(first, 1, {}, disk, told)
    BY DEF Ready, Relies, Refer, Entitled, Makes
  <2>3. first \in Seq(TodoStep) /\ first # <<>> /\ first[1].do # "write" /\ Fits(first, {}, disk, told)
    <3>1. first[1].do # "write"
      BY DEF Refer
    <3> QED
      BY <2>1, <2>2, <3>1 DEF Fits
  <2>4. update \in Seq(TodoStep) /\ update # <<>> /\ update[1].do # "write" /\ Fits(update, {} \cup MadeBy(first), disk, told)
    BY <2>1, UpdateFits
  <2>5. Begins(p, first \o update)
    BY <1>6 DEF AttachEconomicSnapshot
  <2> HIDE DEF first, update
  <2>6. /\ first \o update \in Seq(TodoStep) /\ first \o update # <<>> /\ (first \o update)[1].do # "write"
        /\ Fits(first \o update, {}, disk, told)
    BY <2>3, <2>4, ConcatFits
  <2> QED
    BY <2>5, <2>6, BeginsKeeps
<1>7. ASSUME NEW n \in Number, RecordFirstValueIntervention(p, n) PROVE AgentInv'
  <2> DEFINE todo == <<WriteRun(n, runs[n])>>
  <2>1. runs[n] \in RunValue /\ runs[n].status = "started"
    BY <1>7 DEF AgentInv, AgentTyped, RecordFirstValueIntervention, Open
  <2>2. WriteRun(n, runs[n]) \in TodoStep /\ WriteRun(n, runs[n]).do = "run" /\ WriteRun(n, runs[n]).value = runs[n]
    BY <2>1 DEF WriteRun, TodoStep, RunStep
  <2>3. Relies(WriteRun(n, runs[n])) = {}
    BY <2>1, <2>2 DEF Relies
  <2>4. Ready(todo, 1, {}, disk, told)
    BY <2>2, <2>3 DEF Ready, Entitled, Makes
  <2>5. todo \in Seq(TodoStep) /\ todo # <<>> /\ todo[1].do # "write" /\ Fits(todo, {}, disk, told)
    BY <2>2, <2>4 DEF Fits
  <2>6. Begins(p, todo)
    BY <1>7 DEF RecordFirstValueIntervention
  <2> QED
    <3> PICK list : list = todo
      OBVIOUS
    <3> QED
      BY <2>5, <2>6, BeginsKeeps
<1>8. ASSUME NEW n \in Number, CompleteFirstValue(p, n) PROVE AgentInv'
  <2>1. PICK b \in Number : Begins(p, BriefSteps(b) \o DeliverySteps(n, b))
    BY <1>8 DEF CompleteFirstValue, Fresh
  <2>2. disk[<<"run", n>>] = "whole"
    BY <1>8 DEF CompleteFirstValue, Open
  <2> DEFINE first == BriefSteps(b)
             last == DeliverySteps(n, b)
  <2>3. /\ first \in Seq(TodoStep) /\ first # <<>> /\ first[1].do # "write" /\ Fits(first, {}, disk, told)
        /\ <<"brief", b>> \in {} \cup MadeBy(first)
    BY BriefFits
  <2>4. last \in Seq(TodoStep) /\ last # <<>> /\ last[1].do # "write" /\ Fits(last, {} \cup MadeBy(first), disk, told)
    BY <2>2, <2>3, DeliveryFits
  <2>5. Begins(p, first \o last)
    BY <2>1
  <2> HIDE DEF first, last
  <2>6. /\ first \o last \in Seq(TodoStep) /\ first \o last # <<>> /\ (first \o last)[1].do # "write"
        /\ Fits(first \o last, {}, disk, told)
    BY <2>3, <2>4, ConcatFits
  <2> QED
    BY <2>5, <2>6, BeginsKeeps
<1> QED
  BY <1>1, <1>2, <1>3, <1>4, <1>5, <1>6, <1>7, <1>8

\* What is at hand in a call that has something to do.
LEMMA AtHand ==
  ASSUME AgentInv, NEW p \in AgentProcess, process[p].todo # <<>>, Current(p).do # "slot"
  PROVE  /\ process[p] \in WorkingCalls /\ Working(process[p], disk, told) /\ Current(p) = process[p].todo[1]
         /\ Current(p) \in TodoStep /\ Ready(process[p].todo, 1, {}, disk, told)
         /\ \A f \in Relies(Current(p)) : disk[f] = "whole"
<1>1. process[p] \in AgentCalls /\ CallFits(process[p], disk, told)
  BY DEF AgentInv, AgentTyped
<1>2. process[p] \in WorkingCalls
  BY <1>1 DEF AgentCalls, ConsumingCalls, Current
<1>3. Working(process[p], disk, told)
  BY <1>1, <1>2 DEF WorkingCalls, CallFits
<1>4. /\ process[p].todo \in Seq(TodoStep) /\ Head(process[p].todo) = process[p].todo[1]
      /\ process[p].todo[1] \in TodoStep /\ 1 \in DOMAIN process[p].todo
  BY <1>2 DEF WorkingCalls
<1>5. Ready(process[p].todo, 1, {}, disk, told)
  BY <1>3, <1>4 DEF Working, Fits
<1> QED
  BY <1>2, <1>3, <1>4, <1>5 DEF Current, Ready

\* A call whose first step is done goes on to the next.
LEMMA StepDone ==
  ASSUME AgentInv, NEW p \in AgentProcess, process[p].todo # <<>>, Current(p).do \notin {"slot", "read", "write"},
         process' = Done(p), Grows(disk, disk'), told \subseteq told',
         \A f \in File : Makes(Current(p), f) => disk'[f] = "whole"
  PROVE  \E w \in AgentCalls : /\ process' = [process EXCEPT ![p] = w] /\ CallFits(w, disk', told') /\ ~Taking(w)
<1> DEFINE w == [todo |-> Tail(process[p].todo), read |-> process[p].read, plan |-> <<>>, slot |-> 0]
<1>1. /\ process[p] \in WorkingCalls /\ Working(process[p], disk, told) /\ Current(p) = process[p].todo[1]
      /\ process[p].todo \in Seq(TodoStep)
  BY AtHand DEF WorkingCalls
<1>2. process' = [process EXCEPT ![p] = w]
  <2> DEFINE next == [AgentIdle EXCEPT !.todo = Tail(process[p].todo), !.read = process[p].read]
  <2>1. next \in [todo : {Tail(process[p].todo)}, read : {process[p].read}, plan : {<<>>}, slot : {0}]
    BY DEF AgentIdle
  <2>2. w \in [todo : {Tail(process[p].todo)}, read : {process[p].read}, plan : {<<>>}, slot : {0}]
    OBVIOUS
  <2> HIDE DEF w, next
  <2>3. next = w
    BY <2>1, <2>2
  <2> QED
    BY <2>3 DEF Done, next
<1>3. Fits(process[p].todo, {}, disk', told')
  BY <1>1, FitsStays DEF Working
<1>4. /\ Tail(process[p].todo) \in Seq(TodoStep) /\ Fits(Tail(process[p].todo), {}, disk', told')
      /\ Tail(process[p].todo) # <<>> => (Tail(process[p].todo)[1].do = "write" => process[p].todo[1].do = "read")
  BY <1>1, <1>3, TailFits
<1>5. w \in AgentCalls /\ ~Taking(w)
  BY <1>1, <1>4 DEF AgentCalls, WorkingCalls, Taking
<1>6. w.read # <<>> => BriefStored(w.read[1], disk')
  <2>1. process[p] \in AgentCalls /\ CallFits(process[p], disk, told) /\ process[p].slot = 0
    BY <1>1 DEF AgentCalls, WorkingCalls, CallFits
  <2>2. CallFits(process[p], disk', told')
    BY <2>1, CallStays DEF Taking
  <2> QED
    BY <2>1, <2>2 DEF CallFits, Working
<1>7. CallFits(w, disk', told')
  BY <1>1, <1>4, <1>6 DEF CallFits, Working
<1> QED
  BY <1>2, <1>5, <1>7

\* The store as a file operation leaves it.
LEMMA GrowthKeepsStore ==
  ASSUME AgentInv, Grows(disk, disk'), UNCHANGED <<reference, operational, runs>>
  PROVE  StoredFits'
<1>1. \A n \in Number : <<"run", n>> \in File /\ <<"brief", n>> \in File /\ Deliverables(n) \subseteq File
  BY FilesApart
<1>2. \A n \in Number : runs[n].status = "complete" => runs[n].brief \in Number
  BY DEF AgentInv, AgentTyped, RunValue
<1>3. reference.brief \in Number \cup {0} /\ reference.handoff \in Number \cup {0} /\ operational.brief \in Number \cup {0}
  BY DEF AgentInv, AgentTyped, References, Operational
<1> QED
  BY <1>1, <1>2, <1>3 DEF AgentInv, StoredFits, BriefStored, Grows

\* createImmutableJSON and createJSON: the file is created, and will be filled.
LEMMA CreatedKeeps ==
  ASSUME AgentInv, NEW p \in AgentProcess, process[p].todo # <<>>, Current(p).do \in {"make", "ensure"},
         disk[Current(p).file] = "absent", disk' = [disk EXCEPT ![Current(p).file] = "torn"],
         process' = [process EXCEPT ![p].todo[1].do = "fill"],
         UNCHANGED <<query, reference, operational, runs, told>>
  PROVE  AgentInv'
<1> DEFINE s == Current(p)
           fill == [s EXCEPT !.do = "fill"]
           list == [process[p].todo EXCEPT ![1] = fill]
           w == [process[p] EXCEPT !.todo = list]
<1>1. /\ process[p] \in WorkingCalls /\ Working(process[p], disk, told) /\ s = process[p].todo[1]
      /\ s \in TodoStep /\ Ready(process[p].todo, 1, {}, disk, told)
  BY AtHand
<1>2. s \in FileStep /\ s.file \in MadeFile
  BY <1>1, StepForms DEF FileStep, MadeFile
<1>3. fill \in FileStep /\ fill \in TodoStep /\ fill.do = "fill" /\ fill.file = s.file
  BY <1>2 DEF FileStep, TodoStep
<1>4. process[p].todo \in Seq(TodoStep) /\ process[p].todo # <<>>
  BY <1>1 DEF WorkingCalls
<1>5. /\ list \in Seq(TodoStep) /\ DOMAIN list = DOMAIN process[p].todo /\ list[1] = fill /\ list # <<>>
      /\ 1 \in DOMAIN list /\ \A k \in DOMAIN list : k # 1 => list[k] = process[p].todo[k]
  BY <1>3, <1>4
<1>6. process' = [process EXCEPT ![p] = w]
  BY <1>1
<1>7. w \in WorkingCalls /\ w \in AgentCalls /\ w.todo = list /\ w.read = process[p].read /\ w.slot = 0 /\ ~Taking(w)
  BY <1>1, <1>5 DEF WorkingCalls, AgentCalls, Taking
<1> HIDE DEF w, list, fill
<1>8. \A plan \in Plan, theme \in Theme : s.file = <<"evidence", plan, theme>> => WasTold(told, plan, theme)
  <2>1. CASE s.do = "make"
    BY <1>1, <2>1 DEF Ready, Entitled, Makes
  <2>2. CASE s.do = "ensure"
    <3>1. s.file \in Fixed
      BY <1>2, <2>2 DEF FileStep
    <3> QED
      BY <3>1 DEF Fixed
  <2> QED
    BY <2>1, <2>2
<1>9. /\ disk' \in [File -> {"absent", "torn", "whole"}] /\ Grows(disk, disk')
      /\ ToldFits' /\ \A q \in AgentProcess : Taking(process[q]) => disk'[SlotOf(q)] = disk[SlotOf(q)]
  BY <1>2, <1>8, DocumentMade
<1>10. Fits(process[p].todo, {}, disk', told')
  BY <1>1, <1>9, FitsStays DEF Working
<1>11. Fits(list, {}, disk', told')
  <2> SUFFICES ASSUME NEW k \in DOMAIN list PROVE Ready(list, k, {}, disk', told')
    BY DEF Fits
  <2>1. Ready(process[p].todo, k, {}, disk', told')
    BY <1>5, <1>10 DEF Fits
  <2>2. \A f : Makes(process[p].todo[1], f) => Makes(list[1], f)
    BY <1>1, <1>3, <1>5 DEF Makes
  <2>3. k \in Nat
    BY <1>5
  <2>4. CASE k = 1
    <3>1. Relies(list[1]) = {} /\ list[1].do # "write"
      BY <1>3, <1>5, SelfReliant
    <3>2. Entitled(list[1], told')
      BY <1>3, <1>5, <1>8 DEF Entitled, Makes
    <3> QED
      BY <2>4, <3>1, <3>2 DEF Ready
  <2>5. CASE k # 1
    <3>1. list[k] = process[p].todo[k]
      BY <1>5, <2>5
    <3>2. \A j \in 1..(k - 1) : \A f : Makes(process[p].todo[j], f) => Makes(list[j], f)
      BY <1>5, <2>2, <2>3
    <3>3. ASSUME list[k].do = "write", k > 1 PROVE list[k - 1].do = "read"
      <4>1. process[p].todo[k - 1].do = "read"
        BY <2>1, <3>1, <3>3 DEF Ready
      <4>2. k - 1 # 1
        BY <1>1, <4>1
      <4>3. k - 1 \in DOMAIN list
        BY <1>5, <2>3, <3>3
      <4> QED
        BY <1>5, <4>1, <4>2, <4>3
    <3> QED
      BY <2>1, <3>1, <3>2, <3>3 DEF Ready
  <2> QED
    BY <2>4, <2>5
<1>12. w.read # <<>> => BriefStored(w.read[1], disk')
  <2>1. process[p] \in AgentCalls /\ CallFits(process[p], disk, told) /\ process[p].slot = 0
    BY <1>1 DEF AgentCalls, WorkingCalls, CallFits
  <2>2. CallFits(process[p], disk', told')
    BY <1>9, <2>1, CallStays DEF Taking
  <2> QED
    BY <1>7, <2>1, <2>2 DEF CallFits, Working
<1>13. CallFits(w, disk', told')
  BY <1>3, <1>5, <1>7, <1>11, <1>12 DEF CallFits, Working
<1>14. /\ process' \in [AgentProcess -> AgentCalls] /\ SlotsApart'
       /\ \A q \in AgentProcess : CallFits(process'[q], disk', told')
  BY <1>6, <1>7, <1>9, <1>13, OneAgentMoves
<1>15. StoredFits'
  BY <1>9, GrowthKeepsStore
<1> QED
  BY <1>9, <1>14, <1>15 DEF AgentInv, AgentTyped

\* createImmutableJSON and createJSON, step by step.
LEMMA DocumentKeeps ==
  ASSUME AgentInv, NEW p \in AgentProcess,
         CreateExclusive(p) \/ AlreadyThere(p) \/ FillContent(p) \/ EnsureFile(p)
  PROVE  AgentInv'
<1>1. CASE CreateExclusive(p)
  BY <1>1, CreatedKeeps DEF CreateExclusive, Doing
<1>2. CASE AlreadyThere(p)
  BY <1>2, AbortKeeps DEF AlreadyThere, StoreStands
<1>3. CASE EnsureFile(p)
  <2>1. CASE disk[Current(p).file] = "absent"
    BY <1>3, <2>1, CreatedKeeps DEF EnsureFile, Doing
  <2>2. CASE disk[Current(p).file] # "absent"
    <3>1. /\ process[p].todo # <<>> /\ Current(p).do = "ensure" /\ process' = Done(p) /\ StoreStands
      BY <1>3, <2>2 DEF EnsureFile, Doing, StoreStands
    <3>2. Grows(disk, disk') /\ told \subseteq told' /\ disk' = disk /\ told' = told
      BY <3>1 DEF Grows, StoreStands
    <3>3. \A f \in File : ~Makes(Current(p), f)
      BY <3>1 DEF Makes
    <3>4. PICK w \in AgentCalls : process' = [process EXCEPT ![p] = w] /\ CallFits(w, disk', told') /\ ~Taking(w)
      BY <3>1, <3>2, <3>3, StepDone
    <3> QED
      BY <3>1, <3>2, <3>4, TurnKeeps
  <2> QED
    BY <2>1, <2>2
<1>4. CASE FillContent(p)
  <2> DEFINE s == Current(p)
  <2>1. /\ process[p].todo # <<>> /\ s.do = "fill" /\ disk' = [disk EXCEPT ![s.file] = "whole"] /\ process' = Done(p)
        /\ runs' = IF StartedRun(s.file) THEN [runs EXCEPT ![s.file[2]].status = "started"] ELSE runs
        /\ UNCHANGED <<query, reference, operational, told>>
    BY <1>4 DEF FillContent, Doing
  <2>2. s \in TodoStep /\ Ready(process[p].todo, 1, {}, disk, told) /\ s = process[p].todo[1]
    BY <2>1, AtHand
  <2>3. s.file \in MadeFile
    BY <2>1, <2>2, StepForms DEF FileStep, MadeFile
  <2>4. \A plan \in Plan, theme \in Theme : s.file = <<"evidence", plan, theme>> => WasTold(told, plan, theme)
    BY <2>1, <2>2 DEF Ready, Entitled, Makes
  <2>5. /\ disk' \in [File -> {"absent", "torn", "whole"}] /\ Grows(disk, disk') /\ disk'[s.file] = "whole" /\ ToldFits'
        /\ \A q \in AgentProcess : Taking(process[q]) => disk'[SlotOf(q)] = disk[SlotOf(q)]
    BY <2>1, <2>3, <2>4, DocumentMade
  <2>6. told \subseteq told' /\ \A f \in File : Makes(s, f) => disk'[f] = "whole"
    BY <2>1, <2>5 DEF Makes
  <2>7. PICK w \in AgentCalls : process' = [process EXCEPT ![p] = w] /\ CallFits(w, disk', told') /\ ~Taking(w)
    BY <2>1, <2>5, <2>6, StepDone
  <2>8. /\ process' \in [AgentProcess -> AgentCalls] /\ SlotsApart'
        /\ \A q \in AgentProcess : CallFits(process'[q], disk', told')
    BY <2>5, <2>6, <2>7, OneAgentMoves
  <2>9. /\ runs' \in [Number -> RunValue]
        /\ \A n \in Number : runs'[n].status = "complete" => runs'[n] = runs[n]
    <3>1. runs \in [Number -> RunValue]
      BY DEF AgentInv, AgentTyped
    <3>2. CASE ~StartedRun(s.file)
      BY <2>1, <3>1, <3>2
    <3>3. CASE StartedRun(s.file)
      <4>1. s.file[2] \in Number
        <5>1. s.file[1] = "run"
          BY <3>3 DEF StartedRun
        <5>2. s.file \in Document
          <6>1. s.file \notin Fixed
            BY <5>1 DEF Fixed
          <6>2. s.file \notin Approval
            BY <5>1 DEF Approval
          <6>3. s.file \notin EvidenceFile
            BY <5>1 DEF EvidenceFile
          <6> QED
            BY <2>3, <6>1, <6>2, <6>3 DEF MadeFile
        <5> QED
          BY <5>2 DEF Document
      <4>2. PICK n : n = s.file[2]
        OBVIOUS
      <4>3. n \in Number /\ runs' = [runs EXCEPT ![n] = [runs[n] EXCEPT !.status = "started"]]
        BY <2>1, <3>3, <4>1, <4>2
      <4>4. [runs[n] EXCEPT !.status = "started"] \in RunValue
        BY <3>1, <4>3 DEF RunValue
      <4>5. [runs[n] EXCEPT !.status = "started"].status = "started"
        BY <3>1, <4>3 DEF RunValue
      <4> QED
        BY <3>1, <4>3, <4>4, <4>5
    <3> QED
      BY <3>2, <3>3
  <2>10. StoredFits'
    <3>1. \A n \in Number : <<"run", n>> \in File /\ <<"brief", n>> \in File /\ Deliverables(n) \subseteq File
      BY FilesApart
    <3>2. \A n \in Number : runs[n].status = "complete" => runs[n].brief \in Number
      BY DEF AgentInv, AgentTyped, RunValue
    <3>3. reference.brief \in Number \cup {0} /\ reference.handoff \in Number \cup {0} /\ operational.brief \in Number \cup {0}
      BY DEF AgentInv, AgentTyped, References, Operational
    <3>4. BriefStored(reference, disk') /\ BriefStored(operational, disk')
          /\ (reference.handoff # 0 => disk'[<<"run", reference.handoff>>] = "whole")
      BY <3>1, <3>3, <2>5 DEF AgentInv, StoredFits, BriefStored, Grows
    <3>5. ASSUME NEW n \in Number, runs'[n].status = "complete"
          PROVE  \A f \in Deliverables(runs'[n].brief) : disk'[f] = "whole"
      BY <3>1, <3>2, <3>5, <2>5, <2>9 DEF AgentInv, StoredFits, Grows
    <3>6. reference' = reference /\ operational' = operational
      BY <2>1
    <3> QED
      BY <3>4, <3>5, <3>6 DEF StoredFits
  <2>11. told' = told /\ query' = query /\ reference' = reference /\ operational' = operational
    BY <2>1
  <2> QED
    BY <2>5, <2>8, <2>9, <2>10, <2>11 DEF AgentInv, AgentTyped
<1> QED
  BY <1>1, <1>2, <1>3, <1>4

\* writeAtomicJSON of a reference or of a run: what it names was made before.
LEMMA ReplaceKeeps ==
  ASSUME AgentInv, NEW p \in AgentProcess, ReplaceReference(p) \/ ReplaceRun(p)
  PROVE  AgentInv'
<1> DEFINE s == Current(p)
<1>1. /\ process[p].todo # <<>> /\ s.do \in {"refer", "run"} /\ process' = Done(p)
      /\ UNCHANGED <<disk, query, operational, told>>
  BY DEF ReplaceReference, ReplaceRun, Doing
<1>2. disk' = disk /\ told' = told /\ query' = query /\ operational' = operational
  BY <1>1
<1>3. s \in TodoStep /\ \A f \in Relies(s) : disk[f] = "whole"
  BY <1>1, AtHand
<1>4. Grows(disk, disk') /\ told \subseteq told' /\ \A f \in File : ~Makes(s, f)
  BY <1>1, <1>2 DEF Grows, Makes
<1>5. PICK w \in AgentCalls : process' = [process EXCEPT ![p] = w] /\ CallFits(w, disk', told') /\ ~Taking(w)
  BY <1>1, <1>4, StepDone
<1>6. /\ process' \in [AgentProcess -> AgentCalls] /\ SlotsApart'
      /\ \A q \in AgentProcess : CallFits(process'[q], disk', told')
  BY <1>2, <1>4, <1>5, OneAgentMoves
<1>7. ToldFits'
  BY <1>2 DEF AgentInv, ToldFits
<1>8. \A n \in Number : <<"run", n>> \in File /\ <<"brief", n>> \in File /\ Deliverables(n) \subseteq File
  BY FilesApart
<1>9. CASE ReplaceReference(p)
  <2>1. s.do = "refer" /\ reference' = [reference EXCEPT ![s.name] = s.to] /\ runs' = runs
    BY <1>9 DEF ReplaceReference, Doing
  <2>2. s \in ReferStep
    BY <1>3, <2>1, StepForms
  <2>3. s.name \in {"brief", "economic", "handoff"} /\ s.to \in Number
    BY <2>2 DEF ReferStep
  <2>4. reference' \in References
    BY <2>1, <2>3 DEF AgentInv, AgentTyped, References
  <2>5. /\ s.name = "brief" => reference'.brief = s.to /\ reference'.handoff = reference.handoff
        /\ s.name = "handoff" => reference'.brief = reference.brief /\ reference'.handoff = s.to
        /\ s.name = "economic" => reference'.brief = reference.brief /\ reference'.handoff = reference.handoff
    BY <2>1, <2>3 DEF AgentInv, AgentTyped, References
  <2>6. s.name = "brief" => disk[<<"brief", s.to>>] = "whole"
    BY <1>3, <1>8, <2>1, <2>3 DEF Relies
  <2>7. s.name = "handoff" => disk[<<"run", s.to>>] = "whole"
    BY <1>3, <1>8, <2>1, <2>3 DEF Relies
  <2>8. BriefStored(reference', disk) /\ (reference'.handoff # 0 => disk[<<"run", reference'.handoff>>] = "whole")
    BY <2>3, <2>5, <2>6, <2>7 DEF AgentInv, StoredFits, BriefStored
  <2>9. StoredFits'
    BY <1>2, <2>1, <2>8 DEF AgentInv, StoredFits
  <2> QED
    BY <1>2, <1>6, <1>7, <2>1, <2>4, <2>9 DEF AgentInv, AgentTyped
<1>10. CASE ReplaceRun(p)
  <2>1. s.do = "run" /\ runs' = [runs EXCEPT ![s.run] = s.value] /\ reference' = reference
    BY <1>10 DEF ReplaceRun, Doing
  <2>2. s \in RunStep
    BY <1>3, <2>1, StepForms
  <2>3. s.run \in Number /\ s.value \in RunValue
    BY <2>2 DEF RunStep
  <2>4. runs' \in [Number -> RunValue] /\ \A n \in Number : runs'[n] = IF n = s.run THEN s.value ELSE runs[n]
    BY <2>1, <2>3 DEF AgentInv, AgentTyped
  <2>5. ASSUME s.value.status = "complete", NEW f \in Deliverables(s.value.brief) PROVE disk[f] = "whole"
    <3>1. s.value.brief \in Number
      BY <2>3, <2>5 DEF RunValue
    <3>2. f \in Relies(s)
      BY <1>8, <2>1, <2>5, <3>1 DEF Relies
    <3> QED
      BY <1>3, <3>2
  <2>6. \A n \in Number : runs'[n].status = "complete" => \A f \in Deliverables(runs'[n].brief) : disk[f] = "whole"
    BY <2>4, <2>5 DEF AgentInv, StoredFits
  <2>7. StoredFits'
    BY <1>2, <2>1, <2>6 DEF AgentInv, StoredFits
  <2> QED
    BY <1>2, <1>6, <1>7, <2>1, <2>4, <2>7 DEF AgentInv, AgentTyped
<1> QED
  BY <1>9, <1>10

\* updateOperationalState: the state is read, changed and replaced.
LEMMA UpdateKeeps ==
  ASSUME AgentInv, NEW p \in AgentProcess, ReadState(p) \/ WriteState(p)
  PROVE  AgentInv'
<1> DEFINE s == Current(p)
           todo == process[p].todo
<1>1. /\ todo # <<>> /\ s.do \in {"read", "write"} /\ UNCHANGED <<disk, query, reference, runs, told>>
  BY DEF ReadState, WriteState, Doing
<1>2. disk' = disk /\ told' = told /\ query' = query /\ reference' = reference /\ runs' = runs
  BY <1>1
<1>3. /\ process[p] \in WorkingCalls /\ Working(process[p], disk, told) /\ s = todo[1] /\ s \in TodoStep
      /\ \A f \in Relies(s) : disk[f] = "whole"
  BY <1>1, AtHand
<1>4. todo \in Seq(TodoStep) /\ Fits(todo, {}, disk, told) /\ \A f \in File : ~Makes(todo[1], f)
  BY <1>1, <1>3 DEF WorkingCalls, Working, Makes
<1>5. /\ Tail(todo) \in Seq(TodoStep) /\ Fits(Tail(todo), {}, disk, told)
      /\ Tail(todo) # <<>> => (Tail(todo)[1].do = "write" => todo[1].do = "read")
  BY <1>1, <1>4, TailFits
<1>6. \A n \in Number : <<"brief", n>> \in File
  BY FilesApart
<1>7. CASE ReadState(p) /\ disk[<<"state">>] # "whole"
  BY <1>7, AbortKeeps DEF ReadState, StoreStands
<1>8. CASE ReadState(p) /\ disk[<<"state">>] = "whole"
  <2> DEFINE w == [todo |-> Tail(todo), read |-> <<operational>>, plan |-> <<>>, slot |-> 0]
  <2>1. process' = [process EXCEPT ![p] = w] /\ StoreStands
    BY <1>3, <1>8 DEF ReadState, StoreStands, WorkingCalls
  <2>2. operational \in Operational /\ BriefStored(operational, disk)
    BY DEF AgentInv, AgentTyped, StoredFits
  <2>3. w \in AgentCalls /\ ~Taking(w)
    BY <1>5, <2>2 DEF AgentCalls, WorkingCalls, StateReads, Taking
  <2>4. CallFits(w, disk, told)
    BY <1>5, <2>2 DEF CallFits, Working
  <2> HIDE DEF w
  <2> QED
    BY <2>1, <2>3, <2>4, TurnKeeps
<1>9. CASE WriteState(p)
  <2> DEFINE w == [todo |-> Tail(todo), read |-> <<>>, plan |-> <<>>, slot |-> 0]
             old == Head(process[p].read)
  <2>1. s.do = "write" /\ operational' = [old EXCEPT ![s.name] = s.to]
    BY <1>9 DEF WriteState, Doing
  <2>2. process' = [process EXCEPT ![p] = w]
    <3> PICK call \in WorkingCalls : call = process[p]
      BY <1>3
    <3>1. process' = [process EXCEPT ![p].todo = Tail(@), ![p].read = <<>>] /\ process \in [AgentProcess -> AgentCalls]
      BY <1>9 DEF WriteState, AgentInv, AgentTyped
    <3>2. process' = [process EXCEPT ![p] = [[call EXCEPT !.todo = Tail(call.todo)] EXCEPT !.read = <<>>]]
      BY <3>1
    <3> DEFINE next == [[call EXCEPT !.todo = Tail(call.todo)] EXCEPT !.read = <<>>]
    <3>3. next \in [todo : {Tail(call.todo)}, read : {<<>>}, plan : {<<>>}, slot : {0}]
      BY DEF WorkingCalls
    <3> HIDE DEF next
    <3>4. next = [todo |-> next.todo, read |-> next.read, plan |-> next.plan, slot |-> next.slot]
      BY <3>3
    <3>5. next.todo = Tail(call.todo) /\ next.read = <<>> /\ next.plan = <<>> /\ next.slot = 0
      BY <3>3
    <3>6. next = w
      BY <3>4, <3>5
    <3> QED
      BY <3>2, <3>6 DEF next
  <2>3. Tail(todo) # <<>> => Tail(todo)[1].do # "write"
    BY <1>3, <1>5, <2>1
  <2>4. w \in AgentCalls /\ ~Taking(w)
    BY <1>5 DEF AgentCalls, WorkingCalls, StateReads, Taking
  <2>5. CallFits(w, disk, told)
    BY <1>5, <2>3 DEF CallFits, Working
  <2> HIDE DEF w
  <2>6. Grows(disk, disk') /\ told \subseteq told'
    BY <1>2 DEF Grows
  <2>7. /\ process' \in [AgentProcess -> AgentCalls] /\ SlotsApart'
        /\ \A q \in AgentProcess : CallFits(process'[q], disk', told')
    BY <1>2, <2>2, <2>4, <2>5, <2>6, OneAgentMoves
  <2>8. process[p].read # <<>>
    BY <1>1, <1>3, <2>1 DEF Working
  <2>9. old \in Operational /\ BriefStored(old, disk)
    BY <1>3, <2>8 DEF WorkingCalls, StateReads, Working
  <2>10. /\ s.name \in {"brief", "economic", "handoff", "research"}
         /\ s.name \in {"brief", "economic", "handoff"} => s.to \in Number
         /\ s.name = "research" => s.to \in Plan
    BY <1>3, <2>1, StepForms DEF WriteStep, ResearchStep
  <2>11. operational' \in Operational
    BY <2>1, <2>9, <2>10 DEF Operational
  <2>12. operational'.brief = (IF s.name = "brief" THEN s.to ELSE old.brief)
    BY <2>1, <2>9, <2>10 DEF Operational
  <2>13. s.name = "brief" => disk[<<"brief", s.to>>] = "whole"
    BY <1>3, <1>6, <2>1, <2>10 DEF Relies
  <2>14. BriefStored(operational', disk)
    BY <2>9, <2>12, <2>13 DEF BriefStored
  <2>15. StoredFits'
    BY <1>2, <2>14 DEF AgentInv, StoredFits
  <2>16. ToldFits'
    BY <1>2 DEF AgentInv, ToldFits
  <2> QED
    BY <1>2, <2>7, <2>11, <2>15, <2>16 DEF AgentInv, AgentTyped
<1> QED
  BY <1>7, <1>8, <1>9

\* What a call that consumes a query holds.
LEMMA ConsumerHolds ==
  ASSUME AgentInv, NEW p \in AgentProcess, process[p].slot # 0
  PROVE  /\ process[p] \in ConsumingCalls /\ Budgeted(process[p], disk)
         /\ process[p].plan[1] \in Plan /\ process[p].plan[2] \in Theme
         /\ process[p] = [todo |-> process[p].todo, read |-> <<>>, plan |-> process[p].plan, slot |-> process[p].slot]
         /\ SlotOf(p) = SlotBy(process[p])
<1>1. process[p] \in ConsumingCalls /\ Budgeted(process[p], disk)
  BY DEF AgentInv, AgentTyped, AgentCalls, WorkingCalls, CallFits
<1> QED
  BY <1>1 DEF ConsumingCalls, SlotOf, SlotBy

\* ConsumeResearchQuery up to its slot.
LEMMA SeekingKeeps ==
  ASSUME AgentInv, NEW p \in AgentProcess,
         \/ NextSlot(p) \/ BudgetExhausted(p) \/ ProcessStops(p)
         \/ \E plan \in Plan, theme \in Theme : ConsumeResearchQuery(p, plan, theme)
  PROVE  AgentInv'
<1>1. CASE BudgetExhausted(p) \/ ProcessStops(p)
  BY <1>1, AbortKeeps DEF BudgetExhausted, ProcessStops, StoreStands
<1>2. CASE NextSlot(p)
  <2> DEFINE w == [todo |-> <<>>, read |-> <<>>, plan |-> process[p].plan, slot |-> process[p].slot + 1]
  <2>1. process[p].slot > 0 /\ process[p].todo = <<>> /\ StoreStands
    BY <1>2 DEF NextSlot, Consuming, StoreStands
  <2>2. process[p].slot # 0
    BY <2>1
  <2>3. process[p] \in ConsumingCalls /\ Budgeted(process[p], disk)
    BY <2>2, ConsumerHolds
  <2>4. process' = [process EXCEPT ![p] = w]
    <3> PICK old \in ConsumingCalls : old = process[p]
      BY <2>3
    <3>1. process' = [process EXCEPT ![p] = [old EXCEPT !.slot = old.slot + 1]]
      BY <1>2 DEF NextSlot
    <3>2. [old EXCEPT !.slot = old.slot + 1] = [todo |-> old.todo, read |-> old.read, plan |-> old.plan, slot |-> old.slot + 1]
      BY DEF ConsumingCalls
    <3> QED
      BY <2>1, <3>1, <3>2 DEF ConsumingCalls
  <2>5. w \in AgentCalls /\ ~Taking(w) /\ w.slot # 0
    BY <2>3 DEF AgentCalls, ConsumingCalls, Taking
  <2>6. CallFits(w, disk, told)
    BY <2>3, <2>5 DEF CallFits, Budgeted
  <2> HIDE DEF w
  <2> QED
    BY <2>1, <2>4, <2>5, <2>6, TurnKeeps
<1>3. ASSUME NEW plan \in Plan, NEW theme \in Theme, ConsumeResearchQuery(p, plan, theme) PROVE AgentInv'
  <2> DEFINE w == [todo |-> <<>>, read |-> <<>>, plan |-> <<plan, theme>>, slot |-> 1]
  <2>1. process' = [process EXCEPT ![p] = w] /\ StoreStands /\ disk[<<"approved", plan>>] = "whole"
    <3> DEFINE next == [AgentIdle EXCEPT !.plan = <<plan, theme>>, !.slot = 1]
    <3>1. next \in [todo : {<<>>}, read : {<<>>}, plan : {<<plan, theme>>}, slot : {1}]
      BY DEF AgentIdle
    <3>2. w \in [todo : {<<>>}, read : {<<>>}, plan : {<<plan, theme>>}, slot : {1}]
      OBVIOUS
    <3>3. process' = [process EXCEPT ![p] = next] /\ StoreStands /\ disk[<<"approved", plan>>] = "whole"
      BY <1>3 DEF ConsumeResearchQuery, StoreStands, Usable
    <3> HIDE DEF w, next
    <3>4. next = w
      BY <3>1, <3>2
    <3> QED
      BY <3>3, <3>4
  <2>2. w \in AgentCalls /\ ~Taking(w)
    BY DEF AgentCalls, ConsumingCalls, Taking
  <2>3. CallFits(w, disk, told)
    BY <2>1 DEF CallFits, Budgeted
  <2> HIDE DEF w
  <2> QED
    BY <2>1, <2>2, <2>3, TurnKeeps
<1> QED
  BY <1>1, <1>2, <1>3

\* A slot changes: documents and the slots of others stay as they were.
LEMMA SlotChanged ==
  ASSUME AgentInv, NEW p \in AgentProcess, process[p].slot # 0, process[p].slot \in Slot, NEW v \in {"torn", "whole"},
         disk' = [disk EXCEPT ![SlotOf(p)] = v], disk[SlotOf(p)] # "whole"
  PROVE  /\ SlotOf(p) \in SlotFile /\ disk' \in [File -> {"absent", "torn", "whole"}] /\ Grows(disk, disk')
         /\ disk'[SlotOf(p)] = v /\ \A f \in File : f # SlotOf(p) => disk'[f] = disk[f]
<1>1. SlotOf(p) \in SlotFile
  BY ConsumerHolds, FilesApart DEF SlotOf
<1> QED
  BY <1>1, FilesApart DEF AgentInv, AgentTyped, Grows

\* ConsumeResearchQuery creates the first slot that is free.
LEMMA TakeSlotKeeps ==
  ASSUME AgentInv, NEW p \in AgentProcess, TakeSlot(p)
  PROVE  AgentInv'
<1> DEFINE w == [todo |-> <<[do |-> "slot"]>>, read |-> <<>>, plan |-> process[p].plan, slot |-> process[p].slot]
<1>1. /\ process[p].slot # 0 /\ process[p].todo = <<>> /\ process[p].slot <= MaxQueries
      /\ disk[SlotOf(p)] = "absent" /\ disk' = [disk EXCEPT ![SlotOf(p)] = "torn"]
      /\ UNCHANGED <<query, reference, operational, runs, told>>
  BY DEF TakeSlot, Consuming, FreeSlot
<1>2. /\ process[p] \in ConsumingCalls /\ Budgeted(process[p], disk) /\ process[p].plan[1] \in Plan
      /\ SlotOf(p) = SlotBy(process[p])
  BY <1>1, ConsumerHolds
<1>3. process[p].slot \in Slot
  BY <1>1, <1>2, BudgetAssumption DEF ConsumingCalls, Slot
<1>4. process' = [process EXCEPT ![p] = w]
  <2> PICK old \in ConsumingCalls : old = process[p]
    BY <1>2
  <2>1. process' = [process EXCEPT ![p] = [old EXCEPT !.todo = <<[do |-> "slot"]>>]]
    BY DEF TakeSlot
  <2>2. [old EXCEPT !.todo = <<[do |-> "slot"]>>] = [todo |-> <<[do |-> "slot"]>>, read |-> old.read, plan |-> old.plan, slot |-> old.slot]
    BY DEF ConsumingCalls
  <2> QED
    BY <2>1, <2>2 DEF ConsumingCalls
<1>5. /\ SlotOf(p) \in SlotFile /\ disk' \in [File -> {"absent", "torn", "whole"}] /\ Grows(disk, disk')
      /\ disk'[SlotOf(p)] = "torn" /\ \A f \in File : f # SlotOf(p) => disk'[f] = disk[f]
  BY <1>1, <1>3, SlotChanged
<1>6. w \in AgentCalls /\ w.slot # 0 /\ SlotBy(w) = SlotOf(p)
  BY <1>1, <1>2 DEF AgentCalls, ConsumingCalls, SlotBy
<1>7. CallFits(w, disk', told')
  <2>1. <<"approved", process[p].plan[1]>> \in File /\ disk[<<"approved", process[p].plan[1]>>] = "whole"
    BY <1>2, FilesApart DEF Budgeted
  <2>2. disk'[<<"approved", process[p].plan[1]>>] = "whole"
    BY <1>5, <2>1 DEF Grows
  <2>3. w.plan = process[p].plan /\ w.slot = process[p].slot
    OBVIOUS
  <2> HIDE DEF w
  <2> QED
    BY <1>3, <1>5, <1>6, <2>2, <2>3 DEF CallFits, Budgeted
<1> HIDE DEF w
<1>8. ASSUME NEW q \in AgentProcess \ {p}, Taking(process[q]) PROVE disk'[SlotOf(q)] = disk[SlotOf(q)] /\ SlotBy(w) # SlotOf(q)
  <2>1. process[q].slot # 0 /\ process[q].todo # <<>>
    BY <1>8 DEF Taking
  <2>2. /\ process[q].plan[1] \in Plan /\ process[q].slot \in Slot /\ SlotOf(q) = SlotBy(process[q])
        /\ disk[SlotOf(q)] = "torn"
    BY <2>1, ConsumerHolds DEF Budgeted
  <2>3. SlotOf(q) \in File
    BY <2>2, FilesApart DEF SlotBy
  <2> QED
    BY <1>1, <1>5, <1>6, <2>2, <2>3
<1>9. told \subseteq told' /\ told' = told /\ query' = query /\ reference' = reference /\ operational' = operational /\ runs' = runs
  BY <1>1
<1>10. /\ process' \in [AgentProcess -> AgentCalls] /\ SlotsApart'
       /\ \A q \in AgentProcess : CallFits(process'[q], disk', told')
  BY <1>4, <1>5, <1>6, <1>7, <1>8, <1>9, OneAgentMoves
<1>11. ToldFits'
  <2>1. told \subseteq Grant /\ ToldFits
    BY DEF AgentInv, AgentTyped
  <2>2. ASSUME NEW plan \in Plan, NEW k \in Slot, disk'[<<"slot", plan, k>>] = "whole" PROVE disk[<<"slot", plan, k>>] = "whole"
    <3>1. <<"slot", plan, k>> \in File
      BY FilesApart
    <3> QED
      BY <1>5, <2>2, <3>1
  <2>3. ASSUME NEW plan \in Plan, NEW theme \in Theme
        PROVE  disk'[<<"evidence", plan, theme>>] = disk[<<"evidence", plan, theme>>]
    <3>1. <<"evidence", plan, theme>> \in MadeFile
      BY FilesApart
    <3> QED
      BY <1>5, <3>1, FilesApart
  <2>4. ASSUME NEW t \in told
        PROVE  disk'[<<"slot", t.plan, t.slot>>] = "whole" /\ disk'[<<"approved", t.plan>>] = "whole"
    <3>1. t.plan \in Plan /\ t.slot \in Slot
      BY <2>1 DEF Grant
    <3>2. <<"slot", t.plan, t.slot>> \in File /\ <<"approved", t.plan>> \in File
      BY <3>1, FilesApart
    <3> QED
      BY <1>5, <2>1, <3>2 DEF ToldFits, Grows
  <2>5. \A plan \in Plan, k \in Slot :
          disk'[<<"slot", plan, k>>] = "whole" => WasTold(told, plan, query[<<"slot", plan, k>>])
    BY <2>1, <2>2 DEF ToldFits
  <2>6. \A plan \in Plan, theme \in Theme : disk'[<<"evidence", plan, theme>>] # "absent" => WasTold(told, plan, theme)
    BY <2>1, <2>3 DEF ToldFits
  <2>7. \A t \in told : query[<<"slot", t.plan, t.slot>>] = t.theme
    BY <2>1 DEF ToldFits
  <2>8. \A t, u \in told : t.plan = u.plan /\ t.slot = u.slot => t = u
    BY <2>1 DEF ToldFits
  <2> QED
    BY <1>9, <2>4, <2>5, <2>6, <2>7, <2>8 DEF ToldFits
<1>12. StoredFits'
  BY <1>5, <1>9, GrowthKeepsStore
<1> QED
  BY <1>5, <1>9, <1>10, <1>11, <1>12 DEF AgentInv, AgentTyped

\* ConsumeResearchQuery writes its slot and lets the query out.
LEMMA WriteSlotKeeps ==
  ASSUME AgentInv, NEW p \in AgentProcess, WriteSlot(p)
  PROVE  AgentInv'
<1> DEFINE grant == [by |-> p, plan |-> process[p].plan[1], slot |-> process[p].slot, theme |-> process[p].plan[2]]
<1>1. /\ process[p].todo # <<>> /\ Current(p).do = "slot" /\ process' = [process EXCEPT ![p] = AgentIdle]
      /\ disk' = [disk EXCEPT ![SlotOf(p)] = "whole"] /\ query' = [query EXCEPT ![SlotOf(p)] = process[p].plan[2]]
      /\ told' = told \cup {grant} /\ UNCHANGED <<reference, operational, runs>>
  BY DEF WriteSlot, Doing, Aborts
<1>2. process[p].slot # 0
  <2>1. process[p].slot = 0 => Current(p) \in TodoStep
    <3> SUFFICES ASSUME process[p].slot = 0 PROVE Current(p) \in TodoStep
      OBVIOUS
    <3>1. process[p] \in WorkingCalls
      BY DEF AgentInv, AgentTyped, AgentCalls, ConsumingCalls
    <3>2. process[p].todo \in Seq(TodoStep)
      BY <3>1 DEF WorkingCalls
    <3> QED
      BY <1>1, <3>2 DEF Current
  <2> QED
    BY <1>1, <2>1, StepForms
<1>3. /\ process[p] \in ConsumingCalls /\ Budgeted(process[p], disk)
      /\ process[p].plan[1] \in Plan /\ process[p].plan[2] \in Theme /\ SlotOf(p) = SlotBy(process[p])
  BY <1>2, ConsumerHolds
<1>4. process[p].slot \in Slot /\ disk[SlotOf(p)] = "torn" /\ disk[<<"approved", process[p].plan[1]>>] = "whole"
      /\ SlotOf(p) = <<"slot", process[p].plan[1], process[p].slot>>
  BY <1>1, <1>3 DEF Budgeted, SlotBy
<1>5. /\ SlotOf(p) \in SlotFile /\ disk' \in [File -> {"absent", "torn", "whole"}] /\ Grows(disk, disk')
      /\ disk'[SlotOf(p)] = "whole" /\ \A f \in File : f # SlotOf(p) => disk'[f] = disk[f]
  BY <1>1, <1>2, <1>4, SlotChanged
<1>6. grant \in Grant /\ told \subseteq told' /\ told' \subseteq Grant
  BY <1>1, <1>3, <1>4 DEF Grant, AgentInv, AgentTyped
<1>7. ASSUME NEW q \in AgentProcess \ {p}, Taking(process[q]) PROVE disk'[SlotOf(q)] = disk[SlotOf(q)]
  <2>1. process[q].slot # 0 /\ process[q].todo # <<>>
    BY <1>7 DEF Taking
  <2>2. process[q].plan[1] \in Plan /\ process[q].slot \in Slot /\ SlotOf(q) = SlotBy(process[q])
    BY <2>1, ConsumerHolds DEF Budgeted
  <2>3. SlotOf(q) \in File
    BY <2>2, FilesApart DEF SlotBy
  <2>4. Taking(process[p]) /\ p # q
    BY <1>1, <1>2 DEF Taking
  <2>5. SlotOf(q) # SlotOf(p)
    BY <1>7, <2>4 DEF AgentInv, SlotsApart
  <2> QED
    BY <1>5, <2>3, <2>5
<1>8. AgentIdle \in AgentCalls /\ ~Taking(AgentIdle) /\ CallFits(AgentIdle, disk', told')
  BY IdleFits
<1>9. /\ process' \in [AgentProcess -> AgentCalls] /\ SlotsApart'
      /\ \A q \in AgentProcess : CallFits(process'[q], disk', told')
  BY <1>1, <1>5, <1>6, <1>7, <1>8, OneAgentMoves
<1>10. /\ query' = [f \in SlotFile |-> query'[f]] /\ query'[SlotOf(p)] = process[p].plan[2]
       /\ \A f \in SlotFile : f # SlotOf(p) => query'[f] = query[f]
  BY <1>1, <1>5 DEF AgentInv, AgentTyped
<1>11. /\ grant.plan = process[p].plan[1] /\ grant.slot = process[p].slot /\ grant.theme = process[p].plan[2]
       /\ SlotOf(p) = <<"slot", grant.plan, grant.slot>>
  BY <1>4
<1> HIDE DEF grant
<1>12. ToldFits'
  <2>1. told \subseteq Grant /\ ToldFits
    BY DEF AgentInv, AgentTyped
  <2>2. ASSUME NEW t \in told
        PROVE  /\ t.plan \in Plan /\ t.slot \in Slot /\ <<"slot", t.plan, t.slot>> \in SlotFile \cap File
               /\ <<"slot", t.plan, t.slot>> # SlotOf(p) /\ ~(t.plan = grant.plan /\ t.slot = grant.slot)
    <3>1. t.plan \in Plan /\ t.slot \in Slot
      BY <2>1 DEF Grant
    <3>2. <<"slot", t.plan, t.slot>> \in SlotFile \cap File
      BY <3>1, FilesApart
    <3>3. disk[<<"slot", t.plan, t.slot>>] = "whole"
      BY <2>1 DEF ToldFits
    <3> QED
      BY <1>4, <1>11, <3>1, <3>2, <3>3
  <2>3. ASSUME NEW t \in told'
        PROVE  /\ disk'[<<"slot", t.plan, t.slot>>] = "whole" /\ disk'[<<"approved", t.plan>>] = "whole"
               /\ query'[<<"slot", t.plan, t.slot>>] = t.theme
    <3>1. CASE t = grant
      <4>1. <<"approved", grant.plan>> \in File
        BY <1>3, <1>11, FilesApart
      <4>2. disk'[<<"approved", grant.plan>>] = "whole"
        BY <1>4, <1>5, <1>11, <4>1 DEF Grows
      <4> QED
        BY <1>5, <1>10, <1>11, <3>1, <4>2
    <3>2. CASE t \in told
      <4>1. <<"approved", t.plan>> \in File
        BY <2>2, <3>2, FilesApart
      <4> QED
        BY <1>5, <1>10, <2>1, <2>2, <3>2, <4>1 DEF ToldFits, Grows
    <3> QED
      BY <1>1, <2>3, <3>1, <3>2
  <2>4. \A t, u \in told' : t.plan = u.plan /\ t.slot = u.slot => t = u
    BY <1>1, <2>1, <2>2 DEF ToldFits
  <2>5. ASSUME NEW plan \in Plan, NEW k \in Slot, disk'[<<"slot", plan, k>>] = "whole"
        PROVE  WasTold(told', plan, query'[<<"slot", plan, k>>])
    <3>1. <<"slot", plan, k>> \in SlotFile \cap File
      BY FilesApart
    <3>2. CASE <<"slot", plan, k>> = SlotOf(p)
      <4>1. plan = grant.plan
        BY <1>11, <3>2
      <4> QED
        BY <1>1, <1>10, <1>11, <3>2, <4>1 DEF WasTold
    <3>3. CASE <<"slot", plan, k>> # SlotOf(p)
      BY <1>1, <1>5, <1>10, <2>1, <2>5, <3>1, <3>3 DEF ToldFits, WasTold
    <3> QED
      BY <3>2, <3>3
  <2>6. ASSUME NEW plan \in Plan, NEW theme \in Theme, disk'[<<"evidence", plan, theme>>] # "absent"
        PROVE  WasTold(told', plan, theme)
    <3>1. <<"evidence", plan, theme>> \in MadeFile
      BY FilesApart
    <3>2. disk[<<"evidence", plan, theme>>] # "absent"
      BY <1>5, <2>6, <3>1, FilesApart
    <3> QED
      BY <1>6, <2>1, <3>2 DEF ToldFits, WasTold
  <2> QED
    BY <2>3, <2>4, <2>5, <2>6 DEF ToldFits
<1>13. StoredFits'
  BY <1>1, <1>5, GrowthKeepsStore
<1> QED
  BY <1>1, <1>5, <1>6, <1>9, <1>10, <1>12, <1>13 DEF AgentInv, AgentTyped

\* Every step keeps the invariant.
LEMMA AgentStep == AgentInv /\ [AgentNext]_agentVars => AgentInv'
<1> SUFFICES ASSUME AgentInv, [AgentNext]_agentVars PROVE AgentInv'
  OBVIOUS
<1>1. CASE UNCHANGED agentVars \/ \E plan \in Plan : PlanExpires(plan)
  <2>1. StoreStands /\ process' = process
    BY <1>1 DEF agentVars, PlanExpires, StoreStands
  <2>2. disk' = disk /\ told' = told
    BY <2>1 DEF StoreStands
  <2>3. SlotsApart' /\ \A p \in AgentProcess : CallFits(process'[p], disk', told')
    BY <2>1, <2>2 DEF AgentInv, SlotsApart, SlotOf
  <2> QED
    BY <2>1, <2>3, StoreStays DEF AgentInv, AgentTyped
<1>2. ASSUME NEW p \in AgentProcess,
             \/ Initialize(p) \/ SaveBrief(p) \/ SaveEconomicSnapshot(p) \/ StartFirstValue(p)
             \/ \E plan \in Plan : \/ CreateResearchPlan(p, plan) \/ ApproveResearchPlan(p, plan)
                                   \/ \E theme \in Theme : RecordEvidence(p, plan, theme)
             \/ \E n \in Number : \/ AttachEconomicSnapshot(p, n) \/ RecordFirstValueIntervention(p, n)
                                  \/ CompleteFirstValue(p, n)
      PROVE  AgentInv'
  BY <1>2, CallsBegin
<1>3. ASSUME NEW p \in AgentProcess, CreateExclusive(p) \/ AlreadyThere(p) \/ FillContent(p) \/ EnsureFile(p) PROVE AgentInv'
  BY <1>3, DocumentKeeps
<1>4. ASSUME NEW p \in AgentProcess, ReplaceReference(p) \/ ReplaceRun(p) \/ ReadState(p) \/ WriteState(p) PROVE AgentInv'
  BY <1>4, ReplaceKeeps, UpdateKeeps
<1>5. ASSUME NEW p \in AgentProcess,
             \/ NextSlot(p) \/ BudgetExhausted(p) \/ ProcessStops(p)
             \/ \E plan \in Plan, theme \in Theme : ConsumeResearchQuery(p, plan, theme)
      PROVE  AgentInv'
  BY <1>5, SeekingKeeps
<1>6. ASSUME NEW p \in AgentProcess, TakeSlot(p) \/ WriteSlot(p) PROVE AgentInv'
  BY <1>6, TakeSlotKeeps, WriteSlotKeeps
<1> QED
  BY <1>1, <1>2, <1>3, <1>4, <1>5, <1>6 DEF AgentNext

\* Nothing is stored, told or under way at first.
LEMMA AgentStarts == AgentInit => AgentInv
<1> SUFFICES ASSUME AgentInit PROVE AgentInv
  OBVIOUS
<1>1. AgentTyped
  <2>1. \A p \in AgentProcess : process[p] \in AgentCalls
    BY IdleFits DEF AgentInit
  <2>2. disk \in [File -> {"absent", "torn", "whole"}] /\ query = [f \in SlotFile |-> query[f]] /\ told \subseteq Grant
    BY DEF AgentInit
  <2>3. reference \in References /\ operational \in Operational /\ runs \in [Number -> RunValue]
    BY DEF AgentInit, References, Operational, RunValue, NoRun
  <2> QED
    BY <2>1, <2>2, <2>3 DEF AgentInit, AgentTyped
<1>2. ToldFits
  <2>1. \A plan \in Plan, k \in Slot : disk[<<"slot", plan, k>>] = "absent"
    BY FilesApart DEF AgentInit
  <2>2. \A plan \in Plan, theme \in Theme : disk[<<"evidence", plan, theme>>] = "absent"
    BY FilesApart DEF AgentInit
  <2>3. told = {}
    BY DEF AgentInit
  <2> QED
    BY <2>1, <2>2, <2>3 DEF ToldFits
<1>3. StoredFits
  BY DEF AgentInit, StoredFits, BriefStored, NoRun
<1>4. SlotsApart /\ \A p \in AgentProcess : CallFits(process[p], disk, told)
  BY IdleFits DEF AgentInit, SlotsApart
<1> QED
  BY <1>1, <1>2, <1>3, <1>4 DEF AgentInv

\* The invariant gives both parts of the property.
LEMMA HonestFromAgentInv == AgentInv => AgentHonest
<1> SUFFICES ASSUME AgentInv PROVE AgentHonest
  OBVIOUS
<1>1. ASSUME NEW plan \in Plan PROVE Cardinality({t \in told : t.plan = plan}) <= MaxQueries
  <2> DEFINE mine == {t \in told : t.plan = plan}
             slotOf == [t \in mine |-> t.slot]
  <2>1. slotOf \in Injection(mine, Slot)
    BY DEF Injection, IsInjective, AgentInv, AgentTyped, ToldFits, Grant
  <2>2. IsFiniteSet(Slot) /\ Cardinality(Slot) = MaxQueries
    BY BudgetAssumption, FS_Interval DEF Slot
  <2> HIDE DEF mine, slotOf
  <2>3. Cardinality(mine) <= MaxQueries
    BY <2>1, <2>2, FS_Injection
  <2> QED
    BY <2>3 DEF mine
<1>2. /\ \A t \in told : disk[<<"approved", t.plan>>] = "whole"
      /\ \A plan \in Plan, theme \in Theme :
           disk[<<"evidence", plan, theme>>] = "whole" => \E t \in told : t.plan = plan /\ t.theme = theme
  BY DEF AgentInv, ToldFits, WasTold
<1>3. ASSUME NEW n \in Number, runs[n].status = "complete", NEW kind \in {"brief", "plan", "artifact", "receipt"}
      PROVE  disk[<<kind, runs[n].brief>>] = "whole"
  BY <1>3 DEF AgentInv, StoredFits, Deliverables
<1>4. /\ reference.brief # 0 => disk[<<"brief", reference.brief>>] = "whole"
      /\ operational.brief # 0 => disk[<<"brief", operational.brief>>] = "whole"
      /\ reference.handoff # 0 => disk[<<"run", reference.handoff>>] = "whole"
  BY DEF AgentInv, StoredFits, BriefStored
<1> QED
  BY <1>1, <1>2, <1>3, <1>4 DEF AgentHonest, ResearchWithinBudget, DeliveredIsWhole

\* For any plans, themes, budgets and calls that interleave and stop anywhere, no plan
\* lets out more queries than it grants, each under its approval, evidence is kept for
\* those only, and what references, state and completed runs name is stored in full
\* (ConsumeResearchQuery, RecordEvidence, SaveBrief, CompleteFirstValue).
THEOREM AgentIsHonest == AgentSpec => []AgentHonest
  BY AgentStarts, AgentStep, HonestFromAgentInv, PTL DEF AgentSpec

=============================================================================
