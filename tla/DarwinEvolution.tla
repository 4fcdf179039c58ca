--------------------------- MODULE DarwinEvolution ---------------------------
(***************************************************************************)
(* darwin.EvolutionStore: episodes, their lifecycle events, evidence       *)
(* windows, proposals and decisions, each one immutable file published by  *)
(* a no-clobber link.  There is no lock: a writer validates its record     *)
(* against what it reads and publishes it in a later step, and other       *)
(* writers may publish in between.  A pin stands for policy and portfolio, *)
(* a digest for the record it is taken of.                                 *)
(***************************************************************************)
EXTENDS Integers, FiniteSets

CONSTANTS Writer, Pin, Episode, Window, Proposal,
          MaxRevision,     \* bound on the events of an episode
          MaxVersion       \* bound on the versions of a window

VARIABLES files,           \* path -> record, for the files that exist
          pending          \* what each writer is about to publish

evolutionVars == <<files, pending>>

EventStates == {"interrupted", "resumed", "closed"}
Decisions == {"approved", "rejected"}
Nothing == [path |-> <<>>, record |-> <<>>]

EpisodePath(e) == <<"episode", e>>
EventPath(e, n) == <<"event", e, n>>
WindowPath(w, v) == <<"window", w, v>>
ProposalPath(p) == <<"proposal", p>>
DecisionPath(p) == <<"decision", p>>
Exists(path) == path \in DOMAIN files

EvolutionInit == /\ files = [path \in {} |-> <<>>]
        /\ pending = [x \in Writer |-> Nothing]

-----------------------------------------------------------------------------
\* validEpisodeTransition
ValidTransition(from, to) ==
  \/ from \in {"open", "resumed"} /\ to \in {"interrupted", "closed"}
  \/ from = "interrupted" /\ to \in {"resumed", "closed"}

\* RecoverEpisode: the revisions are 1, 2, ... without a gap and each event is
\* allowed after the one before it.
Revisions(e) == {n \in 1 .. MaxRevision : Exists(EventPath(e, n))}
StateAt(e, n) == IF n = 0 THEN "open" ELSE files[EventPath(e, n)].state
Recoverable(e) ==
  /\ Exists(EpisodePath(e))
  /\ Revisions(e) = 1 .. Cardinality(Revisions(e))
  /\ \A n \in Revisions(e) : ValidTransition(StateAt(e, n - 1), StateAt(e, n))
Revision(e) == Cardinality(Revisions(e))

\* RecoverWindow: versions without a gap, all with the pins of the first.
Versions(w) == {v \in 1 .. MaxVersion : Exists(WindowPath(w, v))}
Version(w) == Cardinality(Versions(w))
RecoverableWindow(w) ==
  /\ Versions(w) = 1 .. Version(w)
  /\ \A v \in Versions(w) : files[WindowPath(w, v)].pin = files[WindowPath(w, 1)].pin

\* EvidenceWindow.Validate and AppendWindow: every observed episode belongs to
\* the window and has its pins, and the version is the next one.
EpisodesFit(w, pin, observed) ==
  \A e \in observed : /\ Recoverable(e)
                      /\ files[EpisodePath(e)].window = w
                      /\ files[EpisodePath(e)].pin = pin
\* Mutant: the episodes of an observation are not looked up.
CanAppendWindowUnseen(w, v, pin, observed) ==
  /\ RecoverableWindow(w)
  /\ v = Version(w) + 1
  /\ Version(w) > 0 => files[WindowPath(w, 1)].pin = pin
CanAppendWindow(w, v, pin, observed) ==
  /\ EpisodesFit(w, pin, observed)
  /\ RecoverableWindow(w)
  /\ v = Version(w) + 1
  /\ Version(w) > 0 => files[WindowPath(w, 1)].pin = pin

\* AppendProposal: pinned to the newest version of its window.
CanAppendProposal(w, pin, evidence) ==
  /\ RecoverableWindow(w)
  /\ Version(w) > 0
  /\ files[WindowPath(w, Version(w))] = evidence
  /\ evidence.pin = pin

-----------------------------------------------------------------------------
\* A writer that found its path free goes on to publish; one that found it
\* taken compares the bytes and ends (appendJSON).
Prepare(x, path, record) ==
  /\ pending[x] = Nothing
  /\ ~Exists(path)
  /\ pending' = [pending EXCEPT ![x] = [path |-> path, record |-> record]]
  /\ UNCHANGED files

AppendEpisode(x, e, w, pin) ==
  Prepare(x, EpisodePath(e), [window |-> w, pin |-> pin])

AppendEpisodeEvent(x, e, n, s) ==
  /\ Recoverable(e)
  /\ n = Revision(e) + 1
  /\ ValidTransition(StateAt(e, Revision(e)), s)
  /\ Prepare(x, EventPath(e, n), [state |-> s])

AppendWindow(x, w, v, pin, observed) ==
  /\ CanAppendWindow(w, v, pin, observed)
  /\ Prepare(x, WindowPath(w, v), [version |-> v, pin |-> pin, observed |-> observed])

AppendProposal(x, p, w, pin) ==
  \E v \in Versions(w) :
    /\ CanAppendProposal(w, pin, files[WindowPath(w, v)])
    /\ Prepare(x, ProposalPath(p), [window |-> w, pin |-> pin, evidence |-> files[WindowPath(w, v)]])

AppendDecision(x, p, d) ==
  /\ Exists(ProposalPath(p))
  /\ Prepare(x, DecisionPath(p), [of |-> files[ProposalPath(p)], decision |-> d])

\* publishEvolutionFile: a link does not replace what another writer published
\* meanwhile; that writer's record stands.
Publish(x) ==
  /\ pending[x] # Nothing
  /\ files' = IF Exists(pending[x].path) THEN files
              ELSE [q \in DOMAIN files \cup {pending[x].path} |->
                      IF q = pending[x].path THEN pending[x].record ELSE files[q]]
  /\ pending' = [pending EXCEPT ![x] = Nothing]

\* A writer that stops, or whose temporary file cannot be written.
Abandon(x) == /\ pending[x] # Nothing
              /\ pending' = [pending EXCEPT ![x] = Nothing]
              /\ UNCHANGED files

AppendRecord(x) ==
  \/ \E e \in Episode, w \in Window, pin \in Pin : AppendEpisode(x, e, w, pin)
  \/ \E e \in Episode, n \in 1 .. MaxRevision, s \in EventStates : AppendEpisodeEvent(x, e, n, s)
  \/ \E w \in Window, v \in 1 .. MaxVersion, pin \in Pin, o \in SUBSET Episode :
       AppendWindow(x, w, v, pin, o)
  \/ \E p \in Proposal, w \in Window, pin \in Pin : AppendProposal(x, p, w, pin)
  \/ \E p \in Proposal, d \in Decisions : AppendDecision(x, p, d)

EvolutionNext == \E x \in Writer : AppendRecord(x) \/ Publish(x) \/ Abandon(x)

EvolutionSpec == EvolutionInit /\ [][EvolutionNext]_evolutionVars

-----------------------------------------------------------------------------
\* Whatever writers do at the same time, every episode that was published can
\* be recovered: its events have no gap and form a legal lifecycle, and so do
\* the versions of a window (RecoverEpisode, RecoverWindow).
EvolutionRecoverable ==
  /\ \A e \in Episode : Exists(EpisodePath(e)) => Recoverable(e)
  /\ \A w \in Window : RecoverableWindow(w)

\* What a decision was taken on is still there, unchanged and under the same
\* pins: the proposal as it is on disk, a version of its evidence window, and
\* the episodes observed in it (AppendDecision, AppendProposal, AppendWindow).
EvidenceChain ==
  \A p \in Proposal : Exists(DecisionPath(p)) =>
    LET prop == files[DecisionPath(p)].of IN
    /\ Exists(ProposalPath(p)) /\ files[ProposalPath(p)] = prop
    /\ \E v \in Versions(prop.window) : files[WindowPath(prop.window, v)] = prop.evidence
    /\ \A e \in prop.evidence.observed :
         Exists(EpisodePath(e)) /\ files[EpisodePath(e)] = [window |-> prop.window, pin |-> prop.pin]

\* Both, whatever writers interleave.
EvolutionSound == EvolutionRecoverable /\ EvidenceChain
=============================================================================
