-------------------------- MODULE OwnerObservation --------------------------
(***************************************************************************)
(* The append-only log of what was observed about the owner.  A caller     *)
(* reads an observation, decides on a transition and sends it, perhaps     *)
(* late and perhaps twice; it is applied under a lock file against the     *)
(* state and the revision that the caller saw.  A process that stops while *)
(* it holds the lock file leaves it behind, and perhaps a torn line.       *)
(***************************************************************************)
EXTENDS OwnerContext

CONSTANTS Observation,    \* records of episode, source, signal and confirmed
          MaxTransition,  \* transitions that callers decide on
          Wanted,         \* states they ask for
          MaxCanonical    \* edits of the facet the observations are about

VARIABLES log,            \* observations.jsonl
          torn,           \* its last line was cut off
          obsLock,        \* the lock file: "free" or "left"
          asked,          \* transitions that callers have decided on
          canonical       \* revision of the facet

observationVars == <<log, torn, obsLock, asked, canonical>>

TerminalState == {"rejected", "contradicted", "expired", "redacted"}
Transition == 1..MaxTransition      \* ids that callers give their transitions
NotAsked == [unset |-> TRUE]

ObservationInit == /\ log = <<>> /\ torn = FALSE /\ obsLock = "free"
                   /\ asked = [t \in Transition |-> NotAsked]
                   /\ canonical = 1

-----------------------------------------------------------------------------
\* EvaluateInteraction: hypotheses stay with the task, an explicit signal needs
\* the owner's confirmation.
Persist(o) == o.signal # "hypothesis" /\ (o.signal = "explicit" => o.confirmed)

Records(o) == {n \in DOMAIN log : log[n].obs = o}
\* latestObservations, by position; the position also stands for observationRevision.
LatestLine(o) == CHOOSE n \in Records(o) : \A k \in Records(o) : k <= n
State(o) == log[LatestLine(o)].state

\* Another episode and another source of the same claim.  Every line of the log
\* counts, the earlier lines of an observation included.
Independent(o) ==
  \E n \in DOMAIN log : /\ log[n].obs # o /\ log[n].obs.episode # o.episode
                        /\ log[n].obs.source # o.source
                        /\ log[n].state \notin {"rejected", "redacted", "contradicted"}

validateTransition(o, next) ==
  \/ next = "eligible" /\ State(o) = "captured"
  \/ next = "corroborated" /\ State(o) \in {"eligible", "corroborated"} /\ Independent(o)
  \/ next = "proposed" /\ State(o) = "corroborated"
  \/ next = "promoted" /\ State(o) = "proposed"
  \/ next \in TerminalState /\ State(o) \notin {"promoted", "redacted"}

\* Mutant: only the state is compared.
AsSeenState(r) == State(r.obs) = r.state
AsSeen(r) == State(r.obs) = r.state /\ LatestLine(r.obs) = r.revision

\* TransitionObservation: a known id is answered from the log; promotion is an
\* act of the owner on a confirmed observation and the facet as it was seen.
Applicable(t) ==
  LET r == asked[t] IN
  /\ r # NotAsked /\ \A n \in DOMAIN log : log[n].transition # t
  /\ AsSeen(r) /\ validateTransition(r.obs, r.next)
  /\ r.next = "promoted" => r.obs.confirmed /\ canonical = r.canonical

\* Captures and resets carry no id of a caller.
Line(o, state, t, expected) == [obs |-> o, state |-> state, transition |-> t,
                                expected |-> expected]

\* What an operation appends while it holds the lock.
Captured(o) == <<Line(o, "captured", 0, 0)>>
Moved(t) == <<Line(asked[t].obs, asked[t].next, t, asked[t].revision)>>
\* ResetDerivedSelf, in some order of the observations; never past a promoted one.
Provisional == {o \in Observation : Records(o) # {} /\ State(o) \notin TerminalState}
Resets == {s \in [1..Cardinality(Provisional) -> Provisional] :
             \A i, j \in DOMAIN s : i # j => s[i] # s[j]}
Redacted(s) == [i \in DOMAIN s |-> Line(s[i], "redacted", 0, LatestLine(s[i]))]

Appended(new) == log' = log \o new /\ UNCHANGED <<torn, obsLock>>
\* The process stops under the lock, after some lines or within one.
StopUnder(new) ==
  \E n \in 0..Len(new), cut \in BOOLEAN :
    /\ log' = log \o SubSeq(new, 1, n)
    /\ torn' = (cut /\ n < Len(new)) /\ obsLock' = "left"

Writes(new) == Appended(new) \/ StopUnder(new)

-----------------------------------------------------------------------------
AppendObservation(o) ==
  /\ obsLock = "free" /\ Persist(o) /\ Records(o) = {}
  /\ Writes(Captured(o))
  /\ UNCHANGED <<asked, canonical>>

\* A caller reads the receipts, which takes no lock, and decides.  What the state
\* it saw does not allow is refused whenever it is sent.
Ask(t, o, next) ==
  /\ asked[t] = NotAsked /\ (t > 1 => asked[t - 1] # NotAsked)
  /\ ~torn /\ Records(o) # {} /\ validateTransition(o, next)
  /\ asked' = [asked EXCEPT ![t] = [obs |-> o, next |-> next, state |-> State(o),
                                    revision |-> LatestLine(o), canonical |-> canonical]]
  /\ UNCHANGED <<log, torn, obsLock, canonical>>

TransitionObservation(t) ==
  /\ obsLock = "free" /\ Applicable(t)
  /\ Writes(Moved(t))
  /\ UNCHANGED <<asked, canonical>>

ResetDerivedSelf ==
  /\ obsLock = "free" /\ \A o \in Provisional : State(o) # "promoted"
  /\ Provisional # {} /\ \E s \in Resets : Writes(Redacted(s))
  /\ UNCHANGED <<asked, canonical>>

\* The facet changes under a refinement (OwnerContext).
FacetChanges ==
  /\ canonical < MaxCanonical /\ canonical' = canonical + 1
  /\ UNCHANGED <<log, torn, obsLock, asked>>

ObservationNext ==
  \/ \E o \in Observation : AppendObservation(o) \/ \E t \in Transition, s \in Wanted : Ask(t, o, s)
  \/ \E t \in Transition : TransitionObservation(t)
  \/ ResetDerivedSelf \/ FacetChanges
ObservationSpec == ObservationInit /\ [][ObservationNext]_observationVars

-----------------------------------------------------------------------------
\* Every line continues the line of its observation that its author had seen: no
\* late, repeated or concurrent transition is applied over one it did not know.
ChainedByRevision ==
  \A n \in DOMAIN log :
    LET earlier == {k \in 1..(n - 1) : log[k].obs = log[n].obs}
    IN log[n].expected = IF earlier = {} THEN 0 ELSE CHOOSE k \in earlier : \A j \in earlier : j <= k

\* What the owner has said and what was observed about the owner: an interrupted
\* interview can be taken up, and an observation moves from where its caller saw it.
OwnerContextSound == InterviewResumable /\ ChainedByRevision
=============================================================================
