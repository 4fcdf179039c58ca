----------------------------- MODULE AgentState -----------------------------
(***************************************************************************)
(* The state snapshot of one managed agent in one workspace.  An update is *)
(* merged into the newest valid commit, compacted to the budget and        *)
(* activated as a version directory, a commit file named for the time, and *)
(* the state.md projection.  Writers take no lock and may stop anywhere.   *)
(***************************************************************************)
EXTENDS Naturals, Sequences, FiniteSets

CONSTANTS StateWriter, Label, SectionBody,
          Stamp,               \* timestamps of the updates
          SectionBudget,       \* sections that fit into the rune budget
          MaxCommits, MaxStateCrashes

VARIABLES versions,            \* snapshot of each transaction under versions/
          commits,             \* commit files by name, that is by time; still pending or in place
          projection,          \* state.md
          stateWriter, stateCrashes

stateVars == <<versions, commits, projection, stateWriter, stateCrashes>>

\* What SnapshotUpdate.Validate admits: a labelled body that is not empty, with a
\* time of its own.
Update == [section : [label : Label, body : SectionBody], at : Stamp \ {0}]
NoSnapshot == [sections |-> <<>>, at |-> 0]
WriterIdle == [at |-> "idle"]
Pending(t) == [tx |-> t, active |-> FALSE]
Transaction == 1..MaxCommits

StateInit ==
  /\ versions = [t \in Transaction |-> NoSnapshot] /\ commits = <<>> /\ projection = NoSnapshot
  /\ stateWriter = [w \in StateWriter |-> WriterIdle] /\ stateCrashes = 0

-----------------------------------------------------------------------------
\* loadActive: the newest commit file whose version can be read.
Active == {n \in DOMAIN commits : commits[n].active}
Readable == {n \in Active : versions[commits[n].tx] # NoSnapshot}
LoadActive ==
  IF Readable = {} THEN NoSnapshot
  ELSE versions[commits[CHOOSE n \in Readable : \A k \in Readable : k <= n].tx]
Corrupt == Active # {} /\ Readable = {}

\* mergeSection replaces a section in its place or appends it; compact drops the
\* oldest sections until the rest fits.
MergeSection(sections, incoming) ==
  IF \E n \in DOMAIN sections : sections[n].label = incoming.label
  THEN [n \in DOMAIN sections |-> IF sections[n].label = incoming.label THEN incoming ELSE sections[n]]
  ELSE Append(sections, incoming)
Compact(sections) ==
  IF Len(sections) <= SectionBudget THEN sections
  ELSE SubSeq(sections, Len(sections) - SectionBudget + 1, Len(sections))

Used == {t \in Transaction : versions[t] # NoSnapshot}
          \cup {stateWriter[w].tx : w \in {v \in StateWriter : stateWriter[v].at # "idle"}}

\* Apply: an update older than the snapshot is refused, and a section that is
\* there with this body needs no commit.
Apply(w, update) ==
  /\ stateWriter[w] = WriterIdle /\ ~Corrupt /\ update.at >= LoadActive.at
  /\ \A n \in DOMAIN LoadActive.sections : LoadActive.sections[n] # update.section
  /\ \E t \in Transaction \ Used :
       /\ \A u \in Transaction \ Used : t <= u
       /\ stateWriter' = [stateWriter EXCEPT ![w] =
            [at |-> "commit", tx |-> t, step |-> 1,
             snapshot |-> [sections |-> Compact(MergeSection(LoadActive.sections, update.section)), at |-> update.at]]]
  /\ UNCHANGED <<versions, commits, projection, stateCrashes>>

\* commit: the version directory is renamed into place; the commit file gets its
\* name from the time, is written as a pending one and renamed, perhaps after a
\* later one of another writer; then the projection is replaced.
\* Mutant: the commit file appears before its version.
CommitOrderAhead == <<"pending", "activate", "version", "project">>
CommitOrder == <<"version", "pending", "activate", "project">>
Named(step, tx) ==
  commits' = CASE step = "pending" -> Append(commits, Pending(tx))
               [] step = "activate" -> [n \in DOMAIN commits |-> [commits[n] EXCEPT !.active = @ \/ commits[n].tx = tx]]
               [] OTHER -> commits
\* writeAtomicFile: state.md is the old projection or the new one, whole.
Project(step, snapshot) == projection' = IF step = "project" THEN snapshot ELSE projection
CommitStep(w) ==
  /\ stateWriter[w].at = "commit"
  /\ LET step == CommitOrder[stateWriter[w].step]
         tx == stateWriter[w].tx
         snapshot == stateWriter[w].snapshot IN
     /\ versions' = IF step = "version" THEN [versions EXCEPT ![tx] = snapshot] ELSE versions
     /\ Named(step, tx)
     /\ Project(step, snapshot)
     /\ stateWriter' = [stateWriter EXCEPT ![w] =
          IF step = "project" THEN WriterIdle ELSE [stateWriter[w] EXCEPT !.step = @ + 1]]
  /\ UNCHANGED stateCrashes

WriterStops(w) ==
  /\ stateWriter[w].at = "commit"
  /\ stateCrashes < MaxStateCrashes /\ stateCrashes' = stateCrashes + 1
  /\ stateWriter' = [stateWriter EXCEPT ![w] = WriterIdle]
  /\ UNCHANGED <<versions, commits, projection>>

StateNext ==
  \E w \in StateWriter :
    \/ \E update \in Update : Apply(w, update)
    \/ CommitStep(w) \/ WriterStops(w)
StateSpec == StateInit /\ [][StateNext]_stateVars

-----------------------------------------------------------------------------
\* Every commit in place is whole, whoever else commits or stops, so a reader is
\* never sent past the newest one to an older snapshot; and the projection is of
\* a snapshot that was activated (commit, loadActive).
CommitsAreWhole ==
  /\ \A n \in Active : versions[commits[n].tx] # NoSnapshot
  /\ projection # NoSnapshot => \E n \in Active : versions[commits[n].tx] = projection
=============================================================================
