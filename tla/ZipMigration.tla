---------------------------- MODULE ZipMigration ----------------------------
(***************************************************************************)
(* The migration of a portable workspace from data/ to brain/.  A run      *)
(* reads state.json, then the files of data/ one after another; an attempt *)
(* is planned once, copied file by file with hard links, validated against *)
(* both trees and committed under a receipt; --rollback revokes it.  No    *)
(* lock excludes a second run or the owner, and a run that fails writes    *)
(* the state it ends in over whatever state there is, unless it read a     *)
(* committed one.  Content is a version number; an edit of the owner never *)
(* brings back the bytes of an earlier version.                            *)
(***************************************************************************)
EXTENDS Integers, Sequences, SequencesExt

CONSTANTS Run, Sources,        \* the files of data/, in plan order
          Attempt,             \* attempt identifiers
          MaxStarts,           \* bound on the runs that are started
          MaxAuthoring         \* bound on the edits of the owner

\* The files that targetFor finds a place for in brain/, each a place of its own:
\* plan refuses two files of one target.
Source == ToSet(Sources)
NoAttempt == "none"
\* Without a file in data/ there is nothing to migrate, nor without one that has a place.
ASSUME SourcesAssumption == Sources \in Seq(Source) /\ Sources # << >>
ASSUME AttemptAssumption == NoAttempt \notin Attempt

VARIABLES data, brain,         \* contents of the two trees
          unsafe,              \* data/ holds something an inventory refuses
          zipState,            \* state.json
          plans, receipts,     \* plan.json and receipt.json of each attempt
          run,                 \* what each run is doing
          starts, authored,    \* runs and edits of the owner so far
          revoked,             \* history: attempts that have been revoked
          trees,               \* history: every tree that data/ has been
          evolved              \* history: files of brain/ that the owner has edited since
                               \* the targets of the attempt were last found complete

zipVars == <<data, brain, unsafe, zipState, plans, receipts, run, starts, authored, revoked, trees, evolved>>

NotThere == -1
Mine == -2                     \* what the owner writes in brain/
Empty == [f \in Source |-> NotThere]
RunStopped == [at |-> "idle"]
Trees == <<data, brain, unsafe, authored, trees>>
Histories == <<revoked, evolved>>

ZipInit ==
  /\ data = [f \in Source |-> 0] /\ brain = Empty /\ unsafe = FALSE
  /\ zipState = [state |-> "planned", attempt |-> NoAttempt]     \* no file: baseResult
  /\ plans = [a \in Attempt |-> Empty] /\ receipts = [a \in Attempt |-> "none"]
  /\ run = [r \in Run |-> RunStopped]
  /\ authored = 0 /\ starts = 0 /\ revoked = {} /\ trees = {data} /\ evolved = [a \in Attempt |-> Source]

-----------------------------------------------------------------------------
\* inventory: a link, a special file or a colliding name anywhere ends the run.
Refused == unsafe

Result(s, a) == [state |-> s, attempt |-> a]
At(r, at) == run[r].at = at
Becomes(r, next) == run' = [run EXCEPT ![r] = next]
Writing(s, a, then) == [at |-> "write", value |-> Result(s, a), attempt |-> a, then |-> then]
\* inventory of data/, the state that was read before it, and what is done with it;
\* left is still to be read, seen is what was.
Reading(s, a, goal, left, seen) ==
  [at |-> "inventory", value |-> s, attempt |-> a, goal |-> goal, left |-> left, seen |-> seen]
TreeRead(r, goal) == At(r, "inventory") /\ run[r].goal = goal /\ run[r].left = << >>

\* fingerprint: the tree that was read against the plan.
SourceDrift(r, a) == run[r].seen # plans[a]

\* Run's answer to an error: a partial result stays resumable unless something
\* drifted, everything else is blocked; only a committed result is not written.
Preserved(s) == s.state = "committed"
Fails(r, s, drift) ==
  IF Preserved(s) THEN Becomes(r, RunStopped)
  ELSE Becomes(r, Writing(IF s.state = "partial" /\ ~drift THEN "partial" ELSE "blocked",
                          s.attempt, "stop"))

\* validateTargets: what is there is planned, and unless partial all of it is.
\* Mutant: it looks at what is there, also when nothing may be missing.
TargetsPlanned(a, partial) == \A f \in Source : brain[f] \in {plans[a][f], NotThere}
TargetsMatch(a, partial) ==
  \A f \in Source : brain[f] = plans[a][f] \/ (partial /\ brain[f] = NotThere)

\* run with --rollback: revocation, or an error when the attempt is not this one.
Rollback(r, a) ==
  /\ At(r, "idle") /\ starts < MaxStarts /\ starts' = starts + 1
  /\ IF zipState.attempt = NoAttempt \/ Refused \/ zipState.attempt # a
     THEN Fails(r, zipState, FALSE)
     ELSE Becomes(r, Writing("rolled_back", a, "stop"))
  /\ UNCHANGED <<zipState, plans, receipts, Trees, Histories>>

\* run without options reads the state, then data/ file by file.
StartRun(r) ==
  /\ At(r, "idle") /\ starts < MaxStarts /\ starts' = starts + 1
  /\ Becomes(r, Reading(zipState, zipState.attempt, IF zipState.attempt = NoAttempt THEN "plan" ELSE "continue",
                        Sources, Empty))
  /\ UNCHANGED <<zipState, plans, receipts, Trees, Histories>>
ReadSource(r) ==
  /\ At(r, "inventory") /\ run[r].left # << >>
  /\ IF Refused THEN Fails(r, run[r].value, FALSE)
     ELSE LET f == Head(run[r].left) IN
          Becomes(r, Reading(run[r].value, run[r].attempt, run[r].goal, Tail(run[r].left),
                             [run[r].seen EXCEPT ![f] = data[f]]))
  /\ UNCHANGED <<starts, zipState, plans, receipts, Trees, Histories>>

\* A run on a revoked or committed attempt only reports; another one goes on with its
\* plan when both trees still fit.
Settled(s) == s.state \in {"rolled_back", "committed"}
Continue(r) ==
  /\ TreeRead(r, "continue")
  /\ LET a == run[r].attempt IN
     IF Settled(run[r].value) THEN Becomes(r, RunStopped)
     ELSE IF SourceDrift(r, a) THEN Fails(r, run[r].value, TRUE)
     ELSE IF ~TargetsMatch(a, TRUE) THEN Fails(r, Result("blocked", a), TRUE)
     ELSE Becomes(r, Writing("partial", a, "copy"))
  /\ UNCHANGED <<starts, zipState, plans, receipts, Trees, Histories>>

\* Without an attempt: brain/ is empty, and a plan of what was read is written under a
\* new identifier before the state that names it.
Plan(r, a) ==
  /\ TreeRead(r, "plan") /\ plans[a] = Empty
  /\ IF brain # Empty
     THEN Fails(r, run[r].value, FALSE) /\ UNCHANGED plans
     ELSE plans' = [plans EXCEPT ![a] = run[r].seen] /\ Becomes(r, Writing("planned", a, "partial"))
  /\ UNCHANGED <<starts, zipState, receipts, Trees, Histories>>

\* write of state.json, and what the run does after it.
Copying(a) == [at |-> "copy", attempt |-> a, todo |-> Sources]
WriteState(r) ==
  /\ At(r, "write")
  /\ zipState' = run[r].value
  /\ revoked' = IF run[r].value.state = "rolled_back" THEN revoked \cup {run[r].attempt} ELSE revoked
  /\ Becomes(r, CASE run[r].then = "partial" -> Writing("partial", run[r].attempt, "copy")
                  [] run[r].then = "copy" -> Copying(run[r].attempt)
                  [] run[r].then = "stop" -> RunStopped)
  /\ UNCHANGED <<starts, plans, receipts, evolved, Trees>>

\* copyEntry: a target that exists must be the planned one; for an absent one the
\* source is read again and must be as planned.
StageEntry(r) ==
  /\ At(r, "copy") /\ run[r].todo # << >>
  /\ LET f == Head(run[r].todo)
         a == run[r].attempt IN
     IF brain[f] = plans[a][f] THEN Becomes(r, [run[r] EXCEPT !.todo = Tail(@)])
     ELSE IF brain[f] # NotThere \/ data[f] # plans[a][f] THEN Fails(r, Result("partial", a), TRUE)
     ELSE Becomes(r, [at |-> "link", attempt |-> a, todo |-> run[r].todo, staged |-> data[f]])
  /\ UNCHANGED <<starts, zipState, plans, receipts, Trees, Histories>>
\* The staged bytes are linked to a target that is absent still; else, and when staging
\* fails, the attempt stays partial.
LinkEntry(r) ==
  /\ At(r, "link")
  /\ LET f == Head(run[r].todo) IN
     \/ /\ brain[f] = NotThere /\ brain' = [brain EXCEPT ![f] = run[r].staged]
        /\ \/ Becomes(r, [at |-> "copy", attempt |-> run[r].attempt, todo |-> Tail(run[r].todo)])
           \/ Fails(r, Result("partial", run[r].attempt), FALSE)      \* the staged file stays
     \/ Fails(r, Result("partial", run[r].attempt), FALSE) /\ UNCHANGED brain
  /\ UNCHANGED <<starts, zipState, plans, receipts, data, unsafe, authored, trees, Histories>>

\* The final inventory of data/, once all is copied.
Inventory(r) ==
  /\ At(r, "copy") /\ run[r].todo = << >>
  /\ Becomes(r, Reading(Result("partial", run[r].attempt), run[r].attempt, "commit", Sources, Empty))
  /\ UNCHANGED <<starts, zipState, plans, receipts, Trees, Histories>>

\* The fingerprint and all targets against the plan; the first target that is wrong has
\* drifted or is missing.  An earlier receipt must be whole and say the same; a torn one,
\* found or left by another run, ends this run with the state as it is.
Wrong(a) == SelectSeq(Sources, LAMBDA f : brain[f] # plans[a][f])
CreateReceipt(r) ==
  /\ TreeRead(r, "commit")
  /\ LET a == run[r].attempt IN
     \/ /\ SourceDrift(r, a) /\ Fails(r, run[r].value, TRUE)
        /\ UNCHANGED <<receipts, evolved>>
     \/ /\ ~SourceDrift(r, a) /\ ~TargetsMatch(a, FALSE)
        /\ Fails(r, run[r].value, brain[Head(Wrong(a))] # NotThere)
        /\ UNCHANGED <<receipts, evolved>>
     \/ /\ ~SourceDrift(r, a) /\ TargetsMatch(a, FALSE)
        /\ evolved' = [evolved EXCEPT ![a] = {}]
        /\ receipts' = [receipts EXCEPT ![a] = IF @ = "none" THEN "torn" ELSE @]
        /\ Becomes(r, CASE receipts[a] = "none" -> [at |-> "receipt", attempt |-> a]
                        [] receipts[a] = "torn" -> RunStopped
                        [] receipts[a] = "whole" -> Writing("committed", a, "stop"))
  /\ UNCHANGED <<starts, zipState, plans, revoked, Trees>>
\* The exclusively created receipt is written out before the state says committed.
WriteReceipt(r) ==
  /\ At(r, "receipt")
  /\ receipts' = [receipts EXCEPT ![run[r].attempt] = "whole"]
  /\ Becomes(r, Writing("committed", run[r].attempt, "stop"))
  /\ UNCHANGED <<starts, zipState, plans, Trees, Histories>>

\* The process stops; what it wrote stays, a receipt it was writing is torn.
Interrupted(r) ==
  /\ ~At(r, "idle") /\ Becomes(r, RunStopped)
  /\ UNCHANGED <<starts, zipState, plans, receipts, Trees, Histories>>

\* External: the owner edits data/ or brain/, or puts a link there and removes it.
Author ==
  /\ authored < MaxAuthoring /\ authored' = authored + 1
  /\ \/ \E f \in Source : data' = [data EXCEPT ![f] = @ + 1] /\ UNCHANGED <<brain, unsafe, evolved>>
     \/ \E f \in Source, v \in {Mine, NotThere} :
          /\ brain[f] # v /\ brain' = [brain EXCEPT ![f] = v]
          /\ evolved' = [a \in Attempt |-> evolved[a] \cup {f}] /\ UNCHANGED <<data, unsafe>>
     \/ unsafe' = ~unsafe /\ UNCHANGED <<data, brain, evolved>>
  /\ trees' = trees \cup {data'}
  /\ UNCHANGED <<starts, zipState, plans, receipts, run, revoked>>

ZipNext ==
  \/ \E r \in Run : \/ \E a \in Attempt : Rollback(r, a) \/ Plan(r, a)
                    \/ StartRun(r) \/ ReadSource(r) \/ Continue(r) \/ WriteState(r) \/ StageEntry(r) \/ LinkEntry(r)
                    \/ Inventory(r) \/ CreateReceipt(r) \/ WriteReceipt(r) \/ Interrupted(r)
  \/ Author
ZipSpec == ZipInit /\ [][ZipNext]_zipVars

-----------------------------------------------------------------------------
\* A committed attempt has a whole receipt, its plan is a tree that data/ was as a whole
\* at one moment, and every file of it is in brain/ as planned unless the owner has
\* edited it there since the validation: even though data/ is read file by file while
\* its owner edits it, runs of several attempts interleave, stop and resume, and a
\* stale state is written over a newer one (run, copyEntry, validateTargets).
CommittedIsSnapshot ==
  zipState.state = "committed" =>
    LET a == zipState.attempt IN
      /\ receipts[a] = "whole" /\ plans[a] \in trees
      /\ \A f \in Source : brain[f] = plans[a][f] \/ f \in evolved[a]

\* CONTRACT.md: "rolled_back never permits initialization".  An attempt that has
\* been revoked is not the committed one again.
RevocationStands == zipState.attempt \in revoked => zipState.state # "committed"
=============================================================================
