-------------------------- MODULE OrchestrationGate --------------------------
(***************************************************************************)
(* The durable orchestration state (agentorchestration): every hook of a   *)
(* runtime is a process that opens the one state file, binds its policy    *)
(* and asks for a decision.  A decision is taken under a lock file from    *)
(* the state read again there, leaves a breadcrumb, and is given to the    *)
(* caller once the state has been replaced.  Writes fail before or after   *)
(* their rename and a process can stop anywhere; its lock file stays.      *)
(***************************************************************************)
EXTENDS Naturals, Sequences

CONSTANTS GateProcess,
          Specialist,          \* agents Maestro may delegate to; each is its own scope
          Branch,
          TailLimit,           \* MaximumBreadcrumbTail
          MaxTrail,
          MaxGateFaults        \* bounds failed writes and kills together

\* The last breadcrumb is kept, and no hook is the mark of a free lock.
ASSUME GateAssumption == TailLimit \in Nat \ {0} /\ "free" \notin GateProcess

VARIABLES durableState, stateLock,
          process,             \* each process: where it is, its call
          aged,                \* the branch has not been updated for the recovery age
          told,                \* history: the permissions callers were told of
          gateFaults

gateVars == <<durableState, stateLock, process, aged, told, gateFaults>>

GateAgent == {"maestro"} \cup Specialist
Policy == {"first", "second"}
\* The policy is known by the digest of its grants: the same agents, other capabilities.

EmptyState == [policy |-> "none", branch |-> "none", root |-> "none", epoch |-> 0, seq |-> 0, tail |-> << >>]
Missing == [EmptyState EXCEPT !.policy = "missing"]
NoEvent == [kind |-> "none", actor |-> "none", target |-> "none", branch |-> "none", resource |-> "none"]
Closed == [at |-> "idle", bound |-> "none", call |-> "none", policy |-> "none", fence |-> 0, out |-> EmptyState, allow |-> FALSE]

GateInit ==
  /\ durableState = Missing /\ stateLock = "free"
  /\ process = [p \in GateProcess |-> Closed]
  /\ aged = FALSE /\ told = {} /\ gateFaults = 0

Idle(p) == process[p].at = "idle"
Moves(p, next) == process' = [process EXCEPT ![p] = next]
Rests(p) == Moves(p, [Closed EXCEPT !.bound = process[p].bound])

-----------------------------------------------------------------------------
\* validateSnapshot: a root with its branch, and a breadcrumb tail within its limit,
\* contiguous and current.
ValidSnapshot(s) ==
  /\ (s.branch = "none") = (s.root = "none")
  /\ Len(s.tail) <= TailLimit
  /\ \A i \in 1..Len(s.tail) : s.tail[i].seq = s.seq - Len(s.tail) + i

\* refreshLocked: what the file holds, when it is there.  A copy in memory is never
\* used before it has been read again, so the model keeps none.
Refreshed == IF durableState # Missing THEN durableState ELSE EmptyState

-----------------------------------------------------------------------------
\* The calls, up to the lock.  EnsureDurableState: only for a file that is not there.
EnsureDurableState(p) ==
  /\ Idle(p) /\ durableState = Missing
  /\ Moves(p, [Closed EXCEPT !.at = "waiting", !.call = "ensure"])
  /\ UNCHANGED <<durableState, stateLock, aged, told, gateFaults>>

\* NewDurableStateStore opens a valid file or none; NewAdapter binds the policy.
NewDurableStateStore == ValidSnapshot(Refreshed)
NewAdapter(p, policy) ==
  /\ Idle(p) /\ process[p].bound = "none" /\ NewDurableStateStore
  /\ Moves(p, [Closed EXCEPT !.at = "waiting", !.call = "bind", !.policy = policy])
  /\ UNCHANGED <<durableState, stateLock, aged, told, gateFaults>>

\* Handle: the helpers for tools and for the end of a branch add the fence epoch of a
\* snapshot they take before the lock.  What is asked is chosen below, under the lock:
\* it depends on nothing another process does.
Handle(p) ==
  /\ Idle(p) /\ process[p].bound # "none" /\ durableState.seq < MaxTrail
  /\ \E fence \in {0, Refreshed.epoch} :
       Moves(p, [process[p] EXCEPT !.at = "waiting", !.call = "handle", !.fence = fence])
  /\ UNCHANGED <<durableState, stateLock, aged, told, gateFaults>>
RecoverStale(p) ==
  /\ Idle(p) /\ process[p].bound # "none" /\ aged
  /\ Moves(p, [process[p] EXCEPT !.at = "waiting", !.call = "recover"])
  /\ UNCHANGED <<durableState, stateLock, aged, told, gateFaults>>

\* AuthorizeActiveRoot decides under the lock and writes nothing.
AuthorizeActiveRoot(p) ==
  /\ Idle(p) /\ process[p].bound # "none"
  /\ Moves(p, [process[p] EXCEPT !.at = "waiting", !.call = "authorize"])
  /\ UNCHANGED <<durableState, stateLock, aged, told, gateFaults>>

\* acquireStateFileLock: created exclusively, or given up after two seconds.
\* Mutant: after the wait the lock is taken over.
LockFreeAlways == TRUE
LockFree == stateLock = "free"
Acquire(p) ==
  /\ process[p].at = "waiting" /\ LockFree
  /\ stateLock' = p /\ Moves(p, [process[p] EXCEPT !.at = "holding"])
  /\ UNCHANGED <<durableState, aged, told, gateFaults>>
LockBusy(p) ==
  /\ process[p].at = "waiting" /\ ~LockFree /\ Rests(p)
  /\ UNCHANGED <<durableState, stateLock, aged, told, gateFaults>>

-----------------------------------------------------------------------------
\* The decisions.  AllowsDelegation: from the hub, at depth one, to its specialists.
\* guardTool: a canonical resource below the prefix of a grant for this tool.
Resource == {"within_grant", "outside", "not_canonical"}
Granted(resource) == resource = "within_grant"
StartsBranch(s, e) == s.branch = "none" /\ e.actor = "maestro" /\ e.target \in Specialist
UsesTool(s, e) == s.branch # "none" /\ e.branch = s.branch /\ e.actor = s.root /\ Granted(e.resource)
FinishesBranch(s, e) == s.branch # "none" /\ e.branch = s.branch /\ e.actor = s.root
Allowed(s, e) ==
  CASE e.kind = "branch_start"  -> StartsBranch(s, e)
    [] e.kind = "tool_request"  -> UsesTool(s, e)
    [] e.kind = "branch_finish" -> FinishesBranch(s, e)
    [] OTHER -> FALSE                     \* no child can start, so none finishes

\* appendBreadcrumb keeps the last ones.
WithBreadcrumb(s, p, e, allow) ==
  LET tail == Append(s.tail, [seq |-> s.seq + 1, by |-> p, kind |-> e.kind, allowed |-> allow, epoch |-> s.epoch]) IN
  [s EXCEPT !.seq = s.seq + 1,
            !.tail = IF Len(tail) > TailLimit THEN Tail(tail) ELSE tail]
Transition(s, e) ==
  IF ~Allowed(s, e) THEN s ELSE
  CASE e.kind = "branch_start"  -> [s EXCEPT !.branch = e.branch, !.root = e.target, !.epoch = s.epoch + 1]
    [] e.kind = "branch_finish" -> [s EXCEPT !.branch = "none", !.root = "none"]
    [] OTHER -> s

\* Under the lock: the state is read again, a stale fence is refused before anything
\* is written, and the rest goes to the file with its breadcrumb.
StaleFence(p, e) == e.kind # "branch_start" /\ process[p].fence # 0 /\ process[p].fence # Refreshed.epoch
Writes(p, out, allow) == Moves(p, [process[p] EXCEPT !.at = "writing", !.fence = 0, !.out = out, !.allow = allow])
Refuses(p) == Moves(p, [process[p] EXCEPT !.at = "unlocking", !.fence = 0, !.policy = "none", !.call = "done"])
Deciding(p, call) ==
  /\ process[p].at = "holding" /\ process[p].call = call /\ ValidSnapshot(Refreshed)
  /\ UNCHANGED <<durableState, stateLock, aged, told, gateFaults>>
DecideEnsure(p) ==
  /\ Deciding(p, "ensure")
  /\ IF durableState = Missing THEN Writes(p, EmptyState, FALSE) ELSE Refuses(p)
DecideBind(p) ==
  LET wanted == process[p].policy IN
  /\ Deciding(p, "bind")
  /\ CASE Refreshed.policy = "none" -> Writes(p, [Refreshed EXCEPT !.policy = wanted], FALSE)
       [] Refreshed.policy = wanted -> Moves(p, [Closed EXCEPT !.at = "unlocking", !.bound = wanted, !.call = "done"])
       [] OTHER -> Refuses(p)
DecideRecover(p) ==
  /\ Deciding(p, "recover")
  /\ IF Refreshed.branch # "none" /\ aged
     THEN Writes(p, [Refreshed EXCEPT !.branch = "none", !.root = "none"], FALSE) ELSE Refuses(p)
DecideAuthorize(p) == Deciding(p, "authorize") /\ Refuses(p)
DecideHandle(p, e) ==
  /\ Deciding(p, "handle")
  /\ IF StaleFence(p, e) THEN Refuses(p)
     ELSE Writes(p, WithBreadcrumb(Transition(Refreshed, e), p, e, Allowed(Refreshed, e)), Allowed(Refreshed, e))

\* persistLocked and the answer; a failure is told as a denial, though the file may have changed.
Persist(p) ==
  LET c == process[p]  last == c.out.tail[Len(c.out.tail)] IN
  /\ c.at = "writing" /\ durableState' = c.out
  /\ Moves(p, [c EXCEPT !.at = "unlocking", !.call = "done", !.policy = "none", !.out = EmptyState, !.allow = FALSE,
                        !.bound = IF c.call = "bind" THEN c.out.policy ELSE @])
  /\ told' = IF c.allow THEN told \cup {last} ELSE told
  /\ aged' = (aged /\ ~(c.call = "recover" \/ c.allow))
  /\ UNCHANGED <<stateLock, gateFaults>>
PersistFails(p) ==
  /\ process[p].at = "writing" /\ gateFaults < MaxGateFaults
  /\ gateFaults' = gateFaults + 1
  /\ \/ UNCHANGED durableState
     \/ durableState' = process[p].out               \* the directory sync after the rename
  /\ Moves(p, [process[p] EXCEPT !.at = "unlocking", !.call = "done", !.policy = "none", !.out = EmptyState, !.allow = FALSE])
  /\ UNCHANGED <<stateLock, aged, told>>
ReleaseStateLock(p) ==
  /\ process[p].at = "unlocking" /\ Rests(p)
  /\ stateLock' = IF stateLock = p THEN "free" ELSE stateLock
  /\ UNCHANGED <<durableState, aged, told, gateFaults>>

-----------------------------------------------------------------------------
\* Time passes without an update; a hook process ends, or is killed in a call.
Ages ==
  /\ durableState.branch # "none" /\ ~aged /\ aged' = TRUE
  /\ UNCHANGED <<durableState, stateLock, process, told, gateFaults>>
ProcessEnds(p) ==
  /\ Idle(p) /\ process[p].bound # "none" /\ Moves(p, Closed)
  /\ UNCHANGED <<durableState, stateLock, aged, told, gateFaults>>
ProcessKilled(p) ==
  /\ ~Idle(p) /\ gateFaults < MaxGateFaults /\ gateFaults' = gateFaults + 1
  /\ Moves(p, Closed)
  /\ UNCHANGED <<durableState, stateLock, aged, told>>

Delegating(actor, target, branch) ==
  [NoEvent EXCEPT !.kind = "branch_start", !.actor = actor, !.target = target, !.branch = branch]
UsingTool(actor, branch, resource) ==
  [NoEvent EXCEPT !.kind = "tool_request", !.actor = actor, !.branch = branch, !.resource = resource]
Reporting(kind, actor, branch) == [NoEvent EXCEPT !.kind = kind, !.actor = actor, !.branch = branch]
Event ==
  {Delegating(a, t, b) : a \in GateAgent, t \in Specialist, b \in Branch}
  \cup {UsingTool(a, b, r) : a \in Specialist, b \in Branch, r \in Resource}
  \cup {Reporting(k, a, b) : k \in {"child_start", "child_finish", "branch_finish"}, a \in Specialist, b \in Branch}

GateNext ==
  \/ Ages
  \/ \E p \in GateProcess :
       \/ EnsureDurableState(p) \/ RecoverStale(p) \/ Acquire(p) \/ LockBusy(p)
       \/ Handle(p) \/ AuthorizeActiveRoot(p)
       \/ DecideEnsure(p) \/ DecideBind(p) \/ DecideRecover(p) \/ DecideAuthorize(p)
       \/ Persist(p) \/ PersistFails(p) \/ ReleaseStateLock(p) \/ ProcessEnds(p) \/ ProcessKilled(p)
       \/ \E policy \in Policy : NewAdapter(p, policy)
       \/ \E e \in Event : DecideHandle(p, e)

GateSpec == GateInit /\ [][GateNext]_gateVars

-----------------------------------------------------------------------------
\* Handle and its breadcrumbs: whatever hooks, failed writes and kills interleave,
\* every permission a caller was given stands in the durable trail at its own number for
\* as long as the tail reaches back, and no two callers were both told that they
\* opened the branch of one fence epoch.
DecisionsStand ==
  /\ \A d \in told : d.seq <= durableState.seq
  /\ \A d \in told : d.seq > durableState.seq - Len(durableState.tail) =>
       durableState.tail[d.seq - (durableState.seq - Len(durableState.tail))] = d
  /\ \A c, d \in told : c.kind = "branch_start" /\ d.kind = "branch_start" /\ c.epoch = d.epoch => c = d
=============================================================================
