----------------------------- MODULE NativeFlow -----------------------------
(***************************************************************************)
(* The order of the managed specialists within one turn of a native        *)
(* session.  Hooks report the start and the stop of a specialist, retried  *)
(* by the host; each reads the state file, checks the route and replaces   *)
(* the file under a lock file that names its owner.  The lock of a process *)
(* that has ended is removed by the next hook, and two hooks may do so at  *)
(* the same time.                                                          *)
(***************************************************************************)
EXTENDS Naturals, Sequences

CONSTANTS HookProcess, AgentType, TransitionLimit, MaxHookCrashes

VARIABLES flow,                \* the state file of the session
          flowLock,            \* the owner in the lock file, or Ended
          hook,                \* what each hook process is doing
          hookCrashes,
          stops,               \* history: specialists that stopped in this turn
          overlap              \* history: a hook removed the lock of a live one

flowVars == <<flow, flowLock, hook, hookCrashes, stops, overlap>>

Pristine == [active |-> "none", account |-> FALSE, framed |-> FALSE, case |-> FALSE,
             validated |-> FALSE, health |-> FALSE, count |-> 0, last |-> "none", event |-> "none"]
HookIdle == [at |-> "idle", call |-> [event |-> "none", agent |-> "none"], next |-> Pristine]
Unlocked == "unlocked"
Ended == "ended"            \* the owner has ended without unlocking

\* The name of a process is no state of the lock file.
ASSUME HookAssumption == Unlocked \notin HookProcess /\ Ended \notin HookProcess

FlowInit == /\ flow = Pristine /\ flowLock = Unlocked /\ hookCrashes = 0
            /\ hook = [h \in HookProcess |-> HookIdle] /\ stops = <<>> /\ overlap = FALSE

-----------------------------------------------------------------------------
\* Start: one specialist at a time, in the order of the route.
Startable(s, agent) ==
  /\ s.active = "none" /\ s.count < TransitionLimit
  /\ CASE agent = "pa-expert" -> ~s.health
       [] agent = "darwin"    -> ~(s.account \/ s.case \/ s.framed)
       [] agent = "client-account-agent" ->
            /\ ~s.health
            /\ IF s.account THEN s.framed /\ s.case /\ ~s.validated ELSE ~s.case
       [] agent = "case-agent" -> ~s.health /\ ~s.case /\ (s.account => s.framed)
       [] agent = "yoda"       -> ~s.health /\ s.case /\ (s.account => s.validated)
       [] OTHER -> FALSE
Started(s, agent) ==
  [s EXCEPT !.active = agent, !.event = "start", !.last = agent, !.count = @ + 1,
            !.health = @ \/ agent = "darwin", !.account = @ \/ agent = "client-account-agent"]

\* Stop: the first return of the account agent frames the route, the second one
\* validates it; a repeated stop is no error.
\* Mutant: its first return validates already.
StoppedEarly(s, agent) ==
  [s EXCEPT !.active = "none", !.event = "stop", !.last = agent, !.count = @ + 1,
            !.framed = @ \/ agent = "client-account-agent",
            !.validated = @ \/ agent = "client-account-agent",
            !.case = @ \/ agent = "case-agent"]
Stopped(s, agent) ==
  [s EXCEPT !.active = "none", !.event = "stop", !.last = agent, !.count = @ + 1,
            !.framed = @ \/ agent = "client-account-agent",
            !.validated = @ \/ (agent = "client-account-agent" /\ s.framed),
            !.case = @ \/ agent = "case-agent"]

\* What each hook makes of the state it read, an error being no change.
Outcomes(s, call) ==
  CASE call.event = "begin" ->
         IF s.active = "none" THEN {Pristine} ELSE {}
    [] call.event = "start" ->
         IF s.active = call.agent /\ s.event = "start" THEN {s}
         ELSE IF Startable(s, call.agent) THEN {Started(s, call.agent)} ELSE {}
    [] call.event = "stop" ->
         IF s.active = "none" /\ s.event = "stop" /\ s.last = call.agent THEN {s}
         ELSE IF s.active = call.agent THEN {Stopped(s, call.agent)} ELSE {}

Calls == {[event |-> "begin", agent |-> "none"]}
           \cup {[event |-> e, agent |-> a] : e \in {"start", "stop"}, a \in AgentType}

-----------------------------------------------------------------------------
Steps(h, next) == hook' = [hook EXCEPT ![h] = next]

\* acquireLock: the file is created exclusively ...
Lock(h, call) ==
  /\ hook[h] = HookIdle
  /\ flowLock = Unlocked /\ flowLock' = h
  /\ Steps(h, [HookIdle EXCEPT !.at = "read", !.call = call])
  /\ UNCHANGED <<flow, hookCrashes, stops, overlap>>
\* ... or holds an owner that has ended, which is read twice and removed.
Suspect(h, call) ==
  /\ hook[h] = HookIdle /\ flowLock = Ended
  /\ Steps(h, [HookIdle EXCEPT !.at = "remove", !.call = call])
  /\ UNCHANGED <<flow, flowLock, hookCrashes, stops, overlap>>
RemoveStale(h) ==
  /\ hook[h].at = "remove"
  /\ IF flowLock = Unlocked THEN Steps(h, HookIdle) /\ UNCHANGED flowLock
     ELSE flowLock' = Unlocked /\ Steps(h, [hook[h] EXCEPT !.at = "create"])
  /\ overlap' = (overlap \/ flowLock \in HookProcess)
  /\ UNCHANGED <<flow, hookCrashes, stops>>
CreateAgain(h) ==
  /\ hook[h].at = "create"
  /\ IF flowLock = Unlocked
     THEN flowLock' = h /\ Steps(h, [hook[h] EXCEPT !.at = "read"])
     ELSE Steps(h, HookIdle) /\ UNCHANGED flowLock
  /\ UNCHANGED <<flow, hookCrashes, stops, overlap>>

\* update reads the state, computes the next one and replaces the file.
Read(h) ==
  /\ hook[h].at = "read"
  /\ \/ \E next \in Outcomes(flow, hook[h].call) : Steps(h, [hook[h] EXCEPT !.at = "replace", !.next = next])
     \/ Outcomes(flow, hook[h].call) = {} /\ Steps(h, [hook[h] EXCEPT !.at = "unlock"])
  /\ UNCHANGED <<flow, flowLock, hookCrashes, stops, overlap>>
Replace(h) ==
  /\ hook[h].at = "replace" /\ flow' = hook[h].next
  /\ stops' = IF flow' = Pristine THEN <<>>
              ELSE IF hook[h].call.event = "stop" /\ flow' # flow THEN Append(stops, hook[h].call.agent)
              ELSE stops
  /\ Steps(h, [hook[h] EXCEPT !.at = "unlock"])
  /\ UNCHANGED <<flowLock, hookCrashes, overlap>>
\* The lock file is removed whoever owns it now.
Unlock(h) ==
  /\ hook[h].at = "unlock" /\ flowLock' = Unlocked /\ Steps(h, HookIdle)
  /\ UNCHANGED <<flow, hookCrashes, stops, overlap>>

HookEnds(h) ==
  /\ hook[h] # HookIdle /\ hookCrashes < MaxHookCrashes
  /\ hookCrashes' = hookCrashes + 1 /\ Steps(h, HookIdle)
  /\ flowLock' = IF flowLock = h THEN Ended ELSE flowLock
  /\ UNCHANGED <<flow, stops, overlap>>

\* Bound: after an overlap no further hook is started.
FlowNext ==
  \E h \in HookProcess :
    \/ ~overlap /\ \E call \in Calls : Lock(h, call) \/ Suspect(h, call)
    \/ RemoveStale(h) \/ CreateAgain(h) \/ Read(h) \/ Replace(h) \/ Unlock(h) \/ HookEnds(h)
FlowSpec == FlowInit /\ [][FlowNext]_flowVars

-----------------------------------------------------------------------------
\* Finalize lets the turn end.
Finalizable == flow.active = "none" /\ (flow.account => flow.case /\ flow.validated)

\* A turn on the strategic route ends only after the account agent framed it,
\* the case agent worked, and the account agent validated the result, in this
\* order and within this turn: across retried hooks, hooks that stop half-way
\* and the removal of their locks, unless that removal hit the lock of a live one.
FinishedInOrder ==
  ~overlap /\ Finalizable /\ flow.account =>
    \E a, b, c \in DOMAIN stops :
      /\ a < b /\ b < c
      /\ stops[a] = "client-account-agent" /\ stops[b] = "case-agent"
      /\ stops[c] = "client-account-agent"
=============================================================================
