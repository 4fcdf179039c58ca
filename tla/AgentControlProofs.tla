-------------------------- MODULE AgentControlProofs -------------------------
(***************************************************************************)
(* What is proved of the ways in which an agent is kept under control, for *)
(* any number of processes: the set-up authorization, the order of the     *)
(* specialists in a native session, the fence of a maintenance occurrence, *)
(* the decisions of the orchestration gate, Maestro's quality loop and its *)
(* dispatch receipts, and the confirmations of external actions.           *)
(***************************************************************************)
EXTENDS SetupAuthorization, NativeFlow, MaintenanceWorker, OrchestrationGate,
        QualityLoop, DispatchBoundary, ActionConfirmation, FiniteSetTheorems, TLAPS

-----------------------------------------------------------------------------
(***************************************************************************)
(* SetupAuthorization.  GrantIsConfirmed alone is not inductive: a call    *)
(* carries the grant it will write across steps of the other calls, so the *)
(* invariant also says of every pending write that it descends from the    *)
(* confirmation it carries.                                                *)
(***************************************************************************)
\* g has everything of the confirmation o, and its source unless o names none.
Descends(g, o) ==
  /\ g \in Grant /\ o \in Grant
  /\ g.path = o.path /\ g.identity = o.identity /\ g.issued = o.issued
  /\ o.source \in {Unbound, g.source}

Writing == [at : {"write"}, grant : Grant, origin : Grant]

\* A call is at rest or about to write a grant that descends from its origin.
CallerSound(c) ==
  \/ caller[c] = AtRest
  \/ caller[c] \in Writing /\ Descends(caller[c].grant, caller[c].origin)

SetupInv ==
  /\ tick \in Nat
  /\ DOMAIN caller = Caller
  /\ grant = NoGrant \/ Descends(grant, origin)
  /\ \A c \in Caller : CallerSound(c)

-----------------------------------------------------------------------------
\* What is not a grant is no descendant (validateGrant).
LEMMA NoGrantIsNoGrant == NoGrant \notin Grant
  BY DEF NoGrant, Grant

\* A call that rests is not about to write.
LEMMA RestIsNoWrite == AtRest.at # "write"
  BY DEF AtRest

\* Before any call the grant file is missing.
LEMMA SetupInvInit == SetupInit => SetupInv
  BY DEF SetupInit, SetupInv, CallerSound

\* Authorize puts a confirmation of its own into the call, its own origin.
LEMMA AuthorizeSound ==
  ASSUME SetupInv, NEW c \in Caller, NEW req \in SetupRequest, NEW identity \in Principal,
         Authorize(c, req, identity)
  PROVE  SetupInv'
<1> DEFINE given == [path |-> req.path, source |-> req.source,
                      identity |-> identity, issued |-> tick]
<1>1. given \in Grant
  BY DEF SetupRequest, Grant, SetupInv
<1>2. Descends(given, given)
  BY <1>1 DEF Descends
<1>3. caller' = [caller EXCEPT ![c] = [at |-> "write", grant |-> given, origin |-> given]]
  BY DEF Authorize
<1>4. UNCHANGED <<grant, origin, tick>>
  BY DEF Authorize
<1>5. DOMAIN caller' = Caller
  BY <1>3 DEF SetupInv
<1> HIDE DEF given
<1>6. ASSUME NEW d \in Caller PROVE CallerSound(d)'
  <2>1. CASE d = c
    <3>1. caller'[d] = [at |-> "write", grant |-> given, origin |-> given]
      BY <1>3, <2>1 DEF SetupInv
    <3> QED BY <3>1, <1>1, <1>2 DEF CallerSound, Writing, Descends
  <2>2. CASE d # c
    <3>1. caller'[d] = caller[d]
      BY <1>3, <2>2 DEF SetupInv
    <3> QED BY <3>1 DEF SetupInv, CallerSound, Descends
  <2> QED BY <2>1, <2>2
<1> QED BY <1>4, <1>5, <1>6 DEF SetupInv, Descends

\* BindSelectedSource gives a source only to a grant that has none, so that the
\* result descends from the same confirmation.
LEMMA BindSound ==
  ASSUME SetupInv, NEW c \in Caller, NEW req \in SetupRequest, NEW identity \in Principal,
         BindSelectedSource(c, req, identity)
  PROVE  SetupInv'
<1> DEFINE bound == [grant EXCEPT !.source = req.source]
<1>1. Descends(grant, origin)
  BY NoGrantIsNoGrant DEF SetupInv, BindSelectedSource, Found
<1>2. grant.source = Unbound
  BY DEF BindSelectedSource, MayBind
<1>3. bound \in Grant
  BY <1>1 DEF Descends, Grant, SetupRequest
<1>4. /\ bound.path = grant.path /\ bound.identity = grant.identity
      /\ bound.issued = grant.issued
  BY <1>1 DEF Descends, Grant
<1>5. origin.source = Unbound
  BY <1>1, <1>2 DEF Descends
<1>6. Descends(bound, origin)
  BY <1>1, <1>3, <1>4, <1>5 DEF Descends
<1>7. caller' = [caller EXCEPT ![c] = [at |-> "write", grant |-> bound, origin |-> origin]]
  BY DEF BindSelectedSource
<1>8. UNCHANGED <<grant, origin, tick>>
  BY DEF BindSelectedSource
<1>9. DOMAIN caller' = Caller
  BY <1>7 DEF SetupInv
<1> HIDE DEF bound
<1>10. ASSUME NEW d \in Caller PROVE CallerSound(d)'
  <2>1. CASE d = c
    <3>1. caller'[d] = [at |-> "write", grant |-> bound, origin |-> origin]
      BY <1>7, <2>1 DEF SetupInv
    <3> QED BY <3>1, <1>1, <1>6 DEF CallerSound, Writing, Descends
  <2>2. CASE d # c
    <3>1. caller'[d] = caller[d]
      BY <1>7, <2>2 DEF SetupInv
    <3> QED BY <3>1 DEF SetupInv, CallerSound, Descends
  <2> QED BY <2>1, <2>2
<1> QED BY <1>8, <1>9, <1>10 DEF SetupInv, Descends

\* The rename installs a grant together with the confirmation it descends from,
\* over whatever was written since the call read.
LEMMA WriteSound ==
  ASSUME SetupInv, NEW c \in Caller, WriteGrant(c)
  PROVE  SetupInv'
<1>1. Descends(caller[c].grant, caller[c].origin)
  BY RestIsNoWrite DEF SetupInv, CallerSound, WriteGrant
<1>2. Descends(grant', origin')
  BY <1>1 DEF WriteGrant
<1>3. DOMAIN caller' = Caller /\ tick' = tick
  BY DEF WriteGrant, SetupInv
<1>4. ASSUME NEW d \in Caller PROVE CallerSound(d)'
  <2>1. caller'[d] = AtRest \/ caller'[d] = caller[d]
    BY DEF WriteGrant, SetupInv
  <2> QED BY <2>1 DEF SetupInv, CallerSound, Descends
<1> QED BY <1>2, <1>3, <1>4 DEF SetupInv, Descends

\* A call that stops, and time, leave the grant file alone.
LEMMA StopSound ==
  ASSUME SetupInv, NEW c \in Caller, CallerStops(c)
  PROVE  SetupInv'
<1>1. DOMAIN caller' = Caller /\ UNCHANGED <<grant, origin, tick>>
  BY DEF CallerStops, SetupInv
<1>2. ASSUME NEW d \in Caller PROVE CallerSound(d)'
  <2>1. caller'[d] = AtRest \/ caller'[d] = caller[d]
    BY DEF CallerStops, SetupInv
  <2> QED BY <2>1 DEF SetupInv, CallerSound, Descends
<1> QED BY <1>1, <1>2 DEF SetupInv, Descends

\* No step of any caller breaks the invariant.
LEMMA SetupInvStep == SetupInv /\ [SetupNext]_setupVars => SetupInv'
<1> SUFFICES ASSUME SetupInv, [SetupNext]_setupVars PROVE SetupInv'
  OBVIOUS
<1>1. CASE TimePasses
  BY <1>1 DEF TimePasses, SetupInv, CallerSound, Descends
<1>2. ASSUME NEW c \in Caller, NEW req \in SetupRequest, NEW identity \in Principal,
             Authorize(c, req, identity)
      PROVE SetupInv'
  BY <1>2, AuthorizeSound
<1>3. ASSUME NEW c \in Caller, NEW req \in SetupRequest, NEW identity \in Principal,
             BindSelectedSource(c, req, identity)
      PROVE SetupInv'
  BY <1>3, BindSound
<1>4. ASSUME NEW c \in Caller, WriteGrant(c) PROVE SetupInv'
  BY <1>4, WriteSound
<1>5. ASSUME NEW c \in Caller, CallerStops(c) PROVE SetupInv'
  BY <1>5, StopSound
<1>6. CASE UNCHANGED setupVars
  BY <1>6 DEF setupVars, SetupInv, CallerSound, Descends
<1> QED BY <1>1, <1>2, <1>3, <1>4, <1>5, <1>6 DEF SetupNext

\* A grant that descends from its origin is the origin, but for its source.
LEMMA DescendantIsConfirmed == SetupInv => GrantIsConfirmed
<1> SUFFICES ASSUME SetupInv, grant # NoGrant PROVE GrantIsConfirmed
  BY DEF GrantIsConfirmed
<1>1. Descends(grant, origin)
  BY DEF SetupInv
<1>2. [grant EXCEPT !.source = origin.source] = origin
  BY <1>1 DEF Descends, Grant
<1> QED BY <1>1, <1>2 DEF GrantIsConfirmed, Descends

\* Whatever calls of Authorize and BindSelectedSource overlap or stop, the grant in
\* force has the path, identity and time of its confirmation, and its source too
\* unless that confirmation named none.
THEOREM SetupGrantConfirmed == SetupSpec => []GrantIsConfirmed
<1>1. SetupSpec => []SetupInv
  BY SetupInvInit, SetupInvStep, PTL DEF SetupSpec
<1> QED BY <1>1, DescendantIsConfirmed, PTL

-----------------------------------------------------------------------------
(***************************************************************************)
(* NativeFlow.  Until a hook removes the lock of a live one, the hook that *)
(* holds the lock file is the only one between its read and its unlock, so *)
(* the state that it is about to put in place is one that Start, Stop or   *)
(* Begin make of the state still in the file; and the flags of that file   *)
(* tell which specialists have stopped, in which order.                    *)
(***************************************************************************)
Account == "client-account-agent"
Case == "case-agent"
Holding == {"read", "replace", "unlock"}
Holds(h) == hook[h].at \in Holding => flowLock = h
NextCurrent(h) == hook[h].at = "replace" => hook[h].next \in Outcomes(flow, hook[h].call)
Flows == [active : AgentType \cup {"none"}, account : BOOLEAN, framed : BOOLEAN, case : BOOLEAN,
          validated : BOOLEAN, health : BOOLEAN, count : Nat, last : AgentType \cup {"none"},
          event : {"none", "start", "stop"}]
HookCall == Calls \cup {[event |-> "none", agent |-> "none"]}
HookState == [at : Holding \cup {"idle", "remove", "create"}, call : HookCall, next : Flows]
HookTyped(h) == hook[h] \in HookState /\ (hook[h].at # "idle" => hook[h].call \in Calls)

\* The flags of the state and the specialists that have stopped in the turn.
RouteOf(s) ==
  /\ s.framed => s.account
  /\ s.active = Account => s.account /\ (s.framed => s.case)
  /\ s.active = Case /\ s.account => s.framed
  /\ s.validated => s.framed
Framed(seq) == \E a \in DOMAIN seq : seq[a] = Account
Worked(seq) == \E a, b \in DOMAIN seq : a < b /\ seq[a] = Account /\ seq[b] = Case
Validated(seq) ==
  \E a, b, c \in DOMAIN seq : a < b /\ b < c /\ seq[a] = Account /\ seq[b] = Case /\ seq[c] = Account
Accounted(s, seq) ==
  /\ seq \in Seq(AgentType \cup {"none"})
  /\ s.framed => Framed(seq)
  /\ s.account /\ s.case => Worked(seq)
  /\ s.validated => Validated(seq)

FlowInv ==
  /\ overlap \in BOOLEAN
  /\ ~overlap =>
       /\ flow \in Flows /\ DOMAIN hook = HookProcess
       /\ RouteOf(flow) /\ Accounted(flow, stops)
       /\ \A h \in HookProcess : HookTyped(h) /\ Holds(h) /\ NextCurrent(h)

\* What a longer history still tells.
LEMMA OneMoreStop ==
  ASSUME NEW S, NEW seq \in Seq(S), NEW agent \in S
  PROVE  /\ Append(seq, agent) \in Seq(S)
         /\ Framed(seq) => Framed(Append(seq, agent))
         /\ Worked(seq) => Worked(Append(seq, agent))
         /\ Validated(seq) => Validated(Append(seq, agent))
         /\ agent = Account => Framed(Append(seq, agent))
         /\ agent = Case /\ Framed(seq) => Worked(Append(seq, agent))
         /\ agent = Account /\ Worked(seq) => Validated(Append(seq, agent))
<1> DEFINE longer == Append(seq, agent)
<1>1. /\ longer \in Seq(S) /\ DOMAIN seq \subseteq DOMAIN longer /\ Len(seq) + 1 \in DOMAIN longer
      /\ longer[Len(seq) + 1] = agent
      /\ \A i \in DOMAIN seq : longer[i] = seq[i] /\ i \in Nat /\ i < Len(seq) + 1
  OBVIOUS
<1> HIDE DEF longer
<1>2. Framed(seq) => Framed(longer)
  BY <1>1 DEF Framed
<1>3. Worked(seq) => Worked(longer)
  BY <1>1 DEF Worked
<1>4. Validated(seq) => Validated(longer)
  BY <1>1 DEF Validated
<1>5. agent = Account => Framed(longer)
  BY <1>1 DEF Framed
<1>6. agent = Case /\ Framed(seq) => Worked(longer)
  BY <1>1 DEF Framed, Worked
<1>7. agent = Account /\ Worked(seq) => Validated(longer)
  BY <1>1 DEF Worked, Validated
<1> QED
  BY <1>1, <1>2, <1>3, <1>4, <1>5, <1>6, <1>7 DEF longer

\* What Begin, Start and Stop make of the state is a state of the route.
LEMMA OutcomesOnRoute ==
  ASSUME NEW s \in Flows, RouteOf(s), NEW call \in Calls, NEW next \in Outcomes(s, call),
         NEW seq, Accounted(s, seq)
  PROVE  /\ next \in Flows /\ RouteOf(next)
         /\ Accounted(next, IF next = Pristine THEN <<>>
                            ELSE IF call.event = "stop" /\ next # s THEN Append(seq, call.agent) ELSE seq)
<1> USE DEF Account, Case
<1>1. /\ Pristine \in Flows /\ RouteOf(Pristine) /\ Accounted(Pristine, <<>>)
  <2>1. << >> \in Seq(AgentType \cup {"none"})
    OBVIOUS
  <2> QED
    BY <2>1 DEF Pristine, Flows, RouteOf, Accounted
<1>2. CASE call.event = "begin"
  BY <1>1, <1>2 DEF Outcomes
<1>3. CASE next = s
  BY <1>1, <1>3
<1>4. CASE call.event = "start" /\ next = Started(s, call.agent) /\ Startable(s, call.agent) /\ call.agent \in AgentType
  <2>1. next \in Flows /\ next.event = "start"
    <3> DEFINE health == s.health \/ call.agent = "darwin"
               account == s.account \/ call.agent = "client-account-agent"
    <3>1. health \in BOOLEAN /\ account \in BOOLEAN
      OBVIOUS
    <3>2. s.count + 1 \in Nat
      BY DEF Flows
    <3>3. next = [s EXCEPT !.active = call.agent, !.event = "start", !.last = call.agent, !.count = s.count + 1,
                           !.health = health, !.account = account]
      BY <1>4 DEF Started, Flows
    <3> HIDE DEF health, account
    <3>4. next \in Flows
      BY <1>4, <3>1, <3>2, <3>3 DEF Flows
    <3> QED
      BY <3>3, <3>4 DEF Flows
  <2>2. /\ next.active = call.agent /\ next.framed = s.framed /\ next.case = s.case /\ next.validated = s.validated
        /\ next.account = (s.account \/ call.agent = Account)
    BY <1>4 DEF Flows, Started
  <2>3. next # Pristine
    BY <2>1 DEF Pristine
  <2>4. RouteOf(next)
    BY <1>4, <2>2 DEF RouteOf, Startable
  <2>5. next.account /\ next.case => s.account
    BY <1>4, <2>2 DEF Startable
  <2> QED
    BY <1>4, <2>1, <2>2, <2>3, <2>4, <2>5 DEF Accounted
<1>5. CASE call.event = "stop" /\ s.active = call.agent /\ next = Stopped(s, call.agent) /\ call.agent \in AgentType
  <2>1. next \in Flows /\ next.event = "stop" /\ next.count = s.count + 1
    <3> DEFINE framed == s.framed \/ call.agent = "client-account-agent"
               validated == s.validated \/ (call.agent = "client-account-agent" /\ s.framed)
               worked == s.case \/ call.agent = "case-agent"
    <3>1. framed \in BOOLEAN /\ validated \in BOOLEAN /\ worked \in BOOLEAN
      OBVIOUS
    <3>2. s.count + 1 \in Nat
      BY DEF Flows
    <3>3. next = [s EXCEPT !.active = "none", !.event = "stop", !.last = call.agent, !.count = s.count + 1,
                           !.framed = framed, !.validated = validated, !.case = worked]
      BY <1>5 DEF Stopped, Flows
    <3> HIDE DEF framed, validated, worked
    <3>4. next \in Flows
      BY <1>5, <3>1, <3>2, <3>3 DEF Flows
    <3> QED
      BY <3>3, <3>4 DEF Flows
  <2>2. /\ next.active = "none" /\ next.account = s.account
        /\ next.framed = (s.framed \/ call.agent = Account) /\ next.case = (s.case \/ call.agent = Case)
        /\ next.validated = (s.validated \/ (call.agent = Account /\ s.framed))
    BY <1>5 DEF Flows, Stopped
  <2>3. next # Pristine /\ next # s
    BY <2>1 DEF Pristine, Flows
  <2>4. RouteOf(next)
    BY <1>5, <2>2 DEF RouteOf
  <2>5. Accounted(next, Append(seq, call.agent))
    <3>1. seq \in Seq(AgentType \cup {"none"}) /\ call.agent \in AgentType \cup {"none"}
      BY <1>5 DEF Accounted
    <3>2. next.framed => Framed(Append(seq, call.agent))
      BY <2>2, <3>1, OneMoreStop DEF Accounted
    <3>3. next.account /\ next.case => Worked(Append(seq, call.agent))
      BY <1>5, <2>2, <3>1, OneMoreStop DEF Accounted, RouteOf
    <3>4. next.validated => Validated(Append(seq, call.agent))
      BY <1>5, <2>2, <3>1, OneMoreStop DEF Accounted, RouteOf
    <3> QED
      BY <3>1, <3>2, <3>3, <3>4, OneMoreStop DEF Accounted
  <2> QED
    BY <1>5, <2>1, <2>3, <2>4, <2>5
<1> QED
  BY <1>2, <1>3, <1>4, <1>5 DEF Calls, Outcomes

\* The state of a turn that begins.
LEMMA PristineFlow == Pristine \in Flows
  BY DEF Pristine, Flows

\* How a hook goes on.
LEMMA HookMoves ==
  ASSUME NEW r \in HookState, NEW at \in Holding \cup {"create"}
  PROVE  /\ [r EXCEPT !.at = at] \in HookState /\ [r EXCEPT !.at = at].at = at
         /\ [r EXCEPT !.at = at].call = r.call
  BY DEF HookState

\* It takes the outcome with it.
LEMMA HookReads ==
  ASSUME NEW r \in HookState, NEW next \in Flows
  PROVE  /\ [r EXCEPT !.at = "replace", !.next = next] \in HookState
         /\ [r EXCEPT !.at = "replace", !.next = next].at = "replace"
         /\ [r EXCEPT !.at = "replace", !.next = next].call = r.call
         /\ [r EXCEPT !.at = "replace", !.next = next].next = next
  BY DEF HookState, Holding

\* What one hook does leaves the others as they are.
LEMMA OneHookSteps ==
  ASSUME DOMAIN hook = HookProcess, NEW h \in HookProcess, NEW next, Steps(h, next)
  PROVE  DOMAIN hook' = HookProcess /\ hook'[h] = next /\ \A g \in HookProcess \ {h} : hook'[g] = hook[g]
  BY DEF Steps

\* Every step of a hook, up to and including the first overlap, keeps the invariant.
LEMMA FlowStep ==
  ASSUME FlowInv, [FlowNext]_flowVars
  PROVE  FlowInv'
<1>1. CASE overlap
  <2>1. overlap' = TRUE
    BY <1>1 DEF FlowNext, Lock, Suspect, RemoveStale, CreateAgain, Read, Replace, Unlock, HookEnds, flowVars
  <2> QED
    BY <2>1 DEF FlowInv
<1>2. CASE ~overlap
  <2>1. overlap = FALSE
    BY <1>2 DEF FlowInv
  <2>2. /\ flow \in Flows /\ DOMAIN hook = HookProcess
        /\ RouteOf(flow) /\ Accounted(flow, stops)
        /\ \A h \in HookProcess : HookTyped(h) /\ Holds(h) /\ NextCurrent(h)
    BY <2>1 DEF FlowInv
  <2>3. HookIdle \in HookState /\ HookIdle.at = "idle"
    BY PristineFlow DEF HookIdle, HookState, HookCall
  <2>4. ASSUME NEW h \in HookProcess, NEW next \in HookState, Steps(h, next), flow' = flow, stops' = stops, overlap' = FALSE,
               next.at = "replace" => next.next \in Outcomes(flow, next.call),
               next.at # "idle" => next.call \in Calls,
               next.at \in Holding => flowLock' = h,
               \A g \in HookProcess \ {h} : flowLock = g => flowLock' = g
        PROVE  FlowInv'
    <3>1. DOMAIN hook' = HookProcess /\ hook'[h] = next /\ \A g \in HookProcess \ {h} : hook'[g] = hook[g]
      BY <2>2, <2>4, OneHookSteps
    <3>2. HookTyped(h)' /\ Holds(h)' /\ NextCurrent(h)'
      BY <2>4, <3>1 DEF HookTyped, Holds, NextCurrent
    <3>3. ASSUME NEW g \in HookProcess \ {h} PROVE HookTyped(g)' /\ Holds(g)' /\ NextCurrent(g)'
      BY <2>2, <2>4, <3>1 DEF HookTyped, Holds, NextCurrent
    <3>4. flow' \in Flows /\ RouteOf(flow)' /\ Accounted(flow, stops)'
      BY <2>2, <2>4 DEF RouteOf, Accounted
    <3> QED
      BY <2>4, <3>1, <3>2, <3>3, <3>4 DEF FlowInv
  <2>5. ASSUME NEW h \in HookProcess, NEW call \in Calls, Lock(h, call) PROVE FlowInv'
    <3>1. /\ [HookIdle EXCEPT !.at = "read", !.call = call] \in HookState
          /\ [HookIdle EXCEPT !.at = "read", !.call = call].at = "read"
          /\ [HookIdle EXCEPT !.at = "read", !.call = call].call = call
      BY <2>3 DEF HookState, HookCall, Holding
    <3> QED
      BY <2>4, <2>5, <2>1, <3>1, HookAssumption DEF Lock, Holding
  <2>6. ASSUME NEW h \in HookProcess, NEW call \in Calls, Suspect(h, call) PROVE FlowInv'
    <3>1. /\ [HookIdle EXCEPT !.at = "remove", !.call = call] \in HookState
          /\ [HookIdle EXCEPT !.at = "remove", !.call = call].at = "remove"
          /\ [HookIdle EXCEPT !.at = "remove", !.call = call].call = call
      BY <2>3 DEF HookState, HookCall, Holding
    <3> QED
      BY <2>4, <2>6, <2>1, <3>1 DEF Suspect, Holding
  <2>7. ASSUME NEW h \in HookProcess, RemoveStale(h) PROVE FlowInv'
    <3>1. CASE flowLock = Unlocked
      BY <2>3, <2>4, <2>7, <2>1, <3>1, HookAssumption DEF RemoveStale, Holding
    <3>2. CASE flowLock \in HookProcess
      BY <2>7, <3>2 DEF RemoveStale, FlowInv
    <3>3. CASE flowLock # Unlocked /\ flowLock \notin HookProcess
      <4>1. /\ [hook[h] EXCEPT !.at = "create"] \in HookState /\ [hook[h] EXCEPT !.at = "create"].at = "create"
            /\ [hook[h] EXCEPT !.at = "create"].call \in Calls
        BY <2>2, <2>7, HookMoves DEF RemoveStale, HookTyped
      <4> QED
        BY <2>4, <2>7, <2>1, <3>3, <4>1 DEF RemoveStale, Holding
    <3> QED
      BY <3>1, <3>2, <3>3
  <2>8. ASSUME NEW h \in HookProcess, CreateAgain(h) PROVE FlowInv'
    <3>0. hook[h] \in HookState /\ hook[h].call \in Calls
      BY <2>2, <2>8 DEF CreateAgain, HookTyped
    <3>1. /\ [hook[h] EXCEPT !.at = "read"] \in HookState /\ [hook[h] EXCEPT !.at = "read"].at = "read"
          /\ [hook[h] EXCEPT !.at = "read"].call \in Calls
      BY <3>0, HookMoves DEF Holding
    <3> QED
      BY <2>3, <2>4, <2>8, <2>1, <3>1, HookAssumption DEF CreateAgain, Holding
  <2>9. ASSUME NEW h \in HookProcess, Read(h) PROVE FlowInv'
    <3>1. hook[h] \in HookState /\ hook[h].call \in Calls /\ flowLock = h
      BY <2>2, <2>9 DEF Read, HookTyped, Holds, Holding
    <3>2. CASE Steps(h, [hook[h] EXCEPT !.at = "unlock"])
      <4>1. /\ [hook[h] EXCEPT !.at = "unlock"] \in HookState /\ [hook[h] EXCEPT !.at = "unlock"].at = "unlock"
            /\ [hook[h] EXCEPT !.at = "unlock"].call \in Calls
        BY <3>1, HookMoves DEF Holding
      <4> QED
        BY <2>4, <2>9, <2>1, <3>1, <3>2, <4>1 DEF Read
    <3>3. ASSUME NEW next \in Outcomes(flow, hook[h].call), Steps(h, [hook[h] EXCEPT !.at = "replace", !.next = next])
          PROVE  FlowInv'
      <4>1. next \in Flows
        BY <2>2, <3>1, OutcomesOnRoute
      <4> QED
        BY <2>4, <2>9, <2>1, <3>1, <3>3, <4>1, HookReads DEF Read, Holding
    <3> QED
      BY <2>9, <3>2, <3>3 DEF Read
  <2>10. ASSUME NEW h \in HookProcess, Replace(h) PROVE FlowInv'
    <3>1. /\ hook[h] \in HookState /\ hook[h].call \in Calls /\ flowLock = h
          /\ flow' \in Outcomes(flow, hook[h].call)
      BY <2>2, <2>10 DEF Replace, HookTyped, Holds, NextCurrent, Holding
    <3>2. flow' \in Flows /\ RouteOf(flow)' /\ Accounted(flow, stops)'
      <4>1. stops' = IF flow' = Pristine THEN <<>>
                     ELSE IF hook[h].call.event = "stop" /\ flow' # flow THEN Append(stops, hook[h].call.agent) ELSE stops
        BY <2>10 DEF Replace
      <4>2. flow' \in Flows /\ RouteOf(flow') /\ Accounted(flow', stops')
        BY <2>2, <3>1, <4>1, OutcomesOnRoute
      <4> QED
        BY <4>2 DEF RouteOf, Accounted
    <3>3. /\ DOMAIN hook' = HookProcess /\ hook'[h] = [hook[h] EXCEPT !.at = "unlock"]
          /\ \A g \in HookProcess \ {h} : hook'[g] = hook[g]
      BY <2>2, <2>10, OneHookSteps DEF Replace
    <3>4. HookTyped(h)' /\ Holds(h)' /\ NextCurrent(h)'
      <4>1. /\ [hook[h] EXCEPT !.at = "unlock"] \in HookState /\ [hook[h] EXCEPT !.at = "unlock"].at = "unlock"
            /\ [hook[h] EXCEPT !.at = "unlock"].call \in Calls
        BY <3>1, HookMoves DEF Holding
      <4>2. flowLock' = h
        BY <2>10, <3>1 DEF Replace
      <4> QED
        BY <3>3, <4>1, <4>2 DEF HookTyped, Holds, NextCurrent
    <3>5. ASSUME NEW g \in HookProcess \ {h} PROVE HookTyped(g)' /\ Holds(g)' /\ NextCurrent(g)'
      BY <2>2, <2>10, <3>1, <3>3 DEF Replace, HookTyped, Holds, NextCurrent, Holding
    <3> QED
      BY <2>10, <2>1, <3>2, <3>3, <3>4, <3>5 DEF FlowInv, Replace
  <2>11. ASSUME NEW h \in HookProcess, Unlock(h) PROVE FlowInv'
    BY <2>2, <2>3, <2>4, <2>11, <2>1, HookAssumption DEF Unlock, Holding, Holds
  <2>12. ASSUME NEW h \in HookProcess, HookEnds(h) PROVE FlowInv'
    BY <2>2, <2>3, <2>4, <2>12, <2>1 DEF HookEnds, Holding
  <2>13. CASE UNCHANGED flowVars
    BY <2>2, <2>13, <2>1 DEF flowVars, FlowInv, HookTyped, Holds, NextCurrent
  <2> QED
    BY <2>5, <2>6, <2>7, <2>8, <2>9, <2>10, <2>11, <2>12, <2>13 DEF FlowNext
<1> QED
  BY <1>1, <1>2 DEF FlowInv

\* A strategic turn that Finalize lets end was framed by the account agent, worked on
\* by the case agent and validated by the account agent, in this order, whatever hooks
\* are retried or end half-way, as long as no hook removes the lock of a live one
\* (FinishedInOrder).
THEOREM FlowInOrder == FlowSpec => []FinishedInOrder
<1>1. FlowInit => FlowInv
  <2>1. << >> \in Seq(AgentType \cup {"none"})
    OBVIOUS
  <2> QED
    <3>1. HookIdle \in HookState /\ HookIdle.at = "idle"
      BY PristineFlow DEF HookIdle, HookState, HookCall
    <3>2. RouteOf(Pristine) /\ Accounted(Pristine, << >>)
      BY <2>1 DEF Pristine, RouteOf, Accounted, Account, Case
    <3> QED
      BY <3>1, <3>2, PristineFlow DEF FlowInit, FlowInv, HookTyped, Holds, NextCurrent, Holding
<1>2. FlowInv /\ [FlowNext]_flowVars => FlowInv'
  BY FlowStep
<1>3. FlowInv => FinishedInOrder
  BY DEF FlowInv, FinishedInOrder, Finalizable, Accounted, Validated, Account, Case
<1> QED
  BY <1>1, <1>2, <1>3, PTL DEF FlowSpec

-----------------------------------------------------------------------------
(***************************************************************************)
(* MaintenanceWorker.  The fence of an occurrence holds for any number of  *)
(* wakes, any clock and any number of crashes.  Fenced is not inductive:   *)
(* that two handlers are never at work together rests on the marker, which *)
(* names the wake whose handler runs from ArmLease on; that the marker     *)
(* stays is a matter of the lease, which nobody but its holder gives up;   *)
(* and both are only changed by the wake inside the guard.  FenceInv says  *)
(* so place by place.                                                      *)
(***************************************************************************)
(* Places of a call.                                                        *)
Inside == {"acquiring", "arming", "quarantining", "publishing", "writing", "scheduling",
           "releasing", "unleasing"}
BeforeHandler == {"idle", "prior", "note", "noteWrite", "noteScheduled", "acquire",
                  "acquiring", "arm", "arming", "start"}
AfterHandler == {"release", "releasing", "unleasing", "recovery", "recoveryWrite",
                 "recoveryScheduled"}
Publishing == {"publish", "publishing", "writing", "scheduling"}
Place == BeforeHandler \cup AfterHandler \cup Publishing
           \cup {"await", "quarantine", "quarantining", "late", "done", "dead"}

FenceTyped ==
    /\ pc \in [Wake -> Place]
    /\ DOMAIN result = Wake /\ DOMAIN handler = Wake /\ late \in [Wake -> BOOLEAN]
    /\ guard \in Wake \cup {Nobody}
    /\ lease = NoLease \/ lease.token \in Wake
    /\ marker = NoMarker \/ marker.token \in Wake

(* The flock: who is inside a lease operation holds it.                     *)
GuardHeld == \A w \in Wake : pc[w] \in Inside => guard = w

(* A handler runs only between StartHandler and the release, and past a     *)
(* publication only when the wake knows that it is late.                    *)
HandlerPlaced ==
    \A w \in Wake : handler[w] = "running" =>
        /\ pc[w] \notin BeforeHandler \cup AfterHandler
        /\ pc[w] \in Publishing \cup {"quarantine", "quarantining"} => late[w]

(* The marker is the fence of the wake whose handler may be at work.        *)
HandlerMarked == \A w \in Wake : Running(w) \/ pc[w] = "start" => marker.token = w

(* Between its two removals ReleaseLease holds the lease without a marker.  *)
Unleasing == \A w \in Wake : pc[w] = "unleasing" => marker = NoMarker

(* A note is never a success, and a result to publish never a recovery.     *)
NotesPlaced ==
    \A w \in Wake :
        /\ pc[w] \in {"note", "noteWrite", "noteScheduled"} =>
             result[w] \in {"suppressed", "unavailable", "rejected"}
        /\ pc[w] \in Publishing => result[w] # "recovery_required"
        /\ handler[w] # "recovery_required"
        /\ pc[w] \in {"quarantine", "quarantining"} => result[w] = "timed_out"

(* Who is about to write its receipt has seen that no success is there.     *)
WritesFirst == \A w \in Wake : pc[w] = "writing" => receipts \cap Success = {}
Agreeing == \A a, b \in receipts \cap Success : a = b

FenceInv ==
    /\ FenceTyped /\ GuardHeld /\ HandlerPlaced /\ HandlerMarked /\ Unleasing
    /\ NotesPlaced /\ WritesFirst /\ Agreeing /\ MarkerHasLease

----------------------------------------------------------------------------
(* No wake has fenced, recorded or started anything at first.               *)
LEMMA FenceInit == Init => FenceInv
BY WorkerAssumption
   DEF Init, FenceInv, FenceTyped, GuardHeld, HandlerPlaced, HandlerMarked, Unleasing,
       NotesPlaced, WritesFirst, Agreeing, MarkerHasLease, Place, Inside, BeforeHandler,
       AfterHandler, Publishing, Running, NoLease, NoMarker, Success

(* The lease operations.  A wake writes or removes a marker only while the  *)
(* marker is its own or nobody's, so never that of a handler at work, and   *)
(* replaces a lease only while there is no marker.                          *)
LEMMA LeasingKeepsFence ==
    ASSUME FenceInv, NEW w \in Wake, Leasing(w)
    PROVE  FenceInv'
  <1> USE WorkerAssumption
      DEF FenceInv, FenceTyped, GuardHeld, HandlerPlaced, HandlerMarked, Unleasing,
          NotesPlaced, WritesFirst, Agreeing, MarkerHasLease, Place, Inside, BeforeHandler,
          AfterHandler, Publishing, Running, NoLease, NoMarker, Success,
          Goto, Finish, Local, Guarded
  <1>1. CASE GuardStep(w)
    BY <1>1 DEF GuardStep, TakeGuard, AfterPublish
  <1>2. CASE TryAcquireLease(w)
    BY <1>2 DEF TryAcquireLease
  <1>3. CASE ArmLease(w)
    BY <1>3 DEF ArmLease, MayFence
  <1>4. CASE QuarantineLease(w)
    BY <1>4 DEF QuarantineLease, MayFence
  <1>5. CASE ReleaseMarker(w)
    BY <1>5 DEF ReleaseMarker
  <1>6. CASE ReleaseLease(w)
    BY <1>6 DEF ReleaseLease
  <1> QED
    BY <1>1, <1>2, <1>3, <1>4, <1>5, <1>6 DEF Leasing

(* The receipts.  Only a publication records a success, and it holds the    *)
(* guard from the look at the receipts to the write.                        *)
LEMMA RecordingKeepsFence ==
    ASSUME FenceInv, NEW w \in Wake, Recording(w)
    PROVE  FenceInv'
  <1> USE WorkerAssumption
      DEF FenceInv, FenceTyped, GuardHeld, HandlerPlaced, HandlerMarked, Unleasing,
          NotesPlaced, WritesFirst, Agreeing, MarkerHasLease, Place, Inside, BeforeHandler,
          AfterHandler, Publishing, Running, NoLease, NoMarker, Success,
          Goto, Finish, Local, shared, Guarded
  <1>1. CASE CheckPrior(w)
    BY <1>1 DEF CheckPrior
  <1>2. CASE Note(w)
    BY <1>2 DEF Note, Noted, AfterNote, WriteReceipt
  <1>3. CASE NoteScheduled(w)
    BY <1>3 DEF NoteScheduled
  <1>4. CASE Publish(w)
    BY <1>4 DEF Publish, Unrecorded, Prior, Conclusive, WriteReceipt, AfterPublish
  <1>5. CASE PublishScheduled(w)
    BY <1>5 DEF PublishScheduled, AfterPublish
  <1>6. CASE RecordRecovery(w)
    BY <1>6 DEF RecordRecovery, WriteReceipt
  <1> QED
    BY <1>1, <1>2, <1>3, <1>4, <1>5, <1>6 DEF Recording

(* The handler and what waits for it.  A handler starts under the marker    *)
(* of its wake, and a wake goes on to the release only past the handler.    *)
LEMMA HandlingKeepsFence ==
    ASSUME FenceInv, NEW w \in Wake,
           Handling(w) \/ \E o \in Outcome : HandlerReturns(w, o)
    PROVE  FenceInv'
  <1> USE WorkerAssumption
      DEF FenceInv, FenceTyped, GuardHeld, HandlerPlaced, HandlerMarked, Unleasing,
          NotesPlaced, WritesFirst, Agreeing, MarkerHasLease, Place, Inside, BeforeHandler,
          AfterHandler, Publishing, Running, NoLease, NoMarker, Success,
          Goto, Finish, Local, shared
  <1>1. CASE StartHandler(w)
    BY <1>1 DEF StartHandler
  <1>2. CASE SeeOutcome(w)
    BY <1>2 DEF SeeOutcome
  <1>3. CASE DeadlinePasses(w)
    BY <1>3 DEF DeadlinePasses
  <1>4. CASE AwaitLate(w)
    BY <1>4 DEF AwaitLate
  <1>5. CASE \E o \in Outcome : HandlerReturns(w, o)
    BY <1>5 DEF HandlerReturns, Outcome
  <1> QED
    BY <1>1, <1>2, <1>3, <1>4, <1>5 DEF Handling

(* Begin, the end of a process, the operator's recovery and the clock.  A   *)
(* process takes its handler with it and gives the guard up; the operator   *)
(* lifts the fence of a process that has exited.                            *)
LEMMA ProcessKeepsFence ==
    ASSUME FenceInv,
           \/ \E w \in Wake : \/ \E presence, idle \in BOOLEAN : Begin(w, presence, idle)
                             \/ Exit(w)
                             \/ Crash(w)
           \/ RecoverQuarantinedLease
           \/ Tick
           \/ UNCHANGED vars
    PROVE  FenceInv'
  <1> USE WorkerAssumption
      DEF FenceInv, FenceTyped, GuardHeld, HandlerPlaced, HandlerMarked, Unleasing,
          NotesPlaced, WritesFirst, Agreeing, MarkerHasLease, Place, Inside, BeforeHandler,
          AfterHandler, Publishing, Running, NoLease, NoMarker, Success,
          Goto, Finish, Local, shared
  <1>1. ASSUME NEW w \in Wake, NEW presence \in BOOLEAN, NEW idle \in BOOLEAN,
               Begin(w, presence, idle)
        PROVE  FenceInv'
    BY <1>1 DEF Begin
  <1>2. ASSUME NEW w \in Wake, Exit(w) \/ Crash(w)
        PROVE  FenceInv'
    BY <1>2 DEF Exit, Crash, Stop
  <1>3. CASE RecoverQuarantinedLease
    BY <1>3 DEF RecoverQuarantinedLease
  <1>4. CASE Tick
    BY <1>4 DEF Tick
  <1>5. CASE UNCHANGED vars
    BY <1>5 DEF vars
  <1> QED
    BY <1>1, <1>2, <1>3, <1>4, <1>5

(* FenceInv carries the three promises of the fence.                        *)
LEMMA FenceInvFences == FenceInv => Fenced
  <1> SUFFICES ASSUME FenceInv PROVE Fenced
    OBVIOUS
  <1>1. OneHandler
    BY DEF FenceInv, HandlerMarked, OneHandler
  <1>2. OneVerdict
    <2>1. CASE receipts \cap Success = {}
      BY <2>1, FS_EmptySet DEF OneVerdict
    <2>2. CASE receipts \cap Success # {}
      <3>1. PICK s \in receipts \cap Success : receipts \cap Success = {s}
        BY <2>2 DEF FenceInv, Agreeing
      <3> QED
        BY <3>1, FS_Singleton DEF OneVerdict
    <2> QED
      BY <2>1, <2>2
  <1> QED
    BY <1>1, <1>2 DEF FenceInv, Fenced

(* WorkerFenced: for any number of wakes and of crashes and at any time, at *)
(* most one handler of an occurrence is at work, the recorded results agree *)
(* on its verdict, and every marker fences the lease it was written for     *)
(* (runOccurrence, TryAcquireLease, ArmLease, QuarantineLease, ReleaseLease *)
(* and WithCurrentLease).                                                   *)
THEOREM WorkerFenced == Spec => []Fenced
  <1>1. ASSUME FenceInv, [Next]_vars PROVE FenceInv'
    BY <1>1, LeasingKeepsFence, RecordingKeepsFence, HandlingKeepsFence, ProcessKeepsFence
       DEF Next
  <1> QED
    BY <1>1, FenceInit, FenceInvFences, PTL DEF Spec

-----------------------------------------------------------------------------
(***************************************************************************)
(* The orchestration gate.  What a hook is about to write is derived, under *)
(* the lock file, from the state it has just read there; as the lock goes  *)
(* to one hook at a time and a killed hook leaves it behind, the file is   *)
(* still the one the decision was taken from when it is replaced.  So the  *)
(* next state has the same trail and one breadcrumb more, and the fence    *)
(* epoch of a branch that opens is above every epoch told before.          *)
(***************************************************************************)
EventKind == {"branch_start", "tool_request", "child_start", "child_finish", "branch_finish"}
HookName == {"none", "ensure", "bind", "handle", "recover", "authorize", "done"}
Crumb == [seq : Nat, by : GateProcess, kind : EventKind, allowed : BOOLEAN, epoch : Nat]
Stored == [policy : {"none", "missing"} \cup Policy, branch : {"none"} \cup Branch,
           root : {"none"} \cup Specialist, epoch : Nat, seq : Nat, tail : Seq(Crumb)]
GateCall == [at : {"idle", "waiting", "holding", "writing", "unlocking"},
             bound : {"none", "missing"} \cup Policy, call : HookName, policy : {"none"} \cup Policy,
             fence : Nat, out : Stored, allow : BOOLEAN]
\* The types of the gate.
GateTyped ==
  /\ durableState \in Stored /\ process \in [GateProcess -> GateCall] /\ told \subseteq Crumb
Trimmed(s) == IF Len(s) > TailLimit THEN Tail(s) ELSE s
\* What is about to be written is the state of the file, with at most one breadcrumb more.
Follows(c, s) ==
  /\ c.out.epoch >= s.epoch
  /\ \/ ~c.allow /\ c.out.seq = s.seq /\ c.out.tail = s.tail
     \/ \E b \in Crumb :
          /\ c.out.seq = s.seq + 1 /\ b.seq = c.out.seq /\ b.epoch <= c.out.epoch
          /\ c.out.tail = Trimmed(Append(s.tail, b))
          /\ c.allow /\ b.kind = "branch_start" => b.epoch > s.epoch
Under == {"holding", "writing", "unlocking"}
\* The inductive invariant.
GateInv ==
  /\ GateTyped
  /\ \A p \in GateProcess : process[p].at \in Under => stateLock = p
  /\ \A p \in GateProcess : process[p].at = "writing" => Follows(process[p], durableState)
  /\ \A d \in told : d.epoch <= durableState.epoch
  /\ DecisionsStand

\* The tail t ends with b, and before it holds s, with or without the first of s.
Ends(t, b) == t \in Seq(Crumb) /\ Len(t) \in Nat /\ Len(t) > 0 /\ t[Len(t)] = b
Extends(t, s) == Len(t) = Len(s) + 1 /\ \A k \in 1..Len(s) : t[k] = s[k]
Shifts(t, s) == Len(t) = Len(s) /\ \A k \in 1..(Len(s) - 1) : t[k] = s[k + 1]

\* The tail a decision writes (appendBreadcrumb) ends with its breadcrumb, and holds the
\* earlier ones before it, all of them or all but the first.
LEMMA TrimmedFacts ==
  ASSUME NEW s \in Seq(Crumb), NEW b \in Crumb
  PROVE  /\ Ends(Trimmed(Append(s, b)), b)
         /\ Extends(Trimmed(Append(s, b)), s) \/ Shifts(Trimmed(Append(s, b)), s)
<1> DEFINE t == Trimmed(Append(s, b))
<1>1. PICK a : a = Append(s, b)
  OBVIOUS
<1>2. /\ a \in Seq(Crumb) /\ Len(a) = Len(s) + 1 /\ a[Len(s) + 1] = b /\ Len(s) \in Nat
      /\ \A k \in 1..Len(s) : a[k] = s[k]
  BY <1>1
<1>3. CASE Len(a) > TailLimit
  <2>1. t = Tail(a) /\ Len(s) > 0 /\ a # << >>
    BY <1>1, <1>2, <1>3, GateAssumption DEF Trimmed
  <2>2. t \in Seq(Crumb) /\ Len(t) = Len(s) /\ \A k \in 1..Len(t) : t[k] = a[k + 1]
    BY <1>2, <2>1
  <2> QED BY <1>2, <2>1, <2>2 DEF Ends, Shifts
<1>4. CASE ~(Len(a) > TailLimit)
  BY <1>1, <1>2, <1>4 DEF Trimmed, Ends, Extends
<1> QED BY <1>3, <1>4

\* An entry stays where its number says it is.
LEMMA EntryStays ==
  ASSUME NEW s \in Seq(Crumb), NEW t \in Seq(Crumb), Extends(t, s) \/ Shifts(t, s),
         NEW n \in Nat, NEW q \in Nat, q <= n, q > n + 1 - Len(t), Len(t) > 0
  PROVE  /\ q > n - Len(s) /\ t[q - (n + 1 - Len(t))] = s[q - (n - Len(s))]
<1>1. Len(s) \in Nat /\ Len(t) \in Nat
  OBVIOUS
<1>2. PICK k : k = q - (n - Len(s))
  OBVIOUS
<1>3. CASE Extends(t, s)
  <2>1. Len(t) = Len(s) + 1 /\ q > n - Len(s) /\ q - (n + 1 - Len(t)) = k /\ k \in 1..Len(s)
    BY <1>1, <1>2, <1>3 DEF Extends
  <2> QED BY <1>2, <1>3, <2>1 DEF Extends
<1>4. CASE Shifts(t, s)
  <2>1. Len(t) = Len(s) /\ q > n - Len(s) /\ q - (n + 1 - Len(t)) = k - 1 /\ k - 1 \in 1..(Len(s) - 1) /\ k - 1 + 1 = k
    BY <1>1, <1>2, <1>4 DEF Shifts
  <2> QED BY <1>2, <1>4, <2>1 DEF Shifts
<1> QED BY <1>3, <1>4

\* A permission d stands in the tail t of n breadcrumbs as far as t reaches back.
StandsIn(d, t, n) == d.seq > n - Len(t) => t[d.seq - (n - Len(t))] = d

\* A permission that stands in a tail still stands when the next breadcrumb is there.
LEMMA StandsStays ==
  ASSUME NEW s \in Seq(Crumb), NEW t, NEW b \in Crumb, Ends(t, b), Extends(t, s) \/ Shifts(t, s),
         NEW n \in Nat, NEW d \in Crumb, d.seq <= n, StandsIn(d, s, n)
  PROVE  StandsIn(d, t, n + 1)
<1>1. PICK q \in Nat : q = d.seq
  BY DEF Crumb
<1>2. t \in Seq(Crumb) /\ Len(t) > 0
  BY DEF Ends
<1>3. SUFFICES ASSUME q > n + 1 - Len(t)
               PROVE  t[q - (n + 1 - Len(t))] = d
  BY <1>1 DEF StandsIn
<1>4. q > n - Len(s) /\ t[q - (n + 1 - Len(t))] = s[q - (n - Len(s))]
  BY <1>1, <1>2, <1>3, EntryStays
<1> QED BY <1>1, <1>4 DEF StandsIn

\* Replacing the file (persistLocked) keeps every permission told before, and the one told
\* now stands at its own number with an epoch of its own if it opens a branch.
LEMMA StandsByFile ==
  ASSUME GateTyped, DecisionsStand, \A d \in told : d.epoch <= durableState.epoch,
         NEW c \in GateCall, Follows(c, durableState), durableState' = c.out,
         told' = told \/ told' = IF c.allow THEN told \cup {c.out.tail[Len(c.out.tail)]} ELSE told
  PROVE  /\ durableState' \in Stored /\ told' \subseteq Crumb
         /\ \A d \in told' : d.epoch <= durableState'.epoch
         /\ DecisionsStand'
<1> DEFINE s == durableState
<1>1. PICK o : o = c.out
  OBVIOUS
<1>2. /\ o \in Stored /\ s \in Stored /\ told \subseteq Crumb
  BY <1>1 DEF GateTyped, GateCall
<1>3. CASE ~c.allow /\ o.seq = s.seq /\ o.tail = s.tail
  <2>1. told' = told /\ o.epoch >= s.epoch /\ o = durableState'
    BY <1>1, <1>3 DEF Follows
  <2>2. \A d \in told : d.epoch <= o.epoch
    BY <1>2, <2>1 DEF Stored, Crumb
  <2> QED BY <1>2, <1>3, <2>1, <2>2 DEF DecisionsStand
<1>4. ASSUME NEW b \in Crumb,
             o.seq = s.seq + 1 /\ b.seq = o.seq /\ b.epoch <= o.epoch,
             o.tail = Trimmed(Append(s.tail, b)),
             c.allow /\ b.kind = "branch_start" => b.epoch > s.epoch
      PROVE  /\ durableState' \in Stored /\ told' \subseteq Crumb
             /\ \A d \in told' : d.epoch <= durableState'.epoch
             /\ DecisionsStand'
  <2>1. o = durableState' /\ o.epoch >= s.epoch
    BY <1>1 DEF Follows
  <2>2. s.tail \in Seq(Crumb) /\ s.seq \in Nat /\ s.epoch \in Nat /\ o.epoch \in Nat /\ b.seq \in Nat /\ b.epoch \in Nat
    BY <1>2 DEF Stored, Crumb
  <2>3. PICK t : t = o.tail
    OBVIOUS
  <2>4. Ends(t, b) /\ (Extends(t, s.tail) \/ Shifts(t, s.tail))
    <3>1. t = Trimmed(Append(s.tail, b))
      BY <1>4, <2>3
    <3> QED BY <2>2, <3>1, TrimmedFacts
  <2>5. told' = told \/ (told' = told \cup {b} /\ c.allow)
    BY <1>1, <2>3, <2>4 DEF Ends
  <2>6. told' \subseteq Crumb /\ \A d \in told' : d.epoch <= o.epoch
    BY <1>2, <1>4, <2>1, <2>2, <2>5 DEF Crumb
  <2>7. \A d \in told' : d.seq <= o.seq
    BY <1>2, <1>4, <2>2, <2>5 DEF DecisionsStand, Crumb
  <2>8. \A d \in told' : StandsIn(d, t, o.seq)
    <3>1. StandsIn(b, t, o.seq)
      BY <1>4, <2>2, <2>4 DEF Ends, StandsIn
    <3>2. ASSUME NEW d \in told
          PROVE  StandsIn(d, t, o.seq)
      <4>1. d \in Crumb /\ d.seq <= s.seq /\ StandsIn(d, s.tail, s.seq)
        BY <1>2 DEF DecisionsStand, StandsIn
      <4>2. StandsIn(d, t, s.seq + 1)
        BY <2>2, <2>4, <4>1, StandsStays
      <4> QED BY <1>4, <4>2
    <3> QED BY <2>5, <3>1, <3>2
  <2>9. \A x, y \in told' : x.kind = "branch_start" /\ y.kind = "branch_start" /\ x.epoch = y.epoch => x = y
    <3>1. \A x, y \in told : x.kind = "branch_start" /\ y.kind = "branch_start" /\ x.epoch = y.epoch => x = y
      BY DEF DecisionsStand
    <3>2. \A x \in told : x.epoch <= s.epoch /\ x.epoch \in Nat
      BY <1>2 DEF Crumb
    <3>3. \A x \in told : c.allow /\ b.kind = "branch_start" => x.epoch # b.epoch
      BY <1>4, <2>2, <3>2
    <3> QED BY <2>5, <3>1, <3>3
  <2>10. o.tail = t /\ durableState' \in Stored
    BY <1>2, <2>1, <2>3
  <2>11. DecisionsStand'
    BY <2>1, <2>7, <2>8, <2>9, <2>10 DEF DecisionsStand, StandsIn
  <2> QED BY <2>1, <2>6, <2>10, <2>11
<1>5. \/ ~c.allow /\ o.seq = s.seq /\ o.tail = s.tail
      \/ \E b \in Crumb :
          /\ o.seq = s.seq + 1 /\ b.seq = o.seq /\ b.epoch <= o.epoch
          /\ o.tail = Trimmed(Append(s.tail, b))
          /\ c.allow /\ b.kind = "branch_start" => b.epoch > s.epoch
  BY <1>1 DEF Follows
<1> QED BY <1>3, <1>4, <1>5

\* A state read again (refreshLocked) has the trail and the epoch of the file.
LEMMA RefreshedFacts ==
  ASSUME GateTyped
  PROVE  /\ Refreshed \in Stored /\ Refreshed.seq = durableState.seq
         /\ Refreshed.epoch = durableState.epoch /\ Refreshed.tail = durableState.tail
<1>1. EmptyState \in Stored /\ EmptyState.seq = 0 /\ EmptyState.epoch = 0 /\ EmptyState.tail = << >>
  <2>1. << >> \in Seq(Crumb)
    OBVIOUS
  <2> QED BY <2>1 DEF EmptyState, Stored
<1>2. Missing.seq = 0 /\ Missing.epoch = 0 /\ Missing.tail = << >>
  BY DEF Missing, EmptyState
<1> QED BY <1>1, <1>2 DEF Refreshed, GateTyped

\* A hook that moves under the lock, without a write, changes nothing for the others.
LEMMA MovesKeeps ==
  ASSUME GateInv, NEW p \in GateProcess, NEW next \in GateCall, Moves(p, next),
         UNCHANGED <<durableState, told>>,
         next.at \in Under => stateLock' = p, next.at = "writing" => Follows(next, durableState),
         \A q \in GateProcess \ {p} : process[q].at \in Under => stateLock' = stateLock
  PROVE  GateInv'
<1>1. /\ process \in [GateProcess -> GateCall] /\ process' = [process EXCEPT ![p] = next]
  BY DEF GateInv, GateTyped, Moves
<1>2. process' \in [GateProcess -> GateCall] /\ \A q \in GateProcess : process'[q] = IF q = p THEN next ELSE process[q]
  BY <1>1
<1>3. GateTyped'
  BY <1>2 DEF GateInv, GateTyped
<1>4. ASSUME NEW q \in GateProcess
      PROVE  process'[q].at \in Under => stateLock' = q
  BY <1>2 DEF GateInv
<1>5. ASSUME NEW q \in GateProcess, process'[q].at = "writing"
      PROVE  Follows(process'[q], durableState')
  BY <1>2, <1>5 DEF GateInv
<1>6. DecisionsStand'
  BY DEF DecisionsStand, GateInv
<1>7. \A d \in told' : d.epoch <= durableState'.epoch
  BY DEF GateInv
<1> QED BY <1>3, <1>4, <1>5, <1>6, <1>7 DEF GateInv

\* EnsureDurableState, the binding of a policy, RecoverStale and AuthorizeActiveRoot decide on
\* the state of the file and leave its trail alone.
LEMMA DecideKeeps ==
  ASSUME GateInv, NEW p \in GateProcess, DecideEnsure(p) \/ DecideBind(p) \/ DecideRecover(p) \/ DecideAuthorize(p)
  PROVE  GateInv'
<1> DEFINE c == process[p]
<1>1. /\ GateTyped /\ c \in GateCall /\ stateLock = p /\ c.at = "holding"
      /\ UNCHANGED <<durableState, stateLock, told>>
  BY DEF GateInv, GateTyped, Under, DecideEnsure, DecideBind, DecideRecover, DecideAuthorize, Deciding
<1>2. ASSUME NEW out \in Stored, Writes(p, out, FALSE), out.epoch = durableState.epoch,
             out.seq = durableState.seq, out.tail = durableState.tail
      PROVE  GateInv'
  <2>1. PICK n : n = [c EXCEPT !.at = "writing", !.fence = 0, !.out = out, !.allow = FALSE]
    OBVIOUS
  <2>2. n \in GateCall /\ n.out = out /\ n.allow = FALSE
    BY <1>1, <2>1 DEF GateCall, HookName
  <2>3. out.epoch \in Nat
    BY DEF Stored
  <2>4. Follows(n, durableState)
    BY <1>2, <2>2, <2>3 DEF Follows
  <2>5. Moves(p, n)
    BY <1>2, <2>1 DEF Writes
  <2> QED BY <1>1, <2>2, <2>4, <2>5, MovesKeeps
<1>3. ASSUME NEW n \in GateCall, Moves(p, n), n.at = "unlocking"
      PROVE  GateInv'
  BY <1>1, <1>3, MovesKeeps
<1>4. ASSUME Refuses(p)
      PROVE  GateInv'
  <2>1. PICK n : n = [c EXCEPT !.at = "unlocking", !.fence = 0, !.policy = "none", !.call = "done"]
    OBVIOUS
  <2>2. n \in GateCall /\ n.at = "unlocking"
    BY <1>1, <2>1 DEF GateCall, HookName
  <2>3. Moves(p, n)
    BY <1>4, <2>1 DEF Refuses
  <2> QED BY <1>3, <2>2, <2>3
<1>5. PICK r : r = Refreshed
  OBVIOUS
<1>6. r \in Stored /\ r.seq = durableState.seq /\ r.epoch = durableState.epoch /\ r.tail = durableState.tail
  BY <1>1, <1>5, RefreshedFacts
<1>7. CASE DecideEnsure(p)
  <2>1. CASE durableState = Missing
    <3>1. Refreshed = EmptyState
      BY <2>1 DEF Refreshed
    <3>2. Writes(p, r, FALSE)
      BY <1>5, <1>7, <2>1, <3>1 DEF DecideEnsure
    <3> QED BY <1>2, <1>6, <3>2
  <2>2. CASE durableState # Missing
    BY <1>4, <1>7, <2>2 DEF DecideEnsure
  <2> QED BY <2>1, <2>2
<1>8. CASE DecideBind(p)
  <2> DEFINE wanted == c.policy
  <2>1. CASE Writes(p, [Refreshed EXCEPT !.policy = wanted], FALSE)
    <3>1. PICK out : out = [r EXCEPT !.policy = wanted]
      OBVIOUS
    <3>2. out \in Stored /\ out.seq = r.seq /\ out.epoch = r.epoch /\ out.tail = r.tail
      BY <1>1, <1>6, <3>1 DEF Stored, GateCall
    <3> QED BY <1>2, <1>5, <1>6, <2>1, <3>1, <3>2
  <2>2. CASE Moves(p, [Closed EXCEPT !.at = "unlocking", !.bound = wanted, !.call = "done"])
    <3>1. PICK n : n = [Closed EXCEPT !.at = "unlocking", !.bound = wanted, !.call = "done"]
      OBVIOUS
    <3>2. EmptyState \in Stored
      <4>1. << >> \in Seq(Crumb)
        OBVIOUS
      <4> QED BY <4>1 DEF EmptyState, Stored
    <3>3. wanted \in {"none"} \cup Policy
      BY <1>1 DEF GateCall
    <3>4. n = [at |-> "unlocking", bound |-> wanted, call |-> "done", policy |-> "none", fence |-> 0, out |-> EmptyState, allow |-> FALSE]
      BY <3>1 DEF Closed
    <3>5. n \in GateCall /\ n.at = "unlocking"
      BY <3>2, <3>3, <3>4 DEF GateCall, HookName
    <3> QED BY <1>3, <2>2, <3>1, <3>5
  <2>3. CASE Refuses(p)
    BY <1>4, <2>3
  <2>4. Refreshed.policy = "none" \/ Refreshed.policy = wanted \/ (Refreshed.policy # "none" /\ Refreshed.policy # wanted)
    OBVIOUS
  <2> QED BY <1>8, <2>1, <2>2, <2>3, <2>4 DEF DecideBind
<1>9. CASE DecideRecover(p)
  <2>1. CASE Writes(p, [Refreshed EXCEPT !.branch = "none", !.root = "none"], FALSE)
    <3>1. PICK out : out = [r EXCEPT !.branch = "none", !.root = "none"]
      OBVIOUS
    <3>2. out \in Stored /\ out.seq = r.seq /\ out.epoch = r.epoch /\ out.tail = r.tail
      BY <1>6, <3>1 DEF Stored
    <3> QED BY <1>2, <1>5, <1>6, <2>1, <3>1, <3>2
  <2> QED BY <1>4, <1>9, <2>1 DEF DecideRecover
<1>10. CASE DecideAuthorize(p)
  BY <1>4, <1>10 DEF DecideAuthorize
<1> QED BY <1>7, <1>8, <1>9, <1>10

\* Handle writes the state of the file with one breadcrumb more.
LEMMA HandleKeeps ==
  ASSUME GateInv, NEW p \in GateProcess, NEW e \in Event, DecideHandle(p, e)
  PROVE  GateInv'
<1> DEFINE c == process[p]
<1>1. /\ GateTyped /\ c \in GateCall /\ stateLock = p /\ c.at = "holding"
      /\ UNCHANGED <<durableState, stateLock, told>>
  BY DEF GateInv, GateTyped, Under, DecideHandle, Deciding
<1>2. PICK r : r = Refreshed
  OBVIOUS
<1>3. r \in Stored /\ r.seq = durableState.seq /\ r.epoch = durableState.epoch /\ r.tail = durableState.tail
  BY <1>1, <1>2, RefreshedFacts
<1>4. CASE Refuses(p)
  <2>1. PICK n : n = [c EXCEPT !.at = "unlocking", !.fence = 0, !.policy = "none", !.call = "done"]
    OBVIOUS
  <2>2. n \in GateCall /\ n.at = "unlocking"
    BY <1>1, <2>1 DEF GateCall, HookName
  <2>3. Moves(p, n)
    BY <1>4, <2>1 DEF Refuses
  <2> QED BY <1>1, <2>2, <2>3, MovesKeeps
<1>5. CASE Writes(p, WithBreadcrumb(Transition(r, e), p, e, Allowed(r, e)), Allowed(r, e))
  <2>1. PICK allow \in BOOLEAN : allow = Allowed(r, e)
    BY DEF Allowed, StartsBranch, UsesTool, FinishesBranch
  <2>2. PICK s : s = Transition(r, e)
    OBVIOUS
  <2>3. e.kind \in EventKind /\ e.branch \in {"none"} \cup Branch
    <3>1. CASE \E a \in GateAgent, t \in Specialist, b \in Branch : e = Delegating(a, t, b)
      BY <3>1 DEF Delegating, NoEvent, EventKind
    <3>2. CASE \E a \in Specialist, b \in Branch, x \in Resource : e = UsingTool(a, b, x)
      BY <3>2 DEF UsingTool, NoEvent, EventKind
    <3>3. CASE \E k \in {"child_start", "child_finish", "branch_finish"}, a \in Specialist, b \in Branch : e = Reporting(k, a, b)
      BY <3>3 DEF Reporting, NoEvent, EventKind
    <3> QED BY <3>1, <3>2, <3>3 DEF Event
  <2>4. e.kind = "branch_start" /\ allow => e.target \in Specialist
    BY <2>1 DEF Allowed, StartsBranch
  <2>5. s \in Stored /\ s.seq = r.seq /\ s.tail = r.tail
    <3>1. r.epoch + 1 \in Nat
      BY <1>3 DEF Stored
    <3>2. CASE allow /\ e.kind = "branch_start"
      <4>1. s = [r EXCEPT !.branch = e.branch, !.root = e.target, !.epoch = r.epoch + 1]
        BY <2>1, <2>2, <3>2 DEF Transition
      <4> QED BY <1>3, <2>3, <2>4, <3>1, <3>2, <4>1 DEF Stored
    <3>3. CASE allow /\ e.kind = "branch_finish"
      <4>1. s = [r EXCEPT !.branch = "none", !.root = "none"]
        BY <2>1, <2>2, <3>3 DEF Transition
      <4> QED BY <1>3, <4>1 DEF Stored
    <3>4. CASE ~allow \/ e.kind \notin {"branch_start", "branch_finish"}
      BY <1>3, <2>1, <2>2, <3>4 DEF Transition
    <3> QED BY <3>2, <3>3, <3>4
  <2>6. s.epoch >= r.epoch /\ (allow /\ e.kind = "branch_start" => s.epoch > r.epoch)
    BY <1>3, <2>1, <2>2 DEF Transition, Stored
  <2>7. PICK b : b = [seq |-> s.seq + 1, by |-> p, kind |-> e.kind, allowed |-> allow, epoch |-> s.epoch]
    OBVIOUS
  <2>8. b \in Crumb /\ b.seq = s.seq + 1 /\ b.epoch = s.epoch /\ b.kind = e.kind
    BY <2>3, <2>5, <2>7 DEF Crumb, Stored
  <2>9. PICK out : out = WithBreadcrumb(s, p, e, allow)
    OBVIOUS
  <2>10. out = [s EXCEPT !.seq = s.seq + 1, !.tail = Trimmed(Append(s.tail, b))]
    BY <2>7, <2>9 DEF WithBreadcrumb, Trimmed
  <2>11. Trimmed(Append(s.tail, b)) \in Seq(Crumb)
    <3>1. s.tail \in Seq(Crumb)
      BY <2>5 DEF Stored
    <3> QED BY <2>8, <3>1, TrimmedFacts DEF Ends
  <2>12. out \in Stored /\ out.seq = s.seq + 1 /\ out.epoch = s.epoch /\ out.tail = Trimmed(Append(s.tail, b))
    <3>1. PICK t \in Seq(Crumb) : t = Trimmed(Append(s.tail, b))
      BY <2>11
    <3>2. s.seq + 1 \in Nat
      BY <2>5 DEF Stored
    <3> QED BY <2>5, <2>10, <3>1, <3>2 DEF Stored
  <2>13. PICK n : n = [c EXCEPT !.at = "writing", !.fence = 0, !.out = out, !.allow = allow]
    OBVIOUS
  <2>14. n \in GateCall /\ n.out = out /\ n.allow = allow
    BY <1>1, <2>12, <2>13 DEF GateCall
  <2>15. Moves(p, n)
    BY <1>5, <2>1, <2>2, <2>9, <2>13 DEF Writes
  <2>16. s.epoch \in Nat /\ r.epoch \in Nat
    BY <1>3, <2>5 DEF Stored
  <2>17. Follows(n, durableState)
    BY <1>3, <2>5, <2>6, <2>8, <2>12, <2>14, <2>16 DEF Follows
  <2> QED BY <1>1, <2>14, <2>15, <2>17, MovesKeeps DEF Under
<1> QED BY <1>2, <1>4, <1>5 DEF DecideHandle

\* A write, also one that fails before or after its rename, keeps the trail.
LEMMA PersistKeeps ==
  ASSUME GateInv, NEW p \in GateProcess, Persist(p) \/ PersistFails(p)
  PROVE  GateInv'
<1> DEFINE c == process[p]
<1>1. /\ GateTyped /\ c \in GateCall /\ stateLock = p /\ c.at = "writing" /\ Follows(c, durableState)
      /\ process \in [GateProcess -> GateCall] /\ DecisionsStand /\ \A d \in told : d.epoch <= durableState.epoch
      /\ stateLock' = stateLock
  BY DEF GateInv, GateTyped, Under, Persist, PersistFails
<1>2. EmptyState \in Stored
  <2>1. << >> \in Seq(Crumb)
    OBVIOUS
  <2> QED BY <2>1 DEF EmptyState, Stored
<1>3. PICK n \in GateCall : n.at = "unlocking" /\ Moves(p, n)
  <2>1. CASE Persist(p)
    <3>1. PICK bound : bound = IF c.call = "bind" THEN c.out.policy ELSE c.bound
      OBVIOUS
    <3>2. bound \in {"none", "missing"} \cup Policy
      BY <1>1, <3>1 DEF GateCall, Stored
    <3>3. PICK n : n = [c EXCEPT !.at = "unlocking", !.call = "done", !.policy = "none", !.out = EmptyState, !.allow = FALSE,
                                 !.bound = bound]
      OBVIOUS
    <3>4. n \in GateCall /\ n.at = "unlocking"
      BY <1>1, <1>2, <3>2, <3>3 DEF GateCall, HookName
    <3>5. Moves(p, n)
      BY <2>1, <3>1, <3>3 DEF Persist
    <3> QED BY <3>4, <3>5
  <2>2. CASE PersistFails(p)
    <3>1. PICK n : n = [c EXCEPT !.at = "unlocking", !.call = "done", !.policy = "none", !.out = EmptyState, !.allow = FALSE]
      OBVIOUS
    <3>2. n \in GateCall /\ n.at = "unlocking"
      BY <1>1, <1>2, <3>1 DEF GateCall, HookName
    <3>3. Moves(p, n)
      BY <2>2, <3>1 DEF PersistFails
    <3> QED BY <3>2, <3>3
  <2> QED BY <2>1, <2>2
<1>4. process' \in [GateProcess -> GateCall] /\ \A q \in GateProcess : process'[q] = IF q = p THEN n ELSE process[q]
  BY <1>1, <1>3 DEF Moves
<1>5. CASE durableState' = c.out /\ (told' = told \/ told' = IF c.allow THEN told \cup {c.out.tail[Len(c.out.tail)]} ELSE told)
  <2>1. /\ durableState' \in Stored /\ told' \subseteq Crumb
        /\ \A d \in told' : d.epoch <= durableState'.epoch
        /\ DecisionsStand'
    BY <1>1, <1>5, StandsByFile
  <2>2. \A q \in GateProcess : process'[q].at \in Under => stateLock' = q
    BY <1>1, <1>4 DEF GateInv
  <2>3. \A q \in GateProcess : process'[q].at # "writing"
    BY <1>1, <1>3, <1>4 DEF GateInv, Under
  <2> QED BY <1>4, <2>1, <2>2, <2>3 DEF GateInv, GateTyped
<1>6. CASE UNCHANGED <<durableState, told>>
  BY <1>1, <1>3, <1>6, MovesKeeps
<1>7. CASE Persist(p)
  BY <1>5, <1>7 DEF Persist
<1>8. CASE PersistFails(p)
  BY <1>5, <1>6, <1>8 DEF PersistFails
<1> QED BY <1>7, <1>8

\* The steps before and after a decision and the end or death of a hook keep the invariant:
\* a lock file goes to no second hook.
LEMMA CallsKeep ==
  ASSUME GateInv, NEW p \in GateProcess,
         \/ EnsureDurableState(p) \/ RecoverStale(p) \/ Acquire(p) \/ LockBusy(p) \/ Handle(p) \/ AuthorizeActiveRoot(p)
         \/ ReleaseStateLock(p) \/ ProcessEnds(p) \/ ProcessKilled(p) \/ \E policy \in Policy : NewAdapter(p, policy)
  PROVE  GateInv'
<1> DEFINE c == process[p]
<1>1. GateTyped /\ c \in GateCall
  BY DEF GateInv, GateTyped
<1>2. EmptyState \in Stored
  <2>1. << >> \in Seq(Crumb)
    OBVIOUS
  <2> QED BY <2>1 DEF EmptyState, Stored
<1>3. /\ Closed \in GateCall /\ Closed.at = "idle"
      /\ [Closed EXCEPT !.bound = c.bound] \in GateCall /\ [Closed EXCEPT !.bound = c.bound].at = "idle"
      /\ [Closed EXCEPT !.at = "waiting", !.call = "ensure"] \in GateCall
      /\ [Closed EXCEPT !.at = "waiting", !.call = "ensure"].at = "waiting"
  BY <1>1, <1>2 DEF GateCall, HookName, Closed
<1>4. ASSUME NEW n \in GateCall, n.at \in {"idle", "waiting"}, Moves(p, n), UNCHANGED <<durableState, told, stateLock>>
      PROVE  GateInv'
  BY <1>4, MovesKeeps DEF Under
<1>5. CASE EnsureDurableState(p)
  BY <1>3, <1>4, <1>5 DEF EnsureDurableState
<1>6. CASE RecoverStale(p)
  <2>1. [c EXCEPT !.at = "waiting", !.call = "recover"] \in GateCall
    BY <1>1 DEF GateCall, HookName
  <2>2. [c EXCEPT !.at = "waiting", !.call = "recover"].at = "waiting"
    BY <1>1 DEF GateCall
  <2> QED BY <1>4, <1>6, <2>1, <2>2 DEF RecoverStale
<1>7. CASE Acquire(p)
  <2>1. [c EXCEPT !.at = "holding"] \in GateCall /\ [c EXCEPT !.at = "holding"].at = "holding"
    BY <1>1 DEF GateCall
  <2>2. \A q \in GateProcess \ {p} : process[q].at \notin Under
    <3>1. stateLock = "free" /\ stateLock' = p
      BY <1>7 DEF Acquire, LockFree
    <3> QED BY <3>1, GateAssumption DEF GateInv
  <2>3. stateLock' = p /\ Moves(p, [c EXCEPT !.at = "holding"]) /\ UNCHANGED <<durableState, told>>
    BY <1>7 DEF Acquire
  <2> QED BY <2>1, <2>2, <2>3, MovesKeeps
<1>8. CASE LockBusy(p) \/ ReleaseStateLock(p)
  <2>1. Moves(p, [Closed EXCEPT !.bound = c.bound]) /\ UNCHANGED <<durableState, told>>
    BY <1>8 DEF LockBusy, ReleaseStateLock, Rests
  <2>2. \A q \in GateProcess \ {p} : process[q].at \in Under => stateLock' = stateLock
    BY <1>8 DEF LockBusy, ReleaseStateLock, GateInv
  <2> QED BY <1>3, <2>1, <2>2, MovesKeeps DEF Under
<1>9. CASE Handle(p)
  <2>1. PICK fence \in {0, Refreshed.epoch} : Moves(p, [c EXCEPT !.at = "waiting", !.call = "handle", !.fence = fence])
    BY <1>9 DEF Handle
  <2>2. fence \in Nat
    BY <1>1, RefreshedFacts DEF Stored
  <2>3. [c EXCEPT !.at = "waiting", !.call = "handle", !.fence = fence] \in GateCall
    BY <1>1, <2>2 DEF GateCall, HookName
  <2>4. [c EXCEPT !.at = "waiting", !.call = "handle", !.fence = fence].at = "waiting"
    BY <1>1 DEF GateCall
  <2>5. UNCHANGED <<durableState, told, stateLock>>
    BY <1>9 DEF Handle
  <2> QED BY <1>4, <2>1, <2>3, <2>4, <2>5
<1>10. CASE AuthorizeActiveRoot(p)
  <2>1. [c EXCEPT !.at = "waiting", !.call = "authorize"] \in GateCall
    BY <1>1 DEF GateCall, HookName
  <2>2. [c EXCEPT !.at = "waiting", !.call = "authorize"].at = "waiting"
    BY <1>1 DEF GateCall
  <2> QED BY <1>4, <1>10, <2>1, <2>2 DEF AuthorizeActiveRoot
<1>11. CASE ProcessEnds(p) \/ ProcessKilled(p)
  BY <1>3, <1>4, <1>11 DEF ProcessEnds, ProcessKilled
<1>12. ASSUME NEW policy \in Policy, NewAdapter(p, policy)
       PROVE  GateInv'
  <2>1. PICK n : n = [Closed EXCEPT !.at = "waiting", !.call = "bind", !.policy = policy]
    OBVIOUS
  <2>2. n = [at |-> "waiting", bound |-> "none", call |-> "bind", policy |-> policy, fence |-> 0, out |-> EmptyState, allow |-> FALSE]
    BY <2>1 DEF Closed
  <2>3. n \in GateCall /\ n.at = "waiting"
    BY <1>2, <2>2 DEF GateCall, HookName
  <2> QED BY <1>4, <1>12, <2>1, <2>3 DEF NewAdapter
<1> QED BY <1>5, <1>6, <1>7, <1>8, <1>9, <1>10, <1>11, <1>12

\* Handle and its breadcrumbs: for any number of hooks, any length of the tail and any failed
\* writes and kills, every permission told stands in the durable trail while the tail
\* reaches back to it, and no fence epoch was told to two callers who opened a branch.
THEOREM GateDecisionsStand == GateSpec => []DecisionsStand
<1>1. GateInit => GateInv
  <2>1. << >> \in Seq(Crumb)
    OBVIOUS
  <2>2. EmptyState \in Stored /\ Missing \in Stored
    BY <2>1 DEF EmptyState, Missing, Stored
  <2>3. Closed \in GateCall /\ Closed.at = "idle"
    BY <2>2 DEF Closed, GateCall, HookName
  <2> QED BY <2>2, <2>3 DEF GateInit, GateInv, GateTyped, Under, DecisionsStand
<1>2. GateInv /\ [GateNext]_gateVars => GateInv'
  <2> SUFFICES ASSUME GateInv, [GateNext]_gateVars
               PROVE  GateInv'
    OBVIOUS
  <2>1. CASE Ages \/ UNCHANGED gateVars
    <3>1. UNCHANGED <<durableState, stateLock, process, told>>
      BY <2>1 DEF Ages, gateVars
    <3>2. GateTyped' /\ DecisionsStand'
      BY <3>1 DEF GateInv, GateTyped, DecisionsStand
    <3> QED BY <3>1, <3>2 DEF GateInv
  <2>2. ASSUME NEW p \in GateProcess,
               \/ EnsureDurableState(p) \/ RecoverStale(p) \/ Acquire(p) \/ LockBusy(p)
               \/ Handle(p) \/ AuthorizeActiveRoot(p)
               \/ DecideEnsure(p) \/ DecideBind(p) \/ DecideRecover(p) \/ DecideAuthorize(p)
               \/ Persist(p) \/ PersistFails(p) \/ ReleaseStateLock(p) \/ ProcessEnds(p) \/ ProcessKilled(p)
               \/ \E policy \in Policy : NewAdapter(p, policy)
               \/ \E e \in Event : DecideHandle(p, e)
        PROVE  GateInv'
    BY <2>2, DecideKeeps, HandleKeeps, PersistKeeps, CallsKeep
  <2> QED BY <2>1, <2>2 DEF GateNext
<1>3. GateInv => DecisionsStand
  BY DEF GateInv
<1> QED BY <1>1, <1>2, <1>3, PTL DEF GateSpec

-----------------------------------------------------------------------------
(***************************************************************************)
(* QualityLoop.  The chain alone does not tell who approved what: the      *)
(* invariant finds the last Case return among the receipts, and after it   *)
(* the approvals of this very content by the agents the plan binds;        *)
(* LeastNumber is there because find takes the least id.                   *)
(***************************************************************************)
\* The shorter of two intervals is the smaller set.
LEMMA SmallerInterval ==
  ASSUME NEW y \in Nat, NEW m \in Nat, NEW n \in Nat, y < m, m <= n
  PROVE  <<1..y, 1..m>> \in StrictSubsetOrdering(1..n)
<1>1. 1..y \subseteq 1..m /\ 1..m \subseteq 1..n /\ 1..y \subseteq 1..n
  OBVIOUS
<1>2. m \in 1..m /\ m \notin 1..y
  OBVIOUS
<1> QED
  BY <1>1, <1>2 DEF StrictSubsetOrdering

\* Every set of numbers that is not empty has a least one.
LEMMA LeastNumber ==
  ASSUME NEW T, T \subseteq Nat, T # {}
  PROVE  \E x \in T : \A y \in T : x <= y
<1>1. PICK n : n \in T
  OBVIOUS
<1> DEFINE below == {1..k : k \in {j \in T : j <= n}}
<1>2. IsFiniteSet(1..n) /\ n \in Nat
  BY <1>1, FS_Interval
<1>3. IsWellFoundedOn(StrictSubsetOrdering(1..n), SUBSET (1..n))
  BY <1>2, FS_StrictSubsetOrderingWellFounded, FS_FiniteSubsetsOfFinite
<1>4. below \subseteq SUBSET (1..n) /\ below # {}
  <2>1. \A k \in T : k \in Nat
    OBVIOUS
  <2>2. n \in {j \in T : j <= n}
    BY <1>1, <2>1
  <2>3. 1..n \in below
    BY <2>2
  <2>4. ASSUME NEW k \in {j \in T : j <= n} PROVE 1..k \in SUBSET (1..n)
    <3>1. k \in Nat /\ n \in Nat /\ k <= n
      BY <1>1, <2>1
    <3> QED
      BY <3>1
  <2> QED
    BY <2>3, <2>4
<1>5. PICK least \in below : \A s \in below : <<s, least>> \notin StrictSubsetOrdering(1..n)
  <2> HIDE DEF below
  <2> QED
    BY <1>3, <1>4, WFMin
<1>6. PICK m \in T : m <= n /\ least = 1..m
  BY DEF below
<1>7. ASSUME NEW y \in T, y < m PROVE FALSE
  <2>1. y \in Nat /\ m \in Nat /\ n \in Nat
    BY <1>2, <1>6, <1>7
  <2>2. y < m /\ m <= n
    BY <1>6, <1>7
  <2>3. y <= n
    BY <2>1, <2>2
  <2>4. 1..y \in below
    BY <2>1, <2>3
  <2> HIDE DEF below
  <2>5. <<1..y, 1..m>> \in StrictSubsetOrdering(1..n)
    BY <2>1, <2>2, SmallerInterval
  <2> QED
    BY <1>5, <1>6, <2>4, <2>5
<1>8. ASSUME NEW y \in T PROVE m <= y
  <2>1. y \in Nat /\ m \in Nat /\ ~(y < m)
    BY <1>6, <1>7
  <2> QED
    BY <2>1
<1> QED
  BY <1>6, <1>8

\* QualityLoop.  Find returns an agent that is available.
LEMMA FindAvailable ==
  ASSUME NEW r \in Request, NEW need, Available(r, need) # {}
  PROVE  Find(r, need) \in Available(r, need)
<1> DEFINE ids == {a.id : a \in Available(r, need)}
<1>1. ids \subseteq Nat /\ ids # {}
  BY RequestAssumption DEF Available
<1>2. PICK n \in ids : \A m \in ids : n <= m
  <2> HIDE DEF ids
  <2> QED
    BY <1>1, LeastNumber
<1>3. \E a \in Available(r, need) : \A b \in Available(r, need) : a.id <= b.id
  BY <1>2
<1> QED
  BY <1>3 DEF Find

\* Who is bound in the plan of a Case.
CaseRole(r) == Role("case_agent", r.kind, r.scope)
AccountRole(r) == Role("client_account_agent", "account", AccountScope(r))
Fills(a, need) == Role(a.role, a.kind, a.scope) = need
BoundFor(r, role, need) ==
  /\ Bound(PlanOf(r), role) \in r.agents
  /\ Bound(PlanOf(r), role).role = role /\ Fills(Bound(PlanOf(r), role), need)

\* A role is told by its name, kind and scope (find).
LEMMA RoleParts ==
  \A role, kind, scope, role2, kind2, scope2 :
    Role(role, kind, scope) = Role(role2, kind2, scope2) => role = role2 /\ kind = kind2 /\ scope = scope2
  BY DEF Role

\* The agent bound to a role the route needs is registered and fits that role in its
\* scope (PlanFor).
LEMMA BoundToNeed ==
  ASSUME NEW r \in Request, Routable(r), NEW role, NEW kind, NEW scope,
         Role(role, kind, scope) \in RolesNeeded(r),
         \A need \in RolesNeeded(r) : need.role = role => need = Role(role, kind, scope)
  PROVE  BoundFor(r, role, Role(role, kind, scope))
<1> DEFINE need == Role(role, kind, scope)
<1>1. \A x \in RolesNeeded(r) : Find(r, x) \in r.agents /\ Fills(Find(r, x), x)
  BY FindAvailable DEF Routable, Available, Fills
<1>2. PlanOf(r).bindings = {Find(r, x) : x \in RolesNeeded(r)}
  BY DEF PlanOf
<1>3. Find(r, need) \in PlanOf(r).bindings /\ Find(r, need).role = role
  BY <1>1, <1>2, RoleParts DEF Fills
<1>4. Bound(PlanOf(r), role) \in PlanOf(r).bindings /\ Bound(PlanOf(r), role).role = role
  BY <1>3 DEF Bound
<1>5. PICK x \in RolesNeeded(r) : Bound(PlanOf(r), role) = Find(r, x)
  BY <1>2, <1>4
<1>6. x.role = role
  BY <1>1, <1>4, <1>5 DEF Fills, Role
<1> QED
  BY <1>1, <1>4, <1>5, <1>6 DEF BoundFor

\* Who is bound in the valid plan of a Case: its Case agent, the agent of that Case's
\* parent account, and Yoda (validatePlanBindings).
LEMMA CaseBindings ==
  ASSUME NEW r \in Request, Routable(r), r.intent = "case_execution", ValidPlan(PlanOf(r))
  PROVE  /\ BoundFor(r, "case_agent", CaseRole(r))
         /\ AccountConsultation(r) =>
              /\ BoundFor(r, "client_account_agent", AccountRole(r))
              /\ Bound(PlanOf(r), "client_account_agent").scope = Bound(PlanOf(r), "case_agent").parent
         /\ r.material => BoundFor(r, "reviewer", Reviewer)
<1>1. RolesNeeded(r) = CaseRoles(r)
  BY DEF RolesNeeded
<1>2. \A need \in CaseRoles(r) : /\ need.role = "case_agent" => need = CaseRole(r)
                                 /\ need.role = "client_account_agent" => need = AccountRole(r)
                                 /\ need.role = "reviewer" => need = Reviewer
  BY DEF CaseRoles, CaseRole, AccountRole, Reviewer, Role
<1>3. BoundFor(r, "case_agent", CaseRole(r))
  BY <1>1, <1>2, BoundToNeed DEF CaseRoles, CaseRole
<1>4. ASSUME AccountConsultation(r)
      PROVE  /\ BoundFor(r, "client_account_agent", AccountRole(r))
             /\ Bound(PlanOf(r), "client_account_agent").scope = Bound(PlanOf(r), "case_agent").parent
  <2>1. AccountRole(r) \in RolesNeeded(r)
    BY <1>1, <1>4 DEF CaseRoles, AccountRole
  <2>2. BoundFor(r, "client_account_agent", AccountRole(r))
    BY <1>1, <1>2, <2>1, BoundToNeed DEF AccountRole
  <2>3. PlanOf(r).entry = "account_first"
    BY <1>4 DEF PlanOf, CaseEntry
  <2> QED
    BY <2>2, <2>3 DEF ValidPlan, ParentBound
<1>5. ASSUME r.material PROVE BoundFor(r, "reviewer", Reviewer)
  BY <1>1, <1>2, <1>5, BoundToNeed DEF CaseRoles, YodaRequired, Reviewer
<1> QED
  BY <1>3, <1>4, <1>5

\* The chain of a Case, and what its receipts say.
CaseStage == {"account_framing", "case_execution", "account_validation", "yoda_review", "final"}
Digest == Content \cup {NoDigest}
StageReceipt == [stage : CaseStage, agent : Nat, decision : Decision, content : Digest]
CaseChains ==
  [stage : CaseStage, active : Nat, content : Digest, accountApproval : Digest,
   accountCycles : Nat, yodaCycles : Nat, caseAttempts : Nat, receipts : Seq(StageReceipt)]

\* (p: the plan, c: the chain.)  The last Case return is receipt k and gave the
\* content; receipt j approves this content.
WorkAt(p, c, k) ==
  /\ k \in DOMAIN c.receipts /\ c.receipts[k].stage = "case_execution"
  /\ c.receipts[k].agent = Bound(p, "case_agent").id /\ c.receipts[k].content = c.content
  /\ \A j \in k+1 .. Len(c.receipts) : c.receipts[j].stage # "case_execution"
ApprovalAt(p, c, j, stage, role) ==
  /\ c.receipts[j].stage = stage /\ c.receipts[j].decision = "approve"
  /\ c.receipts[j].content = c.content /\ c.receipts[j].agent = Bound(p, role).id
ValidatedAt(p, c, j) == ApprovalAt(p, c, j, "account_validation", "client_account_agent")
ReviewedAt(p, c, j) == ApprovalAt(p, c, j, "yoda_review", "reviewer")

\* From where on a review counts: after the validation, if there has to be one.
Clear(p, c, k, j) ==
  /\ WorkAt(p, c, k)
  /\ IF p.validation THEN j \in k+1 .. Len(c.receipts) /\ ValidatedAt(p, c, j) ELSE j = k
CaseWorked(p, c) == \E k \in DOMAIN c.receipts : WorkAt(p, c, k)
Cleared(p, c) == \E k, j \in DOMAIN c.receipts : Clear(p, c, k, j)
Approved(p, c) ==
  \E k, j \in DOMAIN c.receipts :
    /\ Clear(p, c, k, j)
    /\ p.yoda => \E l \in j+1 .. Len(c.receipts) : ReviewedAt(p, c, l)

CaseChain(p, c) ==
  /\ c \in CaseChains
  /\ c.stage = "account_framing" => c.active = Bound(p, "client_account_agent").id
  /\ c.stage = "case_execution" => c.active = Bound(p, "case_agent").id
  /\ c.stage = "account_validation" => c.active = Bound(p, "client_account_agent").id /\ p.validation /\ CaseWorked(p, c)
  /\ c.stage = "yoda_review" => c.active = Bound(p, "reviewer").id /\ p.yoda /\ Cleared(p, c)
  /\ c.stage = "final" => Approved(p, c)

LoopInv ==
  \/ request = NoRequest /\ routePlan = NoPlan /\ chain = NoChain
  \/ /\ request \in Request /\ Routable(request) /\ routePlan = PlanOf(request)
     /\ request.intent = "case_execution" /\ chain # NoChain => ValidPlan(routePlan) /\ CaseChain(routePlan, chain)

\* The ids of those bound are numbers.
LEMMA BoundIds ==
  ASSUME NEW r \in Request, Routable(r), r.intent = "case_execution", ValidPlan(PlanOf(r))
  PROVE  /\ Bound(PlanOf(r), "case_agent").id \in Nat
         /\ PlanOf(r).validation => Bound(PlanOf(r), "client_account_agent").id \in Nat
         /\ PlanOf(r).yoda => Bound(PlanOf(r), "reviewer").id \in Nat
         /\ PlanOf(r).entry = (IF PlanOf(r).validation THEN "account_first" ELSE "direct_case")
         /\ PlanOf(r).validation = AccountConsultation(r) /\ PlanOf(r).yoda = r.material
         /\ PlanOf(r).validation \in BOOLEAN /\ PlanOf(r).yoda \in BOOLEAN
<1>1. /\ PlanOf(r).entry = (IF AccountConsultation(r) THEN "account_first" ELSE "direct_case")
      /\ PlanOf(r).validation = (PlanOf(r).entry = "account_first") /\ PlanOf(r).yoda = (TRUE /\ r.material)
  BY DEF PlanOf, CaseEntry, YodaRequired
<1>2. AccountConsultation(r) \in BOOLEAN /\ r.material \in BOOLEAN
  BY RequestAssumption DEF AccountConsultation
<1>3. PlanOf(r).validation = AccountConsultation(r) /\ PlanOf(r).yoda = r.material
  BY <1>1, <1>2
<1> QED
  BY <1>1, <1>2, <1>3, CaseBindings, RequestAssumption DEF BoundFor

\* A chain after an event: a receipt more, and perhaps another content.
After(c, n, receipt) == n.receipts = Append(c.receipts, receipt)

\* A receipt more leaves the earlier ones where they were (Advance).
LEMMA Appends ==
  ASSUME NEW c \in CaseChains, NEW x \in StageReceipt, NEW n, n.receipts = Append(c.receipts, x)
  PROVE  /\ n.receipts \in Seq(StageReceipt) /\ Len(n.receipts) = Len(c.receipts) + 1 /\ Len(c.receipts) \in Nat
         /\ DOMAIN c.receipts = 1..Len(c.receipts) /\ DOMAIN n.receipts = 1..Len(n.receipts)
         /\ n.receipts[Len(n.receipts)] = x
         /\ \A k \in DOMAIN c.receipts : n.receipts[k] = c.receipts[k]
  BY DEF CaseChains

\* Content that was worked and cleared stays so under receipts of other stages.
LEMMA WorkedStays ==
  ASSUME NEW p, NEW c \in CaseChains, NEW n, NEW x \in StageReceipt,
         n.receipts = Append(c.receipts, x), n.content = c.content, x.stage # "case_execution"
  PROVE  /\ \A k : WorkAt(p, c, k) => WorkAt(p, n, k)
         /\ \A k, j : Clear(p, c, k, j) => Clear(p, n, k, j)
<1>1. /\ Len(n.receipts) = Len(c.receipts) + 1 /\ Len(c.receipts) \in Nat
      /\ DOMAIN c.receipts = 1..Len(c.receipts) /\ DOMAIN n.receipts = 1..Len(n.receipts)
      /\ n.receipts[Len(n.receipts)] = x
      /\ \A k \in DOMAIN c.receipts : n.receipts[k] = c.receipts[k]
  BY Appends
<1>2. ASSUME NEW k, WorkAt(p, c, k) PROVE WorkAt(p, n, k)
  BY <1>1, <1>2 DEF WorkAt
<1>3. ASSUME NEW k, NEW j, Clear(p, c, k, j) PROVE Clear(p, n, k, j)
  <2>1. WorkAt(p, n, k) /\ k \in 1..Len(c.receipts)
    BY <1>1, <1>2, <1>3 DEF Clear, WorkAt
  <2>2. p.validation => j \in k+1 .. Len(c.receipts) /\ ValidatedAt(p, c, j)
    BY <1>3 DEF Clear
  <2>3. p.validation => j \in k+1 .. Len(n.receipts) /\ ValidatedAt(p, n, j)
    BY <1>1, <2>1, <2>2 DEF ValidatedAt, ApprovalAt
  <2> QED
    BY <1>3, <2>1, <2>3 DEF Clear
<1> QED
  BY <1>2, <1>3

\* A chain that went on to another stage, in its fields.
MovesTo(c, n, stage, active, content) ==
  /\ n \in CaseChains /\ n.stage = stage /\ n.active = active /\ n.content = content

\* What an event records.
Recorded(c, e) == LoopReceipt(c.stage, e.agent, e.decision, e.content)
Grown(n, c, e) == [n EXCEPT !.receipts = Append(@, Recorded(c, e))]

\* What an event records is a receipt of the stage and of its active agent (Advance).
LEMMA RecordedFits ==
  ASSUME NEW c \in CaseChains, NEW e \in AgentEvent, e.agent = c.active
  PROVE  /\ Recorded(c, e) \in StageReceipt /\ Append(c.receipts, Recorded(c, e)) \in Seq(StageReceipt)
         /\ Recorded(c, e).stage = c.stage /\ Recorded(c, e).agent = c.active
         /\ Recorded(c, e).decision = e.decision /\ Recorded(c, e).content = e.content
<1>1. e.decision \in Decision /\ e.content \in Digest /\ c.active \in Nat /\ c.stage \in CaseStage
  BY DEF AgentEvent, Digest, CaseChains
<1>2. Recorded(c, e) \in StageReceipt
  BY <1>1 DEF Recorded, LoopReceipt, StageReceipt
<1> QED
  BY <1>2 DEF Recorded, LoopReceipt, CaseChains

\* The stages a chain goes to, with its counters and approvals as they may be.
LEMMA GrownFits ==
  ASSUME NEW c \in CaseChains, NEW m \in CaseChains, NEW e \in AgentEvent, e.agent = c.active,
         m.receipts = c.receipts, NEW stage \in CaseStage, NEW active \in Nat
  PROVE  LET n == Grown(Goes(m, StageAt(stage, active)), c, e) IN
         MovesTo(c, n, stage, active, m.content) /\ n.receipts = Append(c.receipts, Recorded(c, e))
<1> DEFINE x == Append(c.receipts, Recorded(c, e))
           n == [stage |-> stage, active |-> active, content |-> m.content, accountApproval |-> m.accountApproval,
                 accountCycles |-> m.accountCycles, yodaCycles |-> m.yodaCycles, caseAttempts |-> m.caseAttempts,
                 receipts |-> x]
<1>1. x \in Seq(StageReceipt)
  BY RecordedFits
<1>2. m = [stage |-> m.stage, active |-> m.active, content |-> m.content, accountApproval |-> m.accountApproval,
           accountCycles |-> m.accountCycles, yodaCycles |-> m.yodaCycles, caseAttempts |-> m.caseAttempts,
           receipts |-> c.receipts]
  BY DEF CaseChains
<1> DEFINE g == [stage |-> stage, active |-> active, content |-> m.content, accountApproval |-> m.accountApproval,
                 accountCycles |-> m.accountCycles, yodaCycles |-> m.yodaCycles, caseAttempts |-> m.caseAttempts,
                 receipts |-> c.receipts]
<1>3. Grown(Goes(m, StageAt(stage, active)), c, e) = n
  <2>1. Goes(m, StageAt(stage, active)) = [m EXCEPT !.stage = stage, !.active = active]
    BY DEF Goes, StageAt
  <2>2. Goes(m, StageAt(stage, active)) = g
    BY <1>2, <2>1
  <2>3. Grown(g, c, e) = [g EXCEPT !.receipts = x]
    BY DEF Grown
  <2> QED
    BY <2>2, <2>3
<1>4. n \in CaseChains
  <2> HIDE DEF x
  <2> QED
    BY <1>1 DEF CaseChains
<1> QED
  BY <1>3, <1>4 DEF MovesTo

\* The chains an event makes before they move.
LEMMA CountedFits ==
  ASSUME NEW c \in CaseChains
  PROVE  /\ [c EXCEPT !.caseAttempts = @ + 1] \in CaseChains /\ [c EXCEPT !.caseAttempts = @ + 1].receipts = c.receipts
         /\ [c EXCEPT !.accountCycles = @ + 1] \in CaseChains /\ [c EXCEPT !.accountCycles = @ + 1].receipts = c.receipts
         /\ [c EXCEPT !.yodaCycles = @ + 1] \in CaseChains /\ [c EXCEPT !.yodaCycles = @ + 1].receipts = c.receipts
<1>1. c.caseAttempts + 1 \in Nat /\ c.accountCycles + 1 \in Nat /\ c.yodaCycles + 1 \in Nat
  BY DEF CaseChains
<1>2. \A n \in Nat : /\ [c EXCEPT !.caseAttempts = n] \in CaseChains /\ [c EXCEPT !.caseAttempts = n].receipts = c.receipts
                     /\ [c EXCEPT !.accountCycles = n] \in CaseChains /\ [c EXCEPT !.accountCycles = n].receipts = c.receipts
                     /\ [c EXCEPT !.yodaCycles = n] \in CaseChains /\ [c EXCEPT !.yodaCycles = n].receipts = c.receipts
  BY DEF CaseChains
<1> QED
  BY <1>1, <1>2

\* A chain whose approval was set or withdrawn is still a chain (Advance).
LEMMA ApprovedFits ==
  ASSUME NEW c \in CaseChains, NEW d \in Digest
  PROVE  LET m == [c EXCEPT !.accountApproval = d] IN
         m \in CaseChains /\ m.receipts = c.receipts /\ m.content = c.content
<1> DEFINE m == [stage |-> c.stage, active |-> c.active, content |-> c.content, accountApproval |-> d,
                 accountCycles |-> c.accountCycles, yodaCycles |-> c.yodaCycles, caseAttempts |-> c.caseAttempts,
                 receipts |-> c.receipts]
<1>0. c = [stage |-> c.stage, active |-> c.active, content |-> c.content, accountApproval |-> c.accountApproval,
           accountCycles |-> c.accountCycles, yodaCycles |-> c.yodaCycles, caseAttempts |-> c.caseAttempts,
           receipts |-> c.receipts]
  BY DEF CaseChains
<1>1. [c EXCEPT !.accountApproval = d] = m
  BY <1>0
<1>2. m \in CaseChains
  BY DEF CaseChains
<1> QED
  BY <1>1, <1>2

\* A chain whose content was set or withdrawn is still a chain (Advance).
LEMMA ReadFits ==
  ASSUME NEW c \in CaseChains, NEW d \in Digest
  PROVE  LET m == [c EXCEPT !.content = d] IN
         m \in CaseChains /\ m.receipts = c.receipts /\ m.content = d
<1> DEFINE m == [stage |-> c.stage, active |-> c.active, content |-> d, accountApproval |-> c.accountApproval,
                 accountCycles |-> c.accountCycles, yodaCycles |-> c.yodaCycles, caseAttempts |-> c.caseAttempts,
                 receipts |-> c.receipts]
<1>0. c = [stage |-> c.stage, active |-> c.active, content |-> c.content, accountApproval |-> c.accountApproval,
           accountCycles |-> c.accountCycles, yodaCycles |-> c.yodaCycles, caseAttempts |-> c.caseAttempts,
           receipts |-> c.receipts]
  BY DEF CaseChains
<1>1. [c EXCEPT !.content = d] = m
  BY <1>0
<1>2. m \in CaseChains
  BY DEF CaseChains
<1> QED
  BY <1>1, <1>2

\* A chain that took a Case return has its content and the same receipts (Advance).
LEMMA WorkedFits ==
  ASSUME NEW c \in CaseChains, NEW d \in Digest
  PROVE  LET m == [c EXCEPT !.caseAttempts = @ + 1, !.content = d, !.accountApproval = NoDigest] IN
         m \in CaseChains /\ m.receipts = c.receipts /\ m.content = d
<1> DEFINE c1 == [c EXCEPT !.caseAttempts = @ + 1]
           c2 == [c1 EXCEPT !.content = d]
           c3 == [c2 EXCEPT !.accountApproval = NoDigest]
<1>1. [c EXCEPT !.caseAttempts = @ + 1, !.content = d, !.accountApproval = NoDigest] = c3
  OBVIOUS
<1>2. c1 \in CaseChains /\ c1.receipts = c.receipts
  BY CountedFits
<1> HIDE DEF c1
<1>3. c2 \in CaseChains /\ c2.receipts = c.receipts /\ c2.content = d
  BY <1>2, ReadFits
<1> HIDE DEF c2
<1>4. c3 \in CaseChains /\ c3.receipts = c.receipts /\ c3.content = d
  BY <1>3, ApprovedFits DEF Digest
<1> QED
  BY <1>1, <1>4

\* A chain that was sent back keeps its receipts (Advance).
LEMMA RefinedFits ==
  ASSUME NEW c \in CaseChains
  PROVE  LET m == [c EXCEPT !.content = NoDigest, !.accountApproval = NoDigest] IN
         m \in CaseChains /\ m.receipts = c.receipts
<1> DEFINE c1 == [c EXCEPT !.content = NoDigest]
           c2 == [c1 EXCEPT !.accountApproval = NoDigest]
<1>1. [c EXCEPT !.content = NoDigest, !.accountApproval = NoDigest] = c2
  OBVIOUS
<1>2. c1 \in CaseChains /\ c1.receipts = c.receipts
  BY ReadFits DEF Digest
<1> HIDE DEF c1
<1> QED
  BY <1>1, <1>2, ApprovedFits DEF Digest

\* The chain goes back to the Case, on to Yoda, or is finished.
LEMMA ToCaseFits ==
  ASSUME LoopInv, request.intent = "case_execution", chain # NoChain, NEW e \in AgentEvent, e.agent = chain.active,
         NEW m \in CaseChains, m.receipts = chain.receipts
  PROVE  CaseChain(routePlan, Grown(ToCase(m), chain, e))
<1>1. /\ request \in Request /\ Routable(request) /\ routePlan = PlanOf(request) /\ ValidPlan(routePlan)
      /\ CaseChain(routePlan, chain) /\ chain \in CaseChains
  BY DEF LoopInv, CaseChain
<1>2. Bound(routePlan, "case_agent").id \in Nat
  BY <1>1, BoundIds
<1> DEFINE n == Grown(ToCase(m), chain, e)
<1>3. MovesTo(chain, n, "case_execution", Bound(routePlan, "case_agent").id, m.content)
  BY <1>1, <1>2, GrownFits DEF ToCase, CaseStage
<1> HIDE DEF n
<1>4. CaseChain(routePlan, n)
  BY <1>3 DEF MovesTo, CaseChain
<1> QED
  BY <1>4 DEF n

\* A chain that has the approvals it needs goes to Yoda or ends (Advance).
LEMMA ClearedFits ==
  ASSUME LoopInv, request.intent = "case_execution", chain # NoChain, NEW e \in AgentEvent, e.agent = chain.active,
         NEW m \in CaseChains, m.receipts = chain.receipts,
         \A n : n.receipts = Append(chain.receipts, Recorded(chain, e)) /\ n.content = m.content => Cleared(routePlan, n)
  PROVE  CaseChain(routePlan, Grown(AfterApproval(m), chain, e))
<1>1. /\ request \in Request /\ Routable(request) /\ routePlan = PlanOf(request) /\ ValidPlan(routePlan)
      /\ CaseChain(routePlan, chain) /\ chain \in CaseChains
  BY DEF LoopInv, CaseChain
<1> DEFINE n == Grown(AfterApproval(m), chain, e)
<1>2. CASE routePlan.yoda
  <2>1. Bound(routePlan, "reviewer").id \in Nat
    BY <1>1, <1>2, BoundIds
  <2>2. AfterApproval(m) = Goes(m, StageAt("yoda_review", Bound(routePlan, "reviewer").id))
    BY <1>2 DEF AfterApproval
  <2>3. /\ MovesTo(chain, n, "yoda_review", Bound(routePlan, "reviewer").id, m.content)
        /\ n.receipts = Append(chain.receipts, Recorded(chain, e))
    BY <1>1, <2>1, <2>2, GrownFits DEF CaseStage
  <2>4. Cleared(routePlan, n)
    BY <2>3 DEF MovesTo
  <2> HIDE DEF n
  <2>5. CaseChain(routePlan, n)
    BY <1>2, <2>3, <2>4 DEF MovesTo, CaseChain
  <2> QED
    BY <2>5 DEF n
<1>3. CASE ~routePlan.yoda
  <2>1. AfterApproval(m) = Goes(m, StageAt("final", 0))
    BY <1>3 DEF AfterApproval, Final
  <2>2. /\ MovesTo(chain, n, "final", 0, m.content)
        /\ n.receipts = Append(chain.receipts, Recorded(chain, e))
    BY <1>1, <2>1, GrownFits DEF CaseStage
  <2>3. Cleared(routePlan, n)
    BY <2>2 DEF MovesTo
  <2>4. Approved(routePlan, n)
    BY <1>3, <2>3 DEF Cleared, Approved
  <2> HIDE DEF n
  <2>5. CaseChain(routePlan, n)
    BY <2>2, <2>4 DEF MovesTo, CaseChain
  <2> QED
    BY <2>5 DEF n
<1> QED
  BY <1>2, <1>3

\* The Case returned content.
LEMMA ExecutedKeeps ==
  ASSUME LoopInv, request.intent = "case_execution", chain # NoChain, NEW e \in AgentEvent, e.agent = chain.active,
         chain.stage = "case_execution"
  PROVE  CaseChain(routePlan, Grown(Executed(chain, e), chain, e))
<1>1. /\ request \in Request /\ Routable(request) /\ routePlan = PlanOf(request) /\ ValidPlan(routePlan)
      /\ CaseChain(routePlan, chain) /\ chain \in CaseChains
  BY DEF LoopInv, CaseChain
<1>2. e.content \in Digest /\ chain.active = Bound(routePlan, "case_agent").id
  BY <1>1 DEF AgentEvent, Digest, CaseChain
<1> DEFINE m == [chain EXCEPT !.caseAttempts = @ + 1, !.content = e.content, !.accountApproval = NoDigest]
<1>3. m \in CaseChains /\ m.receipts = chain.receipts /\ m.content = e.content
  BY <1>1, <1>2, WorkedFits
<1>4. Executed(chain, e) = AfterCase(m)
  BY DEF Executed
<1> HIDE DEF m
<1>5. ASSUME NEW n, n.receipts = Append(chain.receipts, Recorded(chain, e)), n.content = m.content
      PROVE  WorkAt(routePlan, n, Len(n.receipts)) /\ Len(n.receipts) \in DOMAIN n.receipts
  <2>1. /\ Recorded(chain, e).stage = "case_execution" /\ Recorded(chain, e).agent = Bound(routePlan, "case_agent").id
        /\ Recorded(chain, e).content = n.content /\ Recorded(chain, e) \in StageReceipt
    BY <1>1, <1>2, <1>3, <1>5, RecordedFits
  <2>2. /\ Len(n.receipts) \in DOMAIN n.receipts /\ n.receipts[Len(n.receipts)] = Recorded(chain, e) /\ Len(n.receipts) \in Nat
    BY <1>1, <1>5, <2>1, Appends
  <2> QED
    BY <2>1, <2>2 DEF WorkAt
<1>6. CASE routePlan.validation
  <2> DEFINE n == Grown(Goes(m, StageAt("account_validation", Bound(routePlan, "client_account_agent").id)), chain, e)
  <2>1. Bound(routePlan, "client_account_agent").id \in Nat
    BY <1>1, <1>6, BoundIds
  <2>2. AfterCase(m) = Goes(m, StageAt("account_validation", Bound(routePlan, "client_account_agent").id))
    BY <1>6 DEF AfterCase
  <2>3. /\ MovesTo(chain, n, "account_validation", Bound(routePlan, "client_account_agent").id, m.content)
        /\ n.receipts = Append(chain.receipts, Recorded(chain, e))
    BY <1>1, <1>3, <2>1, GrownFits DEF CaseStage
  <2>4. Grown(Executed(chain, e), chain, e) = n
    BY <1>4, <2>2
  <2> HIDE DEF n
  <2>5. CaseWorked(routePlan, n)
    BY <1>5, <2>3 DEF MovesTo, CaseWorked
  <2> QED
    BY <1>6, <2>3, <2>4, <2>5 DEF MovesTo, CaseChain
<1>7. CASE ~routePlan.validation
  <2>1. AfterCase(m) = AfterApproval(m)
    BY <1>7 DEF AfterCase
  <2>2. ASSUME NEW n, n.receipts = Append(chain.receipts, Recorded(chain, e)), n.content = m.content
        PROVE  Cleared(routePlan, n)
    <3>1. WorkAt(routePlan, n, Len(n.receipts)) /\ Len(n.receipts) \in DOMAIN n.receipts
      BY <1>5, <2>2
    <3>2. Clear(routePlan, n, Len(n.receipts), Len(n.receipts))
      BY <1>7, <3>1 DEF Clear
    <3> QED
      BY <3>1, <3>2 DEF Cleared
  <2> QED
    BY <1>3, <1>4, <2>1, <2>2, ClearedFits
<1> QED
  BY <1>6, <1>7

\* The account's agent approved the content, or asked for another.
LEMMA ValidatedKeeps ==
  ASSUME LoopInv, request.intent = "case_execution", chain # NoChain, NEW e \in AgentEvent, Accepts(chain, e),
         chain.stage = "account_validation"
  PROVE  CaseChain(routePlan, Grown(AfterValidation(chain, e), chain, e))
<1>1. /\ request \in Request /\ Routable(request) /\ routePlan = PlanOf(request) /\ ValidPlan(routePlan)
      /\ CaseChain(routePlan, chain) /\ chain \in CaseChains
  BY DEF LoopInv, CaseChain
<1>2. /\ e.content \in Digest /\ e.agent = chain.active /\ chain.active = Bound(routePlan, "client_account_agent").id
      /\ routePlan.validation /\ CaseWorked(routePlan, chain)
      /\ (e.decision = "approve" /\ e.content = chain.content) \/ e.decision = "refine"
  BY <1>1 DEF AgentEvent, Digest, CaseChain, Accepts, Approves
<1>3. CASE e.decision = "approve"
  <2> DEFINE m == [chain EXCEPT !.accountApproval = e.content]
  <2>1. m \in CaseChains /\ m.receipts = chain.receipts /\ m.content = chain.content
    BY <1>1, <1>2, ApprovedFits
  <2>2. AfterValidation(chain, e) = AfterApproval(m)
    BY <1>3 DEF AfterValidation
  <2> HIDE DEF m
  <2>3. ASSUME NEW n, n.receipts = Append(chain.receipts, Recorded(chain, e)), n.content = m.content
        PROVE  Cleared(routePlan, n)
    <3>1. PICK k \in DOMAIN chain.receipts : WorkAt(routePlan, chain, k)
      BY <1>2 DEF CaseWorked
    <3>2. /\ Recorded(chain, e).stage = "account_validation" /\ Recorded(chain, e).agent = chain.active
          /\ Recorded(chain, e).decision = "approve" /\ Recorded(chain, e).content = n.content
          /\ Recorded(chain, e) \in StageReceipt
      BY <1>1, <1>2, <1>3, <2>1, <2>3, RecordedFits
    <3>3. /\ Len(n.receipts) = Len(chain.receipts) + 1 /\ Len(chain.receipts) \in Nat
          /\ DOMAIN chain.receipts = 1..Len(chain.receipts) /\ DOMAIN n.receipts = 1..Len(n.receipts)
          /\ n.receipts[Len(n.receipts)] = Recorded(chain, e)
      BY <1>1, <2>3, <3>2, Appends
    <3>4. WorkAt(routePlan, n, k)
      BY <1>1, <2>1, <2>3, <3>1, <3>2, WorkedStays
    <3>5. Clear(routePlan, n, k, Len(n.receipts))
      BY <1>2, <3>1, <3>2, <3>3, <3>4 DEF Clear, ValidatedAt, ApprovalAt
    <3> QED
      BY <3>1, <3>3, <3>5 DEF Cleared
  <2> QED
    BY <1>2, <2>1, <2>2, <2>3, ClearedFits
<1>4. CASE e.decision # "approve"
  <2> DEFINE c1 == [chain EXCEPT !.accountCycles = @ + 1]
             m == [c1 EXCEPT !.content = NoDigest, !.accountApproval = NoDigest]
  <2>1. c1 \in CaseChains /\ c1.receipts = chain.receipts
    BY <1>1, CountedFits
  <2>2. AfterValidation(chain, e) = ToCase(m)
    BY <1>4 DEF AfterValidation, Refined
  <2> HIDE DEF c1
  <2>3. m \in CaseChains /\ m.receipts = chain.receipts
    BY <2>1, RefinedFits
  <2> HIDE DEF m
  <2> QED
    BY <1>2, <2>2, <2>3, ToCaseFits
<1> QED
  BY <1>3, <1>4

\* Yoda approved the content, or asked for another.
LEMMA ReviewedKeeps ==
  ASSUME LoopInv, request.intent = "case_execution", chain # NoChain, NEW e \in AgentEvent, Accepts(chain, e),
         chain.stage = "yoda_review"
  PROVE  CaseChain(routePlan, Grown(Reviewed(chain, e), chain, e)) /\ routePlan.entry # ""
<1>1. /\ request \in Request /\ Routable(request) /\ routePlan = PlanOf(request) /\ ValidPlan(routePlan)
      /\ CaseChain(routePlan, chain) /\ chain \in CaseChains
  BY DEF LoopInv, CaseChain
<1>2. routePlan.entry # ""
  BY <1>1, BoundIds
<1>3. /\ e.content \in Digest /\ e.agent = chain.active /\ chain.active = Bound(routePlan, "reviewer").id
      /\ routePlan.yoda /\ Cleared(routePlan, chain) /\ e.content = chain.content
  BY <1>1, <1>2 DEF AgentEvent, Digest, CaseChain, Accepts, AcceptsReview
<1>4. CASE e.decision = "approve"
  <2> DEFINE n == Grown(Goes(chain, StageAt("final", 0)), chain, e)
  <2>1. Grown(Reviewed(chain, e), chain, e) = n
    BY <1>4 DEF Reviewed, Final
  <2>2. /\ MovesTo(chain, n, "final", 0, chain.content)
        /\ n.receipts = Append(chain.receipts, Recorded(chain, e))
    BY <1>1, <1>3, GrownFits DEF CaseStage
  <2> HIDE DEF n
  <2>3. PICK k \in DOMAIN chain.receipts, j \in DOMAIN chain.receipts : Clear(routePlan, chain, k, j)
    BY <1>3 DEF Cleared
  <2>4. /\ Recorded(chain, e).stage = "yoda_review" /\ Recorded(chain, e).agent = chain.active
        /\ Recorded(chain, e).decision = "approve" /\ Recorded(chain, e).content = n.content
        /\ Recorded(chain, e) \in StageReceipt /\ n.content = chain.content
    BY <1>1, <1>3, <1>4, <2>2, RecordedFits DEF MovesTo
  <2>5. /\ Len(n.receipts) = Len(chain.receipts) + 1 /\ Len(chain.receipts) \in Nat
        /\ DOMAIN chain.receipts = 1..Len(chain.receipts) /\ DOMAIN n.receipts = 1..Len(n.receipts)
        /\ n.receipts[Len(n.receipts)] = Recorded(chain, e)
    BY <1>1, <2>2, <2>4, Appends
  <2>6. Clear(routePlan, n, k, j)
    BY <1>1, <2>2, <2>3, <2>4, WorkedStays
  <2>7. Len(n.receipts) \in j+1 .. Len(n.receipts) /\ ReviewedAt(routePlan, n, Len(n.receipts))
    BY <1>3, <2>3, <2>4, <2>5 DEF ReviewedAt, ApprovalAt
  <2>8. Approved(routePlan, n)
    BY <2>3, <2>5, <2>6, <2>7 DEF Approved
  <2> QED
    BY <1>2, <2>1, <2>2, <2>8 DEF MovesTo, CaseChain
<1>5. CASE e.decision # "approve"
  <2> DEFINE c1 == [chain EXCEPT !.yodaCycles = @ + 1]
             m == [c1 EXCEPT !.content = NoDigest, !.accountApproval = NoDigest]
  <2>1. c1 \in CaseChains /\ c1.receipts = chain.receipts
    BY <1>1, CountedFits
  <2>2. Reviewed(chain, e) = ToCase(m)
    BY <1>5 DEF Reviewed, Refined
  <2> HIDE DEF c1
  <2>3. m \in CaseChains /\ m.receipts = chain.receipts
    BY <2>1, RefinedFits
  <2> HIDE DEF m
  <2> QED
    BY <1>2, <1>3, <2>2, <2>3, ToCaseFits
<1> QED
  BY <1>4, <1>5

\* Every event, accepted or not, keeps the invariant.
LEMMA EventKeeps ==
  ASSUME LoopInv, chain # NoChain, NEW e \in AgentEvent, ExecuteAgentEvent(e)
  PROVE  LoopInv'
<1>1. UNCHANGED <<request, routePlan>>
  BY DEF ExecuteAgentEvent
<1>2. CASE request.intent # "case_execution" \/ chain' = NoChain
  BY <1>1, <1>2 DEF LoopInv
<1>3. CASE request.intent = "case_execution" /\ chain' # NoChain
  <2>1. /\ Accepts(chain, e) /\ chain' = Grown(Advanced(chain, e), chain, e)
    BY <1>3 DEF ExecuteAgentEvent, Grown, Recorded
  <2>2. CaseChain(routePlan, chain) /\ chain \in CaseChains /\ chain.stage \in CaseStage /\ e.agent = chain.active
    BY <1>3, <2>1 DEF LoopInv, CaseChain, CaseChains, Accepts
  <2>3. ASSUME chain.stage = "account_framing" PROVE CaseChain(routePlan, chain')
    <3>1. Advanced(chain, e) = ToCase(chain)
      BY <2>3 DEF Advanced
    <3> QED
      BY <1>3, <2>1, <2>2, <2>3, <3>1, ToCaseFits
  <2>4. ASSUME chain.stage = "case_execution" PROVE CaseChain(routePlan, chain')
    <3>1. Advanced(chain, e) = Executed(chain, e)
      BY <2>4 DEF Advanced
    <3> QED
      BY <1>3, <2>1, <2>2, <2>4, <3>1, ExecutedKeeps
  <2>5. ASSUME chain.stage = "account_validation" PROVE CaseChain(routePlan, chain')
    <3>1. Advanced(chain, e) = AfterValidation(chain, e)
      BY <2>5 DEF Advanced
    <3> QED
      BY <1>3, <2>1, <2>2, <2>5, <3>1, ValidatedKeeps
  <2>6. ASSUME chain.stage = "yoda_review" PROVE CaseChain(routePlan, chain')
    <3>1. CaseChain(routePlan, Grown(Reviewed(chain, e), chain, e)) /\ routePlan.entry # ""
      BY <1>3, <2>1, <2>6, ReviewedKeeps
    <3>2. Advanced(chain, e) = Reviewed(chain, e)
      BY <2>6, <3>1 DEF Advanced
    <3> QED
      BY <2>1, <3>1, <3>2
  <2>7. chain.stage # "final"
    BY <2>1 DEF Accepts
  <2>8. CaseChain(routePlan, chain')
    BY <2>2, <2>3, <2>4, <2>5, <2>6, <2>7 DEF CaseStage
  <2> QED
    BY <1>1, <1>3, <2>8 DEF LoopInv
<1> QED
  BY <1>2, <1>3

\* Where the chain of a Case begins on either entry (NewChain).
LEMMA FirstOfCase ==
  ASSUME NEW p, p.intent = "case_execution"
  PROVE  /\ p.entry = "account_first" => FirstStage(p) = StageAt("account_framing", Bound(p, "client_account_agent").id)
         /\ p.entry = "direct_case" => FirstStage(p) = StageAt("case_execution", Bound(p, "case_agent").id)
<1> DEFINE who == Bound(p, "client_account_agent").id
           case == Bound(p, "case_agent").id
           review == Bound(p, "reviewer").id
           other == (CHOOSE a \in p.bindings : TRUE).id
<1>1. FirstStage(p) = CASE p.entry = "account_first" -> StageAt("account_framing", who)
                        [] p.entry = "direct_case" -> StageAt("case_execution", case)
                        [] p.intent = "direct_answer" -> Final
                        [] p.intent = "material_review" -> StageAt("yoda_review", review)
                        [] OTHER -> StageAt("advisory", other)
  BY DEF FirstStage
<1> HIDE DEF who, case, review, other
<1>2. p.entry = "account_first" => FirstStage(p) = StageAt("account_framing", who)
  BY <1>1
<1>3. p.entry = "direct_case" => FirstStage(p) = StageAt("case_execution", case)
  BY <1>1
<1> QED
  BY <1>2, <1>3 DEF who, case

\* A plan for a request, and a chain for a plan.
LEMMA ChainBegins ==
  ASSUME LoopInv, NewChain
  PROVE  LoopInv'
<1>1. UNCHANGED <<request, routePlan>> /\ routePlan # NoPlan /\ ValidPlan(routePlan)
  BY DEF NewChain
<1>2. CASE request.intent # "case_execution"
  BY <1>1, <1>2 DEF LoopInv
<1>3. CASE request.intent = "case_execution"
  <2>1. request \in Request /\ Routable(request) /\ routePlan = PlanOf(request)
    BY <1>1 DEF LoopInv
  <2>2. /\ Bound(routePlan, "case_agent").id \in Nat
        /\ routePlan.validation => Bound(routePlan, "client_account_agent").id \in Nat
        /\ routePlan.entry = (IF routePlan.validation THEN "account_first" ELSE "direct_case")
    BY <1>1, <1>3, <2>1, BoundIds
  <2> DEFINE first == FirstStage(routePlan)
  <2>3. \/ first = StageAt("account_framing", Bound(routePlan, "client_account_agent").id) /\ routePlan.validation
        \/ first = StageAt("case_execution", Bound(routePlan, "case_agent").id)
    <3>1. routePlan.intent = "case_execution"
      BY <1>3, <2>1 DEF PlanOf
    <3>2. routePlan.validation \in BOOLEAN
      BY <1>1, <1>3, <2>1, BoundIds
    <3> HIDE DEF first
    <3>3. CASE routePlan.validation
      BY <2>2, <3>1, <3>3, FirstOfCase DEF first
    <3>4. CASE ~routePlan.validation
      BY <2>2, <3>1, <3>4, FirstOfCase DEF first
    <3> QED
      BY <3>2, <3>3, <3>4
  <2>4. first # Final /\ first.stage \in {"account_framing", "case_execution"} /\ first.active \in Nat
    BY <2>2, <2>3 DEF StageAt, Final
  <2> DEFINE n == [stage |-> first.stage, active |-> first.active, content |-> NoDigest, accountApproval |-> NoDigest,
                   accountCycles |-> 0, yodaCycles |-> 0, caseAttempts |-> 0, receipts |-> << >>]
  <2>5. chain' = n
    BY <2>4 DEF NewChain
  <2>6. n \in CaseChains
    <3>1. << >> \in Seq(StageReceipt)
      OBVIOUS
    <3> HIDE DEF first
    <3> QED
      BY <2>4, <3>1 DEF CaseChains, CaseStage, Digest
  <2>7. CaseChain(routePlan, n)
    BY <2>3, <2>4, <2>6 DEF CaseChain, StageAt
  <2> QED
    BY <1>1, <2>1, <2>5, <2>7 DEF LoopInv
<1> QED
  BY <1>2, <1>3

\* Every step keeps the invariant of the loop (PlanFor, NewChain, ExecuteAgentEvents).
LEMMA LoopStep == LoopInv /\ [LoopNext]_loopVars => LoopInv'
<1> SUFFICES ASSUME LoopInv, [LoopNext]_loopVars PROVE LoopInv'
  OBVIOUS
<1>1. ASSUME NEW r \in Request, PlanFor(r) PROVE LoopInv'
  <2>1. chain' = NoChain
    BY <1>1, RequestAssumption DEF PlanFor, LoopInv
  <2> QED
    BY <1>1, <2>1 DEF PlanFor, LoopInv
<1>2. CASE UNCHANGED loopVars
  BY <1>2 DEF loopVars, LoopInv
<1> QED
  BY <1>1, <1>2, ChainBegins, EventKeeps DEF LoopNext

\* The agent behind a receipt is the one bound.
LEMMA AgentBehind ==
  ASSUME NEW x, request \in Request, NEW a \in request.agents, x.agent = a.id
  PROVE  AgentOf(x) = a
  BY RequestAssumption DEF AgentOf

\* The invariant gives what a finished Case promises (Advance).
LEMMA ApprovedFromLoopInv == LoopInv => FinalIsApproved
<1> SUFFICES ASSUME LoopInv, chain # NoChain, chain.stage = "final", request.intent = "case_execution"
             PROVE  FinalIsApproved
  BY DEF FinalIsApproved
<1>1. /\ request \in Request /\ Routable(request) /\ routePlan = PlanOf(request) /\ ValidPlan(routePlan)
      /\ CaseChain(routePlan, chain) /\ chain \in CaseChains
  BY DEF LoopInv, CaseChain
<1> DEFINE case == Bound(routePlan, "case_agent")
           client == Bound(routePlan, "client_account_agent")
           yoda == Bound(routePlan, "reviewer")
           Lens == request.clientLens \/ ~request.executionOnly
<1>2. /\ case \in request.agents /\ case.scope = request.scope
      /\ Lens => client \in request.agents /\ client.role = "client_account_agent" /\ client.scope = case.parent
      /\ request.material => yoda \in request.agents /\ yoda.role = "reviewer"
  BY <1>1, CaseBindings DEF BoundFor, CaseRole, Fills, Role, AccountConsultation
<1>3. routePlan.validation = Lens /\ routePlan.yoda = request.material
  <2>1. AccountConsultation(request) = Lens
    BY <1>1, RequestAssumption DEF AccountConsultation
  <2> QED
    BY <1>1, <2>1, BoundIds
<1>4. PICK k \in DOMAIN chain.receipts, j \in DOMAIN chain.receipts :
        /\ Clear(routePlan, chain, k, j)
        /\ routePlan.yoda => \E l \in j+1 .. Len(chain.receipts) : ReviewedAt(routePlan, chain, l)
  BY <1>1 DEF CaseChain, Approved
<1>5. AgentOf(chain.receipts[k]) = case /\ WorkAt(routePlan, chain, k)
  BY <1>1, <1>2, <1>4, AgentBehind DEF Clear, WorkAt
<1>6. Lens => /\ j \in k+1 .. Len(chain.receipts) /\ ValidatedAt(routePlan, chain, j)
              /\ AgentOf(chain.receipts[j]) = client
  BY <1>1, <1>2, <1>3, <1>4, AgentBehind DEF Clear, ValidatedAt, ApprovalAt
<1>7. ~Lens => j = k
  BY <1>3, <1>4 DEF Clear
<1>8. request.material => \E l \in j+1 .. Len(chain.receipts) :
                            ReviewedAt(routePlan, chain, l) /\ AgentOf(chain.receipts[l]) = yoda
  BY <1>1, <1>2, <1>3, <1>4, AgentBehind DEF ReviewedAt, ApprovalAt
<1> HIDE DEF case, client, yoda
<1> DEFINE Later(from, stage, Fits(_)) ==
             {i \in from+1 .. Len(chain.receipts) :
                /\ chain.receipts[i].stage = stage /\ chain.receipts[i].decision = "approve"
                /\ chain.receipts[i].content = chain.content /\ Fits(AgentOf(chain.receipts[i]))}
           Accounts == Later(k, "account_validation",
                         LAMBDA a : a.role = "client_account_agent" /\ a.scope = AgentOf(chain.receipts[k]).parent)
<1>9. Lens => j \in Accounts
  BY <1>2, <1>5, <1>6 DEF ValidatedAt, ApprovalAt
<1>10. request.material => Later(j, "yoda_review", LAMBDA a : a.role = "reviewer") # {}
  BY <1>2, <1>8 DEF ReviewedAt, ApprovalAt
<1>11. /\ chain.receipts[k].stage = "case_execution" /\ chain.receipts[k].content = chain.content
       /\ AgentOf(chain.receipts[k]).scope = request.scope
       /\ \A i \in k+1 .. Len(chain.receipts) : chain.receipts[i].stage # "case_execution"
  BY <1>2, <1>5 DEF WorkAt
<1> HIDE DEF Lens
<1>12. j \in (IF Lens THEN Accounts ELSE {k})
  BY <1>7, <1>9
<1> QED
  BY <1>4, <1>9, <1>10, <1>11, <1>12 DEF FinalIsApproved, Lens

\* For any requests, agents, contents and budgets, a finished Case answers with what
\* its last return brought, approved afterwards by whoever has to (PlanFor, Advance).
THEOREM FinalWasApproved == LoopSpec => []FinalIsApproved
<1>1. LoopInit => LoopInv
  BY DEF LoopInit, LoopInv
<1> QED
  BY <1>1, LoopStep, ApprovedFromLoopInv, PTL DEF LoopSpec


-----------------------------------------------------------------------------
(***************************************************************************)
(* DispatchBoundary.  Receipts and their pointer are two files, so the     *)
(* invariant says which receipts an interrupted call can have left: epochs *)
(* grow, a receipt without a pointer is among those known to be so, and a  *)
(* finished one has a caller that committed its effects.                   *)
(***************************************************************************)
\* DispatchBoundary.  Receipts and what a process has been told.
ReceiptStatus == {"prepared", "finished"}
DispatchReceipt == [id : DispatchId, party : Party, payload : Payload, epoch : Nat \ {0}, status : ReceiptStatus]
DispatcherCall == {NoDispatch} \cup [at : {"prepared", "committed"}, occurrence : Occurrence, receipt : DispatchReceipt]

BoundaryTyped ==
  /\ dispatchReceipts \subseteq DispatchReceipt /\ current \in Nat
  /\ dispatcher \in [Dispatcher -> DispatcherCall]
  /\ chainFile \in Evidence \cup {NoChainFile} /\ acknowledged \in Evidence \cup {NoChainFile}

\* There is a highest epoch; the pointer names a receipt, if any.
Highest(m) == m \in {0} \cup {r.epoch : r \in dispatchReceipts} /\ \A r \in dispatchReceipts : r.epoch <= m
Alone == \A r, s \in dispatchReceipts : (r.epoch = s.epoch \/ r.id = s.id) => r = s
Pointed == current # 0 => CurrentReceipts # {}

\* A receipt that is still prepared and was pointed to from the first is the newest.
NewestIfPointed ==
  \A r \in dispatchReceipts : r.status = "prepared" /\ r.id \notin unpointed =>
    r.epoch = current /\ \A s \in dispatchReceipts : s.epoch <= r.epoch
EffectsCommitted ==
  /\ \A r \in dispatchReceipts : r.status = "finished" => \E o \in committed : SameOccurrence(r, o)
  /\ \A p \in Dispatcher : dispatcher[p].at = "committed" => dispatcher[p].occurrence \in committed
ChainKept == acknowledged # NoChainFile => chainFile # NoChainFile /\ IsPrefix(acknowledged, chainFile)

BoundaryInv ==
  /\ BoundaryTyped /\ (\E m \in Nat : Highest(m)) /\ Alone /\ Pointed
  /\ NewestIfPointed /\ EffectsCommitted /\ ChainKept

\* The next epoch is above every other.
LEMMA NextEpochAbove ==
  ASSUME BoundaryInv
  PROVE  NextEpoch \in Nat \ {0} /\ \A r \in dispatchReceipts : r.epoch < NextEpoch
<1> DEFINE epochs == {0} \cup {r.epoch : r \in dispatchReceipts}
<1>1. PICK m \in Nat : Highest(m)
  BY DEF BoundaryInv
<1>2. epochs \subseteq Nat
  BY DEF BoundaryInv, BoundaryTyped, DispatchReceipt
<1>3. m \in epochs /\ \A y \in epochs : m >= y
  BY <1>1 DEF Highest
<1>4. Max(epochs) \in epochs /\ \A y \in epochs : Max(epochs) >= y
  <2> HIDE DEF epochs
  <2> QED BY <1>3 DEF Max
<1> QED
  BY <1>2, <1>4 DEF NextEpoch, BoundaryInv, BoundaryTyped, DispatchReceipt

\* A function on 1..n is a sequence.
LEMMA ListIsSeq ==
  ASSUME NEW S, NEW n \in Nat, NEW a \in [1..n -> S]
  PROVE  a \in Seq(S)
  OBVIOUS

\* Being a prefix is transitive on lists.
LEMMA PrefixTransitive ==
  ASSUME NEW a \in Evidence, NEW b \in Evidence, NEW c \in Evidence, IsPrefix(a, b), IsPrefix(b, c)
  PROVE  IsPrefix(a, c)
<1>1. /\ Len(a) \in Nat /\ a = [k \in 1..Len(a) |-> a[k]]
      /\ Len(b) \in Nat /\ b = [k \in 1..Len(b) |-> b[k]]
      /\ Len(c) \in Nat /\ c = [k \in 1..Len(c) |-> c[k]]
  BY EvidenceAssumption
<1> DEFINE S == {a[k] : k \in 1..Len(a)} \cup {b[k] : k \in 1..Len(b)} \cup {c[k] : k \in 1..Len(c)}
<1>2. a \in Seq(S) /\ b \in Seq(S) /\ c \in Seq(S)
  <2>1. a \in [1..Len(a) -> S] /\ b \in [1..Len(b) -> S] /\ c \in [1..Len(c) -> S]
    BY <1>1
  <2> QED
    BY <2>1, <1>1, ListIsSeq
<1> HIDE DEF S
<1>3. \A k \in 1..Len(a) : SubSeq(a, 1, Len(a))[k] = a[k] /\ SubSeq(b, 1, Len(a))[k] = b[k] /\ SubSeq(c, 1, Len(a))[k] = c[k]
  BY <1>1, <1>2 DEF IsPrefix
<1>4. \A k \in 1..Len(b) : SubSeq(b, 1, Len(b))[k] = b[k] /\ SubSeq(c, 1, Len(b))[k] = c[k]
  BY <1>1, <1>2 DEF IsPrefix
<1>5. Len(a) <= Len(b) /\ Len(b) <= Len(c)
  BY DEF IsPrefix
<1>6. \A k \in 1..Len(a) : a[k] = c[k]
  BY <1>1, <1>3, <1>4, <1>5 DEF IsPrefix
<1>7. SubSeq(a, 1, Len(a)) = [k \in 1..Len(a) |-> a[k]] /\ SubSeq(c, 1, Len(a)) = [k \in 1..Len(a) |-> c[k]]
  BY <1>1, <1>2, <1>5
<1> QED
  BY <1>1, <1>5, <1>6, <1>7 DEF IsPrefix

\* The receipts an action leaves behind stay told apart and bounded.
ReceiptsKept ==
  /\ dispatchReceipts' \subseteq DispatchReceipt /\ (\E m \in Nat : Highest(m))' /\ Alone'

\* Nothing is said of the receipts when they stay as they were (PersistDispatchBoundary).
LEMMA SameReceipts ==
  ASSUME BoundaryInv, UNCHANGED dispatchReceipts
  PROVE  ReceiptsKept
  BY DEF BoundaryInv, BoundaryTyped, ReceiptsKept, Highest, Alone

\* The chain file is not touched by calls about receipts.
ChainStands == UNCHANGED <<chainFile, acknowledged>>

\* What was told of the chain file stays true while it is left alone (PersistChainState).
LEMMA ChainStays ==
  ASSUME BoundaryInv, ChainStands
  PROVE  /\ ChainKept' /\ chainFile' \in Evidence \cup {NoChainFile} /\ acknowledged' \in Evidence \cup {NoChainFile}
  BY DEF BoundaryInv, BoundaryTyped, ChainKept, ChainStands

\* A process that is told its occurrence is prepared has not committed it
\* (PersistDispatchBoundary).
LEMMA ToldTyped ==
  ASSUME BoundaryInv, NEW p \in Dispatcher, NEW o \in Occurrence, NEW r \in DispatchReceipt, Told(p, o, r)
  PROVE  /\ dispatcher' \in [Dispatcher -> DispatcherCall]
         /\ \A q \in Dispatcher : dispatcher'[q].at = "committed" => dispatcher[q].at = "committed" /\ dispatcher'[q] = dispatcher[q]
<1> DEFINE w == [at |-> "prepared", occurrence |-> o, receipt |-> r]
<1>1. w \in DispatcherCall /\ w.at # "committed"
  BY DEF DispatcherCall
<1>2. dispatcher' = [dispatcher EXCEPT ![p] = w] /\ dispatcher \in [Dispatcher -> DispatcherCall]
  BY DEF Told, BoundaryInv, BoundaryTyped
<1> HIDE DEF w
<1> QED
  BY <1>1, <1>2

\* A process that gives up has committed nothing in this call (FinalizeDispatchBoundary).
LEMMA IdleTyped ==
  ASSUME BoundaryInv, NEW p \in Dispatcher, dispatcher' = [dispatcher EXCEPT ![p] = NoDispatch]
  PROVE  /\ dispatcher' \in [Dispatcher -> DispatcherCall]
         /\ \A q \in Dispatcher : dispatcher'[q].at = "committed" => dispatcher[q].at = "committed" /\ dispatcher'[q] = dispatcher[q]
<1>1. NoDispatch \in DispatcherCall /\ NoDispatch.at # "committed"
  BY DEF DispatcherCall, NoDispatch
<1> QED
  BY <1>1 DEF BoundaryInv, BoundaryTyped

\* An occurrence that has its receipt: the pointer moves up to it, if it moves.
LEMMA PersistAgainKeeps ==
  ASSUME BoundaryInv, NEW p \in Dispatcher, NEW o \in Occurrence, PersistAgain(p, o)
  PROVE  BoundaryInv'
<1>1. PICK r \in PriorReceipts(o.id) : /\ SameOccurrence(r, o)
                                       /\ \/ current >= r.epoch /\ Told(p, o, r) /\ NoFault /\ UNCHANGED current
                                          \/ current < r.epoch /\ PointerReplaced(r.epoch) /\ Told(p, o, r)
                                          \/ current < r.epoch /\ PointerFailed(r.epoch) /\ Untold
  BY DEF PersistAgain
<1>2. r \in dispatchReceipts /\ r \in DispatchReceipt /\ r.epoch \in Nat \ {0} /\ current \in Nat
  BY DEF PriorReceipts, BoundaryInv, BoundaryTyped, DispatchReceipt
<1>3. current' \in {current, r.epoch} /\ (current' = current \/ current < r.epoch)
  BY <1>1 DEF PointerReplaced, PointerFailed
<1>4. UNCHANGED <<dispatchReceipts, committed, unpointed>> /\ ChainStands
  BY DEF PersistAgain, ChainStands
<1>5. /\ dispatcher' \in [Dispatcher -> DispatcherCall]
      /\ \A q \in Dispatcher : dispatcher'[q].at = "committed" => dispatcher[q].at = "committed" /\ dispatcher'[q] = dispatcher[q]
  BY <1>1, <1>2, ToldTyped DEF Untold, BoundaryInv, BoundaryTyped
<1>6. BoundaryTyped' /\ ChainKept'
  BY <1>2, <1>3, <1>4, <1>5, ChainStays, SameReceipts DEF BoundaryTyped, ReceiptsKept
<1>7. Pointed'
  BY <1>2, <1>3, <1>4 DEF BoundaryInv, Pointed, CurrentReceipts
<1>8. NewestIfPointed'
  <2> SUFFICES ASSUME NEW s \in dispatchReceipts, s.status = "prepared", s.id \notin unpointed
               PROVE  s.epoch = current' /\ \A t \in dispatchReceipts : t.epoch <= s.epoch
    BY <1>4 DEF NewestIfPointed
  <2>1. s.epoch = current /\ \A t \in dispatchReceipts : t.epoch <= s.epoch
    BY DEF BoundaryInv, NewestIfPointed
  <2> QED
    BY <1>2, <1>3, <2>1
<1>9. EffectsCommitted'
  BY <1>4, <1>5 DEF BoundaryInv, EffectsCommitted, SameOccurrence
<1> QED
  BY <1>4, <1>6, <1>7, <1>8, <1>9, SameReceipts DEF BoundaryInv, ReceiptsKept

\* A new receipt has an epoch above all and an occurrence without one.
LEMMA PersistNewKeeps ==
  ASSUME BoundaryInv, NEW p \in Dispatcher, NEW o \in Occurrence, PersistNew(p, o)
  PROVE  BoundaryInv'
<1> DEFINE n == NewReceipt(o)
<1>1. NextEpoch \in Nat \ {0} /\ \A r \in dispatchReceipts : r.epoch < NextEpoch
  BY NextEpochAbove
<1>2. /\ n \in DispatchReceipt /\ n.id = o.id /\ n.epoch = NextEpoch /\ n.status = "prepared"
  BY <1>1 DEF NewReceipt, DispatchReceipt, Occurrence, ReceiptStatus
<1>3. dispatchReceipts' = dispatchReceipts \cup {n} /\ UNCHANGED <<committed, chainFile, acknowledged>>
  BY DEF PersistNew
<1>4. /\ \A r \in dispatchReceipts : r.id # o.id /\ (r.epoch = current => r.status = "finished")
      /\ current \in Nat /\ dispatchReceipts \subseteq DispatchReceipt
  <2>1. \A r \in dispatchReceipts : r.epoch = current => r.status = "finished"
    BY DEF PersistNew, MayPrepare, CurrentReceipts
  <2>2. \A r \in dispatchReceipts : r.id # o.id
    BY DEF PersistNew, MayPrepare, PriorReceipts
  <2> QED
    BY <2>1, <2>2 DEF BoundaryInv, BoundaryTyped
<1>5. /\ current' \in {current, NextEpoch}
      /\ unpointed' = IF current' = NextEpoch THEN unpointed ELSE unpointed \cup {o.id}
  BY DEF PersistNew, PointerReplaced, PointerFailed
<1>6. /\ dispatcher' \in [Dispatcher -> DispatcherCall]
      /\ \A q \in Dispatcher : dispatcher'[q].at = "committed" => dispatcher[q].at = "committed" /\ dispatcher'[q] = dispatcher[q]
  <2>1. CASE Told(p, o, NewReceipt(o))
    BY <1>2, <2>1, ToldTyped
  <2>2. CASE Untold
    BY <2>2 DEF Untold, BoundaryInv, BoundaryTyped
  <2> QED
    BY <2>1, <2>2 DEF PersistNew
<1> HIDE DEF n
<1>7. BoundaryTyped' /\ ChainKept'
  BY <1>1, <1>2, <1>3, <1>4, <1>5, <1>6, ChainStays DEF BoundaryTyped, ChainStands
<1>8. (\E m \in Nat : Highest(m))'
  <2>1. \A r \in dispatchReceipts' : r.epoch <= NextEpoch
    BY <1>1, <1>2, <1>3, <1>4 DEF DispatchReceipt
  <2>2. NextEpoch \in {0} \cup {r.epoch : r \in dispatchReceipts'}
    BY <1>2, <1>3
  <2>3. \E m \in Nat : m \in {0} \cup {r.epoch : r \in dispatchReceipts'} /\ \A r \in dispatchReceipts' : r.epoch <= m
    BY <1>1, <2>1, <2>2
  <2> QED
    BY <2>3 DEF Highest
<1>9. Alone'
  BY <1>1, <1>2, <1>3, <1>4 DEF BoundaryInv, Alone, DispatchReceipt
<1>10. Pointed'
  BY <1>2, <1>3, <1>5 DEF BoundaryInv, Pointed, CurrentReceipts
<1>11. NewestIfPointed'
  <2> SUFFICES ASSUME NEW s \in dispatchReceipts', s.status = "prepared", s.id \notin unpointed'
               PROVE  s.epoch = current' /\ \A t \in dispatchReceipts' : t.epoch <= s.epoch
    BY DEF NewestIfPointed
  <2>1. s \notin dispatchReceipts
    BY <1>4, <1>5 DEF BoundaryInv, NewestIfPointed
  <2>2. s = n /\ current' = NextEpoch
    BY <1>2, <1>3, <1>5, <2>1
  <2> QED
    BY <1>1, <1>2, <1>3, <1>4, <2>2 DEF DispatchReceipt
<1>12. EffectsCommitted'
  BY <1>2, <1>3, <1>6 DEF BoundaryInv, EffectsCommitted
<1> QED
  BY <1>7, <1>8, <1>9, <1>10, <1>11, <1>12 DEF BoundaryInv

\* Nothing durable changes but a temporary file: a call is cut short or given up.
LEMMA GivesUpKeeps ==
  ASSUME BoundaryInv, NEW p \in Dispatcher, dispatcher' = [dispatcher EXCEPT ![p] = NoDispatch],
         UNCHANGED <<dispatchReceipts, current, chainFile, committed, unpointed, acknowledged>>
  PROVE  BoundaryInv'
<1>1. /\ dispatcher' \in [Dispatcher -> DispatcherCall]
      /\ \A q \in Dispatcher : dispatcher'[q].at = "committed" => dispatcher[q].at = "committed" /\ dispatcher'[q] = dispatcher[q]
  BY IdleTyped
<1>2. BoundaryTyped' /\ Pointed' /\ NewestIfPointed' /\ ChainKept'
  BY <1>1 DEF BoundaryInv, BoundaryTyped, Pointed, CurrentReceipts, NewestIfPointed, ChainKept
<1>3. EffectsCommitted'
  BY <1>1 DEF BoundaryInv, EffectsCommitted, SameOccurrence
<1> QED
  BY <1>2, <1>3, SameReceipts DEF BoundaryInv, ReceiptsKept

\* A caller's effects are committed for the occurrence it was told (CommitEffects).
LEMMA CommitEffectsKeeps ==
  ASSUME BoundaryInv, NEW p \in Dispatcher, CommitEffects(p)
  PROVE  BoundaryInv'
<1> DEFINE w == [at |-> "committed", occurrence |-> dispatcher[p].occurrence, receipt |-> dispatcher[p].receipt]
<1>1. /\ dispatcher[p] \in [at : {"prepared", "committed"}, occurrence : Occurrence, receipt : DispatchReceipt]
      /\ dispatcher \in [Dispatcher -> DispatcherCall]
  BY DEF CommitEffects, BoundaryInv, BoundaryTyped, DispatcherCall, NoDispatch
<1>2. dispatcher' = [dispatcher EXCEPT ![p] = w]
  <2>1. [dispatcher[p] EXCEPT !.at = "committed"] = w
    BY <1>1
  <2>2. dispatcher' = [dispatcher EXCEPT ![p] = [dispatcher[p] EXCEPT !.at = "committed"]]
    BY DEF CommitEffects
  <2> QED
    BY <2>1, <2>2
<1>3. w \in DispatcherCall /\ w.occurrence = dispatcher[p].occurrence
  BY <1>1 DEF DispatcherCall
<1>4. UNCHANGED <<dispatchReceipts, current, chainFile, unpointed, acknowledged>> /\ committed' = committed \cup {dispatcher[p].occurrence}
  BY DEF CommitEffects
<1> HIDE DEF w
<1>5. BoundaryTyped' /\ Pointed' /\ NewestIfPointed' /\ ChainKept'
  BY <1>1, <1>2, <1>3, <1>4 DEF BoundaryInv, BoundaryTyped, Pointed, CurrentReceipts, NewestIfPointed, ChainKept
<1>6. EffectsCommitted'
  BY <1>1, <1>2, <1>3, <1>4 DEF BoundaryInv, EffectsCommitted, SameOccurrence
<1> QED
  BY <1>4, <1>5, <1>6, SameReceipts DEF BoundaryInv, ReceiptsKept

\* A receipt is finished: same epoch and occurrence, and its effects are committed.
LEMMA FinishedKeeps ==
  ASSUME BoundaryInv, NEW p \in Dispatcher, MayFinalize(p),
         dispatchReceipts' = (dispatchReceipts \ {dispatcher[p].receipt}) \cup {Finished(dispatcher[p].receipt)},
         dispatcher' \in {dispatcher, [dispatcher EXCEPT ![p] = NoDispatch]},
         UNCHANGED <<current, chainFile, committed, unpointed, acknowledged>>
  PROVE  BoundaryInv'
<1> DEFINE r == dispatcher[p].receipt
           f == [id |-> r.id, party |-> r.party, payload |-> r.payload, epoch |-> r.epoch, status |-> "finished"]
<1>1. /\ r \in dispatchReceipts /\ r \in DispatchReceipt /\ dispatchReceipts \subseteq DispatchReceipt
      /\ dispatcher[p].occurrence \in committed /\ SameOccurrence(r, dispatcher[p].occurrence)
  BY DEF MayFinalize, BoundaryInv, BoundaryTyped, EffectsCommitted
<1>2. Finished(r) = f
  BY <1>1 DEF Finished, DispatchReceipt
<1>3. /\ f \in DispatchReceipt /\ f.id = r.id /\ f.epoch = r.epoch /\ f.status = "finished"
      /\ f.party = r.party /\ f.payload = r.payload
  BY <1>1 DEF DispatchReceipt, ReceiptStatus
<1>4. dispatchReceipts' = (dispatchReceipts \ {r}) \cup {f}
  BY <1>2
<1>5. /\ dispatcher' \in [Dispatcher -> DispatcherCall]
      /\ \A q \in Dispatcher : dispatcher'[q].at = "committed" => dispatcher[q].at = "committed" /\ dispatcher'[q] = dispatcher[q]
  BY IdleTyped DEF BoundaryInv, BoundaryTyped
<1> HIDE DEF r, f
<1>6. BoundaryTyped' /\ ChainKept'
  BY <1>1, <1>3, <1>4, <1>5, ChainStays DEF BoundaryInv, BoundaryTyped, ChainStands
<1>7. (\E m \in Nat : Highest(m))'
  <2>1. PICK m \in Nat : Highest(m)
    BY DEF BoundaryInv
  <2>2. m \in {0} \cup {x.epoch : x \in dispatchReceipts'} /\ \A x \in dispatchReceipts' : x.epoch <= m
    BY <1>1, <1>3, <1>4, <2>1 DEF Highest
  <2> QED
    BY <2>2 DEF Highest
<1>8. Alone'
  BY <1>1, <1>3, <1>4 DEF BoundaryInv, Alone
<1>9. Pointed'
  BY <1>1, <1>3, <1>4 DEF BoundaryInv, Pointed, CurrentReceipts
<1>10. NewestIfPointed'
  BY <1>1, <1>3, <1>4 DEF BoundaryInv, NewestIfPointed
<1>11. EffectsCommitted'
  BY <1>1, <1>3, <1>4, <1>5 DEF BoundaryInv, EffectsCommitted, SameOccurrence
<1> QED
  BY <1>6, <1>7, <1>8, <1>9, <1>10, <1>11 DEF BoundaryInv

\* Nobody does anything, or tries to finish a receipt in vain.
LEMMA BoundaryIdleKeeps ==
  ASSUME BoundaryInv,
         UNCHANGED <<dispatchReceipts, current, chainFile, dispatcher, committed, unpointed, acknowledged>>
  PROVE  BoundaryInv'
<1>1. BoundaryTyped' /\ Pointed' /\ NewestIfPointed' /\ ChainKept'
  BY DEF BoundaryInv, BoundaryTyped, Pointed, CurrentReceipts, NewestIfPointed, ChainKept
<1>2. EffectsCommitted'
  BY DEF BoundaryInv, EffectsCommitted, SameOccurrence
<1> QED
  BY <1>1, <1>2, SameReceipts DEF BoundaryInv, ReceiptsKept

\* The chain file: what was told to be stored is extended, or removed with it.
LEMMA ChainStateKeeps ==
  ASSUME BoundaryInv, (\E c \in Evidence : PersistChainState(c)) \/ RemoveChainState
  PROVE  BoundaryInv'
<1>1. UNCHANGED <<dispatchReceipts, current, dispatcher, committed, unpointed>>
  BY DEF PersistChainState, RemoveChainState
<1>2. /\ chainFile' \in Evidence \cup {NoChainFile} /\ acknowledged' \in Evidence \cup {NoChainFile}
      /\ ChainKept'
  <2>1. CASE RemoveChainState \/ (chainFile' = NoChainFile /\ acknowledged' = NoChainFile)
    BY <2>1 DEF RemoveChainState, ChainKept
  <2>2. ASSUME NEW c \in Evidence, chainFile' = c, acknowledged' = c
        PROVE  ChainKept'
    BY <2>2, EvidenceAssumption DEF ChainKept, IsPrefix
  <2>3. ASSUME NEW c \in Evidence, chainFile' = c, acknowledged' = acknowledged, Progresses(chainFile, c)
        PROVE  ChainKept'
    <3>1. acknowledged # NoChainFile => /\ acknowledged \in Evidence /\ chainFile \in Evidence
                                        /\ IsPrefix(acknowledged, chainFile) /\ IsPrefix(chainFile, c)
      BY <2>3 DEF BoundaryInv, BoundaryTyped, ChainKept, Progresses, IsStrictPrefix
    <3> QED
      BY <2>3, <3>1, PrefixTransitive, EvidenceAssumption DEF ChainKept
  <2> QED
    BY <2>1, <2>2, <2>3 DEF PersistChainState, BoundaryInv, BoundaryTyped
<1>3. BoundaryTyped' /\ Pointed' /\ NewestIfPointed'
  BY <1>1, <1>2 DEF BoundaryInv, BoundaryTyped, Pointed, CurrentReceipts, NewestIfPointed
<1>4. EffectsCommitted'
  BY <1>1 DEF BoundaryInv, EffectsCommitted, SameOccurrence
<1> QED
  BY <1>1, <1>2, <1>3, <1>4, SameReceipts DEF BoundaryInv, ReceiptsKept

\* Every step of the dispatch boundary keeps the invariant.
LEMMA BoundaryStep == BoundaryInv /\ [BoundaryNext]_boundaryVars => BoundaryInv'
<1> SUFFICES ASSUME BoundaryInv, [BoundaryNext]_boundaryVars PROVE BoundaryInv'
  OBVIOUS
<1>1. ASSUME NEW p \in Dispatcher, NEW o \in Occurrence, PersistAgain(p, o) \/ PersistNew(p, o) \/ PersistCutShort(p, o)
      PROVE  BoundaryInv'
  BY <1>1, PersistAgainKeeps, PersistNewKeeps, GivesUpKeeps DEF PersistCutShort, TemporaryLeft
<1>2. ASSUME NEW p \in Dispatcher, FinalizeDispatchBoundary(p) \/ FinalizeFails(p) PROVE BoundaryInv'
  BY <1>2, FinishedKeeps, BoundaryIdleKeeps DEF FinalizeDispatchBoundary, FinalizeFails
<1>3. ASSUME NEW p \in Dispatcher, CommitEffects(p) \/ FinalizeCutShort(p) \/ DispatcherStops(p) PROVE BoundaryInv'
  BY <1>3, CommitEffectsKeeps, GivesUpKeeps DEF FinalizeCutShort, DispatcherStops, TemporaryLeft
<1>4. CASE UNCHANGED boundaryVars
  BY <1>4, BoundaryIdleKeeps DEF boundaryVars
<1> QED
  BY <1>1, <1>2, <1>3, <1>4, ChainStateKeeps DEF BoundaryNext

\* The invariant holds at first.
LEMMA BoundaryStarts == BoundaryInit => BoundaryInv
<1> SUFFICES ASSUME BoundaryInit PROVE BoundaryInv
  OBVIOUS
<1>1. BoundaryTyped
  BY DEF BoundaryInit, BoundaryTyped, DispatcherCall
<1>2. Highest(0) /\ Alone /\ Pointed /\ NewestIfPointed /\ ChainKept
  BY DEF BoundaryInit, Highest, Alone, Pointed, NewestIfPointed, ChainKept
<1>3. EffectsCommitted
  BY DEF BoundaryInit, EffectsCommitted, NoDispatch
<1> QED
  BY <1>1, <1>2, <1>3 DEF BoundaryInv

\* The invariant gives both parts of the property.
LEMMA SoundFromBoundaryInv == BoundaryInv => DispatchSound
  BY DEF BoundaryInv, Alone, Pointed, NewestIfPointed, EffectsCommitted, ChainKept,
         DispatchSound, ReceiptsSound, EvidenceKept

\* For any processes, occurrences, payloads, chains and faults, receipts and the
\* pointer to them stay usable, a finished one tells of committed effects, and a
\* chain told to be stored stays (PersistDispatchBoundary, FinalizeDispatchBoundary,
\* PersistChainState).
THEOREM BoundaryIsSound == BoundarySpec => []DispatchSound
  BY BoundaryStarts, BoundaryStep, SoundFromBoundaryInv, PTL DEF BoundarySpec

\* Both together are what the run checks of Maestro (QualityLoop, DispatchBoundary).
THEOREM MaestroIsSound == LoopSpec /\ BoundarySpec => []MaestroSound
<1>1. FinalIsApproved /\ DispatchSound => MaestroSound
  BY DEF MaestroSound
<1> QED
  BY <1>1, FinalWasApproved, BoundaryIsSound, PTL


-----------------------------------------------------------------------------
(***************************************************************************)
(* Action confirmation: the store of challenges implements one-time        *)
(* permissions (SingleUse).  Each challenge goes on in its order because   *)
(* an answer changes at most one of them and drops others; it is used once *)
(* because the process that marks it spent is the only one that holds the  *)
(* grant.                                                                  *)
(***************************************************************************)
\* A challenge as it is recorded, and what a hook process holds.
Challenge ==
  [session : Session, action : Action, state : {"pending", "confirmed", "consumed"},
   created : Nat, expires : Nat, confirmed : Nat \cup {NeverYet}, consumed : Nat \cup {NeverYet}]
Asking == [at : {"lock", "key", "writekey", "change"}, req : ConfirmRequest, now : Nat]
Leaving == [at : {"unlock"}, grant : {0} \cup Id]
KeyState == {"none", "empty", "ready"}

ConfirmTyped ==
  /\ challenges \in [Id -> Challenge \cup {NoChallenge}]
  /\ issued \in Nat /\ confirmClock \in Nat /\ confirmKey \in KeyState
  /\ spent \in SUBSET Id /\ uses \in [Id -> {0, 1}]
  /\ confirmHook \in [Hook -> {ConfirmIdle} \cup Asking \cup Leaving]

\* The file and the history agree: a challenge is marked consumed when it is spent.
SpentFits ==
  \A i \in Id : /\ i > issued => challenges[i] = NoChallenge /\ i \notin spent
                /\ challenges[i] # NoChallenge => (challenges[i].state = "consumed" <=> i \in spent)
                /\ uses[i] = 1 => i \in spent

GrantFor(h, i) == confirmHook[h].at = "unlock" /\ confirmHook[h].grant = i
\* What a process is about to let through is spent, was not used, and is its own.
GrantsFit ==
  \A h \in Hook : \A i \in Id : GrantFor(h, i) =>
    /\ i \in spent /\ uses[i] = 0
    /\ \A k \in Hook : GrantFor(k, i) => k = h

ConfirmInv == ConfirmTyped /\ SpentFits /\ GrantsFit

\* What is recorded is a challenge.
LEMMA NoneIsNoChallenge == NoChallenge \notin Challenge
  BY DEF NoChallenge, Challenge

\* Where a hook process is tells what it holds.
LEMMA PlacesApart ==
  ASSUME NEW x \in {ConfirmIdle} \cup Asking \cup Leaving
  PROVE  /\ x.at = "idle" => x = ConfirmIdle
         /\ x.at \in {"lock", "key", "writekey", "change"} => x \in Asking
         /\ x.at = "unlock" => x \in Leaving
  BY DEF ConfirmIdle, Asking, Leaving

\* prune drops challenges and changes none.
LEMMA PruneDrops ==
  ASSUME ConfirmTyped, NEW time
  PROVE  /\ Prune(time) \in [Id -> Challenge \cup {NoChallenge}]
         /\ \A i \in Id : Prune(time)[i] = NoChallenge \/ Prune(time)[i] = challenges[i]
  BY DEF ConfirmTyped, Prune, PresentChallenges

\* What one answer does to each challenge.
Effect(list, n, given, i) ==
  \/ list[i] = NoChallenge /\ i # given /\ ~(n = issued + 1 /\ i = n)
  \/ list[i] = challenges[i] /\ list[i] # NoChallenge /\ i # given
  \/ list[i] # NoChallenge /\ list[i].state = "pending" /\ n = issued + 1 /\ i = n /\ i # given
  \/ /\ list[i] # NoChallenge /\ challenges[i] # NoChallenge /\ i = given
     /\ challenges[i].state = "confirmed" /\ list[i].state = "consumed"
  \/ /\ list[i] # NoChallenge /\ challenges[i] # NoChallenge /\ i # given
     /\ challenges[i].state = "pending" /\ list[i].state = "confirmed"
Effects(list, n, given) ==
  /\ list \in [Id -> Challenge \cup {NoChallenge}] /\ given \in {0} \cup Id
  /\ n = issued \/ n = issued + 1
  /\ \A i \in Id : Effect(list, n, given, i)

\* Authorize takes one of the live challenges.
LEMMA OldestIs ==
  ASSUME NEW ids \in SUBSET Id, ids # {}
  PROVE  OldestOf(ids) \in ids
<1>1. ids \subseteq Nat
  BY DEF Id
<1>2. \E i \in ids : \A j \in ids : i <= j
  BY <1>1, LeastNumber
<1> QED
  BY <1>2 DEF OldestOf

\* Authorize issues a challenge, tells a pending one again or consumes a confirmed one.
LEMMA AuthorizeEffects ==
  ASSUME ConfirmInv, ChallengeTTL \in Nat, NEW r \in [op : {"authorize"}, session : Session, action : Action], NEW time \in Nat
  PROVE  LET reply == AuthorizeReply(r, time) IN Effects(reply.list, reply.issued, reply.grant)
<1> DEFINE list == Prune(time)
           live == Live(list, r, time)
           i == OldestOf(live)
           reply == AuthorizeReply(r, time)
<1>1. /\ list \in [Id -> Challenge \cup {NoChallenge}] /\ issued \in Nat
      /\ \A j \in Id : list[j] = NoChallenge \/ list[j] = challenges[j]
      /\ \A j \in Id : j # 0
  BY PruneDrops DEF ConfirmInv, ConfirmTyped, Id
<1>2. live \in SUBSET Id
  BY DEF Live, PresentChallenges
<1>3. CASE live = {}
  <2> DEFINE c == NewChallenge(r, time)
             new == [j \in Id |-> IF j = issued + 1 THEN c ELSE list[j]]
  <2>1. c \in Challenge /\ c.state = "pending"
    BY DEF NewChallenge, Challenge, NeverYet
  <2>2. reply.list = new /\ reply.issued = issued + 1 /\ reply.grant = 0
    BY <1>3 DEF AuthorizeReply, Reply
  <2> HIDE DEF c, list, live, reply
  <2>3. new \in [Id -> Challenge \cup {NoChallenge}]
    BY <1>1, <2>1
  <2>4. ASSUME NEW j \in Id PROVE Effect(new, issued + 1, 0, j)
    <3>1. CASE j = issued + 1
      BY <1>1, <2>1, <3>1, NoneIsNoChallenge DEF Effect
    <3>2. CASE j # issued + 1
      BY <1>1, <3>2 DEF Effect
    <3> QED
      BY <3>1, <3>2
  <2> QED
    BY <2>2, <2>3, <2>4 DEF Effects, reply
<1>4. ASSUME live # {} PROVE i \in live /\ i \in Id /\ list[i] # NoChallenge /\ list[i] = challenges[i]
                             /\ list[i].state \in {"pending", "confirmed"} /\ list[i] \in Challenge
  <2>1. i \in live
    BY <1>2, <1>4, OldestIs
  <2> HIDE DEF i, list
  <2> QED
    BY <1>1, <2>1 DEF Live, PresentChallenges
<1>5. CASE live # {} /\ list[i].state = "pending"
  <2>1. reply.list = list /\ reply.issued = issued /\ reply.grant = 0
    BY <1>5 DEF AuthorizeReply, Reply
  <2> HIDE DEF list, live, i, reply
  <2>2. \A j \in Id : Effect(list, issued, 0, j)
    BY <1>1 DEF Effect
  <2> QED
    BY <1>1, <2>1, <2>2 DEF Effects, reply
<1>6. CASE live # {} /\ list[i].state = "confirmed"
  <2> DEFINE c == Consumed(list[i], time)
             new == [list EXCEPT ![i] = c]
  <2>1. reply.list = new /\ reply.issued = issued /\ reply.grant = i
    BY <1>6 DEF AuthorizeReply, Reply
  <2>2. c \in Challenge /\ c.state = "consumed"
    BY <1>4, <1>6 DEF Consumed, Challenge
  <2> HIDE DEF list, live, i, reply, c
  <2>3. new \in [Id -> Challenge \cup {NoChallenge}] /\ \A j \in Id : new[j] = IF j = i THEN c ELSE list[j]
    BY <1>1, <1>4, <1>6, <2>2
  <2> HIDE DEF new
  <2>4. ASSUME NEW j \in Id PROVE Effect(new, issued, i, j)
    BY <1>1, <1>4, <1>6, <2>2, <2>3, NoneIsNoChallenge DEF Effect
  <2>5. i \in {0} \cup Id
    BY <1>4, <1>6
  <2>6. Effects(new, issued, i)
    BY <2>3, <2>4, <2>5 DEF Effects
  <2> QED
    BY <2>1, <2>6 DEF reply
<1> HIDE DEF live, i, list, reply
<1> QED
  BY <1>3, <1>4, <1>5, <1>6 DEF reply

\* Confirm confirms one pending challenge.
LEMMA ConfirmEffects ==
  ASSUME ConfirmInv, NEW r \in [op : {"confirm"}, session : Session, id : Id], NEW time \in Nat,
         Confirmable(Prune(time), r, time)
  PROVE  LET reply == ConfirmReply(r, time) IN Effects(reply.list, reply.issued, reply.grant)
<1> DEFINE list == Prune(time)
           i == r.id
           c == [list[i] EXCEPT !.state = "confirmed", !.confirmed = time]
           new == [list EXCEPT ![i] = c]
           reply == ConfirmReply(r, time)
<1>1. /\ list \in [Id -> Challenge \cup {NoChallenge}] /\ issued \in Nat /\ i \in Id
      /\ \A j \in Id : list[j] = NoChallenge \/ list[j] = challenges[j]
      /\ \A j \in Id : j # 0
  BY PruneDrops DEF ConfirmInv, ConfirmTyped, Id
<1>2. list[i] # NoChallenge /\ list[i].state = "pending" /\ list[i] \in Challenge
  <2> HIDE DEF list
  <2> QED
    BY <1>1 DEF Confirmable, PresentChallenges, list
<1>3. c \in Challenge /\ c.state = "confirmed"
  BY <1>2 DEF Challenge
<1>4. reply.list = new /\ reply.issued = issued /\ reply.grant = 0
  BY DEF ConfirmReply, Reply
<1> HIDE DEF list, i, c, reply
<1>5. new \in [Id -> Challenge \cup {NoChallenge}] /\ \A j \in Id : new[j] = IF j = i THEN c ELSE list[j]
  BY <1>1, <1>3
<1> HIDE DEF new
<1>6. ASSUME NEW j \in Id PROVE Effect(new, issued, 0, j)
  BY <1>1, <1>2, <1>3, <1>5, NoneIsNoChallenge DEF Effect
<1> QED
  BY <1>4, <1>5, <1>6 DEF Effects, reply

\* Either operation, when it is not refused.
LEMMA ChangeEffects ==
  ASSUME ConfirmInv, ChallengeTTL \in Nat, NEW h \in Hook, confirmHook[h].at = "change", ~ChangeRefused(h)
  PROVE  LET reply == Answer(h) IN Effects(reply.list, reply.issued, reply.grant)
<1>1. confirmHook[h] \in Asking
  BY PlacesApart DEF ConfirmInv, ConfirmTyped
<1>2. confirmHook[h].req \in ConfirmRequest /\ confirmHook[h].now \in Nat
  BY <1>1 DEF Asking
<1>3. CASE confirmHook[h].req \in [op : {"authorize"}, session : Session, action : Action]
  <2>1. confirmHook[h].req.op = "authorize"
    BY <1>3
  <2> QED
    BY <1>2, <1>3, <2>1, AuthorizeEffects DEF Answer
<1>4. CASE confirmHook[h].req \in [op : {"confirm"}, session : Session, id : Id]
  <2>1. confirmHook[h].req.op = "confirm"
    BY <1>4
  <2>2. Confirmable(Prune(confirmHook[h].now), confirmHook[h].req, confirmHook[h].now)
    BY <2>1 DEF ChangeRefused
  <2>3. Answer(h) = ConfirmReply(confirmHook[h].req, confirmHook[h].now)
    BY <2>1 DEF Answer
  <2> QED
    BY <1>2, <1>4, <2>2, <2>3, ConfirmEffects
<1> QED
  BY <1>2, <1>3, <1>4 DEF ConfirmRequest

\* A step that leaves the challenges and their history alone.
LEMMA StoreHookMoves ==
  ASSUME ConfirmInv, UNCHANGED <<challenges, issued, spent, uses>>, confirmClock' \in Nat, confirmKey' \in KeyState,
         confirmHook' \in [Hook -> {ConfirmIdle} \cup Asking \cup Leaving],
         \A h \in Hook, i \in Id : GrantFor(h, i)' => GrantFor(h, i)
  PROVE  ConfirmInv'
<1>1. ConfirmTyped'
  BY DEF ConfirmInv, ConfirmTyped
<1>2. SpentFits'
  BY DEF ConfirmInv, SpentFits
<1>3. GrantsFit'
  BY DEF ConfirmInv, GrantsFit
<1> QED
  BY <1>1, <1>2, <1>3 DEF ConfirmInv

\* A process that goes elsewhere without a grant.
LEMMA OneMoves ==
  ASSUME ConfirmInv, UNCHANGED <<challenges, issued, spent, uses>>, confirmClock' \in Nat, confirmKey' \in KeyState,
         NEW h \in Hook, NEW x \in {ConfirmIdle} \cup Asking \cup [at : {"unlock"}, grant : {0}],
         confirmHook' = [confirmHook EXCEPT ![h] = x]
  PROVE  ConfirmInv'
<1>1. x \in {ConfirmIdle} \cup Asking \cup Leaving /\ \A i \in Id : ~(x.at = "unlock" /\ x.grant = i)
  <2>1. \A i \in Id : i # 0
    BY DEF Id
  <2> QED
    BY <2>1 DEF Leaving, ConfirmIdle, Asking
<1>2. confirmHook' \in [Hook -> {ConfirmIdle} \cup Asking \cup Leaving] /\ \A k \in Hook : confirmHook'[k] = IF k = h THEN x ELSE confirmHook[k]
  BY <1>1 DEF ConfirmInv, ConfirmTyped
<1>3. ASSUME NEW k \in Hook, NEW i \in Id, GrantFor(k, i)' PROVE GrantFor(k, i)
  <2>1. confirmHook'[k].at = "unlock" /\ confirmHook'[k].grant = i
    BY <1>3 DEF GrantFor
  <2> QED
    BY <1>1, <1>2, <2>1 DEF GrantFor
<1> QED
  BY <1>2, <1>3, StoreHookMoves

\* Every step of a process but the change and the answer.
LEMMA CallKeeps ==
  ASSUME ConfirmInv, NEW h \in Hook, NEW r \in ConfirmRequest, CallStore(h, r)
  PROVE  ConfirmInv'
<1> DEFINE x == [at |-> "lock", req |-> r, now |-> confirmClock]
<1>1. x \in Asking /\ confirmClock' \in Nat /\ confirmKey' \in KeyState
  BY DEF Asking, ConfirmInv, ConfirmTyped, CallStore
<1> QED
  BY <1>1, OneMoves DEF CallStore

\* A process goes on to another place.
LEMMA PlaceMoves ==
  ASSUME ConfirmInv, NEW h \in Hook, confirmHook[h] \in Asking, NEW at \in {"lock", "key", "writekey", "change"},
         ConfirmPlace(h, at), UNCHANGED <<challenges, issued, spent, uses, confirmClock>>,
         confirmKey' \in KeyState
  PROVE  ConfirmInv'
<1> DEFINE x == [confirmHook[h] EXCEPT !.at = at]
<1>1. x \in Asking /\ confirmClock' \in Nat
  BY DEF Asking, ConfirmInv, ConfirmTyped
<1>2. confirmHook' = [confirmHook EXCEPT ![h] = x]
  BY DEF ConfirmPlace
<1> QED
  BY <1>1, <1>2, OneMoves

\* A process leaves with nothing to let through.
LEMMA LeaveMoves ==
  ASSUME ConfirmInv, NEW h \in Hook, LeaveStore(h, 0), UNCHANGED <<challenges, issued, spent, uses, confirmClock>>,
         confirmKey' \in KeyState
  PROVE  ConfirmInv'
<1> DEFINE x == [at |-> "unlock", grant |-> 0]
<1>1. x \in [at : {"unlock"}, grant : {0}] /\ confirmClock' \in Nat /\ confirmHook' = [confirmHook EXCEPT ![h] = x]
  BY DEF ConfirmInv, ConfirmTyped, LeaveStore
<1> QED
  BY <1>1, OneMoves

\* A process ends its call or is killed.
LEMMA IdleMoves ==
  ASSUME ConfirmInv, NEW h \in Hook, confirmHook' = [confirmHook EXCEPT ![h] = ConfirmIdle], UNCHANGED <<challenges, issued, spent, uses, confirmClock>>,
         confirmKey' \in KeyState
  PROVE  ConfirmInv'
<1>1. ConfirmIdle \in {ConfirmIdle} \cup Asking \cup [at : {"unlock"}, grant : {0}] /\ confirmClock' \in Nat
  BY DEF ConfirmInv, ConfirmTyped
<1> QED
  BY <1>1, OneMoves

\* The steps before the change, and the write that fails.
LEMMA LockAndKeyKeep ==
  ASSUME ConfirmInv, NEW h \in Hook,
         TakeLock(h) \/ LoadKey(h) \/ WriteKey(h) \/ WriteKeyFails(h) \/ ChangeStoreFails(h) \/ HookCrash(h)
  PROVE  ConfirmInv'
<1>0. confirmHook[h].at \in {"lock", "key", "writekey", "change"} => confirmHook[h] \in Asking
  BY PlacesApart DEF ConfirmInv, ConfirmTyped
<1>6. confirmKey \in KeyState
  BY DEF ConfirmInv, ConfirmTyped
<1>1. CASE TakeLock(h)
  BY <1>0, <1>6, <1>1, PlaceMoves, IdleMoves DEF TakeLock
<1>2. CASE LoadKey(h)
  <2>1. confirmHook[h] \in Asking /\ UNCHANGED <<challenges, issued, spent, uses, confirmClock>>
    BY <1>0, <1>2 DEF LoadKey
  <2>2. confirmKey' \in KeyState /\ (ConfirmPlace(h, "writekey") \/ LeaveStore(h, 0) \/ ConfirmPlace(h, "change"))
    BY <1>6, <1>2 DEF LoadKey, KeyState
  <2> QED
    BY <2>1, <2>2, PlaceMoves, LeaveMoves
<1>3. CASE WriteKey(h)
  BY <1>0, <1>3, PlaceMoves DEF WriteKey, KeyState
<1>4. CASE WriteKeyFails(h) \/ ChangeStoreFails(h)
  BY <1>6, <1>4, LeaveMoves DEF WriteKeyFails, ChangeStoreFails
<1>5. CASE HookCrash(h)
  BY <1>6, <1>5, IdleMoves DEF HookCrash
<1> QED
  BY <1>1, <1>2, <1>3, <1>4, <1>5

\* The change is written, and its process leaves with what it may let through.
LEMMA ChangeKeeps ==
  ASSUME ConfirmInv, ChallengeTTL \in Nat, NEW h \in Hook, ChangeStore(h)
  PROVE  /\ ConfirmInv'
         /\ \/ UNCHANGED <<challenges, issued, spent, uses>>
            \/ /\ uses' = uses /\ (issued' = issued \/ (issued' = issued + 1 /\ issued' \in Id))
               /\ \E g : spent' = spent \cup ({g} \ {0}) /\ Effects(challenges', issued', g)
<1>1. CASE ChangeRefused(h)
  <2>1. LeaveStore(h, 0) /\ UNCHANGED <<challenges, issued, spent, uses, confirmClock, confirmKey>> /\ confirmKey \in KeyState
    BY <1>1 DEF ChangeStore, ConfirmInv, ConfirmTyped
  <2> QED
    BY <2>1, LeaveMoves
<1>2. CASE ~ChangeRefused(h)
  <2> DEFINE g == Answer(h).grant
             x == [at |-> "unlock", grant |-> g]
  <2>1. /\ Effects(challenges', issued', g) /\ issued' <= MaxChallenge
        /\ LeaveStore(h, g) /\ spent' = spent \cup ({g} \ {0}) /\ UNCHANGED <<confirmClock, confirmKey, uses>>
    <3>1. confirmHook[h].at = "change" /\ ~ChangeRefused(h)
      BY <1>2 DEF ChangeStore
    <3>2. Effects(Answer(h).list, Answer(h).issued, Answer(h).grant)
      BY <3>1, ChangeEffects
    <3>3. /\ challenges' = Answer(h).list /\ issued' = Answer(h).issued /\ issued' <= MaxChallenge
          /\ LeaveStore(h, Answer(h).grant) /\ spent' = spent \cup ({Answer(h).grant} \ {0}) /\ UNCHANGED <<confirmClock, confirmKey, uses>>
      BY <1>2 DEF ChangeStore
    <3> QED
      BY <3>2, <3>3
  <2> HIDE DEF g
  <2>2. /\ challenges' \in [Id -> Challenge \cup {NoChallenge}] /\ g \in {0} \cup Id
        /\ issued \in Nat /\ issued' \in Nat /\ (issued' = issued \/ issued' = issued + 1)
        /\ \A i \in Id : Effect(challenges', issued', g, i) /\ i # 0 /\ i \in Nat
    BY <2>1 DEF Effects, ConfirmInv, ConfirmTyped, Id
  <2>3. issued' = issued + 1 => issued' \in Id
    BY <2>1, <2>2 DEF Id
  <2>4. x \in Leaving /\ confirmHook' = [confirmHook EXCEPT ![h] = x]
    BY <2>1, <2>2 DEF Leaving, LeaveStore
  <2>5. confirmHook' \in [Hook -> {ConfirmIdle} \cup Asking \cup Leaving] /\ \A k \in Hook : confirmHook'[k] = IF k = h THEN x ELSE confirmHook[k]
    BY <2>4 DEF ConfirmInv, ConfirmTyped
  <2>6. ConfirmTyped'
    BY <2>1, <2>2, <2>5 DEF ConfirmInv, ConfirmTyped
  <2>7. ASSUME NEW i \in Id
        PROVE  /\ i > issued' => challenges'[i] = NoChallenge /\ i \notin spent'
               /\ challenges'[i] # NoChallenge => (challenges'[i].state = "consumed" <=> i \in spent')
               /\ uses'[i] = 1 => i \in spent'
    <3>1. i \in spent' <=> i \in spent \/ i = g
      BY <2>1, <2>2
    <3>2. /\ i > issued => challenges[i] = NoChallenge /\ i \notin spent
          /\ challenges[i] # NoChallenge => (challenges[i].state = "consumed" <=> i \in spent)
          /\ uses'[i] = 1 => i \in spent
      BY <2>1 DEF ConfirmInv, SpentFits
    <3>3. i \in Nat /\ issued \in Nat /\ issued' \in Nat /\ (issued' = issued \/ issued' = issued + 1)
      BY <2>2
    <3>4. i > issued' => i > issued /\ i # issued'
      BY <3>3
    <3>5. issued' = issued + 1 /\ i = issued' => i > issued
      BY <3>3
    <3>6. Effect(challenges', issued', g, i)
      BY <2>2
    <3> QED
      BY <3>1, <3>2, <3>4, <3>5, <3>6 DEF Effect
  <2>8. SpentFits'
    BY <2>7 DEF SpentFits
  <2>9. ASSUME g # 0
        PROVE  g \in Id /\ g \notin spent /\ g \in spent' /\ uses'[g] = 0
    <3>1. g \in Id /\ challenges[g] # NoChallenge /\ challenges[g].state = "confirmed"
      BY <2>2, <2>9 DEF Effect
    <3>2. g \notin spent /\ uses[g] \in {0, 1} /\ uses[g] # 1
      BY <3>1 DEF ConfirmInv, SpentFits, ConfirmTyped
    <3> QED
      BY <2>1, <2>9, <3>1, <3>2
  <2>10. ASSUME NEW k \in Hook, NEW i \in Id, GrantFor(k, i)'
         PROVE  (k = h /\ i = g /\ g # 0) \/ (k # h /\ GrantFor(k, i))
    <3>1. confirmHook'[k].at = "unlock" /\ confirmHook'[k].grant = i /\ i # 0
      BY <2>2, <2>10 DEF GrantFor
    <3> QED
      BY <2>5, <3>1 DEF GrantFor
  <2>11. GrantsFit'
    <3> SUFFICES ASSUME NEW k \in Hook, NEW i \in Id, GrantFor(k, i)'
                 PROVE  i \in spent' /\ uses'[i] = 0 /\ \A l \in Hook : GrantFor(l, i)' => l = k
      BY DEF GrantsFit
    <3>1. \A l \in Hook : \A j \in Id : GrantFor(l, j) =>
             j \in spent /\ uses[j] = 0 /\ \A m \in Hook : GrantFor(m, j) => m = l
      BY DEF ConfirmInv, GrantsFit
    <3>2. CASE k = h /\ i = g /\ g # 0
      BY <2>9, <2>10, <3>1, <3>2
    <3>3. CASE k # h /\ GrantFor(k, i)
      <4>1. i \in spent /\ uses'[i] = 0
        BY <2>1, <3>1, <3>3
      <4>2. i # g
        BY <2>2, <2>9, <4>1
      <4> QED
        BY <2>1, <2>10, <3>1, <3>3, <4>1, <4>2
    <3> QED
      BY <2>10, <3>2, <3>3
  <2>12. ConfirmInv'
    BY <2>6, <2>8, <2>11 DEF ConfirmInv
  <2>13. \E k : spent' = spent \cup ({k} \ {0}) /\ Effects(challenges', issued', k)
    BY <2>1
  <2>14. uses' = uses /\ (issued' = issued \/ (issued' = issued + 1 /\ issued' \in Id))
    <3>1. uses' = uses
      BY <2>1
    <3>2. issued' = issued \/ issued' = issued + 1
      BY <2>2
    <3> QED
      BY <2>3, <3>1, <3>2
  <2> QED
    BY <2>12, <2>13, <2>14
<1> QED
  BY <1>1, <1>2

\* The answer lets an action through that was spent for it and not used.
LEMMA UnlockKeeps ==
  ASSUME ConfirmInv, NEW h \in Hook, UnlockStore(h)
  PROVE  /\ ConfirmInv' /\ UNCHANGED <<challenges, issued, spent>>
         /\ uses' = uses \/ \E i \in Id : i \in spent /\ uses[i] = 0 /\ uses' = [uses EXCEPT ![i] = 1]
<1>1. /\ UNCHANGED <<challenges, issued, spent, confirmKey, confirmClock>> /\ confirmHook' = [confirmHook EXCEPT ![h] = ConfirmIdle]
      /\ uses' = [i \in Id |-> IF confirmHook[h].grant = i THEN uses[i] + 1 ELSE uses[i]] /\ confirmHook[h].at = "unlock"
  BY DEF UnlockStore
<1>2. confirmHook[h].grant \in {0} \cup Id /\ uses \in [Id -> {0, 1}]
  <2>1. confirmHook[h] \in Leaving
    BY <1>1, PlacesApart DEF ConfirmInv, ConfirmTyped
  <2> QED
    BY <2>1 DEF Leaving, ConfirmInv, ConfirmTyped
<1>3. CASE confirmHook[h].grant \notin Id
  <2>1. uses' = uses
    BY <1>1, <1>2, <1>3
  <2> QED
    BY <1>1, <2>1, IdleMoves DEF ConfirmInv, ConfirmTyped
<1>4. CASE confirmHook[h].grant \in Id
  <2> DEFINE g == confirmHook[h].grant
  <2>1. g \in spent /\ uses[g] = 0 /\ \A k \in Hook : GrantFor(k, g) => k = h
    <3>1. GrantFor(h, g)
      BY <1>1 DEF GrantFor
    <3> QED
      BY <1>4, <3>1 DEF ConfirmInv, GrantsFit
  <2> HIDE DEF g
  <2>2. g \in Id /\ confirmHook[h].grant = g
    BY <1>4 DEF g
  <2>3. uses' = [uses EXCEPT ![g] = 1]
    <3>1. \A i \in Id : (IF g = i THEN uses[i] + 1 ELSE uses[i]) = IF i = g THEN 1 ELSE uses[i]
      BY <2>1
    <3>2. uses' = [i \in Id |-> IF i = g THEN 1 ELSE uses[i]]
      BY <1>1, <2>2, <3>1
    <3> QED
      BY <1>2, <2>2, <3>2
  <2>4. uses' \in [Id -> {0, 1}] /\ \A i \in Id : uses'[i] = IF i = g THEN 1 ELSE uses[i]
    BY <1>2, <2>2, <2>3
  <2>5. confirmHook' \in [Hook -> {ConfirmIdle} \cup Asking \cup Leaving] /\ \A k \in Hook : confirmHook'[k] = IF k = h THEN ConfirmIdle ELSE confirmHook[k]
    BY <1>1 DEF ConfirmInv, ConfirmTyped
  <2>6. ConfirmTyped'
    BY <1>1, <2>4, <2>5 DEF ConfirmInv, ConfirmTyped
  <2>7. SpentFits'
    BY <1>1, <2>1, <2>4 DEF ConfirmInv, SpentFits
  <2>8. \A k \in Hook, i \in Id : GrantFor(k, i)' => GrantFor(k, i) /\ i # g
    <3> SUFFICES ASSUME NEW k \in Hook, NEW i \in Id, GrantFor(k, i)' PROVE GrantFor(k, i) /\ i # g
      OBVIOUS
    <3>1. confirmHook'[k].at = "unlock" /\ confirmHook'[k].grant = i
      BY DEF GrantFor
    <3>2. k # h /\ confirmHook'[k] = confirmHook[k]
      BY <2>5, <3>1 DEF ConfirmIdle
    <3> QED
      BY <2>1, <3>1, <3>2 DEF GrantFor
  <2>9. GrantsFit'
    BY <1>1, <2>4, <2>8 DEF ConfirmInv, GrantsFit
  <2> QED
    BY <1>1, <2>1, <2>2, <2>3, <2>6, <2>7, <2>9 DEF ConfirmInv
<1> QED
  BY <1>3, <1>4

\* Every step keeps the invariant.
LEMMA ConfirmStep ==
  ASSUME ConfirmInv, ChallengeTTL \in Nat, [ConfirmNext]_confirmVars
  PROVE  ConfirmInv'
<1>1. CASE UNCHANGED confirmVars
  <2>1. UNCHANGED <<challenges, issued, spent, uses, confirmClock, confirmKey, confirmHook>> /\ confirmClock \in Nat /\ confirmKey \in KeyState
        /\ confirmHook \in [Hook -> {ConfirmIdle} \cup Asking \cup Leaving]
    BY <1>1 DEF confirmVars, ConfirmInv, ConfirmTyped
  <2> QED
    BY <2>1, StoreHookMoves DEF GrantFor
<1>2. CASE ConfirmTick
  <2>1. UNCHANGED <<challenges, issued, spent, uses, confirmKey, confirmHook>> /\ confirmClock' \in Nat /\ confirmKey \in KeyState
        /\ confirmHook \in [Hook -> {ConfirmIdle} \cup Asking \cup Leaving]
    BY <1>2 DEF ConfirmTick, ConfirmInv, ConfirmTyped
  <2> QED
    BY <2>1, StoreHookMoves DEF GrantFor
<1>3. ASSUME NEW h \in Hook,
             \/ \E r \in ConfirmRequest : CallStore(h, r)
             \/ TakeLock(h) \/ LoadKey(h) \/ WriteKey(h) \/ WriteKeyFails(h)
             \/ ChangeStore(h) \/ ChangeStoreFails(h) \/ UnlockStore(h) \/ HookCrash(h)
      PROVE  ConfirmInv'
  BY <1>3, CallKeeps, LockAndKeyKeep, ChangeKeeps, UnlockKeeps
<1> QED
  BY <1>1, <1>2, <1>3 DEF ConfirmNext

\* Each challenge goes on in its order, whatever else an answer does.
LEMMA PhasesFollow ==
  ASSUME ConfirmInv, NEW g, spent' = spent \cup ({g} \ {0}), Effects(challenges', issued', g),
         issued' = issued \/ (issued' = issued + 1 /\ issued' \in Id), NEW i \in Id
  PROVE  Permission!Follows(Phase(i), Phase(i)')
<1>1. /\ i \in Nat /\ i # 0 /\ issued \in Nat /\ (issued' = issued \/ issued' = issued + 1)
      /\ Effect(challenges', issued', g, i) /\ (i \in spent' <=> i \in spent \/ i = g)
  BY DEF Effects, ConfirmInv, ConfirmTyped, Id
<1>2. /\ i > issued => challenges[i] = NoChallenge /\ i \notin spent
      /\ challenges[i] # NoChallenge => challenges[i].state \in {"pending", "confirmed", "consumed"}
      /\ challenges[i] # NoChallenge => (challenges[i].state = "consumed" <=> i \in spent)
  BY DEF ConfirmInv, SpentFits, ConfirmTyped, Challenge
<1>3. /\ i \in PresentChallenges(challenges) <=> challenges[i] # NoChallenge
      /\ i \in PresentChallenges(challenges)' <=> challenges'[i] # NoChallenge
  BY DEF PresentChallenges
<1>4. CASE i > issued
  <2>1. Phase(i) = "none"
    <3>1. ~(i <= issued)
      BY <1>1, <1>4
    <3> QED
      BY <1>4, <3>1 DEF Phase
  <2>2. CASE i > issued'
    <3>1. issued' \in Nat /\ ~(i <= issued')
      BY <1>1, <2>2
    <3>2. Phase(i)' = "none"
      BY <2>2, <3>1 DEF Phase
    <3> QED
      BY <2>1, <3>2 DEF Permission!Follows
  <2>3. CASE ~(i > issued')
    <3>1. issued' = issued + 1 /\ i = issued' /\ i <= issued'
      BY <1>1, <1>4, <2>3
    <3>2. /\ challenges'[i] # NoChallenge /\ challenges'[i].state = "pending" /\ i # g
      BY <1>1, <1>2, <1>4, <3>1 DEF Effect
    <3>3. i \notin spent'
      BY <1>1, <1>2, <1>4, <3>2
    <3>4. Phase(i)' = "offered"
      BY <1>3, <3>1, <3>2, <3>3 DEF Phase
    <3> QED
      BY <2>1, <3>4 DEF Permission!Follows
  <2> QED
    BY <2>2, <2>3
<1>5. CASE i <= issued
  <2>1. i <= issued' /\ i # issued + 1 /\ ~(i > issued) /\ ~(i > issued')
    BY <1>1, <1>5
  <2>2. CASE i \in spent
    <3>1. Phase(i) = "spent" /\ Phase(i)' = "spent"
      BY <1>1, <1>5, <2>1, <2>2 DEF Phase
    <3> QED
      BY <3>1 DEF Permission!Follows
  <2>3. CASE i \notin spent /\ challenges[i] = NoChallenge
    <3>1. i \notin spent' /\ challenges'[i] = NoChallenge
      BY <1>1, <2>1, <2>3 DEF Effect
    <3>2. Phase(i) = "lapsed" /\ Phase(i)' = "lapsed"
      BY <1>3, <1>5, <2>1, <2>3, <3>1 DEF Phase
    <3> QED
      BY <3>2 DEF Permission!Follows
  <2>4. CASE i \notin spent /\ challenges[i] # NoChallenge
    <3>1. Phase(i) = IF challenges[i].state = "pending" THEN "offered" ELSE "approved"
      BY <1>2, <1>3, <1>5, <2>4 DEF Phase
    <3>2. CASE i = g
      <4>1. Phase(i)' = "spent" /\ challenges[i].state = "confirmed"
        BY <1>1, <2>1, <3>2 DEF Phase, Effect
      <4> QED
        BY <3>1, <4>1 DEF Permission!Follows
    <3>3. CASE i # g
      <4>1. i \notin spent'
        BY <1>1, <2>4, <3>3
      <4>2. CASE challenges'[i] = NoChallenge
        <5>1. Phase(i)' = "lapsed"
          BY <1>3, <2>1, <4>1, <4>2 DEF Phase
        <5> QED
          BY <3>1, <5>1 DEF Permission!Follows
      <4>3. CASE challenges'[i] # NoChallenge
        <5>1. Phase(i)' = IF challenges'[i].state = "pending" THEN "offered"
                          ELSE IF challenges'[i].state = "confirmed" THEN "approved" ELSE "spent"
          BY <1>3, <2>1, <4>1, <4>3 DEF Phase
        <5>2. \/ challenges'[i] = challenges[i]
              \/ challenges[i].state = "pending" /\ challenges'[i].state = "confirmed"
          BY <1>1, <2>1, <3>3, <4>3 DEF Effect
        <5> QED
          BY <1>2, <2>4, <3>1, <5>1, <5>2 DEF Permission!Follows
      <4> QED
        BY <4>2, <4>3
    <3> QED
      BY <3>2, <3>3
  <2> QED
    BY <2>2, <2>3, <2>4
<1> QED
  BY <1>1, <1>4, <1>5

\* Every step of the store is a step of one-time permissions, or none.
LEMMA PermissionStep ==
  ASSUME ConfirmInv, ConfirmInv', ChallengeTTL \in Nat, [ConfirmNext]_confirmVars
  PROVE  [Permission!Next]_Permission!vars
<1>1. ASSUME UNCHANGED <<challenges, issued, spent, uses>>
      PROVE  UNCHANGED Permission!vars
  BY <1>1 DEF Permission!vars, Phase, PresentChallenges
<1>2. ASSUME NEW h \in Hook, ChangeStore(h)
      PROVE  [Permission!Next]_Permission!vars
  <2>1. CASE UNCHANGED <<challenges, issued, spent, uses>>
    BY <1>1, <2>1
  <2>2. CASE /\ uses' = uses /\ (issued' = issued \/ (issued' = issued + 1 /\ issued' \in Id))
             /\ \E g : spent' = spent \cup ({g} \ {0}) /\ Effects(challenges', issued', g)
    <3>1. \A i \in Id : Permission!Follows(Phase(i), Phase(i)')
      BY <2>2, PhasesFollow
    <3>2. \A i \in Id : (Phase(i) \in Permission!Phases)'
      <4>1. \A i \in Id : i \in Nat /\ issued' \in Nat /\ (i > issued' \/ i <= issued')
        BY DEF Id, ConfirmInv, ConfirmTyped
      <4> QED
        BY <4>1 DEF Phase, Permission!Phases
    <3>3. Permission!Change
      BY <2>2, <3>1, <3>2 DEF Permission!Change, Permission!Phases
    <3> QED
      BY <3>3 DEF Permission!Next
  <2> QED
    BY <1>2, <2>1, <2>2, ChangeKeeps
<1>3. ASSUME NEW h \in Hook, UnlockStore(h)
      PROVE  [Permission!Next]_Permission!vars
  <2>1. UNCHANGED <<challenges, issued, spent>>
    BY <1>3, UnlockKeeps
  <2>2. CASE uses' = uses
    BY <1>1, <2>1, <2>2
  <2>3. ASSUME NEW i \in Id, i \in spent, uses[i] = 0, uses' = [uses EXCEPT ![i] = 1]
        PROVE  Permission!Act(i)
    <3>1. i <= issued /\ Phase(i) = "spent"
      BY <2>3 DEF Phase, ConfirmInv, SpentFits, ConfirmTyped, Id
    <3>2. [j \in Id |-> Phase(j)]' = [j \in Id |-> Phase(j)]
      BY <2>1 DEF Phase, PresentChallenges
    <3> QED
      BY <2>3, <3>1, <3>2 DEF Permission!Act
  <2> QED
    BY <1>3, <2>2, <2>3, UnlockKeeps DEF Permission!Next
<1>4. ASSUME NEW h \in Hook,
             \/ \E r \in ConfirmRequest : CallStore(h, r)
             \/ TakeLock(h) \/ LoadKey(h) \/ WriteKey(h) \/ WriteKeyFails(h) \/ ChangeStoreFails(h) \/ HookCrash(h)
      PROVE  [Permission!Next]_Permission!vars
  BY <1>1, <1>4 DEF CallStore, TakeLock, LoadKey, WriteKey, WriteKeyFails, ChangeStoreFails, HookCrash
<1>5. CASE ConfirmTick \/ UNCHANGED confirmVars
  BY <1>1, <1>5 DEF ConfirmTick, confirmVars
<1> QED
  BY <1>2, <1>3, <1>4, <1>5 DEF ConfirmNext

\* The empty store fits, and stands for nothing offered.
LEMMA ConfirmStarts == ASSUME ConfirmInit PROVE ConfirmInv /\ Permission!Init
<1>1. \A h \in Hook : confirmHook[h] = ConfirmIdle
  BY DEF ConfirmInit
<1>2. \A h \in Hook, i \in Id : ~GrantFor(h, i)
  BY <1>1 DEF GrantFor, ConfirmIdle
<1>3. ConfirmInv
  BY <1>1, <1>2 DEF ConfirmInit, ConfirmInv, ConfirmTyped, SpentFits, GrantsFit, KeyState
<1>4. \A i \in Id : Phase(i) = "none"
  <2>1. \A i \in Id : i > issued /\ ~(i <= issued)
    BY DEF ConfirmInit, Id
  <2> QED
    BY <2>1 DEF Phase
<1> QED
  BY <1>3, <1>4 DEF ConfirmInit, Permission!Init

\* The store implements one-time permissions.
THEOREM ConfirmedOnce == ConfirmSpec => ConfirmationSingleUse
<1>0. ChallengeTTL \in Nat
  BY TTLAssumption
<1>1. ConfirmInit => ConfirmInv /\ Permission!Init
  BY ConfirmStarts
<1>2. ConfirmInv /\ [ConfirmNext]_confirmVars => ConfirmInv'
  BY <1>0, ConfirmStep
<1>3. ConfirmInv /\ ConfirmInv' /\ [ConfirmNext]_confirmVars => [Permission!Next]_Permission!vars
  BY <1>0, PermissionStep
<1> QED
  BY <1>1, <1>2, <1>3, PTL DEF ConfirmSpec, ConfirmationSingleUse, Permission!Spec

=============================================================================
