---------------------------- MODULE AgentDispatch ----------------------------
(***************************************************************************)
(* Maestro's delegations: the pilot (agentdispatch) that issues packets,   *)
(* guards the tool of an errand and closes packets and reviews, and the    *)
(* orchestration gate (agentorchestration) that keeps at most one branch   *)
(* active.  Both are durable, each in files of its own, and a call changes *)
(* the gate first and its records afterwards: the process can stop between *)
(* any two file operations, and each operation can fail before or after    *)
(* its rename.                                                             *)
(*                                                                         *)
(* The pilot's mutex runs one call at a time.  A call is one action up to  *)
(* its first record file; what it still has to write is the sequence       *)
(* `todo`, with the memory it goes back to should that write fail.         *)
(* A refused call changes nothing but a failure receipt that is never read *)
(* by another call, and is left out.                                       *)
(***************************************************************************)
EXTENDS Integers, Sequences, FiniteSets

CONSTANTS
    MaxPacket,     \* bound: packets issued
    MaxRequests,   \* bound: tool requests of each kind that a target signs
    MaxCrashes,    \* bound: times the process stops
    MaxFaults,     \* bound: file operations that fail
    MaxExpiries    \* bound: packets that reach the end of their TTL

ASSUME DispatchBounds ==
    /\ MaxPacket \in Nat /\ MaxRequests \in Nat /\ MaxCrashes \in Nat
    /\ MaxFaults \in Nat /\ MaxExpiries \in Nat

VARIABLES
    gate,      \* packet of the active branch (0: none), lock file left behind
    disk,      \* record files of the recovery directory
    journal,   \* records in the transaction file
    pilot,     \* down, loading or up
    mem,       \* records and used nonces of the running pilot
    todo,      \* files the call in progress still has to change
    after,     \* memory, and tool requests allowed, once that is done
    target,    \* each errand target: its newest request and how far it is
    effect,    \* is the mutation granted to each errand in place
    allowed,   \* history: tool requests that were allowed
    replayed,  \* history: a tool request was allowed twice
    issued, expired, crashes, faults

world == <<target, effect, allowed, replayed>>
counters == <<issued, expired, crashes, faults>>
vars == <<gate, disk, journal, pilot, mem, todo, after, world, counters>>

Packet == 1..MaxPacket
Request == {"grant", "undo"} \X (1..MaxRequests)
NoRequest == <<"none", 0>>
Verdict == {"approved", "refine"}     \* refine stands for missing and hold too

NoFiles == << >>
NoRecord == [state |-> "absent", kind |-> "none", trigger |-> FALSE, source |-> 0,
             review |-> "none", errand |-> "none", pending |-> NoRequest, nonces |-> {}]

Record == [state : {"absent", "delegated", "pending_review", "completed", "failed"},
           kind : {"none", "work", "review", "errand"}, trigger : BOOLEAN,
           source : {0} \cup Packet,
           review : {"none", "dispatched", "unavailable"} \cup Verdict,
           errand : {"none", "ready", "grant_pending", "granted", "undo_pending",
                     "compensated"},
           pending : {NoRequest} \cup Request, nonces : SUBSET Request]

Memory == [records : [Packet -> Record], used : SUBSET (Packet \X Request)]
Empty == [records |-> [i \in Packet |-> NoRecord], used |-> {}]

(* Records with some of them replaced.                                      *)
Over(files, records) == [i \in Packet |-> IF i \in DOMAIN files THEN files[i] ELSE records[i]]

(* What a restart reads: the records, those of the transaction first.       *)
Recovered == Over(journal, disk)

Loaded(files) ==
    [records |-> files,
     used |-> UNION {{<<i, n>> : n \in files[i].nonces} : i \in Packet}]

----------------------------------------------------------------------------
(* Calls and their file operations.                                         *)

Idle == pilot = "up" /\ todo = << >>
Current == mem.records
With(i, r) == [mem EXCEPT !.records[i] = r]

WriteRecord(i, r, undo) == [place |-> "record", files |-> [j \in {i} |-> r], undo |-> undo]
WriteJournal(files, undo) == [place |-> "journal", files |-> files, undo |-> undo]
RemoveJournal(undo) == WriteJournal(NoFiles, undo)

(* The call goes on with these writes and ends with this memory.            *)
Continue(writes, memory, allow) ==
    /\ todo' = writes
    /\ after' = [mem |-> memory, allow |-> allow]

Settled == after' = [mem |-> Empty, allow |-> {}]

Perform(w) ==
    IF w.place = "record" THEN disk' = Over(w.files, disk) /\ UNCHANGED journal
                          ELSE journal' = w.files /\ UNCHANGED disk

(* One file is changed; the last one ends the call (or the loading).        *)
WriteNext ==
    /\ todo # << >>
    /\ Perform(Head(todo))
    /\ todo' = Tail(todo)
    /\ IF Tail(todo) # << >>
       THEN UNCHANGED <<pilot, mem, after, world>>
       ELSE /\ mem' = after.mem /\ pilot' = "up" /\ Settled
            /\ allowed' = allowed \cup after.allow
            /\ replayed' = (replayed \/ after.allow \cap allowed # {})
            /\ target' = [i \in Packet |-> IF \E n \in Request : <<i, n>> \in after.allow
                                           THEN [target[i] EXCEPT !.at = "allowed"]
                                           ELSE target[i]]
            /\ UNCHANGED effect
    /\ UNCHANGED <<gate, counters>>

(* The write fails, before its rename or in the directory sync after it.    *)
WriteFails ==
    /\ todo # << >> /\ faults < MaxFaults
    /\ Perform(Head(todo)) \/ UNCHANGED <<disk, journal>>
    /\ todo' = << >> /\ Settled
    /\ IF pilot = "loading" THEN pilot' = "down" /\ UNCHANGED mem
                            ELSE mem' = Head(todo).undo /\ UNCHANGED pilot
    /\ faults' = faults + 1
    /\ UNCHANGED <<gate, world, issued, expired, crashes>>

----------------------------------------------------------------------------
(* The gate: one shared state file, changed under a lock file.              *)

GateFree == ~gate.stuck
OpenBranch ==
    /\ GateFree /\ gate.branch = 0 /\ issued < MaxPacket
    /\ issued' = issued + 1
    /\ gate' = [gate EXCEPT !.branch = issued + 1]
OwnsBranch(i) == GateFree /\ gate.branch = i /\ i \notin expired
CloseBranch(i) ==
    /\ OwnsBranch(i)
    /\ gate' = [gate EXCEPT !.branch = 0]
    /\ UNCHANGED issued

(* A call that would close this packet gets as far as the gate.             *)
Closable(i) ==
    Current[i].state = "delegated" /\ Current[i].errand \notin {"grant_pending", "undo_pending"}

(* The state file is written and yet the call is denied.                    *)
GateFails ==
    /\ Idle /\ faults < MaxFaults
    /\ OpenBranch \/ \E i \in Packet : Closable(i) /\ CloseBranch(i)
    /\ faults' = faults + 1
    /\ UNCHANGED <<disk, journal, pilot, mem, todo, after, world, expired, crashes>>

(* RecoverStale: a branch nothing has happened to for long is given up.     *)
RecoverStale ==
    /\ GateFree /\ gate.branch # 0
    /\ gate' = [gate EXCEPT !.branch = 0]
    /\ UNCHANGED <<disk, journal, pilot, mem, todo, after, world, counters>>

----------------------------------------------------------------------------
(* Delegation.                                                              *)

Delegated(kind, trigger, source) ==
    [NoRecord EXCEPT !.state = "delegated", !.kind = kind, !.trigger = trigger,
                     !.source = source,
                     !.review = IF kind = "review" THEN "dispatched" ELSE "none",
                     !.errand = IF kind = "errand" THEN "ready" ELSE "none"]

(* start: the branch is opened first, then the record is written.           *)
Start(kind, trigger, source) ==
    LET i == issued + 1
        r == Delegated(kind, trigger, source)
    IN  /\ Idle /\ OpenBranch
        /\ Continue(<<WriteRecord(i, r, mem)>>, With(i, r), {})
        /\ UNCHANGED <<disk, journal, pilot, mem, world, expired, crashes, faults>>

Delegate(trigger) == Start("work", trigger, 0)
DelegateErrand == Start("errand", FALSE, 0)

(* Rework: a new attempt, bound to the packet the review sent back.         *)
Rework(p) ==
    /\ Current[p].state = "pending_review" /\ Current[p].trigger
    /\ Current[p].review = "refine"
    /\ Start("work", TRUE, p)

RequireYodaReview(p) ==
    LET y == issued + 1
        r == Delegated("review", FALSE, p)
        producer == [Current[p] EXCEPT !.review = "dispatched"]
        started == With(y, r)
    IN  /\ Idle
        /\ Current[p].state = "pending_review" /\ Current[p].trigger
        /\ Current[p].review \notin {"dispatched", "refine"}
        /\ p \notin expired
        /\ OpenBranch
        /\ Continue(<<WriteRecord(y, r, mem), WriteRecord(p, producer, started)>>,
                    [started EXCEPT !.records[p] = producer], {})
        /\ UNCHANGED <<disk, journal, pilot, mem, world, expired, crashes, faults>>

----------------------------------------------------------------------------
(* The tool of an errand.                                                   *)

NextErrandState(r, request) ==
    IF request[1] = "undo" /\ r.errand = "granted" THEN "undo_pending"
    ELSE IF request[1] = "grant" /\ r.errand = "ready" THEN "grant_pending" ELSE "none"

GuardErrandTool(i, request) ==
    LET r == Current[i]
        guarded == [r EXCEPT !.errand = NextErrandState(r, request),
                             !.pending = request, !.nonces = @ \cup {request}]
    IN  /\ Idle /\ r.state = "delegated" /\ r.kind = "errand"
        /\ <<i, request>> \notin mem.used
        /\ NextErrandState(r, request) # "none"
        /\ OwnsBranch(i)
        /\ Continue(<<WriteRecord(i, guarded, mem)>>,
                    [With(i, guarded) EXCEPT !.used = @ \cup {<<i, request>>}],
                    {<<i, request>>})
        /\ target' = [target EXCEPT ![i] = [request |-> request, at |-> "asked"]]
        /\ UNCHANGED <<gate, disk, journal, pilot, mem, effect, allowed, replayed, counters>>

(* The target uses its authorization, with or without success.              *)
RunTool(i, ok) ==
    /\ target[i].at = "allowed"
    /\ target' = [target EXCEPT ![i].at = IF ok THEN "succeeded" ELSE "failed"]
    /\ effect' = IF ok THEN [effect EXCEPT ![i] = target[i].request[1] = "grant"] ELSE effect
    /\ UNCHANGED <<gate, disk, journal, pilot, mem, todo, after, allowed, replayed, counters>>

Observed(state, ok) ==
    CASE state = "grant_pending" -> IF ok THEN "granted" ELSE "ready"
      [] state = "undo_pending" -> IF ok THEN "compensated" ELSE "granted"
      [] OTHER -> "none"

(* The target reports; a request that got no answer is reported as failed.  *)
(* When the write fails the advanced state stays in memory.                 *)
ObserveErrandTool(i) ==
    LET r == Current[i]
        ok == target[i].at = "succeeded"
        advanced == [r EXCEPT !.errand = Observed(r.errand, ok)]
        observed == [advanced EXCEPT !.pending = NoRequest]
    IN  /\ Idle /\ r.state = "delegated" /\ r.kind = "errand" /\ i \notin expired
        /\ target[i].at \in {"asked", "succeeded", "failed"}
        /\ r.pending # NoRequest /\ r.pending = target[i].request
        /\ Observed(r.errand, ok) # "none"
        /\ Continue(<<WriteRecord(i, observed, With(i, advanced))>>, With(i, observed), {})
        /\ UNCHANGED <<gate, disk, journal, pilot, mem, world, counters>>

----------------------------------------------------------------------------
(* Closing a packet: the gate first, then the records.                      *)

Closed(r, state, review) ==
    [r EXCEPT !.state = state, !.pending = NoRequest,
              !.review = IF r.kind = "review" THEN review ELSE @]

ReturnState(r) == IF r.trigger THEN "pending_review" ELSE "completed"

Close(i) == Idle /\ Current[i].state = "delegated" /\ CloseBranch(i)

Return(i) ==
    LET r == Closed(Current[i], ReturnState(Current[i]), "none")
    IN  /\ Close(i)
        /\ Current[i].kind # "review"
        /\ Current[i].kind = "errand" => Current[i].errand = "granted"
        /\ Continue(<<WriteRecord(i, r, mem)>>, With(i, r), {})
        /\ UNCHANGED <<disk, journal, pilot, mem, world, expired, crashes, faults>>

(* Mutant: the two records are written without a journal.                   *)
WriteBatchUnjournalled(y, yoda, p, producer, undo) ==
    <<WriteRecord(y, yoda, undo), WriteRecord(p, producer, undo)>>

WriteBatch(y, yoda, p, producer, undo) ==
    <<WriteJournal([j \in {y, p} |-> IF j = y THEN yoda ELSE producer], undo),
      WriteRecord(y, yoda, undo), WriteRecord(p, producer, undo), RemoveJournal(undo)>>

(* The verdict is put in place: going back keeps it in the review's record. *)
ReturnYodaReview(y, verdict) ==
    LET p == Current[y].source
        yoda == Closed(Current[y], "completed", verdict)
        producer == [Current[p] EXCEPT
                        !.review = verdict,
                        !.state = IF verdict = "approved" THEN "completed" ELSE @]
        undo == [mem EXCEPT !.records[y].review = verdict]
    IN  /\ Close(y)
        /\ Current[y].kind = "review"
        /\ Continue(WriteBatch(y, yoda, p, producer, undo),
                    [With(y, yoda) EXCEPT !.records[p] = producer], {})
        /\ UNCHANGED <<disk, journal, pilot, mem, world, expired, crashes, faults>>

Fail(i) ==
    LET r == Closed(Current[i], "failed", "unavailable")
    IN  /\ Close(i)
        /\ Current[i].kind \in {"work", "errand"}
        /\ Current[i].errand \in {"none", "ready", "compensated"}
        /\ Continue(<<WriteRecord(i, r, mem)>>, With(i, r), {})
        /\ UNCHANGED <<disk, journal, pilot, mem, world, expired, crashes, faults>>

(* A review that fails is projected to the producer before it is recorded.  *)
FailReview(y) ==
    LET p == Current[y].source
        yoda == Closed(Current[y], "failed", "unavailable")
        producer == [Current[p] EXCEPT !.review = "unavailable"]
        marked == Current[p].review # "none"
        memory == IF marked THEN With(p, producer) ELSE mem
        done == [memory EXCEPT !.records[y] = yoda]
        undone == [memory EXCEPT !.records[y].review = "unavailable"]
    IN  /\ Close(y)
        /\ Current[y].kind = "review"
        /\ Continue((IF marked THEN <<WriteRecord(p, producer, done)>> ELSE << >>)
                        \o <<WriteRecord(y, yoda, undone)>>, done, {})
        /\ UNCHANGED <<disk, journal, pilot, mem, world, expired, crashes, faults>>

----------------------------------------------------------------------------
(* The process and time.                                                    *)

Stop == pilot' = "down" /\ mem' = Empty /\ todo' = << >> /\ Settled

Crash ==
    /\ pilot # "down" /\ crashes < MaxCrashes
    /\ Stop
    /\ crashes' = crashes + 1
    /\ UNCHANGED <<gate, disk, journal, world, issued, expired, faults>>

(* The process stops between lock and unlock: the lock file stays.          *)
CrashInGate ==
    /\ Idle /\ GateFree /\ crashes < MaxCrashes
    /\ \/ gate' = [gate EXCEPT !.stuck = TRUE] /\ UNCHANGED issued
       \/ /\ gate.branch = 0 /\ issued < MaxPacket /\ issued' = issued + 1
          /\ gate' = [branch |-> issued + 1, stuck |-> TRUE]
       \/ /\ gate.branch # 0 /\ Closable(gate.branch) /\ gate.branch \notin expired
          /\ gate' = [branch |-> 0, stuck |-> TRUE] /\ UNCHANGED issued
    /\ Stop
    /\ crashes' = crashes + 1
    /\ UNCHANGED <<disk, journal, world, expired, faults>>

(* NewPilot: the journal is replayed and removed, then the records loaded.  *)
JournalWrites ==
    LET y == CHOOSE i \in DOMAIN journal : \A j \in DOMAIN journal : j <= i
        p == CHOOSE i \in DOMAIN journal : i # y
    IN  <<WriteRecord(y, journal[y], Empty), WriteRecord(p, journal[p], Empty),
          RemoveJournal(Empty)>>

Restart ==
    /\ pilot = "down"
    /\ IF journal = NoFiles
       THEN pilot' = "up" /\ mem' = Loaded(disk) /\ UNCHANGED <<todo, after>>
       ELSE /\ pilot' = "loading" /\ Continue(JournalWrites, Loaded(Recovered), {})
            /\ UNCHANGED mem
    /\ UNCHANGED <<gate, disk, journal, world, counters>>

Expire(i) ==
    /\ i \in 1..issued /\ i \notin expired /\ Cardinality(expired) < MaxExpiries
    /\ expired' = expired \cup {i}
    /\ UNCHANGED <<gate, disk, journal, pilot, mem, todo, after, world, issued, crashes, faults>>

----------------------------------------------------------------------------
Init ==
    /\ gate = [branch |-> 0, stuck |-> FALSE]
    /\ disk = Empty.records /\ journal = NoFiles
    /\ pilot = "down" /\ mem = Empty /\ todo = << >>
    /\ after = [mem |-> Empty, allow |-> {}]
    /\ target = [i \in Packet |-> [request |-> NoRequest, at |-> "idle"]]
    /\ effect = [i \in Packet |-> FALSE]
    /\ allowed = {} /\ replayed = FALSE
    /\ issued = 0 /\ expired = {} /\ crashes = 0 /\ faults = 0

Delegating ==
    \/ \E trigger \in BOOLEAN : Delegate(trigger)
    \/ DelegateErrand
    \/ \E p \in Packet : Rework(p) \/ RequireYodaReview(p)

UsingTool(i) ==
    \/ \E request \in Request : GuardErrandTool(i, request)
    \/ \E ok \in BOOLEAN : RunTool(i, ok)
    \/ ObserveErrandTool(i)

Closing(i) ==
    \/ Return(i) \/ Fail(i) \/ FailReview(i)
    \/ \E verdict \in Verdict : ReturnYodaReview(i, verdict)

Next ==
    \/ Delegating
    \/ \E i \in Packet : UsingTool(i) \/ Closing(i) \/ Expire(i)
    \/ WriteNext \/ WriteFails
    \/ GateFails \/ RecoverStale \/ Crash \/ CrashInGate \/ Restart

Spec == Init /\ [][Next]_vars

----------------------------------------------------------------------------
(* Properties, stated of what a restart would read.                         *)

ApprovedReview(y) ==
    Recovered[y].kind = "review" /\ Recovered[y].state = "completed"
        /\ Recovered[y].review = "approved"

(* CompletedIsApproved: work that asked for a review is complete only with  *)
(* an approving, closed review of that very packet, whatever stopped or     *)
(* failed on the way (Return, ReturnYodaReview, writeBatch).                *)
CompletedIsApproved ==
    \A p \in Packet : Recovered[p].trigger /\ Recovered[p].state = "completed" =>
        \E y \in Packet : ApprovedReview(y) /\ Recovered[y].source = p

(* RecoveredTogether: "a Yoda leaf and its producer projection are          *)
(* recovered together after a process or filesystem interruption"           *)
(* (the comment of writeBatch).                                             *)
RecoveredTogether ==
    \A y \in Packet : ApprovedReview(y) => Recovered[Recovered[y].source].state = "completed"

(* TogetherAfterCrash: the same where processes stop but no file operation  *)
(* fails (writeBatch, replayTransaction).                                   *)
TogetherAfterCrash == faults = 0 => RecoveredTogether

(* ErrandSettled: an errand that is closed as failed has left no mutation   *)
(* behind, and one that is closed as completed has its mutation in place,   *)
(* although the target acts on its own, answers get lost and records lag    *)
(* behind (GuardErrandTool, ObserveErrandTool, Fail).                       *)
ErrandSettled ==
    \A i \in Packet : Recovered[i].kind = "errand" =>
        /\ Recovered[i].state = "failed" => ~effect[i]
        /\ Recovered[i].state = "completed" => effect[i]

(* RequestOnce: a signed tool request is allowed at most once, restarts and *)
(* replays included (consumeNonceLocked, load).                             *)
RequestOnce == ~replayed

(* RestartReadsTruth: what a restart reads is approved, recovered together, *)
(* settled with the target and not replayable.                              *)
RestartReadsTruth == CompletedIsApproved /\ TogetherAfterCrash /\ ErrandSettled /\ RequestOnce
=============================================================================
