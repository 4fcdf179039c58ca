---------------------------- MODULE DailyJournal ----------------------------
(***************************************************************************)
(* The daily journal of one scope.  Agents leave checkpoints as pending    *)
(* files; a stop hook drains them under a lock directory into the day's    *)
(* page, advances the generation (a hash chain, here the sequence it       *)
(* hashes) and leaves it as a dream request.  An agent acknowledges the    *)
(* request it worked on.  Every file is written atomically, and a hook may *)
(* stop between any two of them.                                           *)
(***************************************************************************)
EXTENDS Naturals, Sequences, FiniteSets

CONSTANTS DailyHook, Checkpoint,
          Summary,             \* what a checkpoint with one ID may say
          DrainBudget,         \* names taken by one drain, 32 in the code
          MaxQueued, MaxDailyCrashes

VARIABLES queue,               \* .maestro/daily-pending/<id>.json
          bindings,            \* .maestro/daily-ids/<id>.json
          dayPage,             \* blocks of the page, in order
          generation,          \* .maestro/daily-generation
          settled,             \* .maestro/daily-committed/<id>.json
          dreamRequest,        \* memory/.dream-requested
          dreamAck,            \* memory/.dream-ack
          dailyLock,           \* .maestro/daily.lock
          dailyHook, consumed, checkpointsLeft, dailyCrashes

dailyFiles == <<queue, bindings, dayPage, generation, settled, dreamRequest, dreamAck>>
dailyVars == <<dailyFiles, dailyLock, dailyHook, consumed, checkpointsLeft, dailyCrashes>>

NoNote == "missing"
Legacy == [id |-> "legacy", says |-> "legacy"]
Timestamp == <<[id |-> "timestamp", says |-> "legacy"]>>    \* a 0.1.x request
NoChain == <<>>
HookIdle == [at |-> "idle"]

DailyInit ==
  /\ queue = [c \in Checkpoint |-> NoNote] /\ bindings = queue /\ settled = queue
  /\ dayPage = <<>> /\ generation = NoChain /\ dreamAck = NoChain
  /\ dreamRequest \in {NoChain, Timestamp}
  /\ dailyLock = FALSE /\ dailyHook = [h \in DailyHook |-> HookIdle]
  /\ consumed = {} /\ checkpointsLeft = 0 /\ dailyCrashes = 0

LegacyPending == dreamRequest = Timestamp
Block(c, s) == [id |-> c, says |-> s]
OnPage(b) == \E n \in DOMAIN dayPage : dayPage[n] = b

-----------------------------------------------------------------------------
\* An agent leaves a checkpoint; it may repeat one, and reuse an ID.
Queue(c, s) ==
  /\ queue[c] = NoNote /\ checkpointsLeft < MaxQueued
  /\ queue' = [queue EXCEPT ![c] = s] /\ checkpointsLeft' = checkpointsLeft + 1
  /\ UNCHANGED <<bindings, dayPage, generation, settled, dreamRequest, dreamAck, dailyLock, dailyHook, consumed, dailyCrashes>>

Names == {c \in Checkpoint : queue[c] # NoNote}
Undisturbed == UNCHANGED <<checkpointsLeft, dailyCrashes>>

\* dailyStop reads the names and looks for a legacy request before it takes the lock.
StopLists(h) ==
  /\ dailyHook[h] = HookIdle /\ (Names # {} \/ LegacyPending)
  /\ \E names \in SUBSET Names :
       /\ Cardinality(names) = IF Cardinality(Names) < DrainBudget THEN Cardinality(Names) ELSE DrainBudget
       /\ dailyHook' = [dailyHook EXCEPT ![h] = [at |-> "lock", names |-> names, legacy |-> LegacyPending]]
  /\ UNCHANGED <<dailyFiles, dailyLock, consumed>> /\ Undisturbed

DrainState(names) == [at |-> "drain", names |-> names]
StopLocks(h) ==
  /\ dailyHook[h].at = "lock"
  /\ \/ dailyLock /\ dailyHook' = [dailyHook EXCEPT ![h] = HookIdle] /\ UNCHANGED dailyLock
     \/ /\ ~dailyLock /\ dailyLock' = TRUE
        /\ dailyHook' = [dailyHook EXCEPT ![h] =
             IF dailyHook[h].legacy THEN [at |-> "legacy", names |-> dailyHook[h].names]
             ELSE DrainState(dailyHook[h].names)]
  /\ UNCHANGED <<dailyFiles, consumed>> /\ Undisturbed

\* dailyNormalizeLegacy: the timestamp is hashed into the generation, then the
\* generation takes its place as the request.
LegacyGeneration(h) ==
  /\ dailyHook[h].at = "legacy"
  /\ IF LegacyPending
     THEN /\ generation' = Append(generation, Legacy)
          /\ dailyHook' = [dailyHook EXCEPT ![h].at = "legacyMarker"]
     ELSE dailyHook' = [dailyHook EXCEPT ![h] = DrainState(@.names)] /\ UNCHANGED generation
  /\ UNCHANGED <<queue, bindings, dayPage, settled, dreamRequest, dreamAck, dailyLock, consumed>>
  /\ Undisturbed
LegacyMarker(h) ==
  /\ dailyHook[h].at = "legacyMarker" /\ dreamRequest' = generation
  /\ dailyHook' = [dailyHook EXCEPT ![h] = DrainState(@.names)]
  /\ UNCHANGED <<queue, bindings, dayPage, generation, settled, dreamAck, dailyLock, consumed>>
  /\ Undisturbed

\* dailySave: the checkpoint is read and bound to its ID.  A file that is gone, an
\* ID bound to other words, or a page with other words for the ID is a failure.
Admissible(c, s) ==
  /\ s # NoNote /\ bindings[c] \in {NoNote, s}
  /\ \A n \in DOMAIN dayPage : dayPage[n].id = c => dayPage[n].says = s
SaveReads(h, c) ==
  LET s == queue[c]
      rest == dailyHook[h].names \ {c} IN
  /\ dailyHook[h].at = "drain" /\ c \in dailyHook[h].names
  /\ IF Admissible(c, s)
     THEN /\ bindings' = [bindings EXCEPT ![c] = s]
          /\ dailyHook' = [dailyHook EXCEPT ![h] =
               [at |-> "page", names |-> rest, id |-> c, says |-> s, replay |-> OnPage(Block(c, s))]]
     ELSE dailyHook' = [dailyHook EXCEPT ![h].names = rest] /\ UNCHANGED bindings
  /\ UNCHANGED <<queue, dayPage, generation, settled, dreamRequest, dreamAck, dailyLock, consumed>>
  /\ Undisturbed

AtSave(h, step) == dailyHook[h].at = step
SaveNext(h, step) == dailyHook' = [dailyHook EXCEPT ![h].at = step]

SavePage(h) ==
  /\ AtSave(h, "page") /\ SaveNext(h, "generation")
  /\ dayPage' = IF dailyHook[h].replay THEN dayPage ELSE Append(dayPage, Block(dailyHook[h].id, dailyHook[h].says))
  /\ UNCHANGED <<queue, bindings, generation, settled, dreamRequest, dreamAck, dailyLock, consumed>>
  /\ Undisturbed

\* The generation advances unless the checkpoint was committed before; the two files
\* are written one after the other, so a crash between them advances it again.
SaveGeneration(h) ==
  LET c == dailyHook[h].id IN
  /\ AtSave(h, "generation")
  /\ IF settled[c] = NoNote
     THEN generation' = Append(generation, Block(c, dailyHook[h].says)) /\ SaveNext(h, "committed")
     ELSE UNCHANGED generation /\ SaveNext(h, "request")
  /\ UNCHANGED <<queue, bindings, dayPage, settled, dreamRequest, dreamAck, dailyLock, consumed>>
  /\ Undisturbed
SaveCommitted(h) ==
  /\ AtSave(h, "committed") /\ SaveNext(h, "request")
  /\ settled' = [settled EXCEPT ![dailyHook[h].id] = dailyHook[h].says]
  /\ UNCHANGED <<queue, bindings, dayPage, generation, dreamRequest, dreamAck, dailyLock, consumed>>
  /\ Undisturbed

\* The request follows the generation unless the dream already acknowledged it.
RequestAfterSaveOnce == IF dreamRequest = NoChain /\ dreamAck # generation THEN generation ELSE dreamRequest
RequestAfterSave == IF dreamAck # generation THEN generation ELSE dreamRequest
SaveRequest(h) ==
  /\ AtSave(h, "request") /\ SaveNext(h, "remove") /\ dreamRequest' = RequestAfterSave
  /\ UNCHANGED <<queue, bindings, dayPage, generation, settled, dreamAck, dailyLock, consumed>>
  /\ Undisturbed

SaveRemoves(h) ==
  LET c == dailyHook[h].id IN
  /\ AtSave(h, "remove")
  /\ queue' = [queue EXCEPT ![c] = NoNote]
  /\ consumed' = consumed \cup {Block(c, dailyHook[h].says)}
  /\ dailyHook' = [dailyHook EXCEPT ![h] = DrainState(@.names)]
  /\ UNCHANGED <<bindings, dayPage, generation, settled, dreamRequest, dreamAck, dailyLock>>
  /\ Undisturbed

StopUnlocks(h) ==
  /\ dailyHook[h] = DrainState({}) /\ dailyLock' = FALSE
  /\ dailyHook' = [dailyHook EXCEPT ![h] = HookIdle]
  /\ UNCHANGED <<dailyFiles, consumed>> /\ Undisturbed

-----------------------------------------------------------------------------
\* dailyDreamAck, of the request an agent saw earlier: under the lock the request
\* must still be the generation the agent names.
DreamStarts(h) ==
  /\ dailyHook[h] = HookIdle /\ dreamRequest # NoChain /\ ~LegacyPending
  /\ dailyHook' = [dailyHook EXCEPT ![h] = [at |-> "ack", digest |-> dreamRequest]]
  /\ UNCHANGED <<dailyFiles, dailyLock, consumed>> /\ Undisturbed
AckCurrent(digest) == dreamRequest = generation /\ dreamRequest = digest
DreamAcks(h) ==
  /\ AtSave(h, "ack")
  /\ \/ /\ ~dailyLock /\ AckCurrent(dailyHook[h].digest)
        /\ dreamAck' = dreamRequest /\ dailyLock' = TRUE /\ SaveNext(h, "ackRemove")
     \/ /\ dailyLock \/ ~AckCurrent(dailyHook[h].digest)
        /\ dailyHook' = [dailyHook EXCEPT ![h] = HookIdle] /\ UNCHANGED <<dreamAck, dailyLock>>
  /\ UNCHANGED <<queue, bindings, dayPage, generation, settled, dreamRequest, consumed>>
  /\ Undisturbed
AckRemoves(h) ==
  /\ AtSave(h, "ackRemove") /\ dreamRequest' = NoChain /\ dailyLock' = FALSE
  /\ dailyHook' = [dailyHook EXCEPT ![h] = HookIdle]
  /\ UNCHANGED <<queue, bindings, dayPage, generation, settled, dreamAck, consumed>>
  /\ Undisturbed

\* A hook dies.  Its lock directory stays, and no later hook passes it until
\* someone removes the directory by hand.
HookDies(h) ==
  /\ dailyHook[h] # HookIdle /\ dailyCrashes < MaxDailyCrashes
  /\ dailyHook' = [dailyHook EXCEPT ![h] = HookIdle] /\ dailyCrashes' = dailyCrashes + 1
  /\ UNCHANGED <<dailyFiles, dailyLock, consumed, checkpointsLeft>>
LockRemovedByHand ==
  /\ dailyLock /\ \A h \in DailyHook : dailyHook[h].at \in {"idle", "lock", "ack"}
  /\ dailyLock' = FALSE
  /\ UNCHANGED <<dailyFiles, dailyHook, consumed>> /\ Undisturbed

DailyNext ==
  \/ \E c \in Checkpoint, s \in Summary : Queue(c, s)
  \/ LockRemovedByHand
  \/ \E h \in DailyHook :
       \/ StopLists(h) \/ StopLocks(h) \/ LegacyGeneration(h) \/ LegacyMarker(h)
       \/ \E c \in Checkpoint : SaveReads(h, c)
       \/ SavePage(h) \/ SaveGeneration(h) \/ SaveCommitted(h) \/ SaveRequest(h) \/ SaveRemoves(h)
       \/ StopUnlocks(h) \/ DreamStarts(h) \/ DreamAcks(h) \/ AckRemoves(h) \/ HookDies(h)

DailySpec == DailyInit /\ [][DailyNext]_dailyVars

-----------------------------------------------------------------------------
\* "A concurrent new request survives": a checkpoint whose pending file was consumed
\* stands on the page exactly once, and a generation that covers it is requested or
\* acknowledged, whatever crashes, replays, late acknowledgements and reused IDs.
Covers(chain, b) == \E n \in DOMAIN chain : chain[n] = b
ConsumedIsDreamt ==
  \A b \in consumed :
     /\ Cardinality({n \in DOMAIN dayPage : dayPage[n].id = b.id}) = 1
     /\ Covers(dreamRequest, b) \/ Covers(dreamAck, b)
=============================================================================
