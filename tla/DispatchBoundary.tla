--------------------------- MODULE DispatchBoundary ---------------------------
(***************************************************************************)
(* The durable record of what Maestro dispatches: one receipt per          *)
(* occurrence, numbered by epochs, a pointer to the current one, and one   *)
(* chain file of the plan.  A call holds the directory lock throughout and *)
(* the kernel frees it when a process stops, so other calls see a call's   *)
(* files only as it leaves them, whole or cut short.  The recovery markers *)
(* it writes when it cannot undo a failure are left out: no code reads     *)
(* them.                                                                   *)
(***************************************************************************)
EXTENDS QualityLoop, SequencesExt, FiniteSetsExt

CONSTANTS Dispatcher,
          DispatchId,          \* occurrences
          Party,               \* owner and session
          Payload,             \* digests of prompt, packet, draft, plan and chain
          Evidence,            \* chains of one plan, as sequences of receipts
          MaxBoundaryFaults    \* bound: failures and crashes

\* The chain file holds a list of receipts, or nothing.
NoChainFile == <<"absent">>
ASSUME EvidenceAssumption ==
  NoChainFile \notin Evidence /\ \A c \in Evidence : Len(c) \in Nat /\ c = [k \in 1..Len(c) |-> c[k]]

VARIABLES dispatchReceipts,            \* the receipts directory
          strayReceipt,        \* a temporary file was left in it
          current,             \* epoch the current pointer names, 0 without one
          chainFile,           \* chain state of the plan
          dispatcher,          \* what each process has been told and done
          committed,           \* occurrences whose effects a caller committed
          unpointed,           \* history: occurrences prepared without a pointer to them
          acknowledged,        \* history: the chain last told to be stored
          boundaryFaults

boundaryVars == <<dispatchReceipts, strayReceipt, current, chainFile, dispatcher,
                  committed, unpointed, acknowledged, boundaryFaults>>

NoDispatch == [at |-> "idle"]
Occurrence == [id : DispatchId, party : Party, payload : Payload]

BoundaryInit ==
  /\ dispatchReceipts = {} /\ strayReceipt = FALSE /\ current = 0
  /\ chainFile = NoChainFile /\ dispatcher = [p \in Dispatcher |-> NoDispatch]
  /\ committed = {} /\ unpointed = {} /\ acknowledged = NoChainFile /\ boundaryFaults = 0

Faulty == boundaryFaults < MaxBoundaryFaults /\ boundaryFaults' = boundaryFaults + 1
NoFault == UNCHANGED boundaryFaults

-----------------------------------------------------------------------------
\* scanDispatchReceipts fails on a file that is no receipt and on duplicates.
Scannable ==
  /\ ~strayReceipt
  /\ \A r, s \in dispatchReceipts : (r.epoch = s.epoch \/ r.id = s.id) => r = s
PriorReceipts(id) == {r \in dispatchReceipts : r.id = id}
CurrentReceipts == {r \in dispatchReceipts : r.epoch = current}
SameOccurrence(r, o) == r.id = o.id /\ r.party = o.party /\ r.payload = o.payload

NextEpoch == 1 + Max({0} \cup {r.epoch : r \in dispatchReceipts})

Told(p, o, receipt) == dispatcher' = [dispatcher EXCEPT ![p] = [at |-> "prepared", occurrence |-> o, receipt |-> receipt]]
Untold == UNCHANGED dispatcher

\* persistDispatchCurrentPointer: replaced and durable; or it failed, or was cut
\* short, before the rename or with the previous pointer put back; or with the
\* new one in place.
PointerReplaced(epoch) == current' = epoch /\ NoFault
PointerFailed(epoch) == current' \in {current, epoch} /\ Faulty

\* PersistDispatchBoundary for an occurrence that has a receipt: it must be the
\* same one, and an older pointer is moved up to it, even from one still prepared.
PersistAgain(p, o) ==
  /\ dispatcher[p] = NoDispatch /\ Scannable
  /\ \E r \in PriorReceipts(o.id) :
       /\ SameOccurrence(r, o)
       /\ \/ current >= r.epoch /\ Told(p, o, r) /\ NoFault /\ UNCHANGED current
          \/ current < r.epoch /\ PointerReplaced(r.epoch) /\ Told(p, o, r)
          \/ current < r.epoch /\ PointerFailed(r.epoch) /\ Untold
  /\ UNCHANGED <<dispatchReceipts, strayReceipt, chainFile, committed, unpointed, acknowledged>>

\* PersistDispatchBoundary for a new one: the current occurrence must be finished.
NewReceipt(o) == [id |-> o.id, party |-> o.party, payload |-> o.payload, epoch |-> NextEpoch, status |-> "prepared"]
MayPrepare(o) ==
  /\ Scannable /\ PriorReceipts(o.id) = {}
  /\ \A r \in CurrentReceipts : r.status = "finished"

PersistNew(p, o) ==
  /\ dispatcher[p] = NoDispatch /\ MayPrepare(o)
  /\ dispatchReceipts' = dispatchReceipts \cup {NewReceipt(o)}
  /\ \/ PointerReplaced(NextEpoch) /\ Told(p, o, NewReceipt(o))
     \* The pointer failed, or the directory of the receipts could not be synced, or the
     \* process stopped: nobody is told of the receipt.
     \/ PointerFailed(NextEpoch) /\ Untold
  /\ unpointed' = IF current' = NextEpoch THEN unpointed ELSE unpointed \cup {o.id}
  /\ UNCHANGED <<strayReceipt, chainFile, committed, acknowledged>>

\* The process stops between creating a temporary receipt and renaming it.
TemporaryLeft(p) ==
  /\ Faulty /\ strayReceipt' = TRUE
  /\ dispatcher' = [dispatcher EXCEPT ![p] = NoDispatch]
  /\ UNCHANGED <<dispatchReceipts, current, chainFile, committed, unpointed, acknowledged>>
PersistCutShort(p, o) == dispatcher[p] = NoDispatch /\ MayPrepare(o) /\ TemporaryLeft(p)

\* The caller commits prompt and observations of a prepared occurrence.
CommitEffects(p) ==
  /\ dispatcher[p].at = "prepared"
  /\ dispatcher' = [dispatcher EXCEPT ![p].at = "committed"]
  /\ committed' = committed \cup {dispatcher[p].occurrence}
  /\ UNCHANGED <<dispatchReceipts, strayReceipt, current, chainFile, unpointed, acknowledged, boundaryFaults>>

\* FinalizeDispatchBoundary: the receipt must be the one the caller was given.
MayFinalize(p) ==
  /\ dispatcher[p].at = "committed" /\ Scannable /\ current # 0
  /\ dispatcher[p].receipt \in dispatchReceipts
  /\ SameOccurrence(dispatcher[p].receipt, dispatcher[p].occurrence)
Finished(r) == [r EXCEPT !.status = "finished"]

FinalizeDispatchBoundary(p) ==
  LET r == dispatcher[p].receipt IN
  /\ MayFinalize(p) /\ (r.status = "finished" \/ current >= r.epoch)
  /\ dispatcher' = [dispatcher EXCEPT ![p] = NoDispatch]
  /\ dispatchReceipts' = (dispatchReceipts \ {r}) \cup {Finished(r)} /\ NoFault
  /\ UNCHANGED <<strayReceipt, current, chainFile, committed, unpointed, acknowledged>>

\* replaceDispatchReceipt fails: the prepared receipt stays or is put back, and
\* the caller may try again; or it could not be put back.
FinalizeFails(p) ==
  LET r == dispatcher[p].receipt IN
  /\ MayFinalize(p) /\ r.status = "prepared" /\ current >= r.epoch /\ Faulty
  /\ UNCHANGED dispatchReceipts \/ dispatchReceipts' = (dispatchReceipts \ {r}) \cup {Finished(r)}
  /\ UNCHANGED <<strayReceipt, current, chainFile, dispatcher, committed, unpointed, acknowledged>>
FinalizeCutShort(p) ==
  /\ MayFinalize(p) /\ dispatcher[p].receipt.status = "prepared"
  /\ current >= dispatcher[p].receipt.epoch /\ TemporaryLeft(p)

\* A caller gives up, or its process stops.
DispatcherStops(p) ==
  /\ dispatcher[p] # NoDispatch /\ dispatcher' = [dispatcher EXCEPT ![p] = NoDispatch]
  /\ UNCHANGED <<dispatchReceipts, strayReceipt, current, chainFile, committed, unpointed, acknowledged, boundaryFaults>>

-----------------------------------------------------------------------------
\* chainStateProgresses: the stored receipts are a proper prefix.
Progresses(old, new) == old = NoChainFile \/ IsStrictPrefix(old, new)

PersistChainState(c) ==
  /\ \/ /\ c = chainFile \/ Progresses(chainFile, c)
        /\ chainFile' = c /\ acknowledged' = c /\ NoFault
     \* The directory cannot be synced: the new file is removed, and with it the one it
     \* replaced; or it cannot be removed.
     \/ /\ c # chainFile /\ Progresses(chainFile, c) /\ Faulty
        /\ \/ chainFile' = NoChainFile /\ acknowledged' = NoChainFile
           \/ chainFile' = c /\ UNCHANGED acknowledged
  /\ UNCHANGED <<dispatchReceipts, strayReceipt, current, dispatcher, committed, unpointed>>

RemoveChainState ==
  /\ chainFile # NoChainFile /\ chainFile' = NoChainFile /\ acknowledged' = NoChainFile
  /\ UNCHANGED <<dispatchReceipts, strayReceipt, current, dispatcher, committed, unpointed, boundaryFaults>>

BoundaryNext ==
  \/ \E p \in Dispatcher :
       \/ \E o \in Occurrence : PersistAgain(p, o) \/ PersistNew(p, o) \/ PersistCutShort(p, o)
       \/ CommitEffects(p) \/ FinalizeDispatchBoundary(p) \/ FinalizeFails(p) \/ FinalizeCutShort(p)
       \/ DispatcherStops(p)
  \/ \E c \in Evidence : PersistChainState(c)
  \/ RemoveChainState
BoundarySpec == BoundaryInit /\ [][BoundaryNext]_boundaryVars

-----------------------------------------------------------------------------
\* Failures and crashes between receipt and pointer never leave two receipts of
\* one epoch or occurrence, or a pointer to none, on which every later call would
\* fail; an occurrence is left prepared behind the current one only if the call
\* that prepared it did not get to its pointer; and a finished receipt tells of effects that were
\* committed with exactly its content (PersistDispatchBoundary,
\* FinalizeDispatchBoundary).
ReceiptsSound ==
  /\ \A r, s \in dispatchReceipts : (r.epoch = s.epoch \/ r.id = s.id) => r = s
  /\ current # 0 => CurrentReceipts # {}
  /\ \A r \in dispatchReceipts : r.status = "prepared" => r.epoch = current \/ r.id \in unpointed
  /\ \A r \in dispatchReceipts : r.status = "finished" => \E o \in committed : SameOccurrence(r, o)

\* A chain that a caller was told is stored stays so, perhaps extended, until it
\* is removed or a failed write removes it (PersistChainState).
EvidenceKept == acknowledged # NoChainFile => IsPrefix(acknowledged, chainFile)

DispatchSound == ReceiptsSound /\ EvidenceKept

\* What Maestro promises: a finished Case answers with approved content, and what it
\* records of its dispatches can be relied on after any failure.
MaestroSound == FinalIsApproved /\ DispatchSound
===============================================================================
