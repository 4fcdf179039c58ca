---------------------------- MODULE LedgerReaders ----------------------------
(***************************************************************************)
(* The readers of the execution ledger.  Inspect, Next, List, NextActive,  *)
(* ActivePointer, ActiveContinuity and Export take no lock: they list a    *)
(* directory, then read file after file while writers publish revisions    *)
(* and Delete renames items away.  A published revision never changes and  *)
(* an item that is gone never returns, so listing a directory of revisions *)
(* and reading its files is one step, which fails once the item is gone.   *)
(* The revisions themselves are those of ExecutionItem.                    *)
(***************************************************************************)
EXTENDS ExecutionItem, FiniteSets

CONSTANTS Item,                \* item directories, numbered in name order
          Reader,
          MaximumListItems,
          MaxHistory,          \* bound: revisions of an item
          MaxDamage            \* bound: unreadable revision files

VARIABLES history,             \* published revisions of each item; <<>> when it has no directory
          removed,             \* items that Delete has renamed away
          damaged,             \* items whose newest revision file cannot be read
          reader               \* call in progress of each reader, or its answer

readerVars == <<history, removed, damaged, reader>>

Present == {i \in Item : history[i] # <<>> /\ i \notin removed}
NoReading == [call |-> "none"]
Failed == [call |-> "failed"]

ReadersInit ==
  /\ history = [i \in Item |-> <<>>] /\ removed = {} /\ damaged = {}
  /\ reader = [r \in Reader |-> NoReading]

-----------------------------------------------------------------------------
\* Writers, each holding the item's lock.
CreateItem(i) ==
  /\ history[i] = <<>>
  /\ history' = [history EXCEPT ![i] = <<CreatedRevision>>]
  /\ UNCHANGED <<removed, damaged, reader>>

Candidates(l) ==
  {StartRevision(l), ResumeRevision(l), TombstoneRevision,
   PauseRevision(l), CompleteRevision(l), StartToolCallRevision(l)}
   \cup {CheckpointRevision(l, a) : a \in 1..Len(l)}
   \cup {FinishToolCallRevision(l, k, "succeeded") : k \in 1..Len(l)}
   \cup {ReviewRevision(l, Len(l), d) : d \in ReviewDecision}
   \cup UNION {{EvidenceRevision(l, c, o) : o \in Observation(c) \cap Passing} : c \in Criteria}

\* commitRevision
Commit(i) ==
  /\ i \in Present \ damaged /\ Len(history[i]) < MaxHistory
  /\ \E revision \in Candidates(history[i]) :
       /\ Successor(history[i], revision)
       /\ history' = [history EXCEPT ![i] = Append(@, revision)]
  /\ UNCHANGED <<removed, damaged, reader>>

\* The second half of Delete: a tombstone is there, the directory goes.
Purge(i) ==
  /\ i \in Present /\ Latest(history[i]) = TombstoneRevision
  /\ removed' = removed \cup {i}
  /\ UNCHANGED <<history, damaged, reader>>

\* The newest revision file is unreadable: truncated, too large, a link.
Damage(i) ==
  /\ i \in Present \ damaged /\ Cardinality(damaged) < MaxDamage
  /\ damaged' = damaged \cup {i}
  /\ UNCHANGED <<history, removed, reader>>

-----------------------------------------------------------------------------
\* inspectUnlocked over latestValidRevision: the newest revision or an error,
\* never an older one past a damaged file.
CanInspect(i) == i \in Present /\ i \notin damaged
Shown(i) == [item |-> i, revision |-> Len(history[i]), state |-> Latest(history[i]).state]

\* The item, revision and state of the projection; its texts are left out.
nextProjection(i) == [call |-> "next", projection |-> Shown(i)]

\* What Export takes from the revisions.  Each of the four reads them all again
\* and fails on one that cannot be read.
Transitions(l) == [n \in DOMAIN l |-> l[n].state]
Receipts(l, kind) == SelectSeq([n \in DOMAIN l |-> l[n].receipt], LAMBDA receipt : receipt.kind = kind)
Evidences(l) == Receipts(l, "evidence")
ToolCalls(l) == Receipts(l, "tool")
YodaReviews(l) == Receipts(l, "yoda")
Extract(part, l) ==
  CASE part = "item" -> <<Len(l)>> [] part = "transitions" -> Transitions(l)
    [] part = "evidences" -> Evidences(l) [] part = "toolCalls" -> ToolCalls(l)
    [] part = "yodaReviews" -> YodaReviews(l)

HistoriesStay == UNCHANGED <<history, removed, damaged>>
Answers(r, value) == reader' = [reader EXCEPT ![r] = value] /\ HistoriesStay

\* Export reads the item first, so that no history ends before it.
\* Mutant: the item is read after its histories.
ExportOrderItemLast == <<"transitions", "evidences", "toolCalls", "yodaReviews", "item">>
ExportOrder == <<"item", "transitions", "evidences", "toolCalls", "yodaReviews">>

BeginExport(r, i) ==
  /\ reader[r].call \in {"none", "failed"} /\ history[i] # <<>>
  /\ Answers(r, [call |-> "export", item |-> i, parts |-> <<>>])

ExportStep(r) ==
  /\ reader[r].call = "export" /\ Len(reader[r].parts) < Len(ExportOrder)
  /\ LET i == reader[r].item
         part == ExportOrder[Len(reader[r].parts) + 1] IN
     Answers(r, IF ~CanInspect(i) THEN Failed
                ELSE [reader[r] EXCEPT !.parts = Append(@, Extract(part, history[i]))])

\* List and activeItemIDs: the entries of the items directory, then each item in
\* the order of names; an item that cannot be inspected fails the whole call.
BeginListing(r, call) ==
  /\ reader[r].call \in {"none", "failed"}
  /\ Answers(r, IF Cardinality(Present) > MaximumListItems THEN Failed
                ELSE [call |-> call, entries |-> [i \in Present |-> Len(history[i])], left |-> Present, seen |-> {}])

FirstName(names) == CHOOSE i \in names : \A k \in names : i <= k

OnUnreadable(listing, i) == Failed

InspectNext(r) ==
  /\ reader[r].call \in {"list", "active"} /\ reader[r].left # {}
  /\ LET i == FirstName(reader[r].left) IN
     Answers(r, IF ~CanInspect(i) THEN OnUnreadable(reader[r], i)
                ELSE [call |-> reader[r].call, entries |-> reader[r].entries,
                      left |-> reader[r].left \ {i}, seen |-> reader[r].seen \cup {Shown(i)}])

\* activeItemIDs keeps what was running or paused.
ActiveIDs(listing) == {s.item : s \in {t \in listing.seen : t.state \in {"running", "paused"}}}

\* Next, and with NextActive and ActiveContinuity the one active item again.
NextAnswer(r, i) == Answers(r, IF CanInspect(i) THEN nextProjection(i) ELSE Failed)
ResolveActive(r) ==
  /\ reader[r].call = "active" /\ reader[r].left = {}
  /\ \/ Cardinality(ActiveIDs(reader[r])) = 1
        /\ \E i \in ActiveIDs(reader[r]) : NextAnswer(r, i)
     \/ Cardinality(ActiveIDs(reader[r])) # 1 /\ Answers(r, Failed)

\* The caller has its answer.
Answered(r) ==
  \/ reader[r].call = "next"
  \/ reader[r].call = "list" /\ reader[r].left = {}
  \/ reader[r].call = "export" /\ Len(reader[r].parts) = Len(ExportOrder)
CallOver(r) == Answered(r) /\ Answers(r, NoReading)

ReadersNext ==
  \/ \E i \in Item : CreateItem(i) \/ Commit(i) \/ Purge(i) \/ Damage(i)
  \/ \E r \in Reader :
       \/ \E i \in Item : BeginExport(r, i)
       \/ \E call \in {"list", "active"} : BeginListing(r, call)
       \/ ExportStep(r) \/ InspectNext(r) \/ ResolveActive(r) \/ CallOver(r)
ReadersSpec == ReadersInit /\ [][ReadersNext]_readerVars

-----------------------------------------------------------------------------
Part(r, name) == reader[r].parts[CHOOSE n \in DOMAIN ExportOrder : ExportOrder[n] = name]

\* What a reader returns is accounted for although it held no lock.  An export
\* has every transition, evidence, tool call and review that its state rests on: each
\* of its histories is the item's up to a revision that is not before the one it
\* shows (Export).  A list that succeeds leaves out no item that was in the directory
\* when it began, and shows each at a revision no older than that (List).
AnswersAccountedFor ==
  \A r \in Reader : Answered(r) =>
    /\ reader[r].call = "export" =>
         \A name \in {"transitions", "evidences", "toolCalls", "yodaReviews"} :
           \E n \in Part(r, "item")[1] .. Len(history[reader[r].item]) :
             Part(r, name) = Extract(name, SubSeq(history[reader[r].item], 1, n))
    /\ reader[r].call = "list" =>
         \A i \in DOMAIN reader[r].entries :
           \E s \in reader[r].seen : s.item = i /\ s.revision >= reader[r].entries[i]
=============================================================================
