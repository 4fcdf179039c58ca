--------------------------- MODULE WorkspaceAgent ---------------------------
(***************************************************************************)
(* The control plane of one workspace agent: its registry and operational  *)
(* state, versioned briefs, the research plans an owner approves and the   *)
(* query budget they grant, public economic snapshots, and the first-value *)
(* runs that end in a governed artifact.  There is no lock: a document is  *)
(* created exclusively and then written, references are replaced           *)
(* atomically, the operational state is read, changed and replaced.  Calls *)
(* of several processes interleave and may stop after any file operation.  *)
(***************************************************************************)
EXTENDS Naturals, Sequences, FiniteSets

CONSTANTS AgentProcess, Plan,
          Theme,               \* approved query themes
          MaxQueries,          \* budget of a plan
          MaxDocuments,        \* bound: briefs, snapshots and runs
          MaxCalls,            \* bound: calls
          MaxAgentCrashes

\* A budget is a number of queries.
ASSUME BudgetAssumption == MaxQueries \in Nat

VARIABLES disk,                \* each document: absent, torn (created, not written) or whole
          query,               \* query in each budget slot
          reference,           \* current-brief, economic-snapshot, first-value-handoff
          operational,         \* agent/state.json
          runs,                \* first-value run files: status and the brief they deliver
          expired,             \* plans past valid_until
          process,             \* call of each process
          told,                \* history: queries a caller was allowed to execute
          calls, agentCrashes

agentVars == <<disk, query, reference, operational, runs, expired, process, told, calls, agentCrashes>>

Number == 1..MaxDocuments
Slot == 1..MaxQueries
Fixed == {<<"registry">>, <<"state">>, <<"readme">>}
Document == {"brief", "snapshot", "run", "plan", "artifact", "receipt"} \X Number
Approval == {"proposed", "approved"} \X Plan
SlotFile == {"slot"} \X Plan \X Slot
EvidenceFile == {"evidence"} \X Plan \X Theme
File == Fixed \cup Document \cup Approval \cup SlotFile \cup EvidenceFile

AgentIdle == [todo |-> <<>>, read |-> <<>>, plan |-> <<>>, slot |-> 0]
NoRun == [status |-> "none", brief |-> 0]

AgentInit ==
  /\ disk = [f \in File |-> "absent"] /\ query = [f \in SlotFile |-> "none"]
  /\ reference = [brief |-> 0, economic |-> 0, handoff |-> 0]
  /\ operational = [brief |-> 0, research |-> 0, economic |-> 0, handoff |-> 0]
  /\ runs = [n \in Number |-> NoRun] /\ expired = {}
  /\ process = [p \in AgentProcess |-> AgentIdle] /\ told = {} /\ calls = 0 /\ agentCrashes = 0

-----------------------------------------------------------------------------
\* The file operations a call is made of.
Make(f) == [do |-> "make", file |-> f]
Ensure(f) == [do |-> "ensure", file |-> f]
Refer(name, to) == [do |-> "refer", name |-> name, to |-> to]
WriteRun(n, value) == [do |-> "run", run |-> n, value |-> value]
UpdateState(name, to) == <<[do |-> "read"], [do |-> "write", name |-> name, to |-> to]>>

Begins(p, todo) ==
  /\ process[p] = AgentIdle /\ calls < MaxCalls /\ calls' = calls + 1
  /\ process' = [process EXCEPT ![p].todo = todo]
  /\ UNCHANGED <<disk, query, reference, operational, runs, expired, told, agentCrashes>>

Initialized == disk[<<"registry">>] = "whole" /\ disk[<<"state">>] # "absent" /\ disk[<<"readme">>] # "absent"

\* Document numbers stand for digests of content and time: never used twice.
Claimed(kind) ==
  {n \in Number : disk[<<kind, n>>] # "absent"
     \/ \E p \in AgentProcess : \E k \in DOMAIN process[p].todo :
          process[p].todo[k].do = "make" /\ process[p].todo[k].file = <<kind, n>>}
Fresh(kind) == {n \in Number \ Claimed(kind) : \A k \in Number \ Claimed(kind) : n <= k}

Initialize(p) ==
  Begins(p, <<Ensure(<<"registry">>), Ensure(<<"state">>), Ensure(<<"readme">>)>>)

\* Mutant: the reference moves before the brief is stored.
BriefStepsAhead(n) ==
  <<Refer("brief", n), Make(<<"brief", n>>)>> \o UpdateState("brief", n)
BriefSteps(n) ==
  <<Make(<<"brief", n>>), Refer("brief", n)>> \o UpdateState("brief", n)
SaveBrief(p) == Initialized /\ \E n \in Fresh("brief") : Begins(p, BriefSteps(n))

CreateResearchPlan(p, plan) ==
  Initialized /\ disk[<<"proposed", plan>>] = "absent"
    /\ Begins(p, <<Make(<<"proposed", plan>>)>> \o UpdateState("research", plan))

ApproveResearchPlan(p, plan) ==
  disk[<<"proposed", plan>>] = "whole" /\ plan \notin expired
    /\ Begins(p, <<Make(<<"approved", plan>>)>> \o UpdateState("research", plan))

\* queryWasConsumed: some slot of the plan that can be decoded holds the query.
QueryWasConsumed(plan, theme) ==
  \E k \in Slot : disk[<<"slot", plan, k>>] = "whole" /\ query[<<"slot", plan, k>>] = theme
Usable(plan) == disk[<<"approved", plan>>] = "whole" /\ plan \notin expired

\* validateEvidence: of an approved plan that has not expired, for a query that
\* its budget has paid for.
ValidEvidence(plan, theme) == Usable(plan) /\ QueryWasConsumed(plan, theme)
RecordEvidence(p, plan, theme) ==
  ValidEvidence(plan, theme) /\ Begins(p, <<Make(<<"evidence", plan, theme>>)>>)

SaveEconomicSnapshot(p) == \E n \in Fresh("snapshot") : Begins(p, <<Make(<<"snapshot", n>>)>>)

\* The snapshot need only exist.
AttachEconomicSnapshot(p, n) ==
  Initialized /\ disk[<<"snapshot", n>>] # "absent"
    /\ Begins(p, <<Refer("economic", n)>> \o UpdateState("economic", n))

\* firstValueRuns reads every run; one that cannot be decoded fails the call.
RunsReadable == \A n \in Number : disk[<<"run", n>>] # "torn"
StartFirstValue(p) ==
  /\ Initialized /\ RunsReadable /\ \A n \in Number : runs[n].status # "started"
  /\ \E n \in Fresh("run") : Begins(p, <<Make(<<"run", n>>)>>)

Open(n) == disk[<<"run", n>>] = "whole" /\ runs[n].status = "started"
RecordFirstValueIntervention(p, n) ==
  Open(n) /\ Begins(p, <<WriteRun(n, runs[n])>>)

\* The brief of a run also numbers its plan, artifact and artifact receipt.
DeliverySteps(n, b) ==
  <<Make(<<"plan", b>>), Make(<<"artifact", b>>), Make(<<"receipt", b>>), Refer("handoff", n),
    WriteRun(n, [status |-> "complete", brief |-> b])>> \o UpdateState("handoff", n)
CompleteFirstValue(p, n) ==
  Open(n) /\ Initialized
    /\ \E b \in Fresh("brief") : Begins(p, BriefSteps(b) \o DeliverySteps(n, b))

-----------------------------------------------------------------------------
\* One file operation of a call.
Current(p) == Head(process[p].todo)
Doing(p, what) == process[p].todo # <<>> /\ Current(p).do = what
Done(p) == [process EXCEPT ![p] = [AgentIdle EXCEPT !.todo = Tail(process[p].todo), !.read = process[p].read]]
Aborts(p) == process' = [process EXCEPT ![p] = AgentIdle]
StartedRun(f) == f[1] = "run"

\* createImmutableJSON, createImmutableText: O_EXCL, then the content.
CreateExclusive(p) ==
  /\ Doing(p, "make") /\ disk[Current(p).file] = "absent"
  /\ disk' = [disk EXCEPT ![Current(p).file] = "torn"]
  /\ process' = [process EXCEPT ![p].todo[1].do = "fill"]
  /\ UNCHANGED <<query, reference, operational, runs, expired, told, calls, agentCrashes>>

AlreadyThere(p) ==
  /\ Doing(p, "make") /\ disk[Current(p).file] # "absent" /\ Aborts(p)
  /\ UNCHANGED <<disk, query, reference, operational, runs, expired, told, calls, agentCrashes>>

FillContent(p) ==
  /\ Doing(p, "fill")
  /\ disk' = [disk EXCEPT ![Current(p).file] = "whole"]
  /\ runs' = IF StartedRun(Current(p).file) THEN [runs EXCEPT ![Current(p).file[2]].status = "started"] ELSE runs
  /\ process' = Done(p)
  /\ UNCHANGED <<query, reference, operational, expired, told, calls, agentCrashes>>

\* createJSON and createText: a file that exists is left as it is.
EnsureFile(p) ==
  /\ Doing(p, "ensure")
  /\ IF disk[Current(p).file] = "absent"
     THEN disk' = [disk EXCEPT ![Current(p).file] = "torn"] /\ process' = [process EXCEPT ![p].todo[1].do = "fill"]
     ELSE UNCHANGED disk /\ process' = Done(p)
  /\ UNCHANGED <<query, reference, operational, runs, expired, told, calls, agentCrashes>>

\* writeAtomicJSON of a reference or of a run file.
ReplaceReference(p) ==
  /\ Doing(p, "refer")
  /\ reference' = [reference EXCEPT ![Current(p).name] = Current(p).to]
  /\ process' = Done(p)
  /\ UNCHANGED <<disk, query, operational, runs, expired, told, calls, agentCrashes>>

ReplaceRun(p) ==
  /\ Doing(p, "run")
  /\ runs' = [runs EXCEPT ![Current(p).run] = Current(p).value]
  /\ process' = Done(p)
  /\ UNCHANGED <<disk, query, reference, operational, expired, told, calls, agentCrashes>>

\* updateOperationalState
ReadState(p) ==
  /\ Doing(p, "read")
  /\ IF disk[<<"state">>] = "whole"
     THEN process' = [process EXCEPT ![p].todo = Tail(@), ![p].read = <<operational>>]
     ELSE Aborts(p)
  /\ UNCHANGED <<disk, query, reference, operational, runs, expired, told, calls, agentCrashes>>

WriteState(p) ==
  /\ Doing(p, "write")
  /\ operational' = [Head(process[p].read) EXCEPT ![Current(p).name] = Current(p).to]
  /\ process' = [process EXCEPT ![p].todo = Tail(@), ![p].read = <<>>]
  /\ UNCHANGED <<disk, query, reference, runs, expired, told, calls, agentCrashes>>

-----------------------------------------------------------------------------
\* ConsumeResearchQuery looks for the first slot it can create exclusively; the
\* caller may execute the query once its slot is written.
ConsumeResearchQuery(p, plan, theme) ==
  /\ process[p] = AgentIdle /\ Usable(plan) /\ calls < MaxCalls /\ calls' = calls + 1
  /\ process' = [process EXCEPT ![p] = [AgentIdle EXCEPT !.plan = <<plan, theme>>, !.slot = 1]]
  /\ UNCHANGED <<disk, query, reference, operational, runs, expired, told, agentCrashes>>

Consuming(p) == process[p].slot > 0 /\ process[p].todo = <<>>
SlotOf(p) == <<"slot", process[p].plan[1], process[p].slot>>

FreeSlot(p) == disk[SlotOf(p)] = "absent"

TakeSlot(p) ==
  /\ Consuming(p) /\ process[p].slot <= MaxQueries /\ FreeSlot(p)
  /\ disk' = [disk EXCEPT ![SlotOf(p)] = "torn"]
  /\ process' = [process EXCEPT ![p].todo = <<[do |-> "slot"]>>]
  /\ UNCHANGED <<query, reference, operational, runs, expired, told, calls, agentCrashes>>

NextSlot(p) ==
  /\ Consuming(p) /\ process[p].slot <= MaxQueries /\ ~FreeSlot(p)
  /\ process' = [process EXCEPT ![p].slot = @ + 1]
  /\ UNCHANGED <<disk, query, reference, operational, runs, expired, told, calls, agentCrashes>>

WriteSlot(p) ==
  /\ Doing(p, "slot")
  /\ disk' = [disk EXCEPT ![SlotOf(p)] = "whole"]
  /\ query' = [query EXCEPT ![SlotOf(p)] = process[p].plan[2]]
  /\ told' = told \cup {[by |-> p, plan |-> process[p].plan[1], slot |-> process[p].slot, theme |-> process[p].plan[2]]}
  /\ Aborts(p)
  /\ UNCHANGED <<reference, operational, runs, expired, calls, agentCrashes>>

BudgetExhausted(p) ==
  /\ Consuming(p) /\ process[p].slot > MaxQueries /\ Aborts(p)
  /\ UNCHANGED <<disk, query, reference, operational, runs, expired, told, calls, agentCrashes>>

-----------------------------------------------------------------------------
PlanExpires(plan) ==
  /\ plan \notin expired /\ disk[<<"proposed", plan>>] = "whole" /\ expired' = expired \cup {plan}
  /\ UNCHANGED <<disk, query, reference, operational, runs, process, told, calls, agentCrashes>>

ProcessStops(p) ==
  /\ process[p] # AgentIdle /\ agentCrashes < MaxAgentCrashes
  /\ agentCrashes' = agentCrashes + 1 /\ Aborts(p)
  /\ UNCHANGED <<disk, query, reference, operational, runs, expired, told, calls>>

AgentNext ==
  \/ \E p \in AgentProcess :
       \/ Initialize(p) \/ SaveBrief(p) \/ SaveEconomicSnapshot(p) \/ StartFirstValue(p)
       \/ \E plan \in Plan :
            \/ CreateResearchPlan(p, plan) \/ ApproveResearchPlan(p, plan)
            \/ \E theme \in Theme : ConsumeResearchQuery(p, plan, theme) \/ RecordEvidence(p, plan, theme)
       \/ \E n \in Number :
            AttachEconomicSnapshot(p, n) \/ RecordFirstValueIntervention(p, n) \/ CompleteFirstValue(p, n)
       \/ CreateExclusive(p) \/ AlreadyThere(p) \/ FillContent(p) \/ EnsureFile(p)
       \/ ReplaceReference(p) \/ ReplaceRun(p) \/ ReadState(p) \/ WriteState(p)
       \/ TakeSlot(p) \/ NextSlot(p) \/ WriteSlot(p) \/ BudgetExhausted(p) \/ ProcessStops(p)
  \/ \E plan \in Plan : PlanExpires(plan)
AgentSpec == AgentInit /\ [][AgentNext]_agentVars

-----------------------------------------------------------------------------
\* However calls interleave and stop, no more queries are let out than a plan
\* grants, each under an approval that is on disk, and evidence is kept only for
\* a query whose budget was spent (ConsumeResearchQuery, RecordEvidence).
ResearchWithinBudget ==
  /\ \A plan \in Plan : Cardinality({t \in told : t.plan = plan}) <= MaxQueries
  /\ \A t \in told : disk[<<"approved", t.plan>>] = "whole"
  /\ \A plan \in Plan, theme \in Theme :
       disk[<<"evidence", plan, theme>>] = "whole" => \E t \in told : t.plan = plan /\ t.theme = theme

\* What the references and the operational state name is stored in full, and a
\* run counts as complete only with its brief, plan, artifact and artifact
\* receipt in place (SaveBrief, CompleteFirstValue).
DeliveredIsWhole ==
  /\ reference.brief # 0 => disk[<<"brief", reference.brief>>] = "whole"
  /\ operational.brief # 0 => disk[<<"brief", operational.brief>>] = "whole"
  /\ \A n \in Number : runs[n].status = "complete" =>
       \A kind \in {"brief", "plan", "artifact", "receipt"} : disk[<<kind, runs[n].brief>>] = "whole"
  /\ reference.handoff # 0 => disk[<<"run", reference.handoff>>] = "whole"

\* Both, whatever calls interleave and stop.
AgentHonest == ResearchWithinBudget /\ DeliveredIsWhole
=============================================================================
