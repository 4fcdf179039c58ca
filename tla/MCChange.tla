------------------------------ MODULE MCChange ------------------------------
(***************************************************************************)
(* The components through which an installation, a workspace or a running  *)
(* agent is changed, and the ledger that accounts for it, on small         *)
(* instances.  They share no files in these models: a behaviour picks one  *)
(* component and runs it.  The modules with proofs of their own are        *)
(* extended; the others are instances.                                     *)
(***************************************************************************)
EXTENDS Naturals, Sequences, ExecutionItem, LedgerReaders, ActionConfirmation, OrchestrationGate, NativeFlow, SetupAuthorization, QualityLoop, DispatchBoundary, WorkspaceImport, WorkspaceMigration, ZipMigration, RuntimeProjection, FirstInstall, UpdateChannel, LaunchAgent

CONSTANTS Component,    \* the components to run
          Process,      \* processes that use a component at the same time
          MaxRevision   \* revisions of an item

VARIABLE component     \* which of them this behaviour is about

\* Histories of bounded length.  TLC cannot enumerate the primed history of
\* ItemMutate; it can enumerate the revisions an operation could write, allowed
\* or not, and keep those that are successors.
Drafts(l) ==
    {StartRevision(l), ResumeRevision(l), PauseRevision(l), CompleteRevision(l),
     StartToolCallRevision(l), TombstoneRevision}
      \cup {CheckpointRevision(l, a) : a \in 1..Len(l)}
      \cup UNION {{EvidenceRevision(l, c, o) : o \in Observation(c)} : c \in Criteria}
      \cup {FinishToolCallRevision(l, k, o) : k \in 1..Len(l), o \in ToolCallOutcome}
      \cup {ReviewRevision(l, n, d) : n \in 1..Len(l), d \in ReviewDecision}
MutateByDraft ==
    /\ log # << >>
    /\ \E r \in Drafts(log) : Successor(log, r) /\ log' = Append(log, r)
BoundedNext == Len(log) < MaxRevision /\ (ItemCreate \/ MutateByDraft)

\* The managed paths, or the sources, of a workspace.
TwoFiles == <<"f1", "f2">>

\* The chains of a plan, as sequences of receipts.
PlanChains == {<< >>, <<"r1">>, <<"r2">>}

\* The cadences of scheduler jobs, alone and together.
Daily == [cadence |-> "daily", day |-> 0, tick |-> 1, interval |-> 0, catchUp |-> 2]
Weekly == [cadence |-> "weekly", day |-> 1, tick |-> 0, interval |-> 0, catchUp |-> 1]
Monthly == [cadence |-> "monthly", day |-> 1, tick |-> 2, interval |-> 0, catchUp |-> 2]
Interval == [cadence |-> "interval", day |-> 0, tick |-> 0, interval |-> 4, catchUp |-> 2]
Jobs == {[d |-> Daily], [w |-> Weekly], [m |-> Monthly], [i |-> Interval], [w |-> Weekly, i |-> Interval],
         [d |-> Daily, i |-> [Interval EXCEPT !.interval = 0]]}

\* Requests to Maestro: Cases of scope k under the accounts x and y, with up
\* to two of the agents they could need missing or away, and one request for every other intent.
Agent(id, role, kind, scope, parent) ==
  [id |-> id, role |-> role, kind |-> kind, scope |-> scope, available |-> TRUE,
   parentKind |-> IF parent = "" THEN "" ELSE "account", parent |-> parent]
CaseOf(id, account) == Agent(id, "case_agent", "case", "k", account)
Roster == {CaseOf(1, "y"), CaseOf(2, "x"), Agent(3, "client_account_agent", "account", "x", ""),
           Agent(4, "client_account_agent", "account", "y", ""), Agent(5, "reviewer", "review", "review", "")}
Away(agents) == {[a EXCEPT !.available = (a.id # 2)] : a \in agents}
Specialists == {Agent(5, "reviewer", "review", "review", ""), Agent(6, "client_account_agent", "account", "k", ""),
                Agent(7, "pa_expert", "practice", "k", ""), Agent(8, "governance_analyst", "health", "k", ""),
                Agent(9, "errand_helper", "errand", "k", ""), Agent(10, "quality_guardian", "workspace", "k", "")}
Registries == {Roster \ {a, b} : a, b \in Roster} \cup {Roster}
CaseRequests ==
  [intent : {"case_execution"}, kind : {"case"}, scope : {"k"}, account : {"", "x"}, health : {FALSE},
   executionOnly : BOOLEAN, clientLens : BOOLEAN, material : BOOLEAN,
   agents : Registries \cup {Away(g) : g \in Registries}]
OtherRequests ==
  [intent : {"direct_answer", "account_context", "practice_advisory", "material_review", "health_governance",
             "bounded_errand", "code_quality"},
   kind : {"workspace"}, scope : {"k"}, account : {""}, health : BOOLEAN,
   executionOnly : {FALSE}, clientLens : {FALSE}, material : {FALSE}, agents : {Specialists}]
Requests == CaseRequests \cup OtherRequests

VARIABLES jobs, now, zone, enrolledAt, catchupReceipts, wake, wakes, travels
catchupState == <<jobs, now, zone, enrolledAt, catchupReceipts, wake, wakes, travels>>
CatchUp == INSTANCE SchedulerCatchUp WITH
    JobTables <- Jobs, DayTicks <- 3, Zones <- {0, 1}, Horizon <- 10, MaxWakes <- 2,
    MaxTravel <- 1, receipts <- catchupReceipts

-----------------------------------------------------------------------------
Init ==
  /\ component \in Component
  /\ ItemInit
  /\ ReadersInit
  /\ ConfirmInit
  /\ GateInit
  /\ FlowInit
  /\ SetupInit
  /\ LoopInit
  /\ BoundaryInit
  /\ ImportInit
  /\ MigrationInit
  /\ ZipInit
  /\ ProjectionInit  /\ (component = "projection" \/ \A f \in DOMAIN managedFiles : managedFiles[f] = NoFile)
  /\ InstallInit  /\ (component = "first" \/ rootDir = NoRoot)
  /\ UpdateInit
  /\ CatchUp!CatchInit  /\ (component = "catchup" \/ (jobs = [d |-> Daily] /\ zone = 0))
  /\ LaunchInit  /\ (component = "launch" \/ native)

Others(c) ==
  /\ UNCHANGED component
  /\ IF c = "item" THEN TRUE ELSE UNCHANGED log
  /\ IF c = "readers" THEN TRUE ELSE UNCHANGED readerVars
  /\ IF c = "confirmation" THEN TRUE ELSE UNCHANGED confirmVars
  /\ IF c = "gate" THEN TRUE ELSE UNCHANGED gateVars
  /\ IF c = "flow" THEN TRUE ELSE UNCHANGED flowVars
  /\ IF c = "setup" THEN TRUE ELSE UNCHANGED setupVars
  /\ IF c = "loop" THEN TRUE ELSE UNCHANGED loopVars
  /\ IF c = "boundary" THEN TRUE ELSE UNCHANGED boundaryVars
  /\ IF c = "import" THEN TRUE ELSE UNCHANGED importVars
  /\ IF c = "migration" THEN TRUE ELSE UNCHANGED migrationVars
  /\ IF c = "zip" THEN TRUE ELSE UNCHANGED zipVars
  /\ IF c = "projection" THEN TRUE ELSE UNCHANGED projectionVars
  /\ IF c = "first" THEN TRUE ELSE UNCHANGED installVars
  /\ IF c = "channel" THEN TRUE ELSE UNCHANGED updateVars
  /\ IF c = "catchup" THEN TRUE ELSE UNCHANGED catchupState
  /\ IF c = "launch" THEN TRUE ELSE UNCHANGED launchVars

Next ==
  \/ component = "item" /\ BoundedNext /\ Others("item")
  \/ component = "readers" /\ ReadersNext /\ Others("readers")
  \/ component = "confirmation" /\ ConfirmNext /\ Others("confirmation")
  \/ component = "gate" /\ GateNext /\ Others("gate")
  \/ component = "flow" /\ FlowNext /\ Others("flow")
  \/ component = "setup" /\ SetupNext /\ Others("setup")
  \/ component = "loop" /\ LoopNext /\ Others("loop")
  \/ component = "boundary" /\ BoundaryNext /\ Others("boundary")
  \/ component = "import" /\ ImportNext /\ Others("import")
  \/ component = "migration" /\ MigrationNext /\ Others("migration")
  \/ component = "zip" /\ ZipNext /\ Others("zip")
  \/ component = "projection" /\ ProjectionNext /\ Others("projection")
  \/ component = "first" /\ InstallNext /\ Others("first")
  \/ component = "channel" /\ UpdateNext /\ Others("channel")
  \/ component = "catchup" /\ CatchUp!CatchNext /\ Others("catchup")
  \/ component = "launch" /\ LaunchNext /\ Others("launch")

vars == <<component, log,
          readerVars,
          confirmVars,
          gateVars,
          flowVars,
          setupVars,
          loopVars,
          boundaryVars,
          importVars,
          migrationVars,
          zipVars,
          projectionVars,
          installVars,
          updateVars,
          catchupState,
          launchVars>>
Spec == Init /\ [][Next]_vars

-----------------------------------------------------------------------------
\* SchedulerCatchUp: what is due is the oldest of the unserved slots, as many as the
\* catch-up bound allows.
DueIsBacklog == component = "catchup" => CatchUp!DueIsBacklog
=============================================================================
