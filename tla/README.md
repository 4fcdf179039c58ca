# Maestro agentic OS: TLA+ models, checks and proofs

This directory holds TLA+ specifications of the parts of the repository whose
correctness depends on the order in which several processes act on shared
files, the TLC configurations that check them on small instances, and TLAPS
proofs of what matters most for every instance.

## 1. The system

The repository is a local "agentic OS" written in Go. There is no server: the
CLI, the MCP adapters, host hooks and scheduled wakes are separate processes
that meet only in files below a data root, a managed root and a workspace.
Hence no memory is shared between actors except the file system, every
guarantee rests on `mkdir`, `link`, `rename`, `O_EXCL` or `flock`, and any
process may be suspended or end between two of them.

### 1.1 Inventory

| Component (package) | State | What must hold | Status |
|---|---|---|---|
| Execution ledger (`execution`) | immutable revisions of an item, `state.json`, `.mutation.lock` | the revisions form one legal history whoever writes them; completion is earned; no lock stays for good; readers without the lock are not misled | partly: `ExecutionItem`, `ExecutionLedger`, `LedgerReaders` |
| Installation transactions (`installtx`) | install state, active CLI, bundles, runtimes, backups, receipts, `.activation.lock` | the release in force can always be reinstated; an interrupted update is completed or undone | partly: `InstallTransaction` |
| Update service (`releaseprovider`, `updateplan`, `updateservice`) | pending update, downloaded package | what is staged and confirmed is what one signed manifest lists | partly: `UpdateChannel`, `InstallTransaction` |
| Scheduler (`scheduler`) | enrollment, receipts, lease, fence marker, guard | what is due is the backlog; one handler at a time; nothing barred for ever | partly: `SchedulerCatchUp`, `MaintenanceWorker` |
| Maintenance worker (`maintenance`) | maintenance receipts | one verdict per occurrence, published by the holder of the lease | partly: `MaintenanceWorker`, `DarwinWorker` |
| Agent dispatch (`agentdispatch`) | delegation records, journal, used nonces | what a restart reads is approved, settled and not replayable | partly: `AgentDispatch` |
| Agent orchestration (`agentorchestration`) | active branch, breadcrumbs, policy binding, state lock | a decision that was told stands; one branch per fence epoch | partly: `OrchestrationGate`, `AgentDispatch` |
| Action confirmation (`actionconfirmation`) | challenges, key, lock | an action is let through once, after the owner confirmed it | modelled: `ActionConfirmation`, `SingleUse` |
| Native agent flow (`nativeagentflow`) | route and stage of a turn, lock with owner | a strategic turn ends after framing, work and validation | modelled: `NativeFlow` |
| Prior work and its synchronisation (`priorwork`, `priorworksync`) | catalog versions, manifest, barriers, fence, claims | what was revoked stays hidden; a synchronised source is published | partly: `PriorWork` |
| Darwin evolution (`darwin`) | append-only records, assessments, receipts | decisions rest on evidence; nothing is assessed or repaired twice | partly: `DarwinEvolution`, `DarwinWorker` |
| Darwin adapters and canary (`canary`, `darwinadapter`, `darwinobservability`) | - | - | not modelled |
| Memory engine (`memory`) | captures, digests, commit chain, cycle locks | a commit drops no layer and mixes no digests | partly: `MemoryEngine` |
| Daily journal of the ZIP runtime (`zipruntime`) | queue, page, dream request, lock directory | a consumed checkpoint is on the page once and will be dreamt | partly: `DailyJournal` |
| Agent state and identity (`agentidentity`, `agentstate`) | versions, commits, projection; profiles, drafts | commits name whole snapshots; an interrupted confirmation can be taken up | modelled: `AgentState`, `AgentIdentity` |
| Role migration (`rolemigration`) | - | - | partly: `UpdateChannel`, `InstallTransaction` |
| Federation (`federation`) | outbox, central inbox | a payload counts once and is not lost | partly: `Federation` |
| Context promotion (`contextpromotion`) | anchors, evidence, audit | an active promotion is evidenced, a revoked one stays revoked | modelled: `ContextPromotion` |
| Owner context (`ownerctx`) | facets, drafts, proposals, observations, prompts | interviews resumable, transitions chained, histories of one owner | partly: `OwnerContext`, `OwnerObservation`, `PromptHistory` |
| Workspace import and migrations (`workspaceimport`, `workspacemigration`, `zipmigration`) | journal, staged files, marker, receipts | restartable after a crash, nothing of the user lost | partly: `WorkspaceImport`, `WorkspaceMigration`, `ZipMigration` |
| Workspaces (`workspace`) | - | - | not modelled |
| Workspace agent (`workspaceagent`) | briefs, plans, slots, evidence, runs | research within its budget, delivered briefs whole | partly: `WorkspaceAgent` |
| Atlas (`atlas`, `atlasops`) | pages, journal, grants; compiled bundle | a revoked grant stays revoked; a published bundle is kept | partly: `ManagedAtlas`, `AtlasOps` |
| Yoda self review (`yodaselfreview`) | receipt log with leases and tokens | the receipt tells what is in the owner context | partly: `YodaReview` |
| Review custody (`reviewcustody`) | - | - | partly: `ExecutionItem` |
| First install (`installer`) | managed root, trust files, state, recovery | an installation whose state is durable is not lost | partly: `FirstInstall` |
| Set-up authorization (`setupauth`) | the grant file | the grant in force is the confirmed one | modelled: `SetupAuthorization` |
| Runtime projection and its adapter (`adaptercfg`, `runtimeprojection`) | - | - | partly: `RuntimeProjection` |
| Launch agent (`macosadapter`) | plist, loaded service | no other program runs than the plist names | partly: `LaunchAgent` |
| Maestro routing and dispatch boundary (`maestro`) | plan and chain of a request; receipts, pointer, chain file | a finished case was approved by its account and by Yoda; receipts stay readable and fenced | partly: `QualityLoop`, `DispatchBoundary` |
| Lifecycle and activation (`activationpolicy`, `lifecycle`, `lifecycleguard`) | - | - | not modelled |
| Private lock and process wait (`privatelock`, `processwait`) | - | - | not modelled |
| Data home (`datahome`) | - | - | not modelled |
| Release verification (`capabilitybundle`, `installerbundle`, `releasecontract`, `releaseverify`) | - | - | not modelled |
| Installation readiness (`continuoususe`, `installreadiness`) | - | - | not modelled |
| Host adapters (`claudeadapter`, `claudeagents`, `codexadapter`, `runtimecap`) | - | - | not modelled |
| Sessions and hooks (`hookpolicy`, `sessionctx`, `sessionhook`, `sessionresolve`) | - | - | not modelled |
| Catalogs and scaffolding (`agentcatalog`, `agentscaffold`, `ingest`, `profile`) | - | - | not modelled |
| Command line (`cmd`) | - | - | not modelled |
| Development and acceptance tools (`dev`) | - | - | not modelled |

`PROJECT.json` has the same components with their sources and what is left
out of each, the source lines of every definition (`map`), and, under
`hazards`, what is hard to test in this code, each at its line.

### 1.2 Interactions

- Ledger processes interact only through the item directory: a mutation takes
  the lock, reads the newest revision, links the next one without clobbering,
  rewrites `state.json` and unlocks. CollectEvidence and Complete give the lock
  back while they run commands and take it again. Readers (Export, List, Next)
  take no lock at all.
- An update goes from `updateservice` (sign in, list, download, verify, stage)
  to `installtx`. `updateservice.ReconcilePending` runs at a start of the CLI;
  it reads the pending plan and calls `installtx.ReconcileActivated`, which
  competes with Activate and Rollback for `.activation.lock`, recognising a dead
  owner by its pid. The very first installation is `installer`, without a lock.
- `maintenance.Worker.Run` asks `scheduler.PlanDue` what is due, claims the
  occurrence in `scheduler`, runs a handler in a goroutine (Darwin's jobs, prior
  work, dreams, the self review), and publishes to both packages' receipt stores
  under the scheduler's guard.
- `agentdispatch.Pilot` asks the gate of `agentorchestration` before every
  change of a delegation: a call first changes the gate's state file and then
  its own record files. The agents it delegates to act on their own and answer
  with signed envelopes. Host hooks use the same gate from their own processes,
  and `nativeagentflow` orders the specialists of a native turn.
- `yodaselfreview` commits into the owner context; `execution` consumes a review
  envelope; `installtx` and `updateservice` consult `rolemigration`.
- `runtimeprojection` and the host adapter change the same settings file.

### 1.3 What is hard

Takeover of a lock whose owner still runs; checks made before a lock, or
without one, and used after it; several renames that make one update, with an
error or a crash between any two; compensation that itself fails; a handler
that outlives its deadline, its lease and the call that started it; two receipt
stores written one after the other; a gate and a record that must agree and
are written in two files; a journal that outlives the batch it belongs to;
answers that are lost and repeated; a user who edits while a migration runs.

## 2. Modules

| Module | Models |
|---|---|
| `ExecutionItem` | abstract history of one ledger item: which revision may follow which history |
| `ExecutionLedger` (extends it) | processes, lock, publication, projection, workspace; implements `ExecutionItem` |
| `LedgerReaders` | Inspect, Next, List, Export beside writers |
| `InstallTransaction`, `FirstInstall`, `UpdateChannel` | update and rollback of an installation; the first one; from the provider's release to a confirmed update |
| `MaintenanceWorker`, `SchedulerCatchUp`, `LaunchAgent` | leases and receipts of an occurrence; what is due; the service that wakes the worker |
| `AgentDispatch`, `OrchestrationGate`, `NativeFlow` | durable pilot; durable gate of several processes; order of a native turn |
| `QualityLoop`, `DispatchBoundary` | Maestro's planning and quality loop; its durable dispatch receipts |
| `SingleUse`, `ActionConfirmation` | abstract one-time permission; the confirmation store that implements it |
| `SetupAuthorization` | the set-up grant of a workspace |
| `MemoryEngine`, `DailyJournal` | dream cycles and their commits; queued checkpoints and dream requests |
| `OwnerContext`, `OwnerObservation`, `PromptHistory` | expansion interview and refinements; observations; private prompts |
| `ContextPromotion`, `AgentIdentity`, `AgentState`, `WorkspaceAgent` | promotions; identity interview; state snapshots; briefs and research |
| `AtlasOps`, `ManagedAtlas` | owner pages and standing grants; the compiled bundle |
| `PriorWork`, `Federation` | catalog, revocations and synchronisation; outbox and center |
| `YodaReview`, `DarwinEvolution`, `DarwinWorker` | weekly self review; append-only evolution records; health jobs |
| `WorkspaceImport`, `WorkspaceMigration`, `ZipMigration`, `RuntimeProjection` | what changes a user's workspace |
| `ExecutionLedgerProofs` | theorems about the ledger |
| `AgentControlProofs` | theorems about set-up grant, native flow, maintenance worker, orchestration gate, Maestro, confirmations |
| `AgentDispatchProofs` | the theorem about the durable pilot |
| `InstallTransactionProofs` | the theorem about update and rollback |
| `InstallProofs` | theorems about what else changes an installation or a workspace |
| `KnowledgeProofs`, `LearningProofs` | theorems about what agents know and learn |
| `MCKnowledge`, `MCChange` | instances of sixteen components each |

Definitions commented "Mutant" are faulty variants of the definition that
follows; a property must notice each of them. They are used nowhere else.

Common conventions. A process is a record with the place (`at`) it has
reached in its call and what it carries; one action is one file operation that
others can observe, or a whole call where a lock excludes everybody else.
Content is a model value or a small number and its digest is the content
itself. A file written by a temporary file and a rename is replaced in one
step; one that is written in place can be found torn. `Max...Crashes` and
`Max...Faults` bound how often a process stops and an operation fails; a lock
the kernel holds (`flock`) falls with its process, a lock file stays.

### 2.1 ExecutionItem

The state is `log`, the sequence of revisions. A revision keeps what the rules
look at: item state, attempt (the number of the revision that began it, since
attempt ids are fresh), attempt state, the attempt that wrote the last
checkpoint, and a receipt (evidence, tool call or review). For each operation
`CanX(l, ...)` is the conjunction of the checks the Go function makes on the
newest revision and on the history, and `XRevision(l, ...)` the revision it
writes. `Successor(l, r)` says that some operation allowed on `l` writes `r`;
`ItemSpec` appends successors. This is what one client at a time would do: it
is the abstract specification of the ledger.

### 2.2 ExecutionLedger

Each process has a program counter; each file-system call that another process
can observe is one step: mkdir of the lock, stat, rename of an aged lock,
creation and removal of the owner token, reading the newest revision, linking
the next, writing `state.json`, renaming the item away. `Propose` joins a
`CanX` with its `XRevision`; `CommitRevision` publishes only if the revision
number is still free (the no-clobber link), and may publish and yet report an
error (the directory's fsync fails). `LockAges` makes a lock older than two
minutes at any time, so that takeover can hit a live owner. `Crash` ends a
call anywhere; a later call by the same process identity is a new client.
`workspace` is what a witness of a criterion sees, and `Edit` changes it.

`root` is `ghost` when the directory exists with a `state.json` only. History
variables: `everAged` (a lock has outlived its limit), `touched` (criteria
edited since a process began to complete).

Assumed: `link`, `rename` and `mkdir` are atomic; `writeAtomicJSON` is one step
for its readers; process identities stand for fresh random owner tokens.

### 2.3 InstallTransaction

A release stands for channel, versions and bytes. `cli`, `bundles`,
`runtimes`, `backup`, `staged` say which release's bytes are where; `state` is
`install-state.json`; `receipts` the transactions whose activation receipt
exists. One action is one file-system call, named for the step of Activate,
ReconcileActivated or Rollback it is. `Fail` makes the call at hand fail (at
most `MaxFaults` times) and leads to the code's compensation; compensations
ignore their own errors as the code does. `Crash` stops a process for good.
The lock is modelled with its two steps (create, write pid), with the wait for
the owner's exit, and with the removal of a dead owner's lock.

History variables: `died` (which calls a process stopped in), `overlap` (two
processes have been past the lock at once, possible when two reconcilers
remove the same dead lock), `outdated` (the pending plan or receipt read
before the lock had changed when it was taken). The code does not exclude the
last two; the safety properties are stated for behaviours without them, and
section 3 says what the code then does.

### 2.4 MaintenanceWorker

One occurrence of a scheduled job. A wake is a process that calls
`Worker.Run` once; its fence token is the wake itself (tokens are random and
fresh). `clock` ticks; `now[w]` is the time the wake read at its beginning,
which the code also uses for the expiry of its lease. Every lease operation
takes the guard without waiting (`TakeGuard`: busy means give up) and is then
one step, except where the code changes two files: ReleaseLease (marker, then
lease) and publication (maintenance receipt, then scheduler receipt), which
are two steps under the guard so that a crash fits between them. AppendReceipt
reads and writes in two steps, guarded or not. `handler[w]` is the goroutine:
it may still run when the wake's call has returned and ends at the latest with
the process (`Exit`, `Crash`). `RecoverQuarantinedLease` is the operator's
recovery with the attestation the code asks for: the process has ended.
A tick is coarser than the code's nanoseconds, so receipts of one tick have
different file names. I/O errors of the receipt stores are not modelled.

### 2.5 AgentDispatch

One pilot process (its mutex runs one call at a time), the gate's state file,
the recovery directory and the targets of errands. A packet is a number, in
the order of issue. A call is one action up to its first record file: guard,
change of the gate, and the list `todo` of files it still has to change, each
with the memory the pilot falls back to should that change fail. `WriteNext`
changes one file; the last one ends the call. `WriteFails` makes a change fail
before or after its rename. The fall-back memories are the code's, including
the places where it does not go back all the way: a verdict is put into the
review's summary through a pointer, and ObserveErrandTool keeps the advanced
errand state. A restart replays the journal with the same mechanism and loads
the records. `GateFails` and `CrashInGate` are a gate whose state file was
written although the call is denied, and a process that stops inside the lock:
the lock file has no age and no owner check, so the gate is then out of use.

`effect` is the mutation an errand may make; the target makes it after it was
allowed to, with or without success, and reports what happened. Targets are
truthful; their requests may be sent again at any time. Nonces are tracked for
tool requests only: a replayed return or observation is already refused by the
state of its record. Failure receipts of refused calls are not modelled, no
other call reads them. One process uses the gate, so the fence epoch is
always the current one.

### 2.6 Components that keep what agents know

- **MemoryEngine**: `Capture`, the daily and weekly cycles (read, synthesize,
  activate) of `memory/cycle.go`, and commits that carry the tree of their
  parent forward. A daily or weekly cycle holds the one activation lock of its
  workspace from its reading to its commit; a kill leaves the lock directory
  behind, and a person removes it.
- **DailyJournal**: the queue, page and request files of one scope
  (`zipruntime/daily.go`); a hook drains a budget of checkpoints under a lock
  directory; the generation chain is the sequence it hashes.
- **PromptHistory**: recording, configuring, deleting and resetting; the default
  config is written by a process that looked before another one bound the store.
- **OwnerContext**, **OwnerObservation**: the interview's draft, submission,
  application and closing as separate files under the expansion lock;
  refinements compare and write without one; transitions of an observation
  name the revision their author saw and arrive late or twice.
- **ContextPromotion**: a trusted anchor store, which is external, and evidence
  files that are linked into place; calls fail between any two.
- **AgentIdentity**: draft, profile and answers as separate files; a confirmation
  marks the draft before it writes the profile and stamps the draft after it.
- **AgentState**: a version, its commit and the projection are written in this
  order, each by rename, with no lock against readers.
- **WorkspaceAgent**: documents are created exclusively and then written;
  research slots are numbered files, taken by whoever creates them.
- **AtlasOps**, **ManagedAtlas**: pages are truncated and rewritten; grants are
  changed under a lock; the bundle is staged, validated and swapped in, with
  the previous one moved aside. The backup is removed concept by concept in any
  order, before and after the swap; a removal may fail or the process stop
  inside of it, and the next compilation finds what is left.
- **PriorWork**: `Apply` in its order of fence, barriers, catalog, manifest and
  audit, under an import lock; presence runs hold the claim of their job.
- **Federation**: attempts are counted in the queued file, answers are lost,
  the center files a payload under its digest.
- **YodaReview**: reservation, renewal and take-over by tokens in one log; the
  commit into the owner context happens outside of the log's lock.
- **DarwinEvolution**, **DarwinWorker**: no-clobber publication after a check
  against what was read; handlers of several occurrences over the same managed
  state.

### 2.7 Components that change an installation, a workspace or an agent

- **LedgerReaders** reuses the revisions and operations of ExecutionItem for
  several items and lets them vanish while a reader goes through them.
- **ActionConfirmation**: hooks read the clock, take the lock directory, load or
  write the key, change the state file and unlock. `Phase` maps a challenge to
  the phase of a permission; with `uses` it is the refinement mapping to
  SingleUse.
- **OrchestrationGate**: each decision reads the state again under the lock,
  appends a breadcrumb, and writes; the write may fail after its rename.
- **NativeFlow**: start and stop hooks, retried by the host; a dead owner's
  lock is read, checked and removed in separate steps.
- **QualityLoop**: `PlanFor` binds agents to the roles of a route, `Validate`
  decides on the plan, `Advance` applies one return of an agent. Its data are a
  roster of agents of which up to two are missing or away.
- **DispatchBoundary**: `PersistDispatchBoundary`, `Finalize` and the chain
  file as sequences of file operations of one call under the directory lock; a
  call fails or is cut short between any two and undoes what the code undoes.
- **SetupAuthorization**: read, decide, replace; nothing between them.
- **WorkspaceImport**, **WorkspaceMigration**, **ZipMigration**: staged files,
  journal or marker, and receipts, with a user who edits both trees. An import
  that aborts or rolls back hashes a file in one step and unlinks it in the
  next. A ZIP migration reads data/ file by file, writes its receipt in two
  steps, and overwrites state.json with what it read before.
- **RuntimeProjection**: conflicts are looked for first, every touched file is
  remembered, and a failing change puts them back one after the other.
- **FirstInstall**, **UpdateChannel**: inspection and quarantine, then staging;
  download asset by asset while the provider replaces them. A package that is
  discarded loses its entries one by one, and the removal may stop at any.
- **SchedulerCatchUp**: `PlanDue` on a calendar of a few ticks a day, compared
  with a separate definition of the slots that are still unserved.
- **LaunchAgent**: launchctl commands that fail with or without their effect.

### 2.8 Composition and refinement

`ExecutionLedger` composes `ExecutionItem` with the processes and implements it
(`ItemSpec`, checked and proved). `ActionConfirmation` implements `SingleUse`
(`ConfirmationSingleUse`, checked and proved). `InstallTransaction` composes the update
service's pending plan with the transaction, `MaintenanceWorker` the scheduler's
lease with the worker, `AgentDispatch` the pilot with the gate and the targets,
`RuntimeProjection` the projection with the adapter that shares its settings.

`MCKnowledge` and `MCChange` are sums: `component` is chosen in the initial
state and only that component moves. The components in a sum share no files,
so that an interleaving of two of them would reach no new state of either;
the sum asks sixteen questions in one run. A component with theorems is
extended, so that its run and its proof speak of the very same definitions
and TLC evaluates its assumptions; its property holds in the whole sum because
the other components leave its initial state alone. A component without a
theorem is an INSTANCE, and its property reads `component = "x" => ...`.

## 3. Runs

| Run | Configuration | Checks | Instance |
|---|---|---|---|
| `ledger_race` | `ExecutionLedger.cfg` | LockedWrites, ItemSpec | two processes, 5 revisions; about 1.3 million states |
| `ledger_solo` | `ExecutionLedgerSolo.cfg` | TypeOK, CompletionFresh, LockFreed | one client, 5 revisions, one crash, one edit of the workspace, required review, fair; about 0.4 million |
| `ledger_ghost` | `ExecutionLedgerGhost.cfg` | DeletedStaysDeleted | violated |
| `install_update` | `InstallTransaction.cfg` | ReleaseKept | two processes, 3 releases, 3 transactions, one rollback, crash and fault; about 2.1 million |
| `install_recovery` | `InstallRecovery.cfg` | Recovered | the same with two releases, fair |
| `worker_fence` | `MaintenanceWorker.cfg` | Fenced, FenceLifted | two wakes, one crash, 4 ticks, fair; about 770,000 |
| `worker_rerun` | `MaintenanceRerun.cfg` | SucceededNotRerun | violated |
| `dispatch` | `AgentDispatch.cfg` | RestartReadsTruth | three packets, one crash, one failing file operation, one expiry; about 3.0 million |
| `knowledge` | `Knowledge.cfg` | fourteen invariants and RevokedForGood, one for each component (CommitsAreWhole for AgentState; OwnerContextSound for two) | sixteen components; about 1.5 million |
| `change` | `Change.cfg` | twelve invariants and three action or refinement properties, one for each component (MaestroSound for two) | sixteen components; about 1.6 million |
| `zip_revocation` | `ZipRevocation.cfg` | RevocationStands | violated |
| `first_install_race` | `FirstInstallRace.cfg` | InstallationKept | two installers; violated |

The comment before each property states it and names the code it is about.

**Bounds.** Seven revisions hold the longest interesting history of an item:
create, start, evidence for both criteria, a review, complete, tombstone.
Five revisions with two processes let one process complete an item while the
other pauses or completes it, or pauses and deletes it between the two locks
of the first; every race is between two writers of the same number. Three
releases give an update after an update, and a rollback to a release that is
not the first. With TTL and cooldown of one tick and four ticks, a wake can
begin before and after the expiry of another's lease and before and after its
cooldown. A crash bound of one is one crash at any point; recovery from it is
then undisturbed by another. Three packets are a producer, its review and a
rework or second review, or an errand among them; one request of each kind
suffices for a replay.

In the sums every component has two processes, except where the model has one
caller at a time (ManagedAtlas, WorkspaceMigration, RuntimeProjection,
LaunchAgent), where there is nothing to interleave (QualityLoop, SchedulerCatchUp,
ExecutionItem: functions of a history), where one installer suffices for the
passing question (FirstInstall; the race is its own run), a reader stands beside free writers (LedgerReaders),
or sends are not tied to a process (OwnerObservation). One caller at a time is
an assumption of the model, not something the code enforces: no lock keeps two
managed compilations, two workspace migrations, two projections or two
LaunchAgent commands from running at once, and what two of them would do to
each other is not covered. Two
identities, owners, sources or programs suffice to mix them up; three or four
commits, revisions or tokens allow one overtaking after another; one or two
faults reach every compensation and a failure in it. Two days,
weeks of two days and months of two and three days give the catch-up calendar
every border within ten ticks, and a job without a valid interval keeps every
wake from being planned. In `change` the ZIP migration has two processes, two
attempts, two starts and two edits of the owner: an edit while data/ is read and
another before the commit; `zip_revocation` has one process and more starts,
since its history is a sequence of calls. An edit there never brings back the
bytes of an earlier version, one file is read in one step, and the validation of
brain/ is one step with the creation of the receipt. The constants of a component stand in its
INSTANCE, those of an extended one in the .cfg.

**Deadlock** is not checked: the modelled processes may all have ended, and
the bounds stop the rest.

**Fairness.** A process in the middle of a call goes on (weak fairness of its
steps): the operating system schedules it, and a crash is a separate action
that ends the obligation. `LockFreed` also needs that time passes for a lock
and that a client whose call ended calls again (the takeover is made by a
later caller: without one nobody needs the lock). `Recovered` needs that the
CLI is started again and again; reconciliation is strongly fair because it is
disabled while another call of the same process runs. `FenceLifted` needs that
time passes, that the process of a finished call ends, and that an operator
recovers what `QuarantinedLeases` lists.

**What the violations show.** Each is a disagreement with a test, comment or
document of the repository, quoted under `findings`:

- `ledger_ghost`: a suspended writer recreates the directory of a purged item;
- `worker_rerun`: a wake that looked at the receipts before it took the lease
  executes a succeeded occurrence again;
- `zip_revocation`: a rollback with the wrong attempt id turns a revoked
  migration into a blocked one, which the next run commits again;
- `first_install_race`: the clean-up of a second installer removes the
  installation the first has finished.

**Seen in the models, without a run of their own.**

- Rollback reads the state before it takes the lock (`transaction.go:578`): one
  that was decided on an older state undoes an update to a canonical release
  committed meanwhile. Nothing in production calls Activate and Rollback yet
  (`docs/install-update.md`).
- Reconciling after a rollback takes the rolled back update for an interrupted
  one and removes the bundle of the release to return to (`transaction.go:883`).
- Two reconcilers that find the same dead lock both remove it, the second one
  perhaps the lock of the first (`transaction.go:1697`); ReleaseKept excepts it
  (`overlap`), and it excepts a plan read before the lock that changed since
  (`outdated`).
- A batch whose second file fails leaves its journal to the next start, and the
  next batch overwrites it (`durable_store.go:198`): `RecoveredTogether` of
  AgentDispatch holds only without failing writes.
- A lock file nobody may take over (gate, journal day, prior work import,
  prompt history, memory activation) bars its store after a kill. No property
  denies it: the code leaves it to an operator.
- An aborted import or its rollback unlinks by name what it has hashed before
  (`secure_source_unix.go:229`): a file the user writes there in between is
  removed. `ImportSafe` excepts exactly what was written in this window (`raced`).
- A stop inside of the removal of the atlas's backup leaves it in pieces
  (`managed.go:754`, `764`), and a stop inside of the removal of a discarded
  package leaves that in pieces (`check.go:73`). Neither is ever used as a whole
  one, which is what `AtlasKept` and `StagedUpdateIsWhole` show; a package in
  pieces keeps the release from being downloaded again until a person removes it.
- Maestro's boundary: a temporary receipt left by a killed process makes
  `scanDispatchReceipts` (`runtime_entry.go:503`) fail for good; retrying a
  receipt that never got its pointer moves the pointer past one that is still
  prepared; a failing sync in PersistChainState removes the chain stored before
  as well; `MaximumAgentEvents` (8) is below the 10 events the loop's limits
  would allow; a chain that failed closed is not returned to the caller. The
  boundary is called from tests only so far.

Where a property excepts behaviours, its comment names them and the hazard's
note in `PROJECT.json` says why.

## 4. Proofs

`tlapm` checks every theorem to the last leaf. "For every" means: for every
value of the constants that satisfies the named assumptions, bounds of faults
and crashes included.

| Theorem | States | For every |
|---|---|---|
| `LedgerTyped` | `Spec => []TypeOK` of ExecutionLedger | set of processes and criteria, bound |
| `LedgerRefinesItem` | `Spec => ItemSpec` | the same |
| `LedgerHistorySound` | `Spec => []HistorySound` | the same |
| `LedgerLocked` | `Spec => []LockedWrites` | the same |
| `LedgerCompletionFresh` | `Spec => CompletionFresh` (action property) | the same |
| `WorkerFenced` | `Spec => []Fenced` | set of wakes, lease, cooldown, time, crashes |
| `DispatchTruthful` | `Spec => []RestartReadsTruth` | number of packets, requests, crashes, faults, expiries |
| `GateDecisionsStand` | `GateSpec => []DecisionsStand` | set of processes and branches, tail limit, faults |
| `FlowInOrder` | `FlowSpec => []FinishedInOrder` | set of hooks, specialists, crashes |
| `SetupGrantConfirmed` | `SetupSpec => []GrantIsConfirmed` | set of callers, principals, paths, sources, validity and time |
| `MigrationMarked` | `MigrationSpec => []InterruptedIsMarked` | sequence of managed paths, edits, faults |
| `CommitsAreSnapshots` | `ZipSpec => []CommittedIsSnapshot` | set of runs and attempts, list of sources, starts, edits |
| `ImportIsSafe` | `ImportSpec => ImportSafe` (with action property) | set of importers, sequence of files, edits, faults |
| `ProjectionIsSafe` | `ProjectionSpec => ProjectionSafe` (with action property) | set of tracks, operations, failures, edits |
| `ReleaseIsKept` | `Spec => []ReleaseKept` of InstallTransaction | set of releases, first canonical release, transactions, rollbacks, faults, crashes; two processes |
| `StagedWhole` | `UpdateSpec => []StagedUpdateIsWhole` | set of checks and releases, republications, crashes |
| `FirstInstallKept` | `InstallSpec => []InstallationKept` | set of plans, attempts, crashes; one installer |
| `ServiceKnown` | `LaunchSpec => []ServiceMatchesPlist` | set of programs, calls, command failures; at most one kill or unanswered status |
| `CommitsBelong` | `MemorySpec => []CommitsBelongTogether` | finite set of dreamers, days, captures, crashes |
| `ConsumedDreamt` | `DailySpec => []ConsumedIsDreamt` | set of hooks, checkpoints and summaries, budget, crashes |
| `PriorWorkIsSound` | `PriorSpec => []PriorWorkSound` | set of importers, items and runs, snapshots, faults |
| `RevocationFinal` | `AtlasSpec => RevokedForGood` (action property) | set of sessions, keys and grants |
| `AtlasNotLost` | `ManagedSpec => []AtlasKept` | set of sources, edits, compilations; at most one fault |
| `PayloadCountedOnce` | `FedSpec => []CountedOnce` | set of batches, skills and flushers, attempts, faults |
| `PromotionEvidenced` | `PromotionSpec => []ActiveIsEvidenced` | set of services, accounts, digests, promotions |
| `ReceiptHonest` | `ReviewSpec => []ReceiptTellsProposal` | set of reviewers and answers, lease, time |
| `StateCommitsWhole` | `StateSpec => []CommitsAreWhole` | set of writers, labels, bodies and stamps, budget, crashes |
| `AgentIsHonest` | `AgentSpec => []AgentHonest` | set of processes, plans and themes, budget, documents, calls, crashes |
| `InterruptedTakenUp` | `IdentitySpec => []InterruptedConfirmable` | set of interviewers and drafts, crashes, edits |
| `EvolutionChained` | `EvolutionSpec => []EvolutionSound` | set of writers, episodes, windows, proposals and pins |
| `AssessedOnce` | `HealthSpec => []DoneOnce` | set of workers and occurrences, actions, changes, crashes |
| `MaestroIsSound` | `LoopSpec /\ BoundarySpec => []MaestroSound` | set of requests, agents and dispatchers, limits, faults |
| `SoleOwnerKept` | `PromptSpec => []SoleOwnerHistory` | set of writers, owners and occurrences, budgets, crashes |
| `OwnerContextIsSound` | `OwnerSpec /\ ObservationSpec => []OwnerContextSound` | set of actors, drafts, proposals and transitions, crashes |
| `AnswersAreAccountedFor` | `ReadersSpec => []AnswersAccountedFor` | set of items and readers, history, damage |
| `ConfirmedOnce` | `ConfirmSpec => ConfirmationSingleUse` (refinement) | set of hooks and sessions, time to live, delays, faults, crashes |

So of the 35 safety properties the passing runs check on small instances, 34
are theorems, and so are both refinements. The pattern is the same in all: an
invariant found with TLC, one lemma for each action or group of actions that
says what is kept, and a last step in temporal logic. What the invariants add
is where the design can be read:

**The ledger.** `log` is the same variable in both specifications, so the
refinement mapping is the identity. CommitRevision appends `next[p]` when
revision `base[p] + 1` is free, that is when nobody has published since `p` read
revision `base[p]`; so what is needed is that `next[p]` is a successor of the
history as `p` read it. That is `ProposalStands`, and it is not inductive on
its own: for Complete the gate is checked and the criteria are witnessed in two
lock sections, so one needs what such a call has established so far, as long as
the history has not grown (`CompletionStands`), and for CollectEvidence that the
receipt witnessed outside of the lock is of the kind its criterion admits
(`WitnessStands`). `LedgerInv` is their conjunction over all processes with the
agreement of `root` and `log` and the range of `workspace`. Mutual exclusion is
*not* part of it, and could not be: takeover breaks it. The proof thus shows
that the ledger's histories do not depend on the lock but on the no-clobber
link and on reading before writing. `HistorySound` is then proved once, of
`ItemSpec` (`HistoryInv`), and inherited through the refinement. `LockInv` says
what the lock does give as long as none has aged, and `FreshInv` that what
Complete has witnessed, and nobody has edited since, still looks as its receipt
says. `ReadersInv` is about the other side of the ledger: whatever an export has
read so far is what the item's history held up to some revision, not before the
first it read (`ExportSound`); since histories only grow, it stays so.

**Update and rollback.** `InstallInv` has three parts. `Ordered` is about who may
move what: of two processes only the one the lock file names is past the lock
(`Exclusive`: a stale lock is removed by the only process left), a slot that a
state names was filled by the transaction or rollback that wrote this state
(`Planned`), and a rollback's slot is nobody else's (`OwnSlots`). `Safe` is about where
the release is that the state names. It is not enough that some slot holds it:
that slot must be one that nobody who is still at work will empty. Those are the
`Shelves`; a slot is none as long as a rollback that has read it may move it,
unless the lock is a dead process's, which bars every rollback. Between calls
the release is the active CLI or on a shelf (`Secure`); after an error it may be
in any slot while no CLI is active, since a rollback moves nothing then. Inside a
call `UpdateAt` and `RollbackAt` say for each place where the bytes are, so that
whatever fails or stops there leaves them on a shelf (`CrashSafe`, `FailSafe`). Without
an error every shelf belongs to an interrupted update, which is why nothing
interrupted means that the release is active. `Vacant` says the same for the time
before the first state: what a stopped first activation has placed stays locked.

**Fences, gates, locks.** `FenceInv` ties the place of every wake to its lease,
its marker and its handler: the marker is written before the lease is released,
the handler is started after the lease is confirmed. `GateInv` says that only
the holder of the state lock is past it, that the state it writes follows the
one in the file, and that no permission told is younger than the file. `FlowInv`
accounts for every stop that was counted (`Accounted`) while no lock of a live
hook was removed. `ImportInv`, `JournalInv` and `MemoryInv` have the same shape:
the place of a process implies that it holds the lock, what it carries agrees
with the files as the lock's holder left them, and outsiders change other files.
In `PriorInv` the lock file of a killed importer stays, which is what makes a
half-done revocation safe (`BarriersHold`).

**No lock at all.** `SetupInv`: every pending write descends from the
confirmation it carries (`CallerSound`, `Descends`). `StateInv`: how far the files
of a commit in progress are (`WriterSound`), a transaction is its writer's own,
versions come first. `EvolutionInv`: what is published or pending is backed by
files that are never changed. `DeliveryInv`: a payload gone from the outbox is
filed at the center, lost answers and strays included. `GrantsInv`: a session
that carries grants to write has kept the revocations it read, and only the
lock's holder carries any. `ReviewInv`: tokens are unique, so that a verdict of
an outdated reviewer changes nothing. `PromotionInv`: what anchor and evidence
may look like for each place of a call, and for the place where it stopped.
`AgentInv`: a call is the list of file operations left to it, and whatever one of
them relies on is made by an earlier one of the same call or stored already
(`Fits`); a budget slot that was taken belongs to one call until it is written
(`SlotsApart`), and every query let out is in its slot (`ToldFits`).

**Several files, one update.** `MigrationInv` (marker before the first change,
restored so far), `ChannelInv` (a plan in force has its package), `InstallInv`
(the way of an installer is free where it will rename), `CompileInv` (the staged
bundle is whole; without a fault something is published), `LaunchCareful` (what
the service's next commands will do to it), `IdentityInv` (at most one open
draft, which agrees with the profile), `ProjectionInv` (what an operation must
put back is in its memory). `DispatchInv` is the largest: memory, the files on
disk, the files still to be written (`todo`) and the memory fallen back to
(`undo`) are tied together at every prefix of a batch (`InStep`, `Links`); an
approval found in any of them has its review written before it
(`ApprovalInv`); where only processes stop, a journal covers a batch that is
half on disk (`CrashOnly`). `DarwinInv` joins who may repair, once for each time
the state became stale, with who may assess, the holder of the guard.
`ZipInv` has to find one moment at which data/ was as planned, out of two
inventories that read it file by file: since contents only get newer, the tree
that was there when the final inventory began lies between the plan and what
that inventory read (`Between`), and both are equal when the fingerprint fits.

**Maestro.** `LoopInv` says that a chain in progress belongs to the plan of its
request: who is active at which stage, what the events so far have approved
(`CaseWorked`, `Cleared`), and that an approval always comes after the work it
approves. In `BoundaryInv` no two receipts share an
epoch or an id (`Alone`), a receipt that is still prepared and got its pointer is
the newest one (`NewestIfPointed`), a finished receipt reports what its caller
committed (`EffectsCommitted`), and a chain once stored is a beginning of the
one in the file (`ChainKept`). Both are invariants of separate
specifications, and `MaestroSound` is their conjunction.

**Owner context and prompts.** In `PromptInv` a process that will write under the
lock carries the config it has read there, so that the entries it adds to are of
the owner it writes for (`AppendStands`), while a default config may still be
written over it. `OwnerInv` ties a prepared draft to its refinement: whatever is
written to a facet by an interview is remembered as proposal and audit before
(`Resumable`, `FilesKept`), so that the draft can be taken up. In
`ObservationInv` a caller decides on an observation only after it has read it
(`AskedOfKnown`), and every line but the first of an observation continues the
revision of the line before.

**One use of a confirmation.** `Phase` and `uses` are the refinement mapping: a
hook's step is a step of SingleUse when it changes the state file or lets an
action through, and a stutter otherwise. `SpentFits` says that a challenge in the
file is marked consumed exactly when it is spent, and that what has been used is
spent; `GrantsFit` that what a process is about to let through is spent, was not
used, and is held by no other process. A challenge that `prune` drops unused has
`lapsed`, which is final.

**Hypotheses.** Assumptions on constants stand in the modules, by name, and TLC
evaluates each: bounds, budgets and times are naturals (`BoundsAssumption`, `BudgetAssumption`,
`DispatchBounds`, `WorkerAssumption` of MaintenanceWorker, `InstallAssumption`),
the contract of an item has criteria of two disjoint kinds (`ContractAssumption`),
"free" and the like are nobody's name (`HookAssumption`, `SessionAssumption`,
`WorkerAssumption` of DarwinWorker, `GateAssumption` with a tail of at least one
breadcrumb, `ImporterAssumption`), lists are lists (`PathsAssumption`,
`PlanAssumption`), numbers stand for versions, ranks and tracks
(`ReleaseAssumption`, `TrackAssumption`), and only finitely many processes dream
(`DreamerAssumption`). The agents of a request have different numbers
(`RequestAssumption`), evidence is a list (`EvidenceAssumption`), "no owner" and
"no actor" are nobody (`PromptAssumption`, `ActorAssumption`), leases and times
to live are naturals (`LeaseAssumption`, `TTLAssumption`).
Four theorems have a hypothesis of their own, because without it the property
is false and the model shows why: `TwoProcesses` (with a third one a rollback can
take the lock after a reconciler has removed a dead process's lock and before it
has created its own; decided on a state read before (`transaction.go:578`), this
rollback takes the only backup of the interrupted update for the previous release,
and deletes it when its self-check fails), `SoleInstaller` (two first installers at once
are the run `first_install_race`), `MaxCompileFaults` at most 1 (a second failure
inside the compensation of the first loses the published bundle, which the code
leaves to the operator) and `MaxLaunchFaults` at most 1 (a kill after an
unanswered status). `InterruptedTakenUp` names that "free" is no interviewer.

**Only model-checked**, and why:

- `LockFreed`, `Recovered`, `FenceLifted`: liveness under fairness.
- `DueIsBacklog`: the calendar is computed by recursive operators, and what a
  recursive definition computes for every input needs an induction theorem with
  an operator parameter. (Where an argument needs only the least or greatest
  element of a set of numbers, the proofs take it: `LeastNumber`,
  `GreatestNumber`.)

## 5. Plan

1. Several occurrences: SchedulerCatchUp composed with MaintenanceWorker.
2. What an update and a rollback decide on the state as it was read before the
   lock (`transaction.go:578`), as a run of its own.

## 6. Not modelled

- Darwin adapters and canary: Bindings of Darwin to the host and its reports: pure transformations of receipts.
- workspaces: Registration and resolution of workspace directories; path checks without a protocol of their own.
- lifecycle and activation: Pure decisions on a state that others keep.
- private lock and process wait: Thin wrappers of operating system locks and process checks; the modules above model their effect where they are used.
- data home: Path resolution and permissions; sequential file-system code without a state machine.
- release verification: Cryptographic verification and archive formats: pure functions of bytes, out of TLC's reach. UpdateChannel, FirstInstall and InstallTransaction take their verdict as an input.
- installation readiness: Read-only reports.
- host adapters: Generation of host configuration files; formatting and platform I/O. (The adapter that installs them, adaptercfg, is in RuntimeProjection.)
- sessions and hooks: Assembly of a session's context, one pass per hook without shared state of its own.
- catalogs and scaffolding: Catalog data, validation and generated files: pure functions of their input.
- command line: Argument parsing and printing around the packages above; the entry points it drives are mapped with the modules of those packages where they change state.
- development and acceptance tools: Repository tooling, release evidence and acceptance harnesses; not part of the running system.

Within modelled components: cryptography, archive and file formats, prompts and
texts, ranking; Windows file layers (the models follow the Unix files); file
permissions, symlink defences and size limits, which are guards on inputs that
the models take as valid; Maestro's intent packets and the recovery markers it
writes and nobody reads. The notes of the components in `PROJECT.json` name
what each one leaves out.
