----------------------------- MODULE PriorWork -----------------------------
(***************************************************************************)
(* The prior-work catalog and its synchronisation.  Importers apply signed *)
(* snapshots of the collector under one import lock: revoked items are     *)
(* barred behind a fence, the next catalog is published as an immutable    *)
(* version, and the active manifest is switched.  A presence run holds the *)
(* claim of its job, collects, verifies the publication and records a      *)
(* scheduler receipt.  Any file operation may fail and any process may     *)
(* stop; a lock left behind waits for the operator.                        *)
(***************************************************************************)
EXTENDS Integers, FiniteSets

CONSTANTS Importer, Item, Mark, PresenceRun,
          MaxSnapshotItems,       \* the enrolled limit
          MaxSequence, MaxPriorFaults

\* Importers are told from the two states of a lock that no living importer holds.
ASSUME ImporterAssumption == MaxSequence \in Nat /\ {"free", "stopped"} \cap Importer = {}

VARIABLES active,        \* active.json and the catalog it names
          catalogVersions,   \* versions/, immutable
          fence,         \* revocation-fence.json exists
          barriers,      \* barriers/, the sequence of each item's barrier, 0 for none
          audits,        \* imports/, one durable audit for each receipt
          importLock,    \* import.lock
          claim,         \* guard of the presence claim, an OS lock
          importer,      \* place and locals of each process
          synced,        \* occurrences with a succeeded receipt; any other stays due
          authorized,    \* the enrollment has not expired
          revokedAt, listedAt, batch,   \* history: see RevocationSticks
          priorFaults

priorVars == <<active, catalogVersions, fence, barriers, audits, importLock, claim, importer,
               synced, authorized, revokedAt, listedAt, batch, priorFaults>>
revocationHistory == <<revokedAt, listedAt, batch>>

FreeImport == "free"
Stopped == "stopped"     \* the owner of the lock is gone
NoCatalog == [sequence |-> 0, mark |-> "none", snapshot |-> [sequence |-> 0], items |-> {}]
NoAudit == [state |-> "none"]
IdleImporter == [at |-> "idle"]

PriorInit ==
  /\ active = NoCatalog /\ catalogVersions = {}
  /\ fence = FALSE /\ barriers = [i \in Item |-> 0]
  /\ audits = [o \in PresenceRun |-> NoAudit]
  /\ importLock = FreeImport /\ claim = FreeImport
  /\ importer = [x \in Importer |-> IdleImporter]
  /\ synced = {} /\ authorized = TRUE
  /\ revokedAt = [i \in Item |-> 0] /\ listedAt = [i \in Item |-> 0]
  /\ batch = {} /\ priorFaults = 0

-----------------------------------------------------------------------------
\* ValidateSnapshot: the first snapshot is full and has no predecessor, the
\* later ones name one; no item is both listed and revoked.
Snapshot ==
  {s \in [sequence : 1..MaxSequence, mark : Mark, previous : Mark \cup {"none"},
          mode : {"full", "delta"}, items : SUBSET Item, gone : SUBSET Item] :
     /\ s.items \cap s.gone = {}
     /\ IF s.sequence = 1 THEN s.mode = "full" /\ s.previous = "none"
                          ELSE s.previous # "none"}

\* The catalog a snapshot leads to; its fingerprint stands for all of it.
Merged(s) ==
  [sequence |-> s.sequence, mark |-> s.mark, snapshot |-> s,
   items |-> ((IF s.mode = "delta" THEN active.items ELSE {}) \cup s.items) \ s.gone]

\* What is revoked: the tombstones, and what a full snapshot no longer lists.
Tombstones(s) ==
  s.gone \cup (IF s.mode = "full" THEN active.items \ Merged(s).items ELSE {})

\* The next collection, or the active one again; never a stale or forked one.
InOrder(s) ==
  IF active = NoCatalog THEN s.sequence = 1
  ELSE \/ s.sequence = active.sequence /\ s.mark = active.mark /\ Merged(s) = active
       \/ s.sequence = active.sequence + 1 /\ s.previous = active.mark

Acceptable(s) ==
  /\ authorized
  /\ Cardinality(s.items) + Cardinality(s.gone) <= MaxSnapshotItems
  /\ InOrder(s)

\* loadImportAudit: a receipt that was used answers with its own report as long
\* as what it published is still active.
Replays(o) == audits[o] # NoAudit
Reported(o, s) == audits[o].catalog.snapshot = s /\ audits[o].catalog = active

GoImporter(x, w) == importer' = [importer EXCEPT ![x] = w]
\* Return from Apply: the deferred release removes the lock; a presence run goes
\* on to verify what it was told.
Return(x, report) ==
  /\ importLock' = FreeImport
  /\ GoImporter(x, IF importer[x].presence
           THEN [at |-> "verify", occ |-> importer[x].occ, report |-> report] ELSE IdleImporter)

-----------------------------------------------------------------------------
\* RunPresence takes the guard of the job's claim; an occurrence that succeeded
\* is not due any more.
StartPresence(x, o) ==
  /\ importer[x].at = "idle" /\ claim = FreeImport
  /\ o \notin synced
  /\ claim' = x
  /\ GoImporter(x, [at |-> "collect", occ |-> o])
  /\ UNCHANGED <<active, catalogVersions, fence, barriers, audits, importLock, synced,
                 authorized, revocationHistory, priorFaults>>

\* The work of an import: a collection that is active already only clears barriers.
Begun(o, presence, s) ==
  LET again == s.sequence = active.sequence
      revoked == IF again THEN {} ELSE Tombstones(s) IN
  [at |-> IF again THEN "clear" ELSE IF revoked = {} THEN "publish" ELSE "fence",
   occ |-> o, presence |-> presence, catalog |-> Merged(s), listed |-> s.items,
   state |-> IF again THEN "unchanged" ELSE "published",
   todo |-> revoked, all |-> revoked, before |-> active]

\* Apply up to its first write.  acquireImportLock creates import.lock or returns
\* ErrImportLocked; a request is refused, answered from the audit, finds its
\* collection already active, or begins a new one.  All it reads is written under
\* the lock, so these reads are one step.
Begin(x, o, presence, s) ==
  /\ importLock = FreeImport /\ ~Replays(o) /\ Acceptable(s)
  /\ importLock' = x
  /\ GoImporter(x, Begun(o, presence, s))

\* The collector of a presence run, an adapter outside the store, applies what it
\* collected; it may also claim a publication that it did not make.
Collect(x, s) ==
  /\ importer[x].at = "collect"
  /\ LET o == importer[x].occ
         told == [at |-> "verify", occ |-> o, report |-> audits[o]] IN
     \/ Begin(x, o, TRUE, s)
     \/ importLock = FreeImport /\ Replays(o) /\ Reported(o, s) /\ GoImporter(x, told) /\ UNCHANGED importLock
     \/ /\ importLock # FreeImport \/ (IF Replays(o) THEN ~Reported(o, s) ELSE ~Acceptable(s))
        /\ GoImporter(x, [told EXCEPT !.report = NoAudit]) /\ UNCHANGED importLock
     \/ /\ GoImporter(x, [told EXCEPT !.report = [state |-> "published", catalog |-> active]])
        /\ UNCHANGED importLock
  /\ UNCHANGED <<active, catalogVersions, fence, barriers, audits, claim, synced, authorized,
                 revocationHistory, priorFaults>>

\* An import that no presence run asked for; one that is refused changes nothing.
Import(x, o, s) ==
  /\ importer[x].at = "idle"
  /\ Begin(x, o, FALSE, s)
  /\ UNCHANGED <<active, catalogVersions, fence, barriers, audits, claim, synced, authorized,
                 revocationHistory, priorFaults>>

\* writeBarriers: the fence first, a barrier for each revoked item, and only
\* when all are durable is the fence removed.
WriteFence(x) ==
  /\ importer[x].at = "fence"
  /\ fence' = TRUE /\ batch' = importer[x].all
  /\ GoImporter(x, [importer[x] EXCEPT !.at = "barrier"])
  /\ UNCHANGED <<active, catalogVersions, barriers, audits, importLock, claim, synced, authorized,
                 revokedAt, listedAt, priorFaults>>

WriteBarrier(x, i) ==
  /\ importer[x].at = "barrier" /\ i \in importer[x].todo
  /\ barriers' = [barriers EXCEPT ![i] = importer[x].catalog.sequence]
  /\ GoImporter(x, [importer[x] EXCEPT !.todo = @ \ {i}])
  /\ UNCHANGED <<active, catalogVersions, fence, audits, importLock, claim, synced, authorized,
                 revocationHistory, priorFaults>>

\* Mutant: the fence is removed before the last barrier.
BarriersDoneEarly(x) == Cardinality(importer[x].todo) <= 1
BarriersDone(x) == importer[x].todo = {}
RemoveFence(x) ==
  /\ importer[x].at = "barrier" /\ BarriersDone(x)
  /\ fence' = FALSE
  /\ revokedAt' = [i \in Item |-> IF i \in importer[x].all THEN importer[x].catalog.sequence
                                  ELSE revokedAt[i]]
  /\ GoImporter(x, [importer[x] EXCEPT !.at = "publish"])
  /\ UNCHANGED <<active, catalogVersions, barriers, audits, importLock, claim, synced, authorized,
                 listedAt, batch, priorFaults>>

\* The bundle is compiled outside the store, validated, copied and renamed into
\* place; a version that exists is the same catalog.
WithVersion(catalog) == catalogVersions \cup {catalog}
PublishBundle(x) ==
  /\ importer[x].at = "publish"
  /\ catalogVersions' = WithVersion(importer[x].catalog)
  /\ GoImporter(x, [importer[x] EXCEPT !.at = "activate"])
  /\ UNCHANGED <<active, fence, barriers, audits, importLock, claim, synced, authorized,
                 revocationHistory, priorFaults>>

\* writeSnapshot, verifyActiveUnchanged, active.json.
Activate(x) ==
  /\ importer[x].at = "activate" /\ active = importer[x].before
  /\ active' = importer[x].catalog
  /\ listedAt' = [i \in Item |-> IF i \in importer[x].listed THEN importer[x].catalog.sequence
                                 ELSE listedAt[i]]
  /\ batch' = batch \ importer[x].listed
  /\ GoImporter(x, [importer[x] EXCEPT !.at = "clear"])
  /\ UNCHANGED <<catalogVersions, fence, barriers, audits, importLock, claim, synced, authorized,
                 revokedAt, priorFaults>>

\* clearActiveBarriers: an older barrier of a listed item goes, one after another.
StaleBarrier(x, i) == /\ i \in importer[x].listed /\ barriers[i] # 0
                      /\ barriers[i] < importer[x].catalog.sequence
ClearBarrier(x, i) ==
  /\ importer[x].at = "clear" /\ StaleBarrier(x, i)
  /\ barriers' = [barriers EXCEPT ![i] = 0]
  /\ UNCHANGED <<active, catalogVersions, fence, audits, importLock, claim, importer, synced,
                 authorized, revocationHistory, priorFaults>>

\* writeImportAudit, and the report is returned.
WriteImportAudit(x) ==
  /\ importer[x].at = "clear" /\ \A i \in Item : ~StaleBarrier(x, i)
  /\ LET report == [state |-> importer[x].state, catalog |-> importer[x].catalog] IN
       /\ audits' = [audits EXCEPT ![importer[x].occ] = report]
       /\ Return(x, report)
  /\ UNCHANGED <<active, catalogVersions, fence, barriers, claim, synced, authorized, revocationHistory,
                 priorFaults>>

\* VerifyPublication, then the scheduler receipt and the release of the claim.
\* It takes the import lock itself: while another import runs, nothing is proved.
Proven(x) ==
  LET r == importer[x].report
  IN importLock = FreeImport /\ audits[importer[x].occ] = r /\ r.catalog = active
\* Valid: the claim file and its guard are still the ones this run created.
ClaimValid(x) == claim = x
AppendSyncReceipt(x) ==
  /\ importer[x].at = "verify" /\ ClaimValid(x)
  /\ synced' = IF importer[x].report # NoAudit /\ Proven(x) THEN synced \cup {importer[x].occ}
               ELSE synced
  /\ claim' = FreeImport /\ GoImporter(x, IdleImporter)
  /\ UNCHANGED <<active, catalogVersions, fence, barriers, audits, importLock, authorized, revocationHistory,
                 priorFaults>>

-----------------------------------------------------------------------------
\* A file operation fails: Apply returns the error and releases the lock; what
\* was written stays.
Writing == {"fence", "barrier", "publish", "activate", "clear"}
Fail(x) ==
  /\ priorFaults < MaxPriorFaults /\ importer[x].at \in Writing
  /\ priorFaults' = priorFaults + 1
  /\ Return(x, NoAudit)
  /\ UNCHANGED <<active, catalogVersions, fence, barriers, audits, claim, synced, authorized, revocationHistory>>

\* The process stops: the claim's OS lock goes with it, import.lock stays.
Stop(x) ==
  /\ priorFaults < MaxPriorFaults /\ importer[x].at # "idle"
  /\ priorFaults' = priorFaults + 1
  /\ importLock' = IF importLock = x THEN Stopped ELSE importLock
  /\ claim' = IF claim = x THEN FreeImport ELSE claim
  /\ GoImporter(x, IdleImporter)
  /\ UNCHANGED <<active, catalogVersions, fence, barriers, audits, synced, authorized, revocationHistory>>

\* External: the operator removes a lock whose owner is gone.
RecoverLock ==
  /\ importLock = Stopped /\ importLock' = FreeImport
  /\ UNCHANGED <<active, catalogVersions, fence, barriers, audits, claim, importer, synced,
                 authorized, revocationHistory, priorFaults>>

\* The authorization of the enrollment runs out.
Expire ==
  /\ authorized /\ authorized' = FALSE
  /\ UNCHANGED <<active, catalogVersions, fence, barriers, audits, importLock, claim, importer,
                 synced, revocationHistory, priorFaults>>

Step(x) == \/ WriteFence(x) \/ RemoveFence(x) \/ PublishBundle(x)
           \/ Activate(x) \/ WriteImportAudit(x) \/ AppendSyncReceipt(x) \/ Fail(x) \/ Stop(x)
           \/ \E o \in PresenceRun : StartPresence(x, o)
           \/ \E s \in Snapshot : Collect(x, s) \/ \E o \in PresenceRun : Import(x, o, s)
           \/ \E i \in Item : WriteBarrier(x, i) \/ ClearBarrier(x, i)
PriorNext == (\E x \in Importer : Step(x)) \/ RecoverLock \/ Expire
PriorSpec == PriorInit /\ [][PriorNext]_priorVars

-----------------------------------------------------------------------------
\* Find holds the import lock, so it sees no import half done; loadBarriers
\* refuses while the fence is up.
FindResults == IF importLock = FreeImport /\ authorized /\ ~fence /\ active # NoCatalog
         THEN {i \in active.items : barriers[i] = 0} ELSE {}

\* What Find returns was listed by a collection newer than the last one that
\* revoked it, and nothing of the revocation written last shows unless it was
\* listed since: a failed or stopped import, a replay of an older snapshot and a
\* partly written batch never bring a revoked item back.
RevocationSticks ==
  \A i \in FindResults : /\ listedAt[i] > revokedAt[i]
                   /\ i \notin batch

\* A synchronisation recorded as succeeded has its durable audit, and the catalog
\* it reports was published as a version and has not been overtaken by an older one.
SyncedIsPublished ==
  \A o \in synced : /\ audits[o] # NoAudit
                     /\ audits[o].catalog \in catalogVersions
                     /\ audits[o].catalog.sequence <= active.sequence

\* Both, whatever imports, revocations, faults and wakes interleave.
PriorWorkSound == RevocationSticks /\ SyncedIsPublished
=============================================================================
