--------------------------- MODULE InstallProofs ---------------------------
(***************************************************************************)
(* What is proved of the components that install and change a system, for  *)
(* every number of processes, paths, releases and faults.                  *)
(***************************************************************************)
EXTENDS WorkspaceMigration, UpdateChannel, FirstInstall, LaunchAgent, ZipMigration,
        WorkspaceImport, RuntimeProjection, FiniteSetTheorems, TLAPS

-----------------------------------------------------------------------------
(***************************************************************************)
(* WorkspaceMigration.  The marker stands from before the first managed    *)
(* file changes until the receipt is written, and what a restoration has   *)
(* passed is as confirmed.                                                 *)
(***************************************************************************)
Working == {"install", "undo", "recover"}
MigrationTyped ==
  /\ managed \in [Path -> {"old", "new", "user"}]
  /\ migration \in [at : Working \cup {"idle", "confirm", "terminal"}, todo : Seq(Path)]
  /\ migration.at = "idle" => migration = NoMigration
  /\ marker \in BOOLEAN /\ disturbed \in BOOLEAN /\ reported \in BOOLEAN
  /\ outcome \in {"none", "applied", "rolled_back"}
MarkedWhileWorking ==
  /\ marker => snapshot = Planned
  /\ migration.at \in Working => marker /\ outcome # "applied"
\* Nobody interfered, and no earlier rolled back receipt misleads the recovery.
Undisturbed == ~disturbed /\ ~reported /\ outcome # "rolled_back"
RestoredSoFar ==
  Undisturbed =>
    /\ outcome = "applied" => managed = Upgraded
    /\ migration.at \in {"undo", "recover"} => \A p \in Path \ ToSet(migration.todo) : managed[p] = "old"
    /\ migration.at = "terminal" /\ outcome = "none" => managed = Planned
    /\ migration.at \in {"idle", "confirm"} =>
         managed = Planned \/ outcome = "applied" \/ (marker /\ snapshot = Planned)
MigrationInv == MigrationTyped /\ MarkedWhileWorking /\ RestoredSoFar

\* The elements of a sequence are its head and those of its tail.
LEMMA HeadAndTail ==
  ASSUME NEW S, NEW s \in Seq(S), s # << >>
  PROVE  /\ Head(s) \in S /\ Tail(s) \in Seq(S)
         /\ ToSet(s) \subseteq {Head(s)} \cup ToSet(Tail(s))
<1>1. Head(s) \in S /\ Tail(s) \in Seq(S)
  OBVIOUS
<1>2. ASSUME NEW i \in DOMAIN s
      PROVE  s[i] = Head(s) \/ \E j \in DOMAIN Tail(s) : s[i] = Tail(s)[j]
  <2>1. CASE i = 1
    BY <2>1
  <2>2. CASE i # 1
    <3>1. i - 1 \in DOMAIN Tail(s) /\ Tail(s)[i - 1] = s[i]
      BY <2>2
    <3> QED
      BY <3>1
  <2> QED
    BY <2>1, <2>2
<1> QED
  BY <1>1, <1>2 DEF ToSet

\* The empty sequence has no elements.
LEMMA NoElements == ASSUME NEW S PROVE << >> \in Seq(S) /\ ToSet(<< >>) = {}
  BY DEF ToSet

\* Every step of the engine keeps the invariant.
LEMMA MigrationStep ==
  ASSUME MigrationInv, [MigrationNext]_migrationVars
  PROVE  MigrationInv'
<1> USE DEF MigrationInv, MigrationTyped, MarkedWhileWorking, Undisturbed, RestoredSoFar, Working, NoMigration,
            Goto, Files, Environment, Planned, Upgraded
<1>0. << >> \in Seq(Path)
  BY NoElements
<1>1. CASE TakeSnapshot
  BY <1>1 DEF TakeSnapshot, Inspected
<1>2. CASE Confirm
  BY <1>2 DEF Confirm
<1>3. CASE AlreadyApplied
  BY <1>3 DEF AlreadyApplied
<1>4. CASE MarkerOfReceipt
  BY <1>4 DEF MarkerOfReceipt
<1>5. CASE StartRecovery
  BY <1>5, PathsAssumption DEF StartRecovery, Path
<1>6. CASE StartApply
  BY <1>6, PathsAssumption DEF StartApply, Marked, SnapshotValid
<1>7. CASE InstallPath
  <2>1. Head(migration.todo) \in Path /\ Tail(migration.todo) \in Seq(Path)
    BY <1>7, HeadAndTail DEF InstallPath
  <2> QED
    BY <1>7, <2>1 DEF InstallPath
<1>8. CASE WriteApplied
  BY <1>8, PathsAssumption DEF WriteApplied, Path
<1>9. CASE Terminalize
  BY <1>0, <1>9 DEF Terminalize
<1>10. CASE Restore
  <2>1. /\ Head(migration.todo) \in Path /\ Tail(migration.todo) \in Seq(Path)
        /\ ToSet(migration.todo) \subseteq {Head(migration.todo)} \cup ToSet(Tail(migration.todo))
    BY <1>10, HeadAndTail DEF Restore
  <2> QED
    BY <1>10, <2>1 DEF Restore
<1>11. CASE WriteRolledBack
  BY <1>11 DEF WriteRolledBack
<1>12. CASE OperationFails
  <2>1. CASE InstallFails
    BY <1>12, <2>1, PathsAssumption DEF OperationFails, InstallFails, Path
  <2>2. CASE RestoreFails
    <3>0. UNCHANGED <<managed, snapshot, marker, outcome, disturbed>>
      BY <1>12 DEF OperationFails
    <3>1. CASE migration.at = "undo" /\ Goto("undo", << >>) /\ reported' = TRUE
      BY <1>0, <3>0, <3>1
    <3>2. CASE migration.at = "recover" /\ migration' = NoMigration /\ UNCHANGED reported
      BY <1>0, <3>0, <3>2
    <3> QED
      BY <2>2, <3>1, <3>2 DEF RestoreFails
  <2>3. CASE WriteFails
    BY <1>12, <2>3, NoElements DEF OperationFails, WriteFails
  <2>4. CASE MarkerRemains
    BY <1>12, <2>4 DEF OperationFails, MarkerRemains
  <2> QED
    BY <1>12, <2>1, <2>2, <2>3, <2>4 DEF OperationFails
<1>13. CASE MigrationCrash
  BY <1>13 DEF MigrationCrash
<1>14. CASE \E p \in Path : UserEdit(p)
  BY <1>14 DEF UserEdit
<1>15. CASE UNCHANGED migrationVars
  BY <1>15 DEF migrationVars
<1> QED
  BY <1>1, <1>2, <1>3, <1>4, <1>5, <1>6, <1>7, <1>8, <1>9, <1>10, <1>11, <1>12, <1>13, <1>14, <1>15 DEF MigrationNext

\* Whatever fails or stops, and at whichever path: a workspace the user has not
\* touched is as confirmed, upgraded under its receipt, or marked with a snapshot
\* that can undo it.  For any list of managed paths.
THEOREM MigrationMarked == MigrationSpec => []InterruptedIsMarked
<1>0. << >> \in Seq(Path)
  BY NoElements
<1>1. MigrationInit => MigrationInv
  <2> SUFFICES ASSUME MigrationInit PROVE MigrationInv
    OBVIOUS
  <2>1. MigrationTyped
    BY <1>0 DEF MigrationInit, MigrationTyped, Working, NoMigration, Planned
  <2>2. MarkedWhileWorking
    BY DEF MigrationInit, MarkedWhileWorking, Working, NoMigration
  <2>3. RestoredSoFar
    BY DEF MigrationInit, RestoredSoFar, Undisturbed, NoMigration
  <2> QED
    BY <2>1, <2>2, <2>3 DEF MigrationInv
<1>2. MigrationInv /\ [MigrationNext]_migrationVars => MigrationInv'
  BY MigrationStep
<1>3. MigrationInv => InterruptedIsMarked
  BY DEF MigrationInv, MigrationTyped, MarkedWhileWorking, RestoredSoFar, Undisturbed, InterruptedIsMarked, NoMigration
<1> QED
  BY <1>1, <1>2, <1>3, PTL DEF MigrationSpec

-----------------------------------------------------------------------------
(***************************************************************************)
(* UpdateChannel.  A package belongs to the check that renamed it into     *)
(* place until that check has planned it or is through with discarding it: *)
(* once planned it is whole, can become pending or be activated, and is    *)
(* not removed any more.                                                   *)
(***************************************************************************)
Version == Release \cup {1}
Package == [manifest : ManifestRevision \cup {"none", "absent"}, artifact : ManifestRevision \cup {"none", "absent"}]
Looking == [at : {"list", "refresh"}, from : Version]
Selected == [at : {"manifest"}, from : Version, to : Release, staging : Package]
Fetched == [at : {"artifact", "verify"}, from : Version, to : Release,
            staging : [manifest : ManifestRevision, artifact : ManifestRevision \cup {"none", "absent"}]]
Deciding == [at : {"plan", "discard", "stage", "activate", "remove"}, from : Version, to : Release]
Published == [manifest : ManifestRevision, artifact : ManifestRevision, draft : BOOLEAN]
ChannelTyped ==
  /\ provider \in [Release -> Published]
  /\ packages \in [Release -> Package]
  /\ installed \in Version
  /\ pendingUpdate \in {NoPending} \cup [from : Version, to : Release]
  /\ confirmed \subseteq [from : Version, to : Release]
  /\ check \in [UpdateCheck -> {CheckIdle} \cup Looking \cup Selected \cup Fetched \cup Deciding]
Bookable(package) == WholePackage(package) /\ TagNames(package.manifest)
OneManifestEach == \A v \in Release : packages[v] # NoPackage => OfOneManifest(packages[v])
Allowed(u) == Bookable(packages[u.to]) /\ EnsureUpdateAllowed(u.from, packages[u.to], u.to)
PlansStand ==
  /\ pendingUpdate # NoPending => Bookable(packages[pendingUpdate.to])
  /\ \A u \in confirmed : Allowed(u)
  /\ \A c \in UpdateCheck : /\ AtCheck(c, "plan") => WholePackage(packages[check[c].to])
                            /\ AtCheck(c, "discard") => OfOneManifest(packages[check[c].to])
                            /\ check[c].at \in {"stage", "activate"} => Allowed(check[c])
\* A package that may still be removed is nobody else's.
PlanningIsSole ==
  \A c \in UpdateCheck : check[c].at \in {"plan", "discard"} =>
    /\ pendingUpdate.to # check[c].to
    /\ \A u \in confirmed : u.to # check[c].to
    /\ \A d \in UpdateCheck \ {c} : check[d].at \in {"plan", "discard", "stage", "activate"} => check[d].to # check[c].to
ChannelInv == ChannelTyped /\ OneManifestEach /\ PlansStand /\ PlanningIsSole

\* Where a check is tells what it holds.
LEMMA CheckShape ==
  ASSUME ChannelTyped, NEW c \in UpdateCheck
  PROVE  /\ check[c].at \in {"list", "refresh"} => check[c] \in Looking
         /\ check[c].at = "manifest" => check[c] \in Selected
         /\ check[c].at \in {"artifact", "verify"} => check[c] \in Fetched
         /\ check[c].at \in {"plan", "discard", "stage", "activate", "remove"} => check[c] \in Deciding
  BY DEF ChannelTyped, CheckIdle, Looking, Selected, Fetched, Deciding

\* A step that only moves a check to where it decides nothing keeps the invariant.
LEMMA CheckMoves ==
  ASSUME ChannelInv, NEW c \in UpdateCheck, NEW next \in {CheckIdle} \cup Looking \cup Selected \cup Fetched, Proceeds(c, next),
         UNCHANGED <<provider, packages, pendingUpdate, installed, confirmed>>
  PROVE  ChannelInv'
<1>1. next.at \notin {"plan", "discard", "stage", "activate"}
  BY DEF CheckIdle, Looking, Selected, Fetched
<1>2. ChannelTyped'
  BY DEF ChannelInv, ChannelTyped, Proceeds
<1>3. check'[c] = next /\ \A d \in UpdateCheck \ {c} : check'[d] = check[d]
  BY DEF ChannelInv, ChannelTyped, Proceeds
<1> QED
  BY <1>1, <1>2, <1>3
     DEF ChannelInv, OneManifestEach, PlansStand, PlanningIsSole, Bookable, WholePackage, OfOneManifest, Allowed, AtCheck, EnsureUpdateAllowed

\* Every step of a check, of the provider and of the registry keeps the invariant.
LEMMA ChannelStep ==
  ASSUME ChannelInv, [UpdateNext]_updateVars
  PROVE  ChannelInv'
<1> USE DEF Leaves, Quiet
<1>1. CASE Login \/ Logout \/ TokenExpires \/ RevokeKey
  BY <1>1 DEF Login, Logout, TokenExpires, RevokeKey, ChannelInv, ChannelTyped, OneManifestEach, PlansStand, PlanningIsSole,
              Bookable, WholePackage, OfOneManifest, Allowed, AtCheck, EnsureUpdateAllowed
<1>2. ASSUME NEW v \in Release, Republish(v) PROVE ChannelInv'
  <2>1. provider' \in [Release -> Published]
    <3>1. /\ \A r \in ManifestRevision :
               /\ [provider EXCEPT ![v].manifest = r] \in [Release -> Published]
               /\ [provider EXCEPT ![v].artifact = r] \in [Release -> Published]
          /\ [provider EXCEPT ![v].draft = ~@] \in [Release -> Published]
      BY DEF ChannelInv, ChannelTyped, Published
    <3>2. \A r \in {"r2", "other"} : [provider EXCEPT ![v].manifest = r, ![v].artifact = r] \in [Release -> Published]
      BY DEF ChannelInv, ChannelTyped, Published, ManifestRevision, SignedRevision
    <3> QED
      BY <1>2, <3>1, <3>2 DEF Republish
  <2> QED
    BY <1>2, <2>1 DEF Republish, ChannelInv, ChannelTyped, OneManifestEach, PlansStand, PlanningIsSole,
                      Bookable, WholePackage, OfOneManifest, Allowed, AtCheck, EnsureUpdateAllowed
<1>3. ASSUME NEW c \in UpdateCheck, BeginCheck(c) PROVE ChannelInv'
  <2>1. [at |-> IF credential = "fresh" THEN "list" ELSE "refresh", from |-> installed] \in Looking
    BY DEF Looking, ChannelInv, ChannelTyped
  <2> QED
    BY <1>3, <2>1, CheckMoves DEF BeginCheck
<1>4. ASSUME NEW c \in UpdateCheck, Refresh(c) PROVE ChannelInv'
  <2>1. [check[c] EXCEPT !.at = "list"] \in Looking
    BY <1>4, CheckShape DEF Refresh, AtCheck, ChannelInv, Looking
  <2> QED
    BY <1>4, <2>1, CheckMoves DEF Refresh
<1>5. ASSUME NEW c \in UpdateCheck, SelectLatest(c) PROVE ChannelInv'
  <2>1. \A v \in Release : [at |-> "manifest", from |-> check[c].from, to |-> v, staging |-> Emptied] \in Selected
    BY <1>5, CheckShape DEF SelectLatest, AtCheck, ChannelInv, Looking, Selected, Emptied, Package
  <2> QED
    BY <1>5, <2>1, CheckMoves DEF SelectLatest, Newer
<1>6. ASSUME NEW c \in UpdateCheck, FetchManifest(c) PROVE ChannelInv'
  <2>1. [check[c] EXCEPT !.at = "artifact", !.staging.manifest = provider[check[c].to].manifest] \in Fetched
    <3>1. check[c] \in Selected
      BY <1>6, CheckShape DEF FetchManifest, AtCheck, ChannelInv
    <3>2. provider[check[c].to].manifest \in ManifestRevision
      BY <3>1 DEF Selected, ChannelInv, ChannelTyped, Published
    <3>3. [check[c].staging EXCEPT !.manifest = provider[check[c].to].manifest] \in
            [manifest : ManifestRevision, artifact : ManifestRevision \cup {"none", "absent"}]
      BY <3>1, <3>2 DEF Selected, Package
    <3> QED
      BY <3>1, <3>3 DEF Selected, Fetched
  <2> QED
    BY <1>6, <2>1, CheckMoves DEF FetchManifest
<1>7. ASSUME NEW c \in UpdateCheck, FetchArtifacts(c) PROVE ChannelInv'
  <2>1. [check[c] EXCEPT !.at = "verify", !.staging.artifact = provider[check[c].to].artifact] \in Fetched
    <3>1. check[c] \in Fetched
      BY <1>7, CheckShape DEF FetchArtifacts, AtCheck, ChannelInv
    <3>2. provider[check[c].to].artifact \in ManifestRevision
      BY <3>1 DEF Fetched, ChannelInv, ChannelTyped, Published
    <3>3. [check[c].staging EXCEPT !.artifact = provider[check[c].to].artifact] \in
            [manifest : ManifestRevision, artifact : ManifestRevision \cup {"none", "absent"}]
      BY <3>1, <3>2 DEF Fetched
    <3> QED
      BY <3>1, <3>3 DEF Fetched
  <2> QED
    BY <1>7, <2>1, CheckMoves DEF FetchArtifacts
<1>15. ASSUME NEW c \in UpdateCheck, CheckStops(c) PROVE ChannelInv'
  BY <1>15, CheckMoves DEF CheckStops
<1> USE ReleaseAssumption
    DEF ChannelInv, ChannelTyped, OneManifestEach, PlansStand, PlanningIsSole, Bookable, WholePackage, OfOneManifest, Allowed, AtCheck, Proceeds,
        CheckIdle, NoPending
<1>8. ASSUME NEW c \in UpdateCheck, VerifyAndRename(c) PROVE ChannelInv'
  <2>1. check[c] \in Fetched /\ check[c].staging \in Package /\ check[c].staging # NoPackage
    BY <1>8, CheckShape DEF VerifyAndRename, Fetched, Package, ManifestRevision, SignedRevision, NoPackage
  <2>4. \A v \in Release : packages[v] = NoPackage => ~WholePackage(packages[v]) /\ ~OfOneManifest(packages[v])
    BY DEF NoPackage, SignedRevision
  <2>2. CASE Verified(check[c].staging) /\ packages[check[c].to] = NoPackage
    <3>1. check' = [check EXCEPT ![c] = [at |-> "plan", from |-> check[c].from, to |-> check[c].to]]
      BY <1>8, <2>2 DEF VerifyAndRename
    <3>2. packages' = [packages EXCEPT ![check[c].to] = check[c].staging]
      BY <1>8, <2>2 DEF VerifyAndRename
    <3>3. ChannelTyped'
      BY <1>8, <2>1, <3>1, <3>2 DEF VerifyAndRename, Fetched, Deciding
    <3>4. OneManifestEach'
      BY <2>1, <2>2, <3>2 DEF Fetched, Verified, Signed
    <3>7. check[c].to \in Release /\ \A v \in Release : packages'[v] = IF v = check[c].to THEN check[c].staging ELSE packages[v]
      BY <2>1, <3>2 DEF Fetched
    <3>8. pendingUpdate # NoPending => pendingUpdate.to # check[c].to
      BY <2>2, <2>4, <3>7
    <3>9. \A u \in confirmed : u.to # check[c].to
      BY <2>2, <2>4, <3>7
    <3>10. \A d \in UpdateCheck : check[d].at \in {"plan", "discard", "stage", "activate"} => check[d].to # check[c].to
      <4>1. ASSUME NEW d \in UpdateCheck, check[d].at \in {"plan", "discard", "stage", "activate"}
            PROVE  WholePackage(packages[check[d].to]) \/ OfOneManifest(packages[check[d].to])
        BY <4>1
      <4>2. packages[check[c].to].manifest \notin SignedRevision \cup {"none"}
        BY <2>2 DEF NoPackage, SignedRevision
      <4>3. ASSUME NEW package, WholePackage(package) \/ OfOneManifest(package)
            PROVE  package.manifest \in SignedRevision \cup {"none"}
        BY <4>3
      <4> QED
        BY <4>1, <4>2, <4>3
    <3>11. UNCHANGED <<pendingUpdate, confirmed>>
      BY <1>8 DEF VerifyAndRename
    <3>12. \A d \in UpdateCheck \ {c} : check'[d] = check[d]
      BY <3>1
    <3>13. check'[c].at = "plan" /\ check'[c].to = check[c].to
      BY <3>1
    <3>14. WholePackage(check[c].staging)
      BY <2>2 DEF Verified, Signed
    <3>5. PlansStand'
      <4>1. (pendingUpdate # NoPending => Bookable(packages[pendingUpdate.to]))' /\ (\A u \in confirmed : Allowed(u))'
        BY <3>7, <3>8, <3>9, <3>11
      <4>2. ASSUME NEW d \in UpdateCheck
            PROVE  /\ AtCheck(d, "plan")' => WholePackage(packages'[check'[d].to])
                   /\ AtCheck(d, "discard")' => OfOneManifest(packages'[check'[d].to])
                   /\ check'[d].at \in {"stage", "activate"} => Allowed(check[d])'
        <5>1. CASE d = c
          BY <3>7, <3>13, <3>14, <5>1
        <5>2. CASE d # c
          <6>1. check[d].at \in {"plan", "discard", "stage", "activate"} => packages'[check[d].to] = packages[check[d].to]
            BY <3>7, <3>10, CheckShape DEF Deciding
          <6> QED
            BY <3>12, <5>2, <6>1
        <5> QED
          BY <5>1, <5>2
      <4> QED
        BY <4>1, <4>2
    <3>6. PlanningIsSole'
      BY <3>7, <3>8, <3>9, <3>10, <3>11, <3>12, <3>13
    <3> QED
      BY <3>3, <3>4, <3>5, <3>6
  <2>3. CASE ~(Verified(check[c].staging) /\ packages[check[c].to] = NoPackage)
    BY <1>8, <2>3, CheckMoves DEF VerifyAndRename
  <2> QED
    BY <2>2, <2>3
<1>9. ASSUME NEW c \in UpdateCheck, BuildPlan(c) PROVE ChannelInv'
  <2>1. check[c] \in Deciding /\ WholePackage(packages[check[c].to])
    BY <1>9, CheckShape DEF BuildPlan
  <2>2. OfOneManifest(packages[check[c].to])
    BY <2>1
  <2>3. PICK next \in {"stage", "discard"} :
          /\ check' = [check EXCEPT ![c] = [check[c] EXCEPT !.at = next]]
          /\ next = "stage" => Allowed(check[c])
    BY <1>9, <2>1 DEF BuildPlan
  <2>4. [check[c] EXCEPT !.at = next] \in Deciding
    BY <2>1 DEF Deciding
  <2>5. ChannelTyped' /\ OneManifestEach'
    BY <1>9, <2>3, <2>4 DEF BuildPlan
  <2>6. PlansStand'
    BY <1>9, <2>1, <2>2, <2>3 DEF BuildPlan, Deciding
  <2>7. PlanningIsSole'
    BY <1>9, <2>1, <2>3 DEF BuildPlan, Deciding
  <2> QED
    BY <2>5, <2>6, <2>7
<1>17. ASSUME NEW c \in UpdateCheck, Discard(c) PROVE ChannelInv'
  <2>1. check[c] \in Deciding /\ check[c].to \in Release /\ OfOneManifest(packages[check[c].to])
    BY <1>17, CheckShape DEF Discard, Deciding
  <2>2. CASE Leaves(c) /\ UNCHANGED packages
    BY <1>17, <2>2, CheckMoves DEF Discard
  <2>3. CASE packages' = [packages EXCEPT ![check[c].to] = NoPackage] /\ Leaves(c)
    <3>1. NoPackage \in Package
      BY DEF Package, NoPackage
    <3>2. ChannelTyped' /\ OneManifestEach'
      BY <1>17, <2>1, <2>3, <3>1 DEF Discard
    <3>3. PlansStand' /\ PlanningIsSole'
      BY <1>17, <2>1, <2>3 DEF Discard
    <3> QED
      BY <3>2, <3>3
  <2>4. ASSUME NEW part \in {"manifest", "artifact"},
               packages' = [packages EXCEPT ![check[c].to][part] = "none"], UNCHANGED check
        PROVE  ChannelInv'
    <3> DEFINE left == [packages[check[c].to] EXCEPT ![part] = "none"]
    <3>1. packages' = [packages EXCEPT ![check[c].to] = left]
      BY <2>4
    <3>2. left \in Package
      BY <2>1, <2>4 DEF Package
    <3>3. OfOneManifest(left)
      BY <2>1, <2>4 DEF Package
    <3> HIDE DEF left
    <3>4. ChannelTyped' /\ OneManifestEach'
      BY <1>17, <2>1, <2>4, <3>1, <3>2, <3>3 DEF Discard
    <3>5. PlansStand' /\ PlanningIsSole'
      BY <1>17, <2>1, <2>4, <3>1, <3>3 DEF Discard
    <3> QED
      BY <3>4, <3>5
  <2> QED
    BY <1>17, <2>2, <2>3, <2>4 DEF Discard
<1>10. ASSUME NEW c \in UpdateCheck, StagePending(c) PROVE ChannelInv'
  <2>1. check[c] \in Deciding
    BY <1>10, CheckShape DEF StagePending
  <2> QED
    BY <1>10, <2>1 DEF StagePending, WritePending, Deciding
<1>11. ASSUME NEW c \in UpdateCheck, ConfirmPending(c) PROVE ChannelInv'
  <2>1. [at |-> "activate", from |-> pendingUpdate.from, to |-> pendingUpdate.to] \in Deciding
    BY <1>11 DEF ConfirmPending, Deciding
  <2> QED
    BY <1>11, <2>1 DEF ConfirmPending, SourceCurrent
<1>12. ASSUME NEW c \in UpdateCheck, ReconcilePending(c) PROVE ChannelInv'
  <2>1. [at |-> "remove", from |-> pendingUpdate.from, to |-> pendingUpdate.to] \in Deciding
    BY <1>12 DEF ReconcilePending, Deciding
  <2> QED
    BY <1>12, <2>1 DEF ReconcilePending
<1>13. ASSUME NEW c \in UpdateCheck, Activate(c) PROVE ChannelInv'
  <2>1. check[c] \in Deciding
    BY <1>13, CheckShape DEF Activate
  <2> QED
    BY <1>13, <2>1 DEF Activate, Deciding, Version
<1>14. ASSUME NEW c \in UpdateCheck, RemovePending(c) PROVE ChannelInv'
  <2>1. check[c] \in Deciding
    BY <1>14, CheckShape DEF RemovePending
  <2>2. \A d \in UpdateCheck : check[d].at \in {"plan", "discard"} => check[d].to # 0
    BY CheckShape DEF Deciding
  <2> QED
    BY <1>14, <2>1, <2>2 DEF RemovePending, Deciding
<1>16. CASE UNCHANGED updateVars
  BY <1>16 DEF updateVars
<1> QED
  BY <1>1, <1>2, <1>3, <1>4, <1>5, <1>6, <1>7, <1>8, <1>9, <1>10, <1>11, <1>12, <1>13, <1>14, <1>15, <1>16, <1>17 DEF UpdateNext

\* Whatever the provider replaces, and whichever checks, confirmations, stops
\* and failing removals interleave: what is in place is of one signed manifest, the
\* pending update has its package whole, and no update was activated that is not the
\* version its tag names or lacks the role migration it needs.  For any number of
\* checks, releases and faults.
THEOREM StagedWhole == UpdateSpec => []StagedUpdateIsWhole
<1>1. UpdateInit => ChannelInv
  BY ReleaseAssumption
     DEF UpdateInit, ChannelInv, ChannelTyped, OneManifestEach, PlansStand, PlanningIsSole, AtCheck,
         CheckIdle, NoPending, NoPackage, Package, Published, Version, ManifestRevision, SignedRevision
<1>2. ChannelInv /\ [UpdateNext]_updateVars => ChannelInv'
  BY ChannelStep
<1>3. ChannelInv => StagedUpdateIsWhole
  BY DEF ChannelInv, OneManifestEach, PlansStand, Bookable, Allowed, StagedUpdateIsWhole
<1> QED
  BY <1>1, <1>2, <1>3, PTL DEF UpdateSpec

-----------------------------------------------------------------------------
(***************************************************************************)
(* FirstInstall.  While the installer stages a root, nothing of an earlier *)
(* installation is in its way: there is no state, and the root is its own  *)
(* attempt's, so neither a clean-up nor the new state can lose anything.   *)
(* Two installers at a time do not keep this (the run FirstInstallRace).   *)
(***************************************************************************)
SoleInstaller == \A i, j \in Installer : i = j
InstallSteps == {"idle", "inspect", "record", "state", "root", "complete", "mkdir", "registry", "bootstrapper", "verify",
                 "fill", "write", "diagnose"}
Root == [by : Nat, has : SUBSET (Owned \cup {"absent", "foreign"})]
InstallState == [by : Nat, plan : InstallPlan \cup {"none"}]
Reasons == {"none", "orphan", "trust", "stale", "interrupted", "bootstrapper", "diagnostic"}
Results == {"none", "update_instead", "already_installed", "unrecognized", "preserved", "quarantined", "failed", "installed"}
InstallerCall == [at : InstallSteps, plan : InstallPlan \cup {"none"}, id : Nat, reason : Reasons,
                  root : BOOLEAN, then : {"idle", "mkdir"}, result : Results]
FilesTyped ==
  /\ attempts \in Nat /\ durable \subseteq 1..attempts
  /\ rootDir \in Root /\ rootBackup \in [InstallPlan -> Root]
  /\ stateFile \in InstallState /\ stateBackup \in [InstallPlan -> InstallState]
CallsTyped ==
  /\ installer \in [Installer -> InstallerCall]
  /\ \A i \in Installer : ~AtStep(i, "idle") => installer[i].plan \in InstallPlan /\ installer[i].id \in 1..attempts
\* A root that some attempt has made holds its trust directory.
RootsAreMade == rootDir.by # 0 => "trust" \in rootDir.has
Staging == {"registry", "bootstrapper", "verify", "fill", "write"}
WayIsFree ==
  \A i \in Installer :
    /\ installer[i].at \in {"inspect", "mkdir"} \cup Staging => installer[i].id \notin durable
    /\ installer[i].at \in {"mkdir"} \cup Staging => stateFile = NoState
    /\ AtStep(i, "mkdir") => rootDir.by = 0
    /\ installer[i].at \in Staging => rootDir.by = installer[i].id
    /\ AtStep(i, "diagnose") => stateFile # NoState
    /\ installer[i].at \in {"record", "state", "root", "complete"} /\ installer[i].then = "mkdir" =>
         /\ installer[i].id \notin durable
         /\ ~installer[i].root \/ AtStep(i, "complete") => rootDir.by = 0
         /\ installer[i].at \in {"root", "complete"} => stateFile = NoState
InstallInv == FilesTyped /\ CallsTyped /\ RootsAreMade /\ WayIsFree /\ InstallationKept

\* What the three ways to go on leave of an installer's call.
LEMMA GoesTo ==
  ASSUME SoleInstaller, installer \in [Installer -> InstallerCall], NEW i \in Installer,
         NEW step \in InstallSteps, GoTo(i, step)
  PROVE  /\ installer' \in [Installer -> InstallerCall]
         /\ \A j \in Installer :
              /\ j = i /\ installer'[j].at = step /\ installer'[j].plan = installer[i].plan
              /\ installer'[j].id = installer[i].id /\ installer'[j].root = installer[i].root
              /\ installer'[j].then = installer[i].then
  BY DEF SoleInstaller, InstallerCall, GoTo

\* The only installer ends its call.
LEMMA Stops ==
  ASSUME SoleInstaller, installer \in [Installer -> InstallerCall], NEW i \in Installer,
         NEW result \in Results, Stop(i, result)
  PROVE  /\ installer' \in [Installer -> InstallerCall]
         /\ \A j \in Installer : j = i /\ installer'[j].at = "idle"
  BY DEF SoleInstaller, InstallerCall, InstallSteps, Reasons, Results, Stop, Resting

\* The only installer goes on to put the directory aside.
LEMMA Quarantines ==
  ASSUME SoleInstaller, installer \in [Installer -> InstallerCall], NEW i \in Installer,
         NEW reason \in Reasons, NEW root \in BOOLEAN, NEW then \in {"idle", "mkdir"}, Quarantine(i, reason, root, then)
  PROVE  /\ installer' \in [Installer -> InstallerCall]
         /\ \A j \in Installer :
              /\ j = i /\ installer'[j].at = "record" /\ installer'[j].plan = installer[i].plan
              /\ installer'[j].id = installer[i].id /\ installer'[j].root = root /\ installer'[j].then = then
<1> DEFINE call == [installer[i] EXCEPT !.at = "record", !.reason = reason, !.root = root, !.then = then]
<1>1. installer' = [installer EXCEPT ![i] = call]
  BY DEF Quarantine
<1>2. /\ call \in InstallerCall /\ call.at = "record" /\ call.plan = installer[i].plan
      /\ call.id = installer[i].id /\ call.root = root /\ call.then = then
  BY DEF InstallerCall, InstallSteps
<1> HIDE DEF call
<1> QED
  BY <1>1, <1>2 DEF SoleInstaller

\* A step that ends a call and leaves root, state, backups and history alone.
LEMMA StoppedKeeps ==
  ASSUME SoleInstaller, InstallInv, NEW i \in Installer, NEW result \in Results, Stop(i, result), UNCHANGED attempts,
         UNCHANGED <<rootDir, stateFile, rootBackup, stateBackup, durable>>
  PROVE  InstallInv'
<1>1. /\ installer' \in [Installer -> InstallerCall]
      /\ \A j \in Installer : j = i /\ installer'[j].at = "idle"
  BY Stops DEF InstallInv, CallsTyped
<1> QED
  BY <1>1 DEF InstallInv, FilesTyped, CallsTyped, RootsAreMade, WayIsFree, InstallationKept, AtStep, Staging, NoState

\* So does one that enters the quarantine of what stands, to end the call or, with
\* the way free after it, to stage a new root.
LEMMA QuarantineKeeps ==
  ASSUME SoleInstaller, InstallInv, NEW i \in Installer, ~AtStep(i, "idle"),
         NEW reason \in Reasons, NEW root \in BOOLEAN, NEW then \in {"idle", "mkdir"}, Quarantine(i, reason, root, then),
         then = "mkdir" => installer[i].id \notin durable /\ (root \/ rootDir.by = 0),
         UNCHANGED <<rootDir, stateFile, rootBackup, stateBackup, attempts, durable>>
  PROVE  InstallInv'
<1>1. /\ installer' \in [Installer -> InstallerCall]
      /\ \A j \in Installer :
           /\ j = i /\ installer'[j].at = "record" /\ installer'[j].plan = installer[i].plan
           /\ installer'[j].id = installer[i].id /\ installer'[j].root = root /\ installer'[j].then = then
  BY Quarantines DEF InstallInv, CallsTyped
<1> QED
  BY <1>1 DEF InstallInv, FilesTyped, CallsTyped, RootsAreMade, WayIsFree, InstallationKept, AtStep, Staging, NoState

\* A step to another one of the same call, for what it makes of root, state and backups.
LEMMA GoingKeeps ==
  ASSUME SoleInstaller, InstallInv, NEW i \in Installer, ~AtStep(i, "idle"), NEW step \in InstallSteps, GoTo(i, step),
         UNCHANGED attempts, FilesTyped', RootsAreMade', InstallationKept',
         step \in {"mkdir"} \cup Staging => installer[i].id \notin durable' /\ stateFile' = NoState,
         step = "mkdir" => rootDir'.by = 0,
         step \in Staging => rootDir'.by = installer[i].id,
         step = "diagnose" => stateFile' # NoState,
         step # "inspect",
         step \in {"record", "state", "root", "complete"} /\ installer[i].then = "mkdir" =>
           /\ installer[i].id \notin durable'
           /\ ~installer[i].root \/ step = "complete" => rootDir'.by = 0
           /\ step \in {"root", "complete"} => stateFile' = NoState
  PROVE  InstallInv'
<1>1. /\ installer' \in [Installer -> InstallerCall]
      /\ \A j \in Installer :
           /\ j = i /\ installer'[j].at = step /\ installer'[j].plan = installer[i].plan
           /\ installer'[j].id = installer[i].id /\ installer'[j].root = installer[i].root
           /\ installer'[j].then = installer[i].then
  BY GoesTo DEF InstallInv, CallsTyped
<1>2. CallsTyped'
  BY <1>1 DEF InstallInv, CallsTyped, AtStep
<1>3. WayIsFree'
  BY <1>1 DEF WayIsFree, AtStep, Staging
<1> QED
  BY <1>2, <1>3 DEF InstallInv

\* The steps that look at what is there and record its quarantine.
LEMMA PreparingKeeps ==
  ASSUME SoleInstaller, InstallInv, NEW i \in Installer,
         \/ \E p \in InstallPlan : PrepareInstall(i, p)
         \/ PrepareManagedRoot(i) \/ PrepareRecoveryRecord(i) \/ CompleteRecovery(i) \/ Diagnose(i) \/ InstallerCrash(i)
  PROVE  InstallInv'
<1> USE DEF AtStep, FilesStay
<1>1. ASSUME NEW p \in InstallPlan, PrepareInstall(i, p) PROVE InstallInv'
  <2>1. installer' = [installer EXCEPT ![i] = [Resting EXCEPT !.at = "inspect", !.plan = p, !.id = attempts + 1]]
    BY <1>1 DEF PrepareInstall
  <2>2. [Resting EXCEPT !.at = "inspect", !.plan = p, !.id = attempts + 1] \in InstallerCall
    <3>1. attempts + 1 \in Nat
      BY DEF InstallInv, FilesTyped
    <3> QED
      BY <3>1 DEF InstallerCall, InstallSteps, Resting, Reasons, Results
  <2>3. /\ installer' \in [Installer -> InstallerCall]
        /\ \A j \in Installer : j = i /\ installer'[j].at = "inspect" /\ installer'[j].plan = p /\ installer'[j].id = attempts + 1
    BY <2>1, <2>2 DEF SoleInstaller, InstallInv, CallsTyped, Resting
  <2> QED
    <3>1. attempts' = attempts + 1 /\ UNCHANGED <<rootDir, stateFile, rootBackup, stateBackup, durable>>
      BY <1>1 DEF PrepareInstall
    <3>2. attempts \in Nat /\ durable \subseteq 1..attempts
      BY DEF InstallInv, FilesTyped
    <3>3. FilesTyped' /\ RootsAreMade' /\ InstallationKept'
      BY <3>1, <3>2 DEF InstallInv, FilesTyped, RootsAreMade, InstallationKept, Root, InstallState
    <3>4. CallsTyped'
      BY <2>3, <3>1, <3>2 DEF CallsTyped
    <3>5. WayIsFree'
      BY <2>3, <3>1, <3>2 DEF WayIsFree, Staging
    <3> QED
      BY <3>3, <3>4, <3>5 DEF InstallInv
<1>2. CASE PrepareManagedRoot(i)
  <2>1. UNCHANGED <<rootDir, stateFile, rootBackup, stateBackup, attempts, durable>> /\ AtStep(i, "inspect")
    BY <1>2 DEF PrepareManagedRoot
  <2>2. installer[i].id \notin durable
    BY <2>1 DEF InstallInv, WayIsFree
  <2>3. CASE ~StateExists /\ rootDir.has \in {{"absent"}, {}} /\ GoTo(i, "mkdir")
    <3>1. rootDir.by = 0 /\ stateFile = NoState
      BY <2>3 DEF InstallInv, RootsAreMade, StateExists
    <3> QED
      BY <2>1, <2>2, <2>3, <3>1, GoingKeeps
         DEF InstallInv, FilesTyped, RootsAreMade, InstallationKept, Staging, InstallSteps
  <2>4. CASE StateExists /\ rootDir = NoRoot /\ Quarantine(i, "orphan", FALSE, "mkdir")
    BY <2>1, <2>2, <2>4, QuarantineKeeps DEF Reasons, NoRoot
  <2>5. CASE \E reason \in {"trust", "stale", "interrupted"} : Quarantine(i, reason, TRUE, "mkdir")
    BY <2>1, <2>2, <2>5, QuarantineKeeps DEF Reasons
  <2>6. CASE \E result \in {"update_instead", "already_installed", "unrecognized"} : Stop(i, result)
    BY <2>1, <2>6, StoppedKeeps DEF Results
  <2> QED
    BY <1>2, <2>3, <2>4, <2>5, <2>6 DEF PrepareManagedRoot
<1>3. CASE PrepareRecoveryRecord(i)
  <2>1. UNCHANGED <<rootDir, stateFile, rootBackup, stateBackup, attempts, durable>> /\ AtStep(i, "record")
    BY <1>3 DEF PrepareRecoveryRecord
  <2>2. CASE GoTo(i, "state")
    BY <2>1, <2>2, GoingKeeps DEF InstallInv, FilesTyped, RootsAreMade, InstallationKept, WayIsFree, Staging, InstallSteps
  <2>3. CASE Stop(i, "preserved")
    BY <2>1, <2>3, StoppedKeeps DEF Results
  <2> QED
    BY <1>3, <2>2, <2>3 DEF PrepareRecoveryRecord
<1>4. CASE CompleteRecovery(i)
  <2>1. UNCHANGED <<rootDir, stateFile, rootBackup, stateBackup, attempts, durable>> /\ AtStep(i, "complete")
    BY <1>4 DEF CompleteRecovery
  <2>2. CASE Stop(i, "quarantined")
    BY <2>1, <2>2, StoppedKeeps DEF Results
  <2>3. CASE installer[i].then # "idle" /\ GoTo(i, installer[i].then)
    <3>1. installer[i].then = "mkdir"
      BY <2>3 DEF InstallInv, CallsTyped, InstallerCall
    <3> QED
      BY <2>1, <2>3, <3>1, GoingKeeps DEF InstallInv, FilesTyped, RootsAreMade, InstallationKept, WayIsFree, Staging, InstallSteps
  <2> QED
    BY <1>4, <2>2, <2>3 DEF CompleteRecovery
<1>5. CASE Diagnose(i)
  BY <1>5, StoppedKeeps, QuarantineKeeps DEF Diagnose, Results, Reasons
<1>6. CASE InstallerCrash(i)
  BY <1>6, StoppedKeeps DEF InstallerCrash, Results
<1> QED
  BY <1>1, <1>2, <1>3, <1>4, <1>5, <1>6

\* The steps that move state and root into the recovery of the plan.
LEMMA MovingKeeps ==
  ASSUME SoleInstaller, InstallInv, NEW i \in Installer, MoveState(i) \/ MoveRoot(i)
  PROVE  InstallInv'
<1> USE DEF AtStep
<1>1. CASE MoveState(i)
  <2> DEFINE next == IF installer[i].root THEN "root" ELSE "complete"
             p == installer[i].plan
  <2>1. /\ UNCHANGED <<rootDir, rootBackup, attempts, durable>> /\ AtStep(i, "state")
        /\ p \in InstallPlan /\ next \in {"root", "complete"} /\ installer[i].root \in BOOLEAN
        /\ installer[i].then = "mkdir" => installer[i].id \notin durable /\ (~installer[i].root => rootDir.by = 0)
    BY <1>1 DEF MoveState, InstallInv, CallsTyped, WayIsFree, InstallerCall
  <2>2. next = "complete" => ~installer[i].root
    BY <2>1
  <2>3. CASE ~StateExists /\ GoTo(i, next) /\ UNCHANGED <<stateFile, stateBackup>>
    BY <2>1, <2>2, <2>3, GoingKeeps
       DEF InstallInv, FilesTyped, RootsAreMade, InstallationKept, StateExists, Staging, InstallSteps
  <2>4. CASE /\ StateExists /\ StateMovable(p) /\ GoTo(i, next)
             /\ stateBackup' = [stateBackup EXCEPT ![p] = stateFile] /\ stateFile' = NoState
    <3>1. FilesTyped'
      BY <2>1, <2>4 DEF InstallInv, FilesTyped, NoState, InstallState, Root
    <3>2. InstallationKept'
      BY <2>1, <2>4 DEF InstallInv, FilesTyped, InstallationKept, StateMovable, NoState
    <3> QED
      BY <2>1, <2>2, <2>4, <3>1, <3>2, GoingKeeps DEF InstallInv, RootsAreMade, Staging, InstallSteps
  <2>5. CASE Stop(i, "preserved") /\ UNCHANGED <<stateFile, stateBackup>>
    BY <2>1, <2>5, StoppedKeeps DEF Results
  <2> QED
    BY <1>1, <2>3, <2>4, <2>5 DEF MoveState
<1>2. CASE MoveRoot(i)
  <2> DEFINE p == installer[i].plan
  <2>1. /\ UNCHANGED <<stateFile, stateBackup, attempts, durable>> /\ AtStep(i, "root") /\ p \in InstallPlan
        /\ installer[i].then = "mkdir" => installer[i].id \notin durable /\ stateFile = NoState
    BY <1>2 DEF MoveRoot, InstallInv, CallsTyped, WayIsFree
  <2>2. CASE rootDir = NoRoot /\ GoTo(i, "complete") /\ UNCHANGED <<rootDir, rootBackup>>
    BY <2>1, <2>2, GoingKeeps DEF InstallInv, FilesTyped, RootsAreMade, InstallationKept, NoRoot, Staging, InstallSteps
  <2>3. CASE /\ rootDir # NoRoot /\ RootMovable(p) /\ GoTo(i, "complete")
             /\ rootBackup' = [rootBackup EXCEPT ![p] = rootDir] /\ rootDir' = NoRoot
    <3>1. FilesTyped'
      BY <2>1, <2>3 DEF InstallInv, FilesTyped, NoRoot, Root
    <3>2. InstallationKept'
      BY <2>1, <2>3 DEF InstallInv, FilesTyped, InstallationKept, RootMovable, NoRoot
    <3>3. RootsAreMade' /\ rootDir'.by = 0
      BY <2>3 DEF RootsAreMade, NoRoot
    <3> QED
      BY <2>1, <2>3, <3>1, <3>2, <3>3, GoingKeeps DEF Staging, InstallSteps
  <2>4. CASE Stop(i, "preserved") /\ UNCHANGED <<rootDir, rootBackup>>
    BY <2>1, <2>4, StoppedKeeps DEF Results
  <2> QED
    BY <1>2, <2>2, <2>3, <2>4 DEF MoveRoot
<1> QED
  BY <1>1, <1>2

\* What a staging step or a clean-up makes of the root: nothing durable is lost.
LEMMA RootKept ==
  ASSUME InstallInv, NEW i \in Installer, installer[i].at \in {"mkdir"} \cup Staging,
         UNCHANGED <<stateFile, rootBackup, stateBackup, attempts, durable>>
  PROVE  /\ \A entries \in SUBSET Owned : "trust" \in entries \/ installer[i].at # "mkdir" =>
              (rootDir' = With(entries, i) => FilesTyped' /\ RootsAreMade' /\ InstallationKept' /\ rootDir'.by = installer[i].id)
         /\ rootDir' = NoRoot => FilesTyped' /\ RootsAreMade' /\ InstallationKept'
<1>1. /\ installer[i].id \notin durable /\ 0 \notin durable /\ installer[i].id \in Nat /\ installer[i].id # 0
      /\ IF installer[i].at = "mkdir" THEN rootDir.by = 0 ELSE rootDir.by = installer[i].id
  BY DEF InstallInv, FilesTyped, CallsTyped, WayIsFree, AtStep, Staging
<1>2. \A a \in durable : \E p \in InstallPlan : rootBackup[p].by = a
  BY <1>1 DEF InstallInv, InstallationKept
<1>3. ASSUME NEW entries \in SUBSET Owned, "trust" \in entries \/ installer[i].at # "mkdir", rootDir' = With(entries, i)
      PROVE  FilesTyped' /\ RootsAreMade' /\ InstallationKept' /\ rootDir'.by = installer[i].id
  <2>1. rootDir' \in Root /\ rootDir'.by = installer[i].id
    BY <1>1, <1>3 DEF With, InstallInv, FilesTyped, Root, NoRoot
  <2>2. "trust" \in rootDir'.has
    BY <1>1, <1>3 DEF With, InstallInv, FilesTyped, RootsAreMade, Root, NoRoot
  <2> QED
    BY <1>2, <2>1, <2>2 DEF InstallInv, FilesTyped, RootsAreMade, InstallationKept
<1>4. ASSUME rootDir' = NoRoot PROVE FilesTyped' /\ RootsAreMade' /\ InstallationKept'
  <2>1. NoRoot \in Root /\ NoRoot.by = 0
    BY DEF NoRoot, Root
  <2> QED
    BY <1>2, <1>4, <2>1 DEF InstallInv, FilesTyped, RootsAreMade, InstallationKept
<1> QED
  BY <1>3, <1>4

\* A clean-up removes a root that no durable installation needs.
LEMMA CleanupKeeps ==
  ASSUME SoleInstaller, InstallInv, NEW i \in Installer, installer[i].at \in Staging, Cleanup(i),
         UNCHANGED <<stateFile, rootBackup, stateBackup, attempts, durable>>
  PROVE  InstallInv'
<1>1. FilesTyped' /\ RootsAreMade' /\ InstallationKept'
  BY RootKept DEF Cleanup
<1>2. /\ installer' \in [Installer -> InstallerCall]
      /\ \A j \in Installer : j = i /\ installer'[j].at = "idle"
  BY Stops DEF Cleanup, Results, InstallInv, CallsTyped
<1> QED
  BY <1>1, <1>2 DEF InstallInv, CallsTyped, WayIsFree, AtStep, Staging

\* A staging step that adds to the root goes on with a root of its own.
LEMMA StagingKeeps ==
  ASSUME SoleInstaller, InstallInv, NEW i \in Installer, installer[i].at \in {"mkdir"} \cup Staging,
         NEW entries \in SUBSET Owned, "trust" \in entries \/ installer[i].at # "mkdir",
         rootDir' = With(entries, i), NEW step \in Staging, GoTo(i, step),
         UNCHANGED <<stateFile, rootBackup, stateBackup, attempts, durable>>
  PROVE  InstallInv'
<1>1. FilesTyped' /\ RootsAreMade' /\ InstallationKept' /\ rootDir'.by = installer[i].id
  BY RootKept
<1>2. installer[i].id \notin durable /\ stateFile = NoState /\ installer[i].at # "idle"
  BY DEF InstallInv, WayIsFree, Staging
<1>3. step \in InstallSteps /\ step \notin {"mkdir", "diagnose", "inspect", "record", "state", "root", "complete"}
  BY DEF Staging, InstallSteps
<1> QED
  BY <1>1, <1>2, <1>3, GoingKeeps DEF AtStep

\* The steps that stage the root and run the bootstrapper.
LEMMA BootstrappingKeeps ==
  ASSUME SoleInstaller, InstallInv, NEW i \in Installer,
         \/ MkdirTrust(i) \/ CopyRegistry(i) \/ CopyBootstrapper(i) \/ VerifyStaged(i)
         \/ BootstrapFill(i) \/ BootstrapState(i) \/ BootstrapFails(i)
  PROVE  InstallInv'
<1> USE DEF AtStep
<1>1. CASE MkdirTrust(i)
  BY <1>1, StagingKeeps DEF MkdirTrust, Staging, Owned
<1>2. CASE CopyRegistry(i)
  <2>1. CASE rootDir' = With({"registry"} \cup {"trust"}, i) /\ GoTo(i, "bootstrapper")
    BY <1>2, <2>1, StagingKeeps DEF CopyRegistry, CopyRegular, Staging, Owned
  <2>2. CASE Cleanup(i)
    BY <1>2, <2>2, CleanupKeeps DEF CopyRegistry, CopyRegular, Staging
  <2> QED
    BY <1>2, <2>1, <2>2 DEF CopyRegistry, CopyRegular
<1>3. CASE CopyBootstrapper(i)
  <2>1. CASE rootDir' = With({"bootstrapper"} \cup {}, i) /\ GoTo(i, "verify")
    BY <1>3, <2>1, StagingKeeps DEF CopyBootstrapper, CopyRegular, Staging, Owned
  <2>2. CASE Cleanup(i)
    BY <1>3, <2>2, CleanupKeeps DEF CopyBootstrapper, CopyRegular, Staging
  <2> QED
    BY <1>3, <2>1, <2>2 DEF CopyBootstrapper, CopyRegular
<1>4. CASE VerifyStaged(i)
  <2>1. CASE GoTo(i, "fill") /\ UNCHANGED rootDir
    BY <1>4, <2>1, GoingKeeps
       DEF VerifyStaged, InstallInv, FilesTyped, RootsAreMade, InstallationKept, WayIsFree, Staging, InstallSteps
  <2>2. CASE Cleanup(i)
    BY <1>4, <2>2, CleanupKeeps DEF VerifyStaged, Staging
  <2> QED
    BY <1>4, <2>1, <2>2 DEF VerifyStaged
<1>5. CASE BootstrapFill(i)
  BY <1>5, StagingKeeps DEF BootstrapFill, Staging, Owned
<1>6. CASE BootstrapState(i)
  <2>1. /\ rootDir.by = installer[i].id /\ stateFile = NoState /\ installer[i].id \in 1..attempts
        /\ installer[i].plan \in InstallPlan
    BY <1>6 DEF BootstrapState, InstallInv, CallsTyped, WayIsFree, Staging
  <2>2. /\ stateFile' = [by |-> rootDir.by, plan |-> installer[i].plan] /\ durable' = durable \cup {rootDir.by}
        /\ UNCHANGED <<rootDir, rootBackup, stateBackup, attempts>>
    BY <1>6 DEF BootstrapState
  <2>3. stateFile' \in InstallState /\ stateFile'.by = rootDir.by /\ stateFile' # NoState
    BY <2>1, <2>2 DEF InstallInv, FilesTyped, InstallState, NoState
  <2>4. FilesTyped' /\ RootsAreMade'
    BY <2>1, <2>2, <2>3 DEF InstallInv, FilesTyped, RootsAreMade
  <2>5. InstallationKept'
    <3>1. NoState.by = 0 /\ 0 \notin durable
      BY DEF InstallInv, FilesTyped, NoState
    <3> QED
      BY <2>1, <2>2, <2>3, <3>1 DEF InstallInv, InstallationKept
  <2> QED
    BY <1>6, <2>2, <2>3, <2>4, <2>5, GoingKeeps DEF BootstrapState, Staging, InstallSteps
<1>7. CASE BootstrapFails(i)
  <2>1. CASE ~StateExists /\ Cleanup(i)
    <3>1. installer[i].at \in Staging
      BY <1>7, <2>1 DEF BootstrapFails, InstallInv, WayIsFree, Staging, StateExists
    <3> QED
      BY <1>7, <2>1, <3>1, CleanupKeeps DEF BootstrapFails
  <2>2. CASE Quarantine(i, "bootstrapper", TRUE, "idle") /\ UNCHANGED rootDir
    BY <1>7, <2>2, QuarantineKeeps DEF BootstrapFails, Reasons
  <2> QED
    BY <1>7, <2>1, <2>2 DEF BootstrapFails, MayRemove
<1> QED
  BY <1>1, <1>2, <1>3, <1>4, <1>5, <1>6, <1>7

\* Whatever fails, stops and is tried again, one installer at a time: an installation
\* whose state was written is in place or in a recovery.  For any plans, attempts and
\* crashes.
THEOREM FirstInstallKept == ASSUME SoleInstaller PROVE InstallSpec => []InstallationKept
<1>1. InstallInit => InstallInv
  <2> SUFFICES ASSUME InstallInit PROVE InstallInv
    OBVIOUS
  <2>1. FilesTyped /\ CallsTyped
    BY DEF InstallInit, FilesTyped, CallsTyped, Root, InstallState, InstallerCall, InstallSteps, Reasons, Results, Resting,
                NoRoot, NoState, Owned, AtStep
  <2>2. RootsAreMade /\ WayIsFree /\ InstallationKept
    BY DEF InstallInit, RootsAreMade, WayIsFree, InstallationKept, Staging, AtStep, Resting, NoRoot
  <2> QED
    BY <2>1, <2>2 DEF InstallInv
<1>2. InstallInv /\ [InstallNext]_installVars => InstallInv'
  <2> SUFFICES ASSUME InstallInv, [InstallNext]_installVars PROVE InstallInv'
    OBVIOUS
  <2>1. CASE UNCHANGED installVars
    BY <2>1 DEF installVars, InstallInv, FilesTyped, CallsTyped, RootsAreMade, WayIsFree, InstallationKept, AtStep
  <2> QED
    BY <2>1, PreparingKeeps, MovingKeeps, BootstrappingKeeps DEF InstallNext
<1>3. InstallInv => InstallationKept
  BY DEF InstallInv
<1> QED
  BY <1>1, <1>2, <1>3, PTL DEF InstallSpec

-----------------------------------------------------------------------------
(***************************************************************************)
(* LaunchAgent.  Only writing the plist can part it from a loaded service; *)
(* Install writes it when nothing is loaded or when its status went        *)
(* unanswered, and in the latter case launchd refuses the bootstrap, and   *)
(* the roll back removes the plist again.                                  *)
(***************************************************************************)
Matches == loaded = "none" \/ plist = "none" \/ loaded = plist
FileSteps == {"set_disabled", "clear_disabled", "unlink"}
TameSteps == FileSteps \cup Command
FromDisable == <<"disable", "bootout", "write", "enable", "bootstrap", "kickstart">>
FromBootout == <<"bootout", "write", "enable", "bootstrap", "kickstart">>
FromWrite == <<"write", "enable", "bootstrap", "kickstart">>
FromEnable == <<"enable", "bootstrap", "kickstart">>
FromBootstrap == <<"bootstrap", "kickstart">>
FromKickstart == <<"kickstart">>
FromUnlink == <<"unlink">>
FromUndo == <<"undo_bootout", "unlink">>
OnlyWrite == <<"write">>
Nothing == << >>
InstallTodos == {FromDisable, FromBootout, FromWrite, FromEnable, FromBootstrap, FromKickstart, FromUnlink, FromUndo}
LaunchTyped ==
  /\ native \in BOOLEAN /\ launchFaults \in Nat
  /\ \/ launchCaller = NoCall
     \/ /\ launchCaller \in [op : {"install"}, todo : InstallTodos \cup {OnlyWrite}, program : Program]
        /\ ~native <=> launchCaller.todo = OnlyWrite
     \/ /\ launchCaller \in [op : {"pause", "resume", "uninstall"}, todo : Seq(TameSteps), program : {"none"}]
        /\ ~native => launchCaller.todo \in Seq(FileSteps)
  /\ ~native => loaded = "none"
WritesWithCare ==
  /\ launchCaller.todo = FromWrite => loaded = "none" \/ launchFaults > 0
  /\ \/ Matches
     \/ /\ launchFaults > 0 /\ launchCaller.op = "install"
        /\ launchCaller.todo \in {FromEnable, FromBootstrap, FromUnlink}
LaunchCareful == LaunchTyped /\ WritesWithCare

\* The lists of an installation, from their first steps.
LEMMA InstallTails ==
  /\ Head(FromDisable) = "disable" /\ Tail(FromDisable) = FromBootout
  /\ Head(FromBootout) = "bootout" /\ Tail(FromBootout) = FromWrite
  /\ Head(FromWrite) = "write" /\ Tail(FromWrite) = FromEnable
  /\ Head(FromEnable) = "enable" /\ Tail(FromEnable) = FromBootstrap
  /\ Head(FromBootstrap) = "bootstrap" /\ Tail(FromBootstrap) = FromKickstart
  /\ Head(FromUndo) = "undo_bootout" /\ Tail(FromUndo) = FromUnlink
  /\ Head(FromKickstart) = "kickstart" /\ Tail(FromKickstart) = Nothing
  /\ Head(FromUnlink) = "unlink" /\ Tail(FromUnlink) = Nothing
<1>1. Head(FromDisable) = "disable" /\ Tail(FromDisable) = FromBootout
  BY DEF FromDisable, FromBootout
<1>2. Head(FromBootout) = "bootout" /\ Tail(FromBootout) = FromWrite
  BY DEF FromBootout, FromWrite
<1>3. Head(FromWrite) = "write" /\ Tail(FromWrite) = FromEnable
  BY DEF FromWrite, FromEnable
<1>4. Head(FromEnable) = "enable" /\ Tail(FromEnable) = FromBootstrap
  BY DEF FromEnable, FromBootstrap
<1>5. Head(FromBootstrap) = "bootstrap" /\ Tail(FromBootstrap) = FromKickstart
  BY DEF FromBootstrap, FromKickstart
<1>6. Head(FromUndo) = "undo_bootout" /\ Tail(FromUndo) = FromUnlink
  BY DEF FromUndo, FromUnlink
<1>7. Head(FromKickstart) = "kickstart" /\ Tail(FromKickstart) = Nothing
  BY DEF FromKickstart, Nothing
<1>8. Head(FromUnlink) = "unlink" /\ Tail(FromUnlink) = Nothing
  BY DEF FromUnlink, Nothing
<1> QED
  BY <1>1, <1>2, <1>3, <1>4, <1>5, <1>6, <1>7, <1>8

\* They differ from each other.
LEMMA InstallTodosDiffer ==
  /\ FromWrite \notin {FromDisable, FromBootout, FromEnable, FromBootstrap, FromKickstart, FromUnlink, FromUndo, OnlyWrite, Nothing}
  /\ OnlyWrite \notin InstallTodos
  /\ Nothing \notin InstallTodos
<1>1. /\ Len(FromDisable) = 6 /\ Len(FromBootout) = 5 /\ Len(FromWrite) = 4 /\ Len(FromEnable) = 3
      /\ Len(FromBootstrap) = 2
  BY DEF FromDisable, FromBootout, FromWrite, FromEnable, FromBootstrap
<1>2. Len(FromKickstart) = 1 /\ Len(FromUnlink) = 1 /\ Len(OnlyWrite) = 1 /\ Len(FromUndo) = 2 /\ Len(Nothing) = 0
  BY DEF OnlyWrite, FromKickstart, FromUnlink, FromUndo, Nothing
<1>3. OnlyWrite # FromKickstart /\ OnlyWrite # FromUnlink
  BY DEF OnlyWrite, FromKickstart, FromUnlink
<1> QED
  <2>0. 4 # 6 /\ 4 # 5 /\ 4 # 3 /\ 4 # 2 /\ 4 # 1 /\ 4 # 0 /\ 1 # 6 /\ 1 # 5 /\ 1 # 3 /\ 1 # 2
    OBVIOUS
  <2>1. /\ FromWrite # FromDisable /\ FromWrite # FromBootout /\ FromWrite # FromEnable /\ FromWrite # FromBootstrap
        /\ FromWrite # FromKickstart /\ FromWrite # FromUnlink /\ FromWrite # FromUndo /\ FromWrite # OnlyWrite
        /\ FromWrite # Nothing
    BY <1>1, <1>2, <2>0, Zenon
  <2>2. /\ OnlyWrite # FromDisable /\ OnlyWrite # FromBootout /\ OnlyWrite # FromEnable /\ OnlyWrite # FromBootstrap
        /\ OnlyWrite # FromUndo
    BY <1>1, <1>2, <2>0, Zenon
  <2>3. /\ Nothing # FromDisable /\ Nothing # FromBootout /\ Nothing # FromWrite /\ Nothing # FromEnable
        /\ Nothing # FromBootstrap /\ Nothing # FromKickstart /\ Nothing # FromUnlink /\ Nothing # FromUndo
    BY <1>1, <1>2
  <2> QED
    BY <1>3, <2>1, <2>2, <2>3 DEF InstallTodos

\* What the calls other than Install mean to do changes no program, and without
\* the native commands only the file.
LEMMA TameTodos ==
  ASSUME native \in BOOLEAN, NEW found \in {"loaded", "orphan_loaded", "file_present", "not_present"}
  PROVE  /\ PauseTodo(found) \in Seq(TameSteps) /\ ResumeTodo(found) \in Seq(TameSteps) /\ UninstallTodo(found) \in Seq(TameSteps)
         /\ ~native /\ found \notin {"loaded", "orphan_loaded"} =>
              /\ PauseTodo(found) \in Seq(FileSteps) /\ ResumeTodo(found) \in Seq(FileSteps)
              /\ UninstallTodo(found) \in Seq(FileSteps)
<1>1. \A S : \A s, t \in Seq(S) : s \o t \in Seq(S)
  OBVIOUS
<1>2. /\ << >> \in Seq(FileSteps) /\ <<"set_disabled">> \in Seq(FileSteps) /\ <<"clear_disabled">> \in Seq(FileSteps)
      /\ <<"unlink">> \in Seq(FileSteps)
  BY DEF FileSteps
<1>3. /\ << >> \in Seq(TameSteps) /\ <<"set_disabled">> \in Seq(TameSteps) /\ <<"clear_disabled">> \in Seq(TameSteps)
      /\ <<"unlink">> \in Seq(TameSteps) /\ <<"disable">> \in Seq(TameSteps) /\ <<"bootstrap">> \in Seq(TameSteps)
      /\ <<"kickstart">> \in Seq(TameSteps)
  BY DEF TameSteps, FileSteps, Command
<1>4. RemoveNative \in Seq(TameSteps)
  BY DEF RemoveNative, TameSteps, FileSteps, Command
<1>5. <<"clear_disabled", "enable">> \in Seq(TameSteps)
  BY DEF TameSteps, FileSteps, Command
<1>6. PauseTodo(found) \in Seq(TameSteps)
  BY <1>1, <1>3, <1>4 DEF PauseTodo
<1>7. ResumeTodo(found) \in Seq(TameSteps)
  BY <1>1, <1>3, <1>5 DEF ResumeTodo
<1>8. UninstallTodo(found) \in Seq(TameSteps)
  BY <1>1, <1>3, <1>4 DEF UninstallTodo
<1>9. ASSUME ~native, found \notin {"loaded", "orphan_loaded"}
      PROVE  PauseTodo(found) \in Seq(FileSteps) /\ ResumeTodo(found) \in Seq(FileSteps) /\ UninstallTodo(found) \in Seq(FileSteps)
  BY <1>1, <1>2, <1>9 DEF PauseTodo, ResumeTodo, UninstallTodo
<1> QED
  BY <1>6, <1>7, <1>8, <1>9

\* A new call keeps the invariant, whatever it was told of the service.
LEMMA CallKeepsCare ==
  ASSUME LaunchCareful, Pause \/ Resume \/ Uninstall \/ \E p \in Program : Install(p)
  PROVE  LaunchCareful'
<1> USE DEF LaunchCareful, LaunchTyped, WritesWithCare, Matches, NoCall
<1>1. ASSUME NEW p \in Program, Call("install", p) PROVE LaunchCareful'
  <2>1. PICK seen \in {loaded} \cup (IF native /\ launchFaults < MaxLaunchFaults THEN {"none"} ELSE {}) :
          /\ launchFaults' = IF seen = loaded THEN launchFaults ELSE launchFaults + 1
          /\ launchCaller' = IF Todo("install", StateOf(seen)) = << >> THEN NoCall
                             ELSE [op |-> "install", todo |-> Todo("install", StateOf(seen)), program |-> p]
    BY <1>1 DEF Call
  <2>2. UNCHANGED <<native, plist, loaded>> /\ launchCaller = NoCall /\ Matches
    BY <1>1 DEF Call
  <2>3. \/ Todo("install", StateOf(seen)) = << >>
        \/ native /\ Todo("install", StateOf(seen)) = FromDisable
        \/ native /\ seen = "none" /\ Todo("install", StateOf(seen)) = FromWrite
        \/ ~native /\ Todo("install", StateOf(seen)) = OnlyWrite
    BY DEF Todo, InstallTodo, BootsOut, StateOf, FromDisable, FromWrite, OnlyWrite
  <2> QED
    BY <2>1, <2>2, <2>3, InstallTodosDiffer DEF InstallTodos, Nothing
<1>2. ASSUME NEW op \in {"pause", "resume", "uninstall"}, Call(op, "none") PROVE LaunchCareful'
  <2>1. PICK seen \in {loaded} \cup (IF native /\ launchFaults < MaxLaunchFaults THEN {"none"} ELSE {}) :
          /\ launchFaults' = IF seen = loaded THEN launchFaults ELSE launchFaults + 1
          /\ launchCaller' = IF Todo(op, StateOf(seen)) = << >> THEN NoCall
                             ELSE [op |-> op, todo |-> Todo(op, StateOf(seen)), program |-> "none"]
    BY <1>2 DEF Call
  <2>2. UNCHANGED <<native, plist, loaded>> /\ launchCaller = NoCall /\ Matches
    BY <1>2 DEF Call
  <2>3. /\ StateOf(seen) \in {"loaded_identity_mismatch", "loaded", "orphan_loaded", "file_present", "not_present"}
        /\ ~native => StateOf(seen) \notin {"loaded", "orphan_loaded"}
    BY DEF StateOf
  <2>4. Todo(op, StateOf(seen)) \in Seq(TameSteps) /\ (~native => Todo(op, StateOf(seen)) \in Seq(FileSteps))
    BY <2>3, TameTodos DEF Todo
  <2>5. FromWrite \notin Seq(TameSteps)
    BY DEF FromWrite, TameSteps, FileSteps, Command
  <2> QED
    BY <2>1, <2>2, <2>4, <2>5
<1> QED
  BY <1>1, <1>2 DEF Install, Pause, Resume, Uninstall

\* The state of no call.
LEMMA NothingToDo == NoCall.todo = Nothing /\ NoCall.op = "none" /\ << >> = Nothing
  BY DEF NoCall, Nothing

\* A step of a list, done or failed, keeps it in its kind.
LEMMA RestKeepsCare ==
  ASSUME LaunchTyped, launchCaller # NoCall, UNCHANGED native, launchFaults' \in Nat, NEW todo, launchCaller' = Rest(todo),
         ~native => loaded' = "none",
         launchCaller.op = "install" => todo = Nothing \/ (native /\ todo \in InstallTodos),
         launchCaller.op # "install" => todo \in Seq(TameSteps) /\ (~native => todo \in Seq(FileSteps))
  PROVE  /\ LaunchTyped'
         /\ IF todo = Nothing THEN launchCaller' = NoCall
            ELSE launchCaller'.op = launchCaller.op /\ launchCaller'.todo = todo
  BY InstallTodosDiffer, NothingToDo DEF LaunchTyped, Rest

\* What a step does to the program in the plist and to that of the service.
LEMMA EffectOf ==
  ASSUME NEW step, Effect(step)
  PROVE  /\ step = "write" => plist' = launchCaller.program /\ loaded' = loaded
         /\ step = "unlink" => plist' = "none" /\ loaded' = loaded
         /\ step \in {"bootout", "undo_bootout"} => plist' = plist /\ loaded' = "none"
         /\ step = "bootstrap" => plist' = plist /\ loaded' = plist
         /\ step \notin {"write", "unlink", "bootout", "undo_bootout", "bootstrap"} => plist' = plist /\ loaded' = loaded
  BY DEF Effect, File, WritePlist, UnlinkPlist, SetDisabled
\* What the state of a call tells of the state after it.
LEMMA CareAfter ==
  ASSUME NEW o, NEW t, launchCaller'.op = o, launchCaller'.todo = t,
         t = FromWrite => loaded' = "none" \/ launchFaults' > 0,
         Matches' \/ (launchFaults' > 0 /\ o = "install" /\ t \in {FromEnable, FromBootstrap, FromUnlink})
  PROVE  WritesWithCare'
  BY DEF WritesWithCare

\* A step of an installation that has its effect.
LEMMA InstallStepKeepsCare ==
  ASSUME LaunchCareful, launchCaller # NoCall, launchCaller.op = "install", StepDone
  PROVE  LaunchCareful'
<1> DEFINE todo == launchCaller.todo
           step == Head(todo)
<1>1. /\ todo \in InstallTodos \cup {OnlyWrite} /\ (~native <=> todo = OnlyWrite) /\ launchFaults \in Nat
      /\ ~native => loaded = "none"
  BY DEF LaunchCareful, LaunchTyped, NoCall
<1>2. /\ Works(step) /\ Effect(step) /\ launchCaller' = Rest(Tail(todo)) /\ native' = native
      /\ launchFaults' = launchFaults
  BY DEF StepDone
<1>3. Tail(todo) = Nothing \/ (native /\ Tail(todo) \in InstallTodos)
  <2>1. Tail(OnlyWrite) = Nothing
    BY DEF OnlyWrite, Nothing
  <2> QED
    BY <1>1, <2>1, InstallTails, InstallTodosDiffer DEF InstallTodos
<1>4. Head(OnlyWrite) = "write"
  BY DEF OnlyWrite
<1>5. ~native => loaded' = "none"
  BY <1>1, <1>2, <1>4, EffectOf
<1>6. /\ LaunchTyped'
      /\ IF Tail(todo) = Nothing THEN launchCaller' = NoCall
         ELSE launchCaller'.op = "install" /\ launchCaller'.todo = Tail(todo)
  BY <1>1, <1>2, <1>3, <1>5, RestKeepsCare DEF LaunchCareful
<1>7. PICK o : launchCaller'.op = o /\ launchCaller'.todo = Tail(todo) /\ (Tail(todo) # Nothing => o = "install")
  BY <1>6, NothingToDo
<1>8. /\ todo = FromWrite => loaded = "none" \/ launchFaults > 0
      /\ Matches \/ (launchFaults > 0 /\ todo \in {FromEnable, FromBootstrap, FromUnlink})
  BY DEF LaunchCareful, WritesWithCare
<1> HIDE DEF todo, step
<1>9. /\ Tail(todo) = FromWrite => loaded' = "none" \/ launchFaults' > 0
      /\ Matches' \/ (launchFaults' > 0 /\ o = "install" /\ Tail(todo) \in {FromEnable, FromBootstrap, FromUnlink})
  <2>1. CASE todo = OnlyWrite
    BY <1>1, <1>3, <1>5, <2>1, InstallTodosDiffer DEF Matches
  <2>2. CASE todo = FromDisable
    BY <1>2, <1>8, <2>2, InstallTails, InstallTodosDiffer, EffectOf DEF Matches, step
  <2>3. CASE todo = FromBootout
    BY <1>2, <1>8, <2>3, InstallTails, InstallTodosDiffer, EffectOf DEF Matches, step
  <2>4. CASE todo = FromWrite
    BY <1>2, <1>7, <1>8, <2>4, InstallTails, InstallTodosDiffer, EffectOf DEF Matches, step, InstallTodos
  <2>5. CASE todo = FromEnable
    BY <1>2, <1>7, <1>8, <2>5, InstallTails, InstallTodosDiffer, EffectOf DEF Matches, step, InstallTodos
  <2>6. CASE todo = FromBootstrap
    BY <1>2, <1>8, <2>6, InstallTails, InstallTodosDiffer, EffectOf DEF Matches, step
  <2>7. CASE todo = FromKickstart
    BY <1>2, <1>8, <2>7, InstallTails, InstallTodosDiffer, EffectOf DEF Matches, step
  <2>8. CASE todo = FromUnlink
    BY <1>2, <1>8, <2>8, InstallTails, InstallTodosDiffer, EffectOf DEF Matches, step
  <2>9. CASE todo = FromUndo
    BY <1>2, <1>8, <2>9, InstallTails, InstallTodosDiffer, EffectOf DEF Matches, step
  <2> QED
    BY <1>1, <2>1, <2>2, <2>3, <2>4, <2>5, <2>6, <2>7, <2>8, <2>9 DEF InstallTodos
<1> QED
  BY <1>6, <1>7, <1>9, CareAfter DEF LaunchCareful

\* A command of an installation that fails, with or without its effect.
LEMMA InstallFailureKeepsCare ==
  ASSUME LaunchCareful, launchCaller # NoCall, launchCaller.op = "install", StepFails
  PROVE  LaunchCareful'
<1> DEFINE todo == launchCaller.todo
           step == Head(todo)
           after == AfterFailure(step)
<1>1. /\ todo \in InstallTodos \cup {OnlyWrite} /\ (~native <=> todo = OnlyWrite) /\ launchFaults \in Nat
      /\ ~native => loaded = "none"
  BY DEF LaunchCareful, LaunchTyped, NoCall
<1>2. /\ step \in Command /\ launchCaller' = Rest(after) /\ native' = native /\ launchFaults' = launchFaults
      /\ (plist' = plist /\ loaded' = loaded) \/ Effect(step)
  BY DEF StepFails
<1>3. todo \in {FromDisable, FromBootout, FromEnable, FromBootstrap, FromKickstart, FromUndo}
  <2>1. Head(OnlyWrite) = "write"
    BY DEF OnlyWrite
  <2> QED
    BY <1>1, <1>2, <2>1, InstallTails DEF InstallTodos, Command
<1>4. /\ todo \in {FromDisable, FromBootout} => after = Nothing
      /\ todo \in {FromEnable, FromBootstrap, FromUndo} => after = FromUnlink
      /\ todo = FromKickstart => after = FromUndo
  BY InstallTails DEF AfterFailure, Nothing, FromUnlink, FromUndo
<1>5. native
  BY <1>1, <1>3, InstallTodosDiffer DEF InstallTodos
<1>6. after = Nothing \/ after \in InstallTodos
  BY <1>3, <1>4 DEF InstallTodos
<1>7. /\ LaunchTyped'
      /\ IF after = Nothing THEN launchCaller' = NoCall
         ELSE launchCaller'.op = "install" /\ launchCaller'.todo = after
  BY <1>1, <1>2, <1>5, <1>6, RestKeepsCare DEF LaunchCareful
<1>8. PICK o : launchCaller'.op = o /\ launchCaller'.todo = after /\ (after # Nothing => o = "install")
  BY <1>7, NothingToDo
<1>9. Matches \/ (launchFaults > 0 /\ todo \in {FromEnable, FromBootstrap, FromUnlink})
  BY DEF LaunchCareful, WritesWithCare
<1> HIDE DEF todo, step, after
<1>10. after # FromWrite
  BY <1>3, <1>4, InstallTodosDiffer
<1>11. Matches' \/ (launchFaults' > 0 /\ o = "install" /\ after \in {FromEnable, FromBootstrap, FromUnlink})
  <2>1. CASE todo = FromDisable
    <3>1. step = "disable" /\ todo \notin {FromEnable, FromBootstrap, FromUnlink}
      BY <2>1, InstallTails DEF step
    <3>2. plist' = plist /\ loaded' = loaded
      BY <1>2, <3>1, EffectOf
    <3> QED
      BY <1>9, <3>1, <3>2 DEF Matches
  <2>2. CASE todo = FromBootout
    BY <1>2, <1>9, <2>2, InstallTails, InstallTodosDiffer, EffectOf DEF Matches, step
  <2>3. CASE todo = FromEnable
    BY <1>2, <1>4, <1>8, <1>9, <2>3, InstallTails, InstallTodosDiffer, EffectOf DEF Matches, step, InstallTodos
  <2>4. CASE todo = FromBootstrap
    BY <1>2, <1>4, <1>8, <1>9, <2>4, InstallTails, InstallTodosDiffer, EffectOf DEF Matches, step, InstallTodos
  <2>5. CASE todo = FromKickstart
    BY <1>2, <1>9, <2>5, InstallTails, InstallTodosDiffer, EffectOf DEF Matches, step
  <2>6. CASE todo = FromUndo
    BY <1>2, <1>9, <2>6, InstallTails, InstallTodosDiffer, EffectOf DEF Matches, step
  <2> QED
    BY <1>3, <2>1, <2>2, <2>3, <2>4, <2>5, <2>6
<1> QED
  BY <1>7, <1>8, <1>10, <1>11, CareAfter DEF LaunchCareful

\* A step of another call changes no program, and at most loads what the plist names.
LEMMA TameStepKeepsCare ==
  ASSUME LaunchCareful, launchCaller # NoCall, launchCaller.op # "install", StepDone \/ StepFails
  PROVE  LaunchCareful'
<1> DEFINE todo == launchCaller.todo
           step == Head(todo)
<1>1. todo \in Seq(TameSteps) /\ (~native => todo \in Seq(FileSteps)) /\ launchFaults \in Nat /\ (~native => loaded = "none")
  BY DEF LaunchCareful, LaunchTyped, NoCall
<1>2. /\ todo # << >> /\ native' = native /\ launchFaults' = launchFaults
      /\ Effect(step) \/ (plist' = plist /\ loaded' = loaded)
  BY DEF StepDone, StepFails
<1>3. PICK rest \in {Tail(todo), << >>} : launchCaller' = Rest(rest)
  BY DEF StepDone, StepFails, AfterFailure
<1>4. /\ step \in TameSteps /\ (~native => step \in FileSteps)
      /\ rest \in Seq(TameSteps) /\ (~native => rest \in Seq(FileSteps))
  <2>1. \A S : \A t \in Seq(S) : t # << >> => Head(t) \in S /\ Tail(t) \in Seq(S)
    OBVIOUS
  <2>2. \A S : << >> \in Seq(S)
    OBVIOUS
  <2> QED
    BY <1>1, <1>2, <1>3, <2>1, <2>2
<1>5. Matches /\ FromWrite \notin Seq(TameSteps)
  BY DEF LaunchCareful, WritesWithCare, FromWrite, TameSteps, FileSteps, Command
<1> HIDE DEF todo, step
<1>6. Matches' /\ (~native => loaded' = "none")
  BY <1>1, <1>2, <1>4, <1>5, EffectOf DEF Matches, TameSteps, FileSteps, Command
<1>7. LaunchTyped' /\ (launchCaller' = NoCall \/ launchCaller'.todo = rest)
  BY <1>1, <1>2, <1>3, <1>4, <1>6, RestKeepsCare DEF LaunchCareful
<1>8. launchCaller'.todo # FromWrite
  BY <1>4, <1>5, <1>7, NothingToDo, InstallTodosDiffer
<1> QED
  BY <1>6, <1>7, <1>8, CareAfter DEF LaunchCareful

\* The macOS maintenance service: whatever commands fail, and even when one status
\* goes unanswered or one caller is killed, no call of the lifecycle leaves behind a
\* service loaded from another program than the plist names (ServiceMatchesPlist).
\* With two such faults it can: the hypothesis is the bound of the claim.
THEOREM ServiceKnown == ASSUME MaxLaunchFaults \in {0, 1} PROVE LaunchSpec => []ServiceMatchesPlist
<1>1. LaunchInit => LaunchCareful
  BY NothingToDo, InstallTodosDiffer DEF LaunchInit, LaunchCareful, LaunchTyped, WritesWithCare, Matches
<1>2. LaunchCareful /\ [LaunchNext]_launchVars => LaunchCareful'
  <2> SUFFICES ASSUME LaunchCareful, [LaunchNext]_launchVars PROVE LaunchCareful'
    OBVIOUS
  <2>1. CASE Pause \/ Resume \/ Uninstall \/ \E p \in Program : Install(p)
    BY <2>1, CallKeepsCare
  <2>2. CASE StepDone \/ StepFails
    <3>1. launchCaller # NoCall
      BY <2>2, NothingToDo DEF StepDone, StepFails
    <3> QED
      BY <2>2, <3>1, InstallStepKeepsCare, InstallFailureKeepsCare, TameStepKeepsCare
  <2>3. CASE UserLogin
    BY <2>3, NothingToDo, InstallTodosDiffer DEF UserLogin, LaunchCareful, LaunchTyped, WritesWithCare, Matches
  <2>4. CASE CallerKilled
    <3>1. launchFaults = 0 /\ launchFaults' \in Nat
      BY <2>4 DEF CallerKilled, LaunchCareful, LaunchTyped
    <3>2. UNCHANGED <<native, plist, loaded>> /\ launchCaller' = NoCall
      BY <2>4 DEF CallerKilled
    <3>3. Matches
      BY <3>1 DEF LaunchCareful, WritesWithCare
    <3> QED
      BY <3>1, <3>2, <3>3, NothingToDo, InstallTodosDiffer DEF LaunchCareful, LaunchTyped, WritesWithCare, Matches
  <2>5. CASE UNCHANGED launchVars
    BY <2>5 DEF launchVars, LaunchCareful, LaunchTyped, WritesWithCare, Matches
  <2> QED
    BY <2>1, <2>2, <2>3, <2>4, <2>5 DEF LaunchNext
<1>3. LaunchCareful => ServiceMatchesPlist
  BY NothingToDo DEF LaunchCareful, WritesWithCare, Matches, ServiceMatchesPlist
<1> QED
  BY <1>1, <1>2, <1>3, PTL DEF LaunchSpec

-----------------------------------------------------------------------------
(***************************************************************************)
(* ZipMigration.  Contents only get newer, so a tree that was planned from *)
(* one inventory and found again by a later one was there as a whole when  *)
(* the later one began.  What a run found complete stays in brain/, for a  *)
(* run links only where nothing is; and whoever says committed has seen or *)
(* written the whole receipt.                                              *)
(***************************************************************************)
ZipResult == [state : {"planned", "partial", "blocked", "rolled_back", "committed"}, attempt : Attempt \cup {NoAttempt}]
InventoryPlace ==
  [at : {"inventory"}, value : ZipResult, attempt : Attempt \cup {NoAttempt},
   goal : {"plan", "continue", "commit"}, left : Seq(Source), seen : [Source -> Int]]
WritePlace == [at : {"write"}, value : ZipResult, attempt : Attempt \cup {NoAttempt}, then : {"partial", "copy", "stop"}]
CopyPlace == [at : {"copy"}, attempt : Attempt, todo : Seq(Source)]
LinkPlace == [at : {"link"}, attempt : Attempt, todo : Seq(Source), staged : Int]
ReceiptPlace == [at : {"receipt"}, attempt : Attempt]
RunPlace == {RunStopped} \cup InventoryPlace \cup WritePlace \cup CopyPlace \cup LinkPlace \cup ReceiptPlace
ZipTyped ==
  /\ data \in [Source -> Nat] /\ brain \in [Source -> Int]
  /\ plans \in [Attempt -> [Source -> Int]] /\ receipts \in [Attempt -> {"none", "torn", "whole"}]
  /\ trees \subseteq [Source -> Nat] /\ data \in trees /\ evolved \in [Attempt -> SUBSET Source]
  /\ zipState \in ZipResult /\ run \in [Run -> RunPlace]

\* The plan of an attempt was read from data/, and what it vouches for.
PlanFits(a) == a \in Attempt /\ \A f \in Source : plans[a][f] \in Nat /\ plans[a][f] <= data[f]
Vouched(a) == plans[a] \in trees /\ \A f \in Source : brain[f] = plans[a][f] \/ f \in evolved[a]

\* The files an inventory has read; with the plan in between, the tree that was there
\* when the final inventory began.
Inventoried(w, f) == \A n \in 1..Len(w.left) : w.left[n] # f
SeenIsOlder(w) == \A f \in Source : Inventoried(w, f) => w.seen[f] \in Nat /\ w.seen[f] <= data[f]
Between(w, tree) ==
  \A f \in Source : /\ plans[w.attempt][f] <= tree[f] /\ tree[f] <= data[f]
                    /\ Inventoried(w, f) => tree[f] <= w.seen[f]
PlaceFits(w) ==
  /\ w.at # "idle" => w.attempt = NoAttempt \/ PlanFits(w.attempt)
  /\ w.at \in {"inventory", "write"} => w.value.attempt = w.attempt
  /\ w.at = "inventory" => SeenIsOlder(w) /\ (w.goal # "plan" => w.attempt # NoAttempt)
  /\ w.at = "inventory" /\ w.goal = "commit" => w.value.state = "partial" /\ \E tree \in trees : Between(w, tree)
  /\ w.at = "write" /\ w.then # "stop" => w.attempt # NoAttempt
  /\ w.at = "write" /\ w.value.state = "committed" => w.attempt # NoAttempt /\ receipts[w.attempt] = "whole"
  /\ w.at = "link" => w.todo # << >>
  /\ w.at = "receipt" => Vouched(w.attempt)
StateFits ==
  /\ zipState.attempt = NoAttempt \/ PlanFits(zipState.attempt)
  /\ zipState.state = "committed" => zipState.attempt # NoAttempt /\ receipts[zipState.attempt] = "whole"
WholeFits == \A a \in Attempt : receipts[a] = "whole" => PlanFits(a) /\ Vouched(a)
ZipInv == ZipTyped /\ StateFits /\ WholeFits /\ \A r \in Run : PlaceFits(run[r])

-----------------------------------------------------------------------------
\* What a run holds where it is.
LEMMA RunIs ==
  ASSUME NEW w \in RunPlace
  PROVE  /\ w.at = "inventory" => w \in InventoryPlace
         /\ w.at = "write" => w \in WritePlace
         /\ w.at = "copy" => w \in CopyPlace
         /\ w.at = "link" => w \in LinkPlace
         /\ w.at = "receipt" => w \in ReceiptPlace
         /\ w.at = "idle" \/ w \in InventoryPlace \/ w \in WritePlace \/ w \in CopyPlace \/ w \in LinkPlace \/ w \in ReceiptPlace
  BY DEF RunPlace, RunStopped, InventoryPlace, WritePlace, CopyPlace, LinkPlace, ReceiptPlace

\* A run past its start names an attempt that has a plan, or none yet.
LEMMA RunAttempts ==
  ASSUME NEW w \in RunPlace, PlaceFits(w), w.at # "idle"
  PROVE  /\ w.attempt \in Attempt \cup {NoAttempt} /\ (w.attempt # NoAttempt => w.attempt \in Attempt /\ PlanFits(w.attempt))
         /\ w.at \in {"copy", "link", "receipt"} => w.attempt # NoAttempt
<1>1. w.attempt \in Attempt \cup {NoAttempt}
  BY RunIs DEF InventoryPlace, WritePlace, CopyPlace, LinkPlace, ReceiptPlace
<1>2. w.at \in {"copy", "link", "receipt"} => w.attempt # NoAttempt
  BY RunIs, AttemptAssumption DEF CopyPlace, LinkPlace, ReceiptPlace
<1> QED
  BY <1>1, <1>2 DEF PlaceFits

\* What ZipInv says of one run.
LEMMA RunsFit ==
  ASSUME ZipInv, NEW r \in Run
  PROVE  run[r] \in RunPlace /\ PlaceFits(run[r])
  BY DEF ZipInv, ZipTyped

\* What no step undoes.
ZipKept ==
  /\ \A f \in Source : data[f] <= data'[f]
  /\ trees \subseteq trees'
  /\ \A a \in Attempt : PlanFits(a) =>
       /\ plans'[a] = plans[a] /\ (receipts[a] = "whole" => receipts'[a] = "whole")
       /\ Vouched(a) => Vouched(a)'

\* A place fits as long as nothing is undone.
LEMMA PlaceStays ==
  ASSUME ZipInv, ZipTyped', ZipKept, NEW w \in RunPlace, PlaceFits(w)
  PROVE  PlaceFits(w)'
<1>1. ASSUME w.at # "idle", w.attempt # NoAttempt
      PROVE  w.attempt \in Attempt /\ PlanFits(w.attempt) /\ PlanFits(w.attempt)'
  <2>1. w.attempt \in Attempt /\ PlanFits(w.attempt)
    BY <1>1, RunAttempts
  <2>2. /\ plans'[w.attempt] = plans[w.attempt] /\ data \in [Source -> Nat] /\ data' \in [Source -> Nat]
        /\ \A f \in Source : data[f] <= data'[f]
    BY <2>1 DEF ZipKept, ZipInv, ZipTyped
  <2>3. PlanFits(w.attempt)'
    BY <2>1, <2>2 DEF PlanFits
  <2> QED
    BY <2>1, <2>3
<1>2. ASSUME w.at = "inventory" PROVE SeenIsOlder(w)'
  <2>1. SeenIsOlder(w)
    BY <1>2 DEF PlaceFits
  <2>2. data \in [Source -> Nat] /\ data' \in [Source -> Nat] /\ \A f \in Source : data[f] <= data'[f]
    BY DEF ZipKept, ZipInv, ZipTyped
  <2>3. ASSUME NEW f \in Source, Inventoried(w, f)' PROVE w.seen[f] \in Nat /\ w.seen[f] <= data'[f]
    <3>1. Inventoried(w, f)
      BY <2>3 DEF Inventoried
    <3> QED
      BY <2>1, <2>2, <3>1 DEF SeenIsOlder
  <2> QED
    BY <2>3 DEF SeenIsOlder
<1>3. ASSUME w.at = "inventory", w.goal = "commit" PROVE \E tree \in trees' : Between(w, tree)'
  <2>1. PICK tree \in trees : Between(w, tree)
    BY <1>3 DEF PlaceFits
  <2>2. /\ data \in [Source -> Nat] /\ data' \in [Source -> Nat] /\ tree \in [Source -> Nat] /\ tree \in trees'
        /\ \A f \in Source : data[f] <= data'[f]
    BY DEF ZipKept, ZipInv, ZipTyped
  <2>3. w.attempt \in Attempt /\ PlanFits(w.attempt) /\ plans'[w.attempt] = plans[w.attempt]
    BY <1>1, <1>3 DEF PlaceFits, ZipKept
  <2>4. \A f \in Source : Inventoried(w, f)' <=> Inventoried(w, f)
    BY DEF Inventoried
  <2>5. Between(w, tree)'
    BY <2>1, <2>2, <2>3, <2>4 DEF Between
  <2> QED
    BY <2>2, <2>5
<1>4. /\ w.at = "write" /\ w.value.state = "committed" => receipts'[w.attempt] = "whole"
      /\ w.at = "receipt" => Vouched(w.attempt)'
  <2>1. w.at = "write" /\ w.value.state = "committed" => receipts'[w.attempt] = "whole"
    BY <1>1 DEF PlaceFits, ZipKept
  <2>2. w.at = "receipt" => Vouched(w.attempt)'
    BY <1>1, RunAttempts DEF PlaceFits, ZipKept
  <2> QED
    BY <2>1, <2>2
<1>5. w.at # "idle" => (w.attempt = NoAttempt \/ PlanFits(w.attempt)')
  BY <1>1
<1> QED
  BY <1>2, <1>3, <1>4, <1>5 DEF PlaceFits

\* One run goes to a place that fits.
LEMMA RunActs ==
  ASSUME ZipInv, NEW r \in Run, NEW w \in RunPlace, Becomes(r, w), PlaceFits(w)', ZipKept,
         data' \in [Source -> Nat], brain' \in [Source -> Int], plans' \in [Attempt -> [Source -> Int]],
         receipts' \in [Attempt -> {"none", "torn", "whole"}], evolved' \in [Attempt -> SUBSET Source],
         UNCHANGED trees, data' \in trees, zipState' \in ZipResult, StateFits', WholeFits'
  PROVE  ZipInv'
<1>1. run' \in [Run -> RunPlace] /\ run'[r] = w /\ \A q \in Run \ {r} : run'[q] = run[q]
  BY DEF Becomes, ZipInv, ZipTyped
<1>2. ZipTyped'
  BY <1>1 DEF ZipTyped, ZipInv
<1>3. \A q \in Run \ {r} : PlaceFits(run[q])'
  BY <1>1, <1>2, PlaceStays DEF ZipInv, ZipTyped
<1>4. \A q \in Run : PlaceFits(run[q])'
  BY <1>1, <1>3
<1> QED
  BY <1>2, <1>4 DEF ZipInv

\* A step of a run that leaves all files alone.
LEMMA RunMoves ==
  ASSUME ZipInv, NEW r \in Run, NEW w \in RunPlace, Becomes(r, w), PlaceFits(w),
         UNCHANGED <<data, brain, trees, plans, receipts, evolved, zipState>>
  PROVE  ZipInv'
<1>1. ZipKept
  BY DEF ZipKept, Vouched, ZipInv, ZipTyped
<1>2. PlaceFits(w)'
  BY DEF PlaceFits, SeenIsOlder, Between, PlanFits, Vouched
<1>3. StateFits' /\ WholeFits'
  BY DEF StateFits, WholeFits, ZipInv, PlanFits, Vouched
<1> QED
  BY <1>1, <1>2, <1>3, RunActs DEF ZipInv, ZipTyped

\* A run that stops has nothing to answer for, one that fails only its state.
LEMMA StoppedFits == RunStopped \in RunPlace /\ PlaceFits(RunStopped) /\ RunStopped.at = "idle"
  BY DEF RunPlace, RunStopped, PlaceFits

\* The state that a failing run will write fits, whatever it found.
LEMMA FailureFits ==
  ASSUME NEW r, NEW s \in ZipResult, NEW drift, s.attempt = NoAttempt \/ PlanFits(s.attempt), Fails(r, s, drift)
  PROVE  \E w \in RunPlace : Becomes(r, w) /\ PlaceFits(w)
<1>1. CASE Preserved(s)
  BY <1>1, StoppedFits DEF Fails
<1>2. CASE ~Preserved(s)
  <2> DEFINE v == IF s.state = "partial" /\ ~drift THEN "partial" ELSE "blocked"
             w == [at |-> "write", value |-> [state |-> v, attempt |-> s.attempt], attempt |-> s.attempt, then |-> "stop"]
  <2>1. Becomes(r, w)
    BY <1>2 DEF Fails, Writing, Result
  <2>2. v \in {"partial", "blocked"}
    OBVIOUS
  <2> HIDE DEF v
  <2>3. w \in RunPlace /\ PlaceFits(w)
    BY <2>2 DEF RunPlace, WritePlace, PlaceFits, ZipResult
  <2> QED
    BY <2>1, <2>3
<1> QED
  BY <1>1, <1>2

\* Writing a state of a planned attempt that is not committed.
LEMMA WritingFits ==
  ASSUME NEW s \in {"planned", "partial", "blocked", "rolled_back"}, NEW a \in Attempt, PlanFits(a),
         NEW then \in {"partial", "copy", "stop"}
  PROVE  Writing(s, a, then) \in RunPlace /\ PlaceFits(Writing(s, a, then))
  BY AttemptAssumption DEF RunPlace, WritePlace, PlaceFits, ZipResult, Writing, Result

\* The steps before the copy.
LEMMA RollbackKeeps ==
  ASSUME ZipInv, NEW r \in Run, NEW a \in Attempt, Rollback(r, a)
  PROVE  ZipInv'
<1>1. UNCHANGED <<data, brain, trees, plans, receipts, evolved, zipState>>
  BY DEF Rollback, Trees, Histories
<1>2. zipState \in ZipResult /\ (zipState.attempt = NoAttempt \/ PlanFits(zipState.attempt))
  BY DEF ZipInv, ZipTyped, StateFits
<1>3. CASE Fails(r, zipState, FALSE)
  BY <1>1, <1>2, <1>3, FailureFits, RunMoves
<1>4. CASE Becomes(r, Writing("rolled_back", a, "stop")) /\ zipState.attempt = a
  BY <1>1, <1>2, <1>4, WritingFits, RunMoves, AttemptAssumption
<1> QED
  BY <1>3, <1>4 DEF Rollback

\* An inventory begins: nothing is read.
LEMMA ReadingFits ==
  ASSUME ZipInv, NEW s \in ZipResult, s.attempt = NoAttempt \/ PlanFits(s.attempt),
         NEW goal \in {"plan", "continue", "commit"}, goal # "plan" => s.attempt # NoAttempt,
         goal = "commit" => s.state = "partial"
  PROVE  Reading(s, s.attempt, goal, Sources, Empty) \in RunPlace /\ PlaceFits(Reading(s, s.attempt, goal, Sources, Empty))
<1> DEFINE w == [at |-> "inventory", value |-> s, attempt |-> s.attempt, goal |-> goal, left |-> Sources, seen |-> Empty]
<1>1. w \in RunPlace
  BY SourcesAssumption DEF RunPlace, InventoryPlace, ZipResult, Empty, NotThere
<1>2. w.left = Sources /\ w.seen = Empty /\ w.attempt = s.attempt /\ w.value = s /\ w.goal = goal /\ w.at = "inventory"
  OBVIOUS
<1> HIDE DEF w
<1>3. \A f \in Source : ~Inventoried(w, f)
  BY <1>2, SourcesAssumption DEF Inventoried, Source, ToSet
<1>4. goal = "commit" => data \in trees /\ Between(w, data)
  BY <1>2, <1>3, AttemptAssumption DEF Between, ZipInv, ZipTyped, PlanFits
<1>5. PlaceFits(w)
  BY <1>2, <1>3, <1>4 DEF PlaceFits, SeenIsOlder
<1> QED
  BY <1>1, <1>5 DEF Reading, w

\* A run that begins has read nothing yet, and carries the state as it is.
LEMMA StartKeepsZip ==
  ASSUME ZipInv, NEW r \in Run, StartRun(r)
  PROVE  ZipInv'
<1>1. UNCHANGED <<data, brain, trees, plans, receipts, evolved, zipState>>
  BY DEF StartRun, Trees, Histories
<1>2. zipState \in ZipResult /\ (zipState.attempt = NoAttempt \/ PlanFits(zipState.attempt))
  BY DEF ZipInv, ZipTyped, StateFits
<1>3. PICK goal \in {"plan", "continue"} : Becomes(r, Reading(zipState, zipState.attempt, goal, Sources, Empty)) /\ (goal # "plan" => zipState.attempt # NoAttempt)
  BY DEF StartRun
<1> QED
  BY <1>1, <1>2, <1>3, ReadingFits, RunMoves

\* One more file of data/ is read.
LEMMA ReadSourceKeeps ==
  ASSUME ZipInv, NEW r \in Run, ReadSource(r)
  PROVE  ZipInv'
<1> DEFINE v == run[r]
           f == Head(v.left)
           w == [at |-> "inventory", value |-> v.value, attempt |-> v.attempt, goal |-> v.goal, left |-> Tail(v.left),
                 seen |-> [v.seen EXCEPT ![f] = data[f]]]
<1>1. UNCHANGED <<data, brain, trees, plans, receipts, evolved, zipState>>
  BY DEF ReadSource, Trees, Histories
<1>2. /\ v \in InventoryPlace /\ v.at = "inventory" /\ v.value \in ZipResult /\ v.attempt \in Attempt \cup {NoAttempt}
      /\ v.goal \in {"plan", "continue", "commit"} /\ v.left \in Seq(Source) /\ v.seen \in [Source -> Int]
      /\ v.left # << >> /\ PlaceFits(v)
  BY RunsFit, RunIs DEF ReadSource, At, InventoryPlace
<1>3. CASE Fails(r, v.value, FALSE)
  BY <1>1, <1>2, <1>3, FailureFits, RunMoves DEF PlaceFits
<1>4. ASSUME Becomes(r, w) PROVE ZipInv'
  <2>1. f \in Source /\ Tail(v.left) \in Seq(Source) /\ data[f] \in Nat
    BY <1>2 DEF ZipInv, ZipTyped
  <2>2. w \in RunPlace
    BY <1>2, <2>1 DEF RunPlace, InventoryPlace
  <2>3. \A g \in Source : Inventoried(w, g) => g = f \/ Inventoried(v, g)
    <3> SUFFICES ASSUME NEW g \in Source, g # f, \A n \in 1..Len(Tail(v.left)) : Tail(v.left)[n] # g
                 PROVE  \A n \in 1..Len(v.left) : v.left[n] # g
      BY DEF Inventoried
    <3> SUFFICES ASSUME NEW n \in 1..Len(v.left) PROVE v.left[n] # g
      OBVIOUS
    <3>1. CASE n = 1
      BY <1>2, <3>1
    <3>2. CASE n # 1
      <4>1. n - 1 \in 1..Len(Tail(v.left)) /\ Tail(v.left)[n - 1] = v.left[n]
        BY <1>2, <3>2
      <4> QED
        BY <4>1
    <3> QED
      BY <3>1, <3>2
  <2>4. /\ w.seen[f] = data[f] /\ \A g \in Source : g # f => w.seen[g] = v.seen[g]
        /\ w.at = "inventory" /\ w.value = v.value /\ w.attempt = v.attempt /\ w.goal = v.goal
    BY <1>2, <2>1
  <2> HIDE DEF w, v, f
  <2>5. SeenIsOlder(w)
    <3>1. SeenIsOlder(v)
      BY <1>2 DEF PlaceFits
    <3> QED
      BY <2>1, <2>3, <2>4, <3>1 DEF SeenIsOlder
  <2>6. ASSUME w.goal = "commit" PROVE \E tree \in trees : Between(w, tree)
    <3>1. PICK tree \in trees : Between(v, tree)
      BY <1>2, <2>4, <2>6 DEF PlaceFits
    <3>2. Between(w, tree)
      BY <2>1, <2>3, <2>4, <3>1 DEF Between
    <3> QED
      BY <3>2
  <2> QED
    BY <1>1, <1>2, <1>4, <2>2, <2>4, <2>5, <2>6, RunMoves DEF PlaceFits
<1>5. Fails(r, v.value, FALSE) \/ Becomes(r, w)
  BY DEF ReadSource, Reading
<1> QED
  BY <1>3, <1>4, <1>5

\* With all of data/ read, the run decides.
LEMMA ContinueKeeps ==
  ASSUME ZipInv, NEW r \in Run, Continue(r)
  PROVE  ZipInv'
<1> DEFINE v == run[r]
           a == v.attempt
<1>1. UNCHANGED <<data, brain, trees, plans, receipts, evolved, zipState>>
  BY DEF Continue, Trees, Histories
<1>2. v.value \in ZipResult /\ v.value.attempt = a /\ a \in Attempt /\ PlanFits(a) /\ a # NoAttempt
  <2>1. v \in InventoryPlace /\ PlaceFits(v) /\ v.at = "inventory" /\ v.goal = "continue" /\ v \in RunPlace
    BY RunsFit, RunIs DEF Continue, TreeRead, At
  <2>2. a # NoAttempt /\ v.value.attempt = a
    BY <2>1 DEF PlaceFits
  <2> QED
    BY <2>1, <2>2, RunAttempts DEF InventoryPlace
<1>3. CASE Becomes(r, RunStopped)
  BY <1>1, <1>3, StoppedFits, RunMoves
<1>4. CASE Fails(r, v.value, TRUE)
  BY <1>1, <1>2, <1>4, FailureFits, RunMoves
<1>5. CASE Fails(r, Result("blocked", a), TRUE)
  <2>1. Result("blocked", a) \in ZipResult /\ Result("blocked", a).attempt = a
    BY <1>2 DEF Result, ZipResult
  <2> QED
    BY <1>1, <1>2, <1>5, <2>1, FailureFits, RunMoves
<1>6. CASE Becomes(r, Writing("partial", a, "copy"))
  BY <1>1, <1>2, <1>6, WritingFits, RunMoves
<1> QED
  BY <1>3, <1>4, <1>5, <1>6 DEF Continue

\* A plan is what was read, under an identifier no plan has.
LEMMA PlanKeeps ==
  ASSUME ZipInv, NEW r \in Run, NEW a \in Attempt, Plan(r, a)
  PROVE  ZipInv'
<1> DEFINE v == run[r]
<1>1. /\ v.value \in ZipResult /\ (v.value.attempt = NoAttempt \/ PlanFits(v.value.attempt))
      /\ v.left = << >> /\ v.seen \in [Source -> Int] /\ SeenIsOlder(v)
  <2>1. v \in InventoryPlace /\ PlaceFits(v) /\ v.at = "inventory" /\ v.left = << >>
    BY RunsFit, RunIs DEF Plan, TreeRead, At
  <2> QED
    BY <2>1 DEF InventoryPlace, PlaceFits
<1>2. CASE Fails(r, v.value, FALSE) /\ UNCHANGED plans
  <2>1. UNCHANGED <<data, brain, trees, plans, receipts, evolved, zipState>>
    BY <1>2 DEF Plan, Trees, Histories
  <2> QED
    BY <1>1, <1>2, <2>1, FailureFits, RunMoves
<1>3. CASE plans' = [plans EXCEPT ![a] = v.seen] /\ Becomes(r, Writing("planned", a, "partial"))
  <2>1. UNCHANGED <<data, brain, trees, receipts, evolved, zipState>> /\ plans[a] = Empty
    BY DEF Plan, Trees, Histories
  <2>2. ~PlanFits(a)
    <3>1. Sources[1] \in Source /\ plans[a][Sources[1]] = -1
      BY <2>1, SourcesAssumption DEF Empty, NotThere
    <3> QED
      BY <3>1 DEF PlanFits
  <2>3. \A f \in Source : v.seen[f] \in Nat /\ v.seen[f] <= data[f]
    BY <1>1 DEF SeenIsOlder, Inventoried
  <2>4. plans' \in [Attempt -> [Source -> Int]] /\ plans'[a] = v.seen /\ \A b \in Attempt : b # a => plans'[b] = plans[b]
    BY <1>1, <1>3 DEF ZipInv, ZipTyped
  <2>5. PlanFits(a)'
    BY <2>1, <2>3, <2>4 DEF PlanFits
  <2>6. \A b : PlanFits(b) => b \in Attempt /\ b # a /\ PlanFits(b)'
    BY <2>1, <2>2, <2>4 DEF PlanFits
  <2>7. \A b \in Attempt : b # a /\ Vouched(b) => Vouched(b)'
    BY <2>1, <2>4 DEF Vouched
  <2>8. ZipKept
    BY <2>1, <2>2, <2>4, <2>6, <2>7 DEF ZipKept, ZipInv, ZipTyped
  <2>9. StateFits' /\ WholeFits'
    BY <2>1, <2>2, <2>6, <2>7 DEF StateFits, WholeFits, ZipInv
  <2>10. Writing("planned", a, "partial") \in RunPlace /\ PlaceFits(Writing("planned", a, "partial"))'
    <3>1. Writing("planned", a, "partial") \in RunPlace
      BY DEF RunPlace, WritePlace, ZipResult, Writing, Result
    <3>2. PlaceFits(Writing("planned", a, "partial"))'
      BY <2>5, AttemptAssumption DEF PlaceFits, Writing, Result
    <3> QED
      BY <3>1, <3>2
  <2>11. PICK w \in RunPlace : Becomes(r, w) /\ PlaceFits(w)'
    BY <1>3, <2>10
  <2> QED
    BY <2>1, <2>4, <2>8, <2>9, <2>11, RunActs DEF ZipInv, ZipTyped
<1> QED
  BY <1>2, <1>3 DEF Plan

\* The state a run writes fits, as the run that writes it does.
LEMMA WriteStateKeeps ==
  ASSUME ZipInv, NEW r \in Run, WriteState(r)
  PROVE  ZipInv'
<1> DEFINE v == run[r]
           a == v.attempt
<1>1. UNCHANGED <<data, brain, trees, plans, receipts, evolved>> /\ zipState' = v.value
  BY DEF WriteState, Trees
<1>2. /\ v.at = "write" /\ v.value \in ZipResult /\ v.then \in {"partial", "copy", "stop"} /\ PlaceFits(v)
      /\ v.value.attempt = a /\ (a = NoAttempt \/ PlanFits(a)) /\ (v.then # "stop" => a \in Attempt /\ PlanFits(a))
  <2>1. v \in WritePlace /\ PlaceFits(v) /\ v.at = "write" /\ v \in RunPlace
    BY RunsFit, RunIs DEF WriteState, At
  <2>2. v.value.attempt = a /\ (v.then # "stop" => a # NoAttempt)
    BY <2>1 DEF PlaceFits
  <2>3. (a = NoAttempt \/ PlanFits(a)) /\ (a # NoAttempt => a \in Attempt)
    BY <2>1, RunAttempts
  <2> QED
    BY <2>1, <2>2, <2>3 DEF WritePlace
<1>3. ZipKept
  BY <1>1 DEF ZipKept, Vouched, ZipInv, ZipTyped
<1>4. StateFits' /\ WholeFits'
  BY <1>1, <1>2 DEF StateFits, WholeFits, ZipInv, PlanFits, Vouched, PlaceFits
<1>5. ASSUME NEW w \in RunPlace, Becomes(r, w), PlaceFits(w) PROVE ZipInv'
  <2>1. PlaceFits(w)'
    BY <1>1, <1>5 DEF PlaceFits, SeenIsOlder, Between, PlanFits, Vouched
  <2> QED
    BY <1>1, <1>2, <1>3, <1>4, <1>5, <2>1, RunActs DEF ZipInv, ZipTyped
<1>6. CASE v.then = "partial"
  <2>1. Becomes(r, Writing("partial", a, "copy"))
    BY <1>6 DEF WriteState
  <2> QED
    BY <1>2, <1>5, <1>6, <2>1, WritingFits
<1>7. CASE v.then = "copy"
  <2>1. Becomes(r, Copying(a))
    BY <1>7 DEF WriteState
  <2>2. Copying(a) \in RunPlace /\ PlaceFits(Copying(a))
    BY <1>2, <1>7, SourcesAssumption DEF Copying, RunPlace, CopyPlace, PlaceFits
  <2> QED
    BY <1>5, <2>1, <2>2
<1>8. CASE v.then = "stop"
  <2>1. Becomes(r, RunStopped)
    BY <1>8 DEF WriteState
  <2> QED
    BY <1>5, <2>1, StoppedFits
<1> QED
  BY <1>2, <1>6, <1>7, <1>8

\* The copy.
LEMMA CopyPlaceFits ==
  ASSUME NEW a \in Attempt, PlanFits(a), NEW todo \in Seq(Source), NEW staged \in Int
  PROVE  /\ [at |-> "copy", attempt |-> a, todo |-> todo] \in RunPlace
         /\ PlaceFits([at |-> "copy", attempt |-> a, todo |-> todo])
         /\ [at |-> "link", attempt |-> a, todo |-> todo, staged |-> staged] \in RunPlace
         /\ todo # << >> => PlaceFits([at |-> "link", attempt |-> a, todo |-> todo, staged |-> staged])
  BY DEF RunPlace, CopyPlace, LinkPlace, PlaceFits

\* A failing copy leaves its attempt partial, which fits its plan.
LEMMA PartialFailureFits ==
  ASSUME NEW r, NEW a \in Attempt, PlanFits(a), NEW drift, Fails(r, Result("partial", a), drift)
  PROVE  \E w \in RunPlace : Becomes(r, w) /\ PlaceFits(w)
<1>1. Result("partial", a) \in ZipResult /\ Result("partial", a).attempt = a
  BY DEF Result, ZipResult
<1> QED
  BY <1>1, FailureFits

\* copyEntry reads a file; only what is as planned goes on.
LEMMA StageKeeps ==
  ASSUME ZipInv, NEW r \in Run, StageEntry(r)
  PROVE  ZipInv'
<1> DEFINE v == run[r]
           a == v.attempt
           f == Head(v.todo)
<1>1. UNCHANGED <<data, brain, trees, plans, receipts, evolved, zipState>>
  BY DEF StageEntry, Trees, Histories
<1>2. v \in CopyPlace /\ v.todo # << >> /\ a \in Attempt /\ PlanFits(a)
  BY RunsFit, RunIs, RunAttempts DEF StageEntry, At
<1>3. f \in Source /\ Tail(v.todo) \in Seq(Source) /\ v.todo \in Seq(Source) /\ data[f] \in Int
  BY <1>2 DEF CopyPlace, ZipInv, ZipTyped
<1>4. CASE Becomes(r, [v EXCEPT !.todo = Tail(@)])
  <2>1. [v EXCEPT !.todo = Tail(@)] = [at |-> "copy", attempt |-> a, todo |-> Tail(v.todo)]
    BY <1>2 DEF CopyPlace
  <2> QED
    BY <1>1, <1>2, <1>3, <1>4, <2>1, CopyPlaceFits, RunMoves
<1>5. CASE Fails(r, Result("partial", a), TRUE)
  BY <1>1, <1>2, <1>5, PartialFailureFits, RunMoves
<1>6. CASE Becomes(r, [at |-> "link", attempt |-> a, todo |-> v.todo, staged |-> data[f]])
  BY <1>1, <1>2, <1>3, <1>6, CopyPlaceFits, RunMoves
<1> QED
  BY <1>4, <1>5, <1>6 DEF StageEntry

\* A link is made only where nothing is, so what was vouched for stays.
LEMMA LinkKeeps ==
  ASSUME ZipInv, NEW r \in Run, LinkEntry(r)
  PROVE  ZipInv'
<1> DEFINE v == run[r]
           a == v.attempt
           f == Head(v.todo)
<1>1. UNCHANGED <<data, trees, plans, receipts, evolved, zipState>>
  BY DEF LinkEntry, Histories
<1>2. v \in LinkPlace /\ v.staged \in Int /\ v.todo \in Seq(Source) /\ a \in Attempt /\ PlanFits(a) /\ v.todo # << >>
  <2>1. v \in RunPlace /\ PlaceFits(v) /\ v.at = "link"
    BY RunsFit DEF LinkEntry, At
  <2> QED
    BY <2>1, RunIs, RunAttempts DEF LinkPlace, PlaceFits
<1>3. CASE Fails(r, Result("partial", a), FALSE) /\ UNCHANGED brain
  BY <1>1, <1>2, <1>3, PartialFailureFits, RunMoves
<1>4. CASE /\ brain[f] = NotThere /\ brain' = [brain EXCEPT ![f] = v.staged]
           /\ Becomes(r, [at |-> "copy", attempt |-> a, todo |-> Tail(v.todo)]) \/ Fails(r, Result("partial", a), FALSE)
  <2>1. brain' \in [Source -> Int] /\ \A g \in Source : brain[g] \in Nat => brain'[g] = brain[g]
    <3>1. brain \in [Source -> Int]
      BY DEF ZipInv, ZipTyped
    <3>2. v.staged \in Int /\ brain' = [brain EXCEPT ![f] = v.staged] /\ brain[f] = -1
      BY <1>2, <1>4 DEF NotThere
    <3> HIDE DEF v, f
    <3>3. brain' \in [Source -> Int]
      BY <3>1, <3>2
    <3>4. ASSUME NEW g \in Source, brain[g] \in Nat PROVE brain'[g] = brain[g]
      <4>1. g # f
        BY <3>2, <3>4
      <4> QED
        BY <3>1, <3>2, <4>1
    <3> QED
      BY <3>3, <3>4
  <2>2. \A b \in Attempt : Vouched(b) => Vouched(b)'
    BY <1>1, <2>1 DEF Vouched, ZipInv, ZipTyped
  <2>3. ZipKept
    BY <1>1, <2>2 DEF ZipKept, ZipInv, ZipTyped
  <2>4. StateFits' /\ WholeFits'
    BY <1>1, <2>2 DEF StateFits, WholeFits, ZipInv, PlanFits
  <2>5. Tail(v.todo) \in Seq(Source)
    BY <1>2
  <2>6. \E w \in RunPlace : Becomes(r, w) /\ PlaceFits(w)
    <3>1. CASE Fails(r, Result("partial", a), FALSE)
      BY <1>2, <3>1, PartialFailureFits
    <3>2. CASE Becomes(r, [at |-> "copy", attempt |-> a, todo |-> Tail(v.todo)])
      BY <1>2, <2>5, <3>2, CopyPlaceFits
    <3> QED
      BY <1>4, <3>1, <3>2
  <2>7. PICK w \in RunPlace : Becomes(r, w) /\ PlaceFits(w)
    BY <2>6
  <2>8. ZipTyped'
    BY <1>1, <2>1, <2>7 DEF Becomes, ZipInv, ZipTyped
  <2>9. PlaceFits(w)'
    BY <2>3, <2>7, <2>8, PlaceStays
  <2> QED
    BY <1>1, <2>1, <2>3, <2>4, <2>7, <2>9, RunActs DEF ZipInv, ZipTyped
<1> QED
  BY <1>3, <1>4 DEF LinkEntry

\* The final inventory, the validation and the receipt.
LEMMA InventoryKeeps ==
  ASSUME ZipInv, NEW r \in Run, Inventory(r)
  PROVE  ZipInv'
<1> DEFINE a == run[r].attempt
           s == [state |-> "partial", attempt |-> a]
<1>1. UNCHANGED <<data, brain, trees, plans, receipts, evolved, zipState>>
  BY DEF Inventory, Trees, Histories
<1>2. a \in Attempt /\ PlanFits(a)
  BY RunsFit, RunAttempts DEF Inventory, At
<1>3. s \in ZipResult /\ s.attempt = a /\ s.state = "partial" /\ a # NoAttempt
  BY <1>2, AttemptAssumption DEF ZipResult
<1>4. Becomes(r, Reading(s, a, "commit", Sources, Empty))
  BY DEF Inventory, Result
<1> HIDE DEF s
<1>5. Reading(s, a, "commit", Sources, Empty) \in RunPlace /\ PlaceFits(Reading(s, a, "commit", Sources, Empty))
  BY <1>2, <1>3, ReadingFits
<1> QED
  BY <1>1, <1>4, <1>5, RunMoves

\* What is committed was found complete and unchanged, which is when a receipt begins.
LEMMA CreateReceiptKeeps ==
  ASSUME ZipInv, NEW r \in Run, CreateReceipt(r)
  PROVE  ZipInv'
<1> DEFINE v == run[r]
<1>0. PICK a \in Attempt : a = v.attempt
  <2>1. v \in InventoryPlace /\ PlaceFits(v) /\ v.at = "inventory" /\ v.goal = "commit" /\ v \in RunPlace
    BY RunsFit, RunIs DEF CreateReceipt, TreeRead, At
  <2> QED
    BY <2>1, RunAttempts DEF PlaceFits
<1>1. UNCHANGED <<data, brain, trees, plans, zipState>>
  BY DEF CreateReceipt, Trees
<1>2. /\ v.value \in ZipResult /\ v.value.attempt = a /\ PlanFits(a) /\ v.left = << >>
      /\ v.seen \in [Source -> Int] /\ \E tree \in trees : Between(v, tree)
  <2>1. v \in InventoryPlace /\ PlaceFits(v) /\ v.at = "inventory" /\ v.goal = "commit" /\ v.left = << >> /\ v \in RunPlace
    BY RunsFit, RunIs DEF CreateReceipt, TreeRead, At
  <2>2. PlanFits(a) /\ v.value.attempt = a /\ \E tree \in trees : Between(v, tree)
    BY <1>0, <2>1, RunAttempts, AttemptAssumption DEF PlaceFits
  <2> QED
    BY <2>1, <2>2 DEF InventoryPlace
<1>3. CASE (\E drift : Fails(r, v.value, drift)) /\ UNCHANGED <<receipts, evolved>>
  BY <1>1, <1>2, <1>3, FailureFits, RunMoves
<1>4. CASE /\ ~SourceDrift(r, a) /\ TargetsMatch(a, FALSE)
           /\ evolved' = [evolved EXCEPT ![a] = {}]
           /\ receipts' = [receipts EXCEPT ![a] = IF @ = "none" THEN "torn" ELSE @]
           /\ Becomes(r, CASE receipts[a] = "none" -> [at |-> "receipt", attempt |-> a]
                           [] receipts[a] = "torn" -> RunStopped
                           [] receipts[a] = "whole" -> Writing("committed", a, "stop"))
  <2>1. PICK tree \in trees : Between(v, tree)
    BY <1>2
  <2>2. tree \in [Source -> Nat] /\ plans[a] \in [Source -> Int] /\ plans[a] = v.seen
    BY <1>2, <1>4 DEF ZipInv, ZipTyped, SourceDrift
  <2>3. \A f \in Source : plans[a][f] <= tree[f] /\ tree[f] <= v.seen[f]
    BY <1>0, <1>2, <2>1 DEF Between, Inventoried
  <2>4. \A f \in Source : tree[f] = plans[a][f]
    BY <2>2, <2>3
  <2>5. plans[a] \in trees
    BY <2>2, <2>4
  <2>6. evolved' \in [Attempt -> SUBSET Source] /\ \A b \in Attempt : b # a => evolved'[b] = evolved[b]
    BY <1>2, <1>4 DEF ZipInv, ZipTyped
  <2>7. Vouched(a)'
    BY <1>1, <1>4, <2>5 DEF Vouched, TargetsMatch
  <2>8. \A b \in Attempt : Vouched(b) => Vouched(b)'
    BY <1>1, <2>6, <2>7 DEF Vouched
  <2>9. /\ receipts' \in [Attempt -> {"none", "torn", "whole"}]
        /\ \A b \in Attempt : receipts'[b] = "whole" <=> receipts[b] = "whole"
    BY <1>2, <1>4 DEF ZipInv, ZipTyped
  <2>10. ZipKept
    BY <1>1, <2>8, <2>9 DEF ZipKept, ZipInv, ZipTyped
  <2>11. StateFits' /\ WholeFits'
    BY <1>1, <2>8, <2>9 DEF StateFits, WholeFits, ZipInv, PlanFits
  <2>12. \E w \in RunPlace : Becomes(r, w) /\ PlaceFits(w)'
    <3>1. CASE receipts[a] = "none"
      <4>1. Becomes(r, [at |-> "receipt", attempt |-> a])
        BY <1>4, <3>1
      <4>2. [at |-> "receipt", attempt |-> a] \in RunPlace
        BY DEF RunPlace, ReceiptPlace
      <4>3. PlaceFits([at |-> "receipt", attempt |-> a])'
        BY <1>1, <1>2, <2>7 DEF PlaceFits, PlanFits
      <4> QED
        BY <4>1, <4>2, <4>3
    <3>2. CASE receipts[a] = "torn"
      <4>1. Becomes(r, RunStopped)
        BY <1>4, <3>2
      <4>2. PlaceFits(RunStopped)'
        BY DEF PlaceFits, RunStopped
      <4> QED
        BY <4>1, <4>2, StoppedFits
    <3>3. CASE receipts[a] = "whole"
      <4>1. Becomes(r, Writing("committed", a, "stop"))
        BY <1>4, <3>3
      <4>2. Writing("committed", a, "stop") \in RunPlace
        BY <1>2 DEF RunPlace, WritePlace, ZipResult, Writing, Result
      <4>3. PlaceFits(Writing("committed", a, "stop"))'
        BY <1>1, <1>2, <2>9, <3>3, AttemptAssumption DEF PlaceFits, PlanFits, Writing, Result
      <4> QED
        BY <4>1, <4>2, <4>3
    <3>4. receipts[a] \in {"none", "torn", "whole"}
      BY <1>2 DEF ZipInv, ZipTyped
    <3> QED
      BY <3>1, <3>2, <3>3, <3>4
  <2> QED
    BY <1>1, <2>6, <2>9, <2>10, <2>11, <2>12, RunActs DEF ZipInv, ZipTyped
<1> QED
  BY <1>0, <1>3, <1>4 DEF CreateReceipt

\* A receipt that is whole vouches for its plan.
LEMMA WriteReceiptKeeps ==
  ASSUME ZipInv, NEW r \in Run, WriteReceipt(r)
  PROVE  ZipInv'
<1>0. PICK a \in Attempt : a = run[r].attempt
  BY RunsFit, RunAttempts DEF WriteReceipt, At
<1>1. /\ UNCHANGED <<data, brain, trees, plans, evolved, zipState>>
      /\ receipts' = [receipts EXCEPT ![a] = "whole"] /\ Becomes(r, Writing("committed", a, "stop"))
  BY <1>0 DEF WriteReceipt, Trees, Histories
<1>2. PlanFits(a) /\ Vouched(a)
  <2>1. run[r].at = "receipt" /\ PlaceFits(run[r]) /\ run[r] \in RunPlace
    BY RunsFit DEF WriteReceipt, At
  <2> QED
    BY <1>0, <2>1, RunAttempts DEF PlaceFits
<1>3. /\ receipts' \in [Attempt -> {"none", "torn", "whole"}] /\ receipts'[a] = "whole"
      /\ \A b \in Attempt : b # a => receipts'[b] = receipts[b]
  BY <1>1, <1>2 DEF ZipInv, ZipTyped
<1>4. ZipKept
  BY <1>1, <1>3 DEF ZipKept, Vouched, ZipInv, ZipTyped
<1>5. StateFits' /\ WholeFits'
  BY <1>1, <1>2, <1>3 DEF StateFits, WholeFits, ZipInv, PlanFits, Vouched
<1>6. Writing("committed", a, "stop") \in RunPlace
  BY <1>2 DEF RunPlace, WritePlace, ZipResult, Writing, Result
<1>7. PlaceFits(Writing("committed", a, "stop"))'
  BY <1>1, <1>2, <1>3, AttemptAssumption DEF PlaceFits, PlanFits, Writing, Result
<1>8. PICK w \in RunPlace : Becomes(r, w) /\ PlaceFits(w)'
  BY <1>1, <1>6, <1>7
<1> QED
  BY <1>1, <1>3, <1>4, <1>5, <1>8, RunActs DEF ZipInv, ZipTyped

\* A killed run leaves its files and carries nothing.
LEMMA InterruptionKeepsZip ==
  ASSUME ZipInv, NEW r \in Run, Interrupted(r)
  PROVE  ZipInv'
  BY StoppedFits, RunMoves DEF Interrupted, Trees, Histories

\* The owner makes data/ newer, and answers for what he edits in brain/.
LEMMA AuthorKeeps ==
  ASSUME ZipInv, Author
  PROVE  ZipInv'
<1>1. UNCHANGED <<plans, receipts, zipState, run>> /\ trees' = trees \cup {data'}
  BY DEF Author
<1>2. data' \in [Source -> Nat] /\ \A f \in Source : data[f] <= data'[f]
  <2>1. CASE data' = data
    BY <2>1 DEF ZipInv, ZipTyped
  <2>2. CASE \E g \in Source : data' = [data EXCEPT ![g] = @ + 1]
    BY <2>2 DEF ZipInv, ZipTyped
  <2> QED
    BY <2>1, <2>2 DEF Author
<1>3. /\ brain' \in [Source -> Int] /\ evolved' \in [Attempt -> SUBSET Source]
      /\ \A a \in Attempt : evolved[a] \subseteq evolved'[a] /\ \A f \in Source : brain'[f] = brain[f] \/ f \in evolved'[a]
  BY DEF Author, ZipInv, ZipTyped, Mine, NotThere
<1>4. ZipTyped'
  BY <1>1, <1>2, <1>3 DEF ZipInv, ZipTyped
<1>5. \A a \in Attempt : Vouched(a) => Vouched(a)'
  BY <1>1, <1>3 DEF Vouched
<1>6. \A a : PlanFits(a) => a \in Attempt /\ PlanFits(a)'
  BY <1>1, <1>2 DEF PlanFits, ZipInv, ZipTyped
<1>7. ZipKept
  BY <1>1, <1>2, <1>5 DEF ZipKept
<1>8. StateFits' /\ WholeFits'
  BY <1>1, <1>5, <1>6 DEF StateFits, WholeFits, ZipInv
<1>9. \A r \in Run : PlaceFits(run[r])'
  BY <1>1, <1>4, <1>7, PlaceStays DEF ZipInv, ZipTyped
<1> QED
  BY <1>4, <1>8, <1>9 DEF ZipInv

\* Every step keeps it.
LEMMA ZipStep == ZipInv /\ [ZipNext]_zipVars => ZipInv'
<1> SUFFICES ASSUME ZipInv, [ZipNext]_zipVars PROVE ZipInv'
  OBVIOUS
<1>1. CASE UNCHANGED zipVars
  BY <1>1 DEF zipVars, ZipInv, ZipTyped, StateFits, WholeFits, PlaceFits, SeenIsOlder, Between, PlanFits, Vouched
<1>2. ASSUME NEW r \in Run, NEW a \in Attempt, Rollback(r, a) \/ Plan(r, a) PROVE ZipInv'
  BY <1>2, RollbackKeeps, PlanKeeps
<1>3. ASSUME NEW r \in Run, StartRun(r) \/ ReadSource(r) \/ Continue(r) \/ WriteState(r) PROVE ZipInv'
  BY <1>3, StartKeepsZip, ReadSourceKeeps, ContinueKeeps, WriteStateKeeps
<1>4. ASSUME NEW r \in Run, StageEntry(r) \/ LinkEntry(r) \/ Inventory(r) PROVE ZipInv'
  BY <1>4, StageKeeps, LinkKeeps, InventoryKeeps
<1>5. ASSUME NEW r \in Run, CreateReceipt(r) \/ WriteReceipt(r) \/ Interrupted(r) PROVE ZipInv'
  BY <1>5, CreateReceiptKeeps, WriteReceiptKeeps, InterruptionKeepsZip
<1> QED
  BY <1>1, <1>2, <1>3, <1>4, <1>5, AuthorKeeps DEF ZipNext

\* A committed attempt is a tree that data/ was, and is in brain/ but for the owner's
\* later edits: however the runs, their stops and the owner's edits interleave.
THEOREM CommitsAreSnapshots == ZipSpec => []CommittedIsSnapshot
<1>1. ZipInit => ZipInv
  <2> SUFFICES ASSUME ZipInit PROVE ZipInv
    OBVIOUS
  <2>1. ZipTyped
    BY DEF ZipInit, ZipTyped, ZipResult, RunPlace, RunStopped, Empty, NotThere
  <2>2. StateFits /\ WholeFits
    BY DEF ZipInit, StateFits, WholeFits
  <2>3. \A r \in Run : PlaceFits(run[r])
    BY DEF ZipInit, PlaceFits, RunStopped
  <2> QED
    BY <2>1, <2>2, <2>3 DEF ZipInv
<1>2. ZipInv => CommittedIsSnapshot
  <2> SUFFICES ASSUME ZipInv, zipState.state = "committed"
               PROVE  /\ receipts[zipState.attempt] = "whole" /\ plans[zipState.attempt] \in trees
                      /\ \A f \in Source : brain[f] = plans[zipState.attempt][f] \/ f \in evolved[zipState.attempt]
    BY DEF CommittedIsSnapshot
  <2>1. zipState.attempt \in Attempt /\ receipts[zipState.attempt] = "whole"
    BY DEF ZipInv, StateFits, ZipTyped, ZipResult
  <2> QED
    BY <2>1 DEF ZipInv, WholeFits, Vouched
<1> QED
  BY <1>1, <1>2, ZipStep, PTL DEF ZipSpec

-----------------------------------------------------------------------------
(***************************************************************************)
(* WorkspaceImport.  An importer between two steps holds the plan lock, and *)
(* the files it has still to place are all that may be missing from the    *)
(* destination: so a receipt that says executed is written only when       *)
(* nothing is missing.  Between the hash and the unlink of a removal the   *)
(* file is as it was hashed, or the user has written it meanwhile.         *)
(***************************************************************************)
Placed == {"idle", "stage", "unstaged", "commit", "commit_linked", "reconcile", "reconcile_linked", "settle", "abort", "rollback"} \cup AtUnlink
\* Before the receipt of an import is written.
Underway == {"stage", "unstaged", "commit", "commit_linked", "reconcile", "reconcile_linked", "abort", "abort_unlink"}
Committing == {"commit", "reconcile"}
Linked == {"commit_linked", "reconcile_linked"}
ImporterRecord == [at : Placed, todo : Seq(ImportFile), committed : Seq(ImportFile)]
Approved == {Absent, "v1", "v2"}

ImportTyped ==
  /\ source \in [ImportFile -> {"v1", "v2"}] /\ stage \in [ImportFile -> Approved] /\ plan \in [ImportFile -> Approved]
  /\ dest \in [ImportFile -> Approved \cup {"user"}]
  /\ importer \in [Importer -> ImporterRecord]

\* What an importer has still to do is all that may be missing.
Whole(f) == f \in touched \/ MatchesPlan(dest, f)
Seen(f) == dest[f] = "user" => f \in raced
Accounted(c) ==
  /\ c.at \in Committing \cup Linked => \A f \in ImportFile : f \in ToSet(c.todo) \/ Whole(f)
  /\ c.at \in Linked => c.todo # << >> /\ Whole(Head(c.todo))
  /\ c.at \in AtUnlink => c.todo # << >> /\ Seen(Condemned(c))
ImportInv ==
  /\ ImportTyped
  /\ \A i \in Importer : importer[i].at # "idle" => planLock = {i}
  /\ \A i \in Importer : importer[i].at \in Underway => receipt # "executed"
  /\ plan = Unplanned => receipt = "none" /\ \A i \in Importer : importer[i].at = "idle"
  /\ \A i \in Importer : Accounted(importer[i])
  /\ ExecutedIsWhole

\* Taking the head or the last entry off a sequence of paths.
LEMMA ToSetFacts ==
  ASSUME NEW s \in Seq(ImportFile)
  PROVE  /\ s # << >> => Head(s) \in ImportFile /\ Tail(s) \in Seq(ImportFile) /\ \A f \in ToSet(s) : f = Head(s) \/ f \in ToSet(Tail(s))
         /\ s # << >> => Last(s) \in ImportFile /\ Front(s) \in Seq(ImportFile)
         /\ s = << >> => ToSet(s) = {}
<1>1. CASE s # << >>
  <2>1. Len(s) \in Nat /\ Len(s) > 0 /\ Head(s) = s[1] /\ Tail(s) \in Seq(ImportFile) /\ Len(Tail(s)) = Len(s) - 1
        /\ \A k \in 1..(Len(s) - 1) : Tail(s)[k] = s[k + 1]
    BY <1>1
  <2>2. ASSUME NEW f \in ToSet(s), f # Head(s)
        PROVE  f \in ToSet(Tail(s))
    <3>1. PICK k \in 1..Len(s) : s[k] = f
      BY DEF ToSet
    <3>2. k - 1 \in 1..(Len(s) - 1) /\ k - 1 + 1 = k
      BY <2>1, <2>2, <3>1
    <3>3. Tail(s)[k - 1] = f
      BY <2>1, <3>1, <3>2
    <3>4. DOMAIN Tail(s) = 1..(Len(s) - 1)
      BY <2>1
    <3> QED BY <3>2, <3>3, <3>4 DEF ToSet
  <2>3. Last(s) \in ImportFile /\ Front(s) \in Seq(ImportFile)
    BY <2>1 DEF Last, Front
  <2> QED BY <1>1, <2>1, <2>2, <2>3
<1>2. CASE s = << >>
  BY <1>2 DEF ToSet
<1> QED BY <1>1, <1>2

\* A step of one importer keeps the invariant when its own record accounts for the files and it leaves what the others rely on.
LEMMA StepKeeps ==
  ASSUME ImportInv, NEW i \in Importer, NEW c \in ImporterRecord,
         importer' = [importer EXCEPT ![i] = c], plan' = plan, plan # Unplanned,
         source' \in [ImportFile -> {"v1", "v2"}], stage' \in [ImportFile -> Approved], dest' \in [ImportFile -> Approved \cup {"user"}],
         c.at # "idle" => planLock' = {i},
         \A j \in Importer \ {i} : importer[j].at = "idle",
         c.at \in Underway => receipt' # "executed",
         Accounted(c)',
         (\A f \in ImportFile : Whole(f) => Whole(f)') \/ receipt' # "executed",
         receipt' = "executed" => receipt = "executed" \/ \A f \in ImportFile : Whole(f)'
  PROVE  ImportInv'
<1>1. importer' \in [Importer -> ImporterRecord] /\ \A j \in Importer : importer'[j] = IF j = i THEN c ELSE importer[j]
  BY DEF ImportInv, ImportTyped
<1>2. ImportTyped'
  BY <1>1 DEF ImportInv, ImportTyped
<1>3. \A j \in Importer : importer'[j].at # "idle" => planLock' = {j}
  BY <1>1 DEF ImportInv
<1>4. \A j \in Importer : importer'[j].at \in Underway => receipt' # "executed"
  BY <1>1 DEF ImportInv, Underway
<1>5. plan' # Unplanned'
  BY DEF Unplanned
<1>6. ASSUME NEW j \in Importer
      PROVE  \A d : d = importer'[j] => Accounted(d)'
  <2>1. CASE j = i
    BY <1>1, <2>1
  <2>2. CASE j # i
    <3>1. PICK d : d = importer[j]
      OBVIOUS
    <3>2. Accounted(d) /\ importer'[j] = d /\ d \in ImporterRecord
      BY <1>1, <2>2, <3>1 DEF ImportInv, ImportTyped
    <3> QED BY <2>2, <3>1, <3>2 DEF Accounted, Committing, Linked, AtUnlink
  <2> QED BY <2>1, <2>2
<1>7. \A j \in Importer : Accounted(importer[j])'
  BY <1>6
<1>8. ExecutedIsWhole'
  <2>1. receipt = "executed" => \A f \in ImportFile : Whole(f)
    BY DEF ImportInv, ExecutedIsWhole, Whole
  <2>2. receipt' = "executed" => \A f \in ImportFile : Whole(f)'
    BY <2>1
  <2> QED BY <2>2 DEF ExecutedIsWhole, Whole
<1> QED BY <1>2, <1>3, <1>4, <1>5, <1>7, <1>8 DEF ImportInv

Keeps == ImportInv' /\ \A f \in ImportFile : dest[f] = "user" /\ dest'[f] # "user" => edits' # edits \/ f \in raced

\* An importer at work holds the plan lock alone.
LEMMA HolderFacts ==
  ASSUME ImportInv, NEW i \in Importer, importer[i].at # "idle"
  PROVE  /\ importer[i] \in ImporterRecord /\ Accounted(importer[i]) /\ planLock = {i} /\ plan # Unplanned
         /\ \A j \in Importer \ {i} : importer[j].at = "idle"
         /\ importer[i].at \in Underway => receipt # "executed"
BY DEF ImportInv, ImportTyped

\* A step of the holder of the plan lock that leaves the trees, or gives up the lock.
LEMMA HolderMoves ==
  ASSUME ImportInv, NEW i \in Importer, importer[i].at # "idle", NEW c \in ImporterRecord,
         importer' = [importer EXCEPT ![i] = c], UNCHANGED <<plan, source, dest, edits>>,
         stage' \in [ImportFile -> Approved], touched \subseteq touched',
         c.at # "idle" => planLock' = planLock, Accounted(c)',
         receipt' = "executed" => receipt = "executed" \/ \A f \in ImportFile : Whole(f),
         c.at \in Underway => receipt' # "executed"
  PROVE  Keeps
<1>1. /\ planLock = {i} /\ plan # Unplanned /\ \A j \in Importer \ {i} : importer[j].at = "idle"
  BY HolderFacts
<1>2. source' \in [ImportFile -> {"v1", "v2"}] /\ dest' \in [ImportFile -> Approved \cup {"user"}]
  BY DEF ImportInv, ImportTyped
<1>3. \A f \in ImportFile : Whole(f) => Whole(f)'
  BY DEF Whole, MatchesPlan
<1>4. ImportInv'
  BY <1>1, <1>2, <1>3, StepKeeps
<1> QED BY <1>4 DEF Keeps

\* Entering under the plan lock: a receipt is returned, a journal reconciled, a rollback begun, or a new journal prepared.
LEMMA EntersKeep ==
  ASSUME ImportInv, NEW i \in Importer,
         ReturnReceipt(i) \/ StartReconcile(i) \/ StartStaging(i) \/ StartRollback(i)
  PROVE  Keeps
<1>1. PlanFiles \in Seq(ImportFile) /\ ToSet(PlanFiles) = ImportFile /\ << >> \in Seq(ImportFile)
  BY PlanAssumption DEF ImportFile
<1>2. ASSUME Enter(i), UNCHANGED <<plan, source, dest, stage, touched, edits>>, planLock' = {i},
             NEW at \in {"stage", "reconcile", "rollback"}, Do(i, at, PlanFiles, << >>),
             receipt' = "executed" => receipt = "executed", at # "rollback" => receipt' # "executed"
      PROVE  Keeps
  <2>1. PICK c : c = [at |-> at, todo |-> PlanFiles, committed |-> << >>]
    OBVIOUS
  <2>2. c \in ImporterRecord /\ c.at = at /\ c.todo = PlanFiles
    BY <1>1, <2>1 DEF ImporterRecord, Placed
  <2>3. importer' = [importer EXCEPT ![i] = c]
    BY <1>2, <2>1 DEF Do
  <2>4. Accounted(c)'
    BY <1>1, <2>2 DEF Accounted, Committing, Linked, AtUnlink
  <2>5. plan # Unplanned /\ \A j \in Importer : importer[j].at = "idle"
    BY <1>2 DEF Enter, ImportInv
  <2>6. source' \in [ImportFile -> {"v1", "v2"}] /\ stage' \in [ImportFile -> Approved] /\ dest' \in [ImportFile -> Approved \cup {"user"}]
    BY <1>2 DEF ImportInv, ImportTyped
  <2>7. \A f \in ImportFile : Whole(f) => Whole(f)'
    BY <1>2 DEF Whole, MatchesPlan
  <2>8. c.at \in Underway => receipt' # "executed"
    BY <1>2, <2>2 DEF Underway
  <2>9. ImportInv'
    BY <1>2, <2>2, <2>3, <2>4, <2>5, <2>6, <2>7, <2>8, StepKeeps
  <2> QED BY <1>2, <2>9 DEF Keeps
<1>3. CASE ReturnReceipt(i)
  <2>1. UNCHANGED <<source, dest, stage, plan, receipt, planLock, importer, edits, touched, raced>>
    BY <1>3 DEF ReturnReceipt, ImportTrees, Unhurt
  <2>2. ImportInv'
    BY <2>1 DEF ImportInv, ImportTyped, Accounted, Seen, Whole, MatchesPlan, Unplanned, ExecutedIsWhole
  <2> QED BY <2>1, <2>2 DEF Keeps
<1>4. CASE StartReconcile(i)
  BY <1>2, <1>4 DEF StartReconcile, ImportTrees, Unhurt, Terminal
<1>5. CASE StartStaging(i)
  BY <1>2, <1>5 DEF StartStaging, ImportTrees, Unhurt
<1>6. CASE StartRollback(i)
  BY <1>2, <1>6 DEF StartRollback, ImportTrees, Unhurt
<1> QED BY <1>3, <1>4, <1>5, <1>6

\* What Do makes of an importer.
LEMMA DoMakes ==
  ASSUME NEW i \in Importer, NEW at \in Placed, NEW todo \in Seq(ImportFile), NEW done \in Seq(ImportFile), Do(i, at, todo, done)
  PROVE  \E c \in ImporterRecord : c.at = at /\ c.todo = todo /\ importer' = [importer EXCEPT ![i] = c]
<1>1. PICK c : c = [at |-> at, todo |-> todo, committed |-> done]
  OBVIOUS
<1>2. c \in ImporterRecord /\ c.at = at /\ c.todo = todo
  BY <1>1 DEF ImporterRecord
<1> QED BY <1>1, <1>2 DEF Do

\* Giving up the lock.
LEMMA GivesUpKeeps ==
  ASSUME ImportInv, NEW i \in Importer, importer[i].at # "idle", UnlockPlan(i),
         UNCHANGED <<plan, source, dest, edits, touched>>, stage' \in [ImportFile -> Approved],
         receipt' = "executed" => receipt = "executed"
  PROVE  Keeps
<1>1. << >> \in Seq(ImportFile)
  OBVIOUS
<1>2. NotImporting \in ImporterRecord /\ NotImporting.at = "idle"
  BY <1>1 DEF NotImporting, ImporterRecord, Placed
<1>3. Accounted(NotImporting)'
  BY <1>2 DEF Accounted, Committing, Linked, AtUnlink
<1>4. importer' = [importer EXCEPT ![i] = NotImporting]
  BY DEF UnlockPlan
<1> QED BY <1>2, <1>3, <1>4, HolderMoves DEF Underway

\* A step of the holder to another place that leaves the trees.
LEMMA HolderGoes ==
  ASSUME ImportInv, NEW i \in Importer, importer[i].at # "idle",
         NEW at \in Placed \ AtUnlink, NEW todo \in Seq(ImportFile), NEW done \in Seq(ImportFile), Do(i, at, todo, done),
         UNCHANGED <<plan, source, dest, edits, touched, planLock>>, stage' \in [ImportFile -> Approved],
         at \in Committing \cup Linked => \A f \in ImportFile : f \in ToSet(todo) \/ Whole(f),
         at \in Linked => todo # << >> /\ Whole(Head(todo)),
         receipt' = "executed" => receipt = "executed" \/ \A f \in ImportFile : Whole(f),
         at \in Underway => receipt' # "executed"
  PROVE  Keeps
<1>1. PICK c \in ImporterRecord : c.at = at /\ c.todo = todo /\ importer' = [importer EXCEPT ![i] = c]
  BY DoMakes
<1>2. \A f : Whole(f) => Whole(f)'
  BY DEF Whole, MatchesPlan
<1>3. Accounted(c)'
  BY <1>1, <1>2 DEF Accounted
<1> QED BY <1>1, <1>3, HolderMoves

\* A removal has found the planned content: the gap before its unlink opens.
LEMMA GapOpens ==
  ASSUME ImportInv, NEW i \in Importer, importer[i].at # "idle",
         NEW at \in AtUnlink, NEW todo \in Seq(ImportFile), Do(i, at, todo, << >>), todo # << >>,
         MatchesPlan(dest, IF at = "abort_unlink" THEN Last(todo) ELSE Head(todo)),
         UNCHANGED <<plan, source, dest, stage, edits, touched, planLock, receipt>>,
         at \in Underway => receipt # "executed"
  PROVE  Keeps
<1>1. << >> \in Seq(ImportFile) /\ at \in Placed
  BY DEF Placed
<1>2. PICK c \in ImporterRecord : c.at = at /\ c.todo = todo /\ importer' = [importer EXCEPT ![i] = c]
  <2>1. PICK done \in Seq(ImportFile) : done = << >>
    BY <1>1
  <2>2. Do(i, at, todo, done)
    BY <2>1
  <2> QED BY <1>1, <2>2, DoMakes
<1>3. Condemned(c) = IF at = "abort_unlink" THEN Last(todo) ELSE Head(todo)
  BY <1>2 DEF Condemned
<1>4. Condemned(c) \in ImportFile /\ plan \in [ImportFile -> Approved]
  BY <1>3, ToSetFacts DEF ImportInv, ImportTyped
<1>5. dest[Condemned(c)] # "user"
  BY <1>3, <1>4 DEF MatchesPlan, Approved, Absent
<1>6. Accounted(c)'
  BY <1>2, <1>5 DEF Accounted, Seen, Condemned, Committing, Linked, AtUnlink
<1>7. stage' \in [ImportFile -> Approved] /\ touched \subseteq touched'
  BY DEF ImportInv, ImportTyped
<1> QED BY <1>2, <1>6, <1>7, HolderMoves

\* The steps that leave the destination alone.
LEMMA MovesKeep ==
  ASSUME ImportInv, NEW i \in Importer,
         \/ StageFile(i) \/ PrepareJournal(i) \/ SkipInstalled(i) \/ CannotLink(i) \/ UnlinkStage(i)
         \/ RecordCommitted(i) \/ WriteExecuted(i) \/ Settle(i) \/ AbortRecord(i) \/ Unstage(i)
         \/ RolledBack(i) \/ ImportWriteFails(i) \/ ImporterCrash(i)
  PROVE  Keeps
<1> DEFINE d == importer[i]
<1>1. d.at # "idle"
  BY DEF StageFile, PrepareJournal, SkipInstalled, CannotLink, UnlinkStage, RecordCommitted, WriteExecuted, Settle,
         AbortRecord, Unstage, RolledBack, ImportWriteFails, ImporterCrash, ImporterAt
<1>2. /\ d \in ImporterRecord /\ Accounted(d) /\ (d.at \in Underway => receipt # "executed")
      /\ d.todo \in Seq(ImportFile) /\ d.committed \in Seq(ImportFile) /\ << >> \in Seq(ImportFile)
      /\ stage \in [ImportFile -> Approved] /\ plan \in [ImportFile -> Approved]
      /\ source \in [ImportFile -> {"v1", "v2"}]
  BY <1>1, HolderFacts DEF ImporterRecord, ImportInv, ImportTyped
<1>3. PlanFiles \in Seq(ImportFile) /\ ToSet(PlanFiles) = ImportFile
  BY PlanAssumption DEF ImportFile
<1>4. d.todo # << >> => /\ Head(d.todo) \in ImportFile /\ Tail(d.todo) \in Seq(ImportFile)
                        /\ \A f \in ToSet(d.todo) : f = Head(d.todo) \/ f \in ToSet(Tail(d.todo))
  BY <1>2, ToSetFacts
<1>5. Unplanned \in [ImportFile -> Approved]
  BY DEF Unplanned, Approved
<1>6. CASE StageFile(i)
  <2>1. Head(d.todo) \in ImportFile /\ Tail(d.todo) \in Seq(ImportFile) /\ d.at = "stage"
    BY <1>4, <1>6 DEF StageFile, ImporterAt
  <2>2. UNCHANGED <<plan, source, dest, edits, touched, planLock, receipt>>
    BY <1>6 DEF StageFile, Unhurt
  <2>3. CASE Do(i, "stage", Tail(d.todo), << >>) /\ stage' = [stage EXCEPT ![Current(i)] = source[Current(i)]]
    <3>1. stage' \in [ImportFile -> Approved]
      BY <1>2, <2>1, <2>3 DEF Approved, Current
    <3> QED BY <1>1, <1>2, <2>1, <2>2, <2>3, <3>1, HolderGoes DEF Placed, Committing, Linked, AtUnlink, Underway
  <2>4. CASE Do(i, "unstaged", << >>, << >>) /\ UNCHANGED stage
    BY <1>1, <1>2, <2>1, <2>2, <2>4, HolderGoes DEF Placed, Committing, Linked, AtUnlink, Underway
  <2> QED BY <1>6, <2>3, <2>4 DEF StageFile
<1>7. CASE PrepareJournal(i)
  <2>1. Do(i, "commit", PlanFiles, << >>) /\ UNCHANGED <<plan, source, dest, stage, edits, touched, planLock, receipt>> /\ d.at = "stage"
    BY <1>7 DEF PrepareJournal, Unhurt, ImportTrees, ImporterAt
  <2> QED BY <1>1, <1>2, <1>3, <2>1, HolderGoes DEF Placed, Committing, Linked, AtUnlink, Underway
<1>8. CASE SkipInstalled(i)
  <2>1. /\ Do(i, "reconcile_linked", d.todo, Append(d.committed, Current(i))) /\ d.at = "reconcile" /\ d.todo # << >>
        /\ MatchesPlan(dest, Current(i)) /\ UNCHANGED <<plan, source, dest, stage, edits, touched, planLock, receipt>>
    BY <1>8 DEF SkipInstalled, Unhurt, ImportTrees, ImporterAt, Installed
  <2>2. Append(d.committed, Current(i)) \in Seq(ImportFile) /\ Whole(Head(d.todo))
    BY <1>2, <1>4, <2>1 DEF Current, Whole
  <2>3. \A f \in ImportFile : f \in ToSet(d.todo) \/ Whole(f)
    BY <1>2, <2>1 DEF Accounted, Committing
  <2> QED BY <1>1, <1>2, <2>1, <2>2, <2>3, HolderGoes DEF Placed, Committing, Linked, AtUnlink, Underway
<1>9. CASE CannotLink(i)
  <2>1. UNCHANGED <<plan, source, dest, stage, edits, touched, receipt>> /\ d.at \in Committing
    BY <1>9 DEF CannotLink, Unhurt, ImportTrees, Committing
  <2>2. CASE Do(i, "abort", d.committed, << >>) /\ UNCHANGED planLock
    BY <1>1, <1>2, <2>1, <2>2, HolderGoes DEF Placed, Committing, Linked, AtUnlink, Underway
  <2>3. CASE UnlockPlan(i)
    BY <1>1, <1>2, <2>1, <2>3, GivesUpKeeps
  <2> QED BY <1>9, <2>2, <2>3 DEF CannotLink
<1>10. CASE UnlinkStage(i)
  <2>1. /\ UNCHANGED <<plan, source, dest, edits, touched, raced, receipt, planLock, importer>>
        /\ stage' = [stage EXCEPT ![Current(i)] = Absent]
    BY <1>10 DEF UnlinkStage, Unhurt
  <2>2. stage' \in [ImportFile -> Approved]
    BY <1>2, <2>1 DEF Approved
  <2>3. ImportInv'
    BY <2>1, <2>2 DEF ImportInv, ImportTyped, Accounted, Seen, Whole, MatchesPlan, Unplanned, ExecutedIsWhole
  <2> QED BY <2>1, <2>3 DEF Keeps
<1>11. CASE RecordCommitted(i)
  <2>1. PICK at : at = IF d.at = "commit_linked" THEN "commit" ELSE "reconcile"
    OBVIOUS
  <2>2. /\ Do(i, at, Tail(d.todo), d.committed) /\ d.at \in Linked
        /\ UNCHANGED <<plan, source, dest, stage, edits, touched, planLock, receipt>>
    BY <1>11, <2>1 DEF RecordCommitted, Unhurt, ImportTrees, ImporterAt, Linked
  <2>3. d.todo # << >> /\ \A f \in ImportFile : f \in ToSet(Tail(d.todo)) \/ Whole(f)
    BY <1>2, <1>4, <2>2 DEF Accounted
  <2> QED BY <1>1, <1>2, <1>4, <2>1, <2>2, <2>3, HolderGoes DEF Placed, Committing, Linked, AtUnlink, Underway
<1>12. CASE WriteExecuted(i)
  <2>1. /\ Do(i, "settle", << >>, << >>) /\ d.at \in Committing /\ d.todo = << >>
        /\ UNCHANGED <<plan, source, dest, stage, edits, touched, planLock>>
    BY <1>12 DEF WriteExecuted, Unhurt, ImportTrees, Committing
  <2>2. \A f \in ImportFile : Whole(f)
    BY <1>2, <2>1, ToSetFacts DEF Accounted
  <2> QED BY <1>1, <1>2, <2>1, <2>2, HolderGoes DEF Placed, Committing, Linked, AtUnlink, Underway
<1>13. CASE Settle(i) \/ Unstage(i)
  BY <1>1, <1>5, <1>13, GivesUpKeeps DEF Settle, Unstage, Unhurt
<1>14. CASE AbortRecord(i)
  <2>1. Do(i, "unstaged", << >>, << >>) /\ UNCHANGED <<plan, source, dest, stage, edits, touched, planLock, receipt>> /\ d.at = "abort"
    BY <1>14 DEF AbortRecord, ImportTrees, ImporterAt
  <2> QED BY <1>1, <1>2, <2>1, HolderGoes DEF Placed, Committing, Linked, AtUnlink, Underway
<1>15. CASE RolledBack(i)
  BY <1>1, <1>2, <1>15, GivesUpKeeps DEF RolledBack, Unhurt, ImportTrees
<1>16. CASE ImportWriteFails(i)
  <2>1. UNCHANGED <<plan, source, dest, edits, touched, receipt>>
    BY <1>16 DEF ImportWriteFails
  <2>2. CASE d.at \in {"commit", "commit_linked"} /\ Do(i, "abort", d.committed, << >>) /\ UNCHANGED <<planLock, stage>>
    BY <1>1, <1>2, <2>1, <2>2, HolderGoes DEF Placed, Committing, Linked, AtUnlink, Underway
  <2>3. CASE d.at = "stage" /\ Do(i, "unstaged", << >>, << >>) /\ UNCHANGED <<planLock, stage>>
    BY <1>1, <1>2, <2>1, <2>3, HolderGoes DEF Placed, Committing, Linked, AtUnlink, Underway
  <2>5. CASE d.at = "abort_unlink" /\ Do(i, "abort", Front(d.todo), << >>) /\ UNCHANGED <<planLock, stage>>
    <3>1. Front(d.todo) \in Seq(ImportFile)
      BY <1>2, <2>5, ToSetFacts DEF Accounted, AtUnlink
    <3> QED BY <1>1, <1>2, <2>1, <2>5, <3>1, HolderGoes DEF Placed, Committing, Linked, AtUnlink, Underway
  <2>4. CASE UnlockPlan(i) /\ (stage' = Unplanned \/ stage' = stage)
    BY <1>1, <1>2, <1>5, <2>1, <2>4, GivesUpKeeps
  <2> QED BY <1>16, <2>2, <2>3, <2>4, <2>5 DEF ImportWriteFails, ImporterAt
<1>17. CASE ImporterCrash(i)
  BY <1>1, <1>2, <1>17, GivesUpKeeps DEF ImporterCrash, ImportTrees
<1> QED BY <1>6, <1>7, <1>8, <1>9, <1>10, <1>11, <1>12, <1>13, <1>14, <1>15, <1>16, <1>17

\* The steps that link a file into the destination or take one back.
LEMMA TreesKeep ==
  ASSUME ImportInv, NEW i \in Importer, \/ LinkFile(i) \/ AbortCheck(i) \/ AbortUnlink(i) \/ RollbackCheck(i) \/ RollbackUnlink(i)
  PROVE  Keeps
<1> DEFINE d == importer[i]
<1>1. d.at # "idle"
  BY DEF LinkFile, AbortCheck, AbortUnlink, RollbackCheck, RollbackUnlink, ImporterAt
<1>2. /\ d \in ImporterRecord /\ Accounted(d) /\ (d.at \in Underway => receipt # "executed")
      /\ d.todo \in Seq(ImportFile) /\ d.committed \in Seq(ImportFile) /\ << >> \in Seq(ImportFile)
      /\ planLock = {i} /\ plan # Unplanned /\ \A j \in Importer \ {i} : importer[j].at = "idle"
      /\ stage \in [ImportFile -> Approved] /\ plan \in [ImportFile -> Approved] /\ dest \in [ImportFile -> Approved \cup {"user"}]
      /\ source \in [ImportFile -> {"v1", "v2"}]
  BY <1>1, HolderFacts DEF ImporterRecord, ImportInv, ImportTyped
<1>4. d.todo # << >> => /\ Head(d.todo) \in ImportFile /\ Tail(d.todo) \in Seq(ImportFile)
                        /\ \A f \in ToSet(d.todo) : f = Head(d.todo) \/ f \in ToSet(Tail(d.todo))
                        /\ Last(d.todo) \in ImportFile /\ Front(d.todo) \in Seq(ImportFile)
  BY <1>2, ToSetFacts
<1>5. CASE LinkFile(i)
  <2>1. PICK f \in ImportFile : f = Head(d.todo) /\ d.todo # << >> /\ d.at \in Committing /\ dest[f] = Absent /\ stage[f] = plan[f]
                          /\ dest' = [dest EXCEPT ![f] = plan[f]]
    BY <1>4, <1>5 DEF LinkFile, Linkable, MatchesPlan, Current, Committing
  <2>2. UNCHANGED <<source, stage, plan, receipt, planLock, edits, touched>>
    BY <1>5 DEF LinkFile, Unhurt
  <2>3. PICK at : at = IF d.at = "commit" THEN "commit_linked" ELSE "reconcile_linked"
    OBVIOUS
  <2>4. Do(i, at, d.todo, Append(d.committed, f)) /\ at \in Placed /\ Append(d.committed, f) \in Seq(ImportFile) /\ at \in Underway
    BY <1>2, <1>5, <2>1, <2>3 DEF LinkFile, ImporterAt, Current, Placed, Underway
  <2>5. PICK c \in ImporterRecord : c.at = at /\ c.todo = d.todo /\ importer' = [importer EXCEPT ![i] = c]
    <3>1. PICK c : c = [at |-> at, todo |-> d.todo, committed |-> Append(d.committed, f)]
      OBVIOUS
    <3>2. c \in ImporterRecord /\ c.at = at /\ c.todo = d.todo
      BY <1>2, <2>4, <3>1 DEF ImporterRecord
    <3> QED BY <2>4, <3>1, <3>2 DEF Do
  <2>6. \A g \in ImportFile : Whole(g) => Whole(g)'
    BY <1>2, <2>1, <2>2 DEF Whole, MatchesPlan
  <2>7. Whole(f)'
    BY <1>2, <2>1, <2>2 DEF Whole, MatchesPlan
  <2>8. Accounted(c)'
    BY <1>2, <2>1, <2>3, <2>5, <2>6, <2>7 DEF Accounted, Committing, Linked, AtUnlink
  <2>9. dest' \in [ImportFile -> Approved \cup {"user"}]
    BY <1>2, <2>1
  <2>10. ImportInv'
    BY <1>2, <2>2, <2>4, <2>5, <2>6, <2>8, <2>9, <2>1, StepKeeps DEF Committing, Underway
  <2> QED BY <1>2, <2>1, <2>10 DEF Keeps, Absent
<1>6. CASE AbortCheck(i)
  <2>1. /\ UNCHANGED <<plan, source, dest, stage, edits, touched, planLock, receipt>>
        /\ d.at = "abort" /\ d.todo # << >>
    BY <1>6 DEF AbortCheck, Unhurt, ImportTrees, ImporterAt
  <2>2. CASE Do(i, "abort", Front(d.todo), << >>)
    BY <1>1, <1>2, <1>4, <2>1, <2>2, HolderGoes DEF Placed, Committing, Linked, AtUnlink, Underway
  <2>3. CASE Do(i, "abort_unlink", d.todo, << >>) /\ MatchesPlan(dest, Last(d.todo))
    BY <1>1, <1>2, <1>4, <2>1, <2>3, GapOpens DEF AtUnlink, Underway
  <2> QED BY <1>6, <2>2, <2>3 DEF AbortCheck, Removable
<1>7. CASE RollbackCheck(i)
  <2>1. /\ UNCHANGED <<plan, source, dest, stage, edits, touched, receipt>>
        /\ d.at = "rollback" /\ d.todo # << >>
    BY <1>7 DEF RollbackCheck, Unhurt, ImportTrees, ImporterAt
  <2>2. CASE Do(i, "rollback", Tail(d.todo), << >>) /\ UNCHANGED planLock
    BY <1>1, <1>2, <1>4, <2>1, <2>2, HolderGoes DEF Placed, Committing, Linked, AtUnlink, Underway
  <2>3. CASE Do(i, "rollback_unlink", d.todo, << >>) /\ UNCHANGED planLock /\ MatchesPlan(dest, Head(d.todo))
    BY <1>1, <1>2, <1>4, <2>1, <2>3, GapOpens DEF AtUnlink, Underway
  <2>4. CASE UnlockPlan(i)
    BY <1>1, <1>2, <2>1, <2>4, GivesUpKeeps
  <2> QED BY <1>7, <2>2, <2>3, <2>4 DEF RollbackCheck, Removable, Current
<1>8. CASE AbortUnlink(i) \/ RollbackUnlink(i)
  <2>1. d.at \in AtUnlink /\ d.todo # << >> /\ Seen(Condemned(d)) /\ Condemned(d) \in ImportFile
    BY <1>2, <1>4, <1>8 DEF AbortUnlink, RollbackUnlink, ImporterAt, AtUnlink, Accounted, Condemned
  <2>2. /\ UNCHANGED <<source, stage, plan, receipt, edits>>
        /\ dest' = [dest EXCEPT ![Condemned(d)] = Absent]
    BY <1>8 DEF AbortUnlink, RollbackUnlink
  <2>3. dest' \in [ImportFile -> Approved \cup {"user"}]
    BY <1>2, <2>1, <2>2 DEF Approved
  <2>4. \A f \in ImportFile : dest[f] = "user" /\ dest'[f] # "user" => f \in raced
    BY <1>2, <2>1, <2>2 DEF Seen
  <2>5. \E at \in {"abort", "rollback", "idle"} : \E c \in ImporterRecord :
          /\ c.at = at /\ importer' = [importer EXCEPT ![i] = c]
          /\ at # "idle" => planLock' = planLock
          /\ at = "abort" => d.at = "abort_unlink"
    <3>1. CASE Do(i, "abort", Front(d.todo), << >>) /\ UNCHANGED planLock /\ d.at = "abort_unlink"
      <4>1. "abort" \in Placed /\ Front(d.todo) \in Seq(ImportFile)
        BY <1>4, <2>1 DEF Placed
      <4>2. \E c \in ImporterRecord : c.at = "abort" /\ importer' = [importer EXCEPT ![i] = c]
        <5>1. PICK todo \in Seq(ImportFile), done \in Seq(ImportFile) : todo = Front(d.todo) /\ done = << >>
          BY <1>2, <4>1
        <5>2. Do(i, "abort", todo, done)
          BY <3>1, <5>1
        <5> QED BY <4>1, <5>2, DoMakes
      <4> QED BY <3>1, <4>2
    <3>2. CASE Do(i, "rollback", Tail(d.todo), << >>) /\ UNCHANGED planLock
      <4>1. "rollback" \in Placed /\ Tail(d.todo) \in Seq(ImportFile)
        BY <1>4, <2>1 DEF Placed
      <4>2. \E c \in ImporterRecord : c.at = "rollback" /\ importer' = [importer EXCEPT ![i] = c]
        <5>1. PICK todo \in Seq(ImportFile), done \in Seq(ImportFile) : todo = Tail(d.todo) /\ done = << >>
          BY <1>2, <4>1
        <5>2. Do(i, "rollback", todo, done)
          BY <3>2, <5>1
        <5> QED BY <4>1, <5>2, DoMakes
      <4> QED BY <3>2, <4>2
    <3>3. CASE UnlockPlan(i)
      <4>1. NotImporting \in ImporterRecord /\ NotImporting.at = "idle"
        BY <1>2 DEF NotImporting, ImporterRecord, Placed
      <4> QED BY <3>3, <4>1 DEF UnlockPlan
    <3> QED BY <1>8, <3>1, <3>2, <3>3 DEF AbortUnlink, RollbackUnlink, ImporterAt
  <2>11. PICK at \in {"abort", "rollback", "idle"}, c \in ImporterRecord :
          /\ c.at = at /\ importer' = [importer EXCEPT ![i] = c]
          /\ at # "idle" => planLock' = planLock
          /\ at = "abort" => d.at = "abort_unlink"
    BY <2>5
  <2>12. c.at = at
    BY <2>11
  <2>6. Accounted(c)'
    BY <2>12 DEF Accounted, Committing, Linked, AtUnlink
  <2>7. (\A f \in ImportFile : Whole(f) => Whole(f)') \/ receipt' # "executed"
    <3>1. CASE AbortUnlink(i)
      BY <1>2, <2>2, <3>1 DEF AbortUnlink, ImporterAt, Underway
    <3>2. CASE RollbackUnlink(i)
      BY <1>2, <2>1, <2>2, <3>2 DEF RollbackUnlink, Whole, MatchesPlan
    <3> QED BY <1>8, <3>1, <3>2
  <2>8. c.at \in Underway => receipt' # "executed"
    BY <1>2, <2>2, <2>11 DEF Underway
  <2>9. receipt' = "executed" => receipt = "executed"
    BY <2>2
  <2>10. ImportInv'
    BY <1>2, <2>2, <2>3, <2>11, <2>6, <2>7, <2>8, <2>9, StepKeeps
  <2> QED BY <2>4, <2>10 DEF Keeps
<1> QED BY <1>5, <1>6, <1>7, <1>8

\* The user and the end of a process disturb no importer.
LEMMA UserKeeps ==
  ASSUME ImportInv, BuildImport \/ \E f \in ImportFile : EditSource(f) \/ EditDestination(f)
  PROVE  Keeps
<1>1. CASE BuildImport
  <2>1. /\ plan = Unplanned /\ receipt = "none" /\ \A i \in Importer : importer[i].at = "idle"
        /\ plan' \in [ImportFile -> Approved]
        /\ UNCHANGED <<source, dest, stage, receipt, planLock, importer, edits, touched>>
    BY <1>1 DEF BuildImport, ImportInv, ImportTyped, Unhurt, Inspection, DigestSourceFile, Approved
  <2>2. ImportInv'
    BY <2>1 DEF ImportInv, ImportTyped, Accounted, Committing, Linked, AtUnlink, Underway, ExecutedIsWhole
  <2> QED BY <2>1, <2>2 DEF Keeps
<1>2. ASSUME NEW f \in ImportFile, EditSource(f)
      PROVE  Keeps
  <2>1. /\ UNCHANGED <<dest, stage, plan, receipt, planLock, importer, touched, raced>>
        /\ source' \in [ImportFile -> {"v1", "v2"}]
    BY <1>2 DEF EditSource, ImportInv, ImportTyped
  <2>2. ImportInv'
    BY <2>1 DEF ImportInv, ImportTyped, Accounted, Seen, Whole, MatchesPlan, Unplanned, ExecutedIsWhole
  <2> QED BY <2>1, <2>2 DEF Keeps
<1>3. ASSUME NEW f \in ImportFile, EditDestination(f)
      PROVE  Keeps
  <2>1. /\ UNCHANGED <<source, stage, plan, receipt, planLock, importer>> /\ touched' = touched \cup {f} /\ edits' # edits
        /\ dest' \in [ImportFile -> Approved \cup {"user"}] /\ \A g \in ImportFile \ {f} : dest'[g] = dest[g]
    BY <1>3 DEF EditDestination, ImportInv, ImportTyped, Approved
  <2>2. \A g \in ImportFile : Whole(g) => Whole(g)'
    BY <2>1 DEF Whole, MatchesPlan
  <2>3. ASSUME NEW i \in Importer
        PROVE  \A d : d = importer[i] => Accounted(d)'
    <3>1. PICK d : d = importer[i]
      OBVIOUS
    <3>2. Accounted(d) /\ d \in ImporterRecord
      BY <3>1 DEF ImportInv, ImportTyped
    <3>3. d.at \in Linked => Head(d.todo) \in ImportFile
      BY <3>2, ToSetFacts DEF ImporterRecord, Accounted
    <3>5. d.at \in AtUnlink => Seen(Condemned(d))'
      <4>1. d.at \in AtUnlink => Condemned(d) \in ImportFile
        BY <3>2, ToSetFacts DEF Accounted, ImporterRecord, Condemned, AtUnlink
      <4>2. d.at \in AtUnlink /\ Condemned(d) = f => f \in raced'
        BY <1>3, <3>1 DEF EditDestination, InGap
      <4>3. CASE d.at \in AtUnlink /\ Condemned(d) # f
        <5>1. raced' = raced
          <6>1. \A j \in Importer : importer[j].at \in AtUnlink => j = i
            BY <3>1, <4>3 DEF ImportInv, AtUnlink
          <6> QED BY <1>3, <3>1, <4>3, <6>1 DEF EditDestination, InGap
        <5> QED BY <2>1, <3>2, <4>1, <4>3, <5>1 DEF Accounted, Seen
      <4> QED BY <4>1, <4>2, <4>3 DEF Seen
    <3>4. Accounted(d)'
      BY <2>2, <3>2, <3>3, <3>5 DEF Accounted
    <3> QED BY <3>1, <3>4
  <2>4. \A i \in Importer : Accounted(importer[i])'
    BY <2>1, <2>3
  <2>5. ExecutedIsWhole'
    BY <2>1, <2>2 DEF ImportInv, ExecutedIsWhole, Whole
  <2>6. ImportInv'
    BY <2>1, <2>4, <2>5 DEF ImportInv, ImportTyped, Unplanned
  <2> QED BY <2>1, <2>6 DEF Keeps
<1> QED BY <1>1, <1>2, <1>3

\* An executed import has every approved file in place, and no file the user wrote is
\* replaced or removed by an import (Execute, reconcile and Rollback of workspaceimport).
THEOREM ImportIsSafe == ImportSpec => ImportSafe
<1>1. ImportInit => ImportInv
  <2>1. << >> \in Seq(ImportFile)
    OBVIOUS
  <2>2. NotImporting \in ImporterRecord /\ NotImporting.at = "idle"
    BY <2>1 DEF NotImporting, ImporterRecord, Placed
  <2> QED BY <2>2 DEF ImportInit, ImportInv, ImportTyped, Unplanned, Approved, Accounted, Committing, Linked, AtUnlink, Underway, ExecutedIsWhole
<1>2. ImportInv /\ [ImportNext]_importVars => Keeps
  <2> SUFFICES ASSUME ImportInv, [ImportNext]_importVars
               PROVE  Keeps
    OBVIOUS
  <2>1. CASE UNCHANGED importVars
    <3>1. UNCHANGED <<source, dest, stage, plan, receipt, planLock, importer, touched, raced>>
      BY <2>1 DEF importVars
    <3>2. ImportInv'
      BY <3>1 DEF ImportInv, ImportTyped, Accounted, Seen, Whole, MatchesPlan, Unplanned, ExecutedIsWhole
    <3> QED BY <3>1, <3>2 DEF Keeps
  <2>2. CASE ImportNext
    BY <2>2, EntersKeep, MovesKeep, TreesKeep, UserKeeps DEF ImportNext
  <2> QED BY <2>1, <2>2
<1>3. ImportInv => ExecutedIsWhole
  BY DEF ImportInv
<1>4. Keeps => ImportInv'
  BY DEF Keeps
<1>5. Keeps => \A f \in ImportFile : dest[f] = "user" /\ dest'[f] # "user" => edits' # edits \/ f \in raced
  BY DEF Keeps
<1>6. ImportSpec => []ImportInv
  BY <1>1, <1>2, <1>4, PTL DEF ImportSpec
<1>7. ImportInv /\ [ImportNext]_importVars =>
        [\A f \in ImportFile : dest[f] = "user" /\ dest'[f] # "user" => edits' # edits \/ f \in raced]_importVars
  BY <1>2, <1>5
<1>8. ImportSpec => UserFilesKept
  BY <1>6, <1>7, PTL DEF ImportSpec, UserFilesKept
<1> QED BY <1>3, <1>6, <1>8, PTL DEF ImportSafe


-----------------------------------------------------------------------------
(***************************************************************************)
(* RuntimeProjection. A file the user has not touched is what it was       *)
(* before the operation, or is remembered in the snapshot and still to be  *)
(* put back; and what an operation changes was not the user's when it      *)
(* checked for conflicts.                                                  *)
(***************************************************************************)
Value == {NoFile, User, 1} \cup Tracks
ChangeSet == [file : ManagedFile, value : Value \ {User}]
\* Changes of files in a snapshot that replace nothing of the user's in the files given.
AllowedChanges(files, D) ==
  {c \in ChangeSet : c.file \in D /\ (c.file \in ProjectionFile => files[c.file] # User)}

\* An operation under way, over the files before it and what the user edited since.
Remembers(o) == DOMAIN o.snapshot \subseteq ManagedFile /\ DOMAIN o.snapshot # {} /\
                \A f \in DOMAIN o.snapshot : o.snapshot[f] = before[f]
Untouched(f) == f \in touchedByUser \/ managedFiles[f] = before[f]
OperationInv(o) ==
  /\ o.at \in {"none", "change", "restore", "restored"}
  /\ o.at = "none" => o = NoOperation
  /\ o.at \in {"change", "restore"} =>
       /\ o = [at |-> o.at, plan |-> o.plan, snapshot |-> o.snapshot] /\ o.plan # << >> /\ Remembers(o)
       /\ \A f \in ManagedFile : f \in DOMAIN o.snapshot \/ Untouched(f)
  /\ o.at = "change" => o.plan \in Seq(AllowedChanges(before, DOMAIN o.snapshot))
  /\ o.at = "restore" => /\ o.plan \in Seq(DOMAIN o.snapshot)
                         /\ \A f \in DOMAIN o.snapshot : f \in ToSet(o.plan) \/ Untouched(f)
  /\ o.at = "restored" => \A f \in ManagedFile : Untouched(f)
ManagedTyped ==
  /\ managedFiles \in [ManagedFile -> Value] /\ before \in [ManagedFile -> Value]
  /\ managedFiles["manifest"] # User /\ before["manifest"] # User /\ editsByUser \in Nat
ProjectionInv ==
  /\ ManagedTyped
  /\ \A f \in ManagedFile : managedFiles[f] = User => f \in touchedByUser \/ before[f] = User
  /\ OperationInv(operation)

\* A finite set put in a sequence.
LEMMA SetToSeqFacts ==
  ASSUME NEW S, IsFiniteSet(S)
  PROVE  SetToSeq(S) \in Seq(S) /\ ToSet(SetToSeq(S)) = S
<1>1. PICK n \in Nat : n = Cardinality(S) /\ ExistsBijection(1..n, S)
  BY FS_CardinalityType
<1>2. PICK f \in Bijection(1..n, S) : TRUE
  BY <1>1 DEF ExistsBijection
<1>3. f \in [1..n -> S] /\ IsInjective(f)
  BY <1>2 DEF Bijection, Injection
<1>4. PICK g : g = SetToSeq(S)
  OBVIOUS
<1>5. g \in [1..n -> S] /\ IsInjective(g)
  BY <1>1, <1>3, <1>4 DEF SetToSeq
<1>6. IsFiniteSet(1..n) /\ Cardinality(1..n) = n
  BY <1>1, FS_Interval
<1>7. g \in Injection(1..n, S)
  BY <1>5 DEF Injection
<1>8. g \in Surjection(1..n, S)
  BY <1>1, <1>6, <1>7, FS_Injection
<1>9. g \in Seq(S) /\ DOMAIN g = 1..n
  BY <1>5
<1>10. ToSet(g) = S
  BY <1>5, <1>8 DEF ToSet, Surjection
<1> QED BY <1>4, <1>9, <1>10

\* There are finitely many managed files.
LEMMA ManagedFileFinite ==
  ASSUME NEW S \in SUBSET ManagedFile
  PROVE  IsFiniteSet(S)
<1>1. IsFiniteSet({"orientation", "skillA", "skillB", "policy", "manifest", "agents", "exclude", "settings"})
  <2>1. IsFiniteSet({"orientation"})
    BY FS_Singleton
  <2>2. IsFiniteSet({"orientation"} \cup {"skillA"})
    BY <2>1, FS_AddElement
  <2>3. IsFiniteSet({"orientation"} \cup {"skillA"} \cup {"skillB"})
    BY <2>2, FS_AddElement
  <2>4. IsFiniteSet({"orientation"} \cup {"skillA"} \cup {"skillB"} \cup {"policy"})
    BY <2>3, FS_AddElement
  <2>5. IsFiniteSet({"orientation"} \cup {"skillA"} \cup {"skillB"} \cup {"policy"} \cup {"manifest"})
    BY <2>4, FS_AddElement
  <2>6. IsFiniteSet({"orientation"} \cup {"skillA"} \cup {"skillB"} \cup {"policy"} \cup {"manifest"} \cup {"agents"})
    BY <2>5, FS_AddElement
  <2>7. IsFiniteSet({"orientation"} \cup {"skillA"} \cup {"skillB"} \cup {"policy"} \cup {"manifest"} \cup {"agents"} \cup {"exclude"})
    BY <2>6, FS_AddElement
  <2>8. PICK T : T = {"orientation"} \cup {"skillA"} \cup {"skillB"} \cup {"policy"} \cup {"manifest"} \cup {"agents"} \cup {"exclude"} \cup {"settings"}
    OBVIOUS
  <2>9. IsFiniteSet(T)
    BY <2>7, <2>8, FS_AddElement
  <2>10. T = {"orientation", "skillA", "skillB", "policy", "manifest", "agents", "exclude", "settings"}
    BY <2>8
  <2> QED BY <2>9, <2>10
<1>2. ManagedFile = {"orientation", "skillA", "skillB", "policy", "manifest", "agents", "exclude", "settings"}
  BY DEF ManagedFile, ProjectionFile, AdapterFile
<1> QED BY <1>1, <1>2, FS_Subset

\* Changes of a set of files to one value, as a sequence of allowed changes.
LEMMA ChangesFacts ==
  ASSUME NEW S \in SUBSET ManagedFile, NEW value \in Value \ {User}, NEW A, \A f \in S : Change(f, value) \in A
  PROVE  SetToSeq({Change(f, value) : f \in S}) \in Seq(A)
<1>1. PICK T : T = {Change(f, value) : f \in S}
  OBVIOUS
<1>2. PICK g : g = [f \in S |-> Change(f, value)]
  OBVIOUS
<1>3. g \in Surjection(S, T)
  BY <1>1, <1>2 DEF Surjection
<1>4. IsFiniteSet(T) /\ T \subseteq A
  BY <1>1, <1>3, ManagedFileFinite, FS_Surjection
<1>5. SetToSeq(T) \in Seq(T)
  BY <1>4, SetToSeqFacts
<1>6. SetToSeq(T) \in Seq(A)
  BY <1>4, <1>5
<1> QED BY <1>1, <1>6

\* The head and the tail of a sequence.
LEMMA TailFacts ==
  ASSUME NEW S, NEW s \in Seq(S), s # << >>
  PROVE  /\ Head(s) \in S /\ Tail(s) \in Seq(S) /\ (Len(s) # 1 => Tail(s) # << >>)
         /\ \A f \in ToSet(s) : f = Head(s) \/ (f \in ToSet(Tail(s)) /\ Len(s) # 1)
<1>1. Len(s) \in Nat /\ Len(s) > 0 /\ Head(s) = s[1] /\ Tail(s) \in Seq(S) /\ Len(Tail(s)) = Len(s) - 1
      /\ \A k \in 1..(Len(s) - 1) : Tail(s)[k] = s[k + 1]
  OBVIOUS
<1>2. ASSUME NEW f \in ToSet(s), f # Head(s)
      PROVE  f \in ToSet(Tail(s)) /\ Len(s) # 1
  <2>1. PICK k \in 1..Len(s) : s[k] = f
    BY DEF ToSet
  <2>2. k - 1 \in 1..(Len(s) - 1) /\ k - 1 + 1 = k /\ Len(s) # 1
    BY <1>1, <1>2, <2>1
  <2>3. Tail(s)[k - 1] = f
    BY <1>1, <2>1, <2>2
  <2>4. DOMAIN Tail(s) = 1..(Len(s) - 1)
    BY <1>1
  <2> QED BY <2>2, <2>3, <2>4 DEF ToSet
<1>3. Len(s) # 1 => Tail(s) # << >>
  <2>1. Len(s) # 1 => Len(Tail(s)) # 0
    BY <1>1
  <2>2. Len(<< >>) = 0
    OBVIOUS
  <2> QED BY <2>1, <2>2
<1>4. Head(s) \in S
  BY <1>1
<1> QED BY <1>1, <1>2, <1>3, <1>4

\* Beginning an operation whose changes the check for conflicts allows.
LEMMA BeginKeeps ==
  ASSUME ProjectionInv, NEW D \in SUBSET ManagedFile, D # {}, NEW planned \in Seq(AllowedChanges(managedFiles, D)), planned # << >>,
         Begin(planned, SnapshotFiles(D))
  PROVE  ProjectionInv' /\ managedFiles' = managedFiles
<1>1. PICK o : o = [at |-> "change", plan |-> planned, snapshot |-> SnapshotFiles(D)]
  OBVIOUS
<1>2. operation' = o /\ before' = managedFiles /\ touchedByUser' = {} /\ managedFiles' = managedFiles /\ editsByUser' = editsByUser
  BY <1>1 DEF Begin
<1>3. o.at = "change" /\ o.plan = planned /\ o.snapshot = SnapshotFiles(D) /\ DOMAIN o.snapshot = D
  BY <1>1 DEF SnapshotFiles
<1>4. \A f \in D : o.snapshot[f] = before'[f]
  BY <1>2, <1>3 DEF SnapshotFiles
<1>5. \A f \in ManagedFile : Untouched(f)'
  BY <1>2 DEF Untouched
<1>6. OperationInv(o)'
  BY <1>1, <1>2, <1>3, <1>4, <1>5 DEF OperationInv, Remembers, AllowedChanges
<1>7. ManagedTyped'
  BY <1>2 DEF ProjectionInv, ManagedTyped
<1> QED BY <1>2, <1>6, <1>7 DEF ProjectionInv

\* The projection's changes replace what is absent or the manifest's.
LEMMA InstallKeeps ==
  ASSUME ProjectionInv, NEW tracks \in Tracks, InstallForTracks(tracks)
  PROVE  ProjectionInv' /\ managedFiles' = managedFiles
<1>1. PICK D : D = SnapshotPaths(tracks)
  OBVIOUS
<1>2. D \in SUBSET ManagedFile /\ D # {} /\ Contents(tracks) \subseteq D /\ OwnedSkills(Old) \subseteq D /\ {"orientation", "policy", "manifest"} \subseteq D
  BY <1>1 DEF SnapshotPaths, Contents, OwnedSkills, ManagedFile, ProjectionFile
<1>3. tracks \in Value \ {User} /\ NoFile \in Value \ {User} /\ Old # User
  BY TrackAssumption DEF Value, User, NoFile, ProjectionInv, ManagedTyped, Old
<1>4. TrackConflicts(tracks) = {}
  BY DEF InstallForTracks
<1>5. managedFiles["orientation"] # User /\ managedFiles["policy"] # User /\ managedFiles["manifest"] # User
  <2>1. managedFiles["orientation"] = Old
    BY <1>4 DEF TrackConflicts
  <2>2. IF Old = NoFile THEN managedFiles["policy"] = NoFile ELSE managedFiles["policy"] \in {Old, tracks}
    BY <1>4 DEF TrackConflicts
  <2> QED BY <1>3, <2>1, <2>2 DEF Old
<1>6. \A f \in Contents(tracks) \cup OwnedSkills(Old) : managedFiles[f] \in {NoFile, tracks, Old}
  BY <1>4 DEF TrackConflicts
<1>7. PICK A : A = AllowedChanges(managedFiles, D)
  OBVIOUS
<1>8. \A f \in D, value \in Value \ {User} : managedFiles[f] # User => Change(f, value) \in A
  BY <1>2, <1>7 DEF AllowedChanges, Change, ChangeSet
<1>9. /\ OrientationChange(tracks) \in A /\ Change("policy", tracks) \in A /\ Change("manifest", tracks) \in A
  BY <1>2, <1>3, <1>5, <1>8 DEF OrientationChange
<1>10. SetToSeq({Change(f, tracks) : f \in Contents(tracks)}) \in Seq(A)
  <2>1. Contents(tracks) \in SUBSET ManagedFile
    BY <1>2
  <2>2. \A f \in Contents(tracks) : Change(f, tracks) \in A
    BY <1>2, <1>3, <1>6, <1>8
  <2> QED BY <1>3, <2>1, <2>2, ChangesFacts
<1>11. SetToSeq({Change(f, NoFile) : f \in {g \in OwnedSkills(Old) \ Contents(tracks) : managedFiles[g] = Old}}) \in Seq(A)
  <2>1. PICK S : S = {g \in OwnedSkills(Old) \ Contents(tracks) : managedFiles[g] = Old}
    OBVIOUS
  <2>2. S \in SUBSET ManagedFile /\ \A f \in S : Change(f, NoFile) \in A
    BY <1>2, <1>3, <1>8, <2>1
  <2>3. SetToSeq({Change(f, NoFile) : f \in S}) \in Seq(A)
    BY <1>3, <2>2, ChangesFacts
  <2> QED BY <2>1, <2>3
<1>12. PICK s \in Seq(A), t \in Seq(A) :
         /\ s = SetToSeq({Change(f, tracks) : f \in Contents(tracks)})
         /\ t = SetToSeq({Change(f, NoFile) : f \in {g \in OwnedSkills(Old) \ Contents(tracks) : managedFiles[g] = Old}})
  BY <1>10, <1>11
<1>13. PICK c1 \in A, c2 \in A, c3 \in A : /\ c1 = OrientationChange(tracks) /\ c2 = Change("policy", tracks) /\ c3 = Change("manifest", tracks)
  BY <1>9
<1>14. ProjectionPlan(tracks) = <<c1>> \o s \o <<c2>> \o t \o <<c3>>
  BY <1>12, <1>13 DEF ProjectionPlan
<1>15. ProjectionPlan(tracks) \in Seq(A) /\ ProjectionPlan(tracks) # << >>
  <2>1. <<c1>> \o s \in Seq(A)
    OBVIOUS
  <2>2. <<c1>> \o s \o <<c2>> \in Seq(A)
    BY <2>1
  <2>3. <<c1>> \o s \o <<c2>> \o t \in Seq(A)
    BY <2>2
  <2>4. PICK u \in Seq(A) : u = <<c1>> \o s \o <<c2>> \o t
    BY <2>3
  <2>5. u \o <<c3>> \in Seq(A) /\ Len(u \o <<c3>>) = Len(u) + 1 /\ Len(u) \in Nat
    OBVIOUS
  <2>6. u \o <<c3>> # << >>
    <3>1. Len(u \o <<c3>>) # 0
      BY <2>5
    <3>2. Len(<< >>) = 0
      OBVIOUS
    <3> QED BY <3>1, <3>2
  <2> QED BY <1>14, <2>4, <2>5, <2>6
<1>16. Begin(ProjectionPlan(tracks), SnapshotFiles(D))
  BY <1>1 DEF InstallForTracks
<1> QED BY <1>2, <1>7, <1>15, <1>16, BeginKeeps

\* Concatenation with something that is not empty.
LEMMA ConcatFacts ==
  ASSUME NEW A, NEW s \in Seq(A), NEW t \in Seq(A), t # << >>
  PROVE  s \o t \in Seq(A) /\ s \o t # << >>
<1>1. s \o t \in Seq(A) /\ Len(s \o t) = Len(s) + Len(t) /\ Len(s) \in Nat /\ Len(t) \in Nat
  OBVIOUS
<1>2. Len(t) # 0 /\ Len(<< >>) = 0
  OBVIOUS
<1>3. Len(s \o t) # 0
  BY <1>1, <1>2
<1> QED BY <1>1, <1>2, <1>3

\* One or two elements as a sequence.
LEMMA TupleFacts ==
  ASSUME NEW A, NEW a \in A, NEW b \in A
  PROVE  <<a>> \in Seq(A) /\ <<a>> # << >> /\ <<a, b>> \in Seq(A) /\ <<a, b>> # << >>
OBVIOUS

\* An operation with another rest of its plan.
LEMMA PlanReplaced ==
  ASSUME NEW o, NEW at, NEW rest, o = [at |-> at, plan |-> o.plan, snapshot |-> o.snapshot]
  PROVE  [o EXCEPT !.plan = rest] = [at |-> at, plan |-> rest, snapshot |-> o.snapshot]
<1>1. PICK planned, kept : planned = o.plan /\ kept = o.snapshot
  OBVIOUS
<1>2. o = [at |-> at, plan |-> planned, snapshot |-> kept]
  BY <1>1
<1>3. [o EXCEPT !.plan = rest] = [at |-> at, plan |-> rest, snapshot |-> kept]
  BY <1>2
<1> QED BY <1>1, <1>3

\* An uninstall removes what is the manifest's.
LEMMA UninstallKeeps ==
  ASSUME ProjectionInv, UninstallProjection
  PROVE  ProjectionInv' /\ managedFiles' = managedFiles
<1>1. PICK D : D = SnapshotPaths(Old)
  OBVIOUS
<1>2. D \in SUBSET ManagedFile /\ D # {} /\ OwnedSkills(Old) \subseteq D /\ {"orientation", "policy", "manifest"} \subseteq D
  BY <1>1 DEF SnapshotPaths, Contents, OwnedSkills, ManagedFile, ProjectionFile
<1>3. NoFile \in Value \ {User} /\ Old # User
  BY DEF Value, User, NoFile, ProjectionInv, ManagedTyped, Old
<1>4. \A f \in {"orientation", "policy"} \cup OwnedSkills(Old) : managedFiles[f] = Old
  BY DEF UninstallProjection, IntegrityConflicts
<1>5. PICK A : A = AllowedChanges(managedFiles, D)
  OBVIOUS
<1>6. \A f \in D : managedFiles[f] # User => Change(f, NoFile) \in A
  BY <1>2, <1>3, <1>5 DEF AllowedChanges, Change, ChangeSet
<1>7. OrientationChange(NoFile) \in A /\ Change("policy", NoFile) \in A /\ Change("manifest", NoFile) \in A
  BY <1>2, <1>3, <1>4, <1>6 DEF OrientationChange, Old
<1>8. SetToSeq({Change(f, NoFile) : f \in OwnedSkills(Old)}) \in Seq(A)
  <2>1. OwnedSkills(Old) \in SUBSET ManagedFile /\ \A f \in OwnedSkills(Old) : Change(f, NoFile) \in A
    BY <1>2, <1>3, <1>4, <1>6
  <2> QED BY <1>3, <2>1, ChangesFacts
<1>9. PICK s \in Seq(A) : s = SetToSeq({Change(f, NoFile) : f \in OwnedSkills(Old)})
  BY <1>8
<1>10. PICK c1 \in A, c2 \in A, c3 \in A : c1 = OrientationChange(NoFile) /\ c2 = Change("policy", NoFile) /\ c3 = Change("manifest", NoFile)
  BY <1>7
<1>11. UninstallPlan = <<c1>> \o s \o <<c2, c3>>
  BY <1>9, <1>10 DEF UninstallPlan
<1>12. UninstallPlan \in Seq(A) /\ UninstallPlan # << >>
  <2>0. <<c1>> \o s \in Seq(A)
    OBVIOUS
  <2>1. PICK u \in Seq(A) : u = <<c1>> \o s
    BY <2>0
  <2>2. PICK v \in Seq(A) : v = <<c2, c3>> /\ v # << >>
    BY TupleFacts
  <2> QED BY <1>11, <2>1, <2>2, ConcatFacts
<1>13. Begin(UninstallPlan, SnapshotFiles(D))
  BY <1>1 DEF UninstallProjection
<1> QED BY <1>2, <1>5, <1>12, <1>13, BeginKeeps

\* The host adapter changes its own three files.
LEMMA AdapterKeeps ==
  ASSUME ProjectionInv, AdapterInstall \/ AdapterUninstall
  PROVE  ProjectionInv' /\ managedFiles' = managedFiles
<1>1. PICK D : D = AdapterFile
  OBVIOUS
<1>2. D \in SUBSET ManagedFile /\ D # {}
  BY <1>1 DEF ManagedFile, AdapterFile
<1>3. PICK A : A = AllowedChanges(managedFiles, D)
  OBVIOUS
<1>4. \A f \in D, value \in {1, NoFile} : Change(f, value) \in A
  BY <1>1, <1>2, <1>3 DEF AllowedChanges, Change, ChangeSet, Value, User, NoFile, AdapterFile, ProjectionFile
<1>5. /\ AgentsChange(1) \in A /\ ExcludeChange \in A /\ SettingsChange(1) \in A
      /\ AgentsChange(NoFile) \in A /\ SettingsChange(NoFile) \in A
  BY <1>1, <1>4 DEF AgentsChange, ExcludeChange, SettingsChange, AdapterFile
<1>6. CASE AdapterInstall
  <2>1. PICK planned : planned = <<AgentsChange(1), ExcludeChange, SettingsChange(1)>>
    OBVIOUS
  <2>2. planned \in Seq(A) /\ Len(planned) = 3
    BY <1>5, <2>1
  <2>3. planned # << >>
    BY <2>2
  <2>4. Begin(planned, SnapshotFiles(D))
    BY <1>1, <1>6, <2>1 DEF AdapterInstall, CaptureState
  <2> QED BY <1>2, <1>3, <2>2, <2>3, <2>4, BeginKeeps
<1>7. CASE AdapterUninstall
  <2>1. PICK planned : planned \in {<<AgentsChange(NoFile)>>, <<SettingsChange(NoFile)>> \o <<AgentsChange(NoFile)>>} /\ Begin(planned, SnapshotFiles(D))
    <3>1. << >> \o <<AgentsChange(NoFile)>> = <<AgentsChange(NoFile)>>
      OBVIOUS
    <3> QED BY <1>1, <1>7, <3>1 DEF AdapterUninstall, CaptureState
  <2>3. PICK s \in Seq(A) : s = <<SettingsChange(NoFile)>>
    BY <1>5, TupleFacts
  <2>4. PICK t \in Seq(A) : t = <<AgentsChange(NoFile)>> /\ t # << >>
    BY <1>5, TupleFacts
  <2>5. planned \in Seq(A) /\ planned # << >>
    BY <2>1, <2>3, <2>4, ConcatFacts
  <2> QED BY <1>2, <1>3, <2>1, <2>5, BeginKeeps
<1> QED BY <1>6, <1>7

\* What a step may do to the user's content.
UserKept == \A f \in ProjectionFile : managedFiles[f] = User /\ managedFiles'[f] # User /\ editsByUser' = editsByUser => f \in touchedByUser

\* The next change of an operation.
LEMMA ChangeKeeps ==
  ASSUME ProjectionInv, ChangeNext
  PROVE  ProjectionInv' /\ UserKept
<1>1. PICK o : o = operation /\ OperationInv(o) /\ o.at = "change"
  BY DEF ChangeNext, ProjectionInv
<1>2. PICK D : D = DOMAIN o.snapshot
  OBVIOUS
<1>3. o.plan \in Seq(AllowedChanges(before, D)) /\ o.plan # << >> /\ D \subseteq ManagedFile
  BY <1>1, <1>2 DEF OperationInv, Remembers
<1>4. PICK c : c = Head(o.plan)
  OBVIOUS
<1>5. c \in AllowedChanges(before, D)
  BY <1>3, <1>4, TailFacts
<1>6. c.file \in D /\ c.value \in Value \ {User} /\ (c.file \in ProjectionFile => before[c.file] # User)
  BY <1>5 DEF AllowedChanges, ChangeSet
<1>7. managedFiles' = [managedFiles EXCEPT ![c.file] = c.value] /\ UNCHANGED <<before, touchedByUser, editsByUser>>
  BY <1>1, <1>4 DEF ChangeNext
<1>8. managedFiles' \in [ManagedFile -> Value] /\ \A f \in ManagedFile : managedFiles'[f] = IF f = c.file THEN c.value ELSE managedFiles[f]
  BY <1>3, <1>6, <1>7 DEF ProjectionInv, ManagedTyped
<1>9. ManagedTyped'
  BY <1>6, <1>7, <1>8 DEF ProjectionInv, ManagedTyped, ManagedFile, ProjectionFile
<1>10. \A f \in ManagedFile : managedFiles'[f] = User => f \in touchedByUser' \/ before'[f] = User
  BY <1>6, <1>7, <1>8 DEF ProjectionInv
<1>11. UserKept
  BY <1>6, <1>7, <1>8 DEF ProjectionInv, UserKept, ManagedFile
<1>12. \A f \in ManagedFile : f \in D \/ Untouched(f)'
  BY <1>1, <1>2, <1>6, <1>7, <1>8 DEF OperationInv, Untouched
<1>13. CASE Len(o.plan) = 1
  <2>1. operation' = NoOperation
    BY <1>1, <1>13 DEF ChangeNext
  <2> QED BY <1>9, <1>10, <1>11, <2>1 DEF ProjectionInv, OperationInv, NoOperation
<1>14. CASE Len(o.plan) # 1
  <2>1. PICK p : p = [at |-> "change", plan |-> Tail(o.plan), snapshot |-> o.snapshot]
    OBVIOUS
  <2>2. o = [at |-> "change", plan |-> o.plan, snapshot |-> o.snapshot]
    BY <1>1 DEF OperationInv
  <2>3. [o EXCEPT !.plan = Tail(o.plan)] = p
    <3>1. PICK rest : rest = Tail(o.plan)
      OBVIOUS
    <3>2. [o EXCEPT !.plan = rest] = [at |-> "change", plan |-> rest, snapshot |-> o.snapshot]
      BY <2>2, PlanReplaced
    <3> QED BY <2>1, <3>1, <3>2
  <2>4. operation' = p
    BY <1>1, <1>14, <2>3 DEF ChangeNext
  <2>5. Tail(o.plan) \in Seq(AllowedChanges(before, D)) /\ Tail(o.plan) # << >>
    BY <1>3, <1>14, TailFacts
  <2>6. Remembers(o) /\ p.at = "change" /\ p.plan = Tail(o.plan) /\ p.snapshot = o.snapshot /\ DOMAIN p.snapshot = D
    BY <1>1, <1>2, <2>1 DEF OperationInv
  <2>7. OperationInv(p)'
    BY <1>7, <1>12, <2>1, <2>5, <2>6 DEF OperationInv, Remembers
  <2> QED BY <1>9, <1>10, <1>11, <2>4, <2>7 DEF ProjectionInv
<1> QED BY <1>13, <1>14

\* The next file put back.
LEMMA RestoreKeeps ==
  ASSUME ProjectionInv, RestoreNext
  PROVE  ProjectionInv' /\ UserKept
<1>1. PICK o : o = operation /\ OperationInv(o) /\ o.at = "restore"
  BY DEF RestoreNext, ProjectionInv
<1>2. PICK D : D = DOMAIN o.snapshot
  OBVIOUS
<1>3. o.plan \in Seq(D) /\ o.plan # << >> /\ D \subseteq ManagedFile /\ \A f \in D : o.snapshot[f] = before[f]
  BY <1>1, <1>2 DEF OperationInv, Remembers
<1>4. PICK g \in D : g = Head(o.plan)
  BY <1>3, TailFacts
<1>5. managedFiles' = [managedFiles EXCEPT ![g] = before[g]] /\ UNCHANGED <<before, touchedByUser, editsByUser>>
  BY <1>1, <1>3, <1>4 DEF RestoreNext
<1>6. managedFiles' \in [ManagedFile -> Value] /\ \A f \in ManagedFile : managedFiles'[f] = IF f = g THEN before[g] ELSE managedFiles[f]
  BY <1>3, <1>5 DEF ProjectionInv, ManagedTyped
<1>7. ManagedTyped'
  BY <1>5, <1>6 DEF ProjectionInv, ManagedTyped, ManagedFile, ProjectionFile
<1>8. \A f \in ManagedFile : managedFiles'[f] = User => f \in touchedByUser' \/ before'[f] = User
  BY <1>5, <1>6 DEF ProjectionInv
<1>9. UserKept
  BY <1>5, <1>6 DEF ProjectionInv, UserKept, ManagedFile
<1>10. \A f \in ManagedFile : f = g \/ Untouched(f) => Untouched(f)'
  BY <1>5, <1>6 DEF Untouched
<1>11. \A f \in ManagedFile : f \in D \/ Untouched(f)
  BY <1>1, <1>2 DEF OperationInv
<1>12. \A f \in D : Untouched(f)' \/ (f \in ToSet(Tail(o.plan)) /\ Len(o.plan) # 1)
  <2>1. \A f \in D : f \in ToSet(o.plan) \/ Untouched(f)
    BY <1>1, <1>2 DEF OperationInv
  <2>2. \A f \in ToSet(o.plan) : f = g \/ (f \in ToSet(Tail(o.plan)) /\ Len(o.plan) # 1)
    BY <1>3, <1>4, TailFacts
  <2> QED BY <1>3, <1>10, <2>1, <2>2
<1>13. CASE Len(o.plan) = 1
  <2>1. operation' = [at |-> "restored"]
    BY <1>1, <1>13 DEF RestoreNext
  <2>2. \A f \in ManagedFile : Untouched(f)'
    BY <1>10, <1>11, <1>12, <1>13
  <2> QED BY <1>7, <1>8, <1>9, <2>1, <2>2 DEF ProjectionInv, OperationInv
<1>14. CASE Len(o.plan) # 1
  <2>1. PICK p : p = [at |-> "restore", plan |-> Tail(o.plan), snapshot |-> o.snapshot]
    OBVIOUS
  <2>2. o = [at |-> "restore", plan |-> o.plan, snapshot |-> o.snapshot]
    BY <1>1 DEF OperationInv
  <2>3. [o EXCEPT !.plan = Tail(o.plan)] = p
    <3>1. PICK rest : rest = Tail(o.plan)
      OBVIOUS
    <3>2. [o EXCEPT !.plan = rest] = [at |-> "restore", plan |-> rest, snapshot |-> o.snapshot]
      BY <2>2, PlanReplaced
    <3> QED BY <2>1, <3>1, <3>2
  <2>4. operation' = p
    BY <1>1, <1>14, <2>3 DEF RestoreNext
  <2>5. Tail(o.plan) \in Seq(D) /\ Tail(o.plan) # << >>
    BY <1>3, <1>14, TailFacts
  <2>6. Remembers(o) /\ p.at = "restore" /\ p.plan = Tail(o.plan) /\ p.snapshot = o.snapshot /\ DOMAIN p.snapshot = D
    BY <1>1, <1>2, <2>1 DEF OperationInv
  <2>7. \A f \in ManagedFile : f \in D \/ Untouched(f)'
    BY <1>10, <1>11
  <2>8. \A f \in D : f \in ToSet(p.plan) \/ Untouched(f)'
    BY <1>12, <2>6
  <2>9. OperationInv(p)'
    BY <1>5, <2>1, <2>5, <2>6, <2>7, <2>8 DEF OperationInv, Remembers
  <2> QED BY <1>7, <1>8, <1>9, <2>4, <2>9 DEF ProjectionInv
<1> QED BY <1>13, <1>14

\* A failure, a stop, a return, and the user's own edits.
LEMMA RestKeeps ==
  ASSUME ProjectionInv, ChangeFails \/ Return \/ ProjectionCrash \/ \E f \in ManagedFile \ {"manifest"} : UserEdits(f)
  PROVE  ProjectionInv' /\ UserKept
<1>1. CASE ChangeFails
  <2>1. PICK o : o = operation /\ OperationInv(o) /\ o.at = "change"
    BY <1>1 DEF ChangeFails, ProjectionInv
  <2>2. PICK D : D = DOMAIN o.snapshot
    OBVIOUS
  <2>3. D \in SUBSET ManagedFile /\ D # {} /\ Remembers(o)
    BY <2>1, <2>2 DEF OperationInv, Remembers
  <2>4. PICK planned : planned = SetToSeq(D) /\ planned \in Seq(D) /\ ToSet(planned) = D
    BY <2>3, ManagedFileFinite, SetToSeqFacts
  <2>5. planned # << >>
    BY <2>3, <2>4 DEF ToSet
  <2>6. PICK p : p = [at |-> "restore", plan |-> planned, snapshot |-> o.snapshot]
    OBVIOUS
  <2>7. operation' = p /\ UNCHANGED <<managedFiles, before, touchedByUser, editsByUser>>
    BY <1>1, <2>1, <2>2, <2>4, <2>6 DEF ChangeFails
  <2>8. \A f \in ManagedFile : f \in D \/ Untouched(f)
    BY <2>1, <2>2 DEF OperationInv
  <2>9. p.at = "restore" /\ p.plan = planned /\ p.snapshot = o.snapshot
    BY <2>6
  <2>10. OperationInv(p)'
    BY <2>2, <2>3, <2>4, <2>5, <2>6, <2>7, <2>8, <2>9 DEF OperationInv, Remembers, Untouched
  <2> QED BY <2>7, <2>10 DEF ProjectionInv, ManagedTyped, UserKept
<1>2. CASE Return \/ ProjectionCrash
  <2>1. operation' = NoOperation /\ UNCHANGED <<managedFiles, before, touchedByUser, editsByUser>>
    BY <1>2 DEF Return, ProjectionCrash
  <2>2. OperationInv(NoOperation)'
    BY DEF OperationInv, NoOperation
  <2> QED BY <2>1, <2>2 DEF ProjectionInv, ManagedTyped, UserKept
<1>3. CASE \E f \in ManagedFile \ {"manifest"} : UserEdits(f)
  <2>1. PICK f \in ManagedFile \ {"manifest"}, value \in {NoFile, User} :
          /\ managedFiles' = [managedFiles EXCEPT ![f] = value] /\ editsByUser' = editsByUser + 1
          /\ touchedByUser' = touchedByUser \cup {f} /\ UNCHANGED <<operation, before>>
    BY <1>3 DEF UserEdits
  <2>2. /\ managedFiles' \in [ManagedFile -> Value]
        /\ \A g \in ManagedFile : managedFiles'[g] = IF g = f THEN value ELSE managedFiles[g]
    BY <2>1 DEF ProjectionInv, ManagedTyped, Value
  <2>3. ManagedTyped'
    BY <2>1, <2>2 DEF ProjectionInv, ManagedTyped, ManagedFile, ProjectionFile
  <2>4. \A g \in ManagedFile : managedFiles'[g] = User => g \in touchedByUser' \/ before'[g] = User
    BY <2>1, <2>2 DEF ProjectionInv
  <2>5. \A g \in ManagedFile : Untouched(g) => Untouched(g)'
    BY <2>1, <2>2 DEF Untouched
  <2>6. ASSUME NEW o, OperationInv(o)
        PROVE  OperationInv(o)'
    <3>1. CASE o.at \in {"change", "restore"}
      <4>1. Remembers(o) => Remembers(o)'
        BY <2>1 DEF Remembers
      <4>2. DOMAIN o.snapshot \subseteq ManagedFile
        BY <2>6, <3>1 DEF OperationInv, Remembers
      <4> QED BY <2>1, <2>5, <2>6, <3>1, <4>1, <4>2 DEF OperationInv
    <3>2. CASE o.at \in {"none", "restored"}
      BY <2>5, <2>6, <3>2 DEF OperationInv
    <3> QED BY <2>6, <3>1, <3>2 DEF OperationInv
  <2>7. PICK o : o = operation
    OBVIOUS
  <2>8. OperationInv(operation)'
    BY <2>1, <2>6, <2>7 DEF ProjectionInv
  <2>9. UserKept
    <3>1. editsByUser' # editsByUser
      BY <2>1 DEF ProjectionInv, ManagedTyped
    <3> QED BY <3>1 DEF UserKept
  <2> QED BY <2>3, <2>4, <2>8, <2>9 DEF ProjectionInv
<1> QED BY <1>1, <1>2, <1>3

\* A failed operation leaves the workspace as it was, and no operation replaces or removes what
\* the user wrote before it began (InstallForTracks, Uninstall and the host adapter).
THEOREM ProjectionIsSafe == ProjectionSpec => ProjectionSafe
<1>1. ProjectionInit => ProjectionInv
  <2> SUFFICES ASSUME ProjectionInit
               PROVE  ProjectionInv
    OBVIOUS
  <2>1. OperationInv(NoOperation)
    BY DEF OperationInv, NoOperation
  <2>2. ManagedTyped
    BY DEF ProjectionInit, ManagedTyped, Value, NoFile, User, ManagedFile, ProjectionFile
  <2> QED BY <2>1, <2>2 DEF ProjectionInit, ProjectionInv
<1>2. ProjectionInv /\ [ProjectionNext]_projectionVars => ProjectionInv' /\ [UserKept]_projectionVars
  <2> SUFFICES ASSUME ProjectionInv, [ProjectionNext]_projectionVars
               PROVE  ProjectionInv' /\ UserKept
    OBVIOUS
  <2>1. CASE UNCHANGED projectionVars
    <3>1. UNCHANGED <<managedFiles, operation, before, touchedByUser, editsByUser>>
      BY <2>1 DEF projectionVars
    <3> QED BY <3>1 DEF ProjectionInv, ManagedTyped, OperationInv, Remembers, Untouched, UserKept
  <2>2. CASE (\E tracks \in Tracks : InstallForTracks(tracks)) \/ UninstallProjection \/ AdapterInstall \/ AdapterUninstall
    <3>1. ProjectionInv' /\ managedFiles' = managedFiles
      BY <2>2, InstallKeeps, UninstallKeeps, AdapterKeeps
    <3> QED BY <3>1 DEF UserKept
  <2>3. CASE ChangeNext \/ ChangeFails \/ RestoreNext \/ Return \/ ProjectionCrash \/ \E f \in ManagedFile \ {"manifest"} : UserEdits(f)
    BY <2>3, ChangeKeeps, RestoreKeeps, RestKeeps
  <2> QED BY <2>1, <2>2, <2>3 DEF ProjectionNext
<1>3. ProjectionInv => FailureLeavesNoTrace
  BY DEF ProjectionInv, OperationInv, Untouched, FailureLeavesNoTrace
<1>4. ProjectionSpec => []ProjectionInv
  BY <1>1, <1>2, PTL DEF ProjectionSpec
<1>5. ProjectionInv /\ [ProjectionNext]_projectionVars =>
        [\A f \in ProjectionFile :
           managedFiles[f] = User /\ managedFiles'[f] # User /\ editsByUser' = editsByUser => f \in touchedByUser]_projectionVars
  BY <1>2 DEF UserKept
<1>6. ProjectionSpec => UserContentKept
  BY <1>4, <1>5, PTL DEF ProjectionSpec, UserContentKept
<1> QED BY <1>3, <1>4, <1>6, PTL DEF ProjectionSafe

=============================================================================
