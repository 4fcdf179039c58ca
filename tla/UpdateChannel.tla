---------------------------- MODULE UpdateChannel ----------------------------
(***************************************************************************)
(* From the provider's releases to a confirmed update.  A check signs in,  *)
(* selects the newest release, downloads it asset by asset into a          *)
(* temporary directory, verifies it and renames it into place; the plan is *)
(* staged as the pending update and confirmed against the release that is  *)
(* installed then.  Checks run at the same time, the provider may replace  *)
(* assets at any moment, keys are revoked, and processes stop anywhere.    *)
(***************************************************************************)
EXTENDS Naturals, FiniteSets

CONSTANTS UpdateCheck,         \* processes that check for and confirm updates
          Release,             \* versions in their order, e.g. 1..3
          AliasExpiry,         \* the version from which legacy roles are gone
          MaxRepublish, MaxUpdateCrashes

ASSUME ReleaseAssumption == Release \subseteq Nat \ {0}

VARIABLES provider,            \* the assets of each release as they are now
          keyApproved,         \* the release key in the authority registry
          credential,          \* of the provider, in the secure store
          packages,            \* updates/github-release-<id>
          pendingUpdate,       \* config/pending-update.json
          installed,           \* release of the install state
          check, confirmed, republished, updateCrashes

updateVars == <<provider, keyApproved, credential, packages, pendingUpdate, installed, check, confirmed, republished, updateCrashes>>

\* A directory holds the manifest with its signature and the artifact; each can be
\* missing from a directory that is there.
NoPackage == [manifest |-> "absent", artifact |-> "absent"]
Emptied == [manifest |-> "none", artifact |-> "none"]
NoPending == [from |-> 0, to |-> 0]
CheckIdle == [at |-> "idle"]

\* The manifests that Validate lets through.  Each lists the artifact of its own
\* revision; "other" is signed for another version, "forged" has no valid signature.
SignedRevision == {"r1", "r2", "other"}
ManifestRevision == SignedRevision \cup {"forged"}
UpdateInit ==
  /\ provider = [v \in Release |-> [manifest |-> "r1", artifact |-> "r1", draft |-> FALSE]]
  /\ keyApproved = TRUE /\ credential = "none"
  /\ packages = [v \in Release |-> NoPackage] /\ pendingUpdate = NoPending
  /\ installed = 1 /\ check = [c \in UpdateCheck |-> CheckIdle]
  /\ confirmed = {} /\ republished = 0 /\ updateCrashes = 0

AtCheck(c, step) == check[c].at = step
Proceeds(c, next) == check' = [check EXCEPT ![c] = next]
Leaves(c) == Proceeds(c, CheckIdle)
Quiet == UNCHANGED <<provider, keyApproved, republished, updateCrashes>>

-----------------------------------------------------------------------------
\* AuthService: Login stores a token, which expires; Logout deletes it.
Login == /\ credential = "none" /\ credential' = "fresh"
         /\ UNCHANGED <<packages, pendingUpdate, installed, check, confirmed>> /\ Quiet
Logout == /\ credential # "none" /\ credential' = "none"
          /\ UNCHANGED <<packages, pendingUpdate, installed, check, confirmed>> /\ Quiet
TokenExpires == /\ credential = "fresh" /\ credential' = "old"
                /\ UNCHANGED <<packages, pendingUpdate, installed, check, confirmed>> /\ Quiet

\* AccessToken: a fresh token is used as it is; an old one is refreshed and what
\* the provider answers is stored, or the refresh fails.
BeginCheck(c) ==
  /\ AtCheck(c, "idle") /\ credential # "none"
  /\ Proceeds(c, [at |-> IF credential = "fresh" THEN "list" ELSE "refresh", from |-> installed])
  /\ UNCHANGED <<credential, packages, pendingUpdate, installed, confirmed>> /\ Quiet
Refresh(c) ==
  /\ AtCheck(c, "refresh")
  /\ \/ credential' = "fresh" /\ Proceeds(c, [check[c] EXCEPT !.at = "list"])
     \/ UNCHANGED credential /\ Leaves(c)
  /\ UNCHANGED <<packages, pendingUpdate, installed, confirmed>> /\ Quiet

-----------------------------------------------------------------------------
\* selectLatestRelease: the newest one that is no draft and newer than what the
\* check found installed; DownloadVerified refuses a destination that is there.
Newer(from) == {v \in Release : v > from /\ ~provider[v].draft}
SelectLatest(c) ==
  /\ AtCheck(c, "list")
  /\ \/ \E v \in Newer(check[c].from) :
          /\ \A u \in Newer(check[c].from) : u <= v
          /\ IF packages[v] = NoPackage
             THEN Proceeds(c, [at |-> "manifest", from |-> check[c].from, to |-> v, staging |-> Emptied])
             ELSE Leaves(c)
     \/ Leaves(c)                                          \* ErrCurrent, or no answer
  /\ UNCHANGED <<credential, packages, pendingUpdate, installed, confirmed>> /\ Quiet

\* Lookup: the key is in the registry, active and within its time.  VerifyManifest: it
\* has signed exactly these bytes.
Lookup == keyApproved
Signed(manifest) == Lookup /\ manifest \in SignedRevision
FetchManifest(c) ==
  LET m == provider[check[c].to].manifest IN
  /\ AtCheck(c, "manifest")
  /\ IF Signed(m) THEN Proceeds(c, [check[c] EXCEPT !.at = "artifact", !.staging.manifest = m]) ELSE Leaves(c)
  /\ UNCHANGED <<credential, packages, pendingUpdate, installed, confirmed>> /\ Quiet
FetchArtifacts(c) ==
  /\ AtCheck(c, "artifact")
  /\ \/ Proceeds(c, [check[c] EXCEPT !.at = "verify", !.staging.artifact = provider[check[c].to].artifact])
     \/ Leaves(c)                                          \* missing, cut off or too large
  /\ UNCHANGED <<credential, packages, pendingUpdate, installed, confirmed>> /\ Quiet

\* VerifyDirectory: the manifest once more, and every file it lists, no other.
\* Mutant: what was fetched under a verified manifest is trusted.
VerifiedByManifest(package) == Signed(package.manifest)
Verified(package) == Signed(package.manifest) /\ package.artifact = package.manifest
VerifyAndRename(c) ==
  /\ AtCheck(c, "verify")
  /\ IF Verified(check[c].staging) /\ packages[check[c].to] = NoPackage
     THEN /\ packages' = [packages EXCEPT ![check[c].to] = check[c].staging]
          /\ Proceeds(c, [at |-> "plan", from |-> check[c].from, to |-> check[c].to])
     ELSE Leaves(c) /\ UNCHANGED packages
  /\ UNCHANGED <<credential, pendingUpdate, installed, confirmed>> /\ Quiet

\* updateplan.Build: newer than the source, and a release that crosses the expiry
\* of the role alias carries the signed migration; r2 lacks it.
PlanValid(from, to) == to > from
HasMigration(manifest) == manifest = "r1"
EnsureUpdateAllowed(from, package, to) ==
  /\ PlanValid(from, to)
  /\ (from < AliasExpiry /\ to >= AliasExpiry) => HasMigration(package.manifest)
\* Check, after the download: the provider's tag must name the manifest's version (the
\* directory and the digest are what DownloadVerified has just returned), and the plan
\* be built; else the package is discarded.
TagNames(manifest) == manifest # "other"
BuildPlan(c) ==
  LET package == packages[check[c].to] IN
  /\ AtCheck(c, "plan")
  /\ Proceeds(c, [check[c] EXCEPT !.at =
       IF TagNames(package.manifest) /\ EnsureUpdateAllowed(check[c].from, package, check[c].to) THEN "stage" ELSE "discard"])
  /\ UNCHANGED <<credential, packages, pendingUpdate, installed, confirmed>> /\ Quiet
\* failAfterDownload: os.RemoveAll takes one entry after another, in any order, and the
\* directory last; it fails at any of them and leaves what it has not reached.
Discard(c) ==
  LET v == check[c].to IN
  /\ AtCheck(c, "discard")
  /\ \/ \E part \in {"manifest", "artifact"} :
          /\ packages[v][part] # "none" /\ packages' = [packages EXCEPT ![v][part] = "none"]
          /\ UNCHANGED check
     \/ packages[v] = Emptied /\ packages' = [packages EXCEPT ![v] = NoPackage] /\ Leaves(c)
     \/ Leaves(c) /\ UNCHANGED packages
  /\ UNCHANGED <<credential, pendingUpdate, installed, confirmed>> /\ Quiet

WritePending(p) == pendingUpdate' = p
\* StagePending, with the state the check began with: the activation is prepared and
\* the pending file replaced, whatever it held.
StagePending(c) ==
  /\ AtCheck(c, "stage") /\ Leaves(c)
  /\ WritePending([from |-> check[c].from, to |-> check[c].to]) \/ UNCHANGED pendingUpdate
  /\ UNCHANGED <<credential, packages, installed, confirmed>> /\ Quiet

\* ConfirmPending: the package is verified again and the plan built again, from the
\* state that is installed now; another plan is stale.
SourceCurrent(p) == p.from = installed /\ EnsureUpdateAllowed(installed, packages[p.to], p.to)
ConfirmPending(c) ==
  LET p == pendingUpdate IN
  /\ AtCheck(c, "idle") /\ p # NoPending /\ Verified(packages[p.to]) /\ SourceCurrent(p)
  /\ Proceeds(c, [at |-> "activate", from |-> p.from, to |-> p.to])
  /\ UNCHANGED <<credential, packages, pendingUpdate, installed, confirmed>> /\ Quiet

\* The activation, which checks its source under the lock of the installation, and the
\* removal of the pending file, which must still hold this plan.
Activate(c) ==
  /\ AtCheck(c, "activate")
  /\ IF installed = check[c].from
     THEN installed' = check[c].to /\ confirmed' = confirmed \cup {[from |-> installed, to |-> check[c].to]}
     ELSE UNCHANGED <<installed, confirmed>>
  /\ Proceeds(c, [check[c] EXCEPT !.at = "remove"])
  /\ UNCHANGED <<credential, packages, pendingUpdate>> /\ Quiet
RemovePending(c) ==
  /\ AtCheck(c, "remove") /\ Leaves(c)
  /\ pendingUpdate' = IF pendingUpdate = [from |-> check[c].from, to |-> check[c].to] THEN NoPending ELSE pendingUpdate
  /\ UNCHANGED <<credential, packages, installed, confirmed>> /\ Quiet

\* ReconcilePending: an activation that stopped after its state was written is found
\* to be done; the package must still verify.
ReconcilePending(c) ==
  LET p == pendingUpdate IN
  /\ AtCheck(c, "idle") /\ p # NoPending /\ Verified(packages[p.to]) /\ installed = p.to
  /\ Proceeds(c, [at |-> "remove", from |-> p.from, to |-> p.to])
  /\ UNCHANGED <<credential, packages, pendingUpdate, installed, confirmed>> /\ Quiet

-----------------------------------------------------------------------------
\* The provider replaces an asset or a release, or makes it a draft; the key is revoked.
Republish(v) ==
  /\ republished < MaxRepublish /\ republished' = republished + 1
  /\ \/ \E r \in ManifestRevision : provider' = [provider EXCEPT ![v].manifest = r]
     \/ \E r \in ManifestRevision : provider' = [provider EXCEPT ![v].artifact = r]
     \/ \E r \in {"r2", "other"} : provider' = [provider EXCEPT ![v].manifest = r, ![v].artifact = r]
     \/ provider' = [provider EXCEPT ![v].draft = ~@]
  /\ UNCHANGED <<keyApproved, credential, packages, pendingUpdate, installed, check, confirmed, updateCrashes>>
RevokeKey ==
  /\ keyApproved /\ keyApproved' = FALSE
  /\ UNCHANGED <<provider, credential, packages, pendingUpdate, installed, check, confirmed, republished, updateCrashes>>
CheckStops(c) ==
  /\ ~AtCheck(c, "idle") /\ updateCrashes < MaxUpdateCrashes
  /\ updateCrashes' = updateCrashes + 1 /\ Leaves(c)
  /\ UNCHANGED <<provider, keyApproved, credential, packages, pendingUpdate, installed, confirmed, republished>>

UpdateNext ==
  \/ Login \/ Logout \/ TokenExpires \/ RevokeKey
  \/ \E v \in Release : Republish(v)
  \/ \E c \in UpdateCheck :
       \/ BeginCheck(c) \/ Refresh(c) \/ SelectLatest(c) \/ FetchManifest(c) \/ FetchArtifacts(c)
       \/ VerifyAndRename(c) \/ BuildPlan(c) \/ Discard(c) \/ StagePending(c) \/ ConfirmPending(c)
       \/ ReconcilePending(c) \/ Activate(c) \/ RemovePending(c) \/ CheckStops(c)

UpdateSpec == UpdateInit /\ [][UpdateNext]_updateVars

-----------------------------------------------------------------------------
\* Whatever the provider replaces between two assets of one download, and whichever
\* checks, confirmations, failing removals and crashes interleave: what is in place,
\* though a stopped removal may have left it in pieces, is of one signed manifest; the
\* pending update has its package whole, whatever other checks discard; and every
\* update that was activated had the version its tag names and the role migration its
\* source needs.
OfOneManifest(package) ==
  \E m \in SignedRevision : package.manifest \in {m, "none"} /\ package.artifact \in {m, "none"}
WholePackage(package) == package.manifest \in SignedRevision /\ package.artifact = package.manifest
StagedUpdateIsWhole ==
  /\ \A v \in Release : packages[v] # NoPackage => OfOneManifest(packages[v])
  /\ pendingUpdate # NoPending => WholePackage(packages[pendingUpdate.to]) /\ TagNames(packages[pendingUpdate.to].manifest)
  /\ \A u \in confirmed : /\ WholePackage(packages[u.to]) /\ TagNames(packages[u.to].manifest)
                           /\ EnsureUpdateAllowed(u.from, packages[u.to], u.to)
=============================================================================
