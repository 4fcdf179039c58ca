---------------------------- MODULE MemoryEngine ----------------------------
(***************************************************************************)
(* The layered memory of a workspace.  Captures are appended per day; a    *)
(* daily cycle digests one day into L1, a weekly cycle digests the L1 of   *)
(* the week into L2, L3 and, when eligible, lifetime.  A cycle publishes   *)
(* its artifacts in a version directory and then one commit manifest that  *)
(* carries the whole tree forward.  A crash leaves the activation lock.    *)
(***************************************************************************)
EXTENDS Naturals, Sequences, FiniteSets, SequencesExt

CONSTANTS Dreamer, Day,        \* the days of one week
          MaxCaptures, MaxManifests, MaxDreamCrashes

\* Finitely many processes dream.
ASSUME DreamerAssumption == IsFiniteSet(Dreamer)

VARIABLES captures,            \* number of captures recorded for each day
          manifests,             \* commit manifests, oldest first: key -> artifact
          orphans,             \* pending manifests that a crash left behind
          activationLock,      \* holders of the activation lock directory
          dreamer, dreamCrashes

memoryVars == <<captures, manifests, orphans, activationLock, dreamer, dreamCrashes>>

MemoryKey == ({"L1"} \X Day) \cup {<<"L2", "week">>, <<"L3", "current">>, <<"lifetime", "current">>}
\* An artifact is what it was made from and the transaction that made it.
NoDigest == [tx |-> 0, sources |-> {}]
EmptyTree == [k \in MemoryKey |-> NoDigest]
Awake == [at |-> "idle"]

MemoryInit ==
  /\ captures = [d \in Day |-> 0] /\ manifests = <<>> /\ orphans = 0
  /\ activationLock = {} /\ dreamer = [x \in Dreamer |-> Awake] /\ dreamCrashes = 0

-----------------------------------------------------------------------------
\* latestManifest, and readArtifactByKey through it.
Latest == IF manifests = <<>> THEN EmptyTree ELSE Last(manifests)
Tx == Len(manifests) + orphans + Cardinality({x \in Dreamer : dreamer[x].at # "idle"})
ref(k, artifact) == [key |-> k, tx |-> artifact.tx]
Made(sources) == [tx |-> Tx + 1, sources |-> sources]

Capture(d) ==
  /\ captures[d] < MaxCaptures
  /\ captures' = [captures EXCEPT ![d] = @ + 1]
  /\ UNCHANGED <<manifests, orphans, activationLock, dreamer, dreamCrashes>>

\* acquireCycleLock: mkdir, and nobody ever takes over.
\* Mutant: the cycle does not mind that the directory exists.
CycleLockFreeAlways == TRUE
CycleLockFree == activationLock = {}
Sleep(x, artifacts) ==
  /\ dreamer[x] = Awake /\ CycleLockFree /\ Len(manifests) < MaxManifests
  /\ activationLock' = activationLock \cup {x}
  /\ dreamer' = [dreamer EXCEPT ![x] = [at |-> "staged", artifacts |-> artifacts]]
  /\ UNCHANGED <<captures, manifests, orphans, dreamCrashes>>

\* dreamDaily: the day's captures, unless the digest of exactly these exists.
DreamDaily(x, d) ==
  LET sources == {[key |-> "captures", tx |-> captures[d]]} IN
  /\ captures[d] > 0 /\ Latest[<<"L1", d>>].sources # sources
  /\ Sleep(x, [k \in {<<"L1", d>>} |-> Made(sources)])

\* DreamWeekly: L2 from the L1 digests, L3 from L2 and the L3 before it, and
\* lifetime from L3 when the eligibility policy agrees.
WeekSources == {ref(k, Latest[k]) : k \in {j \in MemoryKey : j[1] = "L1" /\ Latest[j] # NoDigest}}
With(k, artifact, sources) == sources \cup (IF artifact = NoDigest THEN {} ELSE {ref(k, artifact)})
DreamWeekly(x) ==
  \E eligible \in BOOLEAN :
    LET l2 == <<"L2", "week">>
        l3 == <<"L3", "current">>
        lifetime == <<"lifetime", "current">>
        week == Made(WeekSources)
        theme == Made(With(l3, Latest[l3], {ref(l2, week)}))
        life == Made(With(lifetime, Latest[lifetime], {ref(l3, theme)})) IN
    /\ WeekSources # {} /\ Latest[l2].sources # WeekSources
    /\ Sleep(x, [k \in {l2, l3} \cup (IF eligible THEN {lifetime} ELSE {}) |->
                   CASE k = l2 -> week [] k = l3 -> theme [] k = lifetime -> life])

\* activate: the version directory is published, then the manifest over the
\* parent of that moment is written aside, then renamed into the commits.
Carried(parent, artifacts) ==
  [k \in MemoryKey |-> IF k \in DOMAIN artifacts THEN artifacts[k] ELSE parent[k]]
StageManifest(x) ==
  /\ dreamer[x].at = "staged"
  /\ dreamer' = [dreamer EXCEPT ![x] = [at |-> "pending",
                                       manifest |-> Carried(Latest, dreamer[x].artifacts)]]
  /\ UNCHANGED <<captures, manifests, orphans, activationLock, dreamCrashes>>
CommitManifest(x) ==
  /\ dreamer[x].at = "pending"
  /\ manifests' = Append(manifests, dreamer[x].manifest)
  /\ dreamer' = [dreamer EXCEPT ![x] = [at |-> "committed"]]
  /\ UNCHANGED <<captures, orphans, activationLock, dreamCrashes>>
Wake(x) ==
  /\ dreamer[x].at = "committed"
  /\ activationLock' = activationLock \ {x}
  /\ dreamer' = [dreamer EXCEPT ![x] = Awake]
  /\ UNCHANGED <<captures, manifests, orphans, dreamCrashes>>

\* An error returns through the deferred release; a crash does not.
DreamFails(x) ==
  /\ dreamer[x].at \in {"staged", "pending"} /\ dreamCrashes < MaxDreamCrashes
  /\ dreamCrashes' = dreamCrashes + 1
  /\ orphans' = IF dreamer[x].at = "pending" THEN orphans + 1 ELSE orphans
  /\ dreamer' = [dreamer EXCEPT ![x] = Awake]
  /\ activationLock' \in {activationLock, activationLock \ {x}}
  /\ UNCHANGED <<captures, manifests>>

\* External: a person removes the lock directory that a crash has left.
ClearLock(x) ==
  /\ x \in activationLock /\ dreamer[x] = Awake
  /\ activationLock' = activationLock \ {x}
  /\ UNCHANGED <<captures, manifests, orphans, dreamer, dreamCrashes>>

MemoryNext ==
  \/ \E d \in Day : Capture(d)
  \/ \E x \in Dreamer : \/ \E d \in Day : DreamDaily(x, d)
                        \/ DreamWeekly(x) \/ StageManifest(x) \/ CommitManifest(x) \/ Wake(x)
                        \/ DreamFails(x) \/ ClearLock(x)
MemorySpec == MemoryInit /\ [][MemoryNext]_memoryVars

-----------------------------------------------------------------------------
\* What the newest commit shows belongs together: a commit loses no layer of an
\* earlier one, and a new weekly rollup was made from exactly the daily digests
\* and the rollup of its own commit, although captures go on during a cycle, and cycles
\* of several processes fail and stop with their lock left behind or released.
CommitsBelongTogether ==
  \A n \in 1..Len(manifests) :
    LET parent == IF n = 1 THEN EmptyTree ELSE manifests[n - 1]
        l2 == <<"L2", "week">> IN
    /\ \A k \in MemoryKey : parent[k] # NoDigest => manifests[n][k] # NoDigest
    /\ manifests[n][l2] # parent[l2] =>
         /\ manifests[n][l2].sources =
              {ref(k, manifests[n][k]) : k \in {j \in MemoryKey : j[1] = "L1" /\ manifests[n][j] # NoDigest}}
         /\ ref(l2, manifests[n][l2]) \in manifests[n][<<"L3", "current">>].sources
=============================================================================
