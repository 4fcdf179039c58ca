----------------------------- MODULE ManagedAtlas -----------------------------
(***************************************************************************)
(* The compiler of the managed atlas (atlas/managed.go).  ReconcileManaged *)
(* loads the allowlist, takes a fingerprint of the sources, writes one     *)
(* concept after another into a staging directory, rewriting the links     *)
(* between sources, validates the whole and swaps the directory in.  Its   *)
(* sources change while it runs, and it can stop or fail at every step of  *)
(* the swap.  Content is a version number, a link the source it leads to.  *)
(***************************************************************************)
EXTENDS Naturals, FiniteSets

CONSTANTS Source, MaxSourceEdits, MaxCompiles,
          MaxCompileFaults     \* times the compiler stops or its rename fails

VARIABLES source,              \* [there, version, links] of each source file
          allowlist,           \* the approved sources
          output, previous,    \* the published directory and its backup
          compile,             \* the compilation in progress
          everPublished, sourceEdits, compiles, compileFaults

managedVars == <<source, allowlist, output, previous, compile, everPublished, sourceEdits, compiles, compileFaults>>

\* A directory holds its concept pages and the index with the watermark; an empty
\* directory is there still.
NoBundle == [there |-> FALSE, concepts |-> {}, watermark |-> << >>]
NotCompiling == [at |-> "none", list |-> {}, stage |-> NoBundle]
\* Nothing has been compiled yet, or the sources as they are.
ManagedInit ==
  /\ source = [s \in Source |-> [there |-> TRUE, version |-> 0, links |-> {}]]
  /\ allowlist = Source /\ previous = NoBundle /\ compile = NotCompiling
  /\ output \in {NoBundle, [there |-> TRUE, watermark |-> [s \in Source |-> 0],
                           concepts |-> {[id |-> s, version |-> 0, to |-> {}] : s \in Source}]}
  /\ everPublished = output.there
  /\ sourceEdits = 0 /\ compiles = 0 /\ compileFaults = 0

CompileAt(step) == compile.at = step
Onward(next) == compile' = next
SourcesSame == UNCHANGED <<source, allowlist, sourceEdits>>
CountersSame == UNCHANGED <<compiles, compileFaults>>

-----------------------------------------------------------------------------
\* loadManagedAllowlist and validateManagedAllowlist: there is a source, and all exist.
ValidAllowlist(list) == list # {} /\ \A s \in list : source[s].there
LoadAllowlist ==
  /\ CompileAt("none") /\ compiles < MaxCompiles /\ ValidAllowlist(allowlist)
  /\ compiles' = compiles + 1
  /\ Onward([at |-> "fingerprint", list |-> allowlist, stage |-> NoBundle])
  /\ UNCHANGED <<output, previous, everPublished, compileFaults>> /\ SourcesSame

\* managedFingerprint reads every source once; writeManagedConcept reads it again.
Watermark(list) == [s \in list |-> source[s].version]
Fingerprint ==
  /\ CompileAt("fingerprint")
  /\ Onward(IF \A s \in compile.list : source[s].there
            THEN [compile EXCEPT !.at = "concepts",
                    !.stage = [there |-> TRUE, concepts |-> {}, watermark |-> Watermark(compile.list)]]
            ELSE NotCompiling)
  /\ UNCHANGED <<output, previous, everPublished>> /\ SourcesSame /\ CountersSame

\* rewriteManagedMarkdownLinks: a link to a listed source becomes a link to its
\* concept, one to another file of the repository an opaque reference, any other
\* breaks the compilation.
Written == {c.id : c \in compile.stage.concepts}
ConceptLinks(s) == source[s].links \cap compile.list
BrokenLinks(s) == {t \in source[s].links \ compile.list : ~source[t].there}
WriteConcept(s) ==
  /\ CompileAt("concepts") /\ s \in compile.list \ Written
  /\ Onward(IF source[s].there /\ BrokenLinks(s) = {}
            THEN [compile EXCEPT !.stage.concepts = @ \cup {[id |-> s, version |-> source[s].version, to |-> ConceptLinks(s)]}]
            ELSE NotCompiling)
  /\ UNCHANGED <<output, previous, everPublished>> /\ SourcesSame /\ CountersSame

\* writeManagedIndex, Log and Reports, and ValidateManagedBundle over the stage: the
\* links of every page lead to a file of the bundle.
Closed(bundle) == \A c \in bundle.concepts : c.to \subseteq {d.id : d \in bundle.concepts}
ValidateStage ==
  /\ CompileAt("concepts") /\ Written = compile.list
  /\ Onward(IF Closed(compile.stage) THEN [compile EXCEPT !.at = "drop_backup"] ELSE NotCompiling)
  /\ UNCHANGED <<output, previous, everPublished>> /\ SourcesSame /\ CountersSame

-----------------------------------------------------------------------------
\* os.RemoveAll of the backup: its files go one after another, in any order, and the
\* directory last; it fails at any of them and leaves what it has not reached.
RemoveBackupFile ==
  /\ compile.at \in {"drop_backup", "clean"}
  /\ \/ \E c \in previous.concepts : previous' = [previous EXCEPT !.concepts = @ \ {c}]
     \/ previous.watermark # << >> /\ previous' = [previous EXCEPT !.watermark = << >>]
     \/ previous.there /\ previous.concepts = {} /\ previous.watermark = << >> /\ previous' = NoBundle
  /\ UNCHANGED <<output, compile, everPublished>> /\ SourcesSame /\ CountersSame

\* atomicPublishDirectory: the old backup goes, an error of that being ignored, the
\* output becomes the backup, the stage the output, and the backup goes.  A rename
\* fails where a directory is in its way; when the stage cannot be renamed the backup
\* is renamed back, an error of that being ignored.
DropBackup ==
  /\ CompileAt("drop_backup") /\ Onward([compile EXCEPT !.at = "backup"])
  /\ UNCHANGED <<output, previous, everPublished>> /\ SourcesSame /\ CountersSame
\* Mutant: the output is removed to make room.
KeptAsideNot == NoBundle
KeptAside == output
Backup ==
  /\ CompileAt("backup")
  /\ \/ ~output.there /\ Onward([compile EXCEPT !.at = "swap"]) /\ UNCHANGED <<output, previous>>
     \/ /\ output.there /\ ~previous.there /\ Onward([compile EXCEPT !.at = "swap"])
        /\ previous' = KeptAside /\ output' = NoBundle
     \/ output.there /\ previous.there /\ Onward(NotCompiling) /\ UNCHANGED <<output, previous>>
  /\ UNCHANGED everPublished /\ SourcesSame /\ CountersSame
Swap ==
  /\ CompileAt("swap") /\ output' = compile.stage /\ Onward([compile EXCEPT !.at = "clean"])
  /\ everPublished' = TRUE
  /\ UNCHANGED previous /\ SourcesSame /\ CountersSame
SwapFails ==
  /\ CompileAt("swap") /\ compileFaults < MaxCompileFaults /\ compileFaults' = compileFaults + 1
  /\ Onward([compile EXCEPT !.at = "restore"])
  /\ UNCHANGED <<output, previous, everPublished, compiles>> /\ SourcesSame
RestoreOutput ==
  /\ CompileAt("restore") /\ Onward(NotCompiling)
  /\ \/ previous.there /\ output' = previous /\ previous' = NoBundle
     \/ UNCHANGED <<output, previous>>
  /\ UNCHANGED everPublished /\ SourcesSame /\ CountersSame
Clean ==
  /\ CompileAt("clean") /\ Onward(NotCompiling)
  /\ UNCHANGED <<output, previous, everPublished>> /\ SourcesSame /\ CountersSame

-----------------------------------------------------------------------------
\* Authors edit, remove and list sources at any time; the compiler stops.
EditSource(s) ==
  /\ sourceEdits < MaxSourceEdits /\ sourceEdits' = sourceEdits + 1
  /\ \/ \E links \in SUBSET (Source \ {s}) : source' = [source EXCEPT ![s] = [there |-> TRUE, version |-> @.version + 1, links |-> links]]
     \/ source' = [source EXCEPT ![s].there = FALSE]
  /\ UNCHANGED <<allowlist, output, previous, compile, everPublished>> /\ CountersSame
EditAllowlist(list) ==
  /\ sourceEdits < MaxSourceEdits /\ sourceEdits' = sourceEdits + 1 /\ allowlist' = list
  /\ UNCHANGED <<source, output, previous, compile, everPublished>> /\ CountersSame
CompilerStops ==
  /\ ~CompileAt("none") /\ compileFaults < MaxCompileFaults /\ compileFaults' = compileFaults + 1
  /\ Onward(NotCompiling)
  /\ UNCHANGED <<output, previous, everPublished, compiles>> /\ SourcesSame

ManagedNext ==
  \/ LoadAllowlist \/ Fingerprint \/ ValidateStage
  \/ RemoveBackupFile \/ DropBackup \/ Backup \/ Swap \/ SwapFails \/ RestoreOutput \/ Clean \/ CompilerStops
  \/ \E s \in Source : WriteConcept(s) \/ EditSource(s)
  \/ \E list \in SUBSET Source : EditAllowlist(list)

ManagedSpec == ManagedInit /\ [][ManagedNext]_managedVars

-----------------------------------------------------------------------------
\* ReconcileManaged: whatever is edited meanwhile, whichever removals fail half way, and
\* wherever one compilation stops or its rename fails, the output directory is a whole
\* bundle that closes over its own links, or it is not there.  Once a bundle was
\* published a whole one exists: the output, the backup beside it (which may otherwise
\* be in pieces), or, after a fault, the validated stage that is about to go in.
WholeBundle(bundle) ==
  bundle.there /\ {c.id : c \in bundle.concepts} = DOMAIN bundle.watermark /\ Closed(bundle)
AtlasKept ==
  /\ output.there => WholeBundle(output)
  /\ everPublished =>
       \/ WholeBundle(output)
       \/ WholeBundle(previous)
       \/ compileFaults > 0 /\ compile.at \in {"drop_backup", "backup", "swap"} /\ WholeBundle(compile.stage)
=============================================================================
