---------------------------- MODULE PromptHistory ----------------------------
(***************************************************************************)
(* The owner's private prompt history: entries.jsonl and config.json, both *)
(* replaced atomically under a lock file that nobody takes over.  The      *)
(* store is prepared before the lock is taken: a process that found the    *)
(* config still empty writes the default one later, whatever another       *)
(* process has put there meanwhile.  The owner binding must survive this.  *)
(***************************************************************************)
EXTENDS Naturals, FiniteSets, FiniteSetsExt

CONSTANTS PromptWriter, Owner,
          PromptNumber,          \* numbers of prompt occurrences
          Size,                \* bytes of a prompt
          MaxBytes,            \* max_bytes of every configuration
          DefaultEntries,      \* max_entries of the default configuration
          EntriesChoice,       \* max_entries an owner may configure
          MaxAge, MaxClock,    \* bound: time
          MaxPromptCrashes

NoOwner == "nobody"
ASSUME PromptAssumption == NoOwner \notin Owner /\ DefaultEntries \in Nat /\ EntriesChoice \subseteq Nat

VARIABLES entries,             \* entries.jsonl
          config,              \* config.json
          promptLock,          \* the lock file: free, held or left behind
          writer,              \* call of each process
          clock, promptCrashes

promptVars == <<entries, config, promptLock, writer, clock, promptCrashes>>

EmptyFile == [owner |-> NoOwner, max |-> 0]
DefaultPromptHistoryConfig == [owner |-> NoOwner, max |-> DefaultEntries]
PromptIdle == [at |-> "idle"]

PromptInit ==
  /\ entries = {} /\ config = EmptyFile /\ promptLock = "free"
  /\ writer = [w \in PromptWriter |-> PromptIdle] /\ clock = 0 /\ promptCrashes = 0

-----------------------------------------------------------------------------
\* ensurePromptHistoryStore: the files are created; an empty config is noticed
\* here and replaced in a later step.
Calls == {"record", "configure", "delete", "reset", "read"}
EnsureStore(w, call) ==
  /\ writer[w] = PromptIdle
  /\ writer' = [writer EXCEPT ![w] = [at |-> IF config = EmptyFile THEN "default" ELSE "lock", call |-> call]]
  /\ UNCHANGED <<entries, config, promptLock, clock, promptCrashes>>

WriteDefault(w) ==
  /\ writer[w].at = "default"
  /\ config' = DefaultPromptHistoryConfig
  /\ writer' = [writer EXCEPT ![w].at = "lock"]
  /\ UNCHANGED <<entries, promptLock, clock, promptCrashes>>

\* acquirePromptHistoryLock gives up after two seconds.
Acquire(w) ==
  /\ writer[w].at = "lock" /\ writer[w].call # "read" /\ promptLock = "free" /\ promptLock' = "held"
  /\ writer' = [writer EXCEPT ![w].at = writer[w].call]
  /\ UNCHANGED <<entries, config, clock, promptCrashes>>

LockTimesOut(w) ==
  /\ writer[w].at = "lock" /\ writer[w].call # "read" /\ promptLock # "free"
  /\ writer' = [writer EXCEPT ![w] = PromptIdle]
  /\ UNCHANGED <<entries, config, promptLock, clock, promptCrashes>>

\* InspectPromptHistory, ExportPromptHistory and the selection prepare the store
\* as well, and read it without the lock.
ReadStore(w) ==
  /\ writer[w].at = "lock" /\ writer[w].call = "read"
  /\ writer' = [writer EXCEPT ![w] = PromptIdle]
  /\ UNCHANGED <<entries, config, promptLock, clock, promptCrashes>>

LetGo(w) == promptLock' = "free" /\ writer' = [writer EXCEPT ![w] = PromptIdle]

-----------------------------------------------------------------------------
\* retainPromptHistory walks the entries from the newest and keeps what still
\* fits; an entry that does not fit is skipped, not the end of the walk.
Newer(e, f) == e.recorded > f.recorded \/ (e.recorded = f.recorded /\ e.occurrence > f.occurrence)
Fits(kept, e, max) ==
  /\ clock - e.recorded <= MaxAge /\ Cardinality(kept) < max
  /\ MapThenSumSet(LAMBDA k : k.size, kept) + e.size <= MaxBytes
Retain(set, max) ==
  LET kept[e \in set] == Fits({k \in set : Newer(k, e) /\ kept[k]}, e, max) IN {e \in set : kept[e]}

EntryOwner == (CHOOSE e \in entries : TRUE).owner

\* The owner of a store is the configured one or else that of its entries.
\* Mutant: only the config binds the store.
BoundOwnerByConfig == config.owner
BoundOwner == IF config.owner # NoOwner THEN config.owner
              ELSE IF entries # {} THEN EntryOwner ELSE NoOwner

\* RecordUserPrompt: a retry of an occurrence is answered from the file, a reuse
\* with other content is refused; the binding is stored before the entry.
Known(e) == {k \in entries : k.occurrence = e.occurrence}

Refused(w) ==
  /\ writer[w].at = "record" /\ LetGo(w)
  /\ UNCHANGED <<entries, config, clock, promptCrashes>>

BindOwner(w, e) ==
  /\ writer[w].at = "record" /\ BoundOwner \in {NoOwner, e.owner}
  /\ config' = IF BoundOwner = NoOwner THEN [config EXCEPT !.owner = e.owner] ELSE config
  /\ writer' = [writer EXCEPT ![w] = [at |-> "append", entry |-> e, max |-> config.max]]
  /\ UNCHANGED <<entries, promptLock, clock, promptCrashes>>

AppendPrompt(w) ==
  /\ writer[w].at = "append"
  /\ LET e == writer[w].entry
         retained == Retain(entries \cup {e}, writer[w].max) IN
     entries' = IF Known(e) = {} /\ clock - e.recorded <= MaxAge /\ e \in retained THEN retained ELSE entries
  /\ LetGo(w) /\ UNCHANGED <<config, clock, promptCrashes>>

\* ConfigurePromptHistory: entries are cut to the new bound before the config is
\* stored, and an owner once bound stays.
Configured(owner, max) ==
  [owner |-> IF BoundOwner # NoOwner THEN BoundOwner ELSE owner, max |-> max]
CutEntries(w, owner, max) ==
  /\ writer[w].at = "configure" /\ (config.owner # NoOwner => owner \in {NoOwner, config.owner})
  /\ (owner # NoOwner /\ entries # {}) => EntryOwner = owner
  /\ entries' = Retain(entries, max)
  /\ writer' = [writer EXCEPT ![w] = [at |-> "store", config |-> Configured(owner, max)]]
  /\ UNCHANGED <<config, promptLock, clock, promptCrashes>>

StoreConfig(w) ==
  /\ writer[w].at = "store" /\ config' = writer[w].config
  /\ LetGo(w) /\ UNCHANGED <<entries, clock, promptCrashes>>

DeletePromptHistory(w, e) ==
  /\ writer[w].at = "delete" /\ entries' = entries \ {e}
  /\ LetGo(w) /\ UNCHANGED <<config, clock, promptCrashes>>

ResetPromptHistory(w) ==
  /\ writer[w].at = "reset" /\ entries' = {}
  /\ LetGo(w) /\ UNCHANGED <<config, clock, promptCrashes>>

-----------------------------------------------------------------------------
TimePasses ==
  /\ clock < MaxClock /\ clock' = clock + 1
  /\ UNCHANGED <<entries, config, promptLock, writer, promptCrashes>>

\* Nobody removes the lock file of a process that stopped.
PromptWriterStops(w) ==
  /\ writer[w] # PromptIdle /\ promptCrashes < MaxPromptCrashes /\ promptCrashes' = promptCrashes + 1
  /\ promptLock' = IF writer[w].at \in {"default", "lock"} THEN promptLock ELSE "left"
  /\ writer' = [writer EXCEPT ![w] = PromptIdle]
  /\ UNCHANGED <<entries, config, clock>>

Entry == [owner : Owner, occurrence : PromptNumber, recorded : 0..clock, size : Size]
PromptNext ==
  \/ TimePasses
  \/ \E w \in PromptWriter :
       \/ \E call \in Calls : EnsureStore(w, call)
       \/ WriteDefault(w) \/ Acquire(w) \/ LockTimesOut(w) \/ ReadStore(w) \/ Refused(w)
       \/ \E e \in Entry : BindOwner(w, e)
       \/ AppendPrompt(w) \/ StoreConfig(w) \/ ResetPromptHistory(w)
       \/ \E owner \in Owner \cup {NoOwner}, max \in EntriesChoice : CutEntries(w, owner, max)
       \/ \E e \in entries : DeletePromptHistory(w, e)
       \/ PromptWriterStops(w)
PromptSpec == PromptInit /\ [][PromptNext]_promptVars

-----------------------------------------------------------------------------
\* The store never mixes owners, although the default config may be written over
\* a binding: every entry is of one owner (readPromptHistoryEntries would refuse
\* the file otherwise), no entry belongs to another owner than the configured
\* one, and an occurrence is there at most once (RecordUserPrompt).
SoleOwnerHistory ==
  /\ \A e, f \in entries : e.owner = f.owner /\ (e.occurrence = f.occurrence => e = f)
  /\ config.owner # NoOwner => \A e \in entries : e.owner = config.owner
=============================================================================
