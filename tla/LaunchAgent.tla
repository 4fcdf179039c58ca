----------------------------- MODULE LaunchAgent -----------------------------
(***************************************************************************)
(* The maintenance LaunchAgent of macOS (macosadapter): a plist in the     *)
(* user's directory and the service launchd has loaded from it.  Install,  *)
(* Pause, Resume and Uninstall read both, then change them one launchctl   *)
(* command or file at a time.  A command fails, with or without having     *)
(* done its work; the command that asks for the service can go             *)
(* unanswered, which Status takes for "not loaded"; the caller can be      *)
(* killed between two steps.                                               *)
(***************************************************************************)
EXTENDS Naturals, Sequences

CONSTANTS Program,             \* executables the plist may name
          MaxLaunchCalls, MaxCommandFailures,
          MaxLaunchFaults      \* times Status goes unanswered or the caller is killed

VARIABLES native,              \* the lifecycle may use launchctl
          plist, loaded,       \* the program in the file and of the service, or none
          plistDisabled,       \* the Disabled key
          override,            \* launchd's own record for the label
          launchCaller, launchCalls, commandFailures, launchFaults

launchVars == <<native, plist, loaded, plistDisabled, override, launchCaller, launchCalls, commandFailures, launchFaults>>

NoCall == [op |-> "none", todo |-> << >>, program |-> "none"]
LaunchInit ==
  /\ native \in BOOLEAN /\ plist = "none" /\ loaded = "none" /\ plistDisabled = FALSE /\ override = "unset"
  /\ launchCaller = NoCall /\ launchCalls = 0 /\ commandFailures = 0 /\ launchFaults = 0

-----------------------------------------------------------------------------
\* The file's part of the status.
ReadStatus == [present |-> plist # "none", paused |-> plistDisabled]
\* The program the file names, what launchd says of the service, and of the label.
LaunchAgentProgram == plist
Identity(seen) == seen = LaunchAgentProgram
DisabledLabel == override = "disabled"
\* Status, for what the native commands answered about the service.
StateOf(seen) ==
  IF ~native \/ seen = "none" THEN IF ReadStatus.present THEN "file_present" ELSE "not_present"
  ELSE IF ~ReadStatus.present THEN "orphan_loaded"
  ELSE IF ~Identity(seen) THEN "loaded_identity_mismatch" ELSE "loaded"

RemoveNative == <<"disable", "bootout">>
\* Install boots out what is loaded before it replaces the plist.
\* Mutant: a loaded service is left to the bootstrap of the new plist.
BootsOutNothing(state) == FALSE
BootsOut(state) == state \in {"loaded", "orphan_loaded"}
InstallTodo(state) ==
  IF BootsOut(state) THEN <<"disable", "bootout", "write", "enable", "bootstrap", "kickstart">>
  ELSE IF native THEN <<"write", "enable", "bootstrap", "kickstart">> ELSE <<"write">>
PauseTodo(state) ==
  IF state = "orphan_loaded" THEN RemoveNative
  ELSE IF state = "not_present" THEN << >>
  ELSE (IF state = "loaded" THEN RemoveNative ELSE << >>)
       \o (IF ReadStatus.paused THEN << >> ELSE <<"set_disabled">>)
ResumeTodo(state) ==
  IF \/ state \in {"orphan_loaded", "not_present"}
     \/ ~ReadStatus.paused /\ (~native \/ (state = "loaded" /\ ~DisabledLabel))
  THEN << >>
  ELSE IF ~native THEN <<"clear_disabled">>
  ELSE <<"clear_disabled", "enable">> \o (IF state = "loaded" THEN << >> ELSE <<"bootstrap">>) \o <<"kickstart">>
UninstallTodo(state) ==
  CASE state = "orphan_loaded" -> RemoveNative
    [] state = "not_present" -> << >>
    [] state = "loaded" -> RemoveNative \o <<"unlink">>
    [] state = "file_present" -> (IF native THEN <<"disable">> ELSE << >>) \o <<"unlink">>

Todo(op, state) ==
  IF state = "loaded_identity_mismatch" THEN << >>
  ELSE CASE op = "install" -> InstallTodo(state)
         [] op = "pause" -> PauseTodo(state)
         [] op = "resume" -> ResumeTodo(state)
         [] op = "uninstall" -> UninstallTodo(state)
\* A call reads the status, refuses a service it does not know, and starts.
Call(op, program) ==
  /\ launchCaller = NoCall /\ launchCalls < MaxLaunchCalls /\ launchCalls' = launchCalls + 1
  /\ \E seen \in {loaded} \cup (IF native /\ launchFaults < MaxLaunchFaults THEN {"none"} ELSE {}) :
       /\ launchFaults' = IF seen = loaded THEN launchFaults ELSE launchFaults + 1
       /\ LET plan == Todo(op, StateOf(seen)) IN
          launchCaller' = IF plan = << >> THEN NoCall ELSE [op |-> op, todo |-> plan, program |-> program]
  /\ UNCHANGED <<native, plist, loaded, plistDisabled, override, commandFailures>>
Install(p) == Call("install", p)
Pause == Call("pause", "none")
Resume == Call("resume", "none")
Uninstall == Call("uninstall", "none")

-----------------------------------------------------------------------------
\* What the steps do to the file, which is replaced by a rename.
WritePlist == [program |-> launchCaller.program, disabled |-> FALSE]
SetDisabled(disabled) == [program |-> plist, disabled |-> disabled]
UnlinkPlist == [program |-> "none", disabled |-> FALSE]
File(step) == CASE step = "write" -> WritePlist
                [] step = "set_disabled" -> SetDisabled(TRUE)
                [] step = "clear_disabled" -> SetDisabled(FALSE)
                [] step = "unlink" -> UnlinkPlist
                [] OTHER -> SetDisabled(plistDisabled)

\* launchd refuses a bootstrap of a label that it has loaded or disabled.
Command == {"disable", "bootout", "enable", "bootstrap", "kickstart", "undo_bootout"}
Works(step) == CASE step = "bootstrap" -> loaded = "none" /\ plist # "none" /\ override # "disabled"
                 [] step \in {"bootout", "kickstart"} -> loaded # "none"
                 [] OTHER -> TRUE
Effect(step) ==
  /\ plist' = File(step).program /\ plistDisabled' = File(step).disabled
  /\ override' = CASE step = "disable" -> "disabled" [] step = "enable" -> "enabled" [] OTHER -> override
  /\ loaded' = CASE step \in {"bootout", "undo_bootout"} -> "none" [] step = "bootstrap" -> plist [] OTHER -> loaded

Rest(todo) == IF todo = << >> THEN NoCall ELSE [launchCaller EXCEPT !.todo = todo]
StepDone ==
  /\ launchCaller.todo # << >> /\ Works(Head(launchCaller.todo))
  /\ Effect(Head(launchCaller.todo)) /\ launchCaller' = Rest(Tail(launchCaller.todo))
  /\ UNCHANGED <<native, launchCalls, commandFailures, launchFaults>>

\* The roll back of Install; the other calls end where they are.  A kickstart counts
\* as done when the status then shows the service (kickstartWithRecovery).
AfterFailure(step) ==
  CASE step \in {"enable", "bootstrap", "undo_bootout"} /\ launchCaller.op = "install" -> <<"unlink">>
    [] step = "kickstart" /\ launchCaller.op = "install" -> <<"undo_bootout", "unlink">>
    [] OTHER -> << >>
StepFails ==
  LET step == Head(launchCaller.todo) IN
  /\ launchCaller.todo # << >> /\ step \in Command
  /\ IF Works(step) THEN commandFailures < MaxCommandFailures /\ commandFailures' = commandFailures + 1
                    ELSE UNCHANGED commandFailures
  /\ \/ UNCHANGED <<plist, plistDisabled, override, loaded>>
     \/ Works(step) /\ Effect(step)
  /\ launchCaller' = Rest(AfterFailure(step))
  /\ UNCHANGED <<native, launchCalls, launchFaults>>

-----------------------------------------------------------------------------
\* At login launchd loads the plist, unless its own record or else the key disables it.
UserLogin ==
  /\ native /\ launchCaller = NoCall
  /\ loaded' = IF plist # "none" /\ (override = "enabled" \/ (override = "unset" /\ ~plistDisabled))
               THEN plist ELSE "none"
  /\ UNCHANGED <<native, plist, plistDisabled, override, launchCaller, launchCalls, commandFailures, launchFaults>>
CallerKilled ==
  /\ launchCaller # NoCall /\ launchFaults < MaxLaunchFaults /\ launchFaults' = launchFaults + 1
  /\ launchCaller' = NoCall
  /\ UNCHANGED <<native, plist, loaded, plistDisabled, override, launchCalls, commandFailures>>

LaunchNext ==
  \/ Pause \/ Resume \/ Uninstall \/ StepDone \/ StepFails \/ UserLogin \/ CallerKilled
  \/ \E p \in Program : Install(p)

LaunchSpec == LaunchInit /\ [][LaunchNext]_launchVars

-----------------------------------------------------------------------------
\* Lifecycle: whatever commands fail, and even when one status goes unanswered or one
\* caller is killed, no call leaves behind a service loaded from another program than
\* the plist names.  Install, Pause, Resume and Uninstall all refuse that state, so
\* none of them could ever end it.
ServiceMatchesPlist == launchCaller = NoCall => loaded = "none" \/ plist = "none" \/ loaded = plist
=============================================================================
