------------------------- MODULE SetupAuthorization -------------------------
(***************************************************************************)
(* The one setup authorization of a workspace: a grant that its principal  *)
(* confirms on a device for a path and, perhaps later, a selected source.  *)
(* A call reads the grant, decides, and replaces the file atomically;      *)
(* nothing keeps another call from replacing it in between.                *)
(***************************************************************************)
EXTENDS Naturals, FiniteSets

CONSTANTS Caller,
          Principal,           \* principal and device
          SetupPath, SelectedSource,
          Validity,            \* DefaultValidity in ticks
          MaxTick              \* bound: time

VARIABLES grant,               \* the grant file
          caller,              \* call of each process between its read and its write
          origin,              \* history: the confirmation that the grant goes back to
          tick

setupVars == <<grant, caller, origin, tick>>

Unbound == "none"      \* normalizedSourceFingerprint of an empty one
\* What validateRequest lets through; the workspace is fixed.
SetupRequest == [path : SetupPath, source : SelectedSource \cup {Unbound}]
\* What validateGrant lets through.
Grant == [path : SetupPath, source : SelectedSource \cup {Unbound}, identity : Principal, issued : Nat]
NoGrant == [none |-> TRUE]
AtRest == [at |-> "rest"]

SetupInit ==
  /\ grant = NoGrant /\ caller = [c \in Caller |-> AtRest]
  /\ origin = NoGrant /\ tick = 0

-----------------------------------------------------------------------------
\* read
Found(g) == g \in Grant
\* Status: the first difference decides.
StatusOf(g, request, identity) ==
  IF ~Found(g) THEN "authorization_required"
  ELSE IF g.path # request.path \/ g.source # request.source THEN "scope_changed"
  ELSE IF g.identity # identity THEN "identity_changed"
  ELSE IF tick >= g.issued + Validity THEN "expired" ELSE "active"

\* Authorize: an active grant is the answer; otherwise a confirmation issues a
\* new grant in place of whatever is there.
Authorize(c, request, identity) ==
  /\ caller[c] = AtRest /\ StatusOf(grant, request, identity) # "active"
  /\ LET issued == [path |-> request.path, source |-> request.source, identity |-> identity, issued |-> tick] IN
     caller' = [caller EXCEPT ![c] = [at |-> "write", grant |-> issued, origin |-> issued]]
  /\ UNCHANGED <<grant, origin, tick>>

\* BindSelectedSource: only a current grant of the same identity and path that
\* has no source yet takes one.
\* Mutant: a source that is bound already can be exchanged.
MayBindAgain(g, source) == TRUE
MayBind(g, source) == g.source = Unbound

BindSelectedSource(c, request, identity) ==
  /\ caller[c] = AtRest /\ Found(grant) /\ request.source # Unbound
  /\ grant.path = request.path /\ grant.identity = identity /\ tick < grant.issued + Validity
  /\ grant.source # request.source /\ MayBind(grant, request.source)
  /\ caller' = [caller EXCEPT ![c] = [at |-> "write", grant |-> [grant EXCEPT !.source = request.source], origin |-> origin]]
  /\ UNCHANGED <<grant, origin, tick>>

\* write: a temporary file is renamed over the grant.
WriteGrant(c) ==
  /\ caller[c].at = "write" /\ grant' = caller[c].grant /\ origin' = caller[c].origin
  /\ caller' = [caller EXCEPT ![c] = AtRest] /\ UNCHANGED tick

\* A process that stops before the rename leaves only its temporary file.
CallerStops(c) ==
  /\ caller[c].at = "write" /\ caller' = [caller EXCEPT ![c] = AtRest]
  /\ UNCHANGED <<grant, origin, tick>>

TimePasses ==
  /\ tick < MaxTick /\ tick' = tick + 1
  /\ UNCHANGED <<grant, caller, origin>>

SetupNext ==
  \/ TimePasses
  \/ \E c \in Caller :
       \/ \E request \in SetupRequest, identity \in Principal :
            Authorize(c, request, identity) \/ BindSelectedSource(c, request, identity)
       \/ WriteGrant(c) \/ CallerStops(c)
SetupSpec == SetupInit /\ [][SetupNext]_setupVars

-----------------------------------------------------------------------------
\* Whoever writes last, the grant in force has the path, the identity and the
\* time of the confirmation it goes back to, and its source too unless that
\* confirmation named none: binding a source neither prolongs a grant nor moves
\* it to another source or identity (Authorize, BindSelectedSource).
GrantIsConfirmed ==
  grant # NoGrant =>
    /\ [grant EXCEPT !.source = origin.source] = origin
    /\ origin.source \in {Unbound, grant.source}
=============================================================================
