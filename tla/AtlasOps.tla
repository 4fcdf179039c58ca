------------------------------ MODULE AtlasOps ------------------------------
(***************************************************************************)
(* The owner atlas: pages edited by bounded operations of several sessions *)
(* at once, a journal that replays what was done under an idempotency key, *)
(* and standing grants that let a ritual write.  Pages are read, checked   *)
(* and replaced without a lock, and a replacement truncates the file       *)
(* before it writes it; only the grants document is changed under a lock.  *)
(***************************************************************************)
EXTENDS Naturals, FiniteSets

CONSTANTS AtlasSession, EntryKey,     \* sessions; idempotency keys of entries
          StandingGrant,
          MaxAtlasOps,         \* bound: operations that are recorded
          MaxAtlasCrashes

VARIABLES page,                \* one page of the owner root
          journal,             \* state recorded for each operation id
          grants,              \* the grants document
          grantLock,           \* holder of grants.lock, released by a crash
          session, atlasCrashes

atlasVars == <<page, journal, grants, grantLock, session, atlasCrashes>>

Nobody == "nobody"
\* No session has the name of the free lock.
ASSUME SessionAssumption == Nobody \notin AtlasSession

AbsentPage == [file |-> "absent"]
TornPage == [file |-> "torn"]
Page(entries, field, links) == [file |-> "whole", entries |-> entries, field |-> field, links |-> links]
AtRest == [at |-> "rest"]
\* The authorities Provenance.validate admits: an attended session, or a grant.
Origin == {"attended"} \cup StandingGrant
Operation == {"create-page", "append-entry", "set-field", "link"}
OperationID == Operation \X EntryKey
TornGrants == [g \in StandingGrant |-> "torn"]

AtlasInit ==
  /\ page = AbsentPage /\ journal = [o \in OperationID |-> "none"]
  /\ grants = [g \in StandingGrant |-> "none"] /\ grantLock = Nobody
  /\ session = [s \in AtlasSession |-> AtRest] /\ atlasCrashes = 0

-----------------------------------------------------------------------------
Sits(s, step) == session[s].at = step
Puts(s, next) == session' = [session EXCEPT ![s] = next]

\* AuthorizeGrant reads the document without the lock; a torn one is an error.
Authorized(by) == by \in StandingGrant => grants[by] = "active"

\* An edit reads the page: an absent one, or one that is cut off and so declares
\* no section or field, is an error.
Reads(op) == op # "create-page" => page.file = "whole"

\* Every operation: authority, then the journal, then the page as it is now and
\* the change computed from it.  A caller that expects the revision it once
\* collected, which is no longer the current one, gets a proposal and nothing is
\* written.
Call(s, op, key, by) ==
  /\ Sits(s, "rest") /\ Authorized(by) /\ journal[<<op, key>>] = "none"
  /\ Cardinality({k \in DOMAIN journal : journal[k] # "none"}) < MaxAtlasOps
  /\ Reads(op)
  /\ \E expected \in IF op = "create-page" THEN {"any"} ELSE {"any", "stale"} :
       Puts(s, [at |-> IF expected = "stale" THEN "record" ELSE "change",
                op |-> op, key |-> key, current |-> page,
                state |-> IF expected = "stale" THEN "proposed" ELSE "written"])
  /\ UNCHANGED <<page, journal, grants, grantLock, atlasCrashes>>

AppendEntry(s, key, by) == Call(s, "append-entry", key, by)
SetField(s, key, by) == Call(s, "set-field", key, by)
Link(s, key, by) == Call(s, "link", key, by)

\* An entry is added under its section, a field has one value, and a link that
\* the page has is not repeated.
insertUnderSection(current, key) == [current EXCEPT !.entries[key] = @ + 1]
replaceField(current, key) == [current EXCEPT !.field = key]
Linked(current, key) == [current EXCEPT !.links[key] = IF @ > 0 THEN @ ELSE 1]
Updated(op, key, current) ==
  CASE op = "append-entry" -> insertUnderSection(current, key)
    [] op = "set-field"    -> replaceField(current, key)
    [] op = "link"         -> Linked(current, key)

\* WriteNewPrivateFile creates the page or keeps the one that is there.
CreatePage(s) ==
  /\ Sits(s, "change") /\ session[s].op = "create-page"
  /\ IF page = AbsentPage
     THEN /\ page' = Page([k \in EntryKey |-> 0], session[s].key, [k \in EntryKey |-> 0])
          /\ Puts(s, [session[s] EXCEPT !.at = "record"])
     ELSE /\ page.file = "whole" /\ UNCHANGED page
          /\ Puts(s, [session[s] EXCEPT !.at = "record", !.state = "unchanged"])
  /\ UNCHANGED <<journal, grants, grantLock, atlasCrashes>>

\* commitEdit: what would not change the page is recorded as unchanged, else
\* ReplacePrivateFile truncates the file ...
CommitEdit(s) ==
  /\ Sits(s, "change") /\ session[s].op # "create-page"
  /\ IF Updated(session[s].op, session[s].key, session[s].current) = session[s].current
     THEN Puts(s, [session[s] EXCEPT !.at = "record", !.state = "unchanged"]) /\ UNCHANGED page
     ELSE Puts(s, [session[s] EXCEPT !.at = "write"]) /\ page' = TornPage
  /\ UNCHANGED <<journal, grants, grantLock, atlasCrashes>>
\* ... and writes it; over another write in progress the longer one's tail stays.
Write(s) ==
  /\ Sits(s, "write")
  /\ page' \in {Updated(session[s].op, session[s].key, session[s].current)}
                 \cup (IF page = TornPage THEN {} ELSE {TornPage})
  /\ Puts(s, [session[s] EXCEPT !.at = "record"])
  /\ UNCHANGED <<journal, grants, grantLock, atlasCrashes>>

\* record creates the journal file; one that is there is kept.
Record(s) ==
  /\ Sits(s, "record")
  /\ LET id == <<session[s].op, session[s].key>> IN
     journal' = [journal EXCEPT ![id] = IF @ = "none" THEN session[s].state ELSE @]
  /\ Puts(s, AtRest)
  /\ UNCHANGED <<page, grants, grantLock, atlasCrashes>>

-----------------------------------------------------------------------------
\* CreateGrant, PauseGrant, ResumeGrant, RevokeGrant: each reads the document
\* under grants.lock, changes one grant and replaces the whole document.
\* Mutant: the document is changed without the lock.
LockFreeOfOthersIgnored == TRUE
LockFreeOfOthers == grantLock = Nobody
Changes(state) ==
  {c \in {[from |-> "none", to |-> "active"], [from |-> "active", to |-> "paused"],
          [from |-> "paused", to |-> "active"], [from |-> "active", to |-> "revoked"],
          [from |-> "paused", to |-> "revoked"]} : c.from = state}
MutateGrants(s) ==
  /\ Sits(s, "rest") /\ LockFreeOfOthers /\ grantLock' = s /\ grants # TornGrants
  /\ \E g \in StandingGrant : \E c \in Changes(grants[g]) :
       Puts(s, [at |-> "grants", document |-> [grants EXCEPT ![g] = c.to]])
  /\ UNCHANGED <<page, journal, grants, atlasCrashes>>
WriteGrants(s) ==
  /\ Sits(s, "grants") /\ grants' = session[s].document
  /\ grantLock' = Nobody /\ Puts(s, AtRest)
  /\ UNCHANGED <<page, journal, atlasCrashes>>

\* A process stops: what it was creating or replacing stays cut off.
AtlasCrash(s) ==
  /\ ~Sits(s, "rest") /\ atlasCrashes < MaxAtlasCrashes /\ atlasCrashes' = atlasCrashes + 1
  /\ Puts(s, AtRest)
  /\ grantLock' = IF grantLock = s THEN Nobody ELSE grantLock
  /\ grants' \in {grants} \cup (IF Sits(s, "grants") THEN {TornGrants} ELSE {})
  /\ page' \in {page} \cup (IF Sits(s, "change") /\ session[s].op = "create-page" /\ page = AbsentPage
                            THEN {TornPage} ELSE {})
  /\ journal' \in {journal} \cup
       (IF Sits(s, "record") /\ journal[<<session[s].op, session[s].key>>] = "none"
        THEN {[journal EXCEPT ![<<session[s].op, session[s].key>>] = "torn"]} ELSE {})

AtlasNext ==
  \E s \in AtlasSession :
    \/ \E key \in EntryKey, by \in Origin :
         \/ Call(s, "create-page", key, by) \/ AppendEntry(s, key, by)
         \/ SetField(s, key, by) \/ Link(s, key, by)
    \/ CreatePage(s) \/ CommitEdit(s) \/ Write(s) \/ Record(s)
    \/ MutateGrants(s) \/ WriteGrants(s) \/ AtlasCrash(s)
AtlasSpec == AtlasInit /\ [][AtlasNext]_atlasVars

-----------------------------------------------------------------------------
\* Whatever two sessions do to the grants at once, a revoked grant is never
\* again read as active or paused: "a revocation that can be undone is not one".
RevokedForGood ==
  [][\A g \in StandingGrant : grants[g] = "revoked" => grants'[g] \in {"revoked", "torn"}]_atlasVars

=============================================================================
