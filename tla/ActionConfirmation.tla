-------------------------- MODULE ActionConfirmation --------------------------
(***************************************************************************)
(* actionconfirmation.Store: an external action of a session is held until *)
(* the owner repeats a challenge, and is then let through once.  Hook      *)
(* processes share one state file below a directory lock.  A binding       *)
(* (runtime, workspace, actor, session and canonical action) is reduced to *)
(* a session and an action; the HMACs over them to equality.               *)
(***************************************************************************)
EXTENDS Integers

CONSTANTS Hook,         \* hook processes
          Session,      \* runtime, workspace, actor and session of a caller
          Action,       \* action name, target and digest of the input
          ChallengeTTL, \* life of a challenge, in ticks
          Retention,    \* how long ended challenges are kept
          MaxTime, MaxChallenge, MaxConfirmCrashes

ASSUME TTLAssumption == ChallengeTTL \in Nat

VARIABLES challenges,   \* confirmation-state.json, in the order of issue
          issued,       \* number of identities drawn by randomID
          confirmLock,  \* .confirmation.lock: its maker or "free"
          confirmKey,   \* confirmation.key: none, empty (created) or ready
          confirmClock,
          confirmHook,  \* place, request and time of each hook process
          spent,        \* history: challenges written as consumed
          uses,         \* history: how often a challenge let its action through
          confirmCrashes

confirmVars == <<challenges, issued, confirmLock, confirmKey, confirmClock, confirmHook,
                 spent, uses, confirmCrashes>>

Id == 1 .. MaxChallenge
NeverYet == -1
NoChallenge == [none |-> TRUE]      \* not issued, or dropped

ConfirmRequest == [op : {"authorize"}, session : Session, action : Action]
                  \cup [op : {"confirm"}, session : Session, id : Id]
ConfirmIdle == [at |-> "idle"]

ConfirmInit ==
  /\ challenges = [i \in Id |-> NoChallenge] /\ issued = 0 /\ confirmLock = "free"
  /\ confirmKey = "none" /\ confirmClock = 0 /\ spent = {} /\ confirmCrashes = 0
  /\ uses = [i \in Id |-> 0]
  /\ confirmHook = [h \in Hook |-> ConfirmIdle]

\* prune: what ended long ago is dropped.
Kept(c, now) == /\ ~(c.state = "consumed" /\ now - c.consumed > Retention)
                /\ ~(now - c.expires > Retention)
PresentChallenges(list) == {i \in Id : list[i] # NoChallenge}
Prune(now) == [i \in Id |-> IF i \in PresentChallenges(challenges) /\ Kept(challenges[i], now)
                            THEN challenges[i] ELSE NoChallenge]

\* validateChallengeRecord: the times of a challenge follow its states.
ValidRecord(c) ==
  /\ c.expires > c.created
  /\ c.state = "pending" => c.confirmed = NeverYet /\ c.consumed = NeverYet
  /\ c.state \in {"confirmed", "consumed"} =>
       c.confirmed >= c.created /\ c.confirmed <= c.expires
  /\ c.state = "confirmed" => c.consumed = NeverYet
  /\ c.state = "consumed" => c.consumed >= c.confirmed /\ c.consumed <= c.expires

\* Authorize looks at challenges of its binding that are neither consumed nor
\* expired, oldest first.
Live(list, r, now) ==
  {i \in PresentChallenges(list) : /\ list[i].session = r.session
                                   /\ list[i].action = r.action
                                   /\ now < list[i].expires
                                   /\ list[i].state \in {"pending", "confirmed"}}
OldestOf(ids) == CHOOSE i \in ids : \A j \in ids : i <= j

NewChallenge(r, now) ==
  [session |-> r.session, action |-> r.action,
   state |-> "pending", created |-> now, expires |-> now + ChallengeTTL,
   confirmed |-> NeverYet, consumed |-> NeverYet]

Consumed(c, now) == [c EXCEPT !.state = "consumed", !.consumed = now]

Reply(list, n, grant) == [list |-> list, issued |-> n, grant |-> grant]

AuthorizeReply(r, now) ==
  LET list == Prune(now)
      live == Live(list, r, now)
      i == OldestOf(live)
      new == [j \in Id |-> IF j = issued + 1 THEN NewChallenge(r, now) ELSE list[j]]
  IN IF live = {} THEN Reply(new, issued + 1, 0)
     ELSE IF list[i].state = "pending" THEN Reply(list, issued, 0)
     ELSE Reply([list EXCEPT ![i] = Consumed(list[i], now)], issued, i)

\* Confirm accepts the identity of a pending challenge from the session it is
\* bound to; the caller is told of anything else.
Confirmable(list, r, now) == /\ r.id \in PresentChallenges(list)
                             /\ list[r.id].session = r.session
                             /\ list[r.id].state = "pending"
                             /\ now < list[r.id].expires
ConfirmReply(r, now) ==
  Reply([Prune(now) EXCEPT ![r.id].state = "confirmed", ![r.id].confirmed = now], issued, 0)

-----------------------------------------------------------------------------
\* A hook process reads the clock before it asks for the lock.
CallStore(h, r) == /\ confirmHook[h].at = "idle"
                   /\ r.op = "confirm" => r.id <= issued
                   /\ confirmHook' = [confirmHook EXCEPT ![h] = [at |-> "lock", req |-> r, now |-> confirmClock]]
                   /\ UNCHANGED <<challenges, issued, confirmLock, confirmKey, confirmClock, spent, uses, confirmCrashes>>

ConfirmPlace(h, at) == confirmHook' = [confirmHook EXCEPT ![h].at = at]
LeaveStore(h, grant) == confirmHook' = [confirmHook EXCEPT ![h] = [at |-> "unlock", grant |-> grant]]

\* Mkdir of the lock; a lock that exists is busy, whoever left it.
TakeLock(h) ==
  /\ confirmHook[h].at = "lock"
  /\ IF confirmLock = "free"
     THEN confirmLock' = h /\ ConfirmPlace(h, "key")
     ELSE confirmHook' = [confirmHook EXCEPT ![h] = ConfirmIdle] /\ UNCHANGED confirmLock
  /\ UNCHANGED <<challenges, issued, confirmKey, confirmClock, spent, uses, confirmCrashes>>

\* loadOrCreateKey creates the file exclusively and then writes it; a key of
\* another size is refused.
LoadKey(h) ==
  /\ confirmHook[h].at = "key"
  /\ CASE confirmKey = "none"  -> confirmKey' = "empty" /\ ConfirmPlace(h, "writekey")
       [] confirmKey = "empty" -> UNCHANGED confirmKey /\ LeaveStore(h, 0)
       [] confirmKey = "ready" -> UNCHANGED confirmKey /\ ConfirmPlace(h, "change")
  /\ UNCHANGED <<challenges, issued, confirmLock, confirmClock, spent, uses, confirmCrashes>>
WriteKey(h) ==
  /\ confirmHook[h].at = "writekey"
  /\ confirmKey' = "ready" /\ ConfirmPlace(h, "change")
  /\ UNCHANGED <<challenges, issued, confirmLock, confirmClock, spent, uses, confirmCrashes>>
\* The file stays as it was created.
WriteKeyFails(h) ==
  /\ confirmHook[h].at = "writekey" /\ LeaveStore(h, 0)
  /\ UNCHANGED <<challenges, issued, confirmLock, confirmKey, confirmClock, spent, uses, confirmCrashes>>

Acceptable(list) == \A i \in PresentChallenges(list) : ValidRecord(list[i])

\* readState, the change and writeState's rename.  Nothing is written and the
\* call is denied when the change or a record of its result is refused.
Answer(h) == LET r == confirmHook[h].req
                 now == confirmHook[h].now
             IN IF r.op = "authorize" THEN AuthorizeReply(r, now) ELSE ConfirmReply(r, now)
ChangeRefused(h) == LET r == confirmHook[h].req
                        now == confirmHook[h].now
                    IN IF r.op = "confirm" /\ ~Confirmable(Prune(now), r, now) THEN TRUE
                       ELSE ~Acceptable(Answer(h).list)

ChangeStore(h) ==
  /\ confirmHook[h].at = "change"
  /\ IF ChangeRefused(h)
     THEN LeaveStore(h, 0) /\ UNCHANGED <<challenges, issued, spent>>
     ELSE LET reply == Answer(h) IN
          /\ reply.issued <= MaxChallenge
          /\ challenges' = reply.list /\ issued' = reply.issued
          /\ LeaveStore(h, reply.grant)
          /\ spent' = spent \cup ({reply.grant} \ {0})
  /\ UNCHANGED <<confirmLock, confirmKey, confirmClock, uses, confirmCrashes>>

\* The write of the state file fails before its rename.
\* Mutant: the failure is not told, and the action goes through.
ChangeStoreFailsUntold(h) ==
  /\ confirmHook[h].at = "change" /\ confirmHook[h].req.op = "authorize"
  /\ LeaveStore(h, AuthorizeReply(confirmHook[h].req, confirmHook[h].now).grant)
  /\ UNCHANGED <<challenges, issued, confirmLock, confirmKey, confirmClock, spent, uses, confirmCrashes>>
ChangeStoreFails(h) == /\ confirmHook[h].at = "change"
                       /\ LeaveStore(h, 0)
                       /\ UNCHANGED <<challenges, issued, confirmLock, confirmKey, confirmClock, spent, uses, confirmCrashes>>

\* The deferred removal of the lock, and the answer to the host, which then
\* lets the action through.
UnlockStore(h) ==
  /\ confirmHook[h].at = "unlock"
  /\ confirmLock' = "free"
  /\ confirmHook' = [confirmHook EXCEPT ![h] = ConfirmIdle]
  /\ uses' = [i \in Id |-> IF confirmHook[h].grant = i THEN uses[i] + 1 ELSE uses[i]]
  /\ UNCHANGED <<challenges, issued, confirmKey, confirmClock, spent, confirmCrashes>>

HookCrash(h) == /\ confirmHook[h].at # "idle" /\ confirmCrashes < MaxConfirmCrashes
                /\ confirmCrashes' = confirmCrashes + 1
                /\ confirmHook' = [confirmHook EXCEPT ![h] = ConfirmIdle]
                /\ UNCHANGED <<challenges, issued, confirmLock, confirmKey, confirmClock, spent, uses>>

ConfirmTick == /\ confirmClock < MaxTime /\ confirmClock' = confirmClock + 1
               /\ UNCHANGED <<challenges, issued, confirmLock, confirmKey, confirmHook, spent, uses, confirmCrashes>>

ConfirmNext == \/ ConfirmTick
               \/ \E h \in Hook : \/ \E r \in ConfirmRequest : CallStore(h, r)
                                  \/ TakeLock(h) \/ LoadKey(h) \/ WriteKey(h) \/ WriteKeyFails(h)
                                  \/ ChangeStore(h) \/ ChangeStoreFails(h) \/ UnlockStore(h) \/ HookCrash(h)

ConfirmSpec == ConfirmInit /\ [][ConfirmNext]_confirmVars

-----------------------------------------------------------------------------
\* The phase of a challenge as SingleUse sees it.
Phase(i) == CASE i > issued -> "none"
              [] i <= issued /\ i \in spent -> "spent"
              [] i <= issued /\ i \notin spent /\ i \notin PresentChallenges(challenges) -> "lapsed"
              [] i <= issued /\ i \notin spent /\ i \in PresentChallenges(challenges) ->
                   IF challenges[i].state = "pending" THEN "offered"
                   ELSE IF challenges[i].state = "confirmed" THEN "approved" ELSE "spent"

Permission == INSTANCE SingleUse WITH phase <- [i \in Id |-> Phase(i)]

\* A challenge is issued, confirmed by the owner and consumed in this order,
\* and Authorize lets its action through at most once, whatever hook processes
\* run at the same time, stop with the lock held or were delayed after they
\* read the clock (Authorize, Confirm and transaction).
ConfirmationSingleUse == Permission!Spec

=============================================================================
