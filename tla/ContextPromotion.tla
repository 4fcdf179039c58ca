-------------------------- MODULE ContextPromotion --------------------------
(***************************************************************************)
(* Promotion of a reviewed statement from a workspace to an account.  The  *)
(* phase of a promotion lives in a trusted anchor store; its evidence is a *)
(* set of signed files that are linked into place and never replaced.      *)
(* Several services share both.  A call that fails or stops half way       *)
(* leaves what it wrote.                                                   *)
(***************************************************************************)
EXTENDS Naturals, Sequences

CONSTANTS Service, Account, Workspace, PromotionId, Digest,
          Grants          \* pairs <<action, account or workspace>> of the caller

VARIABLES anchor,         \* AnchorStore: phase and contents of each promotion
          evidence,       \* the signed files below the root
          artifact,       \* digest of the source artifact of each workspace
          service         \* what the write call of each service is doing

promotionVars == <<anchor, evidence, artifact, service>>

Promotion == [account : Account, workspace : Workspace, promotion : PromotionId,
              source : Digest]
Key == Account \X PromotionId
anchorKey(i) == <<i.account, i.promotion>>

PromotionFiles == <<"prepared", "source", "account", "promoted">>
RevocationFiles == <<"revocation_prepared", "revocation", "revoked">>

\* promotionPaths: the source receipt lies in the workspace, the rest with the account.
Path(kind, i) == <<kind, IF kind = "source" THEN i.workspace ELSE i.account, i.promotion>>
Paths == ({"source"} \X Workspace \X PromotionId)
         \cup ({"prepared", "account", "promoted", "revocation_prepared", "revocation", "revoked"}
               \X Account \X PromotionId)
\* A source receipt names no account; every other file names the whole promotion.
Content(kind, i) ==
  IF kind = "source" THEN [workspace |-> i.workspace, promotion |-> i.promotion, source |-> i.source]
  ELSE i

Missing == [missing |-> TRUE]
None == [phase |-> "none"]
Idle == [at |-> "idle"]

PromotionInit ==
  /\ anchor = [k \in Key |-> None]
  /\ evidence = [p \in Paths |-> Missing]
  /\ artifact \in [Workspace -> Digest]
  /\ service = [s \in Service |-> Idle]

-----------------------------------------------------------------------------
authorize(action, i) == {<<action, i.workspace>>, <<action, i.account>>} \subseteq Grants

\* readSignedJSON of one file: it is there and says what the anchor says.
Shown(kind, i) == evidence[Path(kind, i)] = Content(kind, i)

\* verifiedActiveRecord
Verified(i) == \A kind \in {"account", "promoted", "source"} : Shown(kind, i)

\* Promote: the artifact still has the approved digest, the id is unused.
Promote(s, i) ==
  /\ service[s] = Idle
  /\ authorize("promote", i) /\ artifact[i.workspace] = i.source
  /\ anchor[anchorKey(i)] = None
  /\ anchor' = [anchor EXCEPT ![anchorKey(i)] = [phase |-> "preparing", input |-> i]]
  /\ service' = [service EXCEPT ![s] = [at |-> "promote", input |-> i, todo |-> PromotionFiles]]
  /\ UNCHANGED <<evidence, artifact>>

\* Revoke: the anchor is the barrier, the evidence follows it.
Revoke(s, k) ==
  /\ service[s] = Idle
  /\ anchor[k].phase = "active"
  /\ LET i == anchor[k].input IN
       /\ authorize("revoke", i) /\ Verified(i)
       /\ service' = [service EXCEPT ![s] = [at |-> "revoke", input |-> i, todo |-> RevocationFiles]]
  /\ anchor' = [anchor EXCEPT ![k].phase = "revoked"]
  /\ UNCHANGED <<evidence, artifact>>

\* writeImmutable of the next file: Link fails when the path exists.
\* Mutant: a file that exists is taken for this one.
LinkableAlways(path) == TRUE
Linkable(path) == evidence[path] = Missing
WriteSigned(s) ==
  /\ service[s] # Idle /\ service[s].todo # <<>>
  /\ LET kind == Head(service[s].todo)
         path == Path(kind, service[s].input) IN
     IF Linkable(path)
     THEN /\ evidence' = [evidence EXCEPT ![path] = IF @ = Missing
                            THEN Content(kind, service[s].input) ELSE @]
          /\ service' = [service EXCEPT ![s].todo = Tail(@)]
     ELSE service' = [service EXCEPT ![s] = Idle] /\ UNCHANGED evidence
  /\ UNCHANGED <<anchor, artifact>>

\* The end of a call: Promote asks for the transition from preparing to active.
Finish(s) ==
  /\ service[s] # Idle /\ service[s].todo = <<>>
  /\ LET k == anchorKey(service[s].input) IN
     anchor' = IF service[s].at = "promote" /\ anchor[k] = [phase |-> "preparing",
                                                            input |-> service[s].input]
               THEN [anchor EXCEPT ![k].phase = "active"] ELSE anchor
  /\ service' = [service EXCEPT ![s] = Idle]
  /\ UNCHANGED <<evidence, artifact>>

\* A file operation fails or the process stops: the call is gone, its files stay.
Interrupt(s) ==
  /\ service[s] # Idle
  /\ service' = [service EXCEPT ![s] = Idle]
  /\ UNCHANGED <<anchor, evidence, artifact>>

\* External: the source artifact is edited in its workspace.
EditArtifact(w, d) ==
  /\ artifact[w] # d
  /\ artifact' = [artifact EXCEPT ![w] = d]
  /\ UNCHANGED <<anchor, evidence, service>>

PromotionNext ==
  \/ \E s \in Service : \/ \E i \in Promotion : Promote(s, i)
                        \/ \E k \in Key : Revoke(s, k)
                        \/ WriteSigned(s) \/ Finish(s) \/ Interrupt(s)
  \/ \E w \in Workspace, d \in Digest : EditArtifact(w, d)
PromotionSpec == PromotionInit /\ [][PromotionNext]_promotionVars

-----------------------------------------------------------------------------
\* GetActive without the clock: what an account reader is shown.
ReadableByAccount(k) == anchor[k].phase = "active" /\ Verified(anchor[k].input)

\* AuditReceipts: every receipt that the phase calls for is there.
Audited(k) ==
  LET i == anchor[k].input IN
  \/ anchor[k].phase = "active" /\ Shown("prepared", i) /\ Shown("promoted", i)
  \/ /\ anchor[k].phase = "revoked"
     /\ \A kind \in {"prepared", "promoted", "revocation_prepared", "revoked"} : Shown(kind, i)

\* An active promotion can be read, audited and so also revoked: its evidence is
\* complete and its own, whatever other services, accounts with the same
\* promotion id and interrupted calls have left in the same directories; and the
\* evidence of a revocation exists only behind the barrier of the anchor.
ActiveIsEvidenced ==
  \A k \in Key :
    /\ anchor[k].phase = "active" => ReadableByAccount(k) /\ Audited(k)
    /\ evidence[<<"revocation_prepared", k[1], k[2]>>] # Missing => anchor[k].phase = "revoked"
=============================================================================
