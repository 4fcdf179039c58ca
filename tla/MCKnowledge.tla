---------------------------- MODULE MCKnowledge -----------------------------
(***************************************************************************)
(* The components that keep what agents know, write and learn, on small    *)
(* instances.  They share no files, so what one does is independent of the *)
(* others: a behaviour picks one component and runs it.  The modules with  *)
(* proofs of their own are extended; the others are instances.             *)
(***************************************************************************)
EXTENDS Naturals, Sequences, MemoryEngine, DailyJournal, PromptHistory, OwnerContext, OwnerObservation, ContextPromotion, AgentIdentity, AgentState, WorkspaceAgent, AtlasOps, ManagedAtlas, PriorWork, Federation, YodaReview, DarwinEvolution, DarwinWorker

CONSTANTS Component,    \* the components to run
          Process       \* processes that use a component at the same time

VARIABLE component     \* which of them this behaviour is about

Observed == {[episode |-> "e1", source |-> "s1", signal |-> "behaviour", confirmed |-> FALSE],
             [episode |-> "e2", source |-> "s2", signal |-> "explicit", confirmed |-> TRUE]}
InterviewFacets == <<"purpose">>
\* The caller may do everything.
AllGrants == {"promote", "revoke", "read", "audit"} \X {"a1", "a2", "w1"}

-----------------------------------------------------------------------------
Init ==
  /\ component \in Component
  /\ MemoryInit
  /\ DailyInit  /\ (component = "journal" \/ dreamRequest = NoChain)
  /\ PromptInit
  /\ OwnerInit
  /\ ObservationInit
  /\ PromotionInit  /\ (component = "promotion" \/ artifact = [w \in {"w1"} |-> "d1"])
  /\ IdentityInit
  /\ StateInit
  /\ AgentInit
  /\ AtlasInit
  /\ ManagedInit  /\ (component = "bundle" \/ output = NoBundle)
  /\ PriorInit
  /\ FedInit
  /\ ReviewInit
  /\ EvolutionInit
  /\ HealthInit

Others(c) ==
  /\ UNCHANGED component
  /\ IF c = "memory" THEN TRUE ELSE UNCHANGED memoryVars
  /\ IF c = "journal" THEN TRUE ELSE UNCHANGED dailyVars
  /\ IF c = "prompts" THEN TRUE ELSE UNCHANGED promptVars
  /\ IF c = "owner" THEN TRUE ELSE UNCHANGED ownerVars
  /\ IF c = "observation" THEN TRUE ELSE UNCHANGED observationVars
  /\ IF c = "promotion" THEN TRUE ELSE UNCHANGED promotionVars
  /\ IF c = "identity" THEN TRUE ELSE UNCHANGED identityVars
  /\ IF c = "state" THEN TRUE ELSE UNCHANGED stateVars
  /\ IF c = "agent" THEN TRUE ELSE UNCHANGED agentVars
  /\ IF c = "atlas" THEN TRUE ELSE UNCHANGED atlasVars
  /\ IF c = "bundle" THEN TRUE ELSE UNCHANGED managedVars
  /\ IF c = "prior" THEN TRUE ELSE UNCHANGED priorVars
  /\ IF c = "federation" THEN TRUE ELSE UNCHANGED fedVars
  /\ IF c = "review" THEN TRUE ELSE UNCHANGED reviewVars
  /\ IF c = "evolution" THEN TRUE ELSE UNCHANGED evolutionVars
  /\ IF c = "darwin" THEN TRUE ELSE UNCHANGED healthVars

Next ==
  \/ component = "memory" /\ MemoryNext /\ Others("memory")
  \/ component = "journal" /\ DailyNext /\ Others("journal")
  \/ component = "prompts" /\ PromptNext /\ Others("prompts")
  \/ component = "owner" /\ OwnerNext /\ Others("owner")
  \/ component = "observation" /\ ObservationNext /\ Others("observation")
  \/ component = "promotion" /\ PromotionNext /\ Others("promotion")
  \/ component = "identity" /\ IdentityNext /\ Others("identity")
  \/ component = "state" /\ StateNext /\ Others("state")
  \/ component = "agent" /\ AgentNext /\ Others("agent")
  \/ component = "atlas" /\ AtlasNext /\ Others("atlas")
  \/ component = "bundle" /\ ManagedNext /\ Others("bundle")
  \/ component = "prior" /\ PriorNext /\ Others("prior")
  \/ component = "federation" /\ FedNext /\ Others("federation")
  \/ component = "review" /\ ReviewNext /\ Others("review")
  \/ component = "evolution" /\ EvolutionNext /\ Others("evolution")
  \/ component = "darwin" /\ HealthNext /\ Others("darwin")

vars == <<component, memoryVars,
          dailyVars,
          promptVars,
          ownerVars,
          observationVars,
          promotionVars,
          identityVars,
          stateVars,
          agentVars,
          atlasVars,
          managedVars,
          priorVars,
          fedVars,
          reviewVars,
          evolutionVars,
          healthVars>>
Spec == Init /\ [][Next]_vars

-----------------------------------------------------------------------------
=============================================================================
