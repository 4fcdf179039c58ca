----------------------------- MODULE QualityLoop -----------------------------
(***************************************************************************)
(* Maestro's routing and quality loop.  PlanFor turns a request into a     *)
(* plan that binds one registered agent to each role the route needs;      *)
(* ExecuteAgentEvents applies the agents' returns to a chain, one at a     *)
(* time: the Case returns content, the account's agent validates it and    *)
(* Yoda reviews it, and each may send it back a few times.                 *)
(***************************************************************************)
EXTENDS Naturals, Sequences, FiniteSets

CONSTANTS Request,             \* requests: what validateInput lets through
          Content,             \* digests of returned content
          MaxAccountCycles, MaxYodaCycles, MaxCaseAttempts,    \* LoopPolicy
          MaximumAgentEvents

NoRequest == [intent |-> "none"]

\* validateInput refuses a registry that names an agent twice; ids are numbered in
\* their order.
ASSUME RequestAssumption ==
  \A r \in Request :
    /\ r # NoRequest
    /\ r.executionOnly \in BOOLEAN /\ r.clientLens \in BOOLEAN /\ r.material \in BOOLEAN
    /\ \A a, b \in r.agents : a.id \in Nat /\ (a.id = b.id => a = b)

VARIABLES request,             \* what Maestro was asked
          routePlan,           \* its plan, once there is one
          chain,               \* the chain of the execution under way
          eventCount           \* events it has been given

loopVars == <<request, routePlan, chain, eventCount>>

NoPlan == [none |-> TRUE]
NoChain == [stage |-> "none"]
NoDigest == "no digest"
Decision == {"approve", "refine", "return"}
AgentEvent ==
  [agent : {a.id : a \in routePlan.bindings}, decision : Decision, content : Content \cup {NoDigest}]

LoopInit ==
  /\ request = NoRequest /\ routePlan = NoPlan
  /\ chain = NoChain /\ eventCount = 0

-----------------------------------------------------------------------------
\* The client lens and the materiality of a request.
AccountConsultation(r) == ~r.executionOnly \/ r.clientLens
YodaRequired(r) == r.material
\* accountScopeID
AccountScope(r) == IF r.kind = "account" THEN r.scope ELSE r.account

\* The roles a route needs, with the scope each is looked up in.
Role(role, kind, scope) == [role |-> role, kind |-> kind, scope |-> scope]
Reviewer == Role("reviewer", "review", "review")
SpecialistFor(r) ==
  CASE r.intent = "account_context"   -> Role("client_account_agent", "account", r.scope)
    [] r.intent = "practice_advisory" -> Role("pa_expert", "practice", r.scope)
    [] r.intent = "material_review"   -> Reviewer
    [] r.intent = "health_governance" -> Role("governance_analyst", "health", r.scope)
    [] r.intent = "bounded_errand"    -> Role("errand_helper", "errand", r.scope)
    [] r.intent = "code_quality"      -> Role("quality_guardian", r.kind, r.scope)
CaseRoles(r) ==
  {Role("case_agent", r.kind, r.scope)}
    \cup {x \in {Role("client_account_agent", "account", AccountScope(r))} : AccountConsultation(r)}
    \cup {x \in {Reviewer} : YodaRequired(r)}
RolesNeeded(r) ==
  CASE r.intent = "direct_answer"  -> {}
    [] r.intent = "case_execution" -> CaseRoles(r)
    [] OTHER                       -> {SpecialistFor(r)}

\* find: the first available agent by id.
Available(r, need) == {a \in r.agents : a.available /\ Role(a.role, a.kind, a.scope) = need}
Find(r, need) == CHOOSE a \in Available(r, need) : \A b \in Available(r, need) : a.id <= b.id
\* caseHasAccountBinding asks every registered agent, available or not.
CaseHasAccountBinding(r) ==
  \E a \in r.agents :
    /\ Role(a.role, a.kind, a.scope) = Role("case_agent", "case", r.scope)
    /\ a.parentKind = "account" /\ a.parent = AccountScope(r)

Routable(r) ==
  /\ r.intent = "code_quality" => r.kind = "workspace"
  /\ r.intent = "health_governance" => r.health
  /\ \A need \in RolesNeeded(r) : Available(r, need) # {}
  /\ r.intent = "case_execution" /\ AccountConsultation(r) =>
       AccountScope(r) # "" /\ CaseHasAccountBinding(r)

CaseEntry(r) ==
  IF r.intent # "case_execution" THEN "" ELSE IF AccountConsultation(r) THEN "account_first" ELSE "direct_case"
PlanOf(r) ==
  [intent |-> r.intent, entry |-> CaseEntry(r), kind |-> r.kind, scope |-> r.scope, account |-> r.account,
   validation |-> CaseEntry(r) = "account_first",
   yoda |-> r.intent = "case_execution" /\ YodaRequired(r),
   bindings |-> {Find(r, need) : need \in RolesNeeded(r)}]

Bound(p, role) == CHOOSE a \in p.bindings : a.role = role
\* Validate, validatePlanBindings: what a plan of PlanFor can still fail.
ParentBound(p) == Bound(p, "case_agent").parentKind = "account" /\ Bound(p, "case_agent").parent = p.account
ValidPlan(p) ==
  /\ \A a, b \in p.bindings : (a.id = b.id \/ a.role = b.role) => a = b
  /\ p.intent = "code_quality" => Bound(p, "quality_guardian").parentKind = ""
  /\ p.entry = "account_first" =>
       /\ p.account # "" /\ ParentBound(p)
       /\ Bound(p, "case_agent").kind = "case"
       /\ Bound(p, "client_account_agent").scope = p.account
  /\ p.entry = "direct_case" /\ p.account # "" => ParentBound(p)

PlanFor(r) ==
  /\ request = NoRequest /\ Routable(r)
  /\ request' = r /\ routePlan' = PlanOf(r) /\ UNCHANGED <<chain, eventCount>>

-----------------------------------------------------------------------------
StageAt(stage, agent) == [stage |-> stage, active |-> agent]
Final == StageAt("final", 0)
\* Who goes first on each route.
FirstStage(p) ==
  CASE p.entry = "account_first"        -> StageAt("account_framing", Bound(p, "client_account_agent").id)
    [] p.entry = "direct_case"          -> StageAt("case_execution", Bound(p, "case_agent").id)
    [] p.intent = "direct_answer"       -> Final
    [] p.intent = "material_review"     -> StageAt("yoda_review", Bound(p, "reviewer").id)
    [] OTHER                            -> StageAt("advisory", (CHOOSE a \in p.bindings : TRUE).id)

LoopReceipt(stage, agent, decision, content) ==
  [stage |-> stage, agent |-> agent, decision |-> decision, content |-> content]
NewChain ==
  /\ routePlan # NoPlan /\ ValidPlan(routePlan) /\ chain = NoChain /\ eventCount = 0
  /\ LET first == FirstStage(routePlan) IN
     chain' = [stage |-> first.stage, active |-> first.active, content |-> NoDigest, accountApproval |-> NoDigest,
               accountCycles |-> 0, yodaCycles |-> 0, caseAttempts |-> 0,
               receipts |-> IF first = Final THEN <<LoopReceipt("final", 0, "direct_no_branch", NoDigest)>> ELSE << >>]
  /\ UNCHANGED <<request, routePlan, eventCount>>

\* Where a chain goes when its active agent has answered.
Goes(c, to) == [c EXCEPT !.stage = to.stage, !.active = to.active]
ToCase(c) == Goes(c, StageAt("case_execution", Bound(routePlan, "case_agent").id))
AfterApproval(c) ==
  IF routePlan.yoda THEN Goes(c, StageAt("yoda_review", Bound(routePlan, "reviewer").id)) ELSE Goes(c, Final)
AfterCase(c) ==
  IF routePlan.validation
  THEN Goes(c, StageAt("account_validation", Bound(routePlan, "client_account_agent").id))
  ELSE AfterApproval(c)

\* An approval counts for the content it names only.
\* Mutant: an approval of the account's agent counts whatever it names.
ApprovesAny(c, e) == TRUE
Approves(c, e) == e.content = c.content

\* A refinement uses up a cycle and withdraws the content with its approvals.
Refined(c) == ToCase([c EXCEPT !.content = NoDigest, !.accountApproval = NoDigest])

\* Advance refuses an event of another agent, a decision its stage does not
\* know, a stale digest, and a return or refinement beyond its budget.
AcceptsAdvice(e) == e.decision = "approve" \/ (e.decision = "return" /\ e.content # NoDigest)
AcceptsReview(c, e) ==
  /\ e.decision # "return" /\ e.content = c.content
  /\ routePlan.validation => c.accountApproval = c.content
  /\ e.decision = "refine" => c.yodaCycles < MaxYodaCycles
Accepts(c, e) ==
  /\ e.agent = c.active
  /\ CASE c.stage = "account_framing"    -> e.decision # "return"
       [] c.stage = "advisory"           -> AcceptsAdvice(e)
       [] c.stage = "case_execution"     -> c.caseAttempts < MaxCaseAttempts /\ e.decision = "return" /\ e.content # NoDigest
       [] c.stage = "account_validation" -> \/ e.decision = "approve" /\ Approves(c, e)
                                            \/ e.decision = "refine" /\ c.accountCycles < MaxAccountCycles
       [] c.stage = "yoda_review"        -> IF routePlan.entry = "" THEN AcceptsAdvice(e) ELSE AcceptsReview(c, e)
       [] OTHER                          -> FALSE

\* The chain after an event it accepts.
Executed(c, e) == AfterCase([c EXCEPT !.caseAttempts = @ + 1, !.content = e.content, !.accountApproval = NoDigest])
AfterValidation(c, e) ==
  IF e.decision = "approve" THEN AfterApproval([c EXCEPT !.accountApproval = e.content])
                            ELSE Refined([c EXCEPT !.accountCycles = @ + 1])
Reviewed(c, e) ==
  IF e.decision = "approve" THEN Goes(c, Final) ELSE Refined([c EXCEPT !.yodaCycles = @ + 1])
Advanced(c, e) ==
  CASE c.stage = "account_framing"                     -> ToCase(c)
    [] c.stage = "case_execution"                      -> Executed(c, e)
    [] c.stage = "account_validation"                  -> AfterValidation(c, e)
    [] c.stage = "yoda_review" /\ routePlan.entry # "" -> Reviewed(c, e)
    [] OTHER                                           -> Goes([c EXCEPT !.content = e.content], Final)

\* ExecuteAgentEvents: a refused event, and a budget that is used up, discard the
\* whole chain (the closed chain of failState is not returned either).
ExecuteAgentEvent(e) ==
  /\ eventCount < MaximumAgentEvents /\ eventCount' = eventCount + 1
  /\ chain' = IF Accepts(chain, e)
              THEN [Advanced(chain, e) EXCEPT
                      !.receipts = Append(@, LoopReceipt(chain.stage, e.agent, e.decision, e.content))]
              ELSE NoChain
  /\ UNCHANGED <<request, routePlan>>

LoopNext ==
  \/ \E r \in Request : PlanFor(r)
  \/ NewChain
  \/ chain # NoChain /\ \E e \in AgentEvent : ExecuteAgentEvent(e)
LoopSpec == LoopInit /\ [][LoopNext]_loopVars

-----------------------------------------------------------------------------
\* The agent behind a receipt.
AgentOf(receipt) == CHOOSE a \in request.agents : a.id = receipt.agent

\* A finished Case answers with the content of its last Case return, made by an
\* agent of the requested scope.  If the request had a client lens or was more
\* than execution, the agent of the account that is that Case's parent approved
\* exactly this content afterwards; if it was material, Yoda approved it after
\* that (PlanFor, Advance): no refinement lets an older approval count.
FinalIsApproved ==
  chain # NoChain /\ chain.stage = "final" /\ request.intent = "case_execution" =>
    \E k \in DOMAIN chain.receipts :
      LET work == chain.receipts[k]
          Later(from, stage, Fits(_)) ==
            {j \in from+1 .. Len(chain.receipts) :
               /\ chain.receipts[j].stage = stage /\ chain.receipts[j].decision = "approve"
               /\ chain.receipts[j].content = chain.content /\ Fits(AgentOf(chain.receipts[j]))}
          Accounts == Later(k, "account_validation",
                        LAMBDA a : a.role = "client_account_agent" /\ a.scope = AgentOf(work).parent)
          Lens == request.clientLens \/ ~request.executionOnly
      IN
      /\ work.stage = "case_execution" /\ work.content = chain.content
      /\ AgentOf(work).scope = request.scope
      /\ \A j \in k+1 .. Len(chain.receipts) : chain.receipts[j].stage # "case_execution"
      /\ Lens => Accounts # {}
      /\ request.material =>
           \E j \in (IF Lens THEN Accounts ELSE {k}) : Later(j, "yoda_review", LAMBDA a : a.role = "reviewer") # {}
=============================================================================
