----------------------------- MODULE Governance -----------------------------
(***************************************************************************)
(* What keeps the AI of one organization in bounds                         *)
(* (modules/ai-governance/governance.service.ts): a budget per run and per *)
(* period, approvals for tools with external effect; and the decisions     *)
(* that managers take on its recommendations (modules/ai-ceo).  Reads and  *)
(* writes are statements of their own; transition reads inside its         *)
(* transaction, which at the database's isolation level is the same.       *)
(***************************************************************************)
EXTENDS Integers, FiniteSets, Functions

CONSTANTS
  Agents,       \* callers that run the AI concurrently
  MaxRuns,      \* bound: AgentRun rows
  RunBudget,    \* runBudgetCents
  PeriodBudget, \* periodBudgetCents
  Approvals,    \* ApprovalRequest rows
  Managers,     \* people who decide
  Duties        \* what a behaviour is about: sets of "runs", "tools", "decision"

ASSUME GovernanceAssumption ==
  /\ IsFiniteSet(Agents)
  /\ MaxRuns \in Nat /\ RunBudget \in Nat /\ PeriodBudget \in Nat

VARIABLES
  duty,      \* one of Duties
  enabled,   \* AI_AUTONOMY_ENABLED of the deployment
  run,       \* run ids -> the AgentRun row
  agent,     \* Agents -> the startRun or the run in progress
  approval,  \* Approvals -> the ApprovalRequest row
  tool,      \* Agents -> the recordToolCall in progress
  effects,   \* tool calls with external effect: the run and the approval of each
  decision,  \* the AIDecision row
  manager,   \* Managers -> the transition in progress
  overlapped \* history: two transitions ran at the same time

governanceVars == <<duty, enabled, run, agent, approval, tool, effects, decision,
                    manager, overlapped>>

Runs == 1..MaxRuns
Costs == 0..(RunBudget + 1)   \* bound: what a run may cost
NoRun == [status |-> "NONE", cost |-> 0, recent |-> FALSE]
NoWork == [step |-> "idle", run |-> 0]
NoTool == [step |-> "idle", run |-> 0, approval |-> {}]
NoDecision == [step |-> "idle", target |-> "PENDING"]

GovernanceInit ==
  /\ duty \in Duties
  /\ enabled = TRUE
  /\ run = [r \in Runs |-> NoRun]
  /\ agent = [a \in Agents |-> NoWork]
  /\ approval = [p \in Approvals |-> [status |-> "NONE", run |-> 0]]
  /\ tool = [a \in Agents |-> NoTool]
  /\ effects = {}
  /\ decision = [status |-> "PENDING", approved |-> FALSE, rejected |-> FALSE]
  /\ manager = [m \in Managers |-> NoDecision]
  /\ overlapped = FALSE

-----------------------------------------------------------------------------
(* Runs.  A caller starts one, calls the model and completes or fails it.   *)

(* Mutant: a budget that is just spent still admits. *)
WithinBudget_OffByOne(cents) == cents <= PeriodBudget
WithinBudget(cents) == cents < PeriodBudget

(* What a run adds to the sum over COMPLETED runs that started in the       *)
(* period.                                                                  *)
Charged == [r \in Runs |-> IF run[r].status = "COMPLETED" /\ run[r].recent
                           THEN run[r].cost ELSE 0]
Spent == SumFunction(Charged)

Works(a, step, r) == agent' = [agent EXCEPT ![a] = [step |-> step, run |-> r]]
Rests(a) == agent' = [agent EXCEPT ![a] = NoWork]

(* startRun: the aggregate. *)
ReadBudget(a) ==
  /\ "runs" \in duty
  /\ agent[a].step = "idle"
  /\ Works(a, IF enabled /\ WithinBudget(Spent) THEN "admit" ELSE "refuse", 0)
  /\ UNCHANGED <<duty, enabled, run, approval, tool, effects, decision, manager,
                 overlapped>>

(* startRun: the row, RUNNING or BLOCKED. *)
CreateRun(a) ==
  /\ agent[a].step \in {"admit", "refuse"}
  /\ \E r \in Runs :
       /\ run[r].status = "NONE"
       /\ \A s \in 1..(r - 1) : run[s].status # "NONE"
       /\ IF agent[a].step = "admit"
          THEN /\ run' = [run EXCEPT ![r] = [status |-> "RUNNING", cost |-> 0,
                                             recent |-> TRUE]]
               /\ Works(a, "work", r)
          ELSE /\ run' = [run EXCEPT ![r] = [status |-> "BLOCKED", cost |-> 0,
                                             recent |-> TRUE]]
               /\ Rests(a)
  /\ UNCHANGED <<duty, enabled, approval, tool, effects, decision, manager, overlapped>>

(* The updateMany statements end a run only while it is RUNNING.            *)
Ended(r, status, cost) ==
  IF run[r].status = "RUNNING"
  THEN [run EXCEPT ![r].status = status, ![r].cost = cost] ELSE run

(* Mutant: the budget of the single run is not looked at. *)
Affordable_Any(cost) == TRUE
Affordable(cost) == cost <= RunBudget

(* completeRun: a run over its budget is BLOCKED, its cost is not recorded, *)
(* and the error sends the caller to failRun.  So does an update whose      *)
(* answer is lost.                                                          *)
CompleteRun(a, cost) ==
  LET r == agent[a].run
  IN /\ agent[a].step = "work"
     /\ \/ /\ Affordable(cost)
           /\ run' = Ended(r, "COMPLETED", cost)
           /\ Rests(a) \/ Works(a, "fail", r)
        \/ /\ ~Affordable(cost)
           /\ run' = Ended(r, "BLOCKED", 0)
           /\ Works(a, "fail", r)
     /\ UNCHANGED <<duty, enabled, approval, tool, effects, decision, manager,
                    overlapped>>

ModelFails(a) ==
  /\ agent[a].step = "work"
  /\ Works(a, "fail", agent[a].run)
  /\ UNCHANGED <<duty, enabled, run, approval, tool, effects, decision, manager,
                 overlapped>>

(* Mutant: failRun writes by id alone. *)
Failed_ById(r) == [run EXCEPT ![r].status = "FAILED"]
Failed(r) == Ended(r, "FAILED", 0)

FailRun(a) ==
  /\ agent[a].step = "fail"
  /\ run' = Failed(agent[a].run)
  /\ Rests(a)
  /\ UNCHANGED <<duty, enabled, approval, tool, effects, decision, manager, overlapped>>

(* The process dies: a run that was admitted stays RUNNING. *)
AgentDies(a) ==
  /\ agent[a].step # "idle"
  /\ Rests(a)
  /\ UNCHANGED <<duty, enabled, run, approval, tool, effects, decision, manager,
                 overlapped>>

(* A deployment with the kill switch in the other position. *)
Deploy ==
  /\ "runs" \in duty
  /\ enabled' = ~enabled
  /\ agent' = [a \in Agents |-> NoWork]
  /\ UNCHANGED <<duty, run, approval, tool, effects, decision, manager, overlapped>>

PeriodPasses(r) ==
  /\ run[r].recent
  /\ run' = [run EXCEPT ![r].recent = FALSE]
  /\ UNCHANGED <<duty, enabled, agent, approval, tool, effects, decision, manager,
                 overlapped>>

-----------------------------------------------------------------------------
(* Approvals and the tool calls they allow. *)

RequestApproval(p, r) ==
  /\ "tools" \in duty
  /\ approval[p].status = "NONE"
  /\ approval' = [approval EXCEPT ![p] = [status |-> "PENDING", run |-> r]]
  /\ UNCHANGED <<duty, enabled, run, agent, tool, effects, decision, manager,
                 overlapped>>

(* Mutant: an approval can be resolved again. *)
Resolvable_Again(p) == approval[p].status # "NONE"
Resolvable(p) == approval[p].status = "PENDING"

ResolveApproval(p, verdict) ==
  /\ Resolvable(p)
  /\ approval' = [approval EXCEPT ![p].status = verdict]
  /\ UNCHANGED <<duty, enabled, run, agent, tool, effects, decision, manager,
                 overlapped>>

(* recordToolCall: the approval is found; otherwise the call throws.        *)
ReadApproval(a, p, r) ==
  /\ "tools" \in duty
  /\ tool[a].step = "idle"
  /\ approval[p].status = "APPROVED" /\ approval[p].run = r
  /\ tool' = [tool EXCEPT ![a] = [step |-> "record", run |-> r, approval |-> {p}]]
  /\ UNCHANGED <<duty, enabled, run, agent, approval, effects, decision, manager,
                 overlapped>>

(* recordToolCall: the row. *)
RecordToolCall(a) ==
  /\ tool[a].step = "record"
  /\ effects' = effects \cup {<<tool[a].run, p>> : p \in tool[a].approval}
  /\ tool' = [tool EXCEPT ![a] = NoTool]
  /\ UNCHANGED <<duty, enabled, run, agent, approval, decision, manager, overlapped>>

-----------------------------------------------------------------------------
(* Decisions: transition of ai-ceo.repository.ts. *)

(* Mutant: a rejected decision can be approved. *)
CanTransition_Reopens(from, to) ==
  <<from, to>> \in {<<"PENDING", "APPROVED">>, <<"PENDING", "REJECTED">>,
                    <<"APPROVED", "EXECUTED">>, <<"REJECTED", "APPROVED">>}

CanTransition(from, to) ==
  <<from, to>> \in {<<"PENDING", "APPROVED">>, <<"PENDING", "REJECTED">>,
                    <<"APPROVED", "EXECUTED">>}

ReadDecision(m, target) ==
  /\ "decision" \in duty
  /\ manager[m].step = "idle"
  /\ CanTransition(decision.status, target)
  /\ manager' = [manager EXCEPT ![m] = [step |-> "write", target |-> target]]
  /\ overlapped' = (overlapped \/ \E n \in Managers : manager[n].step = "write")
  /\ UNCHANGED <<duty, enabled, run, agent, approval, tool, effects, decision>>

(* The update is by id: whatever the status is by now. *)
WriteDecision(m) ==
  LET target == manager[m].target
  IN /\ manager[m].step = "write"
     /\ decision' = [status |-> target,
                     approved |-> decision.approved \/ target = "APPROVED",
                     rejected |-> decision.rejected \/ target = "REJECTED"]
     /\ manager' = [manager EXCEPT ![m] = NoDecision]
     /\ UNCHANGED <<duty, enabled, run, agent, approval, tool, effects, overlapped>>

GovernanceNext ==
  \/ \E a \in Agents :
       \/ ReadBudget(a) \/ CreateRun(a) \/ ModelFails(a) \/ FailRun(a) \/ AgentDies(a)
       \/ \E cost \in Costs : CompleteRun(a, cost)
       \/ \E p \in Approvals, r \in Runs : ReadApproval(a, p, r)
       \/ RecordToolCall(a)
  \/ \E r \in Runs :
       \/ PeriodPasses(r)
       \/ \E p \in Approvals : RequestApproval(p, r)
  \/ \E p \in Approvals, verdict \in {"APPROVED", "REJECTED"} : ResolveApproval(p, verdict)
  \/ \E m \in Managers, target \in {"APPROVED", "REJECTED", "EXECUTED"} :
       ReadDecision(m, target)
  \/ \E m \in Managers : WriteDecision(m)
  \/ Deploy

GovernanceSpec == GovernanceInit /\ [][GovernanceNext]_governanceVars

-----------------------------------------------------------------------------
(* Properties. *)

(* Rows and calls keep their shape; only COMPLETED runs carry a cost, and   *)
(* none above the budget of a run.                                          *)
GovernanceTypeOK ==
  /\ duty \in Duties /\ enabled \in BOOLEAN
  /\ run \in [Runs -> [status : {"NONE", "RUNNING", "COMPLETED", "FAILED", "BLOCKED"},
                       cost : Costs, recent : BOOLEAN]]
  /\ \A r \in Runs :
       /\ run[r].status # "COMPLETED" => run[r].cost = 0
       /\ run[r].cost <= RunBudget
  /\ agent \in [Agents -> [step : {"idle", "admit", "refuse", "work", "fail"},
                           run : 0..MaxRuns]]
  /\ approval \in [Approvals -> [status : {"NONE", "PENDING", "APPROVED", "REJECTED"},
                                 run : 0..MaxRuns]]
  /\ tool \in [Agents -> [step : {"idle", "record"}, run : 0..MaxRuns,
                          approval : SUBSET Approvals]]
  /\ effects \subseteq Runs \X Approvals
  /\ decision \in [status : {"PENDING", "APPROVED", "REJECTED", "EXECUTED"},
                   approved : BOOLEAN, rejected : BOOLEAN]
  /\ manager \in [Managers -> [step : {"idle", "write"},
                  target : {"PENDING", "APPROVED", "REJECTED", "EXECUTED"}]]
  /\ overlapped \in BOOLEAN

(* The period budget is checked against completed runs when a run starts:   *)
(* callers that start together are all admitted, and each may still spend   *)
(* a whole run budget, but no more than that.                               *)
SpendBounded ==
  PeriodBudget > 0 =>
    Spent <= (PeriodBudget - 1) + Cardinality(Agents) * RunBudget

(* A run that has ended keeps its status and cost, although the catch block *)
(* of its caller still calls failRun after a lost answer or a block.        *)
EndedRunsStay ==
  [][\A r \in Runs : run[r].status \in {"COMPLETED", "FAILED", "BLOCKED"}
       => run'[r].status = run[r].status /\ run'[r].cost = run[r].cost]_governanceVars

(* Every recorded tool call with an external effect names an approval that  *)
(* a human gave for its run, and that nobody takes back later.              *)
EffectsApproved ==
  \A e \in effects : approval[e[2]].status = "APPROVED" /\ approval[e[2]].run = e[1]

(* An executed decision was approved before.  Unless two transitions        *)
(* overlapped, no decision is both approved and rejected.                   *)
DecisionsConsistent ==
  /\ decision.status = "EXECUTED" => decision.approved
  /\ decision.approved /\ decision.rejected => overlapped

(* What humans decide holds: rows keep their shape, no effect is recorded   *)
(* without its approval, and no decision is executed against what its       *)
(* managers said.                                                           *)
ApprovalsHold == GovernanceTypeOK /\ EffectsApproved /\ DecisionsConsistent
=============================================================================
