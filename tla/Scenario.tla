------------------------------ MODULE Scenario ------------------------------
(***************************************************************************)
(* A workflow of orchestrator/scenarios run and replanned by the engine.   *)
(*                                                                         *)
(* Of a stage's code its profile keeps what the engine and the other       *)
(* stages can tell: the keys of input_data its entry gate asks for, the    *)
(* keys of output_data it fills, the decisions it appends and whose ids it *)
(* hands on, and how many decisions its exit gate asks for.  The contents  *)
(* of artifacts, tasks, risks and validations are constants of the code    *)
(* and left out.  Every id is new at each execution: the id of a decision  *)
(* is its title and how often its stage had executed.                      *)
(*                                                                         *)
(* No stage of a scenario overrides retry_policy, and none raises.         *)
(***************************************************************************)
EXTENDS Replanning, Lineage

CONSTANT Profile    \* [Stages -> profile]: see StageProfile

VARIABLES
    stage_order,    \* the order of the keys of state.stages
    executions,     \* [Stages -> number of times execute() was called]
    decisions,      \* [Stages -> the decisions of its context]
    input_ids       \* [Stages -> the decision ids in its input_data]

lineageVars == <<stage_order, executions, decisions, input_ids>>
scenarioVars == <<allVars, lineageVars>>

\* The keys of a stage's input_data: its direct predecessors' outputs, merged.
InputKeys(s) ==
    UNION {Profile[p].gives : p \in {q \in Stages : stages[s].input_data[q] = "produced"}}

EntryPasses(s) == Profile[s].needs \subseteq InputKeys(s)

ExitPasses(s) == Len(decisions[s]) >= Profile[s].least

\* The ids a stage leaves in its output_data, forwarded ones among them.
HandedOn(s) ==
    {id \in {decisions[s][i].id : i \in DOMAIN decisions[s]} \cup input_ids[s] :
        id[1] \in Profile[s].hands_on}

-----------------------------------------------------------------------------
\* The id of the decision with this title, as the stage knows it: from its own
\* execution or from its input; .get() of a missing key is None.
ParentId(s, title, n) ==
    IF \E i \in DOMAIN Profile[s].decides : Profile[s].decides[i].title = title
    THEN <<title, n>>
    ELSE LET known == {id \in input_ids[s] : id[1] = title}
         IN  IF known = {} THEN NoId ELSE CHOOSE id \in known : TRUE

\* What execute() appends to ctx.decisions, the n-th time it is called.
Decided(s, n) ==
    [i \in DOMAIN Profile[s].decides |->
        LET d == Profile[s].decides[i]
        IN  [id |-> <<d.title, n>>, parent |-> ParentId(s, d.parent, n),
             stage |-> s, impacts |-> d.impacts]]

BeginStage(s) ==
    /\ Begin(s)
    /\ stage_order' = Append(stage_order, s)
    /\ input_ids' = [input_ids EXCEPT ![s] = UNION {HandedOn(p) : p \in Predecessors(s)}]
    /\ UNCHANGED <<executions, decisions>>

EntryGate(s) ==
    /\ pc[s] = "entry_gate"
    /\ IF EntryPasses(s) THEN BlockByPolicy(s) \/ RequestApproval(s) \/ StartUnapproved(s)
       ELSE EntryGateFails(s)
    /\ UNCHANGED lineageVars

\* execute(): every stage leaves at least one artifact.
Execute(s) ==
    /\ ExecuteReturns(s)
    /\ stages'[s].artifacts # {}
    /\ executions' = [executions EXCEPT ![s] = @ + 1]
    /\ decisions' = [decisions EXCEPT ![s] = Decided(s, executions'[s])]
    /\ UNCHANGED <<stage_order, input_ids>>

ExitGate(s) ==
    /\ pc[s] = "exit_gate"
    /\ IF ExitPasses(s) THEN ExitGatePasses(s) ELSE ExitGateFails(s)
    /\ UNCHANGED lineageVars

ScenarioStep(s) ==
    \/ BeginStage(s)
    \/ EntryGate(s)
    \/ (Approve(s) \/ Reject(s)) /\ UNCHANGED lineageVars
    \/ Execute(s)
    \/ ExitGate(s)

\* The contexts replan() drops take their decisions along.
StartScenarioReplan(origin) ==
    /\ StartReplan(origin)
    /\ stage_order' = Without(stage_order, Impacted(origin))
    /\ decisions' = [s \in Stages |-> IF s \in Impacted(origin) THEN <<>> ELSE decisions[s]]
    /\ input_ids' = [s \in Stages |-> IF s \in Impacted(origin) THEN {} ELSE input_ids[s]]
    /\ UNCHANGED executions

\* The decisions of the ExecutionContext: those of the stages it records.  They
\* were recorded in another order, which a lookup by id does not tell.
ContextDecisions ==
    AllDecisions(Without(stage_order, {s \in Stages : stage_outputs[s] = "absent"}), decisions)

ScenarioInit ==
    /\ ReplanInit
    /\ stage_order = <<>>
    /\ executions = [s \in Stages |-> 0]
    /\ decisions = [s \in Stages |-> <<>>]
    /\ input_ids = [s \in Stages |-> {}]

ScenarioNext ==
    \/ EngineStep /\ UNCHANGED <<replanVars, lineageVars>>
    \/ \E s \in Stages : ScenarioStep(s) /\ UNCHANGED replanVars
    \/ ReplanStep /\ UNCHANGED lineageVars
    \/ \E origin \in Stages \cup {Requirement} :
           \/ ReplanSkipped(origin) /\ UNCHANGED lineageVars
           \/ StartScenarioReplan(origin)
    \/ Stopped /\ UNCHANGED lineageVars

ScenarioSpec == ScenarioInit /\ [][ScenarioNext]_scenarioVars

-----------------------------------------------------------------------------
(* Properties.                                                             *)

\* The workflows fit together: the keys that a stage's entry gate asks for are
\* handed on by its direct predecessors, governance's built-in policies find
\* what they ask for, and the exit gate is content, in a replan as well.  A
\* stage fails for one reason only, that its approval was rejected.
FailsOnlyIfRejected ==
    \A s \in Stages :
        pc[s] # "returned_false" /\ pc'[s] = "returned_false" => approvals'[s] = "rejected"

\* Lineage is closed: every decision id that a stage was handed on, and every
\* parent, is that of a decision still held in the state, however stages were
\* replanned meanwhile; a decision is traced to a root, and the ExecutionContext
\* traces it like WorkflowLineage does.
LineageClosed ==
    LET held == AllDecisions(stage_order, decisions) IN
    \A s \in Stages :
        /\ \A id \in input_ids[s] : DecisionById(held, id) # <<>>
        /\ \A i \in DOMAIN decisions[s] :
               LET chain == TraceDecisionLineage(held, decisions[s][i].id) IN
               /\ chain[1].parent = NoId
               /\ decisions[s][i].parent = NoId <=> Profile[s].decides[i].parent = "none"
               /\ stage_outputs[s] # "absent" =>
                      GetDecisionLineage(ContextDecisions, decisions[s][i].id) = chain

\* "The Decision that most directly drove the start" of a stage was made by a
\* stage upstream of it, never by one of its own round or a later one.
DriverPrecedes ==
    LET held == AllDecisions(stage_order, decisions) IN
    \A s \in Stages : stages[s].status \notin {"absent", "blocked"} =>
        \A i \in DOMAIN DecisionForTransition(held, s) :
            s \in ReachableFrom(DecisionForTransition(held, s)[i].stage)

=============================================================================
