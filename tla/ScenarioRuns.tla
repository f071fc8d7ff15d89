---------------------------- MODULE ScenarioRuns ----------------------------
(***************************************************************************)
(* The three scenarios, one per behaviour: each run by the engine with an  *)
(* approval gateway that approves or rejects and with the policy engine    *)
(* of the built-in policies, then replanned after any change.              *)
(***************************************************************************)
EXTENDS ScenarioSettings

CONSTANTS
    Requirement,    \* originating_stage = None
    MaxReplans

VARIABLES
    phase, batch, completed, failed, pc,
    status, safe_stopped, completed_at, stages, approvals, final_qc,
    policy_evaluations, stage_transitions, rolled_back_stages,
    stage_outputs, artifacts,
    originating_stage, replan_count, replan_result,
    stage_order, executions, decisions, input_ids,
    scenario        \* which one this behaviour runs

Greenfield == INSTANCE ScenarioProofs WITH
    Stages <- GStages, Dependencies <- GDependencies, Profile <- GProfile,
    OwnRetryPolicy <- GOverrides, RequiresApproval <- GApproved,
    ActionImpact <- GImpacts, PolicyOutcomes <- GEvaluations,
    FinalApprovalRequired <- TRUE

Brownfield == INSTANCE ScenarioProofs WITH
    Stages <- BStages, Dependencies <- BDependencies, Profile <- BProfile,
    OwnRetryPolicy <- BOverrides, RequiresApproval <- BApproved,
    ActionImpact <- BImpacts, PolicyOutcomes <- BEvaluations,
    FinalApprovalRequired <- FALSE

Ambiguous == INSTANCE ScenarioProofs WITH
    Stages <- AStages, Dependencies <- ADependencies, Profile <- AProfile,
    OwnRetryPolicy <- AOverrides, RequiresApproval <- AApproved,
    ActionImpact <- AImpacts, PolicyOutcomes <- AEvaluations,
    FinalApprovalRequired <- FALSE

ASSUME ScenariosAssumption ==
    /\ MaxReplans \in Nat
    /\ Requirement \notin GStages \cup BStages \cup AStages
    /\ Inherited \notin Greenfield!RetryPolicy

runVars == <<Greenfield!scenarioVars, scenario>>

\* run_greenfield_scenario, with its final_approval_required
RunGreenfield == scenario = "greenfield" /\ Greenfield!ScenarioInit
\* run_brownfield_scenario
RunBrownfield == scenario = "brownfield" /\ Brownfield!ScenarioInit
\* run_ambiguous_scenario
RunAmbiguous == scenario = "ambiguous" /\ Ambiguous!ScenarioInit

ScenariosInit == RunGreenfield \/ RunBrownfield \/ RunAmbiguous

ScenariosNext ==
    /\ \/ scenario = "greenfield" /\ Greenfield!ScenarioNext
       \/ scenario = "brownfield" /\ Brownfield!ScenarioNext
       \/ scenario = "ambiguous" /\ Ambiguous!ScenarioNext
    /\ UNCHANGED scenario

ScenariosSpec == ScenariosInit /\ [][ScenariosNext]_runVars

-----------------------------------------------------------------------------
(* Properties: Scenario's, of each scenario.                               *)

\* The three workflows fit together, at the first run and at every replan: a
\* stage fails only because its approval was rejected, never at a gate for a
\* key its predecessors do not hand on or for want of what governance asks for.
ScenariosFailOnlyIfRejected ==
    [][/\ scenario = "greenfield" => Greenfield!FailsOnlyIfRejected
       /\ scenario = "brownfield" => Brownfield!FailsOnlyIfRejected
       /\ scenario = "ambiguous" => Ambiguous!FailsOnlyIfRejected]_runVars

\* In each workflow the recorded decisions form a closed lineage, also after a
\* replan: nothing refers to a decision that was dropped with its context, and
\* the state and the ExecutionContext trace every decision to the same root.
ScenariosLineageClosed ==
    /\ scenario = "greenfield" => Greenfield!LineageClosed
    /\ scenario = "brownfield" => Brownfield!LineageClosed
    /\ scenario = "ambiguous" => Ambiguous!LineageClosed

\* In each workflow the decision reported as the one that drove a stage is of
\* a stage upstream, although a stage may name one of its own round as
\* downstream and a replan appends its contexts after the preserved ones.
ScenariosDriverPrecedes ==
    /\ scenario = "greenfield" => Greenfield!DriverPrecedes
    /\ scenario = "brownfield" => Brownfield!DriverPrecedes
    /\ scenario = "ambiguous" => Ambiguous!DriverPrecedes

=============================================================================
