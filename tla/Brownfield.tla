----------------------------- MODULE Brownfield -----------------------------
(***************************************************************************)
(* orchestrator/scenarios/brownfield.py: enforce a rate limit that an      *)
(* existing service declares, planned stage by stage.                      *)
(***************************************************************************)
EXTENDS StageProfile

CodebaseAnalysisStage ==
    [Routine EXCEPT
        !.gives = {"codebase_snapshot"},
        !.decides = <<Decision("gap", "none", {"impact_analysis", "change_planning"})>>,
        !.hands_on = {"gap"}]

\* Its decision is a child of the gap decision.
ImpactAnalysisStage ==
    [Routine EXCEPT
        !.needs = {"codebase_snapshot"},
        !.gives = {"impact_map"},
        !.decides = <<Decision("scope", "gap", {"change_planning", "regression_test_planning"})>>,
        !.hands_on = {"scope"}]

RiskAssessmentStage ==
    [Routine EXCEPT
        !.needs = {"impact_map"},
        !.gives = {"risk_assessment", "blocking_risks"},
        !.decides = <<Decision("risk", "none", {"change_planning"})>>,
        !.hands_on = {"risk"}]

\* It always finds that no risk is blocking.
ChangePlanningStage ==
    [SignificantChange EXCEPT
        !.needs = {"risk_assessment", "blocking_risks"},
        !.gives = {"change_plan"},
        !.decides = <<Decision("strategy", "none", {"regression_test_planning"})>>]

RegressionTestPlanningStage ==
    [Routine EXCEPT
        !.needs = {"change_plan"},
        !.gives = {"regression_ready"}]

BrownfieldValidationStage ==
    [ProductionRelease EXCEPT
        !.needs = {"regression_ready"},
        !.decides = <<Decision("final", "none", {})>>,
        !.hands_on = {"final"}]

\* create_brownfield_stages
Profile ==
    [codebase_analysis        |-> CodebaseAnalysisStage,
     impact_analysis          |-> ImpactAnalysisStage,
     risk_assessment          |-> RiskAssessmentStage,
     change_planning          |-> ChangePlanningStage,
     regression_test_planning |-> RegressionTestPlanningStage,
     validation               |-> BrownfieldValidationStage]

Stages == DOMAIN Profile

\* create_brownfield_workflow
Dependencies ==
    {<<"codebase_analysis", "impact_analysis">>,
     <<"impact_analysis", "risk_assessment">>,
     <<"risk_assessment", "change_planning">>,
     <<"change_planning", "regression_test_planning">>,
     <<"regression_test_planning", "validation">>}

=============================================================================
