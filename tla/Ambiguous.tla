----------------------------- MODULE Ambiguous -----------------------------
(***************************************************************************)
(* The workflow of orchestrator/scenarios/ambiguous.py: a requirement is   *)
(* clarified, normalised and planned.  What the answers make of the plan   *)
(* is in Clarification.                                                    *)
(***************************************************************************)
EXTENDS StageProfile

AmbiguityDetectionStage ==
    [Routine EXCEPT
        !.gives = {"clarification_questions", "clarification_needed"},
        !.decides = <<Decision("detection", "none",
                               {"clarification", "normalization", "task_planning"})>>,
        !.hands_on = {"detection"}]

Questions == <<"Q1", "Q2", "Q3", "Q4", "Q5", "Q6", "Q7">>

QuestionIds == {Questions[i] : i \in DOMAIN Questions}

\* One decision per answer; clarification_log carries their ids, and the two
\* stages downstream forward it.
ClarificationStage ==
    [Routine EXCEPT
        !.needs = {"clarification_questions", "clarification_needed"},
        !.gives = {"clarifications"},
        !.decides = [i \in DOMAIN Questions |->
                        Decision(Questions[i], "detection", {"normalization", "task_planning"})],
        !.hands_on = QuestionIds,
        !.least = 1]

RequirementNormalizationStage ==
    [Routine EXCEPT
        !.needs = {"clarifications"},
        !.gives = {"normalised_requirement", "clarifications"},
        !.decides = <<Decision("normalised", "none", {"task_planning"})>>,
        !.hands_on = QuestionIds \cup {"normalised"}]

TaskPlanningStage ==
    [Routine EXCEPT
        !.needs = {"normalised_requirement"},
        !.gives = {"planning_complete", "normalised_requirement"},
        !.decides = <<Decision("plan", "none", {})>>,
        !.hands_on = QuestionIds]

AmbiguousValidationStage ==
    [ProductionRelease EXCEPT
        !.needs = {"planning_complete"},
        !.decides = <<Decision("final", "none", {})>>,
        !.hands_on = {"final"}]

\* create_ambiguous_stages
Profile ==
    [ambiguity_detection |-> AmbiguityDetectionStage,
     clarification       |-> ClarificationStage,
     normalization       |-> RequirementNormalizationStage,
     task_planning       |-> TaskPlanningStage,
     validation          |-> AmbiguousValidationStage]

Stages == DOMAIN Profile

\* create_ambiguous_workflow
Dependencies ==
    {<<"ambiguity_detection", "clarification">>,
     <<"clarification", "normalization">>,
     <<"normalization", "task_planning">>,
     <<"task_planning", "validation">>}

=============================================================================
