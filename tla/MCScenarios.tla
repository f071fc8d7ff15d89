---------------------------- MODULE MCScenarios ----------------------------
(***************************************************************************)
(* What the scenarios execute and plan, one of three per behaviour: a      *)
(* scenario's workflow; the dialogue of the ambiguous one, from every      *)
(* combination of answers to its task plan; or the TaskScheduler's loop    *)
(* over every dependency relation of a few tasks.                          *)
(***************************************************************************)
EXTENDS ScenarioRuns, Clarification, TaskScheduler

CONSTANTS t1, t2, t3

MCTaskIds == {t1, t2, t3}

workflowVars ==
    <<phase, batch, completed, failed, pc, status, safe_stopped, completed_at, stages,
      approvals, final_qc, policy_evaluations, stage_transitions, rolled_back_stages,
      stage_outputs, artifacts, originating_stage, replan_count, replan_result,
      stage_order, executions, decisions, input_ids, scenario>>
planningVars == <<clarificationVars, schedulerVars>>
MCVars == <<workflowVars, planningVars>>

\* No workflow: its variables keep the values of a run that has not begun.
NoWorkflow ==
    /\ scenario = "none"
    /\ Ambiguous!ScenarioInit

\* No dialogue.
NoClarification ==
    /\ stage = "none"
    /\ answers = <<>>
    /\ input_data = NoAnswers
    /\ requirement = NoRequirement
    /\ plan = NoPlan

MCInit ==
    \/ ScenariosInit /\ NoClarification /\ NoTasks
    \/ NoWorkflow /\ ClarificationInit /\ NoTasks
    \/ NoWorkflow /\ NoClarification /\ SchedulerInit

\* The dialogue has ended and so has the scheduler's loop.
PlanningDone ==
    /\ scenario = "none"
    /\ stage \in {"none", "validation", "failed"}
    /\ loop \in {"none", "value_error", "ended"}
    /\ UNCHANGED MCVars

SchedulerTurn == SchedulerNext /\ UNCHANGED <<workflowVars, clarificationVars>>

MCNext ==
    \/ ScenariosNext /\ UNCHANGED planningVars
    \/ ClarificationNext /\ UNCHANGED <<workflowVars, schedulerVars>>
    \/ SchedulerTurn
    \/ PlanningDone

\* Whoever drives the scheduler's loop finishes what it starts.
MCSpec == MCInit /\ [][MCNext]_MCVars /\ WF_schedulerVars(SchedulerTurn)

=============================================================================
