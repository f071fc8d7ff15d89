----------------------------- MODULE Replanning -----------------------------
(***************************************************************************)
(* WorkflowEngine.replan: after a run() has returned a WorkflowState, its  *)
(* owner reports changes, and each replan() re-executes the stages that a  *)
(* change impacts through the same _execute_stage as run(), on the same    *)
(* state.                                                                  *)
(*                                                                         *)
(* approvals and policy_evaluations hold the records appended since the    *)
(* current call began: replan() reads just these, from pre_approval_count  *)
(* and pre_policy_count on.                                                *)
(*                                                                         *)
(* Bounds: at most MaxReplans calls; the owner calls again only when no    *)
(* coroutine of an earlier call is left (Quiet).                           *)
(***************************************************************************)
EXTENDS WorkflowProperties

CONSTANTS
    MaxReplans,
    Requirement     \* originating_stage = None

ASSUME ReplanAssumption == MaxReplans \in Nat /\ Requirement \notin Stages

VARIABLES
    originating_stage,  \* of the current or last replan's ChangeEvent
    replan_count,
    replan_result       \* the last entry of replan_history

replanVars == <<originating_stage, replan_count, replan_result>>
allVars == <<vars, replanVars>>

ReplanPhase == {"replan", "replan_gather", "replan_post", "replan_raised"}

\* A ReplanResult, with the sets its lists hold.
ReplanResult ==
    [originating_stage        : Stages \cup {Requirement},
     stages_replanned         : SUBSET Stages,
     stages_preserved         : SUBSET Stages,
     governance_reevaluations : SUBSET Stages,
     approvals_rerequested    : SUBSET Stages,
     final_status             : WorkflowStatus]

-----------------------------------------------------------------------------
(* analyze_impact                                                          *)

Successors(s) == {t \in Stages : s \in Predecessors(t)}

\* nx.ancestors
Ancestors[s \in Stages] == Predecessors(s) \cup UNION {Ancestors[p] : p \in Predecessors(s)}

\* Mutant: upstream for downstream.
AncestorsOf(s) == Ancestors[s]

\* stages_reachable_from: nx.descendants, the stages that have s upstream.
ReachableFrom(s) == {t \in Stages : s \in Ancestors[t]}

Impacted(origin) == IF origin = Requirement THEN Stages ELSE ReachableFrom(origin)

ImpactedStages == Impacted(originating_stage)

\* Mutant: only what a stage produced itself is carried over, no preset.
PreservedByOwnWork(lost) ==
    {s \in Stages \ lost : stages[s].status = "completed" /\ ~stages[s].fallback_used}

\* preserved_completed
PreservedCompleted(lost) == {s \in Stages \ lost : stages[s].status = "completed"}

-----------------------------------------------------------------------------
(* replan                                                                  *)

Quiet == \A s \in Stages : pc[s] \notin Awaiting

Callable == /\ phase \in {"returned", "replan_raised"}
            /\ Quiet
            /\ replan_count < MaxReplans

\* The records appended since the call began, as its ReplanResult lists them.
Result(origin, replanned, preserved) ==
    [originating_stage        |-> origin,
     stages_replanned         |-> replanned,
     stages_preserved         |-> preserved,
     governance_reevaluations |-> {s \in Stages : policy_evaluations[s] # "unevaluated"},
     approvals_rerequested    |-> {s \in Stages : approvals[s] # "none"},
     final_status             |-> status]

\* A change of a stage nothing depends on: only the history grows.
ReplanSkipped(origin) ==
    /\ Callable
    /\ Impacted(origin) = {}
    /\ replan_count' = replan_count + 1
    /\ replan_result' = [Result(origin, {}, Stages) EXCEPT
                            !.governance_reevaluations = {}, !.approvals_rerequested = {}]
    /\ UNCHANGED <<vars, originating_stage>>

\* The preparation: stale contexts dropped, the ExecutionContext rebuilt from
\* the contexts of the preserved stages, whose artifacts are all recorded now,
\* also those a preset had replaced.
StartReplan(origin) ==
    /\ Callable
    /\ Impacted(origin) # {}
    /\ originating_stage' = origin
    /\ completed' = PreservedCompleted(Impacted(origin))
    /\ failed' = {}
    /\ stages' = [s \in Stages |-> IF s \in Impacted(origin) THEN NoContext ELSE stages[s]]
    /\ pc' = [s \in Stages |-> IF s \in Impacted(origin) THEN "idle" ELSE pc[s]]
    /\ stage_outputs' = [s \in Stages |->
           IF s \notin completed' THEN "absent"
           ELSE IF stages[s].fallback_used THEN "preset" ELSE "produced"]
    /\ artifacts' = {of \in completed' \X Attempt : of[2] \in stages[of[1]].artifacts}
    /\ approvals' = [s \in Stages |-> "none"]
    /\ policy_evaluations' = [s \in Stages |-> "unevaluated"]
    /\ batch' = {}
    /\ phase' = "replan"
    /\ UNCHANGED <<outcomeVars, stage_transitions, rolled_back_stages, replan_count, replan_result>>

\* Mutant: a completed stage is executed again.
ReadyToReplanAgain == {s \in ImpactedStages : Predecessors(s) \subseteq completed}

ReadyToReplan == ReadyStages(completed) \cap ImpactedStages

ScheduleReplan ==
    /\ phase = "replan"
    /\ ReadyToReplan # {}
    /\ batch' = ReadyToReplan
    /\ phase' = "replan_gather"
    /\ pc' = [s \in Stages |-> IF s \in batch' THEN "created" ELSE pc[s]]
    /\ UNCHANGED <<completed, failed, outcomeVars, stages, gateVars,
                   rolled_back_stages, contextVars, replanVars>>

NothingToReplan ==
    /\ phase = "replan"
    /\ ReadyToReplan = {}
    /\ phase' = "replan_post"
    /\ UNCHANGED <<batch, completed, failed, outcomeVars, stageVars, replanVars>>

CollectReplan ==
    /\ phase = "replan_gather"
    /\ \A s \in batch : pc[s] \in {"returned_true", "returned_false"}
    /\ completed' = completed \cup {s \in batch : pc[s] = "returned_true"}
    /\ failed' = failed \cup {s \in batch : pc[s] = "returned_false"}
    /\ batch' = {}
    /\ phase' = IF LoopEnds(failed') THEN "replan_post" ELSE "replan"
    /\ UNCHANGED <<outcomeVars, stageVars, replanVars>>

\* This gather has no return_exceptions: what a gateway raises leaves replan()
\* at once, and the other coroutines of the round go on by themselves.
ReplanRaises ==
    /\ phase = "replan_gather"
    /\ \E s \in batch : pc[s] = "raised"
    /\ phase' = "replan_raised"
    /\ UNCHANGED <<batch, completed, failed, outcomeVars, stageVars, replanVars>>

\* Without a failure but short of a stage, the status stays what it was.
ReplanStatus ==
    IF safe_stopped THEN "stopped"
    ELSE IF failed # {} THEN "failed"
    ELSE IF completed = Stages THEN "completed"
    ELSE status

\* Mutant: dropped contexts are not made good.
ReplanBlockedNever == {}

\* The contexts replaced by BLOCKED ones.
ReplanBlocked ==
    IF failed # {} /\ ~safe_stopped THEN ImpactedStages \ (completed \cup failed) ELSE {}

FinishReplan ==
    /\ phase = "replan_post"
    /\ status' = ReplanStatus
    /\ stages' = [s \in Stages |-> IF s \in ReplanBlocked
                                   THEN [NoContext EXCEPT !.status = "blocked"]
                                   ELSE stages[s]]
    /\ replan_count' = replan_count + 1
    /\ replan_result' =
           [Result(originating_stage, completed \cap ImpactedStages, completed \ ImpactedStages)
                EXCEPT !.final_status = status']
    /\ completed_at' = TRUE
    /\ phase' = "returned"
    /\ UNCHANGED <<batch, completed, failed, pc, safe_stopped, final_qc, gateVars,
                   rolled_back_stages, contextVars, originating_stage>>

-----------------------------------------------------------------------------
ReplanStep == ScheduleReplan \/ NothingToReplan \/ CollectReplan \/ ReplanRaises \/ FinishReplan

NoResult == Result(Requirement, {}, {})

ReplanInit == Init /\ originating_stage = Requirement /\ replan_count = 0
              /\ replan_result = NoResult

RunStep == (EngineStep \/ \E s \in Stages : StageStep(s)) /\ UNCHANGED replanVars

\* The owner calls replan() with a change of the requirement or of a stage.
Replan == \E origin \in Stages \cup {Requirement} : ReplanSkipped(origin) \/ StartReplan(origin)

Stopped == /\ phase \in {"returned", "raised", "replan_raised"}
           /\ Quiet
           /\ UNCHANGED allVars

ReplanNext == RunStep \/ Replan \/ ReplanStep \/ Stopped

\* The event loop runs something as long as anything can run; nobody has to
\* ask for a replan.
ReplanFairness == WF_allVars(RunStep \/ ReplanStep)

ReplanSpec == ReplanInit /\ [][ReplanNext]_allVars /\ ReplanFairness

-----------------------------------------------------------------------------
(* Properties.                                                             *)

\* Every variable has its type.
ReplanTypeOK ==
    /\ phase \in RunPhase \cup ReplanPhase
    /\ StateTypeOK
    /\ originating_stage \in Stages \cup {Requirement}
    /\ replan_count \in 0 .. MaxReplans
    /\ replan_result \in ReplanResult

\* What a stage's own context says it has handed on.
OutputOf(s) ==
    CASE stages[s].status = "skipped" -> "empty"
      [] stages[s].status = "completed" ->
             IF stages[s].fallback_used THEN "preset" ELSE "produced"
      [] OTHER -> "absent"

\* No result of a run or replan is stale: whatever is replanned in whatever
\* order, a stage that has its inputs has them from what its predecessors'
\* contexts hand on now, never from what a predecessor produced before.
NoStaleInput ==
    \A s \in Stages : stages[s].status \notin {"absent", "blocked"} =>
        \A p \in Predecessors(s) : /\ OutputOf(p) # "absent"
                                   /\ stages[s].input_data[p] = OutputOf(p)

\* Its context stays as it is, and if it has completed, its output and every
\* artifact it has handed on stay in the ExecutionContext.
Untouched(s) ==
    /\ stages'[s] = stages[s] /\ pc'[s] = pc[s]
    /\ stages[s].status = "completed" =>
           /\ stage_outputs'[s] = stage_outputs[s]
           /\ \A n \in Attempt : <<s, n>> \in artifacts => <<s, n>> \in artifacts'

\* "All other completed stages remain COMPLETED and their outputs are
\* preserved": no step of a replan, from the one that drops contexts and rebuilds
\* the ExecutionContext to the last of a coroutine it left behind, touches a
\* stage that it does not impact, be it completed or not.
PreservedUntouched ==
    [][(phase \in ReplanPhase \/ phase' \in ReplanPhase) =>
           \A s \in Stages \ ImpactedStages' : Untouched(s)]_allVars

\* Every impacted stage that a replan executes has passed governance and its
\* approval checkpoint in this call: what an earlier call approved is no
\* approval of the changed work.
ReplanGuarded ==
    phase \in ReplanPhase =>
        \A s \in ImpactedStages : Executed(s) =>
            /\ policy_evaluations[s] \in PolicyOutcomes[s] \ {"block"}
            /\ \/ s \in RequiresApproval
               \/ ActionImpact[s] >= ApprovalThreshold
               \/ policy_evaluations[s] = "require_approval"
               => approvals[s] = "approved"

\* A stage that a replan has invalidated is back with a context of its own when
\* that replan() returns, except behind a preserved stage that never completed
\* and in a workflow that was safe-stopped, where it is left without one.
InvalidatedAccounted ==
    phase = "returned" =>
        \A s \in ImpactedStages : stages[s].status = "absent" =>
            \/ safe_stopped
            \/ \E p \in Stages \ ImpactedStages :
                   s \in ReachableFrom(p) /\ stages[p].status # "completed"

\* Every call of replan() ends, by a return or by what a gateway raised.
ReplanEnds == [](phase = "replan" => <>(phase \in {"returned", "replan_raised"}))

\* docs/architecture.md:286, "COMPLETED (all stages passed)".
CompletedMeansAllPassed ==
    phase = "returned" /\ status = "completed" =>
        \A s \in Stages : stages[s].status \in {"completed", "skipped"}

=============================================================================
