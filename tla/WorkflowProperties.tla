------------------------- MODULE WorkflowProperties -------------------------
(***************************************************************************)
(* What one run of WorkflowEngine guarantees, and that it implements the   *)
(* abstract workflow.                                                      *)
(***************************************************************************)
EXTENDS WorkflowEngine

\* The types of all but the phase, which are the same while a workflow is
\* replanned.
StateTypeOK ==
    /\ batch \in SUBSET Stages
    /\ completed \in SUBSET Stages
    /\ failed \in SUBSET Stages
    /\ pc \in [Stages -> {"idle"} \cup Awaiting \cup Returned]
    /\ status \in WorkflowStatus
    /\ safe_stopped \in BOOLEAN
    /\ completed_at \in BOOLEAN
    /\ stages \in [Stages -> StageContext]
    /\ approvals \in [Stages -> ApprovalStatus]
    /\ final_qc \in ApprovalStatus
    /\ policy_evaluations \in [Stages -> PolicyDecision]
    /\ stage_transitions \in SUBSET Stages
    /\ rolled_back_stages \in SUBSET Stages
    /\ stage_outputs \in [Stages -> Output]
    /\ artifacts \in SUBSET (Stages \X Attempt)

RunPhase == {"loop", "gather", "post_loop", "final_qc", "returned", "raised"}

\* Every variable has its type.
TypeOK == phase \in RunPhase /\ StateTypeOK

Begun(s) == pc[s] \notin {"idle", "created"}

\* A stage reads its inputs once, when its coroutine starts: it sees the output
\* of every predecessor, fallbacks included, exactly as it stays recorded, and
\* of no other stage.
InputsComplete ==
    \A s \in Stages : Begun(s) =>
        \A p \in Stages :
            IF p \in Predecessors(s)
            THEN /\ stage_outputs[p] # "absent"
                 /\ stages[s].input_data[p] = stage_outputs[p]
            ELSE stages[s].input_data[p] = "absent"

\* The shared ExecutionContext holds an output for exactly the stages whose
\* coroutine returned True, of the kind their context tells, and the artifacts
\* of exactly those that did not use a fallback.
OutputsMatchContexts ==
    \A s \in Stages :
        LET ctx == stages[s] IN
        /\ stage_outputs[s] # "absent" <=> pc[s] = "returned_true"
        /\ stage_outputs[s] = "empty" <=> ctx.status = "skipped"
        /\ stage_outputs[s] = "produced" <=> ctx.status = "completed" /\ ~ctx.fallback_used
        /\ {a \in Attempt : <<s, a>> \in artifacts} =
               IF stage_outputs[s] = "produced" THEN ctx.artifacts ELSE {}

\* execute() has been called for s.
Executed(s) ==
    \/ pc[s] \in {"execute", "exit_gate", "rollback", "returned_true"}
    \/ stages[s].attempt_records # <<>>

\* No stage executes that is HUMAN_ONLY or blocked by governance, nor one that
\* itself, the approval policy or governance wants approved before a human has.
ExecutionGuarded ==
    \A s \in Stages : Executed(s) =>
        /\ ActionImpact[s] < CriticalThreshold
        /\ policy_evaluations[s] \in PolicyOutcomes[s] \ {"block"}
        /\ \/ s \in RequiresApproval
           \/ ActionImpact[s] >= ApprovalThreshold
           \/ policy_evaluations[s] = "require_approval"
           => approvals[s] = "approved"

\* The last of its attempts is on record as failed too.
HasGivenUp(ctx) == Len(ctx.attempt_records) = ctx.attempt + 1

LastRecord(ctx) == ctx.attempt_records[Len(ctx.attempt_records)]

\* What became of a stage that has given up, by its coroutine and its context.
RecoveryTaken(at, ctx) ==
    IF ctx.fallback_used THEN "fallback"
    ELSE IF ctx.status = "failed" THEN "failure"
    ELSE IF at = "rollback" \/ ctx.has_error THEN "rollback"
    ELSE "nothing"

\* What its last record and its policy together ask for.
RecoveryDue(s, ctx) ==
    IF LastRecord(ctx).recovery_decision = "safe_stop" THEN "failure"
    ELSE IF FallbackApplies(s) THEN "fallback"
    ELSE IF EffectivePolicy(s).rollback_on_failure THEN "rollback"
    ELSE "failure"

\* The records lead to what was done: a critical failure to a safe-stop, any
\* other to the recovery that the policy configures, unless a sibling has
\* safe-stopped the workflow meanwhile.
RecoveryFollows(s, at, ctx, stopped) ==
    HasGivenUp(ctx) =>
        /\ IF LastRecord(ctx).classification = "critical"
           THEN LastRecord(ctx).recovery_decision = "safe_stop" /\ stopped
           ELSE LastRecord(ctx).recovery_decision = "fail_immediate"
        /\ \/ RecoveryTaken(at, ctx) = RecoveryDue(s, ctx)
           \/ /\ RecoveryTaken(at, ctx) = "nothing"
              /\ LastRecord(ctx).recovery_decision = "fail_immediate"
              /\ stopped

\* "Recovery decisions must be traceable": attempt_records has one record per
\* failed attempt, in order, all but the last led to a retry, and from the last
\* one and the policy follows what the stage did, no recovery left out and none
\* taken in vain.  It takes the policy for that: the record of a stage that falls
\* back or rolls back says "fail_immediate" like any other (see RecoveryNamed).
RecoveryTraceable ==
    \A s \in Stages :
        LET ctx == stages[s]
            log == ctx.attempt_records
            succeeded == pc[s] = "returned_true" /\ ~ctx.fallback_used
        IN  /\ \A i \in 1 .. Len(log) : log[i].attempt = i - 1
            /\ \A i \in 1 .. Len(log) : log[i].recovery_decision = "retry" <=> i <= ctx.attempt
            /\ pc[s] \in {"execute", "exit_gate"} \/ succeeded => Len(log) = ctx.attempt
            /\ pc[s] = "rollback" \/ ctx.fallback_used => HasGivenUp(ctx)
            /\ RecoveryFollows(s, pc[s], ctx, safe_stopped)
            /\ ctx.attempt < EffectivePolicy(s).max_attempts

\* A stage completes by its own work only if the exit gate passed on its last
\* attempt: failures of earlier attempts do not linger in exit_gate_results.
CompletedPassedGate ==
    \A s \in Stages :
        stages[s].status = "completed" /\ ~stages[s].fallback_used
        => stages[s].exit_gate_results = {TRUE}

\* Safe-stop preserves the state for investigation: after it no stage starts a
\* rollback or takes a fallback, only rollbacks already begun still finish.
NoRecoveryAfterSafeStop ==
    [][safe_stopped =>
        \A s \in Stages : /\ pc'[s] = "rollback" => pc[s] = "rollback"
                          /\ stages'[s].fallback_used => stages[s].fallback_used]_vars

\* Safe-stop is final: it is never undone, the workflow stays STOPPED and no
\* further stage is scheduled, whatever the siblings of the stopping stage do.
SafeStopFinal ==
    [][safe_stopped => /\ safe_stopped'
                       /\ status' = "stopped"
                       /\ batch' \subseteq batch]_vars

\* Rounds are the parallel groups of the definition: a round runs one whole
\* group, when all earlier groups have completed.
RoundsAreGroups ==
    phase = "gather" =>
        \E n \in {Level[s] : s \in Stages} :
            /\ batch = ParallelGroup(n)
            /\ completed = {s \in Stages : Level[s] < n}

\* The loop never runs dry early: without a failure it ends with every stage
\* completed, so _finalise's "workflow_incomplete" branch is dead.
NoDeadEnd ==
    phase \in {"post_loop", "final_qc"} /\ failed = {} => completed = Stages

\* The status a run returns is the one its stages and its final checkpoint
\* justify.
OutcomeJustified ==
    phase = "returned" =>
        /\ status = "stopped" <=> safe_stopped
        /\ status = "completed" <=>
               /\ \A s \in Stages : stages[s].status \in {"completed", "skipped"}
               /\ FinalApprovalRequired => final_qc = "approved"
        /\ status \in {"stopped", "completed", "failed"}

\* When a run returns, every stage of the definition has a context, and it is
\* BLOCKED for exactly the stages whose coroutine never started.
EveryStageAccounted ==
    phase = "returned" =>
        \A s \in Stages : /\ stages[s].status # "absent"
                          /\ stages[s].status = "blocked" <=> pc[s] = "idle"

\* Every run ends, provided the stages and the gateway answer.
Termination == <>Ended

\* A run of the engine is a run of the abstract workflow.
Progress(s) ==
    CASE pc[s] = "idle"          -> "waiting"
      [] pc[s] \in Awaiting      -> "running"
      [] pc[s] = "returned_true" -> "done"
      [] OTHER                   -> "failed"

Outcome == CASE phase = "returned" -> status
             [] phase = "raised"   -> "lost"
             [] OTHER              -> "open"

Abstract == INSTANCE AbstractWorkflow WITH
    progress <- [s \in Stages |-> Progress(s)],
    outcome  <- Outcome

ImplementsAbstract == Abstract!Spec

-----------------------------------------------------------------------------
(* What documentation says of the engine and the code does not do.         *)

\* failure.py:161-162, "Fall back to WorkflowEngine.default_retry_policy": a
\* stage without a policy of its own gives up on transient failures only after
\* the attempts the engine's default policy grants.
EngineDefaultApplies ==
    \A s \in Stages : OwnRetryPolicy[s] = Inherited =>
        \A i \in 1 .. Len(stages[s].attempt_records) :
            LET record == stages[s].attempt_records[i] IN
            record.classification = "transient" /\ record.recovery_decision = "fail_immediate"
            => record.attempt + 1 = EngineRetryPolicy.max_attempts

\* failure.py:13-19 and :80-100, "One RecoveryDecision is stored in each
\* StageAttemptRecord": FALLBACK is "Retries exhausted; engine will apply the
\* configured fallback action", ROLLBACK "Engine will call stage.rollback()" and
\* FAIL_IMMEDIATE, of a TRANSIENT failure, "without triggering a
\* fallback/rollback": the last record of exhausted retries names the recovery.
RecoveryNamed ==
    \A s \in Stages :
        LET ctx == stages[s] IN
        HasGivenUp(ctx) /\ LastRecord(ctx).classification = "transient" =>
            /\ RecoveryTaken(pc[s], ctx) = "fallback" =>
                   LastRecord(ctx).recovery_decision = "fallback"
            /\ RecoveryTaken(pc[s], ctx) = "rollback" =>
                   LastRecord(ctx).recovery_decision = "rollback"

\* The docstring of _execute_stage, workflow_engine.py:369-371: it "NEVER
\* raises", and "A False return means the stage failed; the reason is always in
\* state.stages[stage_name].error".
FailureTold ==
    \A s \in Stages : /\ pc[s] # "raised"
                      /\ pc[s] = "returned_false" => stages[s].has_error

=============================================================================
