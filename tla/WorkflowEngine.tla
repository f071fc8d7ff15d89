--------------------------- MODULE WorkflowEngine ---------------------------
(***************************************************************************)
(* orchestrator/engine/workflow_engine.py: one call of WorkflowEngine.run. *)
(*                                                                         *)
(* run() executes a WorkflowDefinition in rounds.  Each round starts one   *)
(* _execute_stage coroutine for every ready stage, waits for all of them   *)
(* (asyncio.gather) and collects their results.  asyncio is cooperative: a *)
(* coroutine is interrupted only at an await, so an action below is the    *)
(* code between two awaits, and the steps of the coroutines of a round     *)
(* interleave in any order.  pc[s] says at which await coroutine s is.     *)
(*                                                                         *)
(* The stages' own code (gates, execute, rollback), the approval gateway   *)
(* and the policies are environment: each may give any answer its type     *)
(* allows.  Timestamps, messages and the audit trail are left out.         *)
(***************************************************************************)
EXTENDS WorkflowGraph, Sequences

CONSTANTS
    ErrorTypes,             \* exception class names
    Exceptions,             \* the exceptions execute() may raise
    Mro,                    \* [Exceptions -> names of the class and its bases]
    OwnRetryPolicy,         \* stage_impl.retry_policy, or Inherited
    Inherited,              \* the subclass does not override retry_policy
    EngineRetryPolicy,      \* the constructor's default_retry_policy
    RequiresApproval,       \* the stages with requires_approval = True
    ActionImpact,           \* stage_impl.action_impact, by its _IMPACT_ORDER
    ApprovalThreshold,      \* ApprovalPolicy.approval_threshold
    CriticalThreshold,      \* ApprovalPolicy.critical_threshold
    PolicyOutcomes,         \* decisions the policy engine may reach for a stage
    GatewayOutcomes,        \* what request_approval may do; {} is "no gateway"
    RollbackOutcomes,       \* what a stage's rollback() may do
    FinalApprovalRequired   \* final_approval_required

-----------------------------------------------------------------------------
(* Types.                                                                  *)

RetryPolicy ==
    [max_attempts                : 1 .. 10,
     exit_gate_failure_retryable : BOOLEAN,
     fallback_behavior           : {"fail", "skip", "use_preset"},
     has_fallback_output         : BOOLEAN,
     rollback_on_failure         : BOOLEAN,
     safe_stop_error_types       : SUBSET ErrorTypes,
     non_retryable_error_types   : SUBSET ErrorTypes]

\* DEFAULT_RETRY_POLICY: a single attempt, no fallback, no rollback.
DefaultRetryPolicy ==
    [max_attempts                |-> 1,
     exit_gate_failure_retryable |-> TRUE,
     fallback_behavior           |-> "fail",
     has_fallback_output         |-> FALSE,
     rollback_on_failure         |-> FALSE,
     safe_stop_error_types       |-> {},
     non_retryable_error_types   |-> {}]

Impact == 0 .. 3    \* ROUTINE, SIGNIFICANT, HIGH_IMPACT, CRITICAL

\* EnforcementDecision, and "unevaluated" for an engine without policy engine.
PolicyDecision == {"unevaluated", "allow", "warn", "require_approval", "block"}

ApprovalStatus == {"none", "approved", "rejected", "timed_out"}

StageStatus == {"absent", "awaiting_gate", "awaiting_approval", "in_progress",
                "completed", "failed", "rolled_back", "skipped", "blocked"}

WorkflowStatus == {"running", "awaiting_approval", "completed", "failed", "stopped"}

\* What ExecutionContext.stage_outputs holds for a stage: nothing, what the
\* stage produced, fallback_output, or the {} of a skipped stage.
Output == {"absent", "produced", "preset", "empty"}

Attempt == 0 .. 9    \* range(policy.max_attempts)

AttemptRecord ==
    [attempt           : Attempt,
     classification    : {"transient", "permanent", "critical"},
     recovery_decision : {"retry", "fallback", "rollback", "safe_stop", "fail_immediate"}]

\* artifacts holds the attempts that left artifacts behind; a list of gate
\* results is the set of verdicts in it.
StageContext ==
    [status             : StageStatus,
     input_data         : [Stages -> Output],
     attempt            : Attempt,
     exit_gate_results  : SUBSET BOOLEAN,
     attempt_records    : Seq(AttemptRecord),
     artifacts          : SUBSET Attempt,
     has_error          : BOOLEAN,
     fallback_used      : BOOLEAN,
     rollback_performed : BOOLEAN]

\* The awaits of _execute_stage, and its three ways out.
Awaiting == {"created", "entry_gate", "approval", "execute", "exit_gate", "rollback"}
Returned == {"returned_true", "returned_false", "raised"}

ASSUME GraphAssumption == IsFiniteSet(Stages) /\ ValidGraph
ASSUME RetryAssumption ==
    /\ OwnRetryPolicy \in [Stages -> RetryPolicy \cup {Inherited}]
    /\ EngineRetryPolicy \in RetryPolicy
    /\ Inherited \notin RetryPolicy
    /\ Mro \in [Exceptions -> SUBSET ErrorTypes]
ASSUME ApprovalAssumption ==
    /\ RequiresApproval \subseteq Stages
    /\ ActionImpact \in [Stages -> Impact]
    /\ ApprovalThreshold \in Impact
    /\ CriticalThreshold \in Impact
    /\ GatewayOutcomes \subseteq {"approve", "reject", "raise"}
    /\ FinalApprovalRequired \in BOOLEAN
ASSUME PolicyAssumption ==
    PolicyOutcomes \in [Stages -> (SUBSET PolicyDecision) \ {{}}]
ASSUME RollbackAssumption == RollbackOutcomes \subseteq {"same", "copy", "raise"}

-----------------------------------------------------------------------------
VARIABLES
    \* locals of run() and the coroutines
    phase,              \* where run() is
    batch,              \* the ready stages of the current round
    completed,          \* run()'s completed set
    failed,             \* run()'s failed set
    pc,                 \* where coroutine s is
    \* WorkflowState
    status,
    safe_stopped,
    completed_at,       \* TRUE once set
    stages,             \* state.stages; "absent" is a missing key
    approvals,          \* the Approval record of a stage
    final_qc,           \* the Approval record of __final_qc__
    policy_evaluations, \* the PolicyEvaluationRecord of a stage
    stage_transitions,  \* the stages whose entry gate passed
    rolled_back_stages,
    \* ExecutionContext
    stage_outputs,
    artifacts           \* <<stage, attempt>> pairs

runVars     == <<phase, batch, completed, failed>>
outcomeVars == <<status, safe_stopped, completed_at, final_qc>>
gateVars    == <<approvals, policy_evaluations, stage_transitions>>
contextVars == <<stage_outputs, artifacts>>
vars == <<runVars, pc, outcomeVars, stages, gateVars, rolled_back_stages, contextVars>>


-----------------------------------------------------------------------------
(* Decisions the code takes from its configuration.                        *)

\* getattr(stage_impl, "retry_policy", self.default_retry_policy): BaseStage
\* declares the class attribute, so a stage that does not override it has
\* BaseStage's DEFAULT_RETRY_POLICY and getattr's default is never taken.
EffectivePolicy(s) ==
    IF OwnRetryPolicy[s] = Inherited THEN DefaultRetryPolicy ELSE OwnRetryPolicy[s]

\* RetryPolicy.classify
Classify(s, e) ==
    IF Mro[e] \cap EffectivePolicy(s).safe_stop_error_types # {} THEN "critical"
    ELSE IF Mro[e] \cap EffectivePolicy(s).non_retryable_error_types # {} THEN "permanent"
    ELSE "transient"

\* A failed exit gate, returned or raised, is no exception to classify.
GateRetryable(s) == EffectivePolicy(s).exit_gate_failure_retryable

\* Mutants: the bound forgotten; the bound off by one.
AttemptsRemainUnbounded(s) == TRUE
AttemptsRemainOneMore(s) == stages[s].attempt < EffectivePolicy(s).max_attempts

AttemptsRemain(s) == stages[s].attempt < EffectivePolicy(s).max_attempts - 1

FallbackApplies(s) ==
    \/ EffectivePolicy(s).fallback_behavior = "skip"
    \/ /\ EffectivePolicy(s).fallback_behavior = "use_preset"
       /\ EffectivePolicy(s).has_fallback_output

\* required_autonomy(impact) = HUMAN_ONLY
HumanOnly(s) == ActionImpact[s] >= CriticalThreshold

\* Mutant: governance's REQUIRE_APPROVAL is not merged in.
NeedsApprovalUnmerged(s, decision) ==
    s \in RequiresApproval \/ ActionImpact[s] >= ApprovalThreshold

\* Mutant: only what the stage's class declares counts.
NeedsApprovalByClass(s, decision) == s \in RequiresApproval

\* decision: what the policy engine said of the stage
NeedsApproval(s, decision) ==
    \/ s \in RequiresApproval
    \/ ActionImpact[s] >= ApprovalThreshold
    \/ HumanOnly(s)
    \/ decision = "require_approval"

HasGateway == GatewayOutcomes # {}

-----------------------------------------------------------------------------
(* Pieces of state.                                                        *)

NoContext ==
    [status             |-> "absent",
     input_data         |-> [s \in Stages |-> "absent"],
     attempt            |-> 0,
     exit_gate_results  |-> {},
     attempt_records    |-> <<>>,
     artifacts          |-> {},
     has_error          |-> FALSE,
     fallback_used      |-> FALSE,
     rollback_performed |-> FALSE]

\* snapshot_for_stage: the recorded outputs of the predecessors, no other's.  The
\* code merges them into one dict, in which a later predecessor's value replaces
\* an earlier one's under the same key (context.py:116-129); here each
\* predecessor's output is kept apart, as a kind.
Snapshot(s) ==
    [p \in Stages |-> IF p \in Predecessors(s) THEN stage_outputs[p] ELSE "absent"]

NewContext(s) ==
    [NoContext EXCEPT !.status = "awaiting_gate", !.input_data = Snapshot(s)]

\* _fail_stage and _trigger_safe_stop on the context.
AsFailed(ctx) == [ctx EXCEPT !.status = "failed", !.has_error = TRUE]

WithRecord(ctx, classification, recovery) ==
    [ctx EXCEPT !.attempt_records =
        Append(@, [attempt           |-> ctx.attempt,
                   classification    |-> classification,
                   recovery_decision |-> recovery])]

\* Mutant: exit_gate_results is not cleared.
NextAttemptUncleared(ctx) == [ctx EXCEPT !.attempt = @ + 1]

\* The top of the retry loop for the attempt after ctx's.
NextAttempt(ctx) == [ctx EXCEPT !.attempt = @ + 1, !.exit_gate_results = {}]

\* Coroutine s runs up to await (or return) "at", leaving ctx as its context.
StepTo(s, at, ctx) ==
    /\ pc' = [pc EXCEPT ![s] = at]
    /\ stages' = [stages EXCEPT ![s] = ctx]

\* A step that changes nothing but the coroutine and the context of stage s.
OnlyStage(s) ==
    UNCHANGED <<runVars, outcomeVars, gateVars, rolled_back_stages, contextVars>>

\* Mutants: only what a stage produced is recorded; artifacts are replaced.
RecordStageOutputIfAny(s, output, attempts) ==
    /\ stage_outputs' = IF output = "produced" THEN [stage_outputs EXCEPT ![s] = output]
                        ELSE stage_outputs
    /\ artifacts' = artifacts \cup {<<s, a>> : a \in attempts}
RecordStageOutputAnew(s, output, attempts) ==
    /\ stage_outputs' = [stage_outputs EXCEPT ![s] = output]
    /\ artifacts' = {<<s, a>> : a \in attempts}

\* ExecutionContext.record_stage_output
RecordStageOutput(s, output, attempts) ==
    /\ stage_outputs' = [stage_outputs EXCEPT ![s] = output]
    /\ artifacts' = artifacts \cup {<<s, a>> : a \in attempts}

-----------------------------------------------------------------------------
(* _init_state                                                             *)

Init ==
    /\ phase = "loop"
    /\ batch = {}
    /\ completed = {}
    /\ failed = {}
    /\ pc = [s \in Stages |-> "idle"]
    /\ status = "running"
    /\ safe_stopped = FALSE
    /\ completed_at = FALSE
    /\ stages = [s \in Stages |-> NoContext]
    /\ approvals = [s \in Stages |-> "none"]
    /\ final_qc = "none"
    /\ policy_evaluations = [s \in Stages |-> "unevaluated"]
    /\ stage_transitions = {}
    /\ rolled_back_stages = {}
    /\ stage_outputs = [s \in Stages |-> "absent"]
    /\ artifacts = {}

-----------------------------------------------------------------------------
(* _execute_stage, up to the first await of the retry loop.                *)

\* The coroutine starts: its context is created and the entry gate awaited.
\* A round's coroutines start in the order of their names; any order is that
\* of some naming.
Begin(s) ==
    /\ pc[s] = "created"
    /\ StepTo(s, "entry_gate", NewContext(s))
    /\ OnlyStage(s)

\* The entry gate does not pass, or raises.
EntryGateFails(s) ==
    /\ pc[s] = "entry_gate"
    /\ StepTo(s, "returned_false", AsFailed(stages[s]))
    /\ OnlyStage(s)

\* The entry gate passes: the transition is recorded ...
PassEntryGate(s) ==
    /\ pc[s] = "entry_gate"
    /\ stage_transitions' = stage_transitions \cup {s}
    /\ UNCHANGED <<runVars, outcomeVars, rolled_back_stages, contextVars>>

\* ... then CRITICAL stages are refused before any policy is evaluated ...
BlockCritical(s) ==
    /\ PassEntryGate(s)
    /\ HumanOnly(s)
    /\ StepTo(s, "returned_false", AsFailed(stages[s]))
    /\ UNCHANGED <<approvals, policy_evaluations>>

\* ... and for the others the policy engine decides.
PolicyDecides(s, decision) ==
    /\ PassEntryGate(s)
    /\ ~HumanOnly(s)
    /\ policy_evaluations' = [policy_evaluations EXCEPT ![s] = decision]

BlockByPolicy(s) ==
    /\ "block" \in PolicyOutcomes[s]
    /\ PolicyDecides(s, "block")
    /\ StepTo(s, "returned_false", AsFailed(stages[s]))
    /\ UNCHANGED approvals

\* No gateway: the approval is recorded as timed out, the stage fails.
ApprovalTimesOut(s) ==
    \E decision \in PolicyOutcomes[s] \ {"block"} :
        /\ PolicyDecides(s, decision)
        /\ NeedsApproval(s, decision)
        /\ ~HasGateway
        /\ approvals' = [approvals EXCEPT ![s] = "timed_out"]
        /\ StepTo(s, "returned_false", AsFailed(stages[s]))

RequestApproval(s) ==
    \E decision \in PolicyOutcomes[s] \ {"block"} :
        /\ PolicyDecides(s, decision)
        /\ NeedsApproval(s, decision)
        /\ HasGateway
        /\ StepTo(s, "approval", [stages[s] EXCEPT !.status = "awaiting_approval"])
        /\ UNCHANGED approvals

StartUnapproved(s) ==
    \E decision \in PolicyOutcomes[s] \ {"block"} :
        /\ PolicyDecides(s, decision)
        /\ ~NeedsApproval(s, decision)
        /\ StepTo(s, "execute", [stages[s] EXCEPT !.status = "in_progress"])
        /\ UNCHANGED approvals

-----------------------------------------------------------------------------
(* The approval checkpoint answers.                                        *)

Approve(s) ==
    /\ pc[s] = "approval"
    /\ "approve" \in GatewayOutcomes
    /\ approvals' = [approvals EXCEPT ![s] = "approved"]
    /\ StepTo(s, "execute", [stages[s] EXCEPT !.status = "in_progress"])
    /\ UNCHANGED <<runVars, outcomeVars, policy_evaluations, stage_transitions,
                   rolled_back_stages, contextVars>>

Reject(s) ==
    /\ pc[s] = "approval"
    /\ "reject" \in GatewayOutcomes
    /\ approvals' = [approvals EXCEPT ![s] = "rejected"]
    /\ StepTo(s, "returned_false", AsFailed(stages[s]))
    /\ UNCHANGED <<runVars, outcomeVars, policy_evaluations, stage_transitions,
                   rolled_back_stages, contextVars>>

\* Nothing catches what request_approval raises: it leaves _execute_stage.
GatewayRaises(s) ==
    /\ pc[s] = "approval"
    /\ "raise" \in GatewayOutcomes
    /\ StepTo(s, "raised", stages[s])
    /\ OnlyStage(s)

-----------------------------------------------------------------------------
(* The execute + exit-gate retry loop.  An attempt may leave artifacts on  *)
(* the context, whether execute() returns or raises; nothing removes them. *)

WithArtifacts(ctx, left) ==
    IF left THEN [ctx EXCEPT !.artifacts = @ \cup {ctx.attempt}] ELSE ctx

ExecuteReturns(s) ==
    /\ pc[s] = "execute"
    /\ \E left \in BOOLEAN : StepTo(s, "exit_gate", WithArtifacts(stages[s], left))
    /\ OnlyStage(s)

\* _trigger_safe_stop: the stage fails and the whole workflow is STOPPED.
SafeStop(s, ctx) ==
    /\ StepTo(s, "returned_false", AsFailed(WithRecord(ctx, "critical", "safe_stop")))
    /\ safe_stopped' = TRUE
    /\ status' = "stopped"
    /\ UNCHANGED <<runVars, completed_at, final_qc, gateVars, rolled_back_stages, contextVars>>

\* "continue": the next attempt starts and execute() is awaited again.
Retry(s, ctx, classification) ==
    /\ StepTo(s, "execute", NextAttempt(WithRecord(ctx, classification, "retry")))
    /\ OnlyStage(s)

\* Mutant: the sibling's safe-stop is not looked at.
MustLeaveNever == FALSE

\* A sibling has safe-stopped the workflow since this stage's attempt began.
MustLeave == safe_stopped

\* "break" without success, and what follows the loop: nothing at all when a
\* sibling has safe-stopped the workflow meanwhile ...
LeaveToSafeStop(s, ctx) ==
    /\ MustLeave
    /\ StepTo(s, "returned_false", ctx)
    /\ UNCHANGED <<rolled_back_stages, contextVars>>

\* ... else _apply_fallback, which makes the stage count as done ...
SkipStage(s, ctx) ==
    /\ ~MustLeave
    /\ EffectivePolicy(s).fallback_behavior = "skip"
    /\ StepTo(s, "returned_true",
              [ctx EXCEPT !.status = "skipped", !.fallback_used = TRUE])
    /\ RecordStageOutput(s, "empty", {})
    /\ UNCHANGED rolled_back_stages

UsePreset(s, ctx) ==
    /\ ~MustLeave
    /\ EffectivePolicy(s).fallback_behavior = "use_preset"
    /\ EffectivePolicy(s).has_fallback_output
    /\ StepTo(s, "returned_true",
              [ctx EXCEPT !.status = "completed", !.fallback_used = TRUE])
    /\ RecordStageOutput(s, "preset", {})
    /\ UNCHANGED rolled_back_stages

\* ... else the stage is rolled back, when its policy says so ...
StartRollback(s, ctx) ==
    /\ ~MustLeave
    /\ ~FallbackApplies(s)
    /\ EffectivePolicy(s).rollback_on_failure
    /\ StepTo(s, "rollback", ctx)
    /\ UNCHANGED <<rolled_back_stages, contextVars>>

\* Mutant: it fails although it has a fallback.
FailDespiteFallback(s, ctx) ==
    /\ ~MustLeave
    /\ ~EffectivePolicy(s).rollback_on_failure
    /\ StepTo(s, "returned_false", AsFailed(ctx))
    /\ UNCHANGED <<rolled_back_stages, contextVars>>

\* ... else it fails.
FailAllAttempts(s, ctx) ==
    /\ ~MustLeave
    /\ ~FallbackApplies(s)
    /\ ~EffectivePolicy(s).rollback_on_failure
    /\ StepTo(s, "returned_false", AsFailed(ctx))
    /\ UNCHANGED <<rolled_back_stages, contextVars>>

GiveUp(s, ctx) ==
    /\ \/ LeaveToSafeStop(s, ctx)
       \/ SkipStage(s, ctx)
       \/ UsePreset(s, ctx)
       \/ StartRollback(s, ctx)
       \/ FailAllAttempts(s, ctx)
    /\ UNCHANGED <<runVars, outcomeVars, gateVars>>

\* execute() raises e.
ExecuteRaises(s) ==
    /\ pc[s] = "execute"
    /\ \E e \in Exceptions, left \in BOOLEAN :
           LET ctx == WithArtifacts(stages[s], left)
               classification == Classify(s, e)
           IN  \/ /\ classification = "critical"
                  /\ SafeStop(s, ctx)
               \/ /\ classification = "transient"
                  /\ AttemptsRemain(s)
                  /\ Retry(s, ctx, classification)
               \/ /\ classification # "critical"
                  /\ classification = "transient" => ~AttemptsRemain(s)
                  /\ GiveUp(s, WithRecord(ctx, classification, "fail_immediate"))

\* exit_gate() returns a passing result: the success path.
ExitGatePasses(s) ==
    /\ pc[s] = "exit_gate"
    /\ StepTo(s, "returned_true",
              [stages[s] EXCEPT !.status = "completed",
                                !.exit_gate_results = @ \cup {TRUE}])
    /\ RecordStageOutput(s, "produced", stages[s].artifacts)
    /\ UNCHANGED <<runVars, outcomeVars, gateVars, rolled_back_stages>>

\* exit_gate() returns a failing result, or raises, which leaves no result.
\* A raise is TRANSIENT whatever the policy says of failing gates.
ExitGateFails(s) ==
    /\ pc[s] = "exit_gate"
    /\ \E raised \in BOOLEAN :
           LET ctx == IF raised THEN stages[s]
                      ELSE [stages[s] EXCEPT !.exit_gate_results = @ \cup {FALSE}]
               classification ==
                   IF raised \/ GateRetryable(s) THEN "transient" ELSE "permanent"
           IN  \/ /\ GateRetryable(s)
                  /\ AttemptsRemain(s)
                  /\ Retry(s, ctx, classification)
               \/ /\ ~(GateRetryable(s) /\ AttemptsRemain(s))
                  /\ GiveUp(s, WithRecord(ctx, classification, "fail_immediate"))

-----------------------------------------------------------------------------
(* _do_rollback: the error is set on the context whatever became of it.    *)

\* rollback() returns the context it was given.
RollbackReturns(s) ==
    /\ pc[s] = "rollback"
    /\ "same" \in RollbackOutcomes
    /\ rolled_back_stages' = rolled_back_stages \cup {s}
    /\ StepTo(s, "returned_false",
              [stages[s] EXCEPT !.status = "rolled_back", !.has_error = TRUE,
                                !.rollback_performed = TRUE])
    /\ UNCHANGED <<runVars, outcomeVars, gateVars, contextVars>>

\* rollback() returns another context object: _do_rollback stores that one as
\* ROLLED_BACK, then the caller stores its own, untouched one over it.
RollbackReturnsCopy(s) ==
    /\ pc[s] = "rollback"
    /\ "copy" \in RollbackOutcomes
    /\ rolled_back_stages' = rolled_back_stages \cup {s}
    /\ StepTo(s, "returned_false", [stages[s] EXCEPT !.has_error = TRUE])
    /\ UNCHANGED <<runVars, outcomeVars, gateVars, contextVars>>

\* rollback() raises: the exception is logged and swallowed.
RollbackRaises(s) ==
    /\ pc[s] = "rollback"
    /\ "raise" \in RollbackOutcomes
    /\ StepTo(s, "returned_false", [stages[s] EXCEPT !.has_error = TRUE])
    /\ OnlyStage(s)

\* One piece of code without an await, from the entry gate's answer on.
LeaveEntryGate(s) ==
    /\ pc[s] = "entry_gate"
    /\ \/ EntryGateFails(s) \/ BlockCritical(s) \/ BlockByPolicy(s)
       \/ ApprovalTimesOut(s) \/ RequestApproval(s) \/ StartUnapproved(s)

StageStep(s) ==
    \/ Begin(s)
    \/ LeaveEntryGate(s)
    \/ Approve(s) \/ Reject(s) \/ GatewayRaises(s)
    \/ ExecuteReturns(s) \/ ExecuteRaises(s)
    \/ ExitGatePasses(s) \/ ExitGateFails(s)
    \/ RollbackReturns(s) \/ RollbackReturnsCopy(s) \/ RollbackRaises(s)

-----------------------------------------------------------------------------
(* run().  Nothing of the engine is awaited between a round's end and the  *)
(* next round's start, and no coroutine is alive then: cutting that code   *)
(* into Collect, Schedule and Finish adds no interleaving.                 *)

stageVars == <<pc, stages, gateVars, rolled_back_stages, contextVars>>

\* Mutant: one ready stage at a time.
RoundOfOne == {s \in ReadyStages(completed) :
                  s = CHOOSE r \in ReadyStages(completed) : TRUE}

Round == ReadyStages(completed)

\* asyncio.gather over the ready stages.
Schedule ==
    /\ phase = "loop"
    /\ Round # {}
    /\ batch' = Round
    /\ phase' = "gather"
    /\ pc' = [s \in Stages |-> IF s \in batch' THEN "created" ELSE pc[s]]
    /\ UNCHANGED <<completed, failed, outcomeVars, stages, gateVars,
                   rolled_back_stages, contextVars>>

NothingReady ==
    /\ phase = "loop"
    /\ Round = {}
    /\ phase' = "post_loop"
    /\ UNCHANGED <<batch, completed, failed, outcomeVars, stageVars>>

\* Mutant: failures do not stop the scheduling.
LoopEndsOnStop(failures) == safe_stopped

LoopEnds(failures) == failures # {} \/ safe_stopped

\* All coroutines of the round have returned or raised: a failure, or a
\* safe-stop, ends the loop.
Collect ==
    /\ phase = "gather"
    /\ \A s \in batch : pc[s] \in Returned
    /\ completed' = completed \cup {s \in batch : pc[s] = "returned_true"}
    /\ failed' = failed \cup {s \in batch : pc[s] # "returned_true"}
    /\ batch' = {}
    /\ phase' = IF LoopEnds(failed') THEN "post_loop" ELSE "loop"
    /\ UNCHANGED <<outcomeVars, stageVars>>

QcNeeded == failed = {} /\ ~safe_stopped /\ FinalApprovalRequired

\* Mutant: the failed stages are replaced too.
UnexecutedOrFailed ==
    IF safe_stopped THEN {s \in Stages : stages[s].status = "absent"}
    ELSE IF failed # {} THEN Stages \ completed
    ELSE {}

\* The contexts _finalise replaces by BLOCKED ones.
Unexecuted ==
    IF safe_stopped THEN {s \in Stages : stages[s].status = "absent"}
    ELSE IF failed # {} THEN Stages \ (completed \cup failed)
    ELSE {}

\* Mutant: a safe-stopped run is finalised like any other.
FinalStatusOfAny == IF failed = {} /\ completed = Stages THEN "completed" ELSE "failed"

FinalStatus ==
    IF safe_stopped THEN status
    ELSE IF failed = {} /\ completed = Stages THEN "completed"
    ELSE "failed"

\* _finalise, and the assignment of completed_at after it.
Finalise ==
    /\ status' = FinalStatus
    /\ stages' = [s \in Stages |-> IF s \in Unexecuted
                                   THEN [NoContext EXCEPT !.status = "blocked"]
                                   ELSE stages[s]]
    /\ completed_at' = TRUE
    /\ phase' = "returned"

Finish ==
    /\ phase = "post_loop"
    /\ ~QcNeeded
    /\ Finalise
    /\ UNCHANGED <<batch, completed, failed, pc, safe_stopped, final_qc, gateVars,
                   rolled_back_stages, contextVars>>

\* _final_qc_checkpoint, up to the gateway's answer.
RequestFinalQc ==
    /\ phase = "post_loop"
    /\ QcNeeded
    /\ HasGateway
    /\ status' = "awaiting_approval"
    /\ phase' = "final_qc"
    /\ UNCHANGED <<batch, completed, failed, safe_stopped, completed_at, final_qc, stageVars>>

\* Mutant: the answer is recorded, not heeded.
FailFinalQcUnheeded(approval) ==
    /\ final_qc' = approval
    /\ Finalise
    /\ UNCHANGED <<batch, completed, failed, pc, safe_stopped, gateVars,
                   rolled_back_stages, contextVars>>

\* The early return of run() when the checkpoint did not approve.
FailFinalQc(approval) ==
    /\ final_qc' = approval
    /\ status' = "failed"
    /\ phase' = "returned"
    /\ UNCHANGED <<batch, completed, failed, safe_stopped, completed_at, stageVars>>

FinalQcTimesOut ==
    /\ phase = "post_loop"
    /\ QcNeeded
    /\ ~HasGateway
    /\ FailFinalQc("timed_out")

FinalQcRejects ==
    /\ phase = "final_qc"
    /\ "reject" \in GatewayOutcomes
    /\ FailFinalQc("rejected")

FinalQcApproves ==
    /\ phase = "final_qc"
    /\ "approve" \in GatewayOutcomes
    /\ final_qc' = "approved"
    /\ Finalise
    /\ UNCHANGED <<batch, completed, failed, pc, safe_stopped, gateVars,
                   rolled_back_stages, contextVars>>

\* What the gateway raises leaves run(): the caller gets no WorkflowState.
FinalQcRaises ==
    /\ phase = "final_qc"
    /\ "raise" \in GatewayOutcomes
    /\ phase' = "raised"
    /\ UNCHANGED <<batch, completed, failed, outcomeVars, stageVars>>

EngineStep ==
    \/ Schedule \/ NothingReady \/ Collect \/ Finish
    \/ RequestFinalQc \/ FinalQcTimesOut \/ FinalQcRejects \/ FinalQcApproves
    \/ FinalQcRaises

Ended == phase \in {"returned", "raised"}

Terminated == Ended /\ UNCHANGED vars

Next == EngineStep \/ (\E s \in Stages : StageStep(s)) \/ Terminated

\* The event loop resumes every coroutine whose awaitable is done, and the
\* engine enforces no timeout: progress assumes that gates, execute(),
\* rollback() and the gateway answer.
Fairness == WF_vars(EngineStep) /\ \A s \in Stages : WF_vars(StageStep(s))

Spec == Init /\ [][Next]_vars /\ Fairness

=============================================================================
