------------------------ MODULE WorkflowEngineProofs ------------------------
(***************************************************************************)
(* Proofs about one run of WorkflowEngine, for every workflow definition,  *)
(* retry policy, approval policy and behaviour of the environment:         *)
(*                                                                         *)
(*   the invariant of the engine, with what follows from it;               *)
(*   what a run leaves on record, that is the log of attempts, the gate    *)
(*   results, the outputs and artifacts, the errors;                       *)
(*   that its rounds are the parallel groups of the workflow definition;   *)
(*   that it is a run of AbstractWorkflow: a round starts stages, a        *)
(*   coroutine that returns settles one, the last step of run() ends the   *)
(*   workflow, and every other step stutters.                              *)
(***************************************************************************)
EXTENDS WorkflowProperties, SequenceTheorems, FiniteSetTheorems, TLAPS

-----------------------------------------------------------------------------
(* Types of the decisions and of the contexts the actions build.           *)

LEMMA EffectivePolicyType ==
    ASSUME NEW s \in Stages
    PROVE  EffectivePolicy(s) \in RetryPolicy
<1>1. DefaultRetryPolicy \in RetryPolicy
    BY DEF DefaultRetryPolicy, RetryPolicy
<1> QED
    BY <1>1, RetryAssumption DEF EffectivePolicy

LEMMA NoContextType == NoContext \in StageContext
    BY DEF NoContext, StageContext, StageStatus, Output, Attempt

LEMMA NewContextType ==
    ASSUME StateTypeOK, NEW s \in Stages
    PROVE  NewContext(s) \in StageContext
<1>1. Snapshot(s) \in [Stages -> Output]
    BY DEF Snapshot, StateTypeOK, Output
<1> QED
    BY <1>1, NoContextType DEF NewContext, NoContext, StageContext, StageStatus

LEMMA AsFailedType ==
    ASSUME NEW ctx \in StageContext
    PROVE  AsFailed(ctx) \in StageContext
    BY DEF AsFailed, StageContext, StageStatus

LEMMA WithArtifactsType ==
    ASSUME NEW ctx \in StageContext, NEW left \in BOOLEAN
    PROVE  WithArtifacts(ctx, left) \in StageContext
    BY DEF WithArtifacts, StageContext

LEMMA WithRecordType ==
    ASSUME NEW ctx \in StageContext,
           NEW classification \in {"transient", "permanent", "critical"},
           NEW recovery \in {"retry", "safe_stop", "fail_immediate"}
    PROVE  WithRecord(ctx, classification, recovery) \in StageContext
<1> DEFINE record == [attempt |-> ctx.attempt, classification |-> classification,
                      recovery_decision |-> recovery]
<1>1. record \in AttemptRecord
    BY DEF StageContext, AttemptRecord
<1>2. ctx.attempt_records \in Seq(AttemptRecord)
    BY DEF StageContext
<1> HIDE DEF record
<1>3. Append(ctx.attempt_records, record) \in Seq(AttemptRecord)
    BY <1>1, <1>2
<1>4. \A log \in Seq(AttemptRecord) : [ctx EXCEPT !.attempt_records = log] \in StageContext
    BY DEF StageContext
<1>5. [ctx EXCEPT !.attempt_records = Append(ctx.attempt_records, record)] \in StageContext
    BY <1>3, <1>4
<1> QED
    BY <1>5 DEF WithRecord, record

LEMMA NextAttemptType ==
    ASSUME NEW ctx \in StageContext, ctx.attempt < 9
    PROVE  NextAttempt(ctx) \in StageContext
<1>1. ctx.attempt + 1 \in Attempt
    BY DEF StageContext, Attempt
<1>2. \A n \in Attempt : [ctx EXCEPT !.attempt = n, !.exit_gate_results = {}] \in StageContext
    BY DEF StageContext
<1> QED
    BY <1>1, <1>2 DEF NextAttempt

\* Where a coroutine that has begun may be.
BegunAt == (Awaiting \cup Returned) \ {"created"}

LEMMA StepToType ==
    ASSUME StateTypeOK, NEW s \in Stages, NEW at \in BegunAt, NEW ctx \in StageContext,
           StepTo(s, at, ctx)
    PROVE  /\ pc' \in [Stages -> {"idle"} \cup Awaiting \cup Returned]
           /\ stages' \in [Stages -> StageContext]
<1>1. pc \in [Stages -> {"idle"} \cup Awaiting \cup Returned]
    BY DEF StateTypeOK
<1>2. stages \in [Stages -> StageContext]
    BY DEF StateTypeOK
<1>3. at \in {"idle"} \cup Awaiting \cup Returned
    BY DEF BegunAt
<1> QED
    BY <1>1, <1>2, <1>3 DEF StepTo

LEMMA RecordStageOutputType ==
    ASSUME StateTypeOK, NEW s \in Stages, NEW output \in Output, NEW attempts \in SUBSET Attempt,
           RecordStageOutput(s, output, attempts)
    PROVE  /\ stage_outputs' \in [Stages -> Output]
           /\ artifacts' \in SUBSET (Stages \X Attempt)
    BY DEF RecordStageOutput, StateTypeOK

-----------------------------------------------------------------------------
(* Every step of a coroutine keeps the types.                              *)

LEMMA GiveUpType ==
    ASSUME StateTypeOK, NEW s \in Stages, NEW ctx \in StageContext, GiveUp(s, ctx)
    PROVE  StateTypeOK'
<1>1. CASE LeaveToSafeStop(s, ctx)
    <2>1. pc' \in [Stages -> {"idle"} \cup Awaiting \cup Returned]
          /\ stages' \in [Stages -> StageContext]
        BY <1>1, StepToType DEF LeaveToSafeStop, BegunAt, Returned, Awaiting
    <2> QED
        BY <1>1, <2>1 DEF StateTypeOK, GiveUp, LeaveToSafeStop, runVars, outcomeVars, gateVars, contextVars
<1>2. CASE SkipStage(s, ctx)
    <2>1. [ctx EXCEPT !.status = "skipped", !.fallback_used = TRUE] \in StageContext
        BY DEF StageContext, StageStatus
    <2>2. pc' \in [Stages -> {"idle"} \cup Awaiting \cup Returned]
          /\ stages' \in [Stages -> StageContext]
        BY <1>2, <2>1, StepToType DEF SkipStage, BegunAt, Returned, Awaiting
    <2>3. stage_outputs' \in [Stages -> Output] /\ artifacts' \in SUBSET (Stages \X Attempt)
        BY <1>2, RecordStageOutputType DEF SkipStage, Output
    <2> QED
        BY <1>2, <2>2, <2>3 DEF StateTypeOK, GiveUp, SkipStage, runVars, outcomeVars, gateVars
<1>3. CASE UsePreset(s, ctx)
    <2>1. [ctx EXCEPT !.status = "completed", !.fallback_used = TRUE] \in StageContext
        BY DEF StageContext, StageStatus
    <2>2. pc' \in [Stages -> {"idle"} \cup Awaiting \cup Returned]
          /\ stages' \in [Stages -> StageContext]
        BY <1>3, <2>1, StepToType DEF UsePreset, BegunAt, Returned, Awaiting
    <2>3. stage_outputs' \in [Stages -> Output] /\ artifacts' \in SUBSET (Stages \X Attempt)
        BY <1>3, RecordStageOutputType DEF UsePreset, Output
    <2> QED
        BY <1>3, <2>2, <2>3 DEF StateTypeOK, GiveUp, UsePreset, runVars, outcomeVars, gateVars
<1>4. CASE StartRollback(s, ctx)
    <2>1. pc' \in [Stages -> {"idle"} \cup Awaiting \cup Returned]
          /\ stages' \in [Stages -> StageContext]
        BY <1>4, StepToType DEF StartRollback, BegunAt, Returned, Awaiting
    <2> QED
        BY <1>4, <2>1 DEF StateTypeOK, GiveUp, StartRollback, runVars, outcomeVars, gateVars, contextVars
<1>5. CASE FailAllAttempts(s, ctx)
    <2>1. pc' \in [Stages -> {"idle"} \cup Awaiting \cup Returned]
          /\ stages' \in [Stages -> StageContext]
        BY <1>5, AsFailedType, StepToType DEF FailAllAttempts, BegunAt, Returned, Awaiting
    <2> QED
        BY <1>5, <2>1 DEF StateTypeOK, GiveUp, FailAllAttempts, runVars, outcomeVars, gateVars, contextVars
<1> QED
    BY <1>1, <1>2, <1>3, <1>4, <1>5 DEF GiveUp

LEMMA RetryType ==
    ASSUME StateTypeOK, NEW s \in Stages, NEW ctx \in StageContext, ctx.attempt = stages[s].attempt,
           NEW classification \in {"transient", "permanent", "critical"},
           AttemptsRemain(s), Retry(s, ctx, classification)
    PROVE  StateTypeOK'
<1>1. WithRecord(ctx, classification, "retry") \in StageContext
    BY WithRecordType
<1>2. WithRecord(ctx, classification, "retry").attempt = stages[s].attempt
    BY DEF WithRecord, StageContext
<1>3. stages[s].attempt < 9
    <2>1. EffectivePolicy(s).max_attempts \in 1 .. 10
        BY EffectivePolicyType DEF RetryPolicy
    <2>2. stages[s].attempt \in Attempt
        BY DEF StateTypeOK, StageContext
    <2> QED
        BY <2>1, <2>2 DEF AttemptsRemain, Attempt
<1>4. NextAttempt(WithRecord(ctx, classification, "retry")) \in StageContext
    BY <1>1, <1>2, <1>3, NextAttemptType
<1>5. pc' \in [Stages -> {"idle"} \cup Awaiting \cup Returned]
      /\ stages' \in [Stages -> StageContext]
    BY <1>4, StepToType DEF Retry, BegunAt, Returned, Awaiting
<1> QED
    BY <1>5 DEF StateTypeOK, Retry, OnlyStage, runVars, outcomeVars, gateVars, contextVars

LEMMA WithArtifactsKeepsAttempt ==
    ASSUME NEW ctx \in StageContext, NEW left \in BOOLEAN
    PROVE  WithArtifacts(ctx, left).attempt = ctx.attempt
    BY DEF WithArtifacts, StageContext

LEMMA ExecuteRaisesType ==
    ASSUME StateTypeOK, NEW s \in Stages, ExecuteRaises(s)
    PROVE  StateTypeOK'
<1>1. PICK e \in Exceptions, left \in BOOLEAN :
          LET ctx == WithArtifacts(stages[s], left)
              classification == Classify(s, e)
          IN  \/ /\ classification = "critical"
                 /\ SafeStop(s, ctx)
              \/ /\ classification = "transient"
                 /\ AttemptsRemain(s)
                 /\ Retry(s, ctx, classification)
              \/ /\ classification # "critical"
                 /\ classification = "transient" => ~AttemptsRemain(s)
                 /\ GiveUp(s, WithRecord(ctx, classification, "fail_immediate"))
    BY DEF ExecuteRaises
<1> DEFINE ctx == WithArtifacts(stages[s], left)
           classification == Classify(s, e)
<1>2. ctx \in StageContext /\ ctx.attempt = stages[s].attempt
    BY WithArtifactsType, WithArtifactsKeepsAttempt DEF StateTypeOK
<1>3. classification \in {"transient", "permanent", "critical"}
    BY DEF Classify
<1> HIDE DEF ctx, classification
<1>4. CASE SafeStop(s, ctx)
    <2>1. AsFailed(WithRecord(ctx, "critical", "safe_stop")) \in StageContext
        BY <1>2, WithRecordType, AsFailedType
    <2>2. pc' \in [Stages -> {"idle"} \cup Awaiting \cup Returned]
          /\ stages' \in [Stages -> StageContext]
        BY <1>4, <2>1, StepToType DEF SafeStop, BegunAt, Returned, Awaiting
    <2> QED
        BY <1>4, <2>2 DEF StateTypeOK, SafeStop, runVars, gateVars, contextVars, WorkflowStatus
<1>5. CASE AttemptsRemain(s) /\ Retry(s, ctx, classification)
    BY <1>2, <1>3, <1>5, RetryType
<1>6. CASE GiveUp(s, WithRecord(ctx, classification, "fail_immediate"))
    BY <1>2, <1>3, <1>6, WithRecordType, GiveUpType
<1> QED
    BY <1>1, <1>4, <1>5, <1>6 DEF ctx, classification

LEMMA ExitGateFailsType ==
    ASSUME StateTypeOK, NEW s \in Stages, ExitGateFails(s)
    PROVE  StateTypeOK'
<1> DEFINE ctxOf(raised) ==
               IF raised THEN stages[s]
               ELSE [stages[s] EXCEPT !.exit_gate_results = @ \cup {FALSE}]
           classificationOf(raised) ==
               IF raised \/ GateRetryable(s) THEN "transient" ELSE "permanent"
<1>1. PICK raised \in BOOLEAN :
          \/ /\ GateRetryable(s)
             /\ AttemptsRemain(s)
             /\ Retry(s, ctxOf(raised), classificationOf(raised))
          \/ /\ ~(GateRetryable(s) /\ AttemptsRemain(s))
             /\ GiveUp(s, WithRecord(ctxOf(raised), classificationOf(raised), "fail_immediate"))
    BY DEF ExitGateFails
<1> DEFINE ctx == ctxOf(raised)
           classification == classificationOf(raised)
<1>2. ctx \in StageContext /\ ctx.attempt = stages[s].attempt
    <2>1. stages[s] \in StageContext
        BY DEF StateTypeOK
    <2>2. CASE raised
        BY <2>1, <2>2
    <2>3. CASE ~raised
        BY <2>1, <2>3 DEF StageContext
    <2> QED
        BY <2>2, <2>3
<1>3. classification \in {"transient", "permanent", "critical"}
    OBVIOUS
<1> HIDE DEF ctx, classification
<1>4. CASE AttemptsRemain(s) /\ Retry(s, ctx, classification)
    BY <1>2, <1>3, <1>4, RetryType
<1>5. CASE GiveUp(s, WithRecord(ctx, classification, "fail_immediate"))
    BY <1>2, <1>3, <1>5, WithRecordType, GiveUpType
<1> QED
    BY <1>1, <1>4, <1>5 DEF ctx, classification

LEMMA GateStepType ==
    ASSUME StateTypeOK, NEW s \in Stages,
           Begin(s) \/ EntryGateFails(s) \/ BlockCritical(s) \/ BlockByPolicy(s)
           \/ ApprovalTimesOut(s) \/ RequestApproval(s) \/ StartUnapproved(s)
           \/ Approve(s) \/ Reject(s) \/ GatewayRaises(s)
    PROVE  StateTypeOK'
<1> DEFINE waits == [stages[s] EXCEPT !.status = "awaiting_approval"]
           starts == [stages[s] EXCEPT !.status = "in_progress"]
<1>1. stages[s] \in StageContext
    BY DEF StateTypeOK
<1>2. waits \in StageContext /\ starts \in StageContext
    BY <1>1 DEF StageContext, StageStatus
<1>3. NewContext(s) \in StageContext /\ AsFailed(stages[s]) \in StageContext
    BY <1>1, NewContextType, AsFailedType
<1>4. \E at \in BegunAt, ctx \in {NewContext(s), AsFailed(stages[s]), waits, starts, stages[s]} :
          StepTo(s, at, ctx)
    BY DEF Begin, EntryGateFails, BlockCritical, BlockByPolicy, ApprovalTimesOut, RequestApproval,
           StartUnapproved, Approve, Reject, GatewayRaises, BegunAt, Awaiting, Returned
<1>5. pc' \in [Stages -> {"idle"} \cup Awaiting \cup Returned]
      /\ stages' \in [Stages -> StageContext]
    <2> HIDE DEF waits, starts
    <2> QED
        BY <1>1, <1>2, <1>3, <1>4, StepToType
<1>6. \A decision \in PolicyOutcomes[s] : decision \in PolicyDecision
    BY PolicyAssumption
<1>7. UNCHANGED <<runVars, outcomeVars, rolled_back_stages, contextVars>>
      /\ stage_transitions' \in SUBSET Stages
      /\ (policy_evaluations' = policy_evaluations
          \/ \E decision \in PolicyOutcomes[s] :
                 policy_evaluations' = [policy_evaluations EXCEPT ![s] = decision])
      /\ (approvals' = approvals
          \/ \E approval \in ApprovalStatus :
                 approvals' = [approvals EXCEPT ![s] = approval])
    <2>1. CASE Begin(s) \/ EntryGateFails(s) \/ GatewayRaises(s)
        BY <2>1 DEF StateTypeOK, Begin, EntryGateFails, GatewayRaises, OnlyStage, gateVars
    <2>2. CASE BlockCritical(s)
        BY <2>2 DEF StateTypeOK, BlockCritical, PassEntryGate
    <2>3. CASE BlockByPolicy(s)
        BY <2>3 DEF StateTypeOK, BlockByPolicy, PolicyDecides, PassEntryGate
    <2>4. CASE ApprovalTimesOut(s)
        BY <2>4 DEF StateTypeOK, ApprovalTimesOut, PolicyDecides, PassEntryGate, ApprovalStatus
    <2>5. CASE RequestApproval(s)
        BY <2>5 DEF StateTypeOK, RequestApproval, PolicyDecides, PassEntryGate
    <2>6. CASE StartUnapproved(s)
        BY <2>6 DEF StateTypeOK, StartUnapproved, PolicyDecides, PassEntryGate
    <2>7. CASE Approve(s) \/ Reject(s)
        BY <2>7 DEF StateTypeOK, Approve, Reject, ApprovalStatus
    <2> QED
        BY <2>1, <2>2, <2>3, <2>4, <2>5, <2>6, <2>7
<1> QED
    BY <1>5, <1>6, <1>7 DEF StateTypeOK, runVars, outcomeVars, contextVars

LEMMA ExecuteReturnsType ==
    ASSUME StateTypeOK, NEW s \in Stages, ExecuteReturns(s)
    PROVE  StateTypeOK'
<1>1. pc' \in [Stages -> {"idle"} \cup Awaiting \cup Returned]
      /\ stages' \in [Stages -> StageContext]
    <2>1. \A left \in BOOLEAN : WithArtifacts(stages[s], left) \in StageContext
        BY WithArtifactsType DEF StateTypeOK
    <2> QED
        BY <2>1, StepToType DEF ExecuteReturns, BegunAt, Awaiting, Returned
<1> QED
    BY <1>1 DEF StateTypeOK, ExecuteReturns, OnlyStage, runVars, outcomeVars, gateVars, contextVars

LEMMA ExitGatePassesType ==
    ASSUME StateTypeOK, NEW s \in Stages, ExitGatePasses(s)
    PROVE  StateTypeOK'
<1>1. stages[s] \in StageContext
    BY DEF StateTypeOK
<1>2. [stages[s] EXCEPT !.status = "completed", !.exit_gate_results = @ \cup {TRUE}]
          \in StageContext
    BY <1>1 DEF StageContext, StageStatus
<1>3. pc' \in [Stages -> {"idle"} \cup Awaiting \cup Returned]
      /\ stages' \in [Stages -> StageContext]
    BY <1>2, StepToType DEF ExitGatePasses, BegunAt, Awaiting, Returned
<1>4. stage_outputs' \in [Stages -> Output] /\ artifacts' \in SUBSET (Stages \X Attempt)
    <2>1. stages[s].artifacts \in SUBSET Attempt
        BY <1>1 DEF StageContext
    <2> QED
        BY <2>1, RecordStageOutputType DEF ExitGatePasses, Output
<1> QED
    BY <1>3, <1>4 DEF StateTypeOK, ExitGatePasses, runVars, outcomeVars, gateVars

LEMMA RollbackStepType ==
    ASSUME StateTypeOK, NEW s \in Stages,
           RollbackReturns(s) \/ RollbackReturnsCopy(s) \/ RollbackRaises(s)
    PROVE  StateTypeOK'
<1> DEFINE undone == [stages[s] EXCEPT !.status = "rolled_back", !.has_error = TRUE,
                                       !.rollback_performed = TRUE]
           kept == [stages[s] EXCEPT !.has_error = TRUE]
<1>1. undone \in StageContext /\ kept \in StageContext
    <2>1. stages[s] \in StageContext
        BY DEF StateTypeOK
    <2>2. undone \in StageContext
        BY <2>1 DEF StageContext, StageStatus
    <2>3. kept \in StageContext
        BY <2>1 DEF StageContext
    <2> QED
        BY <2>2, <2>3
<1>2. StepTo(s, "returned_false", undone) \/ StepTo(s, "returned_false", kept)
    BY DEF RollbackReturns, RollbackReturnsCopy, RollbackRaises
<1>3. pc' \in [Stages -> {"idle"} \cup Awaiting \cup Returned]
      /\ stages' \in [Stages -> StageContext]
    <2> HIDE DEF undone, kept
    <2> QED
        BY <1>1, <1>2, StepToType DEF BegunAt, Awaiting, Returned
<1>4. UNCHANGED <<runVars, outcomeVars, gateVars, contextVars>>
      /\ rolled_back_stages' \in SUBSET Stages
    BY DEF StateTypeOK, RollbackReturns, RollbackReturnsCopy, RollbackRaises, OnlyStage
<1> QED
    BY <1>3, <1>4 DEF StateTypeOK, runVars, outcomeVars, gateVars, contextVars

LEMMA StageStepType ==
    ASSUME StateTypeOK, NEW s \in Stages, StageStep(s)
    PROVE  StateTypeOK'
    BY GateStepType, ExecuteReturnsType, ExecuteRaisesType, ExitGatePassesType,
       ExitGateFailsType, RollbackStepType DEF StageStep, LeaveEntryGate

\* No coroutine moves run().
LEMMA StageStepPhase ==
    ASSUME NEW s \in Stages, StageStep(s)
    PROVE  UNCHANGED runVars
    BY DEF StageStep, LeaveEntryGate, Begin, EntryGateFails, BlockCritical, BlockByPolicy,
           ApprovalTimesOut, RequestApproval, StartUnapproved, PolicyDecides, PassEntryGate,
           Approve, Reject, GatewayRaises, ExecuteReturns, ExecuteRaises, SafeStop, Retry, GiveUp,
           ExitGatePasses, ExitGateFails, RollbackReturns, RollbackReturnsCopy, RollbackRaises,
           OnlyStage

-----------------------------------------------------------------------------
(* Type correctness.                                                       *)

LEMMA FinaliseType ==
    ASSUME StateTypeOK, Finalise
    PROVE  /\ status' \in WorkflowStatus
           /\ stages' \in [Stages -> StageContext]
           /\ completed_at' \in BOOLEAN
<1>1. [NoContext EXCEPT !.status = "blocked"] \in StageContext
    BY NoContextType DEF StageContext, StageStatus
<1>2. status' \in WorkflowStatus
    BY DEF StateTypeOK, Finalise, FinalStatus, WorkflowStatus
<1> QED
    BY <1>1, <1>2 DEF StateTypeOK, Finalise

LEMMA EngineStepType ==
    ASSUME TypeOK, EngineStep
    PROVE  TypeOK'
<1> USE DEF TypeOK, StateTypeOK, RunPhase, runVars, outcomeVars, gateVars, contextVars, stageVars
<1>1. CASE Schedule
    BY <1>1 DEF Schedule, Round, ReadyStages, Awaiting
<1>2. CASE NothingReady
    BY <1>2 DEF NothingReady
<1>3. CASE Collect
    BY <1>3 DEF Collect
<1>4. CASE Finish
    BY <1>4, FinaliseType DEF Finish, Finalise
<1>5. CASE RequestFinalQc
    BY <1>5 DEF RequestFinalQc, WorkflowStatus
<1>6. CASE FinalQcTimesOut \/ FinalQcRejects
    BY <1>6 DEF FinalQcTimesOut, FinalQcRejects, FailFinalQc, WorkflowStatus, ApprovalStatus
<1>7. CASE FinalQcApproves
    BY <1>7, FinaliseType DEF FinalQcApproves, Finalise, ApprovalStatus
<1>8. CASE FinalQcRaises
    BY <1>8 DEF FinalQcRaises
<1> QED
    BY <1>1, <1>2, <1>3, <1>4, <1>5, <1>6, <1>7, <1>8 DEF EngineStep

LEMMA TypeInit == Init => TypeOK
<1> SUFFICES ASSUME Init
             PROVE  TypeOK
    OBVIOUS
<1>1. stages \in [Stages -> StageContext]
    BY NoContextType DEF Init
<1>2. /\ approvals \in [Stages -> ApprovalStatus]
      /\ policy_evaluations \in [Stages -> PolicyDecision]
      /\ stage_outputs \in [Stages -> Output]
    BY DEF Init, ApprovalStatus, PolicyDecision, Output
<1>3. pc \in [Stages -> {"idle"} \cup Awaiting \cup Returned]
    BY DEF Init
<1> QED
    BY <1>1, <1>2, <1>3 DEF Init, TypeOK, StateTypeOK, RunPhase, WorkflowStatus, ApprovalStatus

LEMMA TypeNext == TypeOK /\ [Next]_vars => TypeOK'
<1> SUFFICES ASSUME TypeOK, [Next]_vars
             PROVE  TypeOK'
    OBVIOUS
<1>1. CASE EngineStep
    BY <1>1, EngineStepType
<1>2. ASSUME NEW s \in Stages, StageStep(s)
      PROVE  TypeOK'
    BY <1>2, StageStepType, StageStepPhase DEF TypeOK, runVars
<1>3. CASE UNCHANGED vars
    BY <1>3 DEF TypeOK, StateTypeOK, vars, runVars, outcomeVars, gateVars, contextVars
<1> QED
    BY <1>1, <1>2, <1>3 DEF Next, Terminated

\* Every variable of a run keeps its type; in particular no stage counts more
\* than the ten attempts a RetryPolicy admits.
THEOREM TypeCorrect == Spec => []TypeOK
    BY TypeInit, TypeNext, PTL DEF Spec

-----------------------------------------------------------------------------
(* The inductive invariant.  Its parts are the bookkeeping of run(), the   *)
(* status a context has while its coroutine is at a given await, the data  *)
(* flow between contexts, and the guards in front of execute().            *)

\* run() knows where every coroutine is.
Bookkeeping ==
    /\ phase # "gather" => batch = {}
    /\ phase = "loop" => failed = {} /\ ~safe_stopped
    /\ \A s \in Stages : pc[s] = "idle" <=> s \notin completed \cup failed \cup batch
    /\ \A s \in completed : pc[s] = "returned_true"
    /\ \A s \in failed : pc[s] \in {"returned_false", "raised"}

\* The loop ends without a failure only when there is nothing left to do.
LoopOutcome ==
    /\ safe_stopped => failed # {} \/ \E s \in batch : pc[s] = "returned_false"
    /\ phase \in {"post_loop", "final_qc"} /\ failed = {} => completed = Stages
    /\ phase = "final_qc" => QcNeeded

\* The status of the workflow, by the phase of run().
StatusFollowsPhase ==
    IF safe_stopped THEN status = "stopped"
    ELSE /\ phase \in {"loop", "gather", "post_loop"} => status = "running"
         /\ phase = "final_qc" => status = "awaiting_approval"
         /\ phase = "returned" =>
                \/ /\ status = "completed"
                   /\ failed = {} /\ completed = Stages
                   /\ FinalApprovalRequired => final_qc = "approved"
                \/ /\ status = "failed"
                   /\ failed # {} \/ (FinalApprovalRequired /\ final_qc # "approved")

\* The status of a context, by the await its coroutine is at.
StatusAt(at) ==
    CASE at \in {"idle", "created"} ->
             IF phase = "returned" THEN {"blocked"} ELSE {"absent"}
      [] at = "entry_gate"          -> {"awaiting_gate"}
      [] at \in {"approval", "raised"} -> {"awaiting_approval"}
      [] at \in {"execute", "exit_gate", "rollback"} -> {"in_progress"}
      [] at = "returned_true"       -> {"completed", "skipped"}
      [] OTHER                      -> {"failed", "rolled_back", "in_progress"}

StatusFollowsCoroutine == \A s \in Stages : stages[s].status \in StatusAt(pc[s])

\* A stage runs on the outputs of its predecessors, which are complete.
DataFlow ==
    /\ \A s \in Stages : pc[s] # "idle" => Predecessors(s) \subseteq completed
    /\ \A s \in Stages : pc[s] = "returned_true" => stage_outputs[s] # "absent"
    /\ InputsComplete

\* What has been decided about a stage when it waits for approval or executes.
Cleared(s) == ~HumanOnly(s) /\ policy_evaluations[s] \in PolicyOutcomes[s] \ {"block"}

Guarded(s) ==
    /\ pc[s] \in {"idle", "created", "entry_gate", "approval"}
           => stages[s].attempt_records = <<>>
    /\ pc[s] = "approval" => Cleared(s)
    /\ Executed(s) =>
           /\ Cleared(s)
           /\ NeedsApproval(s, policy_evaluations[s]) => approvals[s] = "approved"

Guards == \A s \in Stages : Guarded(s)

RunInvariant ==
    /\ TypeOK
    /\ Bookkeeping
    /\ LoopOutcome
    /\ StatusFollowsPhase
    /\ StatusFollowsCoroutine
    /\ DataFlow
    /\ Guards

-----------------------------------------------------------------------------
(* What the steps of a coroutine have in common.                           *)

\* A step of s disturbs no other stage, and nothing of run() but the stop.
OthersKept(s) ==
    /\ UNCHANGED <<runVars, completed_at, final_qc>>
    /\ \A r \in Stages \ {s} : /\ pc'[r] = pc[r]
                               /\ stages'[r] = stages[r]
                               /\ approvals'[r] = approvals[r]
                               /\ policy_evaluations'[r] = policy_evaluations[r]
                               /\ stage_outputs'[r] = stage_outputs[r]
    /\ \/ UNCHANGED <<safe_stopped, status>>
       \/ safe_stopped' /\ status' = "stopped" /\ pc'[s] = "returned_false"

DecisionsKept(s) ==
    approvals'[s] = approvals[s] /\ policy_evaluations'[s] = policy_evaluations[s]

\* Coroutine s creates its context.
Creates(s) ==
    /\ pc[s] = "created" /\ pc'[s] = "entry_gate"
    /\ stages'[s] = NewContext(s)
    /\ stage_outputs'[s] = stage_outputs[s]

\* Coroutine s moves along the gates in front of execute().
PassesGate(s) ==
    /\ pc[s] \in {"entry_gate", "approval"}
    /\ stages'[s].attempt_records = stages[s].attempt_records
    /\ stages'[s].input_data = stages[s].input_data
    /\ stage_outputs'[s] = stage_outputs[s]
    /\ \/ pc'[s] = "returned_false" /\ stages'[s].status = "failed"
       \/ pc[s] = "approval" /\ pc'[s] = "raised" /\ stages'[s].status = stages[s].status
       \/ pc'[s] = "approval" /\ stages'[s].status = "awaiting_approval" /\ Cleared(s)'
       \/ /\ pc'[s] = "execute" /\ stages'[s].status = "in_progress"
          /\ \/ /\ pc[s] = "entry_gate" /\ Cleared(s)'
                /\ ~NeedsApproval(s, policy_evaluations'[s])
             \/ /\ pc[s] = "approval" /\ approvals'[s] = "approved"
                /\ policy_evaluations'[s] = policy_evaluations[s]

\* Coroutine s works: it executes, retries, recovers or gives up.
Works(s) ==
    /\ pc[s] \in {"execute", "exit_gate", "rollback"}
    /\ DecisionsKept(s)
    /\ stages'[s].input_data = stages[s].input_data
    /\ \/ /\ pc'[s] \in {"execute", "exit_gate", "rollback"}
          /\ stages'[s].status = stages[s].status
          /\ stage_outputs'[s] = stage_outputs[s]
       \/ /\ pc'[s] = "returned_false"
          /\ stages'[s].status \in {stages[s].status, "failed", "rolled_back"}
          /\ stage_outputs'[s] = stage_outputs[s]
       \/ /\ pc'[s] = "returned_true"
          /\ stages'[s].status \in {"completed", "skipped"}
          /\ stage_outputs'[s] # "absent"

LEMMA StepToEffect ==
    ASSUME StateTypeOK, NEW s \in Stages, NEW at, NEW ctx, StepTo(s, at, ctx)
    PROVE  /\ pc'[s] = at /\ stages'[s] = ctx
           /\ \A r \in Stages \ {s} : pc'[r] = pc[r] /\ stages'[r] = stages[r]
    BY DEF StateTypeOK, StepTo

LEMMA RecordStageOutputEffect ==
    ASSUME StateTypeOK, NEW s \in Stages, NEW output, NEW attempts,
           RecordStageOutput(s, output, attempts)
    PROVE  /\ stage_outputs'[s] = output
           /\ \A r \in Stages \ {s} : stage_outputs'[r] = stage_outputs[r]
    BY DEF StateTypeOK, RecordStageOutput

LEMMA GiveUpEffect ==
    ASSUME StateTypeOK, NEW s \in Stages, pc[s] \in {"execute", "exit_gate"},
           NEW ctx \in StageContext,
           ctx.status = stages[s].status, ctx.input_data = stages[s].input_data,
           GiveUp(s, ctx)
    PROVE  OthersKept(s) /\ Works(s)
<1> USE DEF GiveUp, OthersKept, Works, DecisionsKept, runVars, outcomeVars, gateVars, contextVars
<1>1. CASE LeaveToSafeStop(s, ctx)
    BY <1>1, StepToEffect DEF LeaveToSafeStop
<1>2. CASE SkipStage(s, ctx)
    <2> DEFINE skipped == [ctx EXCEPT !.status = "skipped", !.fallback_used = TRUE]
    <2>1. skipped.status = "skipped" /\ skipped.input_data = ctx.input_data
        BY DEF StageContext
    <2> HIDE DEF skipped
    <2>2. StepTo(s, "returned_true", skipped) /\ RecordStageOutput(s, "empty", {})
        BY <1>2 DEF SkipStage, skipped
    <2> QED
        BY <1>2, <2>1, <2>2, StepToEffect, RecordStageOutputEffect DEF SkipStage
<1>3. CASE UsePreset(s, ctx)
    <2> DEFINE preset == [ctx EXCEPT !.status = "completed", !.fallback_used = TRUE]
    <2>1. preset.status = "completed" /\ preset.input_data = ctx.input_data
        BY DEF StageContext
    <2> HIDE DEF preset
    <2>2. StepTo(s, "returned_true", preset) /\ RecordStageOutput(s, "preset", {})
        BY <1>3 DEF UsePreset, preset
    <2> QED
        BY <1>3, <2>1, <2>2, StepToEffect, RecordStageOutputEffect DEF UsePreset
<1>4. CASE StartRollback(s, ctx)
    BY <1>4, StepToEffect DEF StartRollback
<1>5. CASE FailAllAttempts(s, ctx)
    <2>1. AsFailed(ctx).status = "failed" /\ AsFailed(ctx).input_data = ctx.input_data
        BY DEF AsFailed, StageContext
    <2> QED
        BY <1>5, <2>1, StepToEffect DEF FailAllAttempts
<1> QED
    BY <1>1, <1>2, <1>3, <1>4, <1>5

LEMMA WithRecordKeeps ==
    ASSUME NEW ctx \in StageContext, NEW classification, NEW recovery
    PROVE  LET recorded == WithRecord(ctx, classification, recovery)
           IN  recorded.status = ctx.status /\ recorded.input_data = ctx.input_data
    BY DEF WithRecord, StageContext

LEMMA RetryEffect ==
    ASSUME StateTypeOK, NEW s \in Stages, pc[s] \in {"execute", "exit_gate"},
           NEW ctx \in StageContext,
           ctx.status = stages[s].status, ctx.input_data = stages[s].input_data,
           NEW classification \in {"transient", "permanent", "critical"},
           Retry(s, ctx, classification)
    PROVE  OthersKept(s) /\ Works(s)
<1> DEFINE recorded == WithRecord(ctx, classification, "retry")
<1>1. recorded \in StageContext
    BY WithRecordType
<1>2. recorded.status = ctx.status /\ recorded.input_data = ctx.input_data
    BY WithRecordKeeps
<1>3. StepTo(s, "execute", NextAttempt(recorded)) /\ OnlyStage(s)
    BY DEF Retry
<1> HIDE DEF recorded
<1>4. /\ NextAttempt(recorded).status = recorded.status
      /\ NextAttempt(recorded).input_data = recorded.input_data
    BY <1>1 DEF NextAttempt, StageContext
<1> QED
    BY <1>2, <1>3, <1>4, StepToEffect
    DEF OthersKept, Works, DecisionsKept, OnlyStage, runVars, outcomeVars, gateVars, contextVars

LEMMA ExecuteRaisesEffect ==
    ASSUME StateTypeOK, NEW s \in Stages, ExecuteRaises(s)
    PROVE  OthersKept(s) /\ Works(s)
<1>1. PICK e \in Exceptions, left \in BOOLEAN :
          LET ctx == WithArtifacts(stages[s], left)
              classification == Classify(s, e)
          IN  \/ /\ classification = "critical"
                 /\ SafeStop(s, ctx)
              \/ /\ classification = "transient"
                 /\ AttemptsRemain(s)
                 /\ Retry(s, ctx, classification)
              \/ /\ classification # "critical"
                 /\ classification = "transient" => ~AttemptsRemain(s)
                 /\ GiveUp(s, WithRecord(ctx, classification, "fail_immediate"))
    BY DEF ExecuteRaises
<1> DEFINE ctx == WithArtifacts(stages[s], left)
           classification == Classify(s, e)
<1>2. /\ pc[s] \in {"execute", "exit_gate"}
      /\ ctx \in StageContext
      /\ ctx.status = stages[s].status /\ ctx.input_data = stages[s].input_data
    <2>1. stages[s] \in StageContext
        BY DEF StateTypeOK
    <2> QED
        BY <2>1, WithArtifactsType DEF WithArtifacts, StageContext, ExecuteRaises
<1>3. classification \in {"transient", "permanent", "critical"}
    BY DEF Classify
<1> HIDE DEF ctx, classification
<1>4. CASE SafeStop(s, ctx)
    <2> DEFINE recorded == WithRecord(ctx, "critical", "safe_stop")
    <2>1. recorded \in StageContext
        BY <1>2, WithRecordType
    <2>2. recorded.input_data = ctx.input_data
        BY <1>2, WithRecordKeeps
    <2>3. StepTo(s, "returned_false", AsFailed(recorded))
        BY <1>4 DEF SafeStop
    <2> HIDE DEF recorded
    <2>4. AsFailed(recorded).status = "failed"
          /\ AsFailed(recorded).input_data = recorded.input_data
        BY <2>1 DEF AsFailed, StageContext
    <2> DEFINE final == AsFailed(recorded)
    <2> HIDE DEF final
    <2>5. /\ pc'[s] = "returned_false" /\ stages'[s] = final
          /\ \A r \in Stages \ {s} : pc'[r] = pc[r] /\ stages'[r] = stages[r]
        BY <2>3, StepToEffect DEF final
    <2>6. OthersKept(s)
        BY <1>4, <2>5 DEF SafeStop, OthersKept, runVars, gateVars, contextVars
    <2>7. Works(s)
        BY <1>2, <1>4, <2>2, <2>4, <2>5
        DEF SafeStop, Works, DecisionsKept, gateVars, contextVars, final
    <2> QED
        BY <2>6, <2>7
<1>5. CASE Retry(s, ctx, classification)
    BY <1>2, <1>3, <1>5, RetryEffect
<1>6. CASE GiveUp(s, WithRecord(ctx, classification, "fail_immediate"))
    BY <1>2, <1>3, <1>6, WithRecordType, WithRecordKeeps, GiveUpEffect
<1> QED
    BY <1>1, <1>4, <1>5, <1>6 DEF ctx, classification

LEMMA ExitGateFailsEffect ==
    ASSUME StateTypeOK, NEW s \in Stages, ExitGateFails(s)
    PROVE  OthersKept(s) /\ Works(s)
<1> DEFINE ctxOf(raised) ==
               IF raised THEN stages[s]
               ELSE [stages[s] EXCEPT !.exit_gate_results = @ \cup {FALSE}]
           classificationOf(raised) ==
               IF raised \/ GateRetryable(s) THEN "transient" ELSE "permanent"
<1>1. PICK raised \in BOOLEAN :
          \/ /\ GateRetryable(s)
             /\ AttemptsRemain(s)
             /\ Retry(s, ctxOf(raised), classificationOf(raised))
          \/ /\ ~(GateRetryable(s) /\ AttemptsRemain(s))
             /\ GiveUp(s, WithRecord(ctxOf(raised), classificationOf(raised), "fail_immediate"))
    BY DEF ExitGateFails
<1> DEFINE ctx == ctxOf(raised)
           classification == classificationOf(raised)
<1>2. /\ pc[s] \in {"execute", "exit_gate"}
      /\ ctx \in StageContext
      /\ ctx.status = stages[s].status /\ ctx.input_data = stages[s].input_data
    <2>1. stages[s] \in StageContext
        BY DEF StateTypeOK
    <2> QED
        BY <2>1 DEF StageContext, ExitGateFails
<1>3. classification \in {"transient", "permanent", "critical"}
    OBVIOUS
<1> HIDE DEF ctx, classification
<1>4. CASE Retry(s, ctx, classification)
    BY <1>2, <1>3, <1>4, RetryEffect
<1>5. CASE GiveUp(s, WithRecord(ctx, classification, "fail_immediate"))
    BY <1>2, <1>3, <1>5, WithRecordType, WithRecordKeeps, GiveUpEffect
<1> QED
    BY <1>1, <1>4, <1>5 DEF ctx, classification

LEMMA WorkEffect ==
    ASSUME StateTypeOK, NEW s \in Stages,
           ExecuteReturns(s) \/ ExitGatePasses(s)
           \/ RollbackReturns(s) \/ RollbackReturnsCopy(s) \/ RollbackRaises(s)
    PROVE  OthersKept(s) /\ Works(s)
<1> USE DEF OthersKept, Works, DecisionsKept, runVars, outcomeVars, gateVars, contextVars
<1>0. stages[s] \in StageContext
    BY DEF StateTypeOK
<1>1. CASE ExecuteReturns(s)
    <2>1. PICK left \in BOOLEAN : StepTo(s, "exit_gate", WithArtifacts(stages[s], left))
        BY <1>1 DEF ExecuteReturns
    <2> DEFINE ctx == WithArtifacts(stages[s], left)
    <2>2. ctx.status = stages[s].status /\ ctx.input_data = stages[s].input_data
        BY <1>0 DEF WithArtifacts, StageContext
    <2> HIDE DEF ctx
    <2>3. StepTo(s, "exit_gate", ctx)
        BY <2>1 DEF ctx
    <2> QED
        BY <1>1, <2>2, <2>3, StepToEffect DEF ExecuteReturns, OnlyStage
<1>2. CASE ExitGatePasses(s)
    <2> DEFINE ctx == [stages[s] EXCEPT !.status = "completed",
                                        !.exit_gate_results = @ \cup {TRUE}]
    <2>1. ctx.status = "completed" /\ ctx.input_data = stages[s].input_data
        BY <1>0 DEF StageContext
    <2> HIDE DEF ctx
    <2>2. StepTo(s, "returned_true", ctx)
          /\ RecordStageOutput(s, "produced", stages[s].artifacts)
        BY <1>2 DEF ExitGatePasses, ctx
    <2> QED
        BY <1>2, <2>1, <2>2, StepToEffect, RecordStageOutputEffect DEF ExitGatePasses
<1>3. CASE RollbackReturns(s)
    <2> DEFINE ctx == [stages[s] EXCEPT !.status = "rolled_back", !.has_error = TRUE,
                                        !.rollback_performed = TRUE]
    <2>1. ctx.status = "rolled_back" /\ ctx.input_data = stages[s].input_data
        BY <1>0 DEF StageContext
    <2> HIDE DEF ctx
    <2>2. StepTo(s, "returned_false", ctx)
        BY <1>3 DEF RollbackReturns, ctx
    <2> QED
        BY <1>3, <2>1, <2>2, StepToEffect DEF RollbackReturns
<1>4. CASE RollbackReturnsCopy(s) \/ RollbackRaises(s)
    <2> DEFINE ctx == [stages[s] EXCEPT !.has_error = TRUE]
    <2>1. ctx.status = stages[s].status /\ ctx.input_data = stages[s].input_data
        BY <1>0 DEF StageContext
    <2> HIDE DEF ctx
    <2>2. StepTo(s, "returned_false", ctx)
        BY <1>4 DEF RollbackReturnsCopy, RollbackRaises, ctx
    <2> QED
        BY <1>4, <2>1, <2>2, StepToEffect DEF RollbackReturnsCopy, RollbackRaises, OnlyStage
<1> QED
    BY <1>1, <1>2, <1>3, <1>4

LEMMA BeginEffect ==
    ASSUME StateTypeOK, NEW s \in Stages, Begin(s)
    PROVE  OthersKept(s) /\ Creates(s)
    BY StepToEffect
    DEF Begin, OnlyStage, OthersKept, Creates, runVars, outcomeVars, gateVars, contextVars

\* PassEntryGate and what the policy engine says, in the terms of PassesGate.
LEMMA PolicyEffect ==
    ASSUME StateTypeOK, NEW s \in Stages, NEW decision \in PolicyOutcomes[s] \ {"block"},
           PolicyDecides(s, decision)
    PROVE  /\ policy_evaluations'[s] = decision
           /\ \A r \in Stages \ {s} : policy_evaluations'[r] = policy_evaluations[r]
           /\ Cleared(s)'
<1>1. /\ policy_evaluations'[s] = decision
      /\ \A r \in Stages \ {s} : policy_evaluations'[r] = policy_evaluations[r]
    BY DEF StateTypeOK, PolicyDecides
<1> QED
    BY <1>1 DEF PolicyDecides, Cleared, HumanOnly

LEMMA GateEffect ==
    ASSUME StateTypeOK, NEW s \in Stages,
           EntryGateFails(s) \/ BlockCritical(s) \/ BlockByPolicy(s)
           \/ ApprovalTimesOut(s) \/ RequestApproval(s) \/ StartUnapproved(s)
           \/ Approve(s) \/ Reject(s) \/ GatewayRaises(s)
    PROVE  OthersKept(s) /\ PassesGate(s)
<1> DEFINE fails == AsFailed(stages[s])
           waits == [stages[s] EXCEPT !.status = "awaiting_approval"]
           starts == [stages[s] EXCEPT !.status = "in_progress"]
<1>1. stages[s] \in StageContext
    BY DEF StateTypeOK
<1>2. /\ fails.status = "failed"
      /\ fails.input_data = stages[s].input_data
      /\ fails.attempt_records = stages[s].attempt_records
    BY <1>1 DEF AsFailed, StageContext
<1>3. /\ waits.status = "awaiting_approval"
      /\ waits.input_data = stages[s].input_data
      /\ waits.attempt_records = stages[s].attempt_records
    BY <1>1 DEF StageContext
<1>4. /\ starts.status = "in_progress"
      /\ starts.input_data = stages[s].input_data
      /\ starts.attempt_records = stages[s].attempt_records
    BY <1>1 DEF StageContext
<1>5. approvals \in [Stages -> ApprovalStatus]
      /\ policy_evaluations \in [Stages -> PolicyDecision]
    BY DEF StateTypeOK
<1>6. CASE EntryGateFails(s)
    <2>1. StepTo(s, "returned_false", fails) /\ OnlyStage(s)
        BY <1>6 DEF EntryGateFails
    <2> HIDE DEF fails, waits, starts
    <2> QED
        BY <1>2, <1>6, <2>1, StepToEffect
        DEF EntryGateFails, OnlyStage, OthersKept, PassesGate, runVars, outcomeVars, gateVars, contextVars
<1>7. CASE BlockCritical(s)
    <2>1. StepTo(s, "returned_false", fails)
        BY <1>7 DEF BlockCritical
    <2> HIDE DEF fails, waits, starts
    <2> QED
        BY <1>2, <1>7, <2>1, StepToEffect
        DEF BlockCritical, PassEntryGate, OthersKept, PassesGate, runVars, outcomeVars, contextVars
<1>8. CASE BlockByPolicy(s)
    <2>1. StepTo(s, "returned_false", fails)
        BY <1>8 DEF BlockByPolicy
    <2> HIDE DEF fails, waits, starts
    <2> QED
        BY <1>2, <1>5, <1>8, <2>1, StepToEffect
        DEF BlockByPolicy, PolicyDecides, PassEntryGate, OthersKept, PassesGate,
            runVars, outcomeVars, contextVars
<1>9. CASE ApprovalTimesOut(s)
    <2>1. PICK decision \in PolicyOutcomes[s] \ {"block"} :
              /\ PolicyDecides(s, decision)
              /\ approvals' = [approvals EXCEPT ![s] = "timed_out"]
              /\ StepTo(s, "returned_false", fails)
        BY <1>9 DEF ApprovalTimesOut
    <2> HIDE DEF fails, waits, starts
    <2> QED
        BY <1>2, <1>5, <2>1, StepToEffect
        DEF PolicyDecides, PassEntryGate, OthersKept, PassesGate, runVars, outcomeVars, contextVars
<1>10. CASE RequestApproval(s)
    <2>1. PICK decision \in PolicyOutcomes[s] \ {"block"} :
              /\ PolicyDecides(s, decision)
              /\ StepTo(s, "approval", waits)
              /\ UNCHANGED approvals
        BY <1>10 DEF RequestApproval
    <2> HIDE DEF fails, waits, starts
    <2>2. /\ pc'[s] = "approval" /\ stages'[s] = waits
          /\ \A r \in Stages \ {s} : pc'[r] = pc[r] /\ stages'[r] = stages[r]
        BY <2>1, StepToEffect
    <2>3. OthersKept(s)
        BY <2>1, <2>2, PolicyEffect
        DEF PolicyDecides, PassEntryGate, OthersKept, runVars, outcomeVars, contextVars
    <2>4. Cleared(s)'
        BY <2>1, PolicyEffect
    <2>5. pc[s] = "entry_gate" /\ stage_outputs'[s] = stage_outputs[s]
        BY <2>1 DEF PolicyDecides, PassEntryGate, contextVars
    <2> QED
        BY <1>3, <2>2, <2>3, <2>4, <2>5 DEF PassesGate
<1>11. CASE StartUnapproved(s)
    <2>1. PICK decision \in PolicyOutcomes[s] \ {"block"} :
              /\ PolicyDecides(s, decision)
              /\ ~NeedsApproval(s, decision)
              /\ StepTo(s, "execute", starts)
              /\ UNCHANGED approvals
        BY <1>11 DEF StartUnapproved
    <2> HIDE DEF fails, waits, starts
    <2>2. /\ pc'[s] = "execute" /\ stages'[s] = starts
          /\ \A r \in Stages \ {s} : pc'[r] = pc[r] /\ stages'[r] = stages[r]
        BY <2>1, StepToEffect
    <2>3. OthersKept(s)
        BY <2>1, <2>2, PolicyEffect
        DEF PolicyDecides, PassEntryGate, OthersKept, runVars, outcomeVars, contextVars
    <2>4. Cleared(s)' /\ policy_evaluations'[s] = decision
        BY <2>1, PolicyEffect
    <2>5. pc[s] = "entry_gate" /\ stage_outputs'[s] = stage_outputs[s]
        BY <2>1 DEF PolicyDecides, PassEntryGate, contextVars
    <2> QED
        BY <1>4, <2>1, <2>2, <2>3, <2>4, <2>5 DEF PassesGate
<1>12. CASE Approve(s)
    <2>1. StepTo(s, "execute", starts)
        BY <1>12 DEF Approve
    <2> HIDE DEF fails, waits, starts
    <2>2. /\ pc'[s] = "execute" /\ stages'[s] = starts
          /\ \A r \in Stages \ {s} : pc'[r] = pc[r] /\ stages'[r] = stages[r]
        BY <2>1, StepToEffect
    <2>3. OthersKept(s)
        BY <1>5, <1>12, <2>2 DEF Approve, OthersKept, runVars, outcomeVars, contextVars
    <2>4. PassesGate(s)
        BY <1>4, <1>5, <1>12, <2>2 DEF Approve, PassesGate, contextVars
    <2> QED
        BY <2>3, <2>4
<1>13. CASE Reject(s)
    <2>1. StepTo(s, "returned_false", fails)
        BY <1>13 DEF Reject
    <2> HIDE DEF fails, waits, starts
    <2> QED
        BY <1>2, <1>5, <1>13, <2>1, StepToEffect
        DEF Reject, OthersKept, PassesGate, runVars, outcomeVars, contextVars
<1>14. CASE GatewayRaises(s)
    BY <1>14, StepToEffect
    DEF GatewayRaises, OnlyStage, OthersKept, PassesGate, runVars, outcomeVars, gateVars, contextVars
<1> QED
    BY <1>6, <1>7, <1>8, <1>9, <1>10, <1>11, <1>12, <1>13, <1>14

LEMMA StageStepEffect ==
    ASSUME StateTypeOK, NEW s \in Stages, StageStep(s)
    PROVE  OthersKept(s) /\ (Creates(s) \/ PassesGate(s) \/ Works(s))
    BY BeginEffect, GateEffect, WorkEffect, ExecuteRaisesEffect, ExitGateFailsEffect
    DEF StageStep, LeaveEntryGate

-----------------------------------------------------------------------------
(* The steps of a coroutine keep the invariant.                            *)

\* A coroutine moves only while run() waits for its round.
LEMMA MovesInRound ==
    ASSUME RunInvariant, NEW s \in Stages, Creates(s) \/ PassesGate(s) \/ Works(s)
    PROVE  s \in batch \ (completed \cup failed) /\ phase = "gather" /\ pc'[s] # "idle"
<1>1. pc[s] \notin {"idle", "returned_true", "returned_false", "raised"}
    BY DEF Creates, PassesGate, Works
<1>2. s \notin completed \cup failed
    BY <1>1 DEF RunInvariant, Bookkeeping
<1>3. s \in batch
    BY <1>1, <1>2 DEF RunInvariant, Bookkeeping
<1>4. phase = "gather"
    BY <1>3 DEF RunInvariant, Bookkeeping
<1>5. pc'[s] # "idle"
    BY DEF Creates, PassesGate, Works
<1> QED
    BY <1>2, <1>3, <1>4, <1>5

LEMMA BookkeepingStage ==
    ASSUME RunInvariant, NEW s \in Stages, OthersKept(s),
           Creates(s) \/ PassesGate(s) \/ Works(s)
    PROVE  Bookkeeping'
<1>1. s \in batch \ (completed \cup failed) /\ phase = "gather" /\ pc'[s] # "idle"
    BY MovesInRound
<1>2. UNCHANGED <<phase, batch, completed, failed>>
    BY DEF OthersKept, runVars
<1>3. completed \subseteq Stages /\ failed \subseteq Stages
    BY DEF RunInvariant, TypeOK, StateTypeOK
<1> QED
    BY <1>1, <1>2, <1>3 DEF RunInvariant, Bookkeeping, OthersKept

LEMMA LoopOutcomeStage ==
    ASSUME RunInvariant, NEW s \in Stages, OthersKept(s),
           Creates(s) \/ PassesGate(s) \/ Works(s)
    PROVE  LoopOutcome' /\ StatusFollowsPhase'
<1>1. s \in batch \ (completed \cup failed) /\ phase = "gather"
    BY MovesInRound
<1>2. UNCHANGED <<phase, batch, completed, failed>>
    BY DEF OthersKept, runVars
<1>3. pc[s] # "returned_false" /\ batch \subseteq Stages
    BY DEF RunInvariant, TypeOK, StateTypeOK, Creates, PassesGate, Works
<1>4. safe_stopped' => failed' # {} \/ \E r \in batch' : pc'[r] = "returned_false"
    <2>1. CASE UNCHANGED <<safe_stopped, status>>
        BY <1>2, <1>3, <2>1 DEF RunInvariant, LoopOutcome, OthersKept
    <2>2. CASE pc'[s] = "returned_false"
        BY <1>1, <1>2, <2>2
    <2> QED
        BY <2>1, <2>2 DEF OthersKept
<1>5. StatusFollowsPhase'
    BY <1>1, <1>2 DEF RunInvariant, StatusFollowsPhase, OthersKept
<1> QED
    BY <1>1, <1>2, <1>4, <1>5 DEF LoopOutcome

\* A status that fits the await, whatever the phase makes of a stage that has
\* not begun.
StatusFits(s) ==
    stages[s].status \in IF pc[s] \in {"idle", "created"} THEN {"absent", "blocked"}
                        ELSE StatusAt(pc[s])

LEMMA StatusStep ==
    ASSUME NEW s \in Stages, StatusFits(s), OthersKept(s),
           Creates(s) \/ PassesGate(s) \/ Works(s)
    PROVE  (stages[s].status \in StatusAt(pc[s]))' /\ pc'[s] \notin {"idle", "created"}
<1>1. CASE Creates(s)
    <2>1. NewContext(s).status = "awaiting_gate"
        BY DEF NewContext, NoContext
    <2> QED
        BY <1>1, <2>1 DEF Creates, StatusAt
<1>2. CASE PassesGate(s)
    BY <1>2 DEF PassesGate, StatusFits, StatusAt
<1>3. CASE Works(s)
    BY <1>3 DEF Works, StatusFits, StatusAt
<1> QED
    BY <1>1, <1>2, <1>3

LEMMA StatusFollowsFits ==
    ASSUME StatusFollowsCoroutine, NEW s \in Stages
    PROVE  StatusFits(s)
    BY DEF StatusFollowsCoroutine, StatusFits, StatusAt

LEMMA StatusFollowsCoroutineStage ==
    ASSUME RunInvariant, NEW s \in Stages, OthersKept(s),
           Creates(s) \/ PassesGate(s) \/ Works(s)
    PROVE  StatusFollowsCoroutine'
<1>1. phase' = phase
    BY DEF OthersKept, runVars
<1>2. \A r \in Stages \ {s} : (stages[r].status \in StatusAt(pc[r]))'
    BY <1>1 DEF RunInvariant, StatusFollowsCoroutine, StatusAt, OthersKept
<1>3. (stages[s].status \in StatusAt(pc[s]))'
    BY StatusStep, StatusFollowsFits DEF RunInvariant
<1> QED
    BY <1>2, <1>3 DEF StatusFollowsCoroutine

LEMMA DataFlowStage ==
    ASSUME RunInvariant, NEW s \in Stages, OthersKept(s),
           Creates(s) \/ PassesGate(s) \/ Works(s)
    PROVE  DataFlow'
<1>1. s \notin completed /\ pc[s] # "idle" /\ completed' = completed
    BY MovesInRound DEF OthersKept, runVars, Creates, PassesGate, Works
<1>2. \A r \in Stages : pc'[r] # "idle" => Predecessors(r) \subseteq completed'
    BY <1>1 DEF RunInvariant, DataFlow, OthersKept
<1>3. \A r \in Stages : pc'[r] = "returned_true" => stage_outputs'[r] # "absent"
    <2>1. pc'[s] = "returned_true" => stage_outputs'[s] # "absent"
        BY DEF Creates, PassesGate, Works
    <2> QED
        BY <2>1 DEF RunInvariant, DataFlow, OthersKept
\* The predecessors of a stage that has begun are complete, so s is not one.
<1>4. \A r \in Stages : pc'[r] # "idle" =>
          \A p \in Predecessors(r) :
              stage_outputs'[p] = stage_outputs[p] /\ stage_outputs[p] # "absent"
    <2> SUFFICES ASSUME NEW r \in Stages, pc'[r] # "idle", NEW p \in Predecessors(r)
                 PROVE  stage_outputs'[p] = stage_outputs[p] /\ stage_outputs[p] # "absent"
        OBVIOUS
    <2>1. p \in completed /\ p \in Stages
        BY <1>1, <1>2 DEF Predecessors
    <2>2. pc[p] = "returned_true"
        BY <2>1 DEF RunInvariant, Bookkeeping
    <2> QED
        BY <1>1, <2>1, <2>2 DEF RunInvariant, DataFlow, OthersKept
<1>5. ASSUME NEW r \in Stages, Begun(r)', NEW p \in Stages
      PROVE  IF p \in Predecessors(r)
             THEN /\ stage_outputs'[p] # "absent"
                  /\ stages'[r].input_data[p] = stage_outputs'[p]
             ELSE stages'[r].input_data[p] = "absent"
    <2>1. pc'[r] # "idle"
        BY <1>5 DEF Begun
    <2>2. IF p \in Predecessors(r) THEN stages'[r].input_data[p] = stage_outputs[p]
          ELSE stages'[r].input_data[p] = "absent"
        <3>1. CASE r = s /\ Creates(s)
            <4>1. stages'[r].input_data = Snapshot(s)
                BY <3>1 DEF Creates, NewContext, NoContext
            <4> QED
                BY <3>1, <4>1 DEF Snapshot
        <3>2. CASE ~(r = s /\ Creates(s))
            <4>1. Begun(r)
                BY <1>5, <3>2 DEF Begun, OthersKept, PassesGate, Works
            <4>2. stages'[r].input_data = stages[r].input_data
                BY <3>2 DEF OthersKept, PassesGate, Works
            <4> QED
                BY <4>1, <4>2 DEF RunInvariant, DataFlow, InputsComplete
        <3> QED
            BY <3>1, <3>2
    <2> QED
        BY <1>4, <2>1, <2>2
<1>6. InputsComplete'
    BY <1>5 DEF InputsComplete, Predecessors
<1> QED
    BY <1>2, <1>3, <1>6 DEF DataFlow, Predecessors

LEMMA GuardedOther ==
    ASSUME NEW s \in Stages, OthersKept(s), NEW r \in Stages \ {s}, Guarded(r)
    PROVE  Guarded(r)'
    BY DEF Guarded, OthersKept, Cleared, Executed, HumanOnly, NeedsApproval

LEMMA GuardedStep ==
    ASSUME NEW s \in Stages, Guarded(s), Creates(s) \/ PassesGate(s) \/ Works(s)
    PROVE  Guarded(s)'
<1>1. CASE Creates(s)
    <2>1. NewContext(s).attempt_records = <<>>
        BY DEF NewContext, NoContext
    <2> QED
        BY <1>1, <2>1 DEF Guarded, Creates, Executed
<1>2. CASE PassesGate(s)
    <2>1. stages'[s].attempt_records = <<>>
        BY <1>2 DEF Guarded, PassesGate
    <2> QED
        BY <1>2, <2>1 DEF Guarded, PassesGate, Executed, Cleared, HumanOnly, NeedsApproval
<1>3. CASE Works(s)
    <2>1. Executed(s)
        BY <1>3 DEF Works, Executed
    <2>2. /\ Cleared(s)'
          /\ NeedsApproval(s, policy_evaluations'[s]) => approvals'[s] = "approved"
        BY <1>3, <2>1 DEF Guarded, Works, DecisionsKept, Cleared, HumanOnly
    <2>3. pc'[s] \notin {"idle", "created", "entry_gate", "approval"}
        BY <1>3 DEF Works
    <2> QED
        BY <2>2, <2>3 DEF Guarded, NeedsApproval, HumanOnly
<1> QED
    BY <1>1, <1>2, <1>3

LEMMA GuardsStage ==
    ASSUME RunInvariant, NEW s \in Stages, OthersKept(s),
           Creates(s) \/ PassesGate(s) \/ Works(s)
    PROVE  Guards'
    BY GuardedOther, GuardedStep DEF RunInvariant, Guards

LEMMA InvariantStage ==
    ASSUME RunInvariant, NEW s \in Stages, StageStep(s)
    PROVE  RunInvariant'
<1>1. TypeOK'
    BY StageStepType, StageStepPhase DEF RunInvariant, TypeOK, runVars
<1>2. OthersKept(s) /\ (Creates(s) \/ PassesGate(s) \/ Works(s))
    BY StageStepEffect DEF RunInvariant, TypeOK
<1> QED
    BY <1>1, <1>2, BookkeepingStage, LoopOutcomeStage, StatusFollowsCoroutineStage,
       DataFlowStage, GuardsStage DEF RunInvariant

-----------------------------------------------------------------------------
(* The steps of run() keep the invariant.                                  *)

\* A graph without a cycle always has a ready stage until all are completed.
LEMMA ReadyUntilDone ==
    ASSUME NEW done \in SUBSET Stages, ReadyStages(done) = {}
    PROVE  done = Stages
<1> SUFFICES ASSUME Stages \ done # {}
             PROVE  FALSE
    OBVIOUS
<1>1. PICK s \in Stages \ done : \A p \in Stages \ done : <<p, s>> \notin Dependencies
    BY GraphAssumption DEF ValidGraph, IsAcyclic
<1>2. Predecessors(s) \subseteq done
    BY <1>1 DEF Predecessors
<1> QED
    BY <1>1, <1>2 DEF ReadyStages

LEMMA ScheduleKeeps ==
    ASSUME RunInvariant, Schedule
    PROVE  Bookkeeping' /\ LoopOutcome' /\ StatusFollowsPhase' /\ StatusFollowsCoroutine'
           /\ DataFlow' /\ Guards'
<1>1. /\ phase = "loop" /\ phase' = "gather"
      /\ batch = {} /\ failed = {} /\ ~safe_stopped
      /\ UNCHANGED <<completed, failed, outcomeVars, stages, gateVars, contextVars>>
    BY DEF Schedule, RunInvariant, Bookkeeping
<1>2. batch' \subseteq Stages \ completed
      /\ \A s \in batch' : Predecessors(s) \subseteq completed
    BY DEF Schedule, Round, ReadyStages
<1>3. \A s \in Stages : pc'[s] = IF s \in batch' THEN "created" ELSE pc[s]
    BY DEF Schedule
<1>4. \A s \in batch' : pc[s] = "idle"
    BY <1>1, <1>2 DEF RunInvariant, Bookkeeping
<1>5. completed \subseteq Stages
    BY DEF RunInvariant, TypeOK, StateTypeOK
<1>6. Bookkeeping'
    BY <1>1, <1>2, <1>3, <1>5 DEF RunInvariant, Bookkeeping
<1>7. LoopOutcome' /\ StatusFollowsPhase'
    BY <1>1 DEF RunInvariant, LoopOutcome, StatusFollowsPhase, outcomeVars
<1>8. StatusFollowsCoroutine'
    <2> SUFFICES ASSUME NEW s \in Stages
                 PROVE  (stages[s].status \in StatusAt(pc[s]))'
        BY DEF StatusFollowsCoroutine
    <2>1. stages[s].status \in StatusAt(pc[s])
        BY DEF RunInvariant, StatusFollowsCoroutine
    <2> QED
        BY <1>1, <1>3, <1>4, <2>1 DEF StatusAt
<1>9. DataFlow'
    <2>1. \A s \in Stages : Begun(s)' => Begun(s)
        BY <1>3 DEF Begun
    <2>2. InputsComplete'
        BY <1>1, <2>1 DEF RunInvariant, DataFlow, InputsComplete, contextVars, Begun
    <2> QED
        BY <1>1, <1>2, <1>3, <2>2 DEF RunInvariant, DataFlow, contextVars
<1>10. Guards'
    <2> SUFFICES ASSUME NEW s \in Stages
                 PROVE  (/\ pc[s] \in {"idle", "created", "entry_gate", "approval"}
                                => stages[s].attempt_records = <<>>
                         /\ pc[s] = "approval" => Cleared(s)
                         /\ Executed(s) =>
                                /\ Cleared(s)
                                /\ NeedsApproval(s, policy_evaluations[s])
                                   => approvals[s] = "approved")'
        BY DEF Guards, Guarded
    <2>1. Executed(s)' => Executed(s)
        BY <1>1, <1>3, <1>4 DEF Executed
    <2>2. Cleared(s) => Cleared(s)'
        BY <1>1 DEF Cleared, HumanOnly, gateVars
    <2>3. UNCHANGED <<approvals, policy_evaluations>>
        BY <1>1 DEF gateVars
    <2>4. NeedsApproval(s, policy_evaluations'[s]) => NeedsApproval(s, policy_evaluations[s])
        BY <2>3
    <2> QED
        BY <1>1, <1>3, <1>4, <2>1, <2>2, <2>3, <2>4
        DEF RunInvariant, Guards, Guarded, NeedsApproval, HumanOnly
<1> QED
    BY <1>6, <1>7, <1>8, <1>9, <1>10

\* Steps of run() that leave the coroutines and their contexts alone.
LEMMA ContextsKept ==
    ASSUME RunInvariant, UNCHANGED stageVars, completed \subseteq completed',
           phase # "returned", phase' # "returned" \/ completed = Stages
    PROVE  StatusFollowsCoroutine' /\ DataFlow' /\ Guards'
<1>1. UNCHANGED <<pc, stages, approvals, policy_evaluations, stage_outputs>>
    BY DEF stageVars, gateVars, contextVars
<1>2. StatusFollowsCoroutine'
    <2> SUFFICES ASSUME NEW s \in Stages
                 PROVE  (stages[s].status \in StatusAt(pc[s]))'
        BY DEF StatusFollowsCoroutine
    <2>1. stages[s].status \in StatusAt(pc[s])
        BY DEF RunInvariant, StatusFollowsCoroutine
    <2>2. CASE phase' # "returned"
        BY <1>1, <2>1, <2>2 DEF StatusAt
    <2>3. CASE completed = Stages
        <3>1. pc[s] = "returned_true"
            BY <2>3 DEF RunInvariant, Bookkeeping
        <3> QED
            BY <1>1, <2>1, <3>1 DEF StatusAt
    <2> QED
        BY <2>2, <2>3
<1>3. DataFlow'
    BY <1>1 DEF RunInvariant, DataFlow, InputsComplete, Begun
<1>4. Guards'
    BY <1>1 DEF RunInvariant, Guards, Guarded, Executed, Cleared, HumanOnly, NeedsApproval
<1> QED
    BY <1>2, <1>3, <1>4

\* _finalise replaces the contexts of exactly the stages that never started.
LEMMA UnexecutedIdle ==
    ASSUME RunInvariant, phase \in {"post_loop", "final_qc"}, NEW s \in Stages
    PROVE  s \in Unexecuted <=> pc[s] = "idle"
<1>1. batch = {} /\ (failed = {} => completed = Stages)
    BY DEF RunInvariant, Bookkeeping, LoopOutcome
<1>2. pc[s] = "idle" <=> s \notin completed \cup failed
    BY <1>1 DEF RunInvariant, Bookkeeping
<1>3. pc[s] \notin {"idle"} => pc[s] \in Returned
    BY <1>2 DEF RunInvariant, Bookkeeping, Returned
<1>4. stages[s].status = "absent" <=> pc[s] = "idle"
    <2>1. stages[s].status \in StatusAt(pc[s])
        BY DEF RunInvariant, StatusFollowsCoroutine
    <2> QED
        BY <1>3, <2>1 DEF StatusAt, Returned
<1> QED
    BY <1>1, <1>2, <1>4 DEF Unexecuted

LEMMA FinaliseKeeps ==
    ASSUME RunInvariant, phase \in {"post_loop", "final_qc"}, Finalise,
           UNCHANGED <<pc, completed, gateVars, contextVars>>
    PROVE  StatusFollowsCoroutine' /\ DataFlow' /\ Guards'
<1>1. \A s \in Stages : s \in Unexecuted <=> pc[s] = "idle"
    BY UnexecutedIdle
<1>2. \A s \in Stages : stages'[s] = IF pc[s] = "idle"
                                     THEN [NoContext EXCEPT !.status = "blocked"] ELSE stages[s]
    BY <1>1 DEF Finalise
<1>3. phase' = "returned" /\ phase # "returned"
    BY DEF Finalise
<1>4. [NoContext EXCEPT !.status = "blocked"].status = "blocked"
      /\ [NoContext EXCEPT !.status = "blocked"].attempt_records = <<>>
    BY DEF NoContext
<1>5. StatusFollowsCoroutine'
    <2> SUFFICES ASSUME NEW s \in Stages
                 PROVE  (stages[s].status \in StatusAt(pc[s]))'
        BY DEF StatusFollowsCoroutine
    <2>1. CASE pc[s] = "idle"
        BY <1>2, <1>3, <1>4, <2>1 DEF StatusAt
    <2>2. CASE pc[s] # "idle"
        <3>1. pc[s] # "created"
            BY <2>2 DEF RunInvariant, Bookkeeping
        <3>2. stages[s].status \in StatusAt(pc[s])
            BY DEF RunInvariant, StatusFollowsCoroutine
        <3> QED
            BY <1>2, <2>2, <3>1, <3>2 DEF StatusAt
    <2> QED
        BY <2>1, <2>2
<1>6. DataFlow'
    BY <1>2 DEF RunInvariant, DataFlow, InputsComplete, Begun, contextVars
<1>7. Guards'
    BY <1>2, <1>4 DEF RunInvariant, Guards, Guarded, Executed, Cleared, HumanOnly, NeedsApproval, gateVars
<1> QED
    BY <1>5, <1>6, <1>7

LEMMA CollectKeeps ==
    ASSUME RunInvariant, Collect
    PROVE  Bookkeeping' /\ LoopOutcome' /\ StatusFollowsPhase'
<1>1. /\ phase = "gather" /\ batch' = {}
      /\ phase' = IF failed' # {} \/ safe_stopped THEN "post_loop" ELSE "loop"
      /\ UNCHANGED <<outcomeVars, pc>>
    BY DEF Collect, LoopEnds, stageVars
<1>2. /\ completed' = completed \cup {s \in batch : pc[s] = "returned_true"}
      /\ failed' = failed \cup {s \in batch : pc[s] # "returned_true"}
      /\ \A s \in batch : pc[s] \in {"returned_true", "returned_false", "raised"}
    BY DEF Collect, Returned
<1>3. batch \subseteq Stages
    BY DEF RunInvariant, TypeOK, StateTypeOK
<1>4. safe_stopped => failed' # {}
    BY <1>2 DEF RunInvariant, LoopOutcome
<1>5. Bookkeeping'
    BY <1>1, <1>2, <1>3 DEF RunInvariant, Bookkeeping, outcomeVars
<1>6. LoopOutcome'
    BY <1>1, <1>4 DEF LoopOutcome, outcomeVars
<1>7. StatusFollowsPhase'
    BY <1>1 DEF RunInvariant, StatusFollowsPhase, outcomeVars
<1> QED
    BY <1>5, <1>6, <1>7

LEMMA InvariantEngine ==
    ASSUME RunInvariant, EngineStep
    PROVE  RunInvariant'
<1>1. TypeOK'
    BY EngineStepType DEF RunInvariant
<1>2. CASE Schedule
    BY <1>1, <1>2, ScheduleKeeps DEF RunInvariant
<1>3. CASE NothingReady
    <2>1. completed = Stages
        BY <1>3, ReadyUntilDone DEF NothingReady, Round, RunInvariant, TypeOK, StateTypeOK
    <2>2. Bookkeeping' /\ LoopOutcome' /\ StatusFollowsPhase'
        BY <1>3, <2>1
        DEF NothingReady, RunInvariant, Bookkeeping, LoopOutcome, StatusFollowsPhase,
            outcomeVars, stageVars
    <2> QED
        BY <1>1, <1>3, <2>2, ContextsKept DEF NothingReady, RunInvariant
<1>4. CASE Collect
    BY <1>1, <1>4, CollectKeeps, ContextsKept DEF Collect, RunInvariant
<1>5. CASE Finish
    <2>1. StatusFollowsCoroutine' /\ DataFlow' /\ Guards'
        BY <1>5, FinaliseKeeps DEF Finish
    <2>2. Bookkeeping' /\ LoopOutcome' /\ StatusFollowsPhase'
        BY <1>5
        DEF Finish, Finalise, FinalStatus, QcNeeded, RunInvariant, Bookkeeping, LoopOutcome,
            StatusFollowsPhase
    <2> QED
        BY <1>1, <2>1, <2>2 DEF RunInvariant
<1>6. CASE RequestFinalQc
    <2>1. Bookkeeping' /\ LoopOutcome' /\ StatusFollowsPhase'
        BY <1>6
        DEF RequestFinalQc, QcNeeded, RunInvariant, Bookkeeping, LoopOutcome,
            StatusFollowsPhase, stageVars
    <2> QED
        BY <1>1, <1>6, <2>1, ContextsKept DEF RequestFinalQc, RunInvariant
<1>7. CASE FinalQcTimesOut \/ FinalQcRejects
    <2>1. /\ phase \in {"post_loop", "final_qc"} /\ QcNeeded /\ completed = Stages
          /\ phase' = "returned" /\ status' = "failed"
          /\ final_qc' \in {"timed_out", "rejected"}
          /\ UNCHANGED <<batch, completed, failed, safe_stopped, stageVars>>
        BY <1>7
        DEF FinalQcTimesOut, FinalQcRejects, FailFinalQc, RunInvariant, LoopOutcome, QcNeeded
    <2>2. Bookkeeping' /\ LoopOutcome' /\ StatusFollowsPhase'
        BY <2>1
        DEF QcNeeded, RunInvariant, Bookkeeping, LoopOutcome, StatusFollowsPhase, stageVars
    <2> QED
        BY <1>1, <2>1, <2>2, ContextsKept DEF RunInvariant
<1>8. CASE FinalQcApproves
    <2>1. StatusFollowsCoroutine' /\ DataFlow' /\ Guards'
        BY <1>8, FinaliseKeeps DEF FinalQcApproves
    <2>2. Bookkeeping' /\ LoopOutcome' /\ StatusFollowsPhase'
        BY <1>8
        DEF FinalQcApproves, Finalise, FinalStatus, QcNeeded, RunInvariant, Bookkeeping,
            LoopOutcome, StatusFollowsPhase
    <2> QED
        BY <1>1, <2>1, <2>2 DEF RunInvariant
<1>9. CASE FinalQcRaises
    <2>1. Bookkeeping' /\ LoopOutcome' /\ StatusFollowsPhase'
        BY <1>9
        DEF FinalQcRaises, QcNeeded, RunInvariant, Bookkeeping, LoopOutcome,
            StatusFollowsPhase, outcomeVars, stageVars
    <2> QED
        BY <1>1, <1>9, <2>1, ContextsKept DEF FinalQcRaises, RunInvariant
<1> QED
    BY <1>2, <1>3, <1>4, <1>5, <1>6, <1>7, <1>8, <1>9 DEF EngineStep

-----------------------------------------------------------------------------
(* The invariant holds in every run, and what follows from it.             *)

LEMMA InvariantInit == Init => RunInvariant
<1> SUFFICES ASSUME Init
             PROVE  RunInvariant
    OBVIOUS
<1>1. TypeOK
    BY TypeInit
<1>2. NoContext.status = "absent" /\ NoContext.attempt_records = <<>>
    BY DEF NoContext
<1>3. Bookkeeping /\ LoopOutcome /\ StatusFollowsPhase
    BY DEF Init, Bookkeeping, LoopOutcome, StatusFollowsPhase
<1>4. StatusFollowsCoroutine
    BY <1>2 DEF Init, StatusFollowsCoroutine, StatusAt
<1>5. DataFlow
    BY DEF Init, DataFlow, InputsComplete, Begun
<1>6. Guards
    BY <1>2 DEF Init, Guards, Guarded, Executed
<1> QED
    BY <1>1, <1>3, <1>4, <1>5, <1>6 DEF RunInvariant

LEMMA InvariantNext == RunInvariant /\ [Next]_vars => RunInvariant'
<1> SUFFICES ASSUME RunInvariant, [Next]_vars
             PROVE  RunInvariant'
    OBVIOUS
<1>1. CASE EngineStep
    BY <1>1, InvariantEngine
<1>2. ASSUME NEW s \in Stages, StageStep(s)
      PROVE  RunInvariant'
    BY <1>2, InvariantStage
<1>3. CASE UNCHANGED vars
    <2>1. TypeOK'
        BY <1>3, TypeNext DEF RunInvariant
    <2> QED
        BY <1>3, <2>1
        DEF RunInvariant, Bookkeeping, LoopOutcome, StatusFollowsPhase, StatusFollowsCoroutine,
            StatusAt, DataFlow, InputsComplete, Begun, Guards, Guarded, Executed, Cleared, HumanOnly,
            NeedsApproval, QcNeeded, vars, runVars, outcomeVars, gateVars, contextVars
<1> QED
    BY <1>1, <1>2, <1>3 DEF Next, Terminated

\* The inductive invariant: where run() believes every coroutine to be, what
\* status its context has there, what it has read, and what allowed it to run.
THEOREM InvariantCorrect == Spec => []RunInvariant
    BY InvariantInit, InvariantNext, PTL DEF Spec

\* No workflow definition, policy or gateway lets a HUMAN_ONLY or blocked
\* stage, or one that still needs approval, reach execute().
THEOREM ExecutionGuardedAlways == Spec => []ExecutionGuarded
<1>1. RunInvariant => ExecutionGuarded
    BY ApprovalAssumption
    DEF RunInvariant, Guards, Guarded, ExecutionGuarded, Cleared, HumanOnly, NeedsApproval, Impact
<1> QED
    BY <1>1, InvariantCorrect, PTL

\* Whatever the graph and the fallbacks, a stage runs on the final outputs of
\* all of its predecessors and of nobody else.
THEOREM InputsCompleteAlways == Spec => []InputsComplete
<1>1. RunInvariant => InputsComplete
    BY DEF RunInvariant, DataFlow
<1> QED
    BY <1>1, InvariantCorrect, PTL

\* In a graph accepted by validate_graph the scheduling loop never runs dry:
\* without a failure it ends with every stage completed.
THEOREM NoDeadEndAlways == Spec => []NoDeadEnd
<1>1. RunInvariant => NoDeadEnd
    BY DEF RunInvariant, LoopOutcome, NoDeadEnd
<1> QED
    BY <1>1, InvariantCorrect, PTL

\* Every stage of the definition has a context when run() returns, BLOCKED
\* exactly if its coroutine never started.
THEOREM EveryStageAccountedAlways == Spec => []EveryStageAccounted
<1>1. ASSUME RunInvariant, phase = "returned", NEW s \in Stages
      PROVE  stages[s].status # "absent" /\ (stages[s].status = "blocked" <=> pc[s] = "idle")
    <2>1. stages[s].status \in StatusAt(pc[s])
        BY <1>1 DEF RunInvariant, StatusFollowsCoroutine
    <2>2. pc[s] # "created"
        BY <1>1 DEF RunInvariant, Bookkeeping
    <2> QED
        BY <1>1, <2>1, <2>2 DEF StatusAt
<1>2. RunInvariant => EveryStageAccounted
    BY <1>1 DEF EveryStageAccounted
<1> QED
    BY <1>2, InvariantCorrect, PTL

\* The status run() returns is the one its stages and the final checkpoint
\* justify: STOPPED exactly after a safe-stop, COMPLETED exactly if all stages
\* completed or were skipped and the required approval was given.
THEOREM OutcomeJustifiedAlways == Spec => []OutcomeJustified
<1>1. ASSUME RunInvariant, phase = "returned"
      PROVE  /\ status = "stopped" <=> safe_stopped
             /\ status = "completed" <=>
                    /\ \A s \in Stages : stages[s].status \in {"completed", "skipped"}
                    /\ FinalApprovalRequired => final_qc = "approved"
             /\ status \in {"stopped", "completed", "failed"}
    <2>1. \A s \in Stages : stages[s].status \in StatusAt(pc[s])
        BY <1>1 DEF RunInvariant, StatusFollowsCoroutine
    <2>2. completed = Stages
              => \A s \in Stages : stages[s].status \in {"completed", "skipped"}
        BY <1>1, <2>1 DEF RunInvariant, Bookkeeping, StatusAt
    <2>3. failed # {} => \E s \in Stages : stages[s].status \notin {"completed", "skipped"}
        <3> SUFFICES ASSUME NEW s \in failed
                     PROVE  s \in Stages /\ stages[s].status \notin {"completed", "skipped"}
            OBVIOUS
        <3>1. s \in Stages /\ pc[s] \in {"returned_false", "raised"}
            BY <1>1 DEF RunInvariant, TypeOK, StateTypeOK, Bookkeeping
        <3> QED
            BY <2>1, <3>1 DEF StatusAt
    <2>4. safe_stopped => failed # {}
        BY <1>1 DEF RunInvariant, LoopOutcome, Bookkeeping
    <2> QED
        BY <1>1, <2>2, <2>3, <2>4 DEF RunInvariant, StatusFollowsPhase
<1>2. RunInvariant => OutcomeJustified
    BY <1>1 DEF OutcomeJustified
<1> QED
    BY <1>2, InvariantCorrect, PTL

\* A safe-stop is never undone, the workflow stays STOPPED, and no further
\* stage is scheduled.
THEOREM SafeStopFinalAlways == Spec => SafeStopFinal
<1>1. RunInvariant /\ [Next]_vars
          => [safe_stopped => /\ safe_stopped'
                              /\ status' = "stopped"
                              /\ batch' \subseteq batch]_vars
    <2> SUFFICES ASSUME RunInvariant, [Next]_vars, safe_stopped
                 PROVE  safe_stopped' /\ status' = "stopped" /\ batch' \subseteq batch
        OBVIOUS
    <2>1. status = "stopped" /\ phase # "loop" /\ ~QcNeeded /\ phase # "final_qc"
        BY DEF RunInvariant, StatusFollowsPhase, Bookkeeping, LoopOutcome, QcNeeded
    <2>2. CASE EngineStep
        <3>1. Collect \/ Finish \/ FinalQcRaises
            BY <2>1, <2>2
            DEF EngineStep, Schedule, NothingReady, RequestFinalQc, FinalQcTimesOut,
                FinalQcRejects, FinalQcApproves
        <3> QED
            BY <2>1, <3>1
            DEF Collect, Finish, Finalise, FinalStatus, FinalQcRaises, outcomeVars
    <2>3. ASSUME NEW s \in Stages, StageStep(s)
          PROVE  safe_stopped' /\ status' = "stopped" /\ batch' \subseteq batch
        BY <2>1, <2>3, StageStepEffect DEF RunInvariant, TypeOK, OthersKept, runVars
    <2>4. CASE UNCHANGED vars
        BY <2>1, <2>4 DEF vars, runVars, outcomeVars
    <2> QED
        BY <2>2, <2>3, <2>4 DEF Next, Terminated
<1> QED
    BY <1>1, InvariantCorrect, PTL DEF Spec, SafeStopFinal

\* A step of s neither starts a rollback nor takes a fallback.
NoRecovery(s) ==
    pc'[s] # "rollback" /\ (stages'[s].fallback_used => stages[s].fallback_used)

LEMMA RecordKeepsFallback ==
    ASSUME NEW ctx \in StageContext, NEW classification, NEW recovery
    PROVE  /\ WithRecord(ctx, classification, recovery).fallback_used = ctx.fallback_used
           /\ AsFailed(ctx).fallback_used = ctx.fallback_used
           /\ NextAttempt(ctx).fallback_used = ctx.fallback_used
    BY DEF WithRecord, AsFailed, NextAttempt, StageContext

\* After a safe-stop the only way to give up is to leave.
LEMMA GiveUpAfterStop ==
    ASSUME StateTypeOK, safe_stopped, NEW s \in Stages, NEW ctx \in StageContext,
           ctx.fallback_used = stages[s].fallback_used, GiveUp(s, ctx)
    PROVE  NoRecovery(s)
<1>1. LeaveToSafeStop(s, ctx)
    BY DEF GiveUp, SkipStage, UsePreset, StartRollback, FailAllAttempts, MustLeave
<1> QED
    BY <1>1, StepToEffect DEF LeaveToSafeStop, NoRecovery

LEMMA RetryNoRecovery ==
    ASSUME StateTypeOK, NEW s \in Stages, NEW ctx \in StageContext,
           ctx.fallback_used = stages[s].fallback_used,
           NEW classification \in {"transient", "permanent", "critical"},
           Retry(s, ctx, classification)
    PROVE  NoRecovery(s)
<1> DEFINE recorded == WithRecord(ctx, classification, "retry")
<1>1. recorded \in StageContext /\ recorded.fallback_used = ctx.fallback_used
    BY WithRecordType, RecordKeepsFallback
<1>2. StepTo(s, "execute", NextAttempt(recorded))
    BY DEF Retry
<1> HIDE DEF recorded
<1> QED
    BY <1>1, <1>2, RecordKeepsFallback, StepToEffect DEF NoRecovery

LEMMA StageStepAfterStop ==
    ASSUME StateTypeOK, safe_stopped, NEW s \in Stages, StageStep(s)
    PROVE  NoRecovery(s)
<1>0. stages[s] \in StageContext
    BY DEF StateTypeOK
<1>1. CASE Creates(s) /\ OthersKept(s)
    BY <1>1 DEF Creates, NewContext, NoContext, NoRecovery
<1>2. CASE EntryGateFails(s) \/ BlockCritical(s) \/ BlockByPolicy(s) \/ ApprovalTimesOut(s)
           \/ Reject(s)
    <2>1. StepTo(s, "returned_false", AsFailed(stages[s]))
        BY <1>2 DEF EntryGateFails, BlockCritical, BlockByPolicy, ApprovalTimesOut, Reject
    <2> QED
        BY <1>0, <2>1, RecordKeepsFallback, StepToEffect DEF NoRecovery
<1>3. CASE RequestApproval(s) \/ StartUnapproved(s) \/ Approve(s) \/ GatewayRaises(s)
           \/ ExecuteReturns(s) \/ ExitGatePasses(s)
           \/ RollbackReturns(s) \/ RollbackReturnsCopy(s) \/ RollbackRaises(s)
    <2>1. PICK at \in BegunAt \ {"rollback"}, ctx \in StageContext :
              StepTo(s, at, ctx) /\ ctx.fallback_used = stages[s].fallback_used
        <3>1. \A left \in BOOLEAN :
                  /\ WithArtifacts(stages[s], left) \in StageContext
                  /\ WithArtifacts(stages[s], left).fallback_used = stages[s].fallback_used
            BY <1>0, WithArtifactsType DEF WithArtifacts, StageContext
        <3>2. CASE ExecuteReturns(s)
            BY <3>1, <3>2 DEF ExecuteReturns, BegunAt, Awaiting, Returned
        <3>3. CASE RequestApproval(s)
            <4>1. [stages[s] EXCEPT !.status = "awaiting_approval"] \in StageContext
                  /\ [stages[s] EXCEPT !.status = "awaiting_approval"].fallback_used
                         = stages[s].fallback_used
                BY <1>0 DEF StageContext, StageStatus
            <4> QED
                BY <3>3, <4>1 DEF RequestApproval, BegunAt, Awaiting, Returned
        <3>4. CASE StartUnapproved(s) \/ Approve(s)
            <4>1. [stages[s] EXCEPT !.status = "in_progress"] \in StageContext
                  /\ [stages[s] EXCEPT !.status = "in_progress"].fallback_used
                         = stages[s].fallback_used
                BY <1>0 DEF StageContext, StageStatus
            <4> QED
                BY <3>4, <4>1 DEF StartUnapproved, Approve, BegunAt, Awaiting, Returned
        <3>5. CASE GatewayRaises(s)
            BY <1>0, <3>5 DEF GatewayRaises, BegunAt, Awaiting, Returned
        <3>6. CASE ExitGatePasses(s)
            <4>1. [stages[s] EXCEPT !.status = "completed", !.exit_gate_results = @ \cup {TRUE}]
                      \in StageContext
                  /\ [stages[s] EXCEPT !.status = "completed",
                                       !.exit_gate_results = @ \cup {TRUE}].fallback_used
                         = stages[s].fallback_used
                BY <1>0 DEF StageContext, StageStatus
            <4> QED
                BY <3>6, <4>1 DEF ExitGatePasses, BegunAt, Awaiting, Returned
        <3>7. CASE RollbackReturns(s)
            <4>1. [stages[s] EXCEPT !.status = "rolled_back", !.has_error = TRUE,
                                    !.rollback_performed = TRUE] \in StageContext
                  /\ [stages[s] EXCEPT !.status = "rolled_back", !.has_error = TRUE,
                                       !.rollback_performed = TRUE].fallback_used
                         = stages[s].fallback_used
                BY <1>0 DEF StageContext, StageStatus
            <4> QED
                BY <3>7, <4>1 DEF RollbackReturns, BegunAt, Awaiting, Returned
        <3>8. CASE RollbackReturnsCopy(s) \/ RollbackRaises(s)
            <4>1. [stages[s] EXCEPT !.has_error = TRUE] \in StageContext
                  /\ [stages[s] EXCEPT !.has_error = TRUE].fallback_used
                         = stages[s].fallback_used
                BY <1>0 DEF StageContext
            <4> QED
                BY <3>8, <4>1 DEF RollbackReturnsCopy, RollbackRaises, BegunAt, Awaiting, Returned
        <3> QED
            BY <1>3, <3>2, <3>3, <3>4, <3>5, <3>6, <3>7, <3>8
    <2> QED
        BY <2>1, StepToEffect DEF NoRecovery
<1>4. CASE ExecuteRaises(s)
    <2>1. PICK e \in Exceptions, left \in BOOLEAN :
              LET ctx == WithArtifacts(stages[s], left)
                  classification == Classify(s, e)
              IN  \/ SafeStop(s, ctx)
                  \/ Retry(s, ctx, classification)
                  \/ GiveUp(s, WithRecord(ctx, classification, "fail_immediate"))
        BY <1>4 DEF ExecuteRaises
    <2> DEFINE ctx == WithArtifacts(stages[s], left)
               classification == Classify(s, e)
    <2>2. ctx \in StageContext /\ ctx.fallback_used = stages[s].fallback_used
        BY <1>0, WithArtifactsType DEF WithArtifacts, StageContext
    <2>3. classification \in {"transient", "permanent", "critical"}
        BY DEF Classify
    <2> HIDE DEF ctx, classification
    <2>4. CASE SafeStop(s, ctx)
        <3> DEFINE recorded == WithRecord(ctx, "critical", "safe_stop")
        <3>1. recorded \in StageContext /\ recorded.fallback_used = ctx.fallback_used
            BY <2>2, WithRecordType, RecordKeepsFallback
        <3>2. StepTo(s, "returned_false", AsFailed(recorded))
            BY <2>4 DEF SafeStop
        <3> HIDE DEF recorded
        <3> QED
            BY <2>2, <3>1, <3>2, RecordKeepsFallback, StepToEffect DEF NoRecovery
    <2>5. CASE Retry(s, ctx, classification)
        BY <2>2, <2>3, <2>5, RetryNoRecovery
    <2>6. CASE GiveUp(s, WithRecord(ctx, classification, "fail_immediate"))
        BY <2>2, <2>3, <2>6, WithRecordType, RecordKeepsFallback, GiveUpAfterStop
    <2> QED
        BY <2>1, <2>4, <2>5, <2>6 DEF ctx, classification
<1>5. CASE ExitGateFails(s)
    <2> DEFINE ctxOf(raised) ==
                   IF raised THEN stages[s]
                   ELSE [stages[s] EXCEPT !.exit_gate_results = @ \cup {FALSE}]
               classificationOf(raised) ==
                   IF raised \/ GateRetryable(s) THEN "transient" ELSE "permanent"
    <2>1. PICK raised \in BOOLEAN :
              \/ Retry(s, ctxOf(raised), classificationOf(raised))
              \/ GiveUp(s, WithRecord(ctxOf(raised), classificationOf(raised), "fail_immediate"))
        BY <1>5 DEF ExitGateFails
    <2> DEFINE ctx == ctxOf(raised)
               classification == classificationOf(raised)
    <2>2. ctx \in StageContext /\ ctx.fallback_used = stages[s].fallback_used
        BY <1>0 DEF StageContext
    <2>3. classification \in {"transient", "permanent", "critical"}
        OBVIOUS
    <2> HIDE DEF ctx, classification
    <2>4. CASE Retry(s, ctx, classification)
        BY <2>2, <2>3, <2>4, RetryNoRecovery
    <2>5. CASE GiveUp(s, WithRecord(ctx, classification, "fail_immediate"))
        BY <2>2, <2>3, <2>5, WithRecordType, RecordKeepsFallback, GiveUpAfterStop
    <2> QED
        BY <2>1, <2>4, <2>5 DEF ctx, classification
<1> QED
    BY <1>1, <1>2, <1>3, <1>4, <1>5, BeginEffect DEF StageStep, LeaveEntryGate

\* After a safe-stop no stage starts a rollback or takes a fallback, whatever
\* its policy says: the state is left for investigation.
THEOREM NoRecoveryAlways == Spec => NoRecoveryAfterSafeStop
<1>1. TypeOK /\ [Next]_vars
          => [safe_stopped =>
                 \A s \in Stages :
                     /\ pc'[s] = "rollback" => pc[s] = "rollback"
                     /\ stages'[s].fallback_used => stages[s].fallback_used]_vars
    <2> SUFFICES ASSUME TypeOK, [Next]_vars, safe_stopped, NEW r \in Stages
                 PROVE  /\ pc'[r] = "rollback" => pc[r] = "rollback"
                        /\ stages'[r].fallback_used => stages[r].fallback_used
        OBVIOUS
    <2>1. CASE EngineStep
        <3>1. pc'[r] \in {"created", pc[r]}
            BY <2>1
            DEF EngineStep, Schedule, NothingReady, Collect, Finish, RequestFinalQc, FailFinalQc,
                FinalQcTimesOut, FinalQcRejects, FinalQcApproves, FinalQcRaises, stageVars
        <3>2. stages' = stages \/ Finalise
            BY <2>1
            DEF EngineStep, Schedule, NothingReady, Collect, Finish, RequestFinalQc, FailFinalQc,
                FinalQcTimesOut, FinalQcRejects, FinalQcApproves, FinalQcRaises, stageVars
        <3>3. [NoContext EXCEPT !.status = "blocked"].fallback_used = FALSE
            BY DEF NoContext
        <3>4. stages'[r] \in {stages[r], [NoContext EXCEPT !.status = "blocked"]}
            BY <3>2 DEF Finalise
        <3> QED
            BY <3>1, <3>3, <3>4
    <2>2. ASSUME NEW s \in Stages, StageStep(s)
          PROVE  /\ pc'[r] = "rollback" => pc[r] = "rollback"
                 /\ stages'[r].fallback_used => stages[r].fallback_used
        <3>1. CASE r = s
            BY <2>2, <3>1, StageStepAfterStop DEF NoRecovery, TypeOK
        <3>2. CASE r # s
            BY <2>2, <3>2, StageStepEffect DEF OthersKept, TypeOK
        <3> QED
            BY <3>1, <3>2
    <2>3. CASE UNCHANGED vars
        BY <2>3 DEF vars
    <2> QED
        BY <2>1, <2>2, <2>3 DEF Next, Terminated
<1> QED
    BY <1>1, TypeCorrect, PTL DEF Spec, NoRecoveryAfterSafeStop

-----------------------------------------------------------------------------
(* The inductive invariant, stage by stage.  It relates where a coroutine  *)
(* is (at), its context, what the ExecutionContext holds for it (output,   *)
(* left) and whether the workflow is stopped.                              *)

\* Where execute() has not been called.
BeforeExecute == {"idle", "created", "entry_gate", "approval", "raised"}

Decision(ctx, i) == ctx.attempt_records[i].recovery_decision

\* The first n attempts have failed, and those before ctx.attempt led to a retry.
LogUpTo(s, ctx, n) ==
    /\ Len(ctx.attempt_records) = n
    /\ \A i \in 1 .. n : /\ ctx.attempt_records[i].attempt = i - 1
                         /\ Decision(ctx, i) = "retry" <=> i <= ctx.attempt
    /\ ctx.attempt < EffectivePolicy(s).max_attempts

\* The log of a stage that has failed for good: the last attempt is in it, a
\* stage that left without one never executed.
FinalLog(s, ctx) ==
    LET log == ctx.attempt_records IN
    /\ \A i \in 1 .. Len(log) : /\ log[i].attempt = i - 1
                                /\ Decision(ctx, i) = "retry" <=> i <= ctx.attempt
    /\ ctx.attempt < EffectivePolicy(s).max_attempts

LogFollows(s, at, ctx) ==
    CASE at \in BeforeExecute              -> ctx.attempt = 0 /\ LogUpTo(s, ctx, 0)
      [] at \in {"execute", "exit_gate"}   -> LogUpTo(s, ctx, ctx.attempt)
      [] at = "rollback"                   -> LogUpTo(s, ctx, ctx.attempt + 1)
      [] at = "returned_true"              ->
             LogUpTo(s, ctx, IF ctx.fallback_used THEN ctx.attempt + 1 ELSE ctx.attempt)
      [] OTHER                             -> FinalLog(s, ctx)

\* exit_gate_results is blank until the gate of the last attempt has answered.
GateResultsFollow(at, ctx) ==
    /\ at \in BeforeExecute \cup {"execute", "exit_gate"} => ctx.exit_gate_results = {}
    /\ ctx.status = "completed" /\ ~ctx.fallback_used => ctx.exit_gate_results = {TRUE}

\* Only a coroutine that returned True has a context that says so.
SuccessFollows(at, ctx) ==
    ctx.fallback_used \/ ctx.status \in {"completed", "skipped"} => at = "returned_true"

\* output and left: what stage_outputs and artifacts hold for the stage.
OutputFollows(at, ctx, output, left) ==
    /\ output # "absent" <=> at = "returned_true"
    /\ output = "empty" <=> ctx.status = "skipped"
    /\ output = "produced" <=> ctx.status = "completed" /\ ~ctx.fallback_used
    /\ left = IF output = "produced" THEN ctx.artifacts ELSE {}

\* An error is only set at the end, and a stage's end follows from its records.
ErrorFollows(s, at, ctx, stopped) ==
    /\ ctx.has_error => at = "returned_false"
    /\ RecoveryFollows(s, at, ctx, stopped)

\* What the context alone tells of the stage's history.
TraceFollows(s, at, ctx, stopped) ==
    /\ LogFollows(s, at, ctx)
    /\ GateResultsFollow(at, ctx)
    /\ SuccessFollows(at, ctx)
    /\ ErrorFollows(s, at, ctx, stopped)

RecordsFollow(s, at, ctx, output, left, stopped) ==
    TraceFollows(s, at, ctx, stopped) /\ OutputFollows(at, ctx, output, left)

ArtifactsOf(s) == {a \in Attempt : <<s, a>> \in artifacts}

StageRecords(s) ==
    RecordsFollow(s, pc[s], stages[s], stage_outputs[s], ArtifactsOf(s), safe_stopped)

RecordsInvariant == \A s \in Stages : StageRecords(s)

-----------------------------------------------------------------------------
(* The log of attempts.                                                    *)

LEMMA LogKept ==
    ASSUME NEW s, NEW n, NEW ctx, NEW new,
           new.attempt = ctx.attempt, new.attempt_records = ctx.attempt_records
    PROVE  LogUpTo(s, ctx, n) => LogUpTo(s, new, n)
    BY DEF LogUpTo, Decision

LEMMA LogFinal ==
    ASSUME NEW s, NEW n, NEW ctx, LogUpTo(s, ctx, n)
    PROVE  FinalLog(s, ctx)
    BY DEF LogUpTo, FinalLog, Decision

\* A stage whose last attempt has not failed has given up nothing.
LEMMA NotGivenUp ==
    ASSUME NEW s, NEW at, NEW ctx, NEW stopped, ctx.attempt \in Nat,
           LogUpTo(s, ctx, ctx.attempt)
    PROVE  RecoveryFollows(s, at, ctx, stopped)
    BY DEF LogUpTo, RecoveryFollows, HasGivenUp

\* The last attempt has failed, and not critically.
Failing(ctx) ==
    /\ LastRecord(ctx).classification # "critical"
    /\ LastRecord(ctx).recovery_decision = "fail_immediate"

\* A failing stage ends as its policy says, or with a sibling's safe-stop.
LEMMA FailingFollows ==
    ASSUME NEW s, NEW at, NEW ctx, NEW new, NEW stopped, Failing(ctx),
           new.attempt_records = ctx.attempt_records,
           \/ RecoveryTaken(at, new) = IF FallbackApplies(s) THEN "fallback"
                                       ELSE IF EffectivePolicy(s).rollback_on_failure
                                       THEN "rollback" ELSE "failure"
           \/ RecoveryTaken(at, new) = "nothing" /\ stopped
    PROVE  RecoveryFollows(s, at, new, stopped)
<1>1. LastRecord(new) = LastRecord(ctx)
    BY DEF LastRecord
<1>2. RecoveryDue(s, new) = IF FallbackApplies(s) THEN "fallback"
                            ELSE IF EffectivePolicy(s).rollback_on_failure
                            THEN "rollback" ELSE "failure"
    BY <1>1 DEF Failing, RecoveryDue
<1> QED
    BY <1>1, <1>2 DEF Failing, RecoveryFollows

\* What WithRecord does to the log.
LEMMA WithRecordLog ==
    ASSUME NEW ctx \in StageContext,
           NEW classification \in {"transient", "permanent", "critical"},
           NEW recovery \in {"retry", "safe_stop", "fail_immediate"}
    PROVE  LET new == WithRecord(ctx, classification, recovery)
               n == Len(ctx.attempt_records)
           IN  /\ new.attempt = ctx.attempt
               /\ Len(new.attempt_records) = n + 1
               /\ \A i \in 1 .. n : new.attempt_records[i] = ctx.attempt_records[i]
               /\ new.attempt_records[n + 1].attempt = ctx.attempt
               /\ Decision(new, n + 1) = recovery
               /\ new.attempt_records[n + 1].classification = classification
<1> DEFINE record == [attempt |-> ctx.attempt, classification |-> classification,
                      recovery_decision |-> recovery]
           log == ctx.attempt_records
<1>1. record \in AttemptRecord
    BY DEF StageContext, AttemptRecord
<1>2. /\ record.attempt = ctx.attempt /\ record.recovery_decision = recovery
      /\ record.classification = classification
    OBVIOUS
<1>3. log \in Seq(AttemptRecord)
    BY DEF StageContext
<1>4. WithRecord(ctx, classification, recovery) = [ctx EXCEPT !.attempt_records = Append(log, record)]
    BY DEF WithRecord
<1>5. /\ [ctx EXCEPT !.attempt_records = Append(log, record)].attempt = ctx.attempt
      /\ [ctx EXCEPT !.attempt_records = Append(log, record)].attempt_records = Append(log, record)
    BY DEF StageContext
<1> HIDE DEF record, log
<1>6. /\ Len(Append(log, record)) = Len(log) + 1
      /\ \A i \in 1 .. Len(log) : Append(log, record)[i] = log[i]
      /\ Append(log, record)[Len(log) + 1] = record
    BY <1>1, <1>3
<1> QED
    BY <1>2, <1>4, <1>5, <1>6 DEF Decision, log

LEMMA RetryLog ==
    ASSUME NEW s \in Stages, NEW ctx \in StageContext, LogUpTo(s, ctx, ctx.attempt),
           NEW classification \in {"transient", "permanent", "critical"},
           ctx.attempt < EffectivePolicy(s).max_attempts - 1
    PROVE  LET new == NextAttempt(WithRecord(ctx, classification, "retry"))
           IN  LogUpTo(s, new, new.attempt)
<1> DEFINE recorded == WithRecord(ctx, classification, "retry")
           new == NextAttempt(recorded)
<1>1. recorded \in StageContext
    BY WithRecordType
<1>2. /\ recorded.attempt = ctx.attempt
      /\ Len(recorded.attempt_records) = ctx.attempt + 1
      /\ \A i \in 1 .. ctx.attempt : recorded.attempt_records[i] = ctx.attempt_records[i]
      /\ recorded.attempt_records[ctx.attempt + 1].attempt = ctx.attempt
      /\ Decision(recorded, ctx.attempt + 1) = "retry"
    BY WithRecordLog DEF LogUpTo
<1> HIDE DEF recorded
<1>3. new.attempt = ctx.attempt + 1 /\ new.attempt_records = recorded.attempt_records
    BY <1>1, <1>2 DEF NextAttempt, StageContext
<1> HIDE DEF new
<1>4. ctx.attempt \in Nat /\ EffectivePolicy(s).max_attempts \in Nat
    BY EffectivePolicyType DEF StageContext, Attempt, RetryPolicy
<1>5. \A i \in 1 .. ctx.attempt + 1 :
          /\ new.attempt_records[i].attempt = i - 1
          /\ Decision(new, i) = "retry"
    <2> TAKE i \in 1 .. ctx.attempt + 1
    <2>1. CASE i \in 1 .. ctx.attempt
        <3>1. new.attempt_records[i] = ctx.attempt_records[i]
            BY <1>2, <1>3, <2>1
        <3>2. i <= ctx.attempt
            BY <1>4, <2>1
        <3> QED
            BY <2>1, <3>1, <3>2 DEF LogUpTo, Decision
    <2>2. CASE i = ctx.attempt + 1
        <3>1. new.attempt_records[i] = recorded.attempt_records[ctx.attempt + 1]
            BY <1>3, <2>2
        <3>2. i - 1 = ctx.attempt /\ ~(i <= ctx.attempt)
            BY <1>4, <2>2
        <3> QED
            BY <1>2, <3>1, <3>2 DEF Decision
    <2> QED
        BY <1>4, <2>1, <2>2
<1>6. LogUpTo(s, new, new.attempt)
    BY <1>2, <1>3, <1>4, <1>5 DEF LogUpTo
<1> QED
    BY <1>6 DEF new, recorded

LEMMA FailLog ==
    ASSUME NEW s \in Stages, NEW ctx \in StageContext, LogUpTo(s, ctx, ctx.attempt),
           NEW classification \in {"transient", "permanent"}
    PROVE  /\ LogUpTo(s, WithRecord(ctx, classification, "fail_immediate"), ctx.attempt + 1)
           /\ Failing(WithRecord(ctx, classification, "fail_immediate"))
<1> DEFINE new == WithRecord(ctx, classification, "fail_immediate")
<1>1. /\ new.attempt = ctx.attempt
      /\ Len(new.attempt_records) = ctx.attempt + 1
      /\ \A i \in 1 .. ctx.attempt : new.attempt_records[i] = ctx.attempt_records[i]
      /\ new.attempt_records[ctx.attempt + 1].attempt = ctx.attempt
      /\ Decision(new, ctx.attempt + 1) = "fail_immediate"
      /\ new.attempt_records[ctx.attempt + 1].classification = classification
    BY WithRecordLog DEF LogUpTo
<1> HIDE DEF new
<1>2. ctx.attempt \in Nat
    BY DEF StageContext, Attempt
<1>3. \A i \in 1 .. ctx.attempt + 1 :
          /\ new.attempt_records[i].attempt = i - 1
          /\ Decision(new, i) = "retry" <=> i <= ctx.attempt
    <2> TAKE i \in 1 .. ctx.attempt + 1
    <2>1. CASE i \in 1 .. ctx.attempt
        BY <1>1, <2>1 DEF LogUpTo, Decision
    <2>2. CASE i = ctx.attempt + 1
        BY <1>1, <1>2, <2>2 DEF Decision
    <2> QED
        BY <1>2, <2>1, <2>2
<1>4. LogUpTo(s, new, ctx.attempt + 1)
    BY <1>1, <1>3 DEF LogUpTo
<1>5. Failing(new)
    BY <1>1 DEF Failing, LastRecord, Decision
<1> QED
    BY <1>4, <1>5 DEF new

LEMMA StopLog ==
    ASSUME NEW s \in Stages, NEW ctx \in StageContext, LogUpTo(s, ctx, ctx.attempt),
           ~ctx.fallback_used
    PROVE  LET new == AsFailed(WithRecord(ctx, "critical", "safe_stop"))
           IN  FinalLog(s, new) /\ RecoveryFollows(s, "returned_false", new, TRUE)
<1> DEFINE recorded == WithRecord(ctx, "critical", "safe_stop")
           new == AsFailed(recorded)
<1>1. recorded \in StageContext
    BY WithRecordType
<1>2. /\ recorded.attempt = ctx.attempt
      /\ Len(recorded.attempt_records) = ctx.attempt + 1
      /\ \A i \in 1 .. ctx.attempt : recorded.attempt_records[i] = ctx.attempt_records[i]
      /\ recorded.attempt_records[ctx.attempt + 1].attempt = ctx.attempt
      /\ Decision(recorded, ctx.attempt + 1) = "safe_stop"
      /\ recorded.attempt_records[ctx.attempt + 1].classification = "critical"
    BY WithRecordLog DEF LogUpTo
<1>0. ~recorded.fallback_used
    BY DEF WithRecord, StageContext
<1> HIDE DEF recorded
<1>3. new.status = "failed" /\ new.attempt = recorded.attempt /\ ~new.fallback_used
      /\ new.attempt_records = recorded.attempt_records
    BY <1>0, <1>1 DEF AsFailed, StageContext
<1> HIDE DEF new
<1>4. ctx.attempt \in Nat
    BY DEF StageContext, Attempt
<1>5. \A i \in 1 .. ctx.attempt + 1 :
          /\ new.attempt_records[i].attempt = i - 1
          /\ Decision(new, i) = "retry" <=> i <= ctx.attempt
    <2> TAKE i \in 1 .. ctx.attempt + 1
    <2>1. CASE i \in 1 .. ctx.attempt
        <3>1. new.attempt_records[i] = ctx.attempt_records[i]
            BY <1>2, <1>3, <2>1
        <3>2. i <= ctx.attempt
            BY <1>4, <2>1
        <3> QED
            BY <2>1, <3>1, <3>2 DEF LogUpTo, Decision
    <2>2. CASE i = ctx.attempt + 1
        <3>1. new.attempt_records[i] = recorded.attempt_records[ctx.attempt + 1]
            BY <1>3, <2>2
        <3>2. i - 1 = ctx.attempt /\ ~(i <= ctx.attempt)
            BY <1>4, <2>2
        <3> QED
            BY <1>2, <3>1, <3>2 DEF Decision
    <2> QED
        BY <1>4, <2>1, <2>2
<1>6. FinalLog(s, new)
    BY <1>2, <1>3, <1>5 DEF FinalLog, LogUpTo
<1>7. /\ LastRecord(new).recovery_decision = "safe_stop"
      /\ LastRecord(new).classification = "critical"
    BY <1>2, <1>3 DEF LastRecord, Decision
<1>8. RecoveryTaken("returned_false", new) = "failure" /\ RecoveryDue(s, new) = "failure"
    BY <1>3, <1>7 DEF RecoveryTaken, RecoveryDue
<1>9. RecoveryFollows(s, "returned_false", new, TRUE)
    BY <1>7, <1>8 DEF RecoveryFollows
<1> QED
    BY <1>6, <1>9 DEF new, recorded

-----------------------------------------------------------------------------
(* Every step of coroutine s keeps its records.                            *)

\* A step that leaves the ExecutionContext alone.
LEMMA StageRecordsStep ==
    ASSUME StateTypeOK, NEW s \in Stages, NEW at, NEW ctx, StepTo(s, at, ctx),
           UNCHANGED contextVars,
           RecordsFollow(s, at, ctx, stage_outputs[s], ArtifactsOf(s), safe_stopped')
    PROVE  StageRecords(s)'
    BY StepToEffect DEF StageRecords, ArtifactsOf, contextVars

\* record_stage_output replaces the output and adds the artifacts.
LEMMA ArtifactsRecorded ==
    ASSUME StateTypeOK, NEW s \in Stages, NEW output, NEW attempts \in SUBSET Attempt,
           RecordStageOutput(s, output, attempts)
    PROVE  /\ ArtifactsOf(s)' = ArtifactsOf(s) \cup attempts
           /\ \A r \in Stages \ {s} : ArtifactsOf(r)' = ArtifactsOf(r)
    BY DEF RecordStageOutput, ArtifactsOf

\* A context that is in the retry loop, the last n attempts of which failed.
InLoop(s, ctx, n) ==
    /\ ctx \in StageContext
    /\ ctx.status = "in_progress"
    /\ LogUpTo(s, ctx, n)
    /\ ~ctx.fallback_used
    /\ ~ctx.has_error

\* While a stage works there is no output yet and the log is complete.
LEMMA WorkingRecords ==
    ASSUME StateTypeOK, NEW s \in Stages, StatusFits(s), StageRecords(s),
           pc[s] \in {"execute", "exit_gate", "rollback"}
    PROVE  /\ InLoop(s, stages[s], IF pc[s] = "rollback" THEN stages[s].attempt + 1
                                   ELSE stages[s].attempt)
           /\ pc[s] # "rollback" => stages[s].exit_gate_results = {}
           /\ stage_outputs[s] = "absent" /\ ArtifactsOf(s) = {}
<1>1. stages[s] \in StageContext /\ stages[s].status \in StatusAt(pc[s])
    BY DEF StateTypeOK, StatusFits
<1>2. stages[s].status = "in_progress"
    BY <1>1 DEF StatusAt
<1>3. RecordsFollow(s, pc[s], stages[s], stage_outputs[s], ArtifactsOf(s), safe_stopped)
    BY DEF StageRecords
<1>4. LogUpTo(s, stages[s], IF pc[s] = "rollback" THEN stages[s].attempt + 1
                            ELSE stages[s].attempt)
    BY <1>3 DEF RecordsFollow, TraceFollows, LogFollows, BeforeExecute
<1>5. /\ pc[s] # "rollback" => stages[s].exit_gate_results = {}
      /\ stage_outputs[s] = "absent" /\ ArtifactsOf(s) = {}
      /\ ~stages[s].fallback_used /\ ~stages[s].has_error
    BY <1>1, <1>3
    DEF RecordsFollow, TraceFollows, GateResultsFollow, OutputFollows, SuccessFollows,
        ErrorFollows, StageContext
<1> QED
    BY <1>1, <1>2, <1>4, <1>5 DEF InLoop

\* However a stage gives up, its last attempt is in the log.
LEMMA GiveUpRecords ==
    ASSUME StateTypeOK, NEW s \in Stages, NEW ctx, InLoop(s, ctx, ctx.attempt + 1), Failing(ctx),
           stage_outputs[s] = "absent", ArtifactsOf(s) = {}, GiveUp(s, ctx)
    PROVE  StageRecords(s)'
<1>0. ctx \in StageContext /\ ctx.status = "in_progress"
      /\ LogUpTo(s, ctx, ctx.attempt + 1) /\ ~ctx.fallback_used /\ ~ctx.has_error
    BY DEF InLoop
<1>1. safe_stopped' = safe_stopped
    BY DEF GiveUp, outcomeVars
<1> USE DEF RecordsFollow, TraceFollows, LogFollows, BeforeExecute, GateResultsFollow,
            OutputFollows, SuccessFollows, ErrorFollows
<1>2. CASE LeaveToSafeStop(s, ctx)
    <2>1. FinalLog(s, ctx)
        BY <1>0, LogFinal
    <2>2. safe_stopped' /\ RecoveryTaken("returned_false", ctx) = "nothing"
        BY <1>0, <1>1, <1>2 DEF LeaveToSafeStop, MustLeave, RecoveryTaken
    <2>3. RecoveryFollows(s, "returned_false", ctx, safe_stopped')
        BY <2>2, FailingFollows
    <2> QED
        BY <1>0, <1>1, <1>2, <2>1, <2>3, StageRecordsStep DEF LeaveToSafeStop
<1>3. CASE SkipStage(s, ctx)
    <2> DEFINE skipped == [ctx EXCEPT !.status = "skipped", !.fallback_used = TRUE]
    <2>1. /\ skipped.status = "skipped" /\ skipped.fallback_used /\ ~skipped.has_error
          /\ skipped.attempt = ctx.attempt /\ skipped.attempt_records = ctx.attempt_records
        BY <1>0 DEF StageContext
    <2> HIDE DEF skipped
    <2>2. StepTo(s, "returned_true", skipped) /\ RecordStageOutput(s, "empty", {})
        BY <1>3 DEF SkipStage, skipped
    <2>3. LogUpTo(s, skipped, skipped.attempt + 1)
        BY <1>0, <2>1, LogKept
    <2>4. stage_outputs'[s] = "empty" /\ ArtifactsOf(s)' = {}
        BY <2>2, RecordStageOutputEffect, ArtifactsRecorded
    <2>5. pc'[s] = "returned_true" /\ stages'[s] = skipped
        BY <2>2, StepToEffect
    <2>6. FallbackApplies(s)
        BY <1>3 DEF SkipStage, FallbackApplies
    <2>7. RecoveryFollows(s, "returned_true", skipped, safe_stopped')
        BY <2>1, <2>6, FailingFollows DEF RecoveryTaken
    <2> QED
        BY <2>1, <2>3, <2>4, <2>5, <2>7 DEF StageRecords
<1>4. CASE UsePreset(s, ctx)
    <2> DEFINE preset == [ctx EXCEPT !.status = "completed", !.fallback_used = TRUE]
    <2>1. /\ preset.status = "completed" /\ preset.fallback_used /\ ~preset.has_error
          /\ preset.attempt = ctx.attempt /\ preset.attempt_records = ctx.attempt_records
        BY <1>0 DEF StageContext
    <2> HIDE DEF preset
    <2>2. StepTo(s, "returned_true", preset) /\ RecordStageOutput(s, "preset", {})
        BY <1>4 DEF UsePreset, preset
    <2>3. LogUpTo(s, preset, preset.attempt + 1)
        BY <1>0, <2>1, LogKept
    <2>4. stage_outputs'[s] = "preset" /\ ArtifactsOf(s)' = {}
        BY <2>2, RecordStageOutputEffect, ArtifactsRecorded
    <2>5. pc'[s] = "returned_true" /\ stages'[s] = preset
        BY <2>2, StepToEffect
    <2>6. FallbackApplies(s)
        BY <1>4 DEF UsePreset, FallbackApplies
    <2>7. RecoveryFollows(s, "returned_true", preset, safe_stopped')
        BY <2>1, <2>6, FailingFollows DEF RecoveryTaken
    <2> QED
        BY <2>1, <2>3, <2>4, <2>5, <2>7 DEF StageRecords
<1>5. CASE StartRollback(s, ctx)
    <2>1. ~FallbackApplies(s) /\ EffectivePolicy(s).rollback_on_failure
        BY <1>5 DEF StartRollback
    <2>2. RecoveryTaken("rollback", ctx) = "rollback"
        BY <1>0 DEF RecoveryTaken
    <2>3. RecoveryFollows(s, "rollback", ctx, safe_stopped')
        BY <2>1, <2>2, FailingFollows
    <2> QED
        BY <1>0, <1>1, <1>5, <2>3, StageRecordsStep DEF StartRollback
<1>6. CASE FailAllAttempts(s, ctx)
    <2> DEFINE new == AsFailed(ctx)
    <2>1. /\ new.status = "failed" /\ ~new.fallback_used
          /\ new.attempt = ctx.attempt /\ new.attempt_records = ctx.attempt_records
        BY <1>0 DEF AsFailed, StageContext
    <2> HIDE DEF new
    <2>2. FinalLog(s, new)
        BY <1>0, <2>1, LogKept, LogFinal
    <2>3. StepTo(s, "returned_false", new) /\ UNCHANGED contextVars
        BY <1>6 DEF FailAllAttempts, new
    <2>4. ~FallbackApplies(s) /\ ~EffectivePolicy(s).rollback_on_failure
        BY <1>6 DEF FailAllAttempts
    <2>5. RecoveryTaken("returned_false", new) = "failure"
        BY <2>1 DEF RecoveryTaken
    <2>6. RecoveryFollows(s, "returned_false", new, safe_stopped')
        BY <2>1, <2>4, <2>5, FailingFollows
    <2> QED
        BY <2>1, <2>2, <2>3, <2>6, StageRecordsStep
<1> QED
    BY <1>2, <1>3, <1>4, <1>5, <1>6 DEF GiveUp

LEMMA RetryRecords ==
    ASSUME StateTypeOK, NEW s \in Stages, NEW ctx, InLoop(s, ctx, ctx.attempt),
           stage_outputs[s] = "absent", ArtifactsOf(s) = {},
           NEW classification \in {"transient", "permanent", "critical"},
           ctx.attempt = stages[s].attempt, AttemptsRemain(s), Retry(s, ctx, classification)
    PROVE  StageRecords(s)'
<1> DEFINE recorded == WithRecord(ctx, classification, "retry")
           new == NextAttempt(recorded)
<1>1. LogUpTo(s, new, new.attempt)
    BY RetryLog DEF InLoop, AttemptsRemain
<1>2. recorded \in StageContext /\ recorded.status = "in_progress"
      /\ ~recorded.fallback_used /\ ~recorded.has_error
    BY WithRecordType DEF InLoop, WithRecord, StageContext
<1>3. StepTo(s, "execute", new) /\ OnlyStage(s)
    BY DEF Retry
<1> HIDE DEF recorded
<1>4. /\ new.status = "in_progress" /\ ~new.fallback_used /\ ~new.has_error
      /\ new.exit_gate_results = {} /\ new.attempt \in Nat
    BY <1>2 DEF NextAttempt, StageContext, Attempt
<1> HIDE DEF new
<1>5. RecoveryFollows(s, "execute", new, safe_stopped')
    BY <1>1, <1>4, NotGivenUp
<1> QED
    BY <1>1, <1>3, <1>4, <1>5, StageRecordsStep
    DEF OnlyStage, RecordsFollow, TraceFollows, LogFollows, BeforeExecute, GateResultsFollow,
        OutputFollows, SuccessFollows,
        ErrorFollows

\* What a failed attempt leaves: its record is added.
LEMMA FailedAttempt ==
    ASSUME NEW s \in Stages, NEW ctx, InLoop(s, ctx, ctx.attempt),
           NEW classification \in {"transient", "permanent"}
    PROVE  LET new == WithRecord(ctx, classification, "fail_immediate")
           IN  InLoop(s, new, new.attempt + 1) /\ Failing(new)
<1> DEFINE new == WithRecord(ctx, classification, "fail_immediate")
<1>1. ctx \in StageContext
    BY DEF InLoop
<1>2. LogUpTo(s, new, ctx.attempt + 1) /\ Failing(new)
    BY <1>1, FailLog DEF InLoop
<1>3. new \in StageContext
    BY <1>1, WithRecordType
<1>4. new.status = ctx.status /\ new.attempt = ctx.attempt
      /\ new.fallback_used = ctx.fallback_used /\ new.has_error = ctx.has_error
    BY <1>1 DEF WithRecord, StageContext
<1> HIDE DEF new
<1>5. InLoop(s, new, new.attempt + 1) /\ Failing(new)
    BY <1>2, <1>3, <1>4 DEF InLoop
<1> QED
    BY <1>5 DEF new

LEMMA ExecuteRaisesRecords ==
    ASSUME StateTypeOK, NEW s \in Stages, StatusFits(s), StageRecords(s), ExecuteRaises(s)
    PROVE  StageRecords(s)'
<1>0. StateTypeOK /\ pc[s] = "execute"
    BY DEF ExecuteRaises
<1>1. PICK e \in Exceptions, left \in BOOLEAN :
          LET ctx == WithArtifacts(stages[s], left)
              classification == Classify(s, e)
          IN  \/ SafeStop(s, ctx)
              \/ AttemptsRemain(s) /\ Retry(s, ctx, classification)
              \/ /\ classification # "critical"
                 /\ GiveUp(s, WithRecord(ctx, classification, "fail_immediate"))
    BY DEF ExecuteRaises
<1> DEFINE ctx == WithArtifacts(stages[s], left)
           classification == Classify(s, e)
<1>2. /\ InLoop(s, ctx, ctx.attempt) /\ ctx.attempt = stages[s].attempt
      /\ stage_outputs[s] = "absent" /\ ArtifactsOf(s) = {}
    <2>1. /\ InLoop(s, stages[s], stages[s].attempt)
          /\ stage_outputs[s] = "absent" /\ ArtifactsOf(s) = {}
        BY <1>0, WorkingRecords
    <2>2. stages[s] \in StageContext
        BY <1>0 DEF StateTypeOK
    <2>3. ctx \in StageContext
        BY <2>2, WithArtifactsType
    <2>4. /\ ctx.status = stages[s].status /\ ctx.attempt = stages[s].attempt
          /\ ctx.attempt_records = stages[s].attempt_records
          /\ ctx.fallback_used = stages[s].fallback_used /\ ctx.has_error = stages[s].has_error
        BY <2>2 DEF WithArtifacts, StageContext
    <2> HIDE DEF ctx
    <2> QED
        BY <2>1, <2>3, <2>4, LogKept DEF InLoop
<1>3. classification \in {"transient", "permanent", "critical"}
    BY DEF Classify
<1> HIDE DEF ctx, classification
<1>4. CASE SafeStop(s, ctx)
    <2> DEFINE recorded == WithRecord(ctx, "critical", "safe_stop")
               new == AsFailed(recorded)
    <2>1. FinalLog(s, new) /\ RecoveryFollows(s, "returned_false", new, TRUE)
        BY <1>2, StopLog DEF InLoop
    <2>2. recorded \in StageContext /\ ~recorded.fallback_used
        BY <1>2, WithRecordType DEF InLoop, WithRecord, StageContext
    <2>3. StepTo(s, "returned_false", new) /\ UNCHANGED contextVars /\ safe_stopped' = TRUE
        BY <1>4 DEF SafeStop
    <2> HIDE DEF recorded
    <2>4. new.status = "failed" /\ ~new.fallback_used
        BY <2>2 DEF AsFailed, StageContext
    <2> HIDE DEF new
    <2> QED
        BY <1>0, <1>2, <2>1, <2>3, <2>4, StageRecordsStep
        DEF RecordsFollow, TraceFollows, LogFollows, BeforeExecute, GateResultsFollow,
            OutputFollows, SuccessFollows, ErrorFollows
<1>5. CASE AttemptsRemain(s) /\ Retry(s, ctx, classification)
    BY <1>0, <1>2, <1>3, <1>5, RetryRecords
<1>6. CASE classification # "critical"
           /\ GiveUp(s, WithRecord(ctx, classification, "fail_immediate"))
    BY <1>0, <1>2, <1>3, <1>6, FailedAttempt, GiveUpRecords
<1> QED
    BY <1>1, <1>4, <1>5, <1>6 DEF ctx, classification

LEMMA ExitGateFailsRecords ==
    ASSUME StateTypeOK, NEW s \in Stages, StatusFits(s), StageRecords(s), ExitGateFails(s)
    PROVE  StageRecords(s)'
<1>0. StateTypeOK /\ pc[s] = "exit_gate"
    BY DEF ExitGateFails
<1> DEFINE ctxOf(raised) ==
               IF raised THEN stages[s]
               ELSE [stages[s] EXCEPT !.exit_gate_results = @ \cup {FALSE}]
           classificationOf(raised) ==
               IF raised \/ GateRetryable(s) THEN "transient" ELSE "permanent"
<1>1. PICK raised \in BOOLEAN :
          \/ /\ AttemptsRemain(s)
             /\ Retry(s, ctxOf(raised), classificationOf(raised))
          \/ GiveUp(s, WithRecord(ctxOf(raised), classificationOf(raised), "fail_immediate"))
    BY DEF ExitGateFails
<1> DEFINE ctx == ctxOf(raised)
           classification == classificationOf(raised)
<1>2. /\ InLoop(s, ctx, ctx.attempt) /\ ctx.attempt = stages[s].attempt
      /\ stage_outputs[s] = "absent" /\ ArtifactsOf(s) = {}
    <2>1. /\ InLoop(s, stages[s], stages[s].attempt)
          /\ stage_outputs[s] = "absent" /\ ArtifactsOf(s) = {}
        BY <1>0, WorkingRecords
    <2>2. stages[s] \in StageContext
        BY <1>0 DEF StateTypeOK
    <2>3. /\ ctx \in StageContext
          /\ ctx.status = stages[s].status /\ ctx.attempt = stages[s].attempt
          /\ ctx.attempt_records = stages[s].attempt_records
          /\ ctx.fallback_used = stages[s].fallback_used /\ ctx.has_error = stages[s].has_error
        BY <2>2 DEF StageContext
    <2> HIDE DEF ctx
    <2> QED
        BY <2>1, <2>3, LogKept DEF InLoop
<1>3. classification \in {"transient", "permanent"}
    OBVIOUS
<1> HIDE DEF ctx, classification
<1>4. CASE AttemptsRemain(s) /\ Retry(s, ctx, classification)
    BY <1>0, <1>2, <1>3, <1>4, RetryRecords
<1>5. CASE GiveUp(s, WithRecord(ctx, classification, "fail_immediate"))
    BY <1>0, <1>2, <1>3, <1>5, FailedAttempt, GiveUpRecords
<1> QED
    BY <1>1, <1>4, <1>5 DEF ctx, classification

LEMMA SucceedRecords ==
    ASSUME StateTypeOK, NEW s \in Stages, StatusFits(s), StageRecords(s),
           ExecuteReturns(s) \/ ExitGatePasses(s)
    PROVE  StageRecords(s)'
<1>0. StateTypeOK /\ pc[s] \in {"execute", "exit_gate"}
    BY DEF ExecuteReturns, ExitGatePasses
<1>1. /\ InLoop(s, stages[s], stages[s].attempt) /\ stages[s].exit_gate_results = {}
      /\ stage_outputs[s] = "absent" /\ ArtifactsOf(s) = {}
    BY <1>0, WorkingRecords
<1>2. stages[s] \in StageContext
    BY <1>0 DEF StateTypeOK
<1> USE DEF RecordsFollow, TraceFollows, LogFollows, BeforeExecute, GateResultsFollow,
            OutputFollows, SuccessFollows, ErrorFollows
<1>3. CASE ExecuteReturns(s)
    <2>1. PICK left \in BOOLEAN : StepTo(s, "exit_gate", WithArtifacts(stages[s], left))
        BY <1>3 DEF ExecuteReturns
    <2> DEFINE ctx == WithArtifacts(stages[s], left)
    <2>2. /\ ctx.status = stages[s].status /\ ctx.attempt = stages[s].attempt
          /\ ctx.attempt_records = stages[s].attempt_records
          /\ ctx.exit_gate_results = stages[s].exit_gate_results
          /\ ctx.fallback_used = stages[s].fallback_used /\ ctx.has_error = stages[s].has_error
        BY <1>2 DEF WithArtifacts, StageContext
    <2>3. UNCHANGED <<contextVars, safe_stopped>>
        BY <1>3 DEF ExecuteReturns, OnlyStage, outcomeVars
    <2> HIDE DEF ctx
    <2>4. LogUpTo(s, ctx, ctx.attempt) /\ ctx.attempt \in Nat
        BY <1>1, <1>2, <2>2, LogKept DEF InLoop, StageContext, Attempt
    <2>5. RecoveryFollows(s, "exit_gate", ctx, safe_stopped')
        BY <2>4, NotGivenUp
    <2>6. RecordsFollow(s, "exit_gate", ctx, stage_outputs[s], ArtifactsOf(s), safe_stopped')
        BY <1>1, <2>2, <2>4, <2>5 DEF InLoop
    <2> QED
        BY <1>0, <2>1, <2>3, <2>6, StageRecordsStep DEF ctx
<1>4. CASE ExitGatePasses(s)
    <2> DEFINE ctx == [stages[s] EXCEPT !.status = "completed",
                                        !.exit_gate_results = @ \cup {TRUE}]
    <2>1. /\ ctx.status = "completed" /\ ctx.exit_gate_results = {TRUE}
          /\ ctx.attempt = stages[s].attempt /\ ctx.artifacts = stages[s].artifacts
          /\ ctx.attempt_records = stages[s].attempt_records
          /\ ctx.fallback_used = stages[s].fallback_used /\ ctx.has_error = stages[s].has_error
        BY <1>1, <1>2 DEF StageContext
    <2>2. StepTo(s, "returned_true", ctx)
          /\ RecordStageOutput(s, "produced", stages[s].artifacts)
        BY <1>4 DEF ExitGatePasses
    <2>3. stages[s].artifacts \in SUBSET Attempt
        BY <1>2 DEF StageContext
    <2> HIDE DEF ctx
    <2>4. stage_outputs'[s] = "produced" /\ ArtifactsOf(s)' = stages[s].artifacts
        <3>1. stage_outputs'[s] = "produced"
            BY <1>0, <2>2, RecordStageOutputEffect
        <3>2. ArtifactsOf(s)' = ArtifactsOf(s) \cup stages[s].artifacts
            BY <1>0, <2>2, <2>3, ArtifactsRecorded
        <3> QED
            BY <1>1, <3>1, <3>2
    <2>5. pc'[s] = "returned_true" /\ stages'[s] = ctx
        BY <1>0, <2>2, StepToEffect
    <2>6. LogUpTo(s, ctx, ctx.attempt) /\ ctx.attempt \in Nat
        BY <1>1, <1>2, <2>1, LogKept DEF InLoop, StageContext, Attempt
    <2>7. RecoveryFollows(s, "returned_true", ctx, safe_stopped')
        BY <2>6, NotGivenUp
    <2> QED
        BY <1>1, <2>1, <2>4, <2>5, <2>6, <2>7 DEF InLoop, StageRecords
<1> QED
    BY <1>3, <1>4

LEMMA RollbackRecords ==
    ASSUME StateTypeOK, NEW s \in Stages, StatusFits(s), StageRecords(s),
           RollbackReturns(s) \/ RollbackReturnsCopy(s) \/ RollbackRaises(s)
    PROVE  StageRecords(s)'
<1>0. StateTypeOK /\ pc[s] = "rollback" /\ UNCHANGED <<contextVars, safe_stopped>>
    BY DEF RollbackReturns, RollbackReturnsCopy, RollbackRaises, OnlyStage,
           outcomeVars
<1>1. /\ InLoop(s, stages[s], stages[s].attempt + 1)
      /\ stage_outputs[s] = "absent" /\ ArtifactsOf(s) = {}
    BY <1>0, WorkingRecords
<1>2. Failing(stages[s]) /\ ~FallbackApplies(s) /\ EffectivePolicy(s).rollback_on_failure
    <2>1. RecoveryFollows(s, "rollback", stages[s], safe_stopped)
        BY <1>0 DEF StageRecords, RecordsFollow, TraceFollows, ErrorFollows
    <2>2. RecoveryTaken("rollback", stages[s]) = "rollback" /\ HasGivenUp(stages[s])
        BY <1>1 DEF InLoop, LogUpTo, RecoveryTaken, HasGivenUp
    <2>3. RecoveryDue(s, stages[s]) = "rollback"
        BY <2>1, <2>2 DEF RecoveryFollows
    <2>4. LastRecord(stages[s]).recovery_decision # "safe_stop"
          /\ ~FallbackApplies(s) /\ EffectivePolicy(s).rollback_on_failure
        BY <2>3 DEF RecoveryDue
    <2>5. Failing(stages[s])
        BY <2>1, <2>2, <2>4 DEF RecoveryFollows, Failing
    <2> QED
        BY <2>4, <2>5
<1>3. PICK ctx \in {[stages[s] EXCEPT !.status = "rolled_back", !.has_error = TRUE,
                                      !.rollback_performed = TRUE],
                    [stages[s] EXCEPT !.has_error = TRUE]} :
          StepTo(s, "returned_false", ctx)
    BY DEF RollbackReturns, RollbackReturnsCopy, RollbackRaises
<1>4. /\ ctx.status \in {"rolled_back", "in_progress"} /\ ctx.has_error
      /\ ctx.attempt = stages[s].attempt /\ ctx.attempt_records = stages[s].attempt_records
      /\ ~ctx.fallback_used
    BY <1>1 DEF InLoop, StageContext
<1>5. FinalLog(s, ctx)
    BY <1>1, <1>4, LogKept, LogFinal DEF InLoop
<1>6. RecoveryFollows(s, "returned_false", ctx, safe_stopped')
    BY <1>2, <1>4, FailingFollows DEF RecoveryTaken
<1>7. RecordsFollow(s, "returned_false", ctx, stage_outputs[s], ArtifactsOf(s), safe_stopped')
    BY <1>1, <1>4, <1>5, <1>6
    DEF RecordsFollow, TraceFollows, LogFollows, BeforeExecute, GateResultsFollow, OutputFollows,
        SuccessFollows, ErrorFollows
<1> QED
    BY <1>0, <1>3, <1>7, StageRecordsStep

\* A context without a history satisfies everything asked before execute().
LEMMA BlankRecords ==
    ASSUME NEW s \in Stages, NEW at \in {"idle", "created", "entry_gate"}, NEW ctx,
           NEW stopped,
           ctx.attempt = 0, ctx.attempt_records = <<>>, ctx.exit_gate_results = {},
           ~ctx.fallback_used, ~ctx.has_error, ctx.status \notin {"completed", "skipped"}
    PROVE  RecordsFollow(s, at, ctx, "absent", {}, stopped)
<1>1. EffectivePolicy(s).max_attempts \in 1 .. 10
    BY EffectivePolicyType DEF RetryPolicy
<1>2. LogUpTo(s, ctx, 0)
    BY <1>1 DEF LogUpTo
<1>3. RecoveryFollows(s, at, ctx, stopped)
    BY <1>2, NotGivenUp
<1> QED
    BY <1>2, <1>3
    DEF RecordsFollow, TraceFollows, LogFollows, BeforeExecute, GateResultsFollow, OutputFollows,
        SuccessFollows, ErrorFollows

LEMMA BeginRecords ==
    ASSUME StateTypeOK, NEW s \in Stages, StatusFits(s), StageRecords(s), Begin(s)
    PROVE  StageRecords(s)'
<1>1. /\ StepTo(s, "entry_gate", NewContext(s)) /\ UNCHANGED contextVars /\ StateTypeOK
      /\ pc[s] = "created"
    BY DEF Begin, OnlyStage
<1> DEFINE ctx == NewContext(s)
<1>2. /\ ctx.attempt = 0 /\ ctx.attempt_records = <<>> /\ ctx.exit_gate_results = {}
      /\ ~ctx.fallback_used /\ ~ctx.has_error /\ ctx.status = "awaiting_gate"
    BY DEF NewContext, NoContext
<1> HIDE DEF ctx
<1>3. stage_outputs[s] = "absent" /\ ArtifactsOf(s) = {}
    BY <1>1 DEF StageRecords, RecordsFollow, TraceFollows, OutputFollows, SuccessFollows
<1>4. RecordsFollow(s, "entry_gate", ctx, stage_outputs[s], ArtifactsOf(s), safe_stopped')
    BY <1>2, <1>3, BlankRecords
<1> QED
    BY <1>1, <1>4, StageRecordsStep DEF ctx

\* The gates in front of execute() leave no record of an attempt.
LEMMA GateRecords ==
    ASSUME StateTypeOK, NEW s \in Stages, StatusFits(s), StageRecords(s),
           EntryGateFails(s) \/ BlockCritical(s) \/ BlockByPolicy(s)
           \/ ApprovalTimesOut(s) \/ RequestApproval(s) \/ StartUnapproved(s)
           \/ Approve(s) \/ Reject(s) \/ GatewayRaises(s)
    PROVE  StageRecords(s)'
<1> DEFINE fails == AsFailed(stages[s])
           waits == [stages[s] EXCEPT !.status = "awaiting_approval"]
           starts == [stages[s] EXCEPT !.status = "in_progress"]
<1>0. StateTypeOK /\ stages[s] \in StageContext
    BY DEF StateTypeOK
<1>1. pc[s] \in {"entry_gate", "approval"} /\ UNCHANGED <<contextVars, safe_stopped>>
    BY DEF EntryGateFails, BlockCritical, BlockByPolicy, ApprovalTimesOut, RequestApproval,
           StartUnapproved, PolicyDecides, PassEntryGate, Approve, Reject, GatewayRaises, OnlyStage,
           outcomeVars
<1>2. \/ StepTo(s, "returned_false", fails)
      \/ StepTo(s, "approval", waits)
      \/ StepTo(s, "execute", starts)
      \/ pc[s] = "approval" /\ StepTo(s, "raised", stages[s])
    BY DEF EntryGateFails, BlockCritical, BlockByPolicy, ApprovalTimesOut, RequestApproval,
           StartUnapproved, Approve, Reject, GatewayRaises
<1> DEFINE Blank(ctx) ==
               /\ ctx.attempt = 0 /\ LogUpTo(s, ctx, 0)
               /\ ctx.exit_gate_results = {} /\ ~ctx.fallback_used
<1>3. Blank(stages[s]) /\ ~stages[s].has_error
      /\ stage_outputs[s] = "absent" /\ ArtifactsOf(s) = {}
      /\ stages[s].status \in {"awaiting_gate", "awaiting_approval"}
    <2>1. stages[s].status \in StatusAt(pc[s])
        BY <1>1 DEF StatusFits
    <2>2. RecordsFollow(s, pc[s], stages[s], stage_outputs[s], ArtifactsOf(s), safe_stopped)
        BY DEF StageRecords
    <2>3. stages[s].status \in {"awaiting_gate", "awaiting_approval"}
        BY <1>1, <2>1 DEF StatusAt
    <2>4. /\ stages[s].attempt = 0 /\ LogUpTo(s, stages[s], 0)
          /\ stages[s].exit_gate_results = {}
        BY <1>1, <2>2 DEF RecordsFollow, TraceFollows, LogFollows, BeforeExecute, GateResultsFollow
    <2>5. stage_outputs[s] = "absent" /\ ArtifactsOf(s) = {}
          /\ ~stages[s].fallback_used /\ ~stages[s].has_error
        BY <1>0, <1>1, <2>2 DEF RecordsFollow, TraceFollows, OutputFollows, SuccessFollows,
                                ErrorFollows, StageContext
    <2> QED
        BY <2>3, <2>4, <2>5
<1>4. Blank(fails) /\ fails.status = "failed"
    <2>1. /\ fails.attempt = stages[s].attempt
          /\ fails.attempt_records = stages[s].attempt_records
          /\ fails.exit_gate_results = stages[s].exit_gate_results
          /\ fails.fallback_used = stages[s].fallback_used /\ fails.status = "failed"
        BY <1>0 DEF AsFailed, StageContext
    <2> HIDE DEF fails
    <2> QED
        BY <1>3, <2>1, LogKept
<1>5. Blank(waits) /\ ~waits.has_error /\ waits.status = "awaiting_approval"
    <2>1. /\ waits.attempt = stages[s].attempt
          /\ waits.attempt_records = stages[s].attempt_records
          /\ waits.exit_gate_results = stages[s].exit_gate_results
          /\ waits.fallback_used = stages[s].fallback_used
          /\ waits.has_error = stages[s].has_error /\ waits.status = "awaiting_approval"
        BY <1>0 DEF StageContext
    <2> HIDE DEF waits
    <2> QED
        BY <1>3, <2>1, LogKept
<1>6. Blank(starts) /\ ~starts.has_error /\ starts.status = "in_progress"
    <2>1. /\ starts.attempt = stages[s].attempt
          /\ starts.attempt_records = stages[s].attempt_records
          /\ starts.exit_gate_results = stages[s].exit_gate_results
          /\ starts.fallback_used = stages[s].fallback_used
          /\ starts.has_error = stages[s].has_error /\ starts.status = "in_progress"
        BY <1>0 DEF StageContext
    <2> HIDE DEF starts
    <2> QED
        BY <1>3, <2>1, LogKept
<1>11. \A ctx, at : Blank(ctx) => RecoveryFollows(s, at, ctx, safe_stopped')
    BY NotGivenUp
<1> HIDE DEF fails, waits, starts
<1> USE DEF RecordsFollow, TraceFollows, LogFollows, BeforeExecute, GateResultsFollow,
            OutputFollows, SuccessFollows, ErrorFollows
<1>7. CASE StepTo(s, "returned_false", fails)
    <2>1. FinalLog(s, fails)
        BY <1>4, LogFinal
    <2>2. RecordsFollow(s, "returned_false", fails, stage_outputs[s], ArtifactsOf(s), safe_stopped')
        BY <1>3, <1>4, <2>1, <1>11
    <2> QED
        BY <1>0, <1>1, <1>7, <2>2, StageRecordsStep
<1>8. CASE StepTo(s, "approval", waits)
    <2>1. RecordsFollow(s, "approval", waits, stage_outputs[s], ArtifactsOf(s), safe_stopped')
        BY <1>3, <1>5, <1>11
    <2> QED
        BY <1>0, <1>1, <1>8, <2>1, StageRecordsStep
<1>9. CASE StepTo(s, "execute", starts)
    <2>1. RecordsFollow(s, "execute", starts, stage_outputs[s], ArtifactsOf(s), safe_stopped')
        BY <1>3, <1>6, <1>11
    <2> QED
        BY <1>0, <1>1, <1>9, <2>1, StageRecordsStep
<1>10. CASE pc[s] = "approval" /\ StepTo(s, "raised", stages[s])
    <2>1. RecordsFollow(s, "raised", stages[s], stage_outputs[s], ArtifactsOf(s), safe_stopped')
        BY <1>3, <1>11
    <2> QED
        BY <1>0, <1>1, <1>10, <2>1, StageRecordsStep
<1> QED
    BY <1>2, <1>7, <1>8, <1>9, <1>10

-----------------------------------------------------------------------------
(* The invariant.                                                          *)

\* A coroutine writes no output and no artifacts but its own.
LEMMA OthersArtifacts ==
    ASSUME StateTypeOK, NEW s \in Stages, StageStep(s), NEW r \in Stages \ {s}
    PROVE  ArtifactsOf(r)' = ArtifactsOf(r)
<1>1. \/ UNCHANGED contextVars
      \/ \E output \in Output, attempts \in SUBSET Attempt :
             RecordStageOutput(s, output, attempts)
    <2> DEFINE Records == \E output \in Output, attempts \in SUBSET Attempt :
                              RecordStageOutput(s, output, attempts)
    <2>1. CASE ExitGatePasses(s)
        <3>1. stages[s].artifacts \in SUBSET Attempt
            BY DEF StateTypeOK, StageContext
        <3>2. RecordStageOutput(s, "produced", stages[s].artifacts)
            BY <2>1 DEF ExitGatePasses
        <3> QED
            BY <3>1, <3>2 DEF Output
    <2>2. ASSUME NEW ctx, GiveUp(s, ctx)
          PROVE  UNCHANGED contextVars \/ Records
        <3>1. UNCHANGED contextVars \/ \E output \in {"empty", "preset"} :
                                           RecordStageOutput(s, output, {})
            BY <2>2 DEF GiveUp, LeaveToSafeStop, SkipStage, UsePreset, StartRollback,
                        FailAllAttempts
        <3>2. {} \in SUBSET Attempt /\ {"empty", "preset"} \subseteq Output
            BY DEF Output
        <3> QED
            BY <3>1, <3>2
    <2>3. CASE ExecuteRaises(s)
        <3>1. UNCHANGED contextVars \/ \E ctx : GiveUp(s, ctx)
            BY <2>3 DEF ExecuteRaises, SafeStop, Retry, OnlyStage
        <3> QED
            BY <2>2, <3>1
    <2>4. CASE ExitGateFails(s)
        <3>1. UNCHANGED contextVars \/ \E ctx : GiveUp(s, ctx)
            BY <2>4 DEF ExitGateFails, Retry, OnlyStage
        <3> QED
            BY <2>2, <3>1
    <2>5. CASE ~(ExitGatePasses(s) \/ ExecuteRaises(s) \/ ExitGateFails(s))
        BY <2>5
        DEF StageStep, LeaveEntryGate, Begin, EntryGateFails, BlockCritical, BlockByPolicy,
            ApprovalTimesOut, RequestApproval, StartUnapproved, PolicyDecides, PassEntryGate,
            Approve, Reject, GatewayRaises, ExecuteReturns,
            RollbackReturns, RollbackReturnsCopy, RollbackRaises, OnlyStage
    <2> QED
        BY <2>1, <2>3, <2>4, <2>5
<1>2. CASE UNCHANGED contextVars
    BY <1>2 DEF ArtifactsOf, contextVars
<1>3. ASSUME NEW output \in Output, NEW attempts \in SUBSET Attempt,
             RecordStageOutput(s, output, attempts)
      PROVE  ArtifactsOf(r)' = ArtifactsOf(r)
    BY <1>3, ArtifactsRecorded
<1> QED
    BY <1>1, <1>2, <1>3

\* A safe-stop of the workflow takes nothing away.
LEMMA TraceMonotone ==
    ASSUME NEW s, NEW at, NEW ctx, NEW stopped, NEW later,
           TraceFollows(s, at, ctx, stopped), stopped => later
    PROVE  TraceFollows(s, at, ctx, later)
<1>1. LogFollows(s, at, ctx)
    BY DEF TraceFollows
<1>2. ErrorFollows(s, at, ctx, later)
    BY DEF TraceFollows, ErrorFollows, RecoveryFollows
<1> QED
    BY <1>1, <1>2 DEF TraceFollows

Traced(s) == TraceFollows(s, pc[s], stages[s], safe_stopped)

LEMMA RecordsStep ==
    ASSUME StateTypeOK, NEW s \in Stages, StatusFits(s), StageRecords(s), StageStep(s)
    PROVE  StageRecords(s)'
    BY BeginRecords, GateRecords, SucceedRecords, ExecuteRaisesRecords, ExitGateFailsRecords,
       RollbackRecords DEF StageStep, LeaveEntryGate

LEMMA RecordsOther ==
    ASSUME StateTypeOK, NEW s \in Stages, StageStep(s), NEW r \in Stages \ {s}
    PROVE  /\ Traced(r) => Traced(r)'
           /\ StageRecords(r) => StageRecords(r)'
<1>1. OthersKept(s) /\ ArtifactsOf(r)' = ArtifactsOf(r)
    BY StageStepEffect, OthersArtifacts
<1>2. /\ pc'[r] = pc[r] /\ stages'[r] = stages[r] /\ stage_outputs'[r] = stage_outputs[r]
      /\ safe_stopped => safe_stopped'
    BY <1>1 DEF OthersKept
<1>3. Traced(r) => Traced(r)'
    BY <1>2, TraceMonotone DEF Traced
<1> QED
    BY <1>1, <1>2, <1>3 DEF StageRecords, RecordsFollow, Traced

LEMMA RecordsStage ==
    ASSUME RunInvariant, RecordsInvariant, NEW s \in Stages, StageStep(s)
    PROVE  RecordsInvariant'
    BY RecordsStep, RecordsOther, StatusFollowsFits
    DEF RunInvariant, TypeOK, RecordsInvariant

\* run() starts coroutines and replaces the contexts of those it never started.
LEMMA RecordsEngine ==
    ASSUME RunInvariant, RecordsInvariant, EngineStep
    PROVE  RecordsInvariant'
<1> SUFFICES ASSUME NEW s \in Stages
             PROVE  StageRecords(s)'
    BY DEF RecordsInvariant
<1>0. StageRecords(s) /\ UNCHANGED <<contextVars, safe_stopped>>
    BY DEF RecordsInvariant, EngineStep, Schedule, NothingReady, Collect, Finish, RequestFinalQc,
           FailFinalQc, FinalQcTimesOut, FinalQcRejects, FinalQcApproves, FinalQcRaises,
           stageVars, outcomeVars
<1>1. CASE Schedule
    <2>1. stages' = stages /\ pc'[s] = IF s \in batch' THEN "created" ELSE pc[s]
        BY <1>1 DEF Schedule
    <2>2. s \in batch' => pc[s] = "idle"
        BY <1>1 DEF Schedule, Round, ReadyStages, RunInvariant, Bookkeeping
    <2>3. CASE s \in batch'
        <3>1. RecordsFollow(s, "idle", stages[s], stage_outputs[s], ArtifactsOf(s), safe_stopped)
            BY <1>0, <2>2, <2>3 DEF StageRecords
        <3>2. RecoveryFollows(s, "created", stages[s], safe_stopped)
            <4>1. stages[s].attempt = 0 /\ LogUpTo(s, stages[s], 0)
                BY <3>1 DEF RecordsFollow, TraceFollows, LogFollows, BeforeExecute
            <4> QED
                BY <4>1, NotGivenUp
        <3>3. RecordsFollow(s, "created", stages[s], stage_outputs[s], ArtifactsOf(s), safe_stopped)
            BY <3>1, <3>2
            DEF RecordsFollow, TraceFollows, LogFollows, BeforeExecute, GateResultsFollow,
                OutputFollows, SuccessFollows,
                ErrorFollows
        <3> QED
            BY <1>0, <2>1, <2>3, <3>3 DEF StageRecords, ArtifactsOf, contextVars
    <2>4. CASE s \notin batch'
        BY <1>0, <2>1, <2>4 DEF StageRecords, ArtifactsOf, contextVars
    <2> QED
        BY <2>3, <2>4
<1>2. CASE Finish \/ FinalQcApproves
    <2>1. Finalise /\ pc' = pc /\ phase \in {"post_loop", "final_qc"}
        BY <1>2 DEF Finish, FinalQcApproves
    <2>2. CASE stages'[s] = stages[s]
        BY <1>0, <2>1, <2>2 DEF StageRecords, ArtifactsOf, contextVars
    <2>3. CASE stages'[s] # stages[s]
        <3> DEFINE ctx == [NoContext EXCEPT !.status = "blocked"]
        <3>1. stages'[s] = ctx /\ s \in Unexecuted
            BY <2>1, <2>3 DEF Finalise
        <3>2. pc[s] = "idle"
            BY <2>1, <3>1, UnexecutedIdle
        <3>3. /\ ctx.attempt = 0 /\ ctx.attempt_records = <<>> /\ ctx.exit_gate_results = {}
              /\ ~ctx.fallback_used /\ ~ctx.has_error /\ ctx.status = "blocked"
            BY DEF NoContext
        <3> HIDE DEF ctx
        <3>4. stage_outputs[s] = "absent" /\ ArtifactsOf(s) = {}
            BY <1>0, <3>2 DEF StageRecords, RecordsFollow, TraceFollows, OutputFollows,
                              SuccessFollows
        <3>5. RecordsFollow(s, "idle", ctx, stage_outputs[s], ArtifactsOf(s), safe_stopped)
            BY <3>3, <3>4, BlankRecords
        <3> QED
            BY <1>0, <2>1, <3>1, <3>2, <3>5 DEF StageRecords, ArtifactsOf, contextVars
    <2> QED
        BY <2>2, <2>3
<1>3. CASE UNCHANGED stageVars
    BY <1>0, <1>3 DEF StageRecords, ArtifactsOf, contextVars, stageVars
<1>4. Schedule \/ Finish \/ FinalQcApproves \/ UNCHANGED stageVars
    BY DEF EngineStep, NothingReady, Collect, RequestFinalQc, FailFinalQc, FinalQcTimesOut,
           FinalQcRejects, FinalQcRaises
<1> QED
    BY <1>1, <1>2, <1>3, <1>4

LEMMA RecordsInit == Init => RecordsInvariant
<1> SUFFICES ASSUME Init, NEW s \in Stages
             PROVE  StageRecords(s)
    BY DEF RecordsInvariant
<1>1. /\ pc[s] = "idle" /\ stages[s] = NoContext /\ stage_outputs[s] = "absent"
      /\ ArtifactsOf(s) = {}
    BY DEF Init, ArtifactsOf
<1>2. /\ NoContext.attempt = 0 /\ NoContext.attempt_records = <<>>
      /\ NoContext.exit_gate_results = {}
      /\ ~NoContext.fallback_used /\ ~NoContext.has_error /\ NoContext.status = "absent"
    BY DEF NoContext
<1> QED
    BY <1>1, <1>2, BlankRecords DEF StageRecords

LEMMA RecordsNext == RunInvariant /\ RecordsInvariant /\ [Next]_vars => RecordsInvariant'
<1> SUFFICES ASSUME RunInvariant, RecordsInvariant, [Next]_vars
             PROVE  RecordsInvariant'
    OBVIOUS
<1>1. CASE EngineStep
    BY <1>1, RecordsEngine
<1>2. ASSUME NEW s \in Stages, StageStep(s)
      PROVE  RecordsInvariant'
    BY <1>2, RecordsStage
<1>3. CASE UNCHANGED vars
    BY <1>3 DEF RecordsInvariant, StageRecords, ArtifactsOf, vars, outcomeVars, contextVars
<1> QED
    BY <1>1, <1>2, <1>3 DEF Next, Terminated

\* What a run leaves on record follows from what its stages did.
THEOREM RecordsCorrect == Spec => []RecordsInvariant
    BY RecordsInit, RecordsNext, InvariantCorrect, PTL DEF Spec

-----------------------------------------------------------------------------
(* The properties.                                                         *)

\* The shared ExecutionContext holds an output for exactly the stages that
\* returned True, of the kind their context tells, and the artifacts of
\* exactly those that did not use a fallback.
THEOREM OutputsMatchContextsAlways == Spec => []OutputsMatchContexts
<1>1. ASSUME RecordsInvariant, NEW s \in Stages
      PROVE  /\ stage_outputs[s] # "absent" <=> pc[s] = "returned_true"
             /\ stage_outputs[s] = "empty" <=> stages[s].status = "skipped"
             /\ stage_outputs[s] = "produced"
                    <=> stages[s].status = "completed" /\ ~stages[s].fallback_used
             /\ {a \in Attempt : <<s, a>> \in artifacts}
                    = IF stage_outputs[s] = "produced" THEN stages[s].artifacts ELSE {}
    BY <1>1 DEF RecordsInvariant, StageRecords, RecordsFollow, TraceFollows, OutputFollows,
                SuccessFollows, ArtifactsOf
<1>2. RecordsInvariant => OutputsMatchContexts
    BY <1>1 DEF OutputsMatchContexts
<1> QED
    BY <1>2, RecordsCorrect, PTL

\* A stage that completes by its own work passed the exit gate on its last
\* attempt: the results of the attempts before it are gone.
THEOREM CompletedPassedGateAlways == Spec => []CompletedPassedGate
<1>1. RecordsInvariant => CompletedPassedGate
    BY DEF RecordsInvariant, StageRecords, RecordsFollow, TraceFollows, GateResultsFollow,
           CompletedPassedGate
<1> QED
    BY <1>1, RecordsCorrect, PTL

LEMMA TracedRecovery == (\A s \in Stages : Traced(s)) => RecoveryTraceable
<1> DEFINE Traceable(s) ==
               LET ctx == stages[s]
                   log == ctx.attempt_records
                   succeeded == pc[s] = "returned_true" /\ ~ctx.fallback_used
               IN  /\ \A i \in 1 .. Len(log) : log[i].attempt = i - 1
                   /\ \A i \in 1 .. Len(log) : log[i].recovery_decision = "retry" <=> i <= ctx.attempt
                   /\ pc[s] \in {"execute", "exit_gate"} \/ succeeded => Len(log) = ctx.attempt
                   /\ pc[s] = "rollback" \/ ctx.fallback_used => HasGivenUp(ctx)
                   /\ RecoveryFollows(s, pc[s], ctx, safe_stopped)
                   /\ ctx.attempt < EffectivePolicy(s).max_attempts
<1>1. ASSUME NEW s \in Stages, Traced(s)
      PROVE  Traceable(s)
    <2> DEFINE log == stages[s].attempt_records
               InOrder == \A i \in 1 .. Len(log) : log[i].attempt = i - 1
               Retried == \A i \in 1 .. Len(log) :
                              log[i].recovery_decision = "retry" <=> i <= stages[s].attempt
               Working == pc[s] \in {"execute", "exit_gate"}
                              \/ (pc[s] = "returned_true" /\ ~stages[s].fallback_used)
                          => Len(log) = stages[s].attempt
               GivenUp == pc[s] = "rollback" \/ stages[s].fallback_used => HasGivenUp(stages[s])
               Recovered == RecoveryFollows(s, pc[s], stages[s], safe_stopped)
               Bounded == stages[s].attempt < EffectivePolicy(s).max_attempts
    <2>1. /\ LogFollows(s, pc[s], stages[s])
          /\ stages[s].fallback_used => pc[s] = "returned_true"
          /\ Recovered
        BY <1>1 DEF Traced, TraceFollows, SuccessFollows, ErrorFollows
    <2>2. FinalLog(s, stages[s])
        BY <2>1, LogFinal DEF LogFollows
    <2>3. InOrder /\ Bounded
        BY <2>2 DEF FinalLog
    <2>4. Retried
        BY <2>2 DEF FinalLog, Decision
    <2>5. Working /\ GivenUp
        BY <2>1 DEF LogFollows, LogUpTo, BeforeExecute, HasGivenUp
    <2>6. Traceable(s) = (InOrder /\ Retried /\ Working /\ GivenUp /\ Recovered /\ Bounded)
        OBVIOUS
    <2> HIDE DEF Traceable, InOrder, Retried, Working, GivenUp, Recovered, Bounded
    <2> QED
        BY <2>1, <2>3, <2>4, <2>5, <2>6
<1> QED
    BY <1>1 DEF RecoveryTraceable

\* Every failed attempt has one record, in order; all but the last led to a
\* retry, never more than the policy grants, and from the last record and the
\* policy follows what became of the stage: a safe-stop after a critical
\* failure; after any other the preset, the skip, the rollback or the failure
\* that the policy asks for, unless a sibling has safe-stopped the workflow.
THEOREM RecoveryTraceableAlways == Spec => []RecoveryTraceable
<1>1. RecordsInvariant => \A s \in Stages : Traced(s)
    BY DEF RecordsInvariant, StageRecords, RecordsFollow, Traced
<1> QED
    BY <1>1, TracedRecovery, RecordsCorrect, PTL

-----------------------------------------------------------------------------
(* The recursion of Level has a solution.                                  *)

\* m is the level of one of the stages in P, and no other's is higher.
Highest(g, P, m) == (\E p \in P : m = g[p]) /\ \A p \in P : g[p] <= m

\* Finitely many levels have a highest one.
LEMMA HighestExists ==
    ASSUME NEW P \in SUBSET Stages, P # {}, NEW g, \A p \in P : g[p] \in Nat
    PROVE  \E m \in Nat : Highest(g, P, m)
<1> DEFINE Unbounded == {Q \in FiniteSubsetsOf(Stages) :
                             Q # {} /\ Q \subseteq P /\ ~\E m \in Nat : Highest(g, Q, m)}
<1>1. FiniteSubsetsOf(Stages) = SUBSET Stages
    BY GraphAssumption, FS_FiniteSubsetsOfFinite
<1>2. IsWellFoundedOn(StrictSubsetOrdering(Stages), FiniteSubsetsOf(Stages))
    BY FS_StrictSubsetOrderingWellFounded
<1> SUFFICES ASSUME Unbounded # {}
             PROVE  FALSE
    BY <1>1
<1>3. PICK Q \in Unbounded : \A R \in Unbounded : <<R, Q>> \notin StrictSubsetOrdering(Stages)
    <2>1. Unbounded \subseteq FiniteSubsetsOf(Stages)
        OBVIOUS
    <2> HIDE DEF Unbounded
    <2> QED
        BY <1>2, <2>1, WFMin
<1>4. PICK q \in Q : TRUE
    OBVIOUS
<1>5. CASE Q \ {q} = {}
    <2>1. Highest(g, Q, g[q]) /\ g[q] \in Nat
        BY <1>5 DEF Highest
    <2> QED
        BY <2>1
<1>6. CASE Q \ {q} # {}
    <2>1. <<Q \ {q}, Q>> \in StrictSubsetOrdering(Stages)
        BY <1>1 DEF StrictSubsetOrdering
    <2>2. PICK m \in Nat : Highest(g, Q \ {q}, m)
        BY <1>1, <1>3, <1>6, <2>1
    <2>3. CASE g[q] <= m
        <3>1. Highest(g, Q, m)
            BY <2>2, <2>3 DEF Highest
        <3> QED
            BY <3>1
    <2>4. CASE ~(g[q] <= m)
        <3>1. g[q] \in Nat /\ \A p \in Q : g[p] \in Nat
            OBVIOUS
        <3>2. Highest(g, Q, g[q])
            BY <2>2, <2>4, <3>1 DEF Highest
        <3> QED
            BY <3>1, <3>2
    <2> QED
        BY <2>3, <2>4
<1> QED
    BY <1>5, <1>6

\* The level of s, if g tells those of its predecessors.
LevelOver(g, s) ==
    LET below == {g[p] : p \in Predecessors(s)}
    IN  IF below = {} THEN 0 ELSE 1 + CHOOSE m \in below : \A l \in below : l <= m

LEMMA LevelOverHighest ==
    ASSUME NEW s \in Stages, NEW g, \A p \in Predecessors(s) : g[p] \in Nat
    PROVE  /\ LevelOver(g, s) \in Nat
           /\ \A p \in Predecessors(s) : g[p] < LevelOver(g, s)
           /\ LevelOver(g, s) # 0 => \E p \in Predecessors(s) : LevelOver(g, s) = g[p] + 1
<1> DEFINE below == {g[p] : p \in Predecessors(s)}
           highest == CHOOSE m \in below : \A l \in below : l <= m
<1>1. CASE Predecessors(s) = {}
    BY <1>1 DEF LevelOver
<1>2. CASE Predecessors(s) # {}
    <2>1. Predecessors(s) \subseteq Stages
        BY DEF Predecessors
    <2>2. PICK m \in Nat : Highest(g, Predecessors(s), m)
        BY <1>2, <2>1, HighestExists
    <2>3. m \in below /\ \A l \in below : l <= m
        BY <2>2 DEF Highest
    <2>4. highest \in below /\ \A l \in below : l <= highest
        BY <2>3
    <2>5. LevelOver(g, s) = 1 + highest
        BY <1>2 DEF LevelOver
    <2> HIDE DEF highest
    <2>6. PICK p \in Predecessors(s) : highest = g[p]
        BY <2>4
    <2>7. highest \in Nat /\ \A q \in Predecessors(s) : g[q] <= highest
        BY <2>4, <2>6
    <2> QED
        BY <2>5, <2>6, <2>7
<1> QED
    BY <1>1, <1>2

\* Only the levels of the predecessors matter.
LEMMA LevelOverSame ==
    ASSUME NEW s \in Stages, NEW g, NEW h, \A p \in Predecessors(s) : g[p] = h[p]
    PROVE  LevelOver(g, s) = LevelOver(h, s)
<1> DEFINE LevelAbove(below) ==
               IF below = {} THEN 0 ELSE 1 + CHOOSE m \in below : \A l \in below : l <= m
<1>1. {g[p] : p \in Predecessors(s)} = {h[p] : p \in Predecessors(s)}
    OBVIOUS
<1>2. /\ LevelOver(g, s) = LevelAbove({g[p] : p \in Predecessors(s)})
      /\ LevelOver(h, s) = LevelAbove({h[p] : p \in Predecessors(s)})
    BY DEF LevelOver
<1> HIDE DEF LevelAbove
<1> QED
    BY <1>1, <1>2

\* g solves the recursion on D, which has the predecessors of its stages.
Solves(g, D) ==
    /\ D \in SUBSET Stages
    /\ \A s \in D : Predecessors(s) \subseteq D /\ g[s] \in Nat /\ g[s] = LevelOver(g, s)

LEMMA SolutionsAgree ==
    ASSUME NEW g, NEW D, Solves(g, D), NEW h, NEW E, Solves(h, E), NEW s \in D \cap E
    PROVE  g[s] = h[s]
<1> DEFINE differing == {t \in D \cap E : g[t] # h[t]}
<1> SUFFICES ASSUME differing # {}
             PROVE  FALSE
    OBVIOUS
<1>1. differing \in SUBSET Stages
    BY DEF Solves
<1>2. PICK t \in differing : \A p \in differing : <<p, t>> \notin Dependencies
    BY <1>1, GraphAssumption DEF ValidGraph, IsAcyclic
<1>3. \A p \in Predecessors(t) : g[p] = h[p]
    BY <1>2 DEF Solves, Predecessors
<1>4. LevelOver(g, t) = LevelOver(h, t)
    BY <1>1, <1>3, LevelOverSame
<1> QED
    BY <1>4 DEF Solves

\* What the solutions agree on.
Solved == {s \in Stages : \E D \in SUBSET Stages : \E g : Solves(g, D) /\ s \in D}

LEMMA SolutionOnSolved == \E f : Solves(f, Solved) /\ f = [s \in Solved |-> f[s]]
<1> DEFINE Of(s, n) == \E D \in SUBSET Stages : \E g : Solves(g, D) /\ s \in D /\ n = g[s]
           f == [s \in Solved |-> CHOOSE n : Of(s, n)]
<1>1. ASSUME NEW D \in SUBSET Stages, NEW g, Solves(g, D), NEW s \in D
      PROVE  s \in Solved /\ f[s] = g[s]
    <2>1. s \in Solved
        BY <1>1 DEF Solved
    <2>2. Of(s, g[s])
        BY <1>1
    <2>3. \A n : Of(s, n) => n = g[s]
        BY <1>1, SolutionsAgree
    <2> HIDE DEF Of
    <2> QED
        BY <2>1, <2>2, <2>3
<1> HIDE DEF f
<1>2. ASSUME NEW s \in Solved
      PROVE  Predecessors(s) \subseteq Solved /\ f[s] \in Nat /\ f[s] = LevelOver(f, s)
    <2>0. PICK D \in SUBSET Stages : \E g : Solves(g, D) /\ s \in D
        BY DEF Solved
    <2>1. PICK g : Solves(g, D) /\ s \in D
        BY <2>0
    <2>2. \A p \in Predecessors(s) : p \in Solved /\ f[p] = g[p]
        BY <1>1, <2>1 DEF Solves
    <2>3. LevelOver(f, s) = LevelOver(g, s)
        BY <2>1, <2>2, LevelOverSame
    <2> QED
        BY <1>1, <2>1, <2>2, <2>3 DEF Solves
<1>3. f = [s \in Solved |-> f[s]]
    BY DEF f
<1>4. Solved \in SUBSET Stages
    BY DEF Solved
<1> QED
    BY <1>2, <1>3, <1>4 DEF Solves

\* A first stage without a solution would have one by its predecessors'.
LEMMA AllSolved == Solved = Stages
<1> SUFFICES ASSUME Stages \ Solved # {}
             PROVE  FALSE
    BY DEF Solved
<1>1. PICK f : Solves(f, Solved)
    BY SolutionOnSolved
<1>2. PICK s \in Stages \ Solved : \A p \in Stages \ Solved : <<p, s>> \notin Dependencies
    BY GraphAssumption DEF ValidGraph, IsAcyclic
<1>3. Predecessors(s) \subseteq Solved
    BY <1>2 DEF Predecessors
<1> DEFINE D == Solved \cup {s}
           g == [t \in D |-> IF t = s THEN LevelOver(f, s) ELSE f[t]]
<1>4. D \in SUBSET Stages
    BY DEF Solved
<1>5. \A t \in Solved : g[t] = f[t]
    BY <1>2
<1>6. g[s] = LevelOver(f, s)
    OBVIOUS
<1> HIDE DEF g
<1>7. ASSUME NEW t \in D
      PROVE  Predecessors(t) \subseteq D /\ g[t] \in Nat /\ g[t] = LevelOver(g, t)
    <2>1. Predecessors(t) \subseteq Solved
        BY <1>1, <1>3 DEF Solves
    <2>2. LevelOver(g, t) = LevelOver(f, t)
        BY <1>4, <1>5, <2>1, LevelOverSame
    <2>3. LevelOver(f, t) \in Nat
        BY <1>1, <1>4, <2>1, LevelOverHighest DEF Solves
    <2> QED
        BY <1>1, <1>5, <1>6, <2>1, <2>2, <2>3 DEF Solves
<1>8. Solves(g, D)
    BY <1>4, <1>7 DEF Solves
<1>9. s \in Solved
    BY <1>4, <1>8 DEF Solved
<1> QED
    BY <1>2, <1>9

\* get_parallel_groups is well defined: a stage's level is a number above its
\* predecessors' and, unless it is a root's, next to one of them.
LEMMA LevelProperties ==
    ASSUME NEW s \in Stages
    PROVE  /\ Level[s] \in Nat
           /\ \A p \in Predecessors(s) : Level[p] < Level[s]
           /\ Level[s] # 0 => \E p \in Predecessors(s) : Level[s] = Level[p] + 1
<1> DEFINE Recursion(g) == g = [t \in Stages |-> LevelOver(g, t)]
<1>1. PICK f : Solves(f, Stages) /\ f = [t \in Stages |-> f[t]]
    BY AllSolved, SolutionOnSolved
<1>2. Recursion(f)
    BY <1>1 DEF Solves
<1>3. Level = CHOOSE g : Recursion(g)
    BY DEF Level, LevelOver
<1> HIDE DEF Recursion
<1>4. Recursion(Level)
    BY <1>2, <1>3
<1>5. \A t \in Stages : Level[t] = LevelOver(Level, t)
    BY <1>4 DEF Recursion
<1>6. \A t \in Stages : Level[t] = f[t]
    <2> DEFINE differing == {t \in Stages : Level[t] # f[t]}
    <2> SUFFICES ASSUME differing # {}
                 PROVE  FALSE
        OBVIOUS
    <2>1. PICK t \in differing : \A p \in differing : <<p, t>> \notin Dependencies
        BY GraphAssumption DEF ValidGraph, IsAcyclic
    <2>2. \A p \in Predecessors(t) : Level[p] = f[p]
        BY <2>1 DEF Predecessors
    <2>3. LevelOver(Level, t) = LevelOver(f, t)
        BY <2>2, LevelOverSame
    <2> QED
        BY <1>1, <1>5, <2>1, <2>3 DEF Solves
<1>7. \A p \in Predecessors(s) : Level[p] \in Nat
    BY <1>1, <1>6 DEF Solves, Predecessors
<1> QED
    BY <1>5, <1>7, LevelOverHighest

-----------------------------------------------------------------------------
(* The rounds.                                                             *)

\* The stages below level n are complete when a round begins, and the round
\* runs all those of level n.
Rounds ==
    /\ phase = "loop" => \E n \in Nat : completed = {s \in Stages : Level[s] < n}
    /\ phase = "gather" =>
           \E n \in Nat : /\ batch = ParallelGroup(n) /\ batch # {}
                         /\ completed = {s \in Stages : Level[s] < n}

\* The stages that are ready when all below level n are complete.
LEMMA ReadyGroup ==
    ASSUME NEW n \in Nat
    PROVE  ReadyStages({s \in Stages : Level[s] < n}) = ParallelGroup(n)
<1> DEFINE done == {s \in Stages : Level[s] < n}
<1>1. ASSUME NEW s \in Stages, Level[s] = n
      PROVE  s \in ReadyStages(done)
    <2>1. s \notin done
        BY <1>1
    <2>2. Predecessors(s) \subseteq done
        BY <1>1, LevelProperties DEF Predecessors
    <2> QED
        BY <2>1, <2>2 DEF ReadyStages
<1>2. ASSUME NEW s \in ReadyStages(done)
      PROVE  s \in Stages /\ Level[s] = n
    <2>1. s \in Stages /\ Predecessors(s) \subseteq done /\ Level[s] \in Nat /\ ~(Level[s] < n)
        BY LevelProperties DEF ReadyStages
    <2>2. ASSUME Level[s] # n
          PROVE  FALSE
        <3>1. PICK p \in Predecessors(s) : Level[s] = Level[p] + 1
            BY <2>1, <2>2, LevelProperties
        <3>2. p \in Stages /\ Level[p] \in Nat /\ Level[p] < n
            BY <2>1, LevelProperties
        <3> QED
            BY <2>1, <2>2, <3>1, <3>2
    <2> QED
        BY <2>1, <2>2
<1> QED
    BY <1>1, <1>2 DEF ParallelGroup

LEMMA RoundsInit == Init => Rounds
<1> SUFFICES ASSUME Init
             PROVE  Rounds
    OBVIOUS
<1>1. {s \in Stages : Level[s] < 0} = {}
    BY LevelProperties
<1> QED
    BY <1>1 DEF Init, Rounds

LEMMA RoundsNext == RunInvariant /\ Rounds /\ [Next]_vars => Rounds'
<1> SUFFICES ASSUME RunInvariant, Rounds, [Next]_vars
             PROVE  Rounds'
    OBVIOUS
<1>1. CASE Schedule
    <2>1. PICK n \in Nat : completed = {s \in Stages : Level[s] < n}
        BY <1>1 DEF Schedule, Rounds
    <2>2. /\ batch' = ParallelGroup(n) /\ batch' # {}
          /\ phase' = "gather" /\ completed' = completed
        BY <1>1, <2>1, ReadyGroup DEF Schedule, Round
    <2> QED
        BY <2>1, <2>2 DEF Rounds, ParallelGroup
<1>2. CASE Collect
    <2>1. PICK n \in Nat : batch = ParallelGroup(n)
                           /\ completed = {s \in Stages : Level[s] < n}
        BY <1>2 DEF Collect, Rounds
    <2>2. SUFFICES ASSUME phase' = "loop"
                   PROVE  completed' = {s \in Stages : Level[s] < n + 1}
        BY <1>2 DEF Collect, Rounds
    <2>3. \A s \in batch : pc[s] = "returned_true"
        BY <1>2, <2>2 DEF Collect, LoopEnds
    <2>4. completed' = completed \cup batch
        BY <1>2, <2>3 DEF Collect
    <2>5. \A s \in Stages : Level[s] < n + 1 <=> (Level[s] < n \/ Level[s] = n)
        BY LevelProperties
    <2> QED
        BY <2>1, <2>4, <2>5 DEF ParallelGroup
<1>3. CASE NothingReady \/ Finish \/ RequestFinalQc \/ FinalQcTimesOut \/ FinalQcRejects
           \/ FinalQcApproves \/ FinalQcRaises
    BY <1>3
    DEF NothingReady, Finish, RequestFinalQc, FinalQcTimesOut, FinalQcRejects, FinalQcApproves,
        FinalQcRaises, FailFinalQc, Finalise, Rounds
<1>4. ASSUME NEW s \in Stages, StageStep(s)
      PROVE  Rounds'
    <2>1. UNCHANGED runVars
        BY <1>4, StageStepPhase
    <2> QED
        BY <2>1 DEF Rounds, runVars, ParallelGroup
<1>5. CASE UNCHANGED vars
    BY <1>5 DEF Rounds, vars, runVars, ParallelGroup
<1> QED
    BY <1>1, <1>2, <1>3, <1>4, <1>5 DEF Next, EngineStep, Terminated

\* For every workflow definition: a round runs one whole parallel group, when
\* exactly the earlier groups have completed.
THEOREM RoundsAreGroupsAlways == Spec => []RoundsAreGroups
<1>1. ASSUME Rounds
      PROVE  RoundsAreGroups
    <2> SUFFICES ASSUME phase = "gather"
                 PROVE  \E n \in {Level[s] : s \in Stages} :
                            /\ batch = ParallelGroup(n)
                            /\ completed = {s \in Stages : Level[s] < n}
        BY DEF RoundsAreGroups
    <2>1. PICK n \in Nat : /\ batch = ParallelGroup(n) /\ batch # {}
                           /\ completed = {s \in Stages : Level[s] < n}
        BY <1>1 DEF Rounds
    <2>2. n \in {Level[s] : s \in Stages}
        BY <2>1 DEF ParallelGroup
    <2> QED
        BY <2>1, <2>2
<1> QED
    BY <1>1, RoundsInit, RoundsNext, InvariantCorrect, PTL DEF Spec

-----------------------------------------------------------------------------
(* Every step of a run is a step of AbstractWorkflow, or stutters.         *)

\* Where the coroutines are when run() is not waiting for a round.
LEMMA BetweenRounds ==
    ASSUME RunInvariant, phase # "gather", NEW s \in Stages
    PROVE  /\ pc[s] = "idle" <=> s \notin completed \cup failed
           /\ pc[s] = "returned_true" <=> s \in completed
           /\ pc[s] \in {"returned_false", "raised"} <=> s \in failed
    BY DEF RunInvariant, Bookkeeping

LEMMA ProgressBetweenRounds ==
    ASSUME RunInvariant, phase # "gather"
    PROVE  /\ Abstract!In("running") = {}
           /\ Abstract!In("done") = completed
           /\ Abstract!In("failed") = failed
           /\ Abstract!In("waiting") = Stages \ (completed \cup failed)
<1>1. ASSUME NEW s \in Stages
      PROVE  /\ Progress(s) # "running"
             /\ Progress(s) = "done" <=> s \in completed
             /\ Progress(s) = "failed" <=> s \in failed
             /\ Progress(s) = "waiting" <=> s \notin completed \cup failed
    <2>1. pc[s] \in {"idle", "returned_true", "returned_false", "raised"}
        BY <1>1, BetweenRounds
    <2> QED
        BY <1>1, <2>1, BetweenRounds DEF Progress, Awaiting
<1>2. completed \subseteq Stages /\ failed \subseteq Stages
    BY DEF RunInvariant, TypeOK, StateTypeOK
<1> QED
    BY <1>1, <1>2 DEF Abstract!In

LEMMA RefinesInit == Init => Abstract!Init
<1> SUFFICES ASSUME Init
             PROVE  Abstract!Init
    OBVIOUS
<1>1. \A s \in Stages : Progress(s) = "waiting"
    BY DEF Init, Progress, Awaiting
<1>2. Outcome = "open"
    BY DEF Init, Outcome
<1> QED
    BY <1>1, <1>2 DEF Abstract!Init

\* A round starts all ready stages at once.
LEMMA RefinesSchedule ==
    ASSUME RunInvariant, Schedule
    PROVE  Abstract!Start(batch')
<1>1. /\ phase = "loop" /\ failed = {} /\ phase' = "gather"
      /\ batch' # {} /\ batch' \subseteq Stages \ completed
      /\ \A s \in batch' : Predecessors(s) \subseteq completed
    BY DEF Schedule, Round, ReadyStages, RunInvariant, Bookkeeping
<1>2. /\ Abstract!In("done") = completed /\ Abstract!In("failed") = {}
      /\ Abstract!In("waiting") = Stages \ completed
    BY <1>1, ProgressBetweenRounds
<1>3. Outcome = "open" /\ Outcome' = "open"
    BY <1>1 DEF Outcome
<1>4. \A s \in Stages : Progress(s)' = IF s \in batch' THEN "running" ELSE Progress(s)
    BY DEF Schedule, Progress, Awaiting
<1>5. \A s \in batch' : Abstract!Predecessors(s) \subseteq Abstract!In("done")
    BY <1>1, <1>2 DEF Abstract!Predecessors, Predecessors
<1>6. [s \in Stages |-> Progress(s)]' =
          [s \in Stages |-> IF s \in batch' THEN "running" ELSE [r \in Stages |-> Progress(r)][s]]
    BY <1>4
<1> QED
    BY <1>1, <1>2, <1>3, <1>5, <1>6 DEF Abstract!Start

\* A coroutine that returns or raises settles its stage, the others stutter.
LEMMA RefinesStage ==
    ASSUME RunInvariant, NEW s \in Stages, StageStep(s)
    PROVE  Abstract!Settle(s) \/ UNCHANGED Abstract!vars
<1>1. OthersKept(s) /\ (Creates(s) \/ PassesGate(s) \/ Works(s))
    BY StageStepEffect DEF RunInvariant, TypeOK
<1>2. pc[s] \in Awaiting
    BY <1>1 DEF Creates, PassesGate, Works, Awaiting
<1>3. pc'[s] \in Awaiting \cup Returned
    BY <1>1 DEF Creates, PassesGate, Works, Awaiting, Returned
<1>4. Outcome' = Outcome
    <2>1. phase = "gather" /\ phase' = phase
        BY <1>1, MovesInRound DEF OthersKept, runVars
    <2> QED
        BY <2>1 DEF Outcome
<1>5. Progress(s) = "running" /\ Progress(s)' \in {"running", "done", "failed"}
    BY <1>2, <1>3 DEF Progress, Awaiting, Returned
<1>6. \A r \in Stages \ {s} : Progress(r)' = Progress(r)
    BY <1>1 DEF OthersKept, Progress
<1> DEFINE progress == [r \in Stages |-> Progress(r)]
<1>7. progress' = [progress EXCEPT ![s] = Progress(s)']
    BY <1>6
<1>8. progress[s] = "running"
    BY <1>5
<1>9. CASE Progress(s)' = "running"
    <2>1. progress' = progress
        BY <1>5, <1>6, <1>9
    <2> QED
        BY <1>4, <2>1 DEF Abstract!vars
<1>10. CASE Progress(s)' \in {"done", "failed"}
    BY <1>4, <1>7, <1>8, <1>10 DEF Abstract!Settle
<1> QED
    BY <1>5, <1>9, <1>10

\* The last step of run() ends the workflow with an outcome its stages justify.
LEMMA RefinesEnd ==
    ASSUME RunInvariant,
           Finish \/ FinalQcTimesOut \/ FinalQcRejects \/ FinalQcApproves \/ FinalQcRaises
    PROVE  Abstract!End
<1>1. phase \in {"post_loop", "final_qc"} /\ pc' = pc
    BY DEF Finish, FinalQcTimesOut, FinalQcRejects, FinalQcApproves, FinalQcRaises, FailFinalQc,
           stageVars
<1>2. /\ Abstract!In("running") = {}
      /\ Abstract!In("done") = completed /\ Abstract!In("failed") = failed
    BY <1>1, ProgressBetweenRounds
<1>3. Outcome = "open"
    BY <1>1 DEF Outcome
<1>4. [s \in Stages |-> Progress(s)]' = [s \in Stages |-> Progress(s)]
    BY <1>1 DEF Progress
<1>5. CASE Finish
    <2>1. phase' = "returned" /\ status' = FinalStatus
        BY <1>5 DEF Finish, Finalise
    <2>2. /\ safe_stopped => status = "stopped" /\ failed # {}
          /\ failed = {} => completed = Stages
        BY <1>1 DEF RunInvariant, StatusFollowsPhase, LoopOutcome, Bookkeeping
    <2>3. Outcome' \in IF failed # {} THEN {"failed", "stopped"} ELSE {"completed"}
        BY <2>1, <2>2 DEF Outcome, FinalStatus
    <2> QED
        BY <1>2, <1>3, <1>4, <2>2, <2>3 DEF Abstract!End
<1>6. CASE FinalQcTimesOut \/ FinalQcRejects \/ FinalQcApproves \/ FinalQcRaises
    <2>1. failed = {} /\ completed = Stages /\ ~safe_stopped
        BY <1>6
        DEF FinalQcTimesOut, FinalQcRejects, FinalQcApproves, FinalQcRaises, RunInvariant,
            LoopOutcome, QcNeeded
    <2>2. Outcome' \in {"completed", "failed", "lost"}
        BY <1>6, <2>1
        DEF FinalQcTimesOut, FinalQcRejects, FinalQcApproves, FinalQcRaises, FailFinalQc, Finalise,
            FinalStatus, Outcome
    <2> QED
        BY <1>2, <1>3, <1>4, <2>1, <2>2 DEF Abstract!End
<1> QED
    BY <1>5, <1>6

\* The other steps of run() are not seen.
LEMMA RefinesStutter ==
    ASSUME NothingReady \/ Collect \/ RequestFinalQc \/ UNCHANGED vars
    PROVE  UNCHANGED Abstract!vars
<1>1. pc' = pc
    BY DEF NothingReady, Collect, RequestFinalQc, stageVars, vars
<1>2. Outcome' = Outcome
    <2>1. CASE UNCHANGED vars
        BY <2>1 DEF vars, runVars, outcomeVars, Outcome
    <2>2. CASE NothingReady \/ Collect \/ RequestFinalQc
        BY <2>2 DEF NothingReady, Collect, RequestFinalQc, Outcome
    <2> QED
        BY <2>1, <2>2
<1>3. [s \in Stages |-> Progress(s)]' = [s \in Stages |-> Progress(s)]
    BY <1>1 DEF Progress
<1> QED
    BY <1>2, <1>3 DEF Abstract!vars

LEMMA RefinesNext == RunInvariant /\ [Next]_vars => [Abstract!Next]_(Abstract!vars)
<1> SUFFICES ASSUME RunInvariant, [Next]_vars
             PROVE  [Abstract!Next]_(Abstract!vars)
    OBVIOUS
<1>1. CASE Schedule
    <2>1. batch' \in SUBSET Stages
        BY <1>1 DEF Schedule, Round, ReadyStages
    <2> QED
        BY <1>1, <2>1, RefinesSchedule DEF Abstract!Next
<1>2. ASSUME NEW s \in Stages, StageStep(s)
      PROVE  [Abstract!Next]_(Abstract!vars)
    BY <1>2, RefinesStage DEF Abstract!Next
<1>3. CASE Finish \/ FinalQcTimesOut \/ FinalQcRejects \/ FinalQcApproves \/ FinalQcRaises
    BY <1>3, RefinesEnd DEF Abstract!Next
<1>4. CASE NothingReady \/ Collect \/ RequestFinalQc \/ UNCHANGED vars
    BY <1>4, RefinesStutter
<1> QED
    BY <1>1, <1>2, <1>3, <1>4 DEF Next, EngineStep, Terminated

\* For every workflow, policy and environment a run of the engine is a run of
\* the abstract workflow: no stage starts before its predecessors are done or
\* after a failure, none settles twice, and the run ends at most once, with an
\* outcome that its stages justify.
THEOREM RefinesAbstract == Spec => Abstract!Safety
<1>1. Init => Abstract!Init
    BY RefinesInit
<1>2. RunInvariant /\ [Next]_vars => [Abstract!Next]_(Abstract!vars)
    BY RefinesNext
<1> QED
    BY <1>1, <1>2, InvariantCorrect, PTL DEF Spec, Abstract!Safety

=============================================================================
