--------------------------- MODULE ApprovalsProofs ---------------------------
(***************************************************************************)
(* Proofs about the gates of an engine run, for every list of policies,    *)
(* freeze window, preset, chain of delegates and behaviour of the operator *)
(* at the terminal.                                                        *)
(***************************************************************************)
EXTENDS Approvals, WorkflowEngineProofs

-----------------------------------------------------------------------------
(* The inductive invariant.                                                *)

ApprovalsTypeOK ==
    /\ now \in Nat
    /\ evaluated_at \in [Stages -> Nat \cup {Unset}]
    /\ started_at \in [Stages -> Nat \cup {Unset}]
    /\ level \in [Stages -> 0 .. Len(Gateways)]
    /\ answers \in [Stages -> Seq(BOOLEAN)]
    /\ prompt \in Stages \cup {"none"}
    /\ shared \in SUBSET Stages
    /\ typed \in [Stages -> (Line \cup {"none"}) \X (Stages \cup {"none"})]

\* Nobody has been asked about s, and s has not started.
Undecided(s) == approvals[s] = "none" /\ started_at[s] = Unset

BeforeGate == {"idle", "created", "entry_gate"}

\* Where the escalation is, by where the coroutine is.
Escalating(s) ==
    /\ pc[s] \in BeforeGate => Undecided(s) /\ level[s] = 0 /\ answers[s] = <<>>
    /\ pc[s] = "approval" =>
           /\ Undecided(s)
           /\ level[s] > 0
           /\ Len(answers[s]) = level[s] - 1
           /\ \A i \in 1 .. Len(answers[s]) : ~answers[s][i]

\* A stage that waits for approval or has started was evaluated before, as the
\* record of that moment says, and not blocked.
Evaluated(s) ==
    /\ pc[s] = "approval" \/ started_at[s] # Unset =>
           /\ evaluated_at[s] \in 0 .. now
           /\ policy_evaluations[s] = Evaluate(Policies, StageAction[s], evaluated_at[s])
           /\ policy_evaluations[s] # "block"
    /\ Executed(s) => started_at[s] # Unset
    /\ started_at[s] # Unset =>
           /\ started_at[s] \in evaluated_at[s] .. now
           /\ approvals[s] = "approved" \/ started_at[s] = evaluated_at[s]

\* What EscalationSound and OperatorHeeded say of one stage.
EscalatedSoundly(s) ==
    /\ approvals[s] = "approved" =>
           /\ answers[s] # <<>>
           /\ \A i \in 1 .. Len(answers[s]) : answers[s][i] <=> i = Len(answers[s])
    /\ approvals[s] = "rejected" => answers[s] = [i \in 1 .. Len(Gateways) |-> FALSE]

Heeded(s) ==
    s \notin shared /\ approvals[s] = "approved" /\ Gateways[level[s]] = "human"
    => typed[s] = <<"y", s>>

GateRecord(s) == Escalating(s) /\ Evaluated(s) /\ EscalatedSoundly(s) /\ Heeded(s)

\* A stage that waits for a line and never did so beside another one is the
\* only one that waits, and the last prompt is its own.
Terminal == \A s \in Reading \ shared : Reading = {s} /\ prompt = s

ApprovalsInvariant ==
    /\ RunInvariant
    /\ ApprovalsTypeOK
    /\ \A s \in Stages : GateRecord(s)
    /\ Terminal


-----------------------------------------------------------------------------
(* The decision of the policy engine.                                      *)

LEMMA EnforcementType ==
    ASSUME NEW p
    PROVE  Enforcement(p) \in {"warn", "require_approval", "block"}
    BY DEF Enforcement

\* The aggregate of several decisions is one of them of the highest priority.
LEMMA AggregateHighest ==
    ASSUME NEW decisions \in SUBSET {"warn", "require_approval", "block"}
    PROVE  /\ "block" \in decisions => AggregateDecision(decisions) = "block"
           /\ "block" \notin decisions /\ "require_approval" \in decisions
                  => AggregateDecision(decisions) = "require_approval"
<1> DEFINE Outranks(d) == d \in decisions /\ \A e \in decisions : Priority[d] >= Priority[e]
<1>1. Priority["warn"] = 1 /\ Priority["require_approval"] = 2 /\ Priority["block"] = 3
    BY DEF Priority
<1>2. ASSUME decisions # {}, \E d : Outranks(d)
      PROVE  Outranks(AggregateDecision(decisions))
    BY <1>2 DEF AggregateDecision
<1>3. ASSUME "block" \in decisions
      PROVE  AggregateDecision(decisions) = "block"
    <2>1. Outranks("block")
        BY <1>1, <1>3
    <2> HIDE DEF Outranks
    <2>2. Outranks(AggregateDecision(decisions))
        BY <1>2, <1>3, <2>1
    <2>3. /\ AggregateDecision(decisions) \in decisions
          /\ Priority[AggregateDecision(decisions)] >= Priority["block"]
        BY <1>3, <2>2 DEF Outranks
    <2>4. AggregateDecision(decisions) \in {"warn", "require_approval", "block"}
        BY <2>3
    <2> QED
        BY <1>1, <1>3, <2>3, <2>4
<1>4. ASSUME "block" \notin decisions, "require_approval" \in decisions
      PROVE  AggregateDecision(decisions) = "require_approval"
    <2>1. Outranks("require_approval")
        BY <1>1, <1>4
    <2> HIDE DEF Outranks
    <2>2. Outranks(AggregateDecision(decisions))
        BY <1>2, <1>4, <2>1
    <2>3. /\ AggregateDecision(decisions) \in decisions
          /\ Priority[AggregateDecision(decisions)] >= Priority["require_approval"]
        BY <1>4, <2>2 DEF Outranks
    <2>4. AggregateDecision(decisions) \in {"warn", "require_approval", "block"}
        BY <2>3
    <2> QED
        BY <1>1, <1>4, <2>3, <2>4
<1> QED
    BY <1>3, <1>4

\* A policy that blocks and fires blocks, whatever the others say; one that
\* asks for approval and fires gets no milder decision.
LEMMA EvaluateStrictest ==
    ASSUME NEW policies, NEW action, NEW time,
           NEW p \in policies, Fires(p, action, time)
    PROVE  /\ Enforcement(p) = "block" => Evaluate(policies, action, time) = "block"
           /\ Enforcement(p) = "require_approval"
                  => Evaluate(policies, action, time) \in {"require_approval", "block"}
<1> DEFINE firing == {q \in policies : Fires(q, action, time)}
           decisions == {Enforcement(q) : q \in firing}
<1>1. decisions \in SUBSET {"warn", "require_approval", "block"}
    BY EnforcementType
<1>2. Enforcement(p) \in decisions
    OBVIOUS
<1>3. Evaluate(policies, action, time) = AggregateDecision(decisions)
    BY DEF Evaluate
<1> HIDE DEF decisions
<1> QED
    BY <1>1, <1>2, <1>3, AggregateHighest

-----------------------------------------------------------------------------
(* Every step is one of the engine, or leaves the engine alone.            *)

\* How the delegates' answers move the engine.
LEMMA AnsweredSteps ==
    ASSUME NEW s \in Stages, NEW approved \in BOOLEAN, Answered(s, approved)
    PROVE  \/ UNCHANGED vars
           \/ approved /\ Approve(s)
           \/ ~approved /\ Reject(s)
    BY DEF Answered, Escalate

LEMMA GateStep ==
    ASSUME NEW s \in Stages,
           GovernanceGate(s) \/ DelegateAnswers(s) \/ OperatorAnswers(s)
           \/ OperatorUnclear(s) \/ TerminalCloses(s) \/ OtherStageStep(s)
    PROVE  StageStep(s) \/ UNCHANGED vars
<1>1. CASE GovernanceGate(s)
    BY <1>1 DEF GovernanceGate, StageStep, LeaveEntryGate, BlockByPolicy, RequestApproval,
                StartUnapproved, PolicyDecides, PassEntryGate
<1>2. CASE DelegateAnswers(s)
    BY <1>2 DEF DelegateAnswers, Answered, Escalate, StageStep
<1>3. CASE OperatorAnswers(s)
    BY <1>3 DEF OperatorAnswers, Answered, Escalate, StageStep
<1>4. CASE OperatorUnclear(s)
    BY <1>4 DEF OperatorUnclear
<1>5. CASE TerminalCloses(s)
    BY <1>5 DEF TerminalCloses, StageStep
<1>6. CASE OtherStageStep(s)
    BY <1>6 DEF OtherStageStep, StageStep, LeaveEntryGate, EntryGateFails, BlockCritical,
                PassEntryGate
<1> QED
    BY <1>1, <1>2, <1>3, <1>4, <1>5, <1>6

\* A run with these gates is a run of the engine.
LEMMA EngineKept == [ApprovalsNext]_approvalVars => [Next]_vars
<1> SUFFICES ASSUME [ApprovalsNext]_approvalVars
             PROVE  [Next]_vars
    OBVIOUS
<1>1. CASE EngineStep
    BY <1>1 DEF Next
<1>2. ASSUME NEW s \in Stages, StageStep(s)
      PROVE  Next
    BY <1>2 DEF Next
<1>3. CASE UNCHANGED approvalVars \/ Tick
    BY <1>3 DEF approvalVars, Tick
<1> QED
    BY <1>1, <1>2, <1>3, GateStep DEF ApprovalsNext

-----------------------------------------------------------------------------
(* Steps that do not decide about a stage.                                 *)

\* Nothing has been asked or decided about r, and it has not come nearer to
\* execute().
Undisturbed(r) ==
    /\ approvals'[r] = approvals[r]
    /\ policy_evaluations'[r] = policy_evaluations[r]
    /\ level'[r] = level[r] /\ answers'[r] = answers[r] /\ typed'[r] = typed[r]
    /\ evaluated_at'[r] = evaluated_at[r] /\ started_at'[r] = started_at[r]
    /\ pc'[r] \in BeforeGate => pc[r] \in BeforeGate
    /\ pc'[r] = "approval" => pc[r] = "approval"
    /\ Executed(r)' => Executed(r)

LEMMA RecordUndisturbed ==
    ASSUME ApprovalsTypeOK, now' \in Nat, now' >= now, shared \subseteq shared',
           NEW r \in Stages, GateRecord(r), Undisturbed(r)
    PROVE  GateRecord(r)'
<1>1. Escalating(r)'
    BY DEF GateRecord, Escalating, Undecided, Undisturbed
<1>2. Evaluated(r)'
    <2>1. /\ evaluated_at[r] \in Nat \cup {Unset}
          /\ started_at[r] \in Nat \cup {Unset}
          /\ now \in Nat
        BY DEF ApprovalsTypeOK
    <2>2. /\ evaluated_at[r] \in 0 .. now => evaluated_at[r] \in 0 .. now'
          /\ started_at[r] \in evaluated_at[r] .. now => started_at[r] \in evaluated_at[r] .. now'
        BY <2>1 DEF Unset
    <2> QED
        BY <2>2 DEF GateRecord, Evaluated, Undisturbed
<1>3. EscalatedSoundly(r)'
    BY DEF GateRecord, EscalatedSoundly, Undisturbed
<1>4. Heeded(r)'
    BY DEF GateRecord, Heeded, Undisturbed
<1> QED
    BY <1>1, <1>2, <1>3, <1>4 DEF GateRecord

\* What a step of s does to the records of the others.
LEMMA OthersUndisturbed ==
    ASSUME NEW s \in Stages, OthersKept(s), NEW r \in Stages \ {s},
           level'[r] = level[r], answers'[r] = answers[r], typed'[r] = typed[r],
           evaluated_at'[r] = evaluated_at[r], started_at'[r] = started_at[r]
    PROVE  Undisturbed(r)
    BY DEF OthersKept, Undisturbed, Executed

LEMMA TerminalKept ==
    ASSUME Terminal, Reading' \subseteq Reading, UNCHANGED <<prompt, shared>>
    PROVE  Terminal'
    BY DEF Terminal


\* The steps of run() decide about no stage: they create coroutines, and
\* replace the contexts of stages that never started.
LEMMA EngineUndisturbed ==
    ASSUME RunInvariant, EngineStep, UNCHANGED <<gateways, clocks>>, NEW r \in Stages
    PROVE  Undisturbed(r)
<1>1. UNCHANGED <<approvals, policy_evaluations>>
    BY DEF EngineStep, Schedule, NothingReady, Collect, Finish, RequestFinalQc, FinalQcTimesOut,
           FinalQcRejects, FinalQcApproves, FinalQcRaises, FailFinalQc, gateVars, stageVars
<1>2. pc'[r] = pc[r] \/ (pc[r] = "idle" /\ pc'[r] = "created")
    <2>1. CASE Schedule
        <3>1. pc' = [s \in Stages |-> IF s \in batch' THEN "created" ELSE pc[s]]
              /\ batch' = ReadyStages(completed) /\ phase = "loop"
            BY <2>1 DEF Schedule, Round
        <3>2. r \in batch' => r \notin completed \cup failed \cup batch
            BY <3>1 DEF ReadyStages, RunInvariant, Bookkeeping
        <3>3. r \in batch' => pc[r] = "idle"
            BY <3>2 DEF RunInvariant, Bookkeeping
        <3> QED
            BY <3>1, <3>3
    <2>2. CASE ~Schedule
        BY <2>2
        DEF EngineStep, NothingReady, Collect, Finish, RequestFinalQc, FinalQcTimesOut,
            FinalQcRejects, FinalQcApproves, FinalQcRaises, FailFinalQc, stageVars
    <2> QED
        BY <2>1, <2>2
<1>3. stages'[r] = stages[r] \/ stages'[r].attempt_records = <<>>
    <2>1. [NoContext EXCEPT !.status = "blocked"].attempt_records = <<>>
        BY DEF NoContext
    <2>2. CASE Finalise
        BY <2>1, <2>2 DEF Finalise
    <2>3. CASE ~Finalise
        BY <2>3
        DEF EngineStep, Schedule, NothingReady, Collect, Finish, RequestFinalQc, FinalQcTimesOut,
            FinalQcRejects, FinalQcApproves, FinalQcRaises, FailFinalQc, stageVars
    <2> QED
        BY <2>2, <2>3
<1> QED
    BY <1>1, <1>2, <1>3 DEF Undisturbed, Executed, BeforeGate, gateways, clocks

\* A stage that begins, is refused at its entry, or works.
LEMMA StageUndisturbed ==
    ASSUME RunInvariant, NEW s \in Stages, OtherStageStep(s), UNCHANGED <<gateways, clocks>>
    PROVE  OthersKept(s) /\ Undisturbed(s)
<1>1. UNCHANGED <<level, answers, typed, evaluated_at, started_at>>
    BY DEF gateways, clocks
<1>2. StateTypeOK /\ Guarded(s)
    BY DEF RunInvariant, TypeOK, Guards
<1>3. CASE Begin(s)
    <2>1. OthersKept(s) /\ Creates(s)
        BY <1>2, <1>3, BeginEffect
    <2>2. NewContext(s).attempt_records = <<>>
        BY DEF NewContext, NoContext
    <2> QED
        BY <1>1, <1>3, <2>1, <2>2
        DEF Creates, Begin, OnlyStage, gateVars, Undisturbed, Executed, BeforeGate
<1>4. CASE EntryGateFails(s) \/ BlockCritical(s)
    <2>1. OthersKept(s) /\ PassesGate(s)
        BY <1>2, <1>4, GateEffect
    <2>2. /\ pc[s] = "entry_gate" /\ pc'[s] = "returned_false"
          /\ UNCHANGED <<approvals, policy_evaluations>>
        BY <1>2, <1>4, StepToEffect
        DEF EntryGateFails, BlockCritical, PassEntryGate, OnlyStage, gateVars
    <2>3. stages'[s].attempt_records = <<>>
        BY <1>2, <2>1, <2>2 DEF PassesGate, Guarded
    <2> QED
        BY <1>1, <2>1, <2>2, <2>3 DEF Undisturbed, Executed, BeforeGate
<1>5. CASE pc[s] \in {"execute", "exit_gate", "rollback"} /\ StageStep(s)
    <2>1. OthersKept(s) /\ Works(s)
        BY <1>2, <1>5, StageStepEffect DEF Creates, PassesGate
    <2> QED
        BY <1>1, <2>1 DEF Works, DecisionsKept, Undisturbed, Executed, BeforeGate
<1> QED
    BY <1>3, <1>4, <1>5 DEF OtherStageStep


-----------------------------------------------------------------------------
(* The gate of _execute_stage.                                             *)

LEMMA AskTerminal ==
    ASSUME Terminal, ApprovalsTypeOK, NEW s \in Stages, NEW n, AskDelegate(s, n),
           pc'[s] = "approval", \A r \in Stages \ {s} : pc'[r] = pc[r]
    PROVE  Terminal' /\ shared \subseteq shared'
<1>1. level'[s] = n /\ \A r \in Stages \ {s} : level'[r] = level[r]
    BY DEF AskDelegate, ApprovalsTypeOK
<1>2. Reading' \ {s} = Reading \ {s}
    BY <1>1 DEF Reading
<1>3. CASE Gateways[n] = "human"
    <2>1. prompt' = s /\ s \in Reading'
        BY <1>1, <1>3 DEF AskDelegate, Reading
    <2>2. shared' = IF Reading \ {s} = {} THEN shared ELSE shared \cup Reading \cup {s}
        BY <1>3 DEF AskDelegate
    <2>3. CASE Reading \ {s} = {}
        BY <1>2, <2>1, <2>2, <2>3 DEF Terminal
    <2>4. CASE Reading \ {s} # {}
        <3>1. Reading' \ shared' = {}
            BY <1>2, <2>2, <2>4
        <3> QED
            BY <2>2, <2>4, <3>1 DEF Terminal
    <2> QED
        BY <2>3, <2>4
<1>4. CASE Gateways[n] # "human"
    <2>1. Reading' \subseteq Reading
        BY <1>1, <1>2, <1>4 DEF Reading
    <2> QED
        BY <1>4, <2>1, TerminalKept DEF AskDelegate
<1> QED
    BY <1>3, <1>4

\* What the gate decides is the decision of that very moment.
LEMMA GovernanceGateRecord ==
    ASSUME ApprovalsInvariant, NEW s \in Stages, GovernanceGate(s)
    PROVE  GateRecord(s)'
<1>1. StateTypeOK /\ Guarded(s) /\ GateRecord(s) /\ ApprovalsTypeOK
    BY DEF ApprovalsInvariant, RunInvariant, TypeOK, Guards
<1>2. PassesGate(s)
    BY <1>1, GateEffect DEF GovernanceGate
<1>3. pc[s] = "entry_gate" /\ approvals'[s] = approvals[s]
    BY DEF GovernanceGate, BlockByPolicy, RequestApproval, StartUnapproved, PolicyDecides,
           PassEntryGate
<1>4. /\ pc'[s] \in {"returned_false", "approval", "execute"}
      /\ stages'[s].attempt_records = <<>>
    BY <1>1, <1>2, <1>3 DEF PassesGate, Guarded
<1>5. /\ policy_evaluations'[s] = Evaluate(Policies, StageAction[s], now)
      /\ evaluated_at'[s] = now /\ now' = now /\ now \in Nat
      /\ answers' = answers
    BY <1>1 DEF GovernanceGate, ApprovalsTypeOK
<1>6. Undecided(s) /\ level[s] = 0 /\ answers[s] = <<>>
    BY <1>1, <1>3 DEF GateRecord, Escalating, BeforeGate
<1>7. EscalatedSoundly(s)' /\ Heeded(s)'
    BY <1>3, <1>6 DEF Undecided, EscalatedSoundly, Heeded
<1>8. CASE pc'[s] = "returned_false"
    <2>1. started_at'[s] = Unset
        BY <1>6, <1>8 DEF GovernanceGate, Undecided
    <2> QED
        BY <1>4, <1>7, <1>8, <2>1 DEF GateRecord, Escalating, BeforeGate, Evaluated, Executed
<1>9. CASE pc'[s] = "approval"
    <2>1. started_at'[s] = Unset /\ policy_evaluations'[s] # "block"
        BY <1>2, <1>6, <1>9 DEF GovernanceGate, Undecided, PassesGate, Cleared
    <2>2. level'[s] = 1
        BY <1>1, <1>9 DEF GovernanceGate, AskDelegate, ApprovalsTypeOK
    <2>3. Escalating(s)'
        BY <1>3, <1>5, <1>6, <1>9, <2>1, <2>2 DEF Escalating, Undecided, BeforeGate
    <2>4. Evaluated(s)'
        BY <1>4, <1>5, <1>9, <2>1 DEF Evaluated, Executed
    <2> QED
        BY <1>7, <2>3, <2>4 DEF GateRecord
<1>10. CASE pc'[s] = "execute"
    <2>1. started_at'[s] = now
        BY <1>1, <1>10 DEF GovernanceGate, ApprovalsTypeOK
    <2>2. policy_evaluations'[s] # "block"
        BY <1>2, <1>3, <1>10 DEF PassesGate, Cleared
    <2>3. Escalating(s)'
        BY <1>10 DEF Escalating, BeforeGate
    <2>4. Evaluated(s)'
        BY <1>5, <2>1, <2>2 DEF Evaluated, Unset
    <2> QED
        BY <1>7, <2>3, <2>4 DEF GateRecord
<1> QED
    BY <1>4, <1>8, <1>9, <1>10

LEMMA GovernanceGateKeeps ==
    ASSUME ApprovalsInvariant, NEW s \in Stages, GovernanceGate(s)
    PROVE  /\ \A r \in Stages : GateRecord(r)'
           /\ Terminal'
<1>1. StateTypeOK /\ ApprovalsTypeOK /\ Terminal
    BY DEF ApprovalsInvariant, RunInvariant, TypeOK
<1>2. OthersKept(s)
    BY <1>1, GateEffect DEF GovernanceGate
<1>3. \A r \in Stages \ {s} : pc'[r] = pc[r]
    BY <1>2 DEF OthersKept
<1>4. Terminal' /\ shared \subseteq shared'
    <2>1. CASE pc'[s] = "approval"
        BY <1>1, <1>3, <2>1, AskTerminal DEF GovernanceGate
    <2>2. CASE pc'[s] # "approval"
        <3>1. UNCHANGED <<level, prompt, shared>>
            BY <2>2 DEF GovernanceGate
        <3>2. Reading' \subseteq Reading
            BY <1>3, <2>2, <3>1 DEF Reading
        <3> QED
            BY <1>1, <3>1, <3>2, TerminalKept
    <2> QED
        BY <2>1, <2>2
<1>5. ASSUME NEW r \in Stages \ {s}
      PROVE  GateRecord(r)'
    <2>1. /\ level'[r] = level[r]
          /\ evaluated_at'[r] = evaluated_at[r] /\ started_at'[r] = started_at[r]
          /\ answers' = answers /\ typed' = typed
          /\ now' = now /\ now \in Nat
        BY <1>1 DEF GovernanceGate, AskDelegate, ApprovalsTypeOK
    <2>2. Undisturbed(r)
        BY <1>2, <2>1, OthersUndisturbed
    <2> QED
        BY <1>1, <1>4, <2>1, <2>2, RecordUndisturbed DEF ApprovalsInvariant
<1> QED
    BY <1>4, <1>5, GovernanceGateRecord


-----------------------------------------------------------------------------
(* An answer: of a delegate, or of the operator.                           *)

LEMMA AppendLength ==
    ASSUME NEW S, NEW q \in Seq(S), NEW x \in S
    PROVE  Append(q, x) \in Seq(S) /\ Len(Append(q, x)) = Len(q) + 1
    OBVIOUS

\* The answers after one more of them.
LEMMA OneMoreAnswer ==
    ASSUME ApprovalsTypeOK, NEW s \in Stages, NEW approved \in BOOLEAN,
           GateRecord(s), pc[s] = "approval",
           answers' = [answers EXCEPT ![s] = Append(@, approved)]
    PROVE  /\ answers'[s] \in Seq(BOOLEAN)
           /\ Len(answers'[s]) = level[s]
           /\ \A i \in 1 .. level[s] : answers'[s][i] <=> (approved /\ i = level[s])
<1>1. answers[s] \in Seq(BOOLEAN) /\ level[s] \in Nat
    BY DEF ApprovalsTypeOK
<1>2. /\ level[s] > 0
      /\ Len(answers[s]) = level[s] - 1
      /\ \A i \in 1 .. Len(answers[s]) : ~answers[s][i]
    BY DEF GateRecord, Escalating
<1>3. answers'[s] = Append(answers[s], approved)
    BY DEF ApprovalsTypeOK
<1>4. /\ answers'[s] \in Seq(BOOLEAN)
      /\ Len(answers'[s]) = level[s]
    <2>1. Append(answers[s], approved) \in Seq(BOOLEAN)
          /\ Len(Append(answers[s], approved)) = Len(answers[s]) + 1
        BY <1>1, AppendLength, Zenon
    <2>2. answers'[s] \in Seq(BOOLEAN)
        BY <1>3, <2>1, Zenon
    <2>3. Len(answers'[s]) = Len(answers[s]) + 1
        BY <1>3, <2>1
    <2> QED
        BY <1>1, <1>2, <2>2, <2>3
<1>5. answers'[s][level[s]] = approved
    BY <1>1, <1>2, <1>3
<1>6. ASSUME NEW i \in 1 .. level[s], i # level[s]
      PROVE  ~answers'[s][i]
    <2>1. i \in 1 .. Len(answers[s])
        BY <1>1, <1>2, <1>6
    <2>2. answers'[s][i] = answers[s][i]
        BY <1>1, <1>3, <2>1
    <2> QED
        BY <1>2, <2>1, <2>2
<1> QED
    BY <1>4, <1>5, <1>6

LEMMA AllRefused ==
    ASSUME NEW refusals \in Seq(BOOLEAN), \A i \in 1 .. Len(refusals) : ~refusals[i]
    PROVE  refusals = [i \in 1 .. Len(refusals) |-> FALSE]
<1>1. refusals = [i \in 1 .. Len(refusals) |-> refusals[i]]
    OBVIOUS
<1>2. \A i \in 1 .. Len(refusals) : refusals[i] = FALSE
    <2>1. \A i \in 1 .. Len(refusals) : refusals[i] \in BOOLEAN
        OBVIOUS
    <2> QED
        BY <2>1
<1> QED
    BY <1>1, <1>2

LEMMA AnsweredRecord ==
    ASSUME ApprovalsInvariant, NEW s \in Stages, NEW approved \in BOOLEAN,
           pc[s] = "approval", Answered(s, approved),
           approved /\ Gateways[level[s]] = "human" /\ s \notin shared => typed'[s] = <<"y", s>>
    PROVE  GateRecord(s)'
<1>1. StateTypeOK /\ Guarded(s) /\ GateRecord(s) /\ ApprovalsTypeOK
    BY DEF ApprovalsInvariant, RunInvariant, TypeOK, Guards
<1>2. /\ answers'[s] \in Seq(BOOLEAN)
      /\ Len(answers'[s]) = level[s]
      /\ \A i \in 1 .. level[s] : answers'[s][i] <=> (approved /\ i = level[s])
    BY <1>1, OneMoreAnswer DEF Answered
<1>3. Undecided(s) /\ level[s] > 0 /\ level[s] \in Nat
    BY <1>1 DEF GateRecord, Escalating, ApprovalsTypeOK
<1>4. /\ evaluated_at[s] \in 0 .. now
      /\ policy_evaluations[s] = Evaluate(Policies, StageAction[s], evaluated_at[s])
      /\ policy_evaluations[s] # "block"
    BY <1>1 DEF GateRecord, Evaluated
<1>5. ~Executed(s) /\ now \in Nat /\ stages[s].attempt_records = <<>>
    BY <1>1, <1>3 DEF GateRecord, Evaluated, Undecided, ApprovalsTypeOK, Guarded
<1>6. CASE ~ChainEnds(s, approved)
    <2>1. ~approved /\ AskDelegate(s, level[s] + 1) /\ UNCHANGED <<vars, clocks>>
        BY <1>6 DEF Answered, ChainEnds, Escalate
    <2>2. level'[s] = level[s] + 1
        BY <1>1, <2>1 DEF AskDelegate, ApprovalsTypeOK
    <2>3. UNCHANGED <<pc, stages, approvals, policy_evaluations, now, evaluated_at, started_at>>
        BY <2>1 DEF vars, gateVars, clocks
    <2>4. Escalating(s)'
        BY <1>2, <1>3, <2>1, <2>2, <2>3 DEF Escalating, Undecided, BeforeGate
    <2>5. Evaluated(s)'
        BY <1>1, <2>3 DEF GateRecord, Evaluated, Executed
    <2>6. EscalatedSoundly(s)' /\ Heeded(s)'
        BY <1>3, <2>3 DEF Undecided, EscalatedSoundly, Heeded
    <2> QED
        BY <2>4, <2>5, <2>6 DEF GateRecord
<1>7. CASE ChainEnds(s, approved) /\ approved
    <2>1. /\ Approve(s)
          /\ started_at' = [started_at EXCEPT ![s] = now]
          /\ UNCHANGED <<level, shared, now, evaluated_at>>
        BY <1>7 DEF Answered
    <2>2. /\ pc'[s] = "execute" /\ approvals'[s] = "approved"
          /\ policy_evaluations' = policy_evaluations
        BY <1>1, <2>1, StepToEffect DEF Approve, StateTypeOK
    <2>3. started_at'[s] = now
        BY <1>1, <2>1 DEF ApprovalsTypeOK
    <2>4. Escalating(s)'
        BY <2>2 DEF Escalating, BeforeGate
    <2>5. Evaluated(s)'
        BY <1>4, <1>5, <2>1, <2>2, <2>3 DEF Evaluated, Unset
    <2>6. EscalatedSoundly(s)'
        <3>1. answers'[s] # <<>>
            BY <1>2, <1>3
        <3> QED
            BY <1>2, <1>7, <2>2, <3>1 DEF EscalatedSoundly
    <2>7. Heeded(s)'
        BY <1>7, <2>1 DEF Heeded
    <2> QED
        BY <2>4, <2>5, <2>6, <2>7 DEF GateRecord
<1>8. CASE ChainEnds(s, approved) /\ ~approved
    <2>1. /\ Reject(s)
          /\ level[s] = Len(Gateways)
          /\ UNCHANGED <<level, shared, now, evaluated_at, started_at>>
        BY <1>8 DEF Answered, ChainEnds
    <2>2. /\ pc'[s] = "returned_false" /\ approvals'[s] = "rejected"
          /\ stages'[s].attempt_records = <<>>
        <3>1. stages[s] \in StageContext
            BY <1>1 DEF StateTypeOK
        <3>2. AsFailed(stages[s]).attempt_records = <<>>
            BY <1>5, <3>1 DEF AsFailed, StageContext
        <3> QED
            BY <1>1, <2>1, <3>2, StepToEffect DEF Reject, StateTypeOK
    <2>3. Escalating(s)'
        BY <2>2 DEF Escalating, BeforeGate
    <2>4. Evaluated(s)'
        BY <1>3, <2>1, <2>2 DEF Evaluated, Undecided, Executed
    <2>5. answers'[s] = [i \in 1 .. Len(Gateways) |-> FALSE]
        BY <1>2, <1>8, <2>1, AllRefused
    <2>6. EscalatedSoundly(s)' /\ Heeded(s)'
        BY <2>2, <2>5 DEF EscalatedSoundly, Heeded
    <2> QED
        BY <2>3, <2>4, <2>6 DEF GateRecord
<1> QED
    BY <1>6, <1>7, <1>8

LEMMA AnsweredKeeps ==
    ASSUME ApprovalsInvariant, NEW s \in Stages, NEW approved \in BOOLEAN,
           pc[s] = "approval", Answered(s, approved),
           \A r \in Stages \ {s} : typed'[r] = typed[r]
    PROVE  /\ \A r \in Stages \ {s} : GateRecord(r)'
           /\ Terminal'
<1>1. StateTypeOK /\ ApprovalsTypeOK /\ Terminal
    BY DEF ApprovalsInvariant, RunInvariant, TypeOK
<1>2. CASE ~ChainEnds(s, approved)
    <2>1. AskDelegate(s, level[s] + 1) /\ UNCHANGED <<vars, clocks>>
        BY <1>2 DEF Answered, Escalate
    <2>2. UNCHANGED <<pc, stages, approvals, policy_evaluations, now, evaluated_at, started_at>>
        BY <2>1 DEF vars, gateVars, clocks
    <2>3. Terminal' /\ shared \subseteq shared'
        BY <1>1, <2>1, <2>2, AskTerminal
    <2>4. ASSUME NEW r \in Stages \ {s}
          PROVE  GateRecord(r)'
        <3>1. level'[r] = level[r] /\ answers'[r] = answers[r] /\ now \in Nat
            BY <1>1, <2>1 DEF AskDelegate, Answered, ApprovalsTypeOK
        <3>2. Undisturbed(r)
            BY <2>2, <3>1 DEF Undisturbed, Executed
        <3> QED
            BY <1>1, <2>2, <2>3, <3>1, <3>2, RecordUndisturbed DEF ApprovalsInvariant
    <2> QED
        BY <2>3, <2>4
<1>3. CASE ChainEnds(s, approved)
    <2>1. OthersKept(s) /\ PassesGate(s)
        BY <1>1, <1>3, GateEffect DEF Answered
    <2>2. /\ UNCHANGED <<level, prompt, shared, now, evaluated_at>>
          /\ started_at' = started_at \/ started_at' = [started_at EXCEPT ![s] = now]
        BY <1>3 DEF Answered
    <2>3. pc'[s] # "approval"
        BY <1>1, <1>3, StepToEffect DEF Answered, Approve, Reject
    <2>4. Reading' \subseteq Reading
        BY <2>1, <2>2, <2>3 DEF Reading, OthersKept
    <2>5. ASSUME NEW r \in Stages \ {s}
          PROVE  GateRecord(r)'
        <3>1. answers'[r] = answers[r] /\ started_at'[r] = started_at[r] /\ now \in Nat
            BY <1>1, <2>2 DEF Answered, ApprovalsTypeOK
        <3>2. Undisturbed(r)
            BY <2>1, <2>2, <3>1, OthersUndisturbed
        <3> QED
            BY <1>1, <2>2, <3>1, <3>2, RecordUndisturbed DEF ApprovalsInvariant
    <2> QED
        BY <1>1, <2>2, <2>4, <2>5, TerminalKept
<1> QED
    BY <1>2, <1>3


-----------------------------------------------------------------------------
(* Types.                                                                  *)

LEMMA AskType ==
    ASSUME ApprovalsTypeOK, NEW s \in Stages, NEW n \in 1 .. Len(Gateways), AskDelegate(s, n)
    PROVE  /\ level' \in [Stages -> 0 .. Len(Gateways)]
           /\ prompt' \in Stages \cup {"none"}
           /\ shared' \in SUBSET Stages
<1>1. Reading \subseteq Stages
    BY DEF Reading
<1>2. n \in 0 .. Len(Gateways)
    BY ApprovalsAssumption
<1> QED
    BY <1>1, <1>2 DEF AskDelegate, ApprovalsTypeOK

LEMMA AnsweredType ==
    ASSUME ApprovalsTypeOK, NEW s \in Stages, NEW approved \in BOOLEAN, Answered(s, approved)
    PROVE  /\ now' \in Nat
           /\ evaluated_at' \in [Stages -> Nat \cup {Unset}]
           /\ started_at' \in [Stages -> Nat \cup {Unset}]
           /\ level' \in [Stages -> 0 .. Len(Gateways)]
           /\ answers' \in [Stages -> Seq(BOOLEAN)]
           /\ prompt' \in Stages \cup {"none"}
           /\ shared' \in SUBSET Stages
<1>1. answers' \in [Stages -> Seq(BOOLEAN)]
    <2>1. Append(answers[s], approved) \in Seq(BOOLEAN)
        BY AppendLength, Zenon DEF ApprovalsTypeOK
    <2> QED
        BY <2>1 DEF Answered, ApprovalsTypeOK
<1>2. CASE ~ChainEnds(s, approved)
    <2>1. level[s] + 1 \in 1 .. Len(Gateways)
        BY <1>2, ApprovalsAssumption DEF ChainEnds, ApprovalsTypeOK
    <2>2. AskDelegate(s, level[s] + 1) /\ UNCHANGED clocks
        BY <1>2 DEF Answered, Escalate
    <2> QED
        BY <1>1, <2>1, <2>2, AskType DEF ApprovalsTypeOK, clocks
<1>3. CASE ChainEnds(s, approved)
    <2>1. UNCHANGED <<level, prompt, shared, now, evaluated_at>>
          /\ started_at' = IF approved THEN [started_at EXCEPT ![s] = now] ELSE started_at
        BY <1>3 DEF Answered
    <2> QED
        BY <1>1, <2>1 DEF ApprovalsTypeOK
<1> QED
    BY <1>2, <1>3

LEMMA ApprovalsTypeStep ==
    ASSUME ApprovalsTypeOK, NEW s \in Stages,
           GovernanceGate(s) \/ DelegateAnswers(s) \/ OperatorAnswers(s)
           \/ OperatorUnclear(s) \/ TerminalCloses(s)
    PROVE  ApprovalsTypeOK'
<1>1. CASE GovernanceGate(s)
    <2>1. /\ level' \in [Stages -> 0 .. Len(Gateways)]
          /\ prompt' \in Stages \cup {"none"}
          /\ shared' \in SUBSET Stages
        <3>1. CASE pc'[s] = "approval"
            <4>1. 1 \in 1 .. Len(Gateways)
                BY ApprovalsAssumption
            <4> QED
                BY <1>1, <3>1, <4>1, AskType DEF GovernanceGate
        <3>2. CASE pc'[s] # "approval"
            BY <1>1, <3>2 DEF GovernanceGate, ApprovalsTypeOK
        <3> QED
            BY <3>1, <3>2
    <2>2. /\ UNCHANGED <<answers, typed, now>>
          /\ evaluated_at' = [evaluated_at EXCEPT ![s] = now]
          /\ started_at' = started_at \/ started_at' = [started_at EXCEPT ![s] = now]
        BY <1>1 DEF GovernanceGate
    <2> QED
        BY <2>1, <2>2 DEF ApprovalsTypeOK
<1>2. CASE DelegateAnswers(s)
    <2>1. PICK approved \in BOOLEAN : Answered(s, approved)
        <3>1. PresetDecision(s) \in BOOLEAN
            BY ApprovalsAssumption DEF PresetDecision
        <3> QED
            BY <1>2, <3>1 DEF DelegateAnswers
    <2> QED
        BY <1>2, <2>1, AnsweredType DEF DelegateAnswers, ApprovalsTypeOK
<1>3. CASE OperatorAnswers(s)
    <2>1. PICK line \in Approving \cup Rejecting :
              /\ typed' = [typed EXCEPT ![s] = <<line, prompt>>]
              /\ Answered(s, line \in Approving)
        BY <1>3 DEF OperatorAnswers
    <2>2. typed' \in [Stages -> (Line \cup {"none"}) \X (Stages \cup {"none"})]
        BY <2>1 DEF ApprovalsTypeOK, Approving, Rejecting, Line
    <2>3. (line \in Approving) \in BOOLEAN
        OBVIOUS
    <2> QED
        BY <2>1, <2>2, <2>3, AnsweredType DEF ApprovalsTypeOK
<1>4. CASE OperatorUnclear(s)
    BY <1>4 DEF OperatorUnclear, ApprovalsTypeOK, clocks
<1>5. CASE TerminalCloses(s)
    BY <1>5 DEF TerminalCloses, ApprovalsTypeOK, gateways, clocks
<1> QED
    BY <1>1, <1>2, <1>3, <1>4, <1>5

-----------------------------------------------------------------------------
(* The invariant holds in every run.                                       *)

LEMMA DelegateAnswersKeeps ==
    ASSUME ApprovalsInvariant, NEW s \in Stages, DelegateAnswers(s)
    PROVE  (\A r \in Stages : GateRecord(r)') /\ Terminal'
<1>1. PICK approved \in BOOLEAN : Answered(s, approved)
    <2>1. PresetDecision(s) \in BOOLEAN
        BY ApprovalsAssumption DEF PresetDecision
    <2> QED
        BY <2>1 DEF DelegateAnswers
<1>2. pc[s] = "approval" /\ Gateways[level[s]] # "human" /\ typed' = typed
    BY DEF DelegateAnswers
<1> QED
    BY <1>1, <1>2, AnsweredRecord, AnsweredKeeps

LEMMA OperatorAnswersKeeps ==
    ASSUME ApprovalsInvariant, NEW s \in Stages, OperatorAnswers(s)
    PROVE  (\A r \in Stages : GateRecord(r)') /\ Terminal'
<1>1. PICK line \in Approving \cup Rejecting :
          /\ typed' = [typed EXCEPT ![s] = <<line, prompt>>]
          /\ Answered(s, line \in Approving)
    BY DEF OperatorAnswers
<1>2. pc[s] = "approval" /\ s \in Reading
    BY DEF OperatorAnswers, Reading
<1>3. s \notin shared => prompt = s
    BY <1>2 DEF ApprovalsInvariant, Terminal
<1>4. typed'[s] = <<line, prompt>> /\ \A r \in Stages \ {s} : typed'[r] = typed[r]
    BY <1>1 DEF ApprovalsInvariant, ApprovalsTypeOK
<1>5. line \in Approving /\ s \notin shared => typed'[s] = <<"y", s>>
    BY <1>3, <1>4 DEF Approving
<1> DEFINE approved == line \in Approving
<1>6. approved \in BOOLEAN /\ Answered(s, approved)
    BY <1>1
<1>7. approved /\ Gateways[level[s]] = "human" /\ s \notin shared => typed'[s] = <<"y", s>>
    BY <1>5
<1> HIDE DEF approved
<1> QED
    BY <1>2, <1>4, <1>6, <1>7, AnsweredRecord, AnsweredKeeps

LEMMA OperatorUnclearKeeps ==
    ASSUME ApprovalsInvariant, NEW s \in Stages, OperatorUnclear(s)
    PROVE  (\A r \in Stages : GateRecord(r)') /\ Terminal'
<1>1. /\ prompt' = s /\ s \in Reading
      /\ UNCHANGED <<pc, stages, approvals, policy_evaluations, level, answers, shared, typed,
                     now, evaluated_at, started_at>>
    BY DEF OperatorUnclear, vars, gateVars, clocks
<1>2. \A r \in Stages : Undisturbed(r)
    BY <1>1 DEF Undisturbed, Executed
<1>3. \A r \in Stages : GateRecord(r)'
    BY <1>1, <1>2, RecordUndisturbed DEF ApprovalsInvariant, ApprovalsTypeOK
<1>4. Reading' = Reading
    BY <1>1 DEF Reading
<1> QED
    BY <1>1, <1>3, <1>4 DEF ApprovalsInvariant, Terminal

LEMMA TerminalClosesKeeps ==
    ASSUME ApprovalsInvariant, NEW s \in Stages, TerminalCloses(s)
    PROVE  (\A r \in Stages : GateRecord(r)') /\ Terminal'
<1>1. StateTypeOK /\ ApprovalsTypeOK /\ Guarded(s)
    BY DEF ApprovalsInvariant, RunInvariant, TypeOK, Guards
<1>2. OthersKept(s)
    BY <1>1, GateEffect DEF TerminalCloses
<1>3. /\ pc[s] = "approval" /\ pc'[s] = "raised" /\ stages'[s] = stages[s]
      /\ UNCHANGED <<approvals, policy_evaluations>>
    BY <1>1, StepToEffect DEF TerminalCloses, GatewayRaises, OnlyStage, gateVars
<1>4. UNCHANGED <<level, answers, prompt, shared, typed, now, evaluated_at, started_at>>
    BY DEF TerminalCloses, gateways, clocks
<1>5. Undisturbed(s)
    BY <1>1, <1>3, <1>4 DEF Undisturbed, Executed, Guarded, BeforeGate
<1>6. \A r \in Stages : Undisturbed(r)
    BY <1>2, <1>4, <1>5, OthersUndisturbed
<1>7. \A r \in Stages : GateRecord(r)'
    BY <1>1, <1>4, <1>6, RecordUndisturbed DEF ApprovalsInvariant, ApprovalsTypeOK
<1>8. Reading' \subseteq Reading
    BY <1>2, <1>3, <1>4 DEF Reading, OthersKept
<1> QED
    BY <1>4, <1>7, <1>8, TerminalKept DEF ApprovalsInvariant

\* The steps in which the gates and the clock have no part.
LEMMA EngineStepKeeps ==
    ASSUME ApprovalsInvariant, UNCHANGED <<gateways, clocks>>,
           EngineStep \/ \E s \in Stages : OtherStageStep(s)
    PROVE  ApprovalsTypeOK' /\ (\A r \in Stages : GateRecord(r)') /\ Terminal'
<1>1. UNCHANGED <<level, answers, prompt, shared, typed, now, evaluated_at, started_at>>
    BY DEF gateways, clocks
<1>2. ApprovalsTypeOK'
    BY <1>1 DEF ApprovalsInvariant, ApprovalsTypeOK
<1>3. \A r \in Stages : Undisturbed(r)
    <2>1. CASE EngineStep
        BY <2>1, EngineUndisturbed DEF ApprovalsInvariant
    <2>2. ASSUME NEW s \in Stages, OtherStageStep(s)
          PROVE  \A r \in Stages : Undisturbed(r)
        BY <1>1, <2>2, StageUndisturbed, OthersUndisturbed DEF ApprovalsInvariant
    <2> QED
        BY <2>1, <2>2
<1>4. \A r \in Stages : GateRecord(r)'
    BY <1>1, <1>3, RecordUndisturbed DEF ApprovalsInvariant, ApprovalsTypeOK
<1>5. Reading' \subseteq Reading
    BY <1>1, <1>3 DEF Reading, Undisturbed
<1> QED
    BY <1>1, <1>2, <1>4, <1>5, TerminalKept DEF ApprovalsInvariant

LEMMA TickKeeps ==
    ASSUME ApprovalsInvariant, Tick \/ UNCHANGED approvalVars
    PROVE  ApprovalsTypeOK' /\ (\A r \in Stages : GateRecord(r)') /\ Terminal'
<1>1. /\ UNCHANGED <<pc, stages, approvals, policy_evaluations, level, answers, prompt, shared,
                     typed, evaluated_at, started_at>>
      /\ now \in Nat /\ (now' = now \/ now' = now + 1)
    BY DEF Tick, approvalVars, vars, gateVars, gateways, clocks, ApprovalsInvariant,
           ApprovalsTypeOK
<1>2. ApprovalsTypeOK'
    BY <1>1 DEF ApprovalsInvariant, ApprovalsTypeOK
<1>3. \A r \in Stages : Undisturbed(r)
    BY <1>1 DEF Undisturbed, Executed
<1>4. \A r \in Stages : GateRecord(r)'
    BY <1>1, <1>3, RecordUndisturbed DEF ApprovalsInvariant
<1>5. Reading' = Reading
    BY <1>1 DEF Reading
<1> QED
    BY <1>1, <1>2, <1>4, <1>5, TerminalKept DEF ApprovalsInvariant

LEMMA ApprovalsInitKeeps == ApprovalsInit => ApprovalsInvariant
<1> SUFFICES ASSUME ApprovalsInit
             PROVE  ApprovalsInvariant
    OBVIOUS
<1>1. RunInvariant
    BY InvariantInit DEF ApprovalsInit
<1>2. ApprovalsTypeOK
    BY ApprovalsAssumption DEF ApprovalsInit, ApprovalsTypeOK
<1>3. Terminal
    BY DEF ApprovalsInit, Init, Terminal, Reading
<1>4. ASSUME NEW s \in Stages
      PROVE  GateRecord(s)
    <2>1. /\ pc[s] = "idle" /\ approvals[s] = "none"
          /\ stages[s].attempt_records = <<>>
          /\ level[s] = 0 /\ answers[s] = <<>> /\ started_at[s] = Unset
        BY DEF ApprovalsInit, Init, NoContext
    <2> QED
        BY <2>1
        DEF GateRecord, Escalating, Undecided, Evaluated, Executed, EscalatedSoundly, Heeded
<1> QED
    BY <1>1, <1>2, <1>3, <1>4 DEF ApprovalsInvariant

LEMMA ApprovalsNextKeeps ==
    ApprovalsInvariant /\ [ApprovalsNext]_approvalVars => ApprovalsInvariant'
<1> SUFFICES ASSUME ApprovalsInvariant, [ApprovalsNext]_approvalVars
             PROVE  ApprovalsInvariant'
    OBVIOUS
<1>1. RunInvariant'
    BY EngineKept, InvariantNext DEF ApprovalsInvariant
<1>2. CASE (EngineStep \/ \E s \in Stages : OtherStageStep(s)) /\ UNCHANGED <<gateways, clocks>>
    BY <1>1, <1>2, EngineStepKeeps DEF ApprovalsInvariant
<1>3. ASSUME NEW s \in Stages,
             GovernanceGate(s) \/ DelegateAnswers(s) \/ OperatorAnswers(s)
             \/ OperatorUnclear(s) \/ TerminalCloses(s)
      PROVE  ApprovalsInvariant'
    <2>1. ApprovalsTypeOK'
        BY <1>3, ApprovalsTypeStep DEF ApprovalsInvariant
    <2>2. (\A r \in Stages : GateRecord(r)') /\ Terminal'
        BY <1>3, GovernanceGateKeeps, DelegateAnswersKeeps, OperatorAnswersKeeps,
           OperatorUnclearKeeps, TerminalClosesKeeps
    <2> QED
        BY <1>1, <2>1, <2>2 DEF ApprovalsInvariant
<1>4. CASE Tick \/ UNCHANGED approvalVars
    BY <1>1, <1>4, TickKeeps DEF ApprovalsInvariant
<1> QED
    BY <1>2, <1>3, <1>4 DEF ApprovalsNext

\* The inductive invariant of the gates: how far the escalation of a stage is,
\* when its policies were evaluated and with what result, and who waits at the
\* terminal.
THEOREM ApprovalsInvariantCorrect == ApprovalsSpec => []ApprovalsInvariant
    BY ApprovalsInitKeeps, ApprovalsNextKeeps, PTL DEF ApprovalsSpec

\* Whatever the chain of delegates: escalation stops at the first approval and
\* never before the last delegate otherwise.
THEOREM EscalationSoundAlways == ApprovalsSpec => []EscalationSound
<1>1. ApprovalsInvariant => EscalationSound
    BY DEF ApprovalsInvariant, GateRecord, EscalatedSoundly, EscalationSound
<1> QED
    BY <1>1, ApprovalsInvariantCorrect, PTL

\* However the threads take turns at the terminal: a stage that never waited
\* beside another one was approved there only by a "y" to its own prompt.
THEOREM OperatorHeededAlways == ApprovalsSpec => []OperatorHeeded
<1>1. ApprovalsInvariant => OperatorHeeded
    BY DEF ApprovalsInvariant, GateRecord, Heeded, OperatorHeeded
<1> QED
    BY <1>1, ApprovalsInvariantCorrect, PTL

\* A stage that starts was evaluated before, and nothing that blocks fired.
LEMMA StartedUnblocked ==
    ASSUME ApprovalsInvariant, NEW s \in Stages, started_at[s] # Unset,
           NEW p \in Policies, Enforcement(p) = "block"
    PROVE  ~Fires(p, StageAction[s], evaluated_at[s])
<1>1. Evaluate(Policies, StageAction[s], evaluated_at[s]) # "block"
    BY DEF ApprovalsInvariant, GateRecord, Evaluated
<1> QED
    BY <1>1, EvaluateStrictest

\* Whatever policies an engine has, and whatever the user's own one raises: a
\* stage executes only if none that blocks fired, and a release only approved.
THEOREM GovernanceFailsSafeAlways == ApprovalsSpec => []GovernanceFailsSafe
<1>1. ASSUME ApprovalsInvariant
      PROVE  GovernanceFailsSafe
    <2> SUFFICES ASSUME NEW s \in Stages, Executed(s)
                 PROVE  /\ \A p \in Policies : Enforcement(p) = "block"
                                              => ~Fires(p, StageAction[s], evaluated_at[s])
                        /\ "USER" \in Policies => evaluated_at[s] \notin RaisesAt
                        /\ "CC-001" \in Policies /\ Release(StageAction[s])
                               => approvals[s] = "approved"
        BY DEF GovernanceFailsSafe
    <2>1. started_at[s] # Unset
        BY <1>1 DEF ApprovalsInvariant, GateRecord, Evaluated
    <2>2. \A p \in Policies : Enforcement(p) = "block"
                             => ~Fires(p, StageAction[s], evaluated_at[s])
        BY <1>1, <2>1, StartedUnblocked
    <2>3. "USER" \in Policies => evaluated_at[s] \notin RaisesAt
        BY <2>2 DEF Enforcement, Fires
    <2>4. ASSUME "CC-001" \in Policies, Release(StageAction[s])
          PROVE  approvals[s] = "approved"
        <3>1. Fires("CC-001", StageAction[s], evaluated_at[s])
              /\ Enforcement("CC-001") = "require_approval"
            BY <2>4 DEF Fires, Enforcement
        <3>2. Evaluate(Policies, StageAction[s], evaluated_at[s]) \in {"require_approval", "block"}
            BY <2>4, <3>1, EvaluateStrictest
        <3>3. policy_evaluations[s] = "require_approval"
            BY <1>1, <2>1, <3>2 DEF ApprovalsInvariant, GateRecord, Evaluated
        <3> QED
            BY <1>1, <3>3 DEF ApprovalsInvariant, RunInvariant, Guards, Guarded, NeedsApproval
    <2> QED
        BY <2>2, <2>3, <2>4
<1> QED
    BY <1>1, ApprovalsInvariantCorrect, PTL

\* For every set of freeze windows, of any length and overlapping or not: a
\* change that starts while one is open was evaluated before it opened, and an
\* approval took until then.
THEOREM FrozenOnlyAfterWaitingAlways == ApprovalsSpec => []FrozenOnlyAfterWaiting
<1>1. ASSUME ApprovalsInvariant
      PROVE  FrozenOnlyAfterWaiting
    <2> SUFFICES ASSUME NEW s \in Stages, NEW window \in FreezeWindows,
                        "CC-003" \in Policies,
                        StageAction[s].impact >= MinimumImpact,
                        started_at[s] # Unset,
                        window[1] <= started_at[s], started_at[s] < window[2]
                 PROVE  approvals[s] = "approved" /\ evaluated_at[s] < window[1]
        BY DEF FrozenOnlyAfterWaiting
    <2>1. window[1] \in Int /\ window[2] \in Int
        BY FreezeAssumption
    <2>2. /\ evaluated_at[s] \in Nat
          /\ started_at[s] >= evaluated_at[s]
          /\ approvals[s] = "approved" \/ started_at[s] = evaluated_at[s]
        BY <1>1 DEF ApprovalsInvariant, ApprovalsTypeOK, GateRecord, Evaluated
    <2>3. ~Fires("CC-003", StageAction[s], evaluated_at[s])
        BY <1>1, StartedUnblocked DEF Enforcement
    <2>4. ~(window[1] <= evaluated_at[s] /\ evaluated_at[s] <= window[2])
        BY <2>3 DEF Fires, Frozen, InFreeze
    <2>5. started_at[s] \in Nat
        BY <1>1 DEF ApprovalsInvariant, ApprovalsTypeOK
    <2>6. evaluated_at[s] < window[1]
        BY <2>1, <2>2, <2>4, <2>5
    <2> QED
        BY <2>1, <2>2, <2>5, <2>6
<1> QED
    BY <1>1, ApprovalsInvariantCorrect, PTL

=============================================================================
