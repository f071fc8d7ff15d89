------------------------------ MODULE Approvals ------------------------------
(***************************************************************************)
(* The gates of an engine run with what answers them: the PolicyEngine of  *)
(* core/governance.py with its clock, and an EscalatingApprovalGateway of  *)
(* core/autonomy.py whose delegates are preset decisions, automatic        *)
(* answers, or an operator at the one terminal of the process.             *)
(*                                                                         *)
(* HumanApprovalGateway calls input() in a worker thread: several stages   *)
(* of a round wait for a line at once, and which of them gets the line the *)
(* operator types is up to the threads.  The operator answers the prompt   *)
(* printed last.                                                           *)
(***************************************************************************)
EXTENDS WorkflowProperties, Governance

CONSTANTS
    Policies,       \* of the PolicyEngine
    StageAction,    \* [Stages -> Action]: what ActionContext carries
    Gateways,       \* the delegates of the escalating gateway, in order
    Presets,        \* stage -> decision of the preset gateway
    MaxTime         \* bound: the clock stops here

Delegate == {"auto_approve", "auto_reject", "preset", "human"}

\* What the operator may type, by what is left of it after strip().lower().
Line == {"y", "n", "", "other"}

Unset == -1

ASSUME ApprovalsAssumption ==
    /\ Policies \subseteq PolicyId
    /\ StageAction \in [Stages -> Action]
    /\ \A s \in Stages : StageAction[s].impact = ActionImpact[s]
    /\ Gateways \in Seq(Delegate) /\ Gateways # <<>>
    /\ DOMAIN Presets \subseteq Stages \cup {"*"}
    /\ Presets \in [DOMAIN Presets -> BOOLEAN]
    /\ MaxTime \in Nat

VARIABLES
    now,
    evaluated_at,   \* [Stages -> time]: of the PolicyEvaluationRecord
    started_at,     \* [Stages -> time]: of the audit entry "stage_started"
    level,          \* [Stages -> the delegate that is being asked; 0 before]
    answers,        \* [Stages -> the delegates' answers so far]
    prompt,         \* the stage the terminal's last prompt was for
    shared,         \* stages that have waited for a line beside another one
    typed           \* [Stages -> <<line, the prompt it answered>> last read]

gateways == <<level, answers, prompt, shared, typed>>
clocks == <<now, evaluated_at, started_at>>
approvalVars == <<vars, gateways, clocks>>

-----------------------------------------------------------------------------
(* The delegates.                                                          *)

\* Without an entry of its own and without a wildcard, a stage is rejected.
PresetDecision(s) ==
    IF s \in DOMAIN Presets THEN Presets[s]
    ELSE IF "*" \in DOMAIN Presets THEN Presets["*"]
    ELSE FALSE

\* Mutant: whatever is not a refusal approves.
ApprovingUnlessRefused == {"y", "", "other"}

\* The lines that approve, and those that reject: any other is asked again.
Approving == {"y"}
Rejecting == {"n", ""}

\* The stages whose worker thread waits for a line.
Reading == {s \in Stages : pc[s] = "approval" /\ Gateways[level[s]] = "human"}

-----------------------------------------------------------------------------
(* EscalatingApprovalGateway.request_approval                              *)

\* The delegate at level n is asked: a human one prints its prompt.
AskDelegate(s, n) ==
    /\ level' = [level EXCEPT ![s] = n]
    /\ IF Gateways[n] = "human"
       THEN /\ prompt' = s
            /\ shared' = IF Reading \ {s} = {} THEN shared ELSE shared \cup Reading \cup {s}
       ELSE UNCHANGED <<prompt, shared>>

\* Mutant: the chain ends with the first answer.
EndsAtOnce(s, approved) == TRUE

\* The chain ends with the first approval, or with the last delegate.
ChainEnds(s, approved) == approved \/ level[s] = Len(Gateways)

Escalate(s) ==
    /\ AskDelegate(s, level[s] + 1)
    /\ UNCHANGED vars

\* A delegate's answer: the engine's, or the reason to ask the next one.
Answered(s, approved) ==
    /\ answers' = [answers EXCEPT ![s] = Append(@, approved)]
    /\ IF ~ChainEnds(s, approved) THEN Escalate(s) /\ UNCHANGED clocks
       ELSE /\ IF approved THEN Approve(s) ELSE Reject(s)
            /\ started_at' = IF approved THEN [started_at EXCEPT ![s] = now] ELSE started_at
            /\ UNCHANGED <<level, prompt, shared, now, evaluated_at>>

DelegateAnswers(s) ==
    /\ pc[s] = "approval"
    /\ Gateways[level[s]] # "human"
    /\ Answered(s, CASE Gateways[level[s]] = "auto_approve" -> TRUE
                     [] Gateways[level[s]] = "auto_reject" -> FALSE
                     [] OTHER -> PresetDecision(s))
    /\ UNCHANGED typed

\* The operator types a line, and the thread of s reads it.
OperatorAnswers(s) ==
    /\ s \in Reading
    /\ \E line \in Approving \cup Rejecting :
           /\ typed' = [typed EXCEPT ![s] = <<line, prompt>>]
           /\ Answered(s, line \in Approving)

\* "Please answer 'y' or 'n'.", and input() again.
OperatorUnclear(s) ==
    /\ s \in Reading
    /\ \E line \in Line : line \notin Approving \cup Rejecting
    /\ prompt' = s
    /\ UNCHANGED <<vars, level, answers, shared, typed, clocks>>

\* input() raises EOFError: nothing catches it.
TerminalCloses(s) ==
    /\ s \in Reading
    /\ GatewayRaises(s)
    /\ UNCHANGED <<gateways, clocks>>

-----------------------------------------------------------------------------
(* The engine's gates, with the policy engine's answer.                    *)

\* The gate of _execute_stage: the decision is the one of this very moment.
GovernanceGate(s) ==
    /\ BlockByPolicy(s) \/ RequestApproval(s) \/ StartUnapproved(s)
    /\ policy_evaluations'[s] = Evaluate(Policies, StageAction[s], now)
    /\ evaluated_at' = [evaluated_at EXCEPT ![s] = now]
    /\ started_at' = IF pc'[s] = "execute" THEN [started_at EXCEPT ![s] = now] ELSE started_at
    /\ IF pc'[s] = "approval" THEN AskDelegate(s, 1) ELSE UNCHANGED <<level, prompt, shared>>
    /\ UNCHANGED <<answers, typed, now>>

\* The steps in which neither the gates nor the clock has a part; the stages
\* leave no artifacts.
OtherStageStep(s) ==
    /\ \/ Begin(s) \/ EntryGateFails(s) \/ BlockCritical(s)
       \/ pc[s] \in {"execute", "exit_gate", "rollback"} /\ StageStep(s)
    /\ stages'[s].artifacts = {}

Tick == /\ now < MaxTime
        /\ now' = now + 1
        /\ UNCHANGED <<vars, gateways, evaluated_at, started_at>>

-----------------------------------------------------------------------------
ApprovalsInit ==
    /\ Init
    /\ now = 0
    /\ evaluated_at = [s \in Stages |-> Unset]
    /\ started_at = [s \in Stages |-> Unset]
    /\ level = [s \in Stages |-> 0]
    /\ answers = [s \in Stages |-> <<>>]
    /\ prompt = "none"
    /\ shared = {}
    /\ typed = [s \in Stages |-> <<"none", "none">>]

ApprovalsNext ==
    \/ (EngineStep \/ \E s \in Stages : OtherStageStep(s)) /\ UNCHANGED <<gateways, clocks>>
    \/ \E s \in Stages : GovernanceGate(s) \/ DelegateAnswers(s) \/ OperatorAnswers(s)
                         \/ OperatorUnclear(s) \/ TerminalCloses(s)
    \/ Tick
    \/ Ended /\ UNCHANGED approvalVars

ApprovalsSpec == ApprovalsInit /\ [][ApprovalsNext]_approvalVars

-----------------------------------------------------------------------------
(* Properties.                                                             *)

\* Escalation stops at the first approval and never before the last delegate
\* otherwise: an approved stage was refused by every delegate but the last one
\* asked, a rejected one by all there are.
EscalationSound ==
    \A s \in Stages :
        /\ approvals[s] = "approved" =>
               /\ answers[s] # <<>>
               /\ \A i \in 1 .. Len(answers[s]) : answers[s][i] <=> i = Len(answers[s])
        /\ approvals[s] = "rejected" => answers[s] = [i \in 1 .. Len(Gateways) |-> FALSE]

\* What the operator answers is heeded: a stage that had the terminal to
\* itself and was approved at it was approved by a "y" to its own prompt.
\* (A stage that shared it may have read the answer meant for another.)
OperatorHeeded ==
    \A s \in Stages \ shared :
        approvals[s] = "approved" /\ Gateways[level[s]] = "human" => typed[s] = <<"y", s>>

\* A stage starts only if no policy that blocks fired when it was evaluated,
\* neither beside one that asks for approval nor by raising, and a release
\* only after an approval.
GovernanceFailsSafe ==
    \A s \in Stages : Executed(s) =>
        /\ \A p \in Policies : Enforcement(p) = "block"
                              => ~Fires(p, StageAction[s], evaluated_at[s])
        /\ "USER" \in Policies => evaluated_at[s] \notin RaisesAt
        /\ "CC-001" \in Policies /\ Release(StageAction[s]) => approvals[s] = "approved"

\* The freeze windows, as far as the code keeps changes out of them: one that
\* starts while a window is open, its end left open here, was evaluated before
\* it opened and has waited for an approval since.  That it starts at all is
\* not what the policy promises: see FreezeWindowHeld.
FrozenOnlyAfterWaiting ==
    \A s \in Stages, window \in FreezeWindows :
        /\ "CC-003" \in Policies
        /\ StageAction[s].impact >= MinimumImpact
        /\ started_at[s] # Unset
        /\ window[1] <= started_at[s] /\ started_at[s] < window[2]
        => /\ approvals[s] = "approved"
           /\ evaluated_at[s] < window[1]

-----------------------------------------------------------------------------
(* What documentation says of the policies and the code does not do.       *)

\* No other policy blocks s.
BlockedByFreezeAlone(s) ==
    /\ policy_evaluations[s] = "block"
    /\ \A p \in Policies : Enforcement(p) = "block" /\ Fires(p, StageAction[s], evaluated_at[s])
                          => p = "CC-003"

\* CC-003 "Blocks changes that fall inside a configured freeze window"
\* (governance.py:565), "until the freeze window ends" (:625), and the windows
\* "are half-open intervals" (:567).  By the first no change starts before the
\* end of a window that has opened, by the second none is blocked for it at its
\* end; so there are never both, even where one of the two sentences is wrong.
FreezeWindowHeld ==
    \A s, r \in Stages, window \in FreezeWindows :
        /\ StageAction[s].impact >= MinimumImpact
        /\ window[1] <= started_at[s] /\ started_at[s] < window[2]
        => ~(BlockedByFreezeAlone(r) /\ evaluated_at[r] = window[2])

=============================================================================
