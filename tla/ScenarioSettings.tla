-------------------------- MODULE ScenarioSettings --------------------------
(***************************************************************************)
(* What run_greenfield_scenario, run_brownfield_scenario and               *)
(* run_ambiguous_scenario pass to the WorkflowEngine: a workflow each, with*)
(* the attributes of its stages, and the settings they share.              *)
(***************************************************************************)
EXTENDS Sequences

CONSTANT Inherited      \* no stage of a scenario overrides retry_policy

INSTANCE Governance WITH FreezeWindows <- {}, MinimumImpact <- 1, RaisesAt <- {}

BuiltIn == PolicyId \ {"CC-003", "USER"}

\* What every run_*_scenario passes to the WorkflowEngine, beside its stages.
ErrorTypes == {}
Exceptions == {}
Mro == <<>>
EngineRetryPolicy ==
    [max_attempts                |-> 1,
     exit_gate_failure_retryable |-> TRUE,
     fallback_behavior           |-> "fail",
     has_fallback_output         |-> FALSE,
     rollback_on_failure         |-> FALSE,
     safe_stop_error_types       |-> {},
     non_retryable_error_types   |-> {}]
ApprovalThreshold == 2
CriticalThreshold == 3
GatewayOutcomes == {"approve", "reject"}
RollbackOutcomes == {}

Overrides(profile)   == [s \in DOMAIN profile |-> Inherited]
Approved(profile)    == {s \in DOMAIN profile : profile[s].approval}
Impacts(profile)     == [s \in DOMAIN profile |-> profile[s].impact]
Evaluations(profile) == [s \in DOMAIN profile |-> {Evaluate(BuiltIn, profile[s], 0)}]

G == INSTANCE Greenfield
B == INSTANCE Brownfield
A == INSTANCE Ambiguous

GStages == G!Stages
GDependencies == G!Dependencies
GProfile == G!Profile
GOverrides == Overrides(GProfile)
GApproved == Approved(GProfile)
GImpacts == Impacts(GProfile)
GEvaluations == Evaluations(GProfile)

BStages == B!Stages
BDependencies == B!Dependencies
BProfile == B!Profile
BOverrides == Overrides(BProfile)
BApproved == Approved(BProfile)
BImpacts == Impacts(BProfile)
BEvaluations == Evaluations(BProfile)

AStages == A!Stages
ADependencies == A!Dependencies
AProfile == A!Profile
AOverrides == Overrides(AProfile)
AApproved == Approved(AProfile)
AImpacts == Impacts(AProfile)
AEvaluations == Evaluations(AProfile)

=============================================================================
