SPECIFICATION ApprovalsSpec
CONSTANTS
    Inherited = Inherited
    Stages <- MCStages
    Dependencies <- MCDependencies
    ErrorTypes <- MCErrorTypes
    Exceptions = {}
    Mro <- MCMro
    OwnRetryPolicy <- MCOwnRetryPolicy
    EngineRetryPolicy <- DefaultRetryPolicy
    RequiresApproval = {"manual"}
    ActionImpact <- MCActionImpact
    ApprovalThreshold = 2
    CriticalThreshold = 3
    PolicyOutcomes <- MCPolicyOutcomes
    GatewayOutcomes = {"approve", "reject", "raise"}
    RollbackOutcomes = {}
    FinalApprovalRequired = FALSE
    FreezeWindows <- MCFreezeWindows
    MinimumImpact = 1
    RaisesAt = {3}
    Policies <- MCPolicies
    StageAction <- MCStageAction
    Gateways <- MCGateways
    Presets <- MCPresets
    MaxTime = 3
INVARIANTS
    EscalationSound
    OperatorHeeded
    GovernanceFailsSafe
    FrozenOnlyAfterWaiting
