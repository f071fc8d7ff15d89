SPECIFICATION Spec
CONSTANTS
    a = a
    b = b
    c = c
    d = d
    Inherited = Inherited
    Stages <- MCStages
    Dependencies <- MCDependencies
    ErrorTypes <- MCErrorTypes
    Exceptions <- MCExceptions
    Mro <- MCMro
    OwnRetryPolicy <- MCOwnRetryPolicy
    EngineRetryPolicy <- MCEngineRetryPolicy
    RequiresApproval = {}
    ActionImpact <- MCActionImpact
    ApprovalThreshold = 2
    CriticalThreshold = 3
    PolicyOutcomes <- MCPolicyOutcomes
    GatewayOutcomes <- MCGatewayOutcomes
    RollbackOutcomes <- MCRollbackOutcomes
    FinalApprovalRequired = TRUE
INVARIANT RecoveryNamed
