SPECIFICATION ReplanSpec
CONSTANTS
    a = a
    b = b
    c = c
    Inherited = Inherited
    Stages <- MCStages
    Dependencies <- MCDependencies
    ErrorTypes <- MCErrorTypes
    Exceptions <- MCExceptions
    Mro <- MCMro
    OwnRetryPolicy <- MCOwnRetryPolicy
    EngineRetryPolicy <- DefaultRetryPolicy
    RequiresApproval = {}
    ActionImpact <- MCActionImpact
    ApprovalThreshold = 2
    CriticalThreshold = 3
    PolicyOutcomes <- MCPolicyOutcomes
    GatewayOutcomes <- MCGatewayOutcomes
    RollbackOutcomes = {}
    FinalApprovalRequired = FALSE
    MaxReplans = 2
    Requirement = Requirement
INVARIANT CompletedMeansAllPassed
