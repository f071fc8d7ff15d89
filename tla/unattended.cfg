SPECIFICATION Spec
CONSTANTS
    a = a
    b = b
    c = c
    Inherited = Inherited
    Stages <- MCStages
    Dependencies <- MCDependencies
    ErrorTypes <- MCErrorTypes
    Exceptions <- MCExceptions
    Mro <- MCMro
    OwnRetryPolicy <- MCOwnRetryPolicy
    EngineRetryPolicy <- DefaultRetryPolicy
    RequiresApproval = {}
    ActionImpact <- MCActionImpact
    ApprovalThreshold = 2
    CriticalThreshold = 3
    PolicyOutcomes <- MCPolicyOutcomes
    GatewayOutcomes = {}
    RollbackOutcomes <- MCRollbackOutcomes
    FinalApprovalRequired = TRUE
INVARIANT RunInvariant
PROPERTY Termination
