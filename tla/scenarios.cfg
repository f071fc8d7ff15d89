SPECIFICATION MCSpec
CONSTANTS
    t1 = t1
    t2 = t2
    t3 = t3
    Inherited = Inherited
    Requirement = Requirement
    UnknownId = UnknownId
    MaxReplans = 1
    TaskIds <- MCTaskIds
INVARIANTS
    ScenariosLineageClosed
    ScenariosDriverPrecedes
    PlanFollowsRequirement
    PendingOnlyBehindFailure
PROPERTIES
    ScenariosFailOnlyIfRejected
    SchedulerEnds
