\* Two executors and three leases, approval forced by the server.
SPECIFICATION ExecutorSpec
CONSTANTS
    early = early
    late = late
    Slice = {early, late}
    Place <- Places
    DependsOn <- Dependencies
    Submissions <- SomeSubmissions
    NoRun = NoRun
    Project = {a1}
    Plan = {p1}
    Token = {t1, t2}
    Lease = {l1, l2, l3}
    Evidence = {}
    LeaseTimeout = 2
    MaxTime = 4
    MaxFailures = 1
    ForceApproval = TRUE
    LoopInput <- Loops
    NoLock = NoLock
    NoToken = NoToken
    NoGrant = NoGrant
    AnyPlan = AnyPlan
    AnyProject = AnyProject
SYMMETRY Symmetry
CHECK_DEADLOCK FALSE
INVARIANTS
    CompletedPlanIsWorkedOff
    CopyIsCurrent
PROPERTIES
    ReportsTheNextSlice
