\* Every two requests on one plan race one another and the clock.
SPECIFICATION Spec
CONSTANTS
    a1 = a1
    p1 = p1
    p2 = p2
    t1 = t1
    t2 = t2
    l1 = l1
    l2 = l2
    e1 = e1
    c1 = c1
    c2 = c2
    Project = {a1}
    Plan = {p1}
    Token = {t1}
    Lease = {l1, l2}
    Evidence = {e1}
    Call = {c1, c2}
    LeaseTimeout = 1
    MaxTime = 1
    ForceApproval = TRUE
    LoopInput <- MainLoops
    ReasonInput = {"ready"}
    NoLock = NoLock
    NoToken = NoToken
    NoGrant = NoGrant
    NoLoop = NoLoop
    AnyPlan = AnyPlan
    AnyProject = AnyProject
    OpInput = {"approve", "reject", "request_review", "heartbeat", "progress", "release", "complete"}
    Milestone = {"submit_for_approval", "approve", "claim"}
SYMMETRY Symmetry
\* Nothing can be asked of a completed plan any more: no read parses it.
CHECK_DEADLOCK FALSE
INVARIANTS
    ApprovedBeforeClaim
    LiveLeaseIsHonoured
