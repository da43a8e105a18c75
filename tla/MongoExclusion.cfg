\* A review that read the plan before the claim frees it again.
SPECIFICATION Spec
CONSTANTS
    a1 = a1
    p1 = p1
    p2 = p2
    t1 = t1
    t2 = t2
    l1 = l1
    l2 = l2
    e1 = e1
    c1 = c1
    c2 = c2
    Project = {a1}
    Plan = {p1}
    Token = {t1}
    Lease = {l1, l2}
    Evidence = {e1}
    Call = {c1, c2}
    LeaseTimeout = 1
    MaxTime = 2
    ForceApproval = FALSE
    LoopInput <- MainLoops
    ReasonInput = {"ready"}
    NoLock = NoLock
    NoToken = NoToken
    NoGrant = NoGrant
    NoLoop = NoLoop
    AnyPlan = AnyPlan
    AnyProject = AnyProject
    OpInput = {"approve", "heartbeat", "progress", "release", "complete"}
    Milestone = {}
SYMMETRY Symmetry
INVARIANTS
    ExclusiveLease
