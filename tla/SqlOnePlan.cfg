\* One plan, two transactions at a time, two leases.
SPECIFICATION Spec
CONSTANTS
    a1 = a1
    p1 = p1
    p2 = p2
    t1 = t1
    t2 = t2
    l1 = l1
    l2 = l2
    e1 = e1
    c1 = c1
    c2 = c2
    Project = {a1}
    Plan = {p1}
    Token = {t1}
    Lease = {l1, l2}
    Evidence = {e1}
    Call = {c1, c2}
    LeaseTimeout = 1
    MaxTime = 2
    ForceApproval = FALSE
    LoopInput <- MainLoops
    ReasonInput = {"ready"}
    NoLock = NoLock
    NoToken = NoToken
    NoGrant = NoGrant
    NoLoop = NoLoop
    AnyPlan = AnyPlan
    AnyProject = AnyProject
    OpInput = {"approve", "reject", "request_review", "heartbeat", "progress", "release", "complete", "attach_review_evidence"}
SYMMETRY Symmetry
INVARIANTS
    AuditExplainsRecord
PROPERTIES
    ImplementsLeases
