\* A progress report leaves the work loop inactive, and the lease runs out.
SPECIFICATION Spec
CONSTANTS
    a1 = a1
    a2 = a2
    p1 = p1
    p2 = p2
    t1 = t1
    t2 = t2
    l1 = l1
    l2 = l2
    l3 = l3
    e1 = e1
    e2 = e2
    Project = {a1}
    Plan = {p1}
    Token = {t1, t2}
    Lease = {l1, l2}
    Evidence = {e1}
    LeaseTimeout = 2
    MaxTime = 3
    MaxFailures = 1
    ForceApproval = FALSE
    LoopInput <- MainLoops
    NoLock = NoLock
    NoToken = NoToken
    NoGrant = NoGrant
    AnyPlan = AnyPlan
    AnyProject = AnyProject
SYMMETRY Symmetry
INVARIANTS
    ExpiredCanBeReclaimed
