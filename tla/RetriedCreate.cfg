\* A create and its retry under the same key.
SPECIFICATION Spec
CONSTANTS
    w1 = w1
    k1 = k1
    o1 = o1
    o2 = o2
    l1 = l1
    l2 = l2
    c1 = c1
    c2 = c2
    Claimant = {o1, o2}
    Classes = {"planning_only"}
    LeaseTimeout = 1
    NoLease = NoLease
    NoClaimant = NoClaimant
    NoLeaseId = NoLeaseId
    NoKey = NoKey
    NoRequest = NoRequest
    LeaseId = {l1, l2}
    Item = {w1}
    Key = {k1}
    Call = {c1, c2}
    Commands <- NoCommands
    MaxRetries = 2
    MaxVersion = 4
    MaxTime = 2
INVARIANTS
    RetriedCreateIsAnswered
CHECK_DEADLOCK FALSE
