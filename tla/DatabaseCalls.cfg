\* Two calls at a time, answered in the end, two leases, one item.
SPECIFICATION FairSpec
CONSTANTS
    w1 = w1
    k1 = k1
    o1 = o1
    o2 = o2
    l1 = l1
    l2 = l2
    c1 = c1
    c2 = c2
    Claimant = {o1, o2}
    Classes = {"planning_only"}
    LeaseTimeout = 2
    NoLease = NoLease
    NoClaimant = NoClaimant
    NoLeaseId = NoLeaseId
    NoKey = NoKey
    NoRequest = NoRequest
    LeaseId = {l1, l2}
    Item = {w1}
    Key = {k1}
    Call = {c1, c2}
    Commands <- LeaseCommands
    MaxRetries = 2
    MaxVersion = 5
    MaxTime = 2
INVARIANTS
    WinnerKeepsTheItem
    NobodyFailsAlone
PROPERTIES
    ImplementsStore
    EveryCallIsAnswered
CHECK_DEADLOCK FALSE
