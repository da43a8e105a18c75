\* Two calls at a time on one item of the file, of every kind; processes die,
\* writes and appends fail, leases run out.
SPECIFICATION RecordingSpec
CONSTANTS
    w1 = w1
    o1 = o1
    o2 = o2
    l1 = l1
    l2 = l2
    c1 = c1
    c2 = c2
    Item = {w1}
    Call = {c1, c2}
    Requests <- ContendedRequests
    Claimant = {o1, o2}
    LeaseId = {l1, l2}
    LeaseTimeout = 1
    MaxTime = 1
    NoLease = NoLease
    NoClaimant = NoClaimant
    NoLeaseId = NoLeaseId
INVARIANTS
    StreamFollowsStore
    EventsFormAChain
PROPERTIES
    ImplementsStore
    OrphanedLockStays
    ApprovalIsAwaited
    ActiveLeaseIsKept
    EveryCallEnds
CHECK_DEADLOCK FALSE
