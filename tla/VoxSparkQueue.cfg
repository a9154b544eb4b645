\* The queue: one draft, two pages that may both try to submit it,
\* two leases, and executors that go on.  Drafts share only the files and the claim condition.
SPECIFICATION FairSpec
CONSTANTS
    e1 = e1
    e2 = e2
    p1 = p1
    p2 = p2
    Entries = {e1}
    Pages = {p1, p2}
    Capacity = 2
    MaxLeases = 2
INVARIANTS
    TypeOK
    AtMostOnce
    SubmittedWasSent
    BodyKept
    ExclusiveExecutor
PROPERTIES
    UnknownNotResent
    LeaseEnds
    ImplementsDraftDelivery
CHECK_DEADLOCK FALSE
