\* Requests that overlap or not, unlimited and limited versions, every fault.
SPECIFICATION BoundedSpec
CONSTANTS
    a = a  b = b  c = c  bad = bad
    None = None  Deleted = Deleted  Invalid = bad
    Writers = {w1, w2}
    Values <- MCValues
    Lambdas <- MixedLambdas
    Policies = {"indefinite", "version"}  Limit = 2
    MaxRetry = 1
    Faults = {"rollback", "ackLost", "sendLost", "crash"}
    MaxFaults = 2  MaxAdds = 4  MaxBackfills = 1  MaxTime = 0
    MaxOverlapping = 3
INVARIANTS
    TypeOK
    OneRowPerChange
    VersionsIncrease
    FailureNeedsRivals
    LatestIsRight
    EventsTellCommits
    WindowOfOneWriter
PROPERTIES
    HistoryIsImmutable
    HistoryIsReal
SYMMETRY WriterSymmetry
