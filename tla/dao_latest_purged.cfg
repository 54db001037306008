\* Time-based retention removes the latest version.
SPECIFICATION Spec
CONSTANTS
    a = a  b = b  c = c  bad = bad
    None = None  Deleted = Deleted  Invalid = bad
    Writers = {w1}
    Values <- MCValues
    Lambdas <- TwoLambdas
    Policies = {"time"}  Limit = 1
    MaxRetry = 1
    Faults = {"rollback"}
    MaxFaults = 1  MaxAdds = 3  MaxBackfills = 0  MaxTime = 3
INVARIANTS LatestIsKept
