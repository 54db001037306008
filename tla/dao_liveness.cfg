\* Every add ends.
SPECIFICATION FairSpec
CONSTANTS
    a = a  b = b  c = c  bad = bad
    None = None  Deleted = Deleted  Invalid = bad
    Writers = {w1, w2}
    Values <- MCValues
    Lambdas <- TwoLambdas
    Policies = {"indefinite", "time"}  Limit = 1
    MaxRetry = 1
    Faults = {"rollback"}
    MaxFaults = 1  MaxAdds = 3  MaxBackfills = 0  MaxTime = 2
PROPERTIES AddTerminates FreshHistorySurvives
