\* Overlapping adds lose a value.
SPECIFICATION Spec
CONSTANTS
    a = a  b = b  c = c  bad = bad
    None = None  Deleted = Deleted  Invalid = bad
    Writers = {w1, w2}
    Values <- MCValues
    Lambdas <- ReplaceLambdas
    Policies = {"indefinite"}  Limit = 1
    MaxRetry = 1
    Faults = {"rollback"}
    MaxFaults = 1  MaxAdds = 3  MaxBackfills = 0  MaxTime = 0
INVARIANTS NoLostUpdate
SYMMETRY WriterSymmetry
