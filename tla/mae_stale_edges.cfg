\* No fault: an aspect without owners leaves the old edges.
SPECIFICATION Spec
CONSTANTS
    d1 = d1  d2 = d2  u1 = u1  u2 = u2  g1 = g1
    Datasets = {d1, d2}  Users = {u1, u2}  Groups = {g1}
    Urns <- MCUrns
    EdgeTypes = {"OwnedBy", "DownstreamOf", "ReportsTo"}
    NodeProps = {"unset", "live", "removed"}
    EdgeProps = {NoProps}
    NoProps = NoProps  Placeholder = Placeholder  NoNode = NoNode
    Events <- GraphEvents
    BulkLimit = 2  MaxBulkRetry = 1
    Faults = {}
    MaxFaults = 0  MaxEvents = 2
INVARIANTS GraphShowsCurrentAspect
\* Nothing happens after the last event unless GMS emits another one.
CHECK_DEADLOCK FALSE
