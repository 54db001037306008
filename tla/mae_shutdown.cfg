\* A regular shutdown while documents wait in the queue.
SPECIFICATION Spec
CONSTANTS
    d1 = d1  d2 = d2  u1 = u1  u2 = u2  g1 = g1
    Datasets = {d1, d2}  Users = {u1, u2}  Groups = {g1}
    Urns <- MCUrns
    EdgeTypes = {"OwnedBy", "DownstreamOf", "ReportsTo"}
    NodeProps = {"unset", "live", "removed"}
    EdgeProps = {NoProps}
    NoProps = NoProps  Placeholder = Placeholder  NoNode = NoNode
    Events <- IndexEvents
    BulkLimit = 3  MaxBulkRetry = 1
    Faults = {"shutdown"}
    MaxFaults = 1  MaxEvents = 2
INVARIANTS IndexIsCurrent
\* Nothing happens after the last event unless GMS emits another one.
CHECK_DEADLOCK FALSE
