\* The graph side and the search side of the job, with their faults, the job
\* behind an aspect store, and requests that ask store and graph.
SPECIFICATION JobSpec
CONSTANTS
    Sides = {"graph", "index", "pipeline", "lineage"}
    d1 = d1  d2 = d2  u1 = u1  u2 = u2  g1 = g1
    Datasets = {d1, d2}  Users = {u1, u2}  Groups = {g1}
    Urns <- MCUrns
    EdgeTypes = {"OwnedBy", "DownstreamOf", "ReportsTo"}
    NodeProps = {"unset", "live", "removed"}
    EdgeProps = {NoProps}
    NoProps = NoProps  Placeholder = Placeholder  NoNode = NoNode
    Events <- JobEvents
    BulkLimit = 2  MaxBulkRetry = 1
    Faults = {"rejected", "bulkFailed", "graphFailed", "crash", "shutdown", "eventLost"}
    MaxFaults = 2  MaxEvents = 3
    Writers = {w1, w2}
    LineageValues <- MCLineageValues
    NoLineage = NoLineage  NoCall = NoCall
    MaxDownstreams = 1
INVARIANTS
    JobTypeOK
    
    
    LineageAnswers
PROPERTIES
    EdgesAreAView
    IndexNeverGoesBack
    EverythingConsumed
\* Nothing happens after the last event unless GMS emits another one.
CHECK_DEADLOCK FALSE
