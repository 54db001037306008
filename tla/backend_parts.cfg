\* Ids: three threads; the database may refuse a commit or lose its answer.
\* Graph writer: all sequences of calls on three urns.
\* MCE: the job and GMS under every fault.
SPECIFICATION PartsSpec
CONSTANTS
    Focus = {"ids", "graph", "mce"}
    Threads = {t1, t2, t3}
    MaxRetry = 1
    IdFaults = {"rollback", "ackLost"}
    MaxIdFaults = 1  MaxCalls = 3
    d1 = d1  d2 = d2  u1 = u1  p1 = p1  p2 = p2  q1 = q1  q2 = q2
    Urns <- MCUrns
    EdgeTypes = {"DownstreamOf", "OwnedBy"}
    NodeProps = {p1, p2}
    EdgeProps = {q1, q2, NoProps}
    NoProps = NoProps  Placeholder = Placeholder  NoNode = NoNode
    EntityLists <- MCEntityLists
    UrnSets <- MCUrnSets
    RelationshipLists <- MCRelationshipLists
    k1 = k1  k2 = k2  v1 = v1  v2 = v2  bad = bad
    Keys = {k1, k2}
    Values = {v1, v2, bad}
    Invalid = bad  None = None
    Events <- MCEvents
    Faults = {"addFails", "unreachable", "gmsCrash", "crash"}
    MaxFaults = 1  MaxEvents = 3
INVARIANTS
    PartsTypeOK
    IdsAreInOrder
    GraphIsSound
    ProcessedIsStored
PROPERTIES
    EditsAreExact
    EverythingConsumed
\* All calls are made and have ended; nothing happens after the last event.
CHECK_DEADLOCK FALSE
