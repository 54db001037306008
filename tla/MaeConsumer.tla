----------------------------- MODULE MaeConsumer ----------------------------
(***************************************************************************)
(* The MAE consumer job: MaeStreamTask reads the MetadataAuditEvent topic  *)
(* with one Kafka Streams thread, puts search documents into the bulk      *)
(* queue of ElasticsearchConnector and then updates the graph.  The queue  *)
(* is sent by a timer, or by the stream thread when it is full; offsets    *)
(* are committed by Kafka Streams between two records, every ten seconds.  *)
(*                                                                         *)
(* A MetadataAuditEvent of GMS carries one aspect of one urn.  A field of  *)
(* a search document is represented by the offset of the event it was      *)
(* built from; a list of urns is its own value.                            *)
(***************************************************************************)
EXTENDS GraphStore, Lists

CONSTANTS
    Datasets, Users, Groups,   \* the urns, by entity type
    Events,                    \* the events GMS may emit
    BulkLimit,                 \* bulk actions that trigger a flush
    MaxBulkRetry,              \* retries of the backoff policy
    Faults,                    \* the faults the environment may inject
    MaxFaults, MaxEvents       \* bounds of the model

Aspects == {"Ownership", "UpstreamLineage", "Status", "CorpUserInfo", "Other"}

(* Owners may be groups, which are no nodes; upstreams and managers are    *)
(* datasets and users.                                                     *)
ASSUME EventAssumption ==
    /\ Urns = Datasets \cup Users
    /\ Events \subseteq [urn : Urns, aspect : Aspects, value : Seq(Urns \cup Groups \cup {"removed"})]
    /\ \A e \in Events : e.aspect \in {"UpstreamLineage", "CorpUserInfo"} => e.value \in Seq(Urns)
ASSUME JobAssumption ==
    /\ {"OwnedBy", "DownstreamOf", "ReportsTo"} \subseteq EdgeTypes
    /\ {"unset", "live", "removed"} \subseteq NodeProps
    /\ BulkLimit \in Nat \ {0}
    /\ Faults \subseteq {"rejected", "bulkFailed", "graphFailed", "crash", "shutdown", "eventLost"}
    /\ {MaxBulkRetry, MaxFaults, MaxEvents} \subseteq Nat

VARIABLES
    topic,      \* the MetadataAuditEvent topic (one partition)
    position,   \* events the stream thread has finished
    committed,  \* the committed offset of the consumer group
    pc,         \* where the stream thread is: "poll", "nodes" or "edges"
    pending,    \* BulkProcessor: documents not sent yet
    flight,     \* BulkProcessor: the request that is out, if any
    graph,      \* Neo4j
    index,      \* Elasticsearch: urn -> field -> offset of the event shown
    reached,    \* ghost: the largest number of events ever begun
    faults      \* ghost: how many faults there were, and of which kinds

job == <<position, committed, pc>>
queue == <<pending, flight>>
vars == <<topic, position, committed, pc, pending, flight, graph, index, reached, faults>>

-----------------------------------------------------------------------------
(* Index builders: the document of an event is a partial update of the     *)
(* fields derived from its aspect.                                         *)
Fields == {"owners", "upstreams", "removed", "manager"}

FieldOf(aspect) ==
    CASE aspect = "Ownership"       -> "owners"
      [] aspect = "UpstreamLineage" -> "upstreams"
      [] aspect = "Status"          -> "removed"
      [] aspect = "CorpUserInfo"    -> "manager"

DocumentsToUpdate(n) ==
    IF topic[n].aspect = "Other" THEN <<>>
    ELSE <<[id |-> topic[n].urn, field |-> FieldOf(topic[n].aspect), at |-> n]>>

(* Graph builders: the node of the snapshot's urn, and the edges that      *)
(* replace the edges of one type from it.  Only an event that carries      *)
(* Status sets "removed" of a dataset; a user is always live.              *)
BuildEntities(e) ==
    LET removed == IF e.urn \in Users THEN "live"
                   ELSE IF e.aspect # "Status" THEN "unset"
                   ELSE IF e.value = <<>> THEN "live" ELSE "removed"
    IN  <<[urn |-> e.urn, props |-> removed]>>

Rel(type, source, destination) ==
    [type |-> type, source |-> source, destination |-> destination, props |-> NoProps]

EdgeType(aspect) ==
    CASE aspect = "Ownership"       -> "OwnedBy"
      [] aspect = "UpstreamLineage" -> "DownstreamOf"
      [] aspect = "CorpUserInfo"    -> "ReportsTo"

(* One list of relationships per update; "Ownership" drops the owners that *)
(* are not users, and gives an update even if no owner is left.            *)
RelationshipUpdates(e) ==
    LET destinations == IF e.aspect = "Ownership" THEN Only(e.value, Users) ELSE e.value
        rels == [i \in DOMAIN destinations |-> Rel(EdgeType(e.aspect), e.urn, destinations[i])]
    IN  IF e.aspect \in {"Status", "Other"} THEN <<>>
        ELSE IF e.aspect # "Ownership" /\ e.value = <<>> THEN <<>>
        ELSE <<rels>>

-----------------------------------------------------------------------------
NoFlight == [docs |-> <<>>, attempt |-> 0]
Sent(docs) == [docs |-> docs, attempt |-> 0]
Ids(docs) == {docs[i].id : i \in DOMAIN docs}

Init ==
    /\ topic = <<>>
    /\ position = 0 /\ committed = 0 /\ pc = "poll"
    /\ pending = <<>> /\ flight = NoFlight
    /\ graph = EmptyGraph
    /\ index = [u \in Urns |-> [f \in Fields |-> 0]]
    /\ reached = 0
    /\ faults = [count |-> 0, kinds |-> {}]

Fault(kind) ==
    /\ kind \in Faults /\ faults.count < MaxFaults
    /\ faults' = [count |-> faults.count + 1, kinds |-> faults.kinds \cup {kind}]

Emit ==
    /\ Len(topic) < MaxEvents
    /\ \E e \in Events : topic' = Append(topic, e)
    /\ UNCHANGED <<job, queue, graph, index, reached, faults>>

-----------------------------------------------------------------------------

(* processSingleMAE, first half: feedElasticEvent adds the documents to    *)
(* the queue.  When that fills it, BulkProcessor.add sends it and waits    *)
(* for the request that is out.                                            *)
UpdateElasticsearch ==
    LET docs == pending \o DocumentsToUpdate(position + 1) IN
    /\ pc = "poll" /\ position < Len(topic)
    /\ \/ Len(docs) < BulkLimit /\ pending' = docs /\ UNCHANGED flight
       \/ Len(docs) >= BulkLimit /\ flight = NoFlight
          /\ pending' = <<>> /\ flight' = Sent(docs)
    /\ pc' = "nodes"
    /\ reached' = IF position + 1 > reached THEN position + 1 ELSE reached
    /\ UNCHANGED <<topic, position, committed, graph, index, faults>>

Finish == position' = position + 1 /\ pc' = "poll"

(* updateNeo4j: one transaction for the node, then one for the edges.      *)
AddEntities ==
    LET e == topic[position + 1] IN
    /\ pc = "nodes"
    /\ graph' = AddNodes(graph, BuildEntities(e))
    /\ IF RelationshipUpdates(e) = <<>> THEN Finish ELSE pc' = "edges" /\ UNCHANGED position
    /\ UNCHANGED <<topic, committed, queue, index, reached, faults>>

\* Mutant: the old edges of the source are kept.
AddRelationshipsKeepOld ==
    /\ pc = "edges"
    /\ graph' = AddEdges(graph, RelationshipUpdates(topic[position + 1])[1], "none")
    /\ Finish
    /\ UNCHANGED <<topic, committed, queue, index, reached, faults>>

AddRelationships ==
    /\ pc = "edges"
    /\ graph' = AddEdges(graph, RelationshipUpdates(topic[position + 1])[1], "fromSource")
    /\ Finish
    /\ UNCHANGED <<topic, committed, queue, index, reached, faults>>

(* An exception of the graph writer is logged; the rest of the event is    *)
(* skipped and the next record is processed.                               *)
GraphFails ==
    /\ Fault("graphFailed")
    /\ pc \in {"nodes", "edges"}
    /\ Finish
    /\ UNCHANGED <<topic, committed, queue, graph, index, reached>>

\* Mutant: the offset of a record is committed before it is processed.
CommitEarly ==
    /\ pc = "poll" /\ committed < position + 1 /\ position < Len(topic)
    /\ committed' = position + 1
    /\ UNCHANGED <<topic, position, pc, queue, graph, index, reached, faults>>

CommitOffset ==
    /\ pc = "poll" /\ committed < position
    /\ committed' = position
    /\ UNCHANGED <<topic, position, pc, queue, graph, index, reached, faults>>

-----------------------------------------------------------------------------
(* The bulk processor.  Items of one id go to one shard and are applied in *)
(* order; what a request does to a field is its last document for it.      *)
Applied(docs) ==
    LET of(u, f) == {i \in DOMAIN docs : docs[i].id = u /\ docs[i].field = f}
    IN  [u \in Urns |-> [f \in Fields |->
            IF of(u, f) = {} THEN index[u][f]
            ELSE docs[CHOOSE i \in of(u, f) : \A j \in of(u, f) : j <= i].at]]

\* Mutant: without a timer, only a full queue is sent.
FlushWhenFull ==
    /\ Len(pending) >= BulkLimit /\ flight = NoFlight
    /\ flight' = Sent(pending) /\ pending' = <<>>
    /\ UNCHANGED <<topic, job, graph, index, reached, faults>>

(* The flush interval, one second.                                         *)
Flush ==
    /\ pending # <<>> /\ flight = NoFlight
    /\ flight' = Sent(pending) /\ pending' = <<>>
    /\ UNCHANGED <<topic, job, graph, index, reached, faults>>

Taken(ids) == [u \in Urns |-> IF u \in ids THEN Applied(flight.docs)[u] ELSE index[u]]
Left(ids) == Only(flight.docs, [id : Urns \ ids, field : Fields, at : Nat])

\* Mutant: the queue is sent first, the rejected documents after it.
RetryAfterQueue(ids) ==
    /\ index' = Taken(ids)
    /\ flight' = IF pending = <<>> THEN Sent(Left(ids)) ELSE Sent(pending)
    /\ pending' = IF pending = <<>> THEN <<>> ELSE Left(ids)

(* Elasticsearch answers.  Documents it rejects are sent again, without    *)
(* the others, while retries are left; then the listener logs success and  *)
(* they are gone.                                                          *)
Answered(ids) ==
    /\ index' = Taken(ids)
    /\ flight' = IF Left(ids) = <<>> \/ flight.attempt = MaxBulkRetry THEN NoFlight
                 ELSE [docs |-> Left(ids), attempt |-> flight.attempt + 1]
    /\ UNCHANGED pending

BulkResponse ==
    /\ flight # NoFlight
    /\ \E ids \in SUBSET Ids(flight.docs) :
         /\ Answered(ids)
         /\ IF ids = Ids(flight.docs) THEN UNCHANGED faults ELSE Fault("rejected")
    /\ UNCHANGED <<topic, job, graph, reached>>

(* The request fails with another exception: it is logged and dropped.     *)
(* The server may have applied a part of it.                               *)
BulkFails ==
    /\ Fault("bulkFailed")
    /\ flight # NoFlight
    /\ \E ids \in SUBSET Ids(flight.docs) : index' = Taken(ids)
    /\ flight' = NoFlight
    /\ UNCHANGED <<topic, job, pending, graph, reached>>

-----------------------------------------------------------------------------
(* The process ends and another one starts at the committed offset.  What  *)
(* is in the queue is gone; a request that is out may still be applied.    *)
Restart ==
    /\ pc' = "poll"
    /\ pending' = <<>> /\ flight' = NoFlight
    /\ \E ids \in SUBSET Ids(flight.docs) : index' = Taken(ids)
    /\ UNCHANGED <<topic, graph, reached>>

Crash ==
    /\ Fault("crash")
    /\ position' = committed /\ UNCHANGED committed
    /\ Restart

(* SIGTERM: the shutdown hook closes the streams, which finishes the       *)
(* record and commits its offset; nothing closes the bulk processor.       *)
Shutdown ==
    /\ Fault("shutdown")
    /\ pc = "poll"
    /\ committed' = position /\ UNCHANGED position
    /\ Restart

-----------------------------------------------------------------------------
Process == UpdateElasticsearch \/ AddEntities \/ AddRelationships
Next ==
    \/ Emit \/ Process \/ CommitOffset \/ Flush \/ BulkResponse
    \/ GraphFails \/ BulkFails \/ Crash \/ Shutdown

Spec == Init /\ [][Next]_vars

(* The stream thread and the timer keep running, and the HTTP client gives *)
(* every request an answer.  GMS owes no event.                            *)
Fairness == WF_vars(Process) /\ WF_vars(Flush) /\ WF_vars(BulkResponse)
FairSpec == Spec /\ Fairness
-----------------------------------------------------------------------------
TypeOK ==
    /\ topic \in Seq(Events)
    /\ position \in 0 .. Len(topic) /\ committed \in 0 .. position
    /\ reached \in position .. Len(topic)
    /\ pc \in {"poll", "nodes", "edges"}
    /\ pc # "poll" => position < reached
    /\ graph \in Graph
    /\ index \in [Urns -> [Fields -> 0 .. reached]]
    /\ flight.attempt \in 0 .. MaxBulkRetry
    /\ faults \in [count : 0 .. MaxFaults, kinds : SUBSET Faults]

GreatestOr(S, default) == IF S = {} THEN default ELSE CHOOSE n \in S : \A m \in S : m <= n

(* The last event up to n that replaces the edges of type t from u, the    *)
(* last that writes the node u, and the last that writes a field: 0 if     *)
(* there is none.                                                          *)
Replaces(e, u, t) ==
    /\ e.urn = u
    /\ RelationshipUpdates(e) \notin {<<>>, <<<<>>>>}
    /\ EdgeType(e.aspect) = t
LastReplacing(u, t, n) == GreatestOr({i \in 1 .. n : Replaces(topic[i], u, t)}, 0)
LastNode(u, n) == GreatestOr({i \in 1 .. n : topic[i].urn = u}, 0)
LastField(u, f, n) ==
    GreatestOr({i \in 1 .. n : topic[i].aspect # "Other" /\ topic[i].urn = u
                                  /\ FieldOf(topic[i].aspect) = f}, 0)

EdgesFrom(u, t) == {e \in graph.edges : e.source = u /\ e.type = t}
EdgesOf(n) ==
    IF n = 0 THEN {}
    ELSE LET rels == RelationshipUpdates(topic[n])[1] IN {rels[i] : i \in DOMAIN rels}

GraphLost == "graphFailed" \in faults.kinds

(* Between two events the edges of a type from an urn are those of one     *)
(* event: the last one that has any, up to the position of the job or,     *)
(* while events are redelivered after crashes, up to a later event that    *)
(* was begun before.  So a redelivery never mixes the edges of two events, *)
(* and once the job has caught up the graph is that of the whole topic     *)
(* ("can always be rebuilt directly from historic MAEs"), unless the graph *)
(* writer has failed.                                                      *)
GraphFollowsTopic ==
    pc = "poll" /\ ~ GraphLost => \A u \in Urns, t \in EdgeTypes :
        \E n \in position .. reached : EdgesFrom(u, t) = EdgesOf(LastReplacing(u, t, n))

(* The same for the node: once all that was ever begun is processed, its   *)
(* properties are those of the last event of its urn.                      *)
NodesFollowTopic ==
    pc = "poll" /\ ~ GraphLost /\ position = reached =>
        \A u \in Urns : LET n == LastNode(u, position) IN
            IF n = 0 THEN graph.nodes[u] \in {NoNode, Placeholder}
            ELSE graph.nodes[u] = BuildEntities(topic[n])[1].props

(* No document is lost between the stream thread and Elasticsearch while   *)
(* documents are rejected no more often than they are retried: what is     *)
(* indexed, overlaid with the request that is out and then with the queue, *)
(* is the latest state of every field.                                     *)
Queued == flight.docs \o pending
Fed == IF pc = "poll" THEN position ELSE position + 1
NoDocumentLost ==
    faults.kinds \subseteq {"rejected", "graphFailed"} /\ faults.count <= MaxBulkRetry =>
        \A u \in Urns, f \in Fields : Applied(Queued)[u][f] = LastField(u, f, Fed)

(* The graph and the queue follow the topic through crashes, failures and  *)
(* redeliveries: edges, nodes and documents are those of the last events   *)
(* that carry them.                                                        *)
StoresFollowTopic == GraphFollowsTopic /\ NodesFollowTopic /\ NoDocumentLost

(* A field of the index never goes back to an older event unless a crash   *)
(* has sent the job back: one request is out at a time, and what it leaves *)
(* is sent again before the queue is.                                      *)
IndexNeverGoesBack ==
    [][\A u \in Urns, f \in Fields :
        index'[u][f] < index[u][f] => "crash" \in faults.kinds]_index

(* The edges as a view of the topic that an at-least-once reader builds.   *)
Keys == Urns \X EdgeTypes
Entry(e) ==
    IF RelationshipUpdates(e) \in {<<>>, <<<<>>>>}
    THEN [key |-> <<e.urn, "ReportsTo">>, keep |-> TRUE, value |-> {}]
    ELSE LET rels == RelationshipUpdates(e)[1]
         IN  [key |-> <<e.urn, EdgeType(e.aspect)>>, keep |-> FALSE,
              value |-> {rels[i] : i \in DOMAIN rels}]
Log == [n \in DOMAIN topic |-> Entry(topic[n])]
EdgeView == [k \in Keys |-> EdgesFrom(k[1], k[2])]

View == INSTANCE ReplayedView WITH
    Unset <- {}, log <- Log, read <- position, view <- EdgeView, lossy <- GraphLost

(* The edges are a view of the topic that misses no event, crashes         *)
(* included; only a failure of the graph writer makes it miss some, and    *)
(* even then the edges of an urn are those of a single event.              *)
EdgesAreAView == View!Spec

(* Everything is consumed: under every fault the job processes the whole   *)
(* topic and empties the queue, although the stream thread waits for a     *)
(* full queue, the queue for the request that is out, and the request for  *)
(* its retries.                                                            *)
Idle == pc = "poll" /\ position = Len(topic) /\ Queued = <<>>
EverythingConsumed == <>[]Idle

-----------------------------------------------------------------------------
(* What the documents say.                                                 *)

(* "The graph always represents the current state of the world": the edges *)
(* are those of the last event that carries the aspect, even if it has no  *)
(* owner, upstream or manager.                                             *)
LastWith(u, aspect) ==
    GreatestOr({i \in 1 .. position : topic[i].urn = u /\ topic[i].aspect = aspect}, 0)
Destinations(n) ==
    IF n = 0 THEN {} ELSE {topic[n].value[i] : i \in DOMAIN topic[n].value} \cap Urns
GraphShowsCurrentAspect ==
    Idle => \A u \in Urns, aspect \in {"Ownership", "UpstreamLineage", "CorpUserInfo"} :
        {e.destination : e \in EdgesFrom(u, EdgeType(aspect))} = Destinations(LastWith(u, aspect))

(* "updates the graph and search index accordingly": when the job has      *)
(* nothing left to do, the index shows the last event of every field.      *)
IndexIsCurrent ==
    Idle => \A u \in Urns, f \in Fields : index[u][f] = LastField(u, f, Len(topic))
=============================================================================
