----------------------------- MODULE GraphWriter ----------------------------
(***************************************************************************)
(* Neo4jGraphWriterDAO under any sequence of its four operations.  Every   *)
(* operation runs all its statements in one write transaction, which       *)
(* commits or leaves the graph alone.                                      *)
(***************************************************************************)
EXTENDS GraphStore

CONSTANTS
    EntityLists, UrnSets, RelationshipLists    \* the arguments clients pass

ASSUME ArgumentAssumption ==
    /\ EntityLists \subseteq Seq(Entity)
    /\ UrnSets \subseteq SUBSET Urns
    /\ RelationshipLists \subseteq Seq(Edge)

VARIABLE graph

GraphInit == graph = EmptyGraph

addEntities(entities) == graph' = AddNodes(graph, entities)

removeEntities(urns) == graph' = RemoveNodes(graph, urns)

addRelationships(rels, option) ==
    /\ ~Refused(rels, option)
    /\ graph' = AddEdges(graph, rels, option)

removeRelationships(rels) == graph' = RemoveEdges(graph, rels)

GraphNext ==
    \/ \E entities \in EntityLists : addEntities(entities)
    \/ \E urns \in UrnSets : removeEntities(urns)
    \/ \E rels \in RelationshipLists, option \in RemovalOption : addRelationships(rels, option)
    \/ \E rels \in RelationshipLists : removeRelationships(rels)

GraphSpec == GraphInit /\ [][GraphNext]_graph
-----------------------------------------------------------------------------
(* The graph is well formed.                                               *)
GraphTypeOK == graph \in Graph

(* Both ends of every edge are nodes: whatever the order in which entities *)
(* and relationships arrive and leave, no edge points to nothing           *)
(* (getOrInsertNode before MERGE, DETACH DELETE).                          *)
EdgesJoinNodes ==
    \A e \in graph.edges : Exists(graph, e.source) /\ Exists(graph, e.destination)

(* Two nodes have at most one edge of a type, whatever its properties: a   *)
(* relationship that is added again replaces the properties of its edge    *)
(* (MERGE without the properties, then SET r = $properties).               *)
OneEdgePerPair == \A e, f \in graph.edges : SamePair(e, f) => e = f

(* The graph is sound after every sequence of calls: nothing dangles and   *)
(* nothing is there twice.                                                 *)
GraphIsSound == EdgesJoinNodes /\ OneEdgePerPair

(* A relationship that is added is there afterwards, with its latest       *)
(* properties, under every removal option: the removal does not take what  *)
(* the same transaction adds, and no endpoint is missing when it is added. *)
AddedIsThere ==
    [][graph' # graph => \A rels \in RelationshipLists, option \in RemovalOption :
         addRelationships(rels, option) =>
            \A i \in DOMAIN rels :
               (\A j \in DOMAIN rels : SamePair(rels[i], rels[j]) => j <= i)
                  => rels[i] \in graph'.edges]_graph

(* Replacing the edges of one source touches no other: an edge disappears  *)
(* only if the source and the type of every relationship of the batch are  *)
(* its own (checkSameUrn refuses a batch of several sources).              *)
OtherSourcesKeepEdges ==
    [][graph' # graph => \A rels \in RelationshipLists :
         addRelationships(rels, "fromSource") =>
            \A e \in graph.edges \ graph'.edges :
               \A i \in DOMAIN rels : rels[i].source = e.source]_graph

(* addRelationships does what it is asked and no more: all of its batch is *)
(* there, and nothing of another source is gone.                           *)
EditsAreExact == AddedIsThere /\ OtherSourcesKeepEdges
=============================================================================
