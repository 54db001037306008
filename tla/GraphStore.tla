----------------------------- MODULE GraphStore -----------------------------
(***************************************************************************)
(* What the statements of Neo4jGraphWriterDAO do to the property graph.    *)
(* A graph is a node for some of the urns and a set of edges.  Each public *)
(* method of the DAO is one transaction, so each is one operator here.     *)
(* The properties of a node or an edge are an opaque value.                *)
(***************************************************************************)
EXTENDS Integers, Sequences

CONSTANTS
    Urns,         \* the urns of all entities
    EdgeTypes,    \* relationship classes
    NodeProps,    \* property maps of an entity
    EdgeProps,    \* property maps of a relationship
    NoProps,      \* no property besides source and destination
    Placeholder,  \* a node that has only its urn
    NoNode        \* the urn has no node

ASSUME GraphAssumption ==
    /\ NoProps \in EdgeProps
    /\ Placeholder \notin NodeProps
    /\ NoNode \notin NodeProps \cup {Placeholder}

RemovalOption == {"none", "fromSource", "toDestination", "fromSourceToDestination"}

Entity == [urn : Urns, props : NodeProps]
Edge == [type : EdgeTypes, source : Urns, destination : Urns, props : EdgeProps]
Graph == [nodes : [Urns -> NodeProps \cup {Placeholder, NoNode}], edges : SUBSET Edge]

EmptyGraph == [nodes |-> [u \in Urns |-> NoNode], edges |-> {}]

Exists(g, u) == g.nodes[u] # NoNode

SamePair(e, f) ==
    e.type = f.type /\ e.source = f.source /\ e.destination = f.destination

-----------------------------------------------------------------------------
(* addNode for every entity of a list, in order: SET node = $properties    *)
(* replaces all properties, so the last entry of an urn is what remains.   *)
AddNodes(g, entities) ==
    LET of(u) == {i \in DOMAIN entities : entities[i].urn = u}
        last(u) == CHOOSE i \in of(u) : \A j \in of(u) : j <= i
    IN  [g EXCEPT !.nodes =
            [u \in Urns |-> IF of(u) = {} THEN g.nodes[u] ELSE entities[last(u)].props]]

(* removeNode: DETACH DELETE takes the edges of the node with it.          *)
RemoveNodes(g, urns) ==
    [nodes |-> [u \in Urns |-> IF u \in urns THEN NoNode ELSE g.nodes[u]],
     edges |-> {e \in g.edges : e.source \notin urns /\ e.destination \notin urns}]

(* getOrInsertNode: a missing endpoint becomes a placeholder, an existing  *)
(* one is left alone.                                                      *)
GetOrInsertNodes(g, urns) ==
    [g EXCEPT !.nodes =
        [u \in Urns |-> IF u \in urns /\ ~Exists(g, u) THEN Placeholder ELSE g.nodes[u]]]

Endpoints(rels) ==
    {rels[i].source : i \in DOMAIN rels} \cup {rels[i].destination : i \in DOMAIN rels}

(* checkSameUrn throws before the transaction begins.                      *)
Refused(rels, option) ==
    \E i \in DOMAIN rels :
        \/ /\ option \in {"fromSource", "fromSourceToDestination"}
           /\ rels[i].source # rels[1].source
        \/ /\ option \in {"toDestination", "fromSourceToDestination"}
           /\ rels[i].destination # rels[1].destination

(* The edges the removal statement of addEdges matches; its type, source   *)
(* and destination are those of the first relationship.                    *)
Removed(g, rels, option) ==
    {e \in g.edges :
        /\ option # "none"
        /\ e.type = rels[1].type
        /\ option # "toDestination" => e.source = rels[1].source
        /\ option # "fromSource" => e.destination = rels[1].destination}

\* Mutant: MERGE with the properties in the pattern.
MergeEdgesByProps(g, rels) ==
    [g EXCEPT !.edges = @ \cup {rels[i] : i \in DOMAIN rels}]

(* MATCH the endpoints, MERGE the edge, SET its properties: nothing        *)
(* happens if an endpoint is missing, and a pair has one edge per type.    *)
MergeEdges(g, rels) ==
    LET merged == {i \in DOMAIN rels :
                      Exists(g, rels[i].source) /\ Exists(g, rels[i].destination)}
        final(i) == \A j \in merged : SamePair(rels[j], rels[i]) => j <= i
    IN  [g EXCEPT !.edges =
            {e \in g.edges : \A i \in merged : ~SamePair(e, rels[i])}
                \cup {rels[i] : i \in {k \in merged : final(k)}}]

\* Mutant: the statements run in the other order, so the new edges go too.
AddEdgesThenRemove(g, rels, option) ==
    IF rels = <<>> THEN g
    ELSE LET h == MergeEdges(GetOrInsertNodes(g, Endpoints(rels)), rels)
         IN  [h EXCEPT !.edges = @ \ Removed(h, rels, option)]

AddEdges(g, rels, option) ==
    IF rels = <<>> THEN g
    ELSE LET kept == [g EXCEPT !.edges = @ \ Removed(g, rels, option)]
         IN  MergeEdges(GetOrInsertNodes(kept, Endpoints(rels)), rels)

(* removeEdge matches the pair and the properties the relationship has.    *)
RemoveEdges(g, rels) ==
    [g EXCEPT !.edges =
        {e \in g.edges : \A i \in DOMAIN rels :
            SamePair(e, rels[i]) => rels[i].props \notin {NoProps, e.props}}]
=============================================================================
