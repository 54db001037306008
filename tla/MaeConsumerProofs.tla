------------------------- MODULE MaeConsumerProofs --------------------------
(***************************************************************************)
(* Theorems about the MAE job, on its own and behind an aspect store, for  *)
(* any events, any faults, any size of the bulk queue and any number of    *)
(* retries and of threads of GMS.                                          *)
(***************************************************************************)
EXTENDS MCMaeJob, Foundations, SequenceTheorems, FiniteSetTheorems

-----------------------------------------------------------------------------
(* GreatestOr picks the greatest, or 0 from nothing.                       *)
LEMMA LastOffset ==
    ASSUME NEW n \in Nat, NEW S \in SUBSET (1 .. n)
    PROVE  /\ S = {} => GreatestOr(S, 0) = 0
           /\ S # {} => GreatestOr(S, 0) \in S /\ \A m \in S : m <= GreatestOr(S, 0)
<1>1. CASE S = {}
  BY <1>1 DEF GreatestOr
<1>2. CASE S # {}
  <2>1. \E i \in S : \A j \in S : j <= i
    BY <1>2, LastPosition
  <2> QED
    BY <1>2, <2>1 DEF GreatestOr
<1> QED
  BY <1>1, <1>2

(* One more offset is the last if it belongs to the set, and changes       *)
(* nothing otherwise.                                                      *)
LEMMA NextOffset ==
    ASSUME NEW n \in Nat, NEW S \in SUBSET (1 .. n + 1)
    PROVE  GreatestOr(S, 0) = IF n + 1 \in S THEN n + 1 ELSE GreatestOr(S \cap (1 .. n), 0)
<1>1. CASE n + 1 \in S
  <2>1. S # {} /\ n + 1 \in Nat
    BY <1>1
  <2>2. GreatestOr(S, 0) \in S /\ \A m \in S : m <= GreatestOr(S, 0)
    <3> DEFINE k == n + 1
    <3>1. S \in SUBSET (1 .. k) /\ k \in Nat
      OBVIOUS
    <3> HIDE DEF k
    <3> QED
      BY <2>1, <3>1, LastOffset
  <2>3. GreatestOr(S, 0) \in 1 .. n + 1 /\ n + 1 <= GreatestOr(S, 0)
    BY <1>1, <2>2
  <2>4. GreatestOr(S, 0) = n + 1
    BY <2>3
  <2> QED
    BY <1>1, <2>4
<1>2. CASE n + 1 \notin S
  <2>1. \A m \in S : m \in 1 .. n
    <3> SUFFICES ASSUME NEW m \in S PROVE m \in 1 .. n
      OBVIOUS
    <3>1. m \in 1 .. n + 1 /\ m # n + 1
      BY <1>2
    <3> QED
      BY <3>1
  <2>2. S = S \cap (1 .. n)
    BY <2>1
  <2> QED
    BY <1>2, <2>2
<1> QED
  BY <1>1, <1>2

-----------------------------------------------------------------------------
(* What the builders make of an event.                                     *)

(* The edges of an event replace those of one type from its urn; an event  *)
(* without any has no update, or an empty one.                             *)
LEMMA UpdatesOfEvent ==
    ASSUME NEW e \in Events, RelationshipUpdates(e) # <<>>
    PROVE  /\ RelationshipUpdates(e) = <<RelationshipUpdates(e)[1]>>
           /\ RelationshipUpdates(e)[1] \in Seq(Edge)
           /\ EdgeType(e.aspect) \in EdgeTypes
           /\ \A i \in DOMAIN RelationshipUpdates(e)[1] :
                 /\ RelationshipUpdates(e)[1][i].source = e.urn
                 /\ RelationshipUpdates(e)[1][i].type = EdgeType(e.aspect)
                 /\ RelationshipUpdates(e)[1][i].props = NoProps
<1> DEFINE ds == IF e.aspect = "Ownership" THEN Only(e.value, Users) ELSE e.value
           rels == [i \in DOMAIN ds |-> Rel(EdgeType(e.aspect), e.urn, ds[i])]
<1>1. e.aspect \in Aspects /\ e.urn \in Urns
  BY EventAssumption
<1>2. RelationshipUpdates(e) = <<rels>> /\ e.aspect \notin {"Status", "Other"}
  BY DEF RelationshipUpdates
<1>3. EdgeType(e.aspect) \in EdgeTypes
  BY <1>1, <1>2, JobAssumption DEF Aspects, EdgeType
<1>4. ds \in Seq(Urns)
  <2>1. CASE e.aspect = "Ownership"
    <3> DEFINE T == Urns \cup Groups \cup {"removed"}
               o == Only(e.value, Users)
    <3>1. e.value \in Seq(T)
      BY EventAssumption
    <3> HIDE DEF T
    <3>2. o \in Seq(T) /\ Embeddings(o, e.value, Users) # {}
      BY <3>1, OnlyKeeps
    <3> HIDE DEF o
    <3>3. \A k \in 1 .. Len(o) : o[k] \in Users
      BY <3>2 DEF Embeddings
    <3>4. o \in Seq(Users)
      BY <3>2, <3>3
    <3>5. o \in Seq(Urns)
      BY <3>4, EventAssumption
    <3> QED
      BY <2>1, <3>5 DEF o
  <2>2. CASE e.aspect # "Ownership"
    BY <1>1, <1>2, <2>2, EventAssumption DEF Aspects
  <2> QED
    BY <2>1, <2>2
<1>5. rels \in Seq(Edge)
  <2>1. \A i \in 1 .. Len(ds) : ds[i] \in Urns
    BY <1>4
  <2>2. \A i \in 1 .. Len(ds) : Rel(EdgeType(e.aspect), e.urn, ds[i]) \in Edge
    BY <1>1, <1>3, <2>1, GraphAssumption DEF Rel, Edge
  <2>3. DOMAIN ds = 1 .. Len(ds) /\ Len(ds) \in Nat
    BY <1>4
  <2> HIDE DEF ds
  <2>4. rels \in [1 .. Len(ds) -> Edge]
    BY <2>2, <2>3
  <2> QED
    BY <2>3, <2>4
<1>6. \A i \in DOMAIN rels : /\ rels[i].source = e.urn
                             /\ rels[i].type = EdgeType(e.aspect)
                             /\ rels[i].props = NoProps
  BY DEF Rel
<1> HIDE DEF rels
<1> QED
  BY <1>2, <1>3, <1>5, <1>6

(* An event writes the node of its urn and no other.                       *)
LEMMA NodeOfEvent ==
    ASSUME NEW e \in Events, NEW g \in Graph
    PROVE  /\ BuildEntities(e)[1].props \in NodeProps
           /\ AddNodes(g, BuildEntities(e)) \in Graph
           /\ AddNodes(g, BuildEntities(e)).edges = g.edges
           /\ \A u \in Urns : AddNodes(g, BuildEntities(e)).nodes[u]
                 = IF u = e.urn THEN BuildEntities(e)[1].props ELSE g.nodes[u]
<1> DEFINE entities == BuildEntities(e)
           of(u) == {i \in DOMAIN entities : entities[i].urn = u}
           last(u) == CHOOSE i \in of(u) : \A j \in of(u) : j <= i
           node(u) == IF of(u) = {} THEN g.nodes[u] ELSE entities[last(u)].props
<1>1. e.urn \in Urns
  BY EventAssumption
<1>2. entities = <<[urn |-> e.urn, props |-> entities[1].props]>> /\ entities[1].props \in NodeProps
  BY JobAssumption DEF BuildEntities
<1>3. DOMAIN entities = {1} /\ entities[1].urn = e.urn
  BY <1>2
<1> HIDE DEF entities
<1>4. \A u \in Urns : node(u) = IF u = e.urn THEN entities[1].props ELSE g.nodes[u]
  <2> SUFFICES ASSUME NEW u \in Urns
               PROVE  node(u) = IF u = e.urn THEN entities[1].props ELSE g.nodes[u]
    OBVIOUS
  <2>1. CASE u = e.urn
    <3>1. of(u) = {1}
      BY <1>3, <2>1
    <3>2. last(u) = 1
      BY <3>1
    <3> QED
      BY <2>1, <3>1, <3>2
  <2>2. CASE u # e.urn
    <3>1. of(u) = {}
      BY <1>3, <2>2
    <3> QED
      BY <2>2, <3>1
  <2> QED
    BY <2>1, <2>2
<1>5. AddNodes(g, entities) = [g EXCEPT !.nodes = [u \in Urns |-> node(u)]]
  BY Zenon DEF AddNodes
<1> HIDE DEF node
<1>6. AddNodes(g, entities) = [nodes |-> [u \in Urns |-> node(u)], edges |-> g.edges]
  BY <1>5 DEF Graph
<1>7. \A u \in Urns : node(u) \in NodeProps \cup {Placeholder, NoNode}
  BY <1>2, <1>4 DEF Graph
<1>8. [nodes |-> [u \in Urns |-> node(u)], edges |-> g.edges] \in Graph
  BY <1>7 DEF Graph
<1> QED
  BY <1>2, <1>4, <1>6, <1>8 DEF entities

(* Replacing the edges of one source and type, with edges that have no     *)
(* properties of their own: those edges are what the list says, the others *)
(* stay, and missing endpoints become placeholders.                        *)
LEMMA EdgesOfSource ==
    ASSUME NEW g \in Graph, NEW rels \in Seq(Edge), NEW u, NEW t,
           \A i \in DOMAIN rels : rels[i].source = u /\ rels[i].type = t /\ rels[i].props = NoProps
    PROVE  /\ AddEdges(g, rels, "fromSource") \in Graph
           /\ rels = <<>> => AddEdges(g, rels, "fromSource") = g
           /\ rels # <<>> => AddEdges(g, rels, "fromSource").edges
                 = {e \in g.edges : ~ (e.source = u /\ e.type = t)} \cup {rels[i] : i \in DOMAIN rels}
           /\ \A v \in Urns : \/ AddEdges(g, rels, "fromSource").nodes[v] = g.nodes[v]
                              \/ /\ g.nodes[v] = NoNode
                                 /\ AddEdges(g, rels, "fromSource").nodes[v] = Placeholder
<1>1. CASE rels = <<>>
  BY <1>1 DEF AddEdges
<1>2. CASE rels # <<>>
  <2> DEFINE others == {e \in g.edges : ~ (e.source = u /\ e.type = t)}
             kept == [g EXCEPT !.edges = @ \ Removed(g, rels, "fromSource")]
             ends == Endpoints(rels)
             node(v) == IF v \in ends /\ ~ Exists(kept, v) THEN Placeholder ELSE kept.nodes[v]
             h == GetOrInsertNodes(kept, ends)
             merged == {i \in DOMAIN rels :
                           Exists(h, rels[i].source) /\ Exists(h, rels[i].destination)}
             final(i) == \A j \in merged : SamePair(rels[j], rels[i]) => j <= i
             edges == {e \in h.edges : \A i \in merged : ~ SamePair(e, rels[i])}
                         \cup {rels[i] : i \in {k \in merged : final(k)}}
  <2>1. DOMAIN rels = 1 .. Len(rels) /\ Len(rels) \in Nat /\ 1 \in DOMAIN rels
    BY <1>2
  <2>2. \A i \in DOMAIN rels : rels[i] \in Edge
    BY <2>1
  <2>3. Removed(g, rels, "fromSource") = {e \in g.edges : e.type = t /\ e.source = u}
    BY <2>1 DEF Removed
  <2>4. kept = [nodes |-> g.nodes, edges |-> others]
    <3>1. g.edges \ Removed(g, rels, "fromSource") = others
      BY <2>3
    <3>2. kept = [g EXCEPT !.edges = others]
      BY Zenon, <3>1
    <3> HIDE DEF kept, others
    <3> QED
      BY <3>2 DEF Graph
  <2> HIDE DEF kept
  <2>5. kept \in Graph /\ kept.nodes = g.nodes /\ kept.edges = others
    BY <2>4 DEF Graph
  <2>6. h = [nodes |-> [v \in Urns |-> node(v)], edges |-> others]
    <3>1. h = [kept EXCEPT !.nodes = [v \in Urns |-> node(v)]]
      BY Zenon DEF GetOrInsertNodes
    <3> HIDE DEF h, node, others
    <3> QED
      BY <2>4, <3>1
  <2>7. \A v \in Urns : /\ node(v) \in NodeProps \cup {Placeholder, NoNode}
                        /\ node(v) = g.nodes[v] \/ (g.nodes[v] = NoNode /\ node(v) = Placeholder)
                        /\ v \in ends => node(v) # NoNode
    BY <2>5, GraphAssumption DEF Graph, Exists
  <2> HIDE DEF node, h, others
  <2>8. h.nodes = [v \in Urns |-> node(v)] /\ h.edges = others
    BY <2>6
  <2>9. \A i \in DOMAIN rels : /\ rels[i].source \in Urns /\ rels[i].source \in ends
                               /\ rels[i].destination \in Urns /\ rels[i].destination \in ends
    BY <2>2 DEF Edge, Endpoints
  <2> HIDE DEF ends
  <2>10. merged = DOMAIN rels
    <3>1. \A i \in DOMAIN rels : h.nodes[rels[i].source] # NoNode /\ h.nodes[rels[i].destination] # NoNode
      BY <2>7, <2>8, <2>9
    <3> QED
      BY <3>1 DEF Exists
  <2> HIDE DEF merged
  <2>11. edges = others \cup {rels[i] : i \in DOMAIN rels}
    <3>1. \A e \in others : \A i \in merged : ~ SamePair(e, rels[i])
      BY <2>10 DEF SamePair, others
    <3>2. \A i, j \in DOMAIN rels : SamePair(rels[j], rels[i]) => rels[j] = rels[i]
      <4> SUFFICES ASSUME NEW i \in DOMAIN rels, NEW j \in DOMAIN rels, SamePair(rels[j], rels[i])
                   PROVE  rels[j] = rels[i]
        OBVIOUS
      <4>1. rels[i] \in Edge /\ rels[j] \in Edge
        BY <2>2
      <4> QED
        BY <4>1 DEF SamePair, Edge
    <3>3. ASSUME NEW i \in DOMAIN rels PROVE \E k \in merged : final(k) /\ rels[k] = rels[i]
      <4> DEFINE S == {j \in DOMAIN rels : rels[j] = rels[i]}
      <4>1. S \in SUBSET (1 .. Len(rels)) /\ S # {}
        BY <2>1
      <4>2. PICK k \in S : \A j \in S : j <= k
        <5> HIDE DEF S
        <5> QED
          BY <2>1, <4>1, LastPosition
      <4>3. final(k)
        BY <2>10, <3>2, <4>2
      <4> QED
        BY <2>10, <4>2, <4>3
    <3> HIDE DEF final
    <3>4. {rels[i] : i \in {k \in merged : final(k)}} = {rels[i] : i \in DOMAIN rels}
      BY <2>10, <3>3
    <3> QED
      BY <2>8, <3>1, <3>4
  <2>12. MergeEdges(h, rels) = [h EXCEPT !.edges = edges]
    BY Zenon DEF MergeEdges, merged
  <2> HIDE DEF edges
  <2>13. MergeEdges(h, rels) = [nodes |-> [v \in Urns |-> node(v)], edges |-> edges]
    BY <2>6, <2>12
  <2>14. AddEdges(g, rels, "fromSource") = MergeEdges(h, rels)
    BY Zenon, <1>2 DEF AddEdges, h, kept, ends
  <2>15. edges \subseteq Edge
    BY <2>2, <2>11 DEF others, Graph
  <2>16. [nodes |-> [v \in Urns |-> node(v)], edges |-> edges] \in Graph
    BY <2>7, <2>15 DEF Graph
  <2> DEFINE result == AddEdges(g, rels, "fromSource")
  <2>17. result = [nodes |-> [v \in Urns |-> node(v)], edges |-> edges]
    BY <2>13, <2>14
  <2> HIDE DEF result
  <2>18. result \in Graph /\ result.edges = edges /\ \A v \in Urns : result.nodes[v] = node(v)
    BY <2>16, <2>17
  <2> QED
    BY <1>2, <2>7, <2>11, <2>18 DEF others, result
<1> QED
  BY <1>1, <1>2

-----------------------------------------------------------------------------
(* The last events of a kind, when one more is read and when one arrives.  *)

(* One more event is the last of its kind if it is of that kind.           *)
LEMMA LastOfOneMore ==
    ASSUME NEW n \in Nat
    PROVE  /\ \A u, t : LastReplacing(u, t, n + 1)
                 = IF Replaces(topic[n + 1], u, t) THEN n + 1 ELSE LastReplacing(u, t, n)
           /\ \A u : LastNode(u, n + 1) = IF topic[n + 1].urn = u THEN n + 1 ELSE LastNode(u, n)
           /\ \A u, f : LastField(u, f, n + 1)
                 = IF /\ topic[n + 1].aspect # "Other" /\ topic[n + 1].urn = u
                      /\ FieldOf(topic[n + 1].aspect) = f
                   THEN n + 1 ELSE LastField(u, f, n)
<1>1. ASSUME NEW u, NEW t
      PROVE  LastReplacing(u, t, n + 1)
                 = IF Replaces(topic[n + 1], u, t) THEN n + 1 ELSE LastReplacing(u, t, n)
  <2> DEFINE S == {i \in 1 .. n + 1 : Replaces(topic[i], u, t)}
  <2>1. S \in SUBSET (1 .. n + 1) /\ (n + 1 \in S <=> Replaces(topic[n + 1], u, t))
    OBVIOUS
  <2>2. S \cap (1 .. n) = {i \in 1 .. n : Replaces(topic[i], u, t)}
    OBVIOUS
  <2>3. GreatestOr(S, 0) = IF n + 1 \in S THEN n + 1 ELSE GreatestOr(S \cap (1 .. n), 0)
    <3> HIDE DEF S
    <3> QED
      BY <2>1, NextOffset
  <2> QED
    BY <2>1, <2>2, <2>3 DEF LastReplacing
<1>2. ASSUME NEW u
      PROVE  LastNode(u, n + 1) = IF topic[n + 1].urn = u THEN n + 1 ELSE LastNode(u, n)
  <2> DEFINE S == {i \in 1 .. n + 1 : topic[i].urn = u}
  <2>1. S \in SUBSET (1 .. n + 1) /\ (n + 1 \in S <=> topic[n + 1].urn = u)
    OBVIOUS
  <2>2. S \cap (1 .. n) = {i \in 1 .. n : topic[i].urn = u}
    OBVIOUS
  <2>3. GreatestOr(S, 0) = IF n + 1 \in S THEN n + 1 ELSE GreatestOr(S \cap (1 .. n), 0)
    <3> HIDE DEF S
    <3> QED
      BY <2>1, NextOffset
  <2> QED
    BY <2>1, <2>2, <2>3 DEF LastNode
<1>3. ASSUME NEW u, NEW f
      PROVE  LastField(u, f, n + 1)
                 = IF /\ topic[n + 1].aspect # "Other" /\ topic[n + 1].urn = u
                      /\ FieldOf(topic[n + 1].aspect) = f
                   THEN n + 1 ELSE LastField(u, f, n)
  <2> DEFINE of(i) == /\ topic[i].aspect # "Other" /\ topic[i].urn = u
                      /\ FieldOf(topic[i].aspect) = f
             S == {i \in 1 .. n + 1 : of(i)}
  <2> HIDE DEF of
  <2>1. S \in SUBSET (1 .. n + 1) /\ (n + 1 \in S <=> of(n + 1))
    OBVIOUS
  <2>2. S \cap (1 .. n) = {i \in 1 .. n : of(i)}
    OBVIOUS
  <2>3. GreatestOr(S, 0) = IF n + 1 \in S THEN n + 1 ELSE GreatestOr(S \cap (1 .. n), 0)
    <3> HIDE DEF S
    <3> QED
      BY <2>1, NextOffset
  <2>4. LastField(u, f, n + 1) = GreatestOr(S, 0)
    BY DEF LastField, of
  <2>5. LastField(u, f, n) = GreatestOr({i \in 1 .. n : of(i)}, 0)
    BY DEF LastField, of
  <2> QED
    BY <2>1, <2>2, <2>3, <2>4, <2>5 DEF of
<1> QED
  BY <1>1, <1>2, <1>3

(* The last of its kind is an event of that kind, with none after it.      *)
LEMMA LastOfSome ==
    ASSUME NEW n \in Nat
    PROVE  /\ \A u, t : LET l == LastReplacing(u, t, n) IN
                 /\ l = 0 => \A i \in 1 .. n : ~ Replaces(topic[i], u, t)
                 /\ l # 0 => l \in 1 .. n /\ Replaces(topic[l], u, t)
                               /\ \A i \in l + 1 .. n : ~ Replaces(topic[i], u, t)
           /\ \A u : LastNode(u, n) # 0 => LastNode(u, n) \in 1 .. n /\ topic[LastNode(u, n)].urn = u
           /\ \A u, f : LET l == LastField(u, f, n) IN
                 /\ l \in 0 .. n
                 /\ \A i \in l + 1 .. n :
                       ~ (topic[i].aspect # "Other" /\ topic[i].urn = u /\ FieldOf(topic[i].aspect) = f)
<1>1. ASSUME NEW S \in SUBSET (1 .. n)
      PROVE  LET l == GreatestOr(S, 0) IN /\ l = 0 => S = {}
                                          /\ l # 0 => l \in S /\ l \in 1 .. n
                                          /\ l \in 0 .. n
                                          /\ \A i \in l + 1 .. n : i \notin S
  <2>1. CASE S = {}
    BY <2>1, LastOffset
  <2>2. CASE S # {}
    <3>1. GreatestOr(S, 0) \in S /\ \A m \in S : m <= GreatestOr(S, 0)
      BY <2>2, LastOffset
    <3>2. GreatestOr(S, 0) \in 1 .. n
      BY <3>1
    <3> QED
      BY <3>1, <3>2
  <2> QED
    BY <2>1, <2>2
<1>2. ASSUME NEW u, NEW t
      PROVE  LET l == LastReplacing(u, t, n) IN
                 /\ l = 0 => \A i \in 1 .. n : ~ Replaces(topic[i], u, t)
                 /\ l # 0 => l \in 1 .. n /\ Replaces(topic[l], u, t)
                               /\ \A i \in l + 1 .. n : ~ Replaces(topic[i], u, t)
  <2> DEFINE S == {i \in 1 .. n : Replaces(topic[i], u, t)}
  <2>1. S \in SUBSET (1 .. n)
    OBVIOUS
  <2>2. LastReplacing(u, t, n) = GreatestOr(S, 0)
    BY DEF LastReplacing
  <2> HIDE DEF S
  <2>3. /\ GreatestOr(S, 0) = 0 => S = {}
        /\ GreatestOr(S, 0) # 0 => GreatestOr(S, 0) \in S /\ GreatestOr(S, 0) \in 1 .. n
        /\ \A i \in GreatestOr(S, 0) + 1 .. n : i \notin S
    BY <1>1, <2>1
  <2>4. \A l \in Nat : \A i \in l + 1 .. n : i \in 1 .. n
    OBVIOUS
  <2> QED
    BY <2>2, <2>3, <2>4 DEF S
<1>3. ASSUME NEW u
      PROVE  LastNode(u, n) # 0 => LastNode(u, n) \in 1 .. n /\ topic[LastNode(u, n)].urn = u
  <2> DEFINE S == {i \in 1 .. n : topic[i].urn = u}
  <2>1. S \in SUBSET (1 .. n) /\ LastNode(u, n) = GreatestOr(S, 0)
    BY DEF LastNode
  <2> HIDE DEF S
  <2>2. GreatestOr(S, 0) # 0 => GreatestOr(S, 0) \in S
    BY <1>1, <2>1
  <2> QED
    BY <2>1, <2>2 DEF S
<1>4. ASSUME NEW u, NEW f
      PROVE  LET l == LastField(u, f, n) IN
                 /\ l \in 0 .. n
                 /\ \A i \in l + 1 .. n :
                       ~ (topic[i].aspect # "Other" /\ topic[i].urn = u /\ FieldOf(topic[i].aspect) = f)
  <2> DEFINE of(i) == topic[i].aspect # "Other" /\ topic[i].urn = u /\ FieldOf(topic[i].aspect) = f
             S == {i \in 1 .. n : of(i)}
  <2>1. S \in SUBSET (1 .. n) /\ LastField(u, f, n) = GreatestOr(S, 0)
    BY DEF LastField
  <2> HIDE DEF S
  <2>2. GreatestOr(S, 0) \in 0 .. n /\ \A i \in GreatestOr(S, 0) + 1 .. n : i \notin S
    BY <1>1, <2>1
  <2>3. \A l \in 0 .. n : \A i \in l + 1 .. n : i \in 1 .. n
    OBVIOUS
  <2> HIDE DEF of
  <2>4. \A i \in GreatestOr(S, 0) + 1 .. n : ~ of(i)
    BY <2>2, <2>3 DEF S
  <2> QED
    BY <2>1, <2>2, <2>4 DEF of
<1> QED
  BY <1>2, <1>3, <1>4

(* Events that are appended do not change what is last up to an offset     *)
(* before them.                                                            *)
LEMMA LastOfGrownTopic ==
    ASSUME topic \in Seq(Events), topic' = topic \/ \E e \in Events : topic' = Append(topic, e)
    PROVE  /\ Len(topic') \in Len(topic) .. Len(topic) + 1
           /\ \A i \in 1 .. Len(topic) : topic'[i] = topic[i]
           /\ \A n \in 0 .. Len(topic) :
                 /\ \A u, t : LastReplacing(u, t, n)' = LastReplacing(u, t, n)
                 /\ \A u : LastNode(u, n)' = LastNode(u, n)
                 /\ \A u, f : LastField(u, f, n)' = LastField(u, f, n)
<1>1. /\ Len(topic') \in Len(topic) .. Len(topic) + 1
      /\ \A i \in 1 .. Len(topic) : topic'[i] = topic[i]
  OBVIOUS
<1>2. ASSUME NEW n \in 0 .. Len(topic)
      PROVE  /\ \A u, t : LastReplacing(u, t, n)' = LastReplacing(u, t, n)
             /\ \A u : LastNode(u, n)' = LastNode(u, n)
             /\ \A u, f : LastField(u, f, n)' = LastField(u, f, n)
  <2>1. \A i \in 1 .. n : topic'[i] = topic[i]
    BY <1>1
  <2>2. ASSUME NEW u, NEW t PROVE LastReplacing(u, t, n)' = LastReplacing(u, t, n)
    <3>1. {i \in 1 .. n : Replaces(topic'[i], u, t)} = {i \in 1 .. n : Replaces(topic[i], u, t)}
      BY <2>1
    <3> QED
      BY <3>1 DEF LastReplacing
  <2>3. ASSUME NEW u PROVE LastNode(u, n)' = LastNode(u, n)
    <3>1. {i \in 1 .. n : topic'[i].urn = u} = {i \in 1 .. n : topic[i].urn = u}
      BY <2>1
    <3> QED
      BY <3>1 DEF LastNode
  <2>4. ASSUME NEW u, NEW f PROVE LastField(u, f, n)' = LastField(u, f, n)
    <3>1. {i \in 1 .. n : topic'[i].aspect # "Other" /\ topic'[i].urn = u
                              /\ FieldOf(topic'[i].aspect) = f}
            = {i \in 1 .. n : topic[i].aspect # "Other" /\ topic[i].urn = u
                              /\ FieldOf(topic[i].aspect) = f}
      BY <2>1
    <3> QED
      BY <3>1 DEF LastField
  <2> QED
    BY <2>2, <2>3, <2>4
<1> QED
  BY <1>1, <1>2

-----------------------------------------------------------------------------
(* The inductive invariant.                                                *)
Doc == [id : Urns, field : Fields, at : Nat]
Ats(docs, u, f) == {docs[i].at : i \in {j \in DOMAIN docs : docs[j].id = u /\ docs[j].field = f}}
Sorted(docs) == \A i, j \in DOMAIN docs : i < j => docs[i].at < docs[j].at

(* The thread is at the edges only of an event that has some; the queue    *)
(* holds documents, and a request that is out is not empty.                *)
TypeInv ==
    /\ TypeOK
    /\ pc = "edges" => RelationshipUpdates(topic[position + 1]) # <<>>
    /\ pending \in Seq(Doc)
    /\ flight \in [docs : Seq(Doc), attempt : 0 .. MaxBulkRetry]
    /\ flight.docs = <<>> => flight = NoFlight

(* Also within an event, the edges of a type from an urn are those of one  *)
(* event.                                                                  *)
EdgesInv ==
    ~ GraphLost => \A u \in Urns, t \in EdgeTypes :
        \E n \in position .. reached : EdgesFrom(u, t) = EdgesOf(LastReplacing(u, t, n))

(* The node of an urn is that of one event, the one that is being          *)
(* processed included once its node is written.                            *)
NodeIs(u, n) ==
    IF n = 0 THEN graph.nodes[u] \in {NoNode, Placeholder}
    ELSE graph.nodes[u] = BuildEntities(topic[n])[1].props
Written == IF pc = "edges" THEN position + 1 ELSE position
NodesInv ==
    ~ GraphLost => \A u \in Urns : \E n \in Written .. reached : NodeIs(u, LastNode(u, n))

(* Documents are sent in the order of their events: those that are out     *)
(* before those that wait, and none of an event that was not begun.        *)
QueueInv ==
    /\ Sorted(flight.docs) /\ Sorted(pending)
    /\ \A i \in DOMAIN flight.docs, j \in DOMAIN pending : flight.docs[i].at < pending[j].at
    /\ \A i \in DOMAIN flight.docs : flight.docs[i].at \in 1 .. Fed
    /\ \A j \in DOMAIN pending : pending[j].at \in 1 .. Fed

(* The retries that are used up were caused by rejections.                 *)
RetryInv ==
    /\ flight.attempt <= faults.count
    /\ "rejected" \notin faults.kinds => flight.attempt = 0

(* As long as no document is dropped, the last state of a field is in the  *)
(* index or, as the last of its kind, in the queue.                        *)
Harmless ==
    /\ faults.kinds \subseteq {"rejected", "graphFailed", "eventLost"}
    /\ "rejected" \in faults.kinds => faults.count <= MaxBulkRetry
Waiting(u, f) == Ats(flight.docs, u, f) \cup Ats(pending, u, f)
DocumentsInv ==
    Harmless => \A u \in Urns, f \in Fields :
        IF Waiting(u, f) = {} THEN index[u][f] = LastField(u, f, Fed)
        ELSE LastField(u, f, Fed) \in Waiting(u, f)
                /\ \A n \in Waiting(u, f) : n <= LastField(u, f, Fed)

(* Before the first crash the index is older than the queue.               *)
IndexInv ==
    "crash" \notin faults.kinds => \A u \in Urns, f \in Fields :
        /\ index[u][f] <= Fed
        /\ \A n \in Waiting(u, f) : index[u][f] <= n

JobInv ==
    TypeInv /\ EdgesInv /\ NodesInv /\ QueueInv /\ RetryInv /\ DocumentsInv /\ IndexInv


-----------------------------------------------------------------------------
(* The inductive invariant of the pipeline.                                *)
LastEvent(d) == LastNode(d, Len(topic))

(* GMS sends nothing but stored lineages, and the graph has nothing else.  *)
LineageInv ==
    /\ \A n \in 1 .. Len(topic) :
          topic[n] \in [urn : Datasets, aspect : {"UpstreamLineage"}, value : LineageValues]
    /\ \A e \in graph.edges : e.source \in Datasets

(* Of a dataset without overlapping calls, what the store has is what is   *)
(* about to be sent or else what was sent last.                            *)
AnnouncedInv ==
    /\ \A d \in Datasets : stored[d] = NoLineage => LastEvent(d) = 0 /\ About(d) = {}
    /\ \A d \in Datasets \ crossed :
          /\ \A v, w \in About(d) : v = w
          /\ \A w \in About(d) : calls[w].value = stored[d]
          /\ About(d) = {} /\ stored[d] # NoLineage =>
                LastEvent(d) # 0 /\ topic[LastEvent(d)].value = stored[d]

(* The datasets the graph named when a request began: those that have the  *)
(* upstream, and some whose lineage was emptied.                           *)
Having(u) == {d \in Datasets : u \in UpstreamsOf(d)}
Named(S) ==
    /\ Having(request.of) \subseteq S
    /\ \A d \in S : stored[d] = <<>> \/ request.of \in UpstreamsOf(d)
    /\ request.downstreams \cup request.todo \subseteq S
    /\ Cardinality(request.downstreams \cup request.todo) = Min({MaxDownstreams, Cardinality(S)})
RequestInv ==
    request.calm =>
        /\ request.downstreams \subseteq Having(request.of)
        /\ request.status # "failed" => \E S \in SUBSET Datasets : Named(S)
        /\ request.status = "failed" =>
              \E d \in Datasets : stored[d] = <<>> \/ Cardinality(Upstreams(d, request.of)) > 1

PipelineInv == JobInv /\ PipelineTypeOK /\ LineageInv /\ AnnouncedInv /\ RequestInv

-----------------------------------------------------------------------------
(* Lists of documents.                                                     *)

(* Putting lists together puts their documents together, in order.         *)
LEMMA JoinedDocuments ==
    ASSUME NEW s \in Seq(Doc), NEW t \in Seq(Doc)
    PROVE  /\ s \o t \in Seq(Doc)
           /\ \A i \in DOMAIN (s \o t) : \/ i \in DOMAIN s /\ (s \o t)[i] = s[i]
                                         \/ i - Len(s) \in DOMAIN t /\ (s \o t)[i] = t[i - Len(s)]
           /\ \A u, f : Ats(s \o t, u, f) = Ats(s, u, f) \cup Ats(t, u, f)
           /\ /\ Sorted(s) /\ Sorted(t)
              /\ \A i \in DOMAIN s, j \in DOMAIN t : s[i].at < t[j].at
              => Sorted(s \o t)
<1>1. s \o t \in Seq(Doc) /\ Len(s \o t) = Len(s) + Len(t) /\ Len(s) \in Nat /\ Len(t) \in Nat
  OBVIOUS
<1>2. /\ DOMAIN s = 1 .. Len(s) /\ DOMAIN t = 1 .. Len(t)
      /\ DOMAIN (s \o t) = 1 .. Len(s) + Len(t)
  BY <1>1
<1>3. \A i \in DOMAIN (s \o t) : \/ i \in DOMAIN s /\ (s \o t)[i] = s[i]
                                 \/ i - Len(s) \in DOMAIN t /\ (s \o t)[i] = t[i - Len(s)]
  BY <1>1, <1>2
<1>4. /\ \A i \in DOMAIN s : i \in DOMAIN (s \o t) /\ (s \o t)[i] = s[i]
      /\ \A j \in DOMAIN t : Len(s) + j \in DOMAIN (s \o t) /\ (s \o t)[Len(s) + j] = t[j]
  BY <1>1, <1>2
<1> DEFINE r == s \o t
<1> HIDE DEF r
<1>5. ASSUME NEW u, NEW f PROVE Ats(r, u, f) = Ats(s, u, f) \cup Ats(t, u, f)
  <2>1. \A n : n \in Ats(r, u, f) => n \in Ats(s, u, f) \/ n \in Ats(t, u, f)
    BY <1>3 DEF Ats, r
  <2>2. \A n : n \in Ats(s, u, f) => n \in Ats(r, u, f)
    BY <1>4 DEF Ats, r
  <2>3. \A n : n \in Ats(t, u, f) => n \in Ats(r, u, f)
    BY <1>4 DEF Ats, r
  <2> QED
    BY <2>1, <2>2, <2>3
<1>6. ASSUME Sorted(s), Sorted(t), \A i \in DOMAIN s, j \in DOMAIN t : s[i].at < t[j].at
      PROVE  Sorted(r)
  <2> SUFFICES ASSUME NEW i \in DOMAIN r, NEW j \in DOMAIN r, i < j PROVE r[i].at < r[j].at
    BY DEF Sorted
  <2>1. i \in 1 .. Len(s) + Len(t) /\ j \in 1 .. Len(s) + Len(t)
    BY <1>2 DEF r
  <2>2. \/ i \in DOMAIN s /\ r[i] = s[i]
        \/ i - Len(s) \in DOMAIN t /\ r[i] = t[i - Len(s)]
    BY <1>3 DEF r
  <2>3. \/ j \in DOMAIN s /\ r[j] = s[j]
        \/ j - Len(s) \in DOMAIN t /\ r[j] = t[j - Len(s)]
    BY <1>3 DEF r
  <2>4. CASE j \in DOMAIN s /\ r[j] = s[j]
    <3>1. i \in DOMAIN s /\ r[i] = s[i]
      BY <1>1, <1>2, <2>1, <2>2, <2>4
    <3> QED
      BY <1>6, <2>4, <3>1 DEF Sorted
  <2>5. CASE j - Len(s) \in DOMAIN t /\ r[j] = t[j - Len(s)]
    <3>1. CASE i \in DOMAIN s /\ r[i] = s[i]
      BY <1>6, <2>5, <3>1
    <3>2. CASE i - Len(s) \in DOMAIN t /\ r[i] = t[i - Len(s)]
      <4>1. i - Len(s) < j - Len(s)
        BY <1>1, <2>1
      <4> QED
        BY <1>6, <2>5, <3>2, <4>1 DEF Sorted
    <3> QED
      BY <2>2, <3>1, <3>2
  <2> QED
    BY <2>3, <2>4, <2>5
<1> QED
  BY <1>1, <1>3, <1>5, <1>6 DEF r

(* What the last of several documents for a field says is the latest state *)
(* they have of it.                                                        *)
LEMMA LatestIsApplied ==
    ASSUME NEW docs \in Seq(Doc), Sorted(docs), NEW u \in Urns, NEW f \in Fields
    PROVE  /\ Ats(docs, u, f) \subseteq Nat
           /\ Ats(docs, u, f) = {} => Applied(docs)[u][f] = index[u][f]
           /\ Ats(docs, u, f) # {} => /\ Applied(docs)[u][f] \in Ats(docs, u, f)
                                      /\ \A n \in Ats(docs, u, f) : n <= Applied(docs)[u][f]
<1> DEFINE of(v, g) == {i \in DOMAIN docs : docs[i].id = v /\ docs[i].field = g}
           last(v, g) == CHOOSE i \in of(v, g) : \A j \in of(v, g) : j <= i
           shown(v, g) == IF of(v, g) = {} THEN index[v][g] ELSE docs[last(v, g)].at
<1>1. Applied(docs) = [v \in Urns |-> [g \in Fields |-> shown(v, g)]]
  BY Zenon DEF Applied
<1> HIDE DEF shown
<1>2. Applied(docs)[u][f] = shown(u, f)
  BY <1>1
<1> USE DEF shown
<1>3. Ats(docs, u, f) = {docs[i].at : i \in of(u, f)}
  BY DEF Ats
<1>4. of(u, f) \in SUBSET (1 .. Len(docs)) /\ Len(docs) \in Nat /\ \A i \in of(u, f) : docs[i] \in Doc
  OBVIOUS
<1>5. CASE of(u, f) = {}
  BY <1>2, <1>3, <1>5
<1>6. CASE of(u, f) # {}
  <2> DEFINE S == of(u, f)  l == last(u, f)
  <2>1. l \in S /\ \A j \in S : j <= l
    <3>1. \E i \in S : \A j \in S : j <= i
      <4> HIDE DEF S
      <4> QED
        BY <1>4, <1>6, LastPosition DEF S
    <3>2. l = CHOOSE i \in S : \A j \in S : j <= i
      OBVIOUS
    <3> HIDE DEF S, l
    <3> QED
      BY <3>1, <3>2
  <2>2. ASSUME NEW j \in S PROVE docs[j].at <= docs[l].at
    <3>1. j = l \/ j < l
      BY <1>4, <2>1
    <3>2. docs[j].at \in Nat /\ docs[l].at \in Nat
      BY <1>4, <2>1 DEF Doc
    <3>3. j \in DOMAIN docs /\ l \in DOMAIN docs
      BY <2>1
    <3> HIDE DEF l, S
    <3> QED
      BY <3>1, <3>2, <3>3 DEF Sorted
  <2>3. shown(u, f) = docs[l].at
    BY <1>6
  <2>4. \A i \in S : docs[i].at \in Nat
    BY <1>4 DEF Doc
  <2> HIDE DEF S, l, shown
  <2> QED
    BY <1>2, <1>3, <1>6, <2>1, <2>2, <2>3, <2>4 DEF S
<1> QED
  BY <1>5, <1>6

(* What a request leaves are the documents of the urns it did not take, in *)
(* their order.                                                            *)
LEMMA LeftDocuments ==
    ASSUME flight.docs \in Seq(Doc), NEW ids
    PROVE  /\ Left(ids) \in Seq(Doc)
           /\ Sorted(flight.docs) => Sorted(Left(ids))
           /\ \A i \in DOMAIN Left(ids) : \E k \in DOMAIN flight.docs :
                 Left(ids)[i] = flight.docs[k] /\ flight.docs[k].id \notin ids
           /\ \A u \in Urns : \A f : Ats(Left(ids), u, f)
                 = IF u \in ids THEN {} ELSE Ats(flight.docs, u, f)
           /\ ids = Ids(flight.docs) => Left(ids) = <<>>
<1> DEFINE docs == flight.docs
           S == [id : Urns \ ids, field : Fields, at : Nat]
           t == Left(ids)
<1>1. docs \in Seq(Doc) /\ t = Only(docs, S)
  BY DEF Left
<1>2. t \in Seq(Doc) /\ Embeddings(t, docs, S) # {}
  <2> HIDE DEF S, t, docs
  <2> QED
    BY <1>1, OnlyKeeps
<1>3. PICK h \in [1 .. Len(t) -> 1 .. Len(docs)] :
        /\ \A k \in 1 .. Len(t) : t[k] = docs[h[k]]
        /\ \A k, l \in 1 .. Len(t) : k < l => h[k] < h[l]
        /\ \A i \in 1 .. Len(docs) : docs[i] \in S <=> \E k \in 1 .. Len(t) : h[k] = i
  <2> HIDE DEF S, t, docs
  <2> QED
    BY <1>2 DEF Embeddings
<1> HIDE DEF t, docs
<1>4. /\ DOMAIN t = 1 .. Len(t) /\ Len(t) \in Nat
      /\ DOMAIN docs = 1 .. Len(docs) /\ Len(docs) \in Nat
  BY <1>1, <1>2
<1>5. \A i \in 1 .. Len(docs) : docs[i] \in Doc /\ (docs[i] \in S <=> docs[i].id \notin ids)
  <2>1. \A i \in 1 .. Len(docs) : docs[i] \in Doc
    BY <1>1, <1>4
  <2>2. \A x \in Doc : x \in S <=> x.id \notin ids
    BY DEF Doc
  <2> QED
    BY <2>1, <2>2
<1> HIDE DEF S
<1>6. \A i \in DOMAIN t : \E k \in DOMAIN docs : t[i] = docs[k] /\ docs[k].id \notin ids
  <2> SUFFICES ASSUME NEW i \in 1 .. Len(t)
               PROVE  \E k \in 1 .. Len(docs) : t[i] = docs[k] /\ docs[k].id \notin ids
    BY <1>4
  <2>1. h[i] \in 1 .. Len(docs) /\ t[i] = docs[h[i]]
    BY <1>3
  <2>2. docs[h[i]] \in S
    BY <1>3, <2>1
  <2> QED
    BY <1>5, <2>1, <2>2
<1>7. Sorted(docs) => Sorted(t)
  <2> SUFFICES ASSUME Sorted(docs), NEW i \in 1 .. Len(t), NEW j \in 1 .. Len(t), i < j
               PROVE  t[i].at < t[j].at
    BY <1>4 DEF Sorted
  <2>1. h[i] \in 1 .. Len(docs) /\ h[j] \in 1 .. Len(docs) /\ h[i] < h[j]
    BY <1>3
  <2>2. docs[h[i]].at < docs[h[j]].at
    BY <1>4, <2>1 DEF Sorted
  <2> QED
    BY <1>3, <2>2
<1>8. ASSUME NEW u \in Urns, NEW f
      PROVE  Ats(t, u, f) = IF u \in ids THEN {} ELSE Ats(docs, u, f)
  <2>1. CASE u \in ids
    <3>1. \A i \in DOMAIN t : t[i].id # u
      BY <1>6, <2>1
    <3> QED
      BY <2>1, <3>1 DEF Ats
  <2>2. CASE u \notin ids
    <3>1. \A n : n \in Ats(t, u, f) => n \in Ats(docs, u, f)
      BY <1>6 DEF Ats
    <3>2. ASSUME NEW n \in Ats(docs, u, f) PROVE n \in Ats(t, u, f)
      <4>1. PICK i \in 1 .. Len(docs) : docs[i].id = u /\ docs[i].field = f /\ n = docs[i].at
        BY <1>4, <3>2 DEF Ats
      <4>2. PICK k \in 1 .. Len(t) : h[k] = i
        BY <1>3, <1>5, <2>2, <4>1
      <4>3. t[k] = docs[i]
        BY <1>3, <4>2
      <4> QED
        BY <1>4, <4>1, <4>3 DEF Ats
    <3> QED
      BY <2>2, <3>1, <3>2
  <2> QED
    BY <2>1, <2>2
<1>9. ids = Ids(docs) => t = <<>>
  <2> SUFFICES ASSUME ids = Ids(docs), t # <<>> PROVE FALSE
    OBVIOUS
  <2>1. 1 \in DOMAIN t
    BY <1>2, <1>4
  <2>2. PICK k \in DOMAIN docs : docs[k].id \notin ids
    BY <1>6, <2>1
  <2> QED
    BY <2>2 DEF Ids
<1> QED
  BY <1>2, <1>6, <1>7, <1>8, <1>9 DEF t, docs

(* The index after an answer: fields of the urns that were taken show the  *)
(* last document of the request, all others what they showed.              *)
LEMMA TakenFields ==
    ASSUME TypeInv, Sorted(flight.docs), NEW ids, NEW m \in Nat,
           index \in [Urns -> [Fields -> 0 .. m]],
           \A i \in DOMAIN flight.docs : flight.docs[i].at \in 1 .. m
    PROVE  /\ Taken(ids) \in [Urns -> [Fields -> 0 .. m]]
           /\ \A u \in Urns, f \in Fields :
                 IF u \in ids /\ Ats(flight.docs, u, f) # {}
                 THEN /\ Taken(ids)[u][f] \in Ats(flight.docs, u, f)
                      /\ \A n \in Ats(flight.docs, u, f) : n <= Taken(ids)[u][f]
                 ELSE Taken(ids)[u][f] = index[u][f]
<1> DEFINE docs == flight.docs
           of(v, g) == {i \in DOMAIN docs : docs[i].id = v /\ docs[i].field = g}
           shown(v, g) == IF of(v, g) = {} THEN index[v][g]
                          ELSE docs[CHOOSE i \in of(v, g) : \A j \in of(v, g) : j <= i].at
           all == [v \in Urns |-> [g \in Fields |-> shown(v, g)]]
           taken == Taken(ids)
<1>1. docs \in Seq(Doc) /\ Sorted(docs)
  BY DEF TypeInv
<1>2. \A u \in Urns, f \in Fields :
        /\ Ats(docs, u, f) = {} => Applied(docs)[u][f] = index[u][f]
        /\ Ats(docs, u, f) # {} => /\ Applied(docs)[u][f] \in Ats(docs, u, f)
                                   /\ \A n \in Ats(docs, u, f) : n <= Applied(docs)[u][f]
  <2> HIDE DEF docs
  <2> QED
    BY <1>1, LatestIsApplied
<1>3. Applied(docs) = all
  BY Zenon DEF Applied
<1> HIDE DEF shown
<1>4. \A u \in Urns : Applied(docs)[u] = [g \in Fields |-> shown(u, g)]
  BY <1>3
<1>5. taken = [u \in Urns |-> IF u \in ids THEN Applied(docs)[u] ELSE index[u]]
  BY Zenon DEF Taken
<1> HIDE DEF taken, all
<1>6. \A u \in Urns : taken[u] = IF u \in ids THEN Applied(docs)[u] ELSE index[u]
  BY <1>5
<1>7. \A u \in Urns, f \in Fields : Ats(docs, u, f) \subseteq 1 .. m
  BY DEF Ats
<1>8. \A u \in Urns, f \in Fields : Applied(docs)[u][f] \in 0 .. m
  <2> SUFFICES ASSUME NEW u \in Urns, NEW f \in Fields PROVE Applied(docs)[u][f] \in 0 .. m
    OBVIOUS
  <2> HIDE DEF docs
  <2>1. CASE Ats(docs, u, f) = {}
    <3>1. Applied(docs)[u][f] = index[u][f]
      BY <1>2, <2>1
    <3> QED
      BY <3>1
  <2>2. CASE Ats(docs, u, f) # {}
    <3>1. Applied(docs)[u][f] \in 1 .. m
      BY <1>2, <1>7, <2>2
    <3> QED
      BY <3>1
  <2> QED
    BY <2>1, <2>2
<1> HIDE DEF docs
<1>9. \A u \in Urns : Applied(docs)[u] \in [Fields -> 0 .. m]
  <2> SUFFICES ASSUME NEW u \in Urns PROVE Applied(docs)[u] \in [Fields -> 0 .. m]
    OBVIOUS
  <2>1. \A g \in Fields : shown(u, g) \in 0 .. m
    BY <1>4, <1>8
  <2> QED
    BY <1>4, <2>1
<1>10. \A u \in Urns : taken[u] \in [Fields -> 0 .. m]
  BY <1>6, <1>9
<1>11. taken \in [Urns -> [Fields -> 0 .. m]]
  BY <1>5, <1>10
<1>12. ASSUME NEW u \in Urns, NEW f \in Fields
       PROVE  IF u \in ids /\ Ats(docs, u, f) # {}
              THEN /\ taken[u][f] \in Ats(docs, u, f)
                   /\ \A n \in Ats(docs, u, f) : n <= taken[u][f]
              ELSE taken[u][f] = index[u][f]
  <2>1. CASE u \in ids
    <3>1. taken[u][f] = Applied(docs)[u][f]
      BY <1>6, <2>1
    <3> QED
      BY <1>2, <2>1, <3>1
  <2>2. CASE u \notin ids
    BY <1>6, <2>2
  <2> QED
    BY <2>1, <2>2
<1> QED
  BY <1>11, <1>12 DEF taken, docs

-----------------------------------------------------------------------------
(* Steps of the job: GMS, too, does nothing else to its state than to send *)
(* an event or to lose one.                                                *)
Emits == /\ \E e \in Events : topic' = Append(topic, e)
         /\ UNCHANGED <<job, queue, graph, index, reached, faults>>
Loses == Fault("eventLost") /\ UNCHANGED <<topic, job, queue, graph, index, reached>>
Steps == \/ Emits \/ Loses \/ Process \/ CommitOffset \/ Flush \/ BulkResponse
         \/ GraphFails \/ BulkFails \/ Crash \/ Shutdown \/ UNCHANGED vars

LEMMA NextIsSteps == [Next]_vars => Steps
BY DEF Next, Steps, Emit, Emits

LEMMA JobStarts == Init => JobInv
<1> SUFFICES ASSUME Init PROVE JobInv
  OBVIOUS
<1> USE DEF Init
<1>1. EmptyGraph \in Graph
  BY DEF EmptyGraph, Graph
<1>2. flight = [docs |-> <<>>, attempt |-> 0] /\ pending = <<>> /\ Fed = 0
  BY DEF NoFlight, Fed
<1>3. TypeInv
  <2>1. TypeOK
    BY <1>1, <1>2, JobAssumption DEF TypeOK
  <2>2. flight \in [docs : Seq(Doc), attempt : 0 .. MaxBulkRetry]
    BY <1>2, JobAssumption
  <2> QED
    BY <1>2, <2>1, <2>2 DEF TypeInv
<1>4. \A u, f : LastField(u, f, 0) = 0 /\ LastNode(u, 0) = 0
  BY DEF LastField, LastNode, GreatestOr
<1>5. \A u, t : LastReplacing(u, t, 0) = 0
  BY DEF LastReplacing, GreatestOr
<1>6. EdgesInv
  <2>1. \A u, t : EdgesFrom(u, t) = {} /\ EdgesOf(LastReplacing(u, t, 0)) = {}
    BY <1>5 DEF EmptyGraph, EdgesFrom, EdgesOf
  <2>2. 0 \in position .. reached
    OBVIOUS
  <2>3. \A u \in Urns, t \in EdgeTypes :
           \E n \in position .. reached : EdgesFrom(u, t) = EdgesOf(LastReplacing(u, t, n))
    BY Zenon, <2>1, <2>2
  <2> QED
    BY Zenon, <2>3 DEF EdgesInv
<1>7. NodesInv
  <2>1. \A u \in Urns : NodeIs(u, LastNode(u, 0))
    BY <1>4 DEF NodeIs, EmptyGraph
  <2>2. 0 \in Written .. reached
    BY DEF Written
  <2> QED
    BY Zenon, <2>1, <2>2 DEF NodesInv
<1>8. QueueInv /\ RetryInv
  BY <1>2 DEF QueueInv, RetryInv, Sorted
<1>9. \A u, f : Waiting(u, f) = {}
  BY <1>2 DEF Waiting, Ats
<1>10. DocumentsInv /\ IndexInv
  BY <1>2, <1>4, <1>9 DEF DocumentsInv, IndexInv
<1> QED
  BY <1>3, <1>6, <1>7, <1>8, <1>10 DEF JobInv

(* The document of an event is about one field of its urn.                 *)
LEMMA DocumentsOfEvent ==
    ASSUME topic \in Seq(Events), NEW n \in 1 .. Len(topic)
    PROVE  /\ DocumentsToUpdate(n) \in Seq(Doc)
           /\ Sorted(DocumentsToUpdate(n))
           /\ \A i \in DOMAIN DocumentsToUpdate(n) : DocumentsToUpdate(n)[i].at = n
           /\ \A u, f : Ats(DocumentsToUpdate(n), u, f)
                 = IF topic[n].aspect # "Other" /\ topic[n].urn = u /\ FieldOf(topic[n].aspect) = f
                   THEN {n} ELSE {}
<1> DEFINE e == topic[n]
           doc == [id |-> e.urn, field |-> FieldOf(e.aspect), at |-> n]
           docs == DocumentsToUpdate(n)
<1>1. e \in Events
  OBVIOUS
<1>2. e.urn \in Urns /\ e.aspect \in Aspects
  BY <1>1, EventAssumption
<1>3. docs = IF e.aspect = "Other" THEN <<>> ELSE <<doc>>
  BY DEF DocumentsToUpdate
<1> HIDE DEF docs
<1>4. CASE e.aspect = "Other"
  BY <1>3, <1>4 DEF docs, Sorted, Ats
<1>5. CASE e.aspect # "Other"
  <2>1. FieldOf(e.aspect) \in Fields
    BY <1>2, <1>5 DEF Aspects, FieldOf, Fields
  <2>2. doc \in Doc
    BY <1>2, <2>1 DEF Doc
  <2>3. docs = <<doc>> /\ DOMAIN docs = {1} /\ docs[1] = doc /\ docs \in Seq(Doc)
    BY <1>3, <1>5, <2>2
  <2>4. Sorted(docs)
    BY <2>3 DEF Sorted
  <2>5. ASSUME NEW u, NEW f
        PROVE  Ats(docs, u, f) = IF e.urn = u /\ FieldOf(e.aspect) = f THEN {n} ELSE {}
    <3>1. {j \in DOMAIN docs : docs[j].id = u /\ docs[j].field = f}
             = IF e.urn = u /\ FieldOf(e.aspect) = f THEN {1} ELSE {}
      BY <2>3
    <3> QED
      BY <2>3, <3>1 DEF Ats
  <2>6. \A i \in DOMAIN docs : docs[i].at = n
    BY <2>3
  <2>7. docs \in Seq(Doc)
    BY <2>3
  <2>8. \A u, f : Ats(docs, u, f)
           = IF e.aspect # "Other" /\ e.urn = u /\ FieldOf(e.aspect) = f THEN {n} ELSE {}
    BY <1>5, <2>5
  <2> QED
    BY Zenon, <2>4, <2>6, <2>7, <2>8 DEF docs
<1> QED
  BY Zenon, <1>4, <1>5

(* Numbers of a well typed state.                                          *)
LEMMA TypeFacts ==
    ASSUME TypeInv
    PROVE  /\ topic \in Seq(Events) /\ Len(topic) \in Nat
           /\ position \in Nat /\ committed \in Nat /\ reached \in Nat /\ Fed \in Nat
           /\ committed <= position /\ position <= reached /\ reached <= Len(topic)
           /\ Fed \in {position, position + 1} /\ Fed <= reached
           /\ pc = "poll" => Fed = position
           /\ pc # "poll" => Fed = position + 1 /\ position + 1 \in 1 .. Len(topic)
                               /\ topic[position + 1] \in Events /\ position + 1 <= reached
           /\ faults.count \in Nat /\ faults.kinds \subseteq Faults
           /\ graph \in Graph /\ index \in [Urns -> [Fields -> 0 .. reached]]
BY JobAssumption DEF TypeInv, TypeOK, Fed

(* A fault is counted.                                                     *)
LEMMA FaultCounts ==
    ASSUME TypeInv, NEW kind, Fault(kind)
    PROVE  /\ faults' \in [count : 0 .. MaxFaults, kinds : SUBSET Faults]
           /\ faults'.count = faults.count + 1
           /\ faults'.kinds = faults.kinds \cup {kind}
<1>1. faults.count \in Nat /\ faults.kinds \subseteq Faults /\ MaxFaults \in Nat
  BY TypeFacts, JobAssumption
<1> QED
  BY <1>1 DEF Fault

(* Positions stay within the topic, and documents and edges are real.      *)
LEMMA TypeStep == JobInv /\ Steps => TypeInv'
<1> SUFFICES ASSUME JobInv, Steps PROVE TypeInv'
  OBVIOUS
<1>1. TypeInv /\ QueueInv
  BY DEF JobInv
<1>2. /\ topic \in Seq(Events) /\ Len(topic) \in Nat
      /\ position \in Nat /\ committed \in Nat /\ reached \in Nat /\ Fed \in Nat
      /\ committed <= position /\ position <= reached /\ reached <= Len(topic)
      /\ Fed \in {position, position + 1} /\ Fed <= reached
      /\ pc = "poll" => Fed = position
      /\ pc # "poll" => Fed = position + 1 /\ position + 1 \in 1 .. Len(topic)
                               /\ topic[position + 1] \in Events /\ position + 1 <= reached
      /\ graph \in Graph /\ index \in [Urns -> [Fields -> 0 .. reached]]
  BY <1>1, TypeFacts
<1>3. /\ pc \in {"poll", "nodes", "edges"}
      /\ pc = "edges" => RelationshipUpdates(topic[position + 1]) # <<>>
      /\ pending \in Seq(Doc) /\ flight \in [docs : Seq(Doc), attempt : 0 .. MaxBulkRetry]
      /\ flight.docs = <<>> => flight = NoFlight
      /\ faults \in [count : 0 .. MaxFaults, kinds : SUBSET Faults]
  BY <1>1 DEF TypeInv, TypeOK
<1>4. NoFlight \in [docs : Seq(Doc), attempt : 0 .. MaxBulkRetry] /\ <<>> \in Seq(Doc)
  BY JobAssumption DEF NoFlight
<1>5. \A ids : Left(ids) \in Seq(Doc) /\ Taken(ids) \in [Urns -> [Fields -> 0 .. reached]]
  <2>1. flight.docs \in Seq(Doc) /\ Sorted(flight.docs)
    BY <1>1, <1>3 DEF QueueInv
  <2>2. \A i \in DOMAIN flight.docs : flight.docs[i].at \in 1 .. reached
    BY <1>1, <1>2 DEF QueueInv
  <2>3. \A ids : Left(ids) \in Seq(Doc)
    BY <2>1, LeftDocuments
  <2>4. \A ids : Taken(ids) \in [Urns -> [Fields -> 0 .. reached]]
    BY <1>1, <1>2, <2>1, <2>2, TakenFields
  <2> QED
    BY <2>3, <2>4
<1>6. CASE Emits
  <2>1. PICK e \in Events : topic' = Append(topic, e)
    BY <1>6 DEF Emits
  <2>2. topic' \in Seq(Events) /\ Len(topic') = Len(topic) + 1
        /\ \A i \in 1 .. Len(topic) : topic'[i] = topic[i]
    BY <1>2, <2>1
  <2>3. pc = "edges" => topic'[position + 1] = topic[position + 1]
    BY <1>2, <2>2
  <2> QED
    BY <1>2, <1>3, <1>6, <2>2, <2>3 DEF Emits, TypeInv, TypeOK, job, queue
<1>7. CASE Loses
  <2>1. faults' \in [count : 0 .. MaxFaults, kinds : SUBSET Faults]
    BY <1>1, <1>7, FaultCounts DEF Loses
  <2> QED
    BY <1>2, <1>3, <1>7, <2>1 DEF Loses, TypeInv, TypeOK, job, queue
<1>8. CASE UpdateElasticsearch
  <2> DEFINE docs == pending \o DocumentsToUpdate(position + 1)
  <2>1. pc = "poll" /\ position < Len(topic) /\ pc' = "nodes"
        /\ UNCHANGED <<topic, position, committed, graph, index, faults>>
    BY <1>8 DEF UpdateElasticsearch
  <2>2. docs \in Seq(Doc)
    <3>1. position + 1 \in 1 .. Len(topic)
      BY <1>2, <2>1
    <3>2. DocumentsToUpdate(position + 1) \in Seq(Doc)
      BY <1>2, <3>1, DocumentsOfEvent
    <3> QED
      BY <1>3, <3>2
  <2>3. reached' \in Nat /\ reached <= reached' /\ position + 1 <= reached' /\ reached' <= Len(topic)
    BY <1>2, <1>8, <2>1 DEF UpdateElasticsearch
  <2>4. /\ pending' \in Seq(Doc)
        /\ flight' \in [docs : Seq(Doc), attempt : 0 .. MaxBulkRetry]
        /\ flight'.docs = <<>> => flight' = NoFlight
    <3> HIDE DEF docs
    <3>1. CASE pending' = docs /\ UNCHANGED flight
      BY <1>3, <2>2, <3>1
    <3>2. CASE Len(docs) >= BulkLimit /\ flight = NoFlight /\ pending' = <<>> /\ flight' = Sent(docs)
      <4>1. docs # <<>>
        BY <3>2, JobAssumption
      <4> QED
        BY <1>4, <2>2, <3>2, <4>1, JobAssumption DEF Sent
    <3> QED
      BY <1>8, <3>1, <3>2 DEF UpdateElasticsearch, docs
  <2>5. index' \in [Urns -> [Fields -> 0 .. reached']]
    BY <1>2, <2>1, <2>3
  <2> QED
    BY <1>2, <1>3, <2>1, <2>3, <2>4, <2>5 DEF TypeInv, TypeOK
<1>9. CASE AddEntities
  <2>1. pc = "nodes" /\ UNCHANGED <<topic, committed, queue, index, reached, faults>>
        /\ graph' = AddNodes(graph, BuildEntities(topic[position + 1]))
    BY <1>9 DEF AddEntities
  <2>2. graph' \in Graph
    BY <1>2, <2>1, NodeOfEvent
  <2>3. \/ RelationshipUpdates(topic[position + 1]) = <<>> /\ position' = position + 1 /\ pc' = "poll"
        \/ RelationshipUpdates(topic[position + 1]) # <<>> /\ pc' = "edges" /\ position' = position
    BY <1>9 DEF AddEntities, Finish
  <2> QED
    BY <1>2, <1>3, <2>1, <2>2, <2>3 DEF TypeInv, TypeOK, queue
<1>10. CASE AddRelationships
  <2>1. pc = "edges" /\ UNCHANGED <<topic, committed, queue, index, reached, faults>>
        /\ graph' = AddEdges(graph, RelationshipUpdates(topic[position + 1])[1], "fromSource")
        /\ position' = position + 1 /\ pc' = "poll"
    BY <1>10 DEF AddRelationships, Finish
  <2>2. graph' \in Graph
    <3> DEFINE e == topic[position + 1]
               rels == RelationshipUpdates(e)[1]
    <3>1. e \in Events /\ RelationshipUpdates(e) # <<>>
      BY <1>2, <1>3, <2>1
    <3> HIDE DEF e
    <3>2. rels \in Seq(Edge) /\ \A i \in DOMAIN rels :
             rels[i].source = e.urn /\ rels[i].type = EdgeType(e.aspect) /\ rels[i].props = NoProps
      BY <3>1, UpdatesOfEvent
    <3> HIDE DEF rels
    <3>3. AddEdges(graph, rels, "fromSource") \in Graph
      BY <1>2, <3>2, EdgesOfSource
    <3> QED
      BY <2>1, <3>3 DEF rels, e
  <2> QED
    BY <1>2, <1>3, <2>1, <2>2 DEF TypeInv, TypeOK, queue
<1>11. CASE CommitOffset
  BY <1>2, <1>3, <1>11 DEF CommitOffset, TypeInv, TypeOK, queue
<1>12. CASE Flush
  <2>1. /\ pending \in Seq(Doc) /\ pending # <<>>
        /\ flight' = [docs |-> pending, attempt |-> 0] /\ pending' = <<>>
        /\ UNCHANGED <<topic, job, graph, index, reached, faults>>
    BY <1>3, <1>12 DEF Flush, Sent
  <2>2. flight' \in [docs : Seq(Doc), attempt : 0 .. MaxBulkRetry] /\ flight'.docs # <<>>
    BY <2>1, JobAssumption
  <2> QED
    BY <1>2, <1>3, <1>4, <2>1, <2>2 DEF TypeInv, TypeOK, job
<1>13. CASE BulkResponse
  <2>1. PICK ids \in SUBSET Ids(flight.docs) :
           /\ Answered(ids)
           /\ IF ids = Ids(flight.docs) THEN UNCHANGED faults ELSE Fault("rejected")
    BY <1>13 DEF BulkResponse
  <2>2. faults' \in [count : 0 .. MaxFaults, kinds : SUBSET Faults]
    BY <1>1, <1>3, <2>1, FaultCounts
  <2>3. /\ flight' \in [docs : Seq(Doc), attempt : 0 .. MaxBulkRetry]
        /\ flight'.docs = <<>> => flight' = NoFlight
    <3>1. CASE flight' = NoFlight
      BY <1>4, <3>1
    <3>2. CASE Left(ids) # <<>> /\ flight.attempt # MaxBulkRetry
               /\ flight' = [docs |-> Left(ids), attempt |-> flight.attempt + 1]
      <4>1. flight.attempt + 1 \in 0 .. MaxBulkRetry /\ Left(ids) \in Seq(Doc)
        BY <1>3, <1>5, <3>2, JobAssumption
      <4> QED
        BY <3>2, <4>1
    <3> QED
      BY <2>1, <3>1, <3>2 DEF Answered
  <2>4. index' \in [Urns -> [Fields -> 0 .. reached]] /\ pending' = pending
    BY <1>5, <2>1 DEF Answered
  <2>5. UNCHANGED <<topic, job, graph, reached>>
    BY <1>13 DEF BulkResponse
  <2> QED
    BY <1>2, <1>3, <2>2, <2>3, <2>4, <2>5 DEF TypeInv, TypeOK, job
<1>14. CASE GraphFails
  <2>1. faults' \in [count : 0 .. MaxFaults, kinds : SUBSET Faults]
    BY <1>1, <1>14, FaultCounts DEF GraphFails
  <2>2. pc \in {"nodes", "edges"} /\ position' = position + 1 /\ pc' = "poll"
        /\ UNCHANGED <<topic, committed, queue, graph, index, reached>>
    BY <1>14 DEF GraphFails, Finish
  <2> QED
    BY <1>2, <1>3, <2>1, <2>2 DEF TypeInv, TypeOK, queue
<1>15. CASE BulkFails
  <2>1. faults' \in [count : 0 .. MaxFaults, kinds : SUBSET Faults]
    BY <1>1, <1>15, FaultCounts DEF BulkFails
  <2>2. index' \in [Urns -> [Fields -> 0 .. reached]]
    BY <1>5, <1>15 DEF BulkFails
  <2>3. flight' = NoFlight /\ UNCHANGED <<topic, job, pending, graph, reached>>
    BY <1>15 DEF BulkFails
  <2> QED
    BY <1>2, <1>3, <1>4, <2>1, <2>2, <2>3 DEF TypeInv, TypeOK, job
<1>16. CASE Crash \/ Shutdown
  <2>1. faults' \in [count : 0 .. MaxFaults, kinds : SUBSET Faults]
    BY <1>1, <1>16, FaultCounts DEF Crash, Shutdown
  <2>2. index' \in [Urns -> [Fields -> 0 .. reached]]
    BY <1>5, <1>16 DEF Crash, Shutdown, Restart
  <2>3. /\ pc' = "poll" /\ pending' = <<>> /\ flight' = NoFlight
        /\ UNCHANGED <<topic, graph, reached>>
        /\ committed' = position' /\ position' \in {position, committed}
    BY <1>16 DEF Crash, Shutdown, Restart
  <2> QED
    BY <1>2, <1>3, <1>4, <2>1, <2>2, <2>3 DEF TypeInv, TypeOK
<1>17. CASE UNCHANGED vars
  BY <1>2, <1>3, <1>17 DEF vars, TypeInv, TypeOK
<1> QED
  BY <1>6, <1>7, <1>8, <1>9, <1>10, <1>11, <1>12, <1>13, <1>14, <1>15, <1>16, <1>17 DEF Steps, Process

(* Faults are never forgotten.                                             *)
LEMMA FaultsGrow ==
    JobInv /\ Steps => /\ faults.kinds \subseteq faults'.kinds
                       /\ faults.count \in Nat /\ faults'.count \in Nat
                       /\ faults.count <= faults'.count
                       /\ faults'.kinds # faults.kinds => faults'.count = faults.count + 1
<1> SUFFICES ASSUME JobInv, Steps
             PROVE  /\ faults.kinds \subseteq faults'.kinds
                    /\ faults.count \in Nat /\ faults'.count \in Nat
                    /\ faults.count <= faults'.count
                    /\ faults'.kinds # faults.kinds => faults'.count = faults.count + 1
  OBVIOUS
<1>1. TypeInv /\ faults.count \in Nat
  BY TypeFacts DEF JobInv
<1>2. UNCHANGED faults \/ \E kind : Fault(kind)
  BY DEF Steps, Emits, Loses, Process, UpdateElasticsearch, AddEntities, AddRelationships,
         CommitOffset, Flush, BulkResponse, GraphFails, BulkFails, Crash, Shutdown, vars
<1>3. CASE UNCHANGED faults
  BY <1>1, <1>3
<1>4. CASE \E kind : Fault(kind)
  BY <1>1, <1>4, FaultCounts
<1> QED
  BY <1>2, <1>3, <1>4

(* All other steps leave the graph alone, send the job back or let it      *)
(* begin an event.                                                         *)
LEMMA GraphUntouched ==
    JobInv /\ Steps =>
        \/ AddEntities \/ AddRelationships \/ GraphFails
        \/ /\ UNCHANGED graph
           /\ topic' = topic \/ \E e \in Events : topic' = Append(topic, e)
           /\ position' \in Nat /\ position' <= position /\ Written' \in Nat /\ Written' <= Written
           /\ reached' \in Nat /\ reached <= reached'
<1> SUFFICES ASSUME JobInv, Steps, ~ (AddEntities \/ AddRelationships \/ GraphFails)
             PROVE  /\ UNCHANGED graph
                    /\ topic' = topic \/ \E e \in Events : topic' = Append(topic, e)
                    /\ position' \in Nat /\ position' <= position /\ Written' \in Nat /\ Written' <= Written
                    /\ reached' \in Nat /\ reached <= reached'
  OBVIOUS
<1>1. /\ position \in Nat /\ committed \in Nat /\ reached \in Nat /\ committed <= position
      /\ Written \in {position, position + 1} /\ pc = "poll" => Written = position
  BY TypeFacts DEF JobInv, Written
<1>2. CASE Emits
  BY <1>1, <1>2 DEF Emits, Written, job
<1>3. CASE Loses
  BY <1>1, <1>3 DEF Loses, Written, job
<1>4. CASE UpdateElasticsearch
  BY <1>1, <1>4 DEF UpdateElasticsearch, Written
<1>5. CASE CommitOffset
  BY <1>1, <1>5 DEF CommitOffset, Written
<1>6. CASE Flush
  BY <1>1, <1>6 DEF Flush, Written, job
<1>7. CASE BulkResponse
  BY <1>1, <1>7 DEF BulkResponse, Written, job
<1>8. CASE BulkFails
  BY <1>1, <1>8 DEF BulkFails, Written, job
<1>9. CASE Crash
  BY <1>1, <1>9 DEF Crash, Restart, Written
<1>10. CASE Shutdown
  BY <1>1, <1>10 DEF Shutdown, Restart, Written
<1>11. CASE UNCHANGED vars
  BY <1>1, <1>11 DEF vars, Written
<1> QED
  BY <1>2, <1>3, <1>4, <1>5, <1>6, <1>7, <1>8, <1>9, <1>10, <1>11 DEF Steps, Process

(* The edges that the graph writer puts in are those of the event.         *)
LEMMA EdgesWritten ==
    ASSUME TypeInv, AddRelationships
    PROVE  LET e == topic[position + 1] IN
           /\ e \in Events /\ RelationshipUpdates(e) # <<>>
           /\ EdgeType(e.aspect) \in EdgeTypes /\ e.urn \in Urns
           /\ RelationshipUpdates(e) = <<<<>>>> => graph' = graph
           /\ RelationshipUpdates(e) # <<<<>>>> =>
                 \A u, t : EdgesFrom(u, t)'
                    = IF u = e.urn /\ t = EdgeType(e.aspect) THEN EdgesOf(position + 1) ELSE EdgesFrom(u, t)
           /\ \A f \in graph'.edges : f \in graph.edges \/ f.source = e.urn
           /\ \A u \in Urns : \/ graph'.nodes[u] = graph.nodes[u]
                              \/ graph.nodes[u] = NoNode /\ graph'.nodes[u] = Placeholder
<1> DEFINE e == topic[position + 1]
           rels == RelationshipUpdates(e)[1]
<1>1. /\ position \in Nat /\ e \in Events /\ RelationshipUpdates(e) # <<>> /\ graph \in Graph
      /\ graph' = AddEdges(graph, rels, "fromSource")
  BY TypeFacts DEF AddRelationships, TypeInv
<1>2. EdgesOf(position + 1) = {rels[i] : i \in DOMAIN rels}
  BY <1>1 DEF EdgesOf
<1> HIDE DEF e
<1>3. /\ RelationshipUpdates(e) = <<rels>> /\ EdgeType(e.aspect) \in EdgeTypes
      /\ rels \in Seq(Edge) /\ \A i \in DOMAIN rels :
             rels[i].source = e.urn /\ rels[i].type = EdgeType(e.aspect) /\ rels[i].props = NoProps
  BY <1>1, UpdatesOfEvent
<1>4. RelationshipUpdates(e) = <<<<>>>> <=> rels = <<>>
  BY <1>3
<1> HIDE DEF rels
<1>5. /\ rels = <<>> => graph' = graph
      /\ rels # <<>> => graph'.edges
            = {f \in graph.edges : ~ (f.source = e.urn /\ f.type = EdgeType(e.aspect))}
                 \cup {rels[i] : i \in DOMAIN rels}
      /\ \A u \in Urns : \/ graph'.nodes[u] = graph.nodes[u]
                         \/ graph.nodes[u] = NoNode /\ graph'.nodes[u] = Placeholder
  BY <1>1, <1>3, EdgesOfSource
<1>6. ASSUME rels # <<>>, NEW u, NEW t
      PROVE  EdgesFrom(u, t)' = IF u = e.urn /\ t = EdgeType(e.aspect) THEN EdgesOf(position + 1)
                                ELSE EdgesFrom(u, t)
  <2>1. EdgesFrom(u, t)' = {f \in graph'.edges : f.source = u /\ f.type = t}
    BY DEF EdgesFrom
  <2>2. CASE u = e.urn /\ t = EdgeType(e.aspect)
    <3>1. \A f : f \in EdgesFrom(u, t)' <=> \E i \in DOMAIN rels : f = rels[i]
      BY <1>3, <1>5, <1>6, <2>1, <2>2
    <3> QED
      BY <1>2, <2>2, <3>1
  <2>3. CASE ~ (u = e.urn /\ t = EdgeType(e.aspect))
    <3>1. \A f : f \in EdgesFrom(u, t)' <=> f \in EdgesFrom(u, t)
      BY <1>3, <1>5, <1>6, <2>1, <2>3 DEF EdgesFrom
    <3> QED
      BY <2>3, <3>1
  <2> QED
    BY <2>2, <2>3
<1>7. \A f \in graph'.edges : f \in graph.edges \/ f.source = e.urn
  BY <1>3, <1>5
<1>8. e.urn \in Urns
  BY <1>1, EventAssumption
<1> QED
  BY <1>1, <1>3, <1>4, <1>5, <1>6, <1>7, <1>8 DEF e

(* The edges of a type from an urn stay those of one event: the one that   *)
(* was read last, or a later one that is about to be read again.           *)
LEMMA EdgesStep == JobInv /\ Steps => EdgesInv'
<1> SUFFICES ASSUME JobInv, Steps, ~ GraphLost', NEW u \in Urns, NEW t \in EdgeTypes
             PROVE  \E n \in position' .. reached' :
                       EdgesFrom(u, t)' = EdgesOf(LastReplacing(u, t, n))'
  BY Zenon DEF EdgesInv
<1>1. /\ TypeInv /\ topic \in Seq(Events) /\ Len(topic) \in Nat
      /\ position \in Nat /\ reached \in Nat /\ position <= reached /\ reached <= Len(topic)
      /\ pc # "poll" => position + 1 \in 1 .. Len(topic) /\ topic[position + 1] \in Events
                           /\ position + 1 <= reached
  BY TypeFacts DEF JobInv
<1>2. ~ GraphLost
  BY FaultsGrow DEF GraphLost
<1>3. PICK n \in position .. reached : EdgesFrom(u, t) = EdgesOf(LastReplacing(u, t, n))
  BY <1>2 DEF JobInv, EdgesInv
<1>4. ASSUME UNCHANGED topic, NEW m
      PROVE  EdgesOf(m)' = EdgesOf(m) /\ \A k : LastReplacing(u, t, k)' = LastReplacing(u, t, k)
  BY <1>4 DEF EdgesOf, LastReplacing
<1>5. CASE AddEntities
  <2>1. graph'.edges = graph.edges
    BY <1>1, <1>5, TypeFacts, NodeOfEvent DEF AddEntities
  <2>2. EdgesFrom(u, t)' = EdgesFrom(u, t)
    BY <2>1 DEF EdgesFrom
  <2>3. UNCHANGED <<topic, reached>> /\ pc # "poll"
    BY <1>5 DEF AddEntities
  <2>4. \A k : EdgesOf(LastReplacing(u, t, k))' = EdgesOf(LastReplacing(u, t, k))
    BY <2>3 DEF EdgesOf, LastReplacing
  <2>5. CASE position' = position
    BY <1>1, <1>3, <2>2, <2>3, <2>4, <2>5
  <2>6. CASE position' = position + 1 /\ RelationshipUpdates(topic[position + 1]) = <<>>
    <3>1. LastReplacing(u, t, position + 1) = LastReplacing(u, t, position)
      BY <1>1, <2>6, LastOfOneMore DEF Replaces
    <3>2. \E m \in position + 1 .. reached : LastReplacing(u, t, m) = LastReplacing(u, t, n)
      <4>1. CASE n = position
        <5>1. position + 1 \in position + 1 .. reached
          BY <1>1, <2>3
        <5> QED
          BY <3>1, <4>1, <5>1
      <4>2. CASE n # position
        <5>1. n \in position + 1 .. reached
          BY <1>1, <4>2
        <5> QED
          BY <5>1
      <4> QED
        BY <4>1, <4>2
    <3> QED
      BY <1>3, <2>2, <2>3, <2>4, <2>6, <3>2
  <2> QED
    BY <1>5, <2>5, <2>6 DEF AddEntities, Finish
<1>6. CASE AddRelationships
  <2> DEFINE e == topic[position + 1]
             m == IF n = position THEN position + 1 ELSE n
  <2>1. UNCHANGED <<topic, reached>> /\ pc # "poll" /\ position' = position + 1
    BY <1>6 DEF AddRelationships, Finish
  <2>2. m \in position' .. reached' /\ position + 1 \in position' .. reached'
    BY <1>1, <2>1
  <2>3. \A k : EdgesOf(LastReplacing(u, t, k))' = EdgesOf(LastReplacing(u, t, k))
    BY <2>1 DEF EdgesOf, LastReplacing
  <2>4. /\ RelationshipUpdates(e) # <<>>
        /\ RelationshipUpdates(e) = <<<<>>>> => graph' = graph
        /\ RelationshipUpdates(e) # <<<<>>>> =>
                 \A v, s : EdgesFrom(v, s)'
                    = IF v = e.urn /\ s = EdgeType(e.aspect) THEN EdgesOf(position + 1) ELSE EdgesFrom(v, s)
    BY <1>1, <1>6, EdgesWritten
  <2>5. Replaces(e, u, t) <=> /\ u = e.urn /\ t = EdgeType(e.aspect)
                              /\ RelationshipUpdates(e) # <<<<>>>>
    BY <2>4 DEF Replaces
  <2>6. LastReplacing(u, t, position + 1)
          = IF Replaces(e, u, t) THEN position + 1 ELSE LastReplacing(u, t, position)
    BY <1>1, LastOfOneMore
  <2>7. CASE Replaces(e, u, t)
    <3>1. EdgesFrom(u, t)' = EdgesOf(LastReplacing(u, t, position + 1))
      BY <2>4, <2>5, <2>6, <2>7
    <3> QED
      BY <2>2, <2>3, <3>1
  <2>8. CASE ~ Replaces(e, u, t)
    <3>1. EdgesFrom(u, t)' = EdgesFrom(u, t)
      <4>1. graph' = graph => EdgesFrom(u, t)' = EdgesFrom(u, t)
        BY DEF EdgesFrom
      <4> QED
        BY <2>4, <2>5, <2>8, <4>1
    <3>2. LastReplacing(u, t, m) = LastReplacing(u, t, n)
      BY <2>6, <2>8
    <3> QED
      BY <1>3, <2>2, <2>3, <3>1, <3>2
  <2> QED
    BY <2>7, <2>8
<1>7. CASE GraphFails
  BY <1>1, <1>7, FaultCounts DEF GraphFails, GraphLost
<1>8. CASE /\ UNCHANGED graph
           /\ topic' = topic \/ \E e \in Events : topic' = Append(topic, e)
           /\ position' \in Nat /\ position' <= position
           /\ reached' \in Nat /\ reached <= reached'
  <2>1. n \in position' .. reached' /\ n \in 0 .. Len(topic)
    BY <1>1, <1>8
  <2>2. /\ \A i \in 1 .. Len(topic) : topic'[i] = topic[i]
        /\ LastReplacing(u, t, n)' = LastReplacing(u, t, n)
    BY <1>1, <1>8, <2>1, LastOfGrownTopic
  <2>3. LastReplacing(u, t, n) # 0 => LastReplacing(u, t, n) \in 1 .. Len(topic)
    <3>1. LastReplacing(u, t, n) # 0 => LastReplacing(u, t, n) \in 1 .. n
      BY <2>1, LastOfSome
    <3> QED
      BY <1>1, <2>1, <3>1
  <2>4. EdgesOf(LastReplacing(u, t, n))' = EdgesOf(LastReplacing(u, t, n))
    BY <2>2, <2>3 DEF EdgesOf
  <2>5. EdgesFrom(u, t)' = EdgesFrom(u, t)
    BY <1>8 DEF EdgesFrom
  <2> QED
    BY <1>3, <2>1, <2>4, <2>5
<1> QED
  BY <1>5, <1>6, <1>7, <1>8, GraphUntouched

(* A node stays that of one event.                                         *)
LEMMA NodesStep == JobInv /\ Steps => NodesInv'
<1> SUFFICES ASSUME JobInv, Steps, ~ GraphLost', NEW u \in Urns
             PROVE  \E n \in Written' .. reached' : NodeIs(u, LastNode(u, n))'
  BY Zenon DEF NodesInv
<1>1. /\ TypeInv /\ topic \in Seq(Events) /\ Len(topic) \in Nat /\ graph \in Graph
      /\ position \in Nat /\ reached \in Nat /\ position <= reached /\ reached <= Len(topic)
      /\ pc # "poll" => position + 1 \in 1 .. Len(topic) /\ topic[position + 1] \in Events
                           /\ position + 1 <= reached
      /\ Written \in {position, position + 1} /\ Written <= reached
  BY TypeFacts DEF JobInv, Written
<1>2. ~ GraphLost
  BY FaultsGrow DEF GraphLost
<1>3. PICK n \in Written .. reached : NodeIs(u, LastNode(u, n))
  BY <1>2 DEF JobInv, NodesInv
<1>4. LastNode(u, n) # 0 => LastNode(u, n) \in 1 .. Len(topic)
  <2>1. n \in Nat /\ n <= Len(topic)
    BY <1>1
  <2>2. LastNode(u, n) # 0 => LastNode(u, n) \in 1 .. n
    BY <2>1, LastOfSome
  <2> QED
    BY <1>1, <2>1, <2>2
<1>5. CASE AddEntities
  <2> DEFINE e == topic[position + 1]
  <2>1. /\ pc = "nodes" /\ UNCHANGED <<topic, reached>> /\ graph' = AddNodes(graph, BuildEntities(e))
        /\ \/ position' = position + 1 /\ pc' = "poll"
           \/ position' = position /\ pc' = "edges"
    BY <1>5 DEF AddEntities, Finish
  <2>2. Written = position /\ Written' = position + 1
    BY <1>1, <2>1 DEF Written
  <2>3. graph'.nodes[u] = IF u = e.urn THEN BuildEntities(e)[1].props ELSE graph.nodes[u]
    BY <1>1, <2>1, NodeOfEvent
  <2>4. LastNode(u, position + 1) = IF e.urn = u THEN position + 1 ELSE LastNode(u, position)
    BY <1>1, LastOfOneMore
  <2>5. \A k : LastNode(u, k)' = LastNode(u, k)
    BY <2>1 DEF LastNode
  <2>6. PICK next : next = position + 1
    OBVIOUS
  <2>7. next \in Written' .. reached'
    BY <1>1, <2>1, <2>2, <2>6
  <2>8. CASE e.urn = u
    <3>1. LastNode(u, next)' = next /\ next # 0
      BY <1>1, <2>4, <2>5, <2>6, <2>8
    <3>2. NodeIs(u, LastNode(u, next))'
      BY <2>1, <2>3, <2>6, <2>8, <3>1 DEF NodeIs
    <3> QED
      BY <2>7, <3>2
  <2>9. CASE e.urn # u
    <3>1. PICK m \in Written' .. reached' : LastNode(u, m) = LastNode(u, n)
      <4>1. CASE n = position
        BY <2>4, <2>6, <2>7, <2>9, <4>1
      <4>2. CASE n # position
        <5>1. n \in Written' .. reached'
          BY <1>1, <2>1, <2>2, <4>2
        <5> QED
          BY <5>1
      <4> QED
        BY <4>1, <4>2
    <3>2. NodeIs(u, LastNode(u, m))'
      BY <1>3, <2>1, <2>3, <2>5, <2>9, <3>1 DEF NodeIs
    <3> QED
      BY <3>2
  <2> QED
    BY <2>8, <2>9
<1>6. CASE AddRelationships
  <2>1. UNCHANGED <<topic, reached>> /\ Written' = Written
    BY <1>6 DEF AddRelationships, Finish, Written
  <2>2. graph'.nodes[u] = graph.nodes[u] \/ (graph.nodes[u] = NoNode /\ graph'.nodes[u] = Placeholder)
    BY <1>1, <1>6, EdgesWritten
  <2>3. LastNode(u, n)' = LastNode(u, n)
    BY <2>1 DEF LastNode
  <2>4. LastNode(u, n) # 0 => BuildEntities(topic[LastNode(u, n)])[1].props # NoNode
    <3>1. LastNode(u, n) # 0 => topic[LastNode(u, n)] \in Events
      BY <1>1, <1>4
    <3> QED
      BY <1>1, <3>1, NodeOfEvent, GraphAssumption
  <2>5. NodeIs(u, LastNode(u, n))'
    BY <1>3, <2>1, <2>2, <2>3, <2>4 DEF NodeIs
  <2> QED
    BY <2>1, <2>5
<1>7. CASE GraphFails
  BY <1>1, <1>7, FaultCounts DEF GraphFails, GraphLost
<1>8. CASE /\ UNCHANGED graph
           /\ topic' = topic \/ \E e \in Events : topic' = Append(topic, e)
           /\ Written' \in Nat /\ Written' <= Written
           /\ reached' \in Nat /\ reached <= reached'
  <2>1. n \in Written' .. reached' /\ n \in 0 .. Len(topic)
    BY <1>1, <1>8
  <2>2. /\ \A i \in 1 .. Len(topic) : topic'[i] = topic[i]
        /\ LastNode(u, n)' = LastNode(u, n)
    BY <1>1, <1>8, <2>1, LastOfGrownTopic
  <2>3. NodeIs(u, LastNode(u, n))'
    BY <1>3, <1>4, <1>8, <2>2 DEF NodeIs
  <2> QED
    BY <2>1, <2>3
<1> QED
  BY <1>5, <1>6, <1>7, <1>8, GraphUntouched

-----------------------------------------------------------------------------
(* Steps that are none of the queue's leave it, and the index, alone.      *)
LEMMA QueueUntouched ==
    JobInv /\ Steps =>
        \/ UpdateElasticsearch \/ Flush \/ BulkResponse \/ BulkFails \/ Crash \/ Shutdown
        \/ UNCHANGED <<pending, flight, index>> /\ Fed' = Fed
<1> SUFFICES ASSUME JobInv, Steps,
                    ~ (UpdateElasticsearch \/ Flush \/ BulkResponse \/ BulkFails \/ Crash \/ Shutdown)
             PROVE  UNCHANGED <<pending, flight, index>> /\ Fed' = Fed
  OBVIOUS
<1>1. position \in Nat
  BY TypeFacts DEF JobInv
<1>2. CASE Emits \/ Loses \/ UNCHANGED vars
  BY <1>2 DEF Emits, Loses, vars, Fed, job, queue
<1>3. CASE AddEntities
  BY <1>1, <1>3 DEF AddEntities, Finish, Fed, queue
<1>4. CASE AddRelationships
  BY <1>1, <1>4 DEF AddRelationships, Finish, Fed, queue
<1>5. CASE CommitOffset
  BY <1>5 DEF CommitOffset, Fed, queue
<1>6. CASE GraphFails
  BY <1>1, <1>6 DEF GraphFails, Finish, Fed, queue
<1> QED
  BY <1>2, <1>3, <1>4, <1>5, <1>6 DEF Steps, Process

(* What feeding an event, sending the queue, and an answer do to it.       *)
LEMMA FeedingEvent ==
    ASSUME JobInv, UpdateElasticsearch
    PROVE  LET docs == pending \o DocumentsToUpdate(position + 1) IN
           /\ docs \in Seq(Doc) /\ Sorted(docs)
           /\ \A i \in DOMAIN docs : docs[i].at \in 1 .. position + 1
           /\ \A i \in DOMAIN docs : docs[i].at = position + 1 \/ \E j \in DOMAIN pending : docs[i] = pending[j]
           /\ \A u, f : Ats(docs, u, f) = Ats(pending, u, f) \cup Ats(DocumentsToUpdate(position + 1), u, f)
           /\ position + 1 \in 1 .. Len(topic) /\ Fed = position /\ Fed' = position + 1
           /\ \/ pending' = docs /\ flight' = flight
              \/ flight = NoFlight /\ pending' = <<>> /\ flight' = [docs |-> docs, attempt |-> 0]
           /\ UNCHANGED <<topic, index, faults>>
<1> DEFINE new == DocumentsToUpdate(position + 1)
           docs == pending \o new
<1>1. /\ TypeInv /\ QueueInv /\ topic \in Seq(Events) /\ Len(topic) \in Nat
      /\ position \in Nat /\ pending \in Seq(Doc)
  BY TypeFacts DEF JobInv, TypeInv
<1>2. /\ pc = "poll" /\ position < Len(topic) /\ pc' = "nodes"
      /\ UNCHANGED <<topic, position, index, faults>>
      /\ \/ pending' = docs /\ flight' = flight
         \/ flight = NoFlight /\ pending' = <<>> /\ flight' = [docs |-> docs, attempt |-> 0]
  BY DEF UpdateElasticsearch, Sent
<1>3. position + 1 \in 1 .. Len(topic) /\ Fed = position /\ Fed' = position + 1
  BY <1>1, <1>2 DEF Fed
<1>4. new \in Seq(Doc) /\ Sorted(new) /\ \A i \in DOMAIN new : new[i].at = position + 1
  BY <1>1, <1>3, DocumentsOfEvent
<1>5. Sorted(pending) /\ \A j \in DOMAIN pending : pending[j].at \in 1 .. position
  BY <1>1, <1>3 DEF QueueInv
<1> HIDE DEF new
<1>6. \A i \in DOMAIN pending, j \in DOMAIN new : pending[i].at < new[j].at
  BY <1>1, <1>4, <1>5
<1>7. /\ docs \in Seq(Doc) /\ Sorted(docs)
      /\ \A i \in DOMAIN docs : \/ i \in DOMAIN pending /\ docs[i] = pending[i]
                                \/ i - Len(pending) \in DOMAIN new /\ docs[i] = new[i - Len(pending)]
      /\ \A u, f : Ats(docs, u, f) = Ats(pending, u, f) \cup Ats(new, u, f)
  BY <1>1, <1>4, <1>5, <1>6, JoinedDocuments
<1> HIDE DEF docs
<1>8. \A i \in DOMAIN docs : docs[i].at \in 1 .. position + 1
  BY <1>1, <1>4, <1>5, <1>7
<1>9. \A i \in DOMAIN docs : docs[i].at = position + 1 \/ \E j \in DOMAIN pending : docs[i] = pending[j]
  BY <1>4, <1>7
<1> QED
  BY <1>2, <1>3, <1>7, <1>8, <1>9 DEF docs, new

LEMMA QueueStep == JobInv /\ Steps => QueueInv'
<1> SUFFICES ASSUME JobInv, Steps PROVE QueueInv'
  OBVIOUS
<1>1. /\ TypeInv /\ QueueInv /\ Fed \in Nat /\ position \in Nat
      /\ flight.docs \in Seq(Doc) /\ pending \in Seq(Doc)
  BY TypeFacts DEF JobInv, TypeInv
<1>2. Sorted(<<>>) /\ DOMAIN <<>> = {} /\ NoFlight.docs = <<>>
  BY DEF Sorted, NoFlight
<1>3. CASE UNCHANGED <<pending, flight, index>> /\ Fed' = Fed
  BY <1>1, <1>3 DEF QueueInv
<1>4. CASE UpdateElasticsearch
  <2> DEFINE docs == pending \o DocumentsToUpdate(position + 1)
  <2>1. /\ Sorted(docs) /\ \A i \in DOMAIN docs : docs[i].at \in 1 .. position + 1
        /\ \A i \in DOMAIN docs : docs[i].at = position + 1 \/ \E j \in DOMAIN pending : docs[i] = pending[j]
        /\ Fed = position /\ Fed' = position + 1
    BY <1>4, FeedingEvent
  <2>2. \/ pending' = docs /\ flight' = flight
        \/ flight = NoFlight /\ pending' = <<>> /\ flight' = [docs |-> docs, attempt |-> 0]
    BY <1>4, FeedingEvent
  <2> HIDE DEF docs
  <2>3. CASE pending' = docs /\ flight' = flight
    <3>1. \A i \in DOMAIN flight.docs, j \in DOMAIN docs : flight.docs[i].at < docs[j].at
      BY <1>1, <2>1 DEF QueueInv
    <3>2. \A i \in DOMAIN flight.docs : flight.docs[i].at \in 1 .. position + 1
      BY <1>1, <2>1 DEF QueueInv
    <3> QED
      BY <1>1, <2>1, <2>3, <3>1, <3>2 DEF QueueInv
  <2>4. CASE pending' = <<>> /\ flight' = [docs |-> docs, attempt |-> 0]
    BY <1>2, <2>1, <2>4 DEF QueueInv
  <2> QED
    BY <2>2, <2>3, <2>4
<1>5. CASE Flush
  <2>1. pending' = <<>> /\ flight'.docs = pending /\ Fed' = Fed
    BY <1>5 DEF Flush, Sent, Fed, job
  <2> QED
    BY <1>1, <1>2, <2>1 DEF QueueInv
<1>6. CASE BulkResponse
  <2>1. PICK ids \in SUBSET Ids(flight.docs) : Answered(ids)
    BY <1>6 DEF BulkResponse
  <2>2. Fed' = Fed /\ pending' = pending /\ flight'.docs \in {<<>>, Left(ids)}
    BY <1>2, <1>6, <2>1 DEF BulkResponse, Answered, Fed, job
  <2>3. /\ Sorted(Left(ids))
        /\ \A i \in DOMAIN Left(ids) : \E k \in DOMAIN flight.docs : Left(ids)[i] = flight.docs[k]
    BY <1>1, LeftDocuments DEF QueueInv
  <2> DEFINE left == Left(ids)
  <2> HIDE DEF left
  <2>4. /\ Sorted(left)
        /\ \A i \in DOMAIN left, j \in DOMAIN pending : left[i].at < pending[j].at
        /\ \A i \in DOMAIN left : left[i].at \in 1 .. Fed
    BY <1>1, <2>3 DEF QueueInv, left
  <2>5. CASE flight'.docs = <<>>
    BY <1>1, <1>2, <2>2, <2>5 DEF QueueInv
  <2>6. CASE flight'.docs = left
    BY <1>1, <2>2, <2>4, <2>6 DEF QueueInv
  <2> QED
    BY <2>2, <2>5, <2>6 DEF left
<1>7. CASE BulkFails
  BY <1>1, <1>2, <1>7 DEF BulkFails, QueueInv, Fed, job
<1>8. CASE Crash \/ Shutdown
  BY <1>2, <1>8 DEF Crash, Shutdown, Restart, QueueInv
<1> QED
  BY <1>3, <1>4, <1>5, <1>6, <1>7, <1>8, QueueUntouched

(* A retry was paid for by a rejection.                                    *)
LEMMA RetryStep == JobInv /\ Steps => RetryInv'
<1> SUFFICES ASSUME JobInv, Steps PROVE RetryInv'
  OBVIOUS
<1>1. /\ TypeInv /\ RetryInv /\ flight.attempt \in Nat /\ flight.docs \in Seq(Doc)
      /\ faults.count \in Nat /\ faults'.count \in Nat /\ faults.count <= faults'.count
      /\ faults.kinds \subseteq faults'.kinds
  BY FaultsGrow, JobAssumption DEF JobInv, TypeInv
<1>2. CASE flight'.attempt = 0
  BY <1>1, <1>2 DEF RetryInv
<1>3. CASE flight' = flight
  BY <1>1, <1>3 DEF RetryInv
<1>4. CASE BulkResponse
  <2>1. PICK ids \in SUBSET Ids(flight.docs) :
           /\ Answered(ids)
           /\ IF ids = Ids(flight.docs) THEN UNCHANGED faults ELSE Fault("rejected")
    BY <1>4 DEF BulkResponse
  <2>2. ids = Ids(flight.docs) => Left(ids) = <<>>
    BY <1>1, LeftDocuments
  <2>3. CASE Left(ids) = <<>> \/ flight.attempt = MaxBulkRetry
    BY <1>2, <2>1, <2>3 DEF Answered, NoFlight
  <2>4. CASE Left(ids) # <<>> /\ flight'.attempt = flight.attempt + 1
    <3>1. Fault("rejected")
      BY <2>1, <2>2, <2>4
    <3>2. faults'.count = faults.count + 1 /\ "rejected" \in faults'.kinds
      BY <1>1, <3>1, FaultCounts
    <3> QED
      BY <1>1, <2>4, <3>2 DEF RetryInv
  <2> QED
    BY <2>1, <2>3, <2>4 DEF Answered
<1> QED
  <2>1. CASE UpdateElasticsearch
    BY <1>2, <1>3, <2>1, FeedingEvent
  <2>2. CASE Flush
    BY <1>2, <2>2 DEF Flush, Sent
  <2>3. CASE BulkFails \/ Crash \/ Shutdown
    BY <1>2, <2>3 DEF BulkFails, Crash, Shutdown, Restart, NoFlight
  <2> QED
    BY <1>3, <1>4, <2>1, <2>2, <2>3, QueueUntouched

(* The topic only grows.                                                   *)
LEMMA TopicGrows ==
    JobInv /\ Steps => topic' = topic \/ \E e \in Events : topic' = Append(topic, e)
BY DEF Steps, Emits, Loses, Process, UpdateElasticsearch, AddEntities, AddRelationships, CommitOffset,
       Flush, BulkResponse, GraphFails, BulkFails, Crash, Shutdown, Restart, vars

(* Feeding an event adds its document to those that wait.                  *)
LEMMA FeedingField ==
    ASSUME JobInv, UpdateElasticsearch, NEW u \in Urns, NEW f \in Fields
    PROVE  LET n == position + 1
               new == topic[n].aspect # "Other" /\ topic[n].urn = u /\ FieldOf(topic[n].aspect) = f
           IN  /\ n \in Nat /\ Fed = position /\ Fed' = n /\ UNCHANGED <<index, faults>>
               /\ Waiting(u, f)' = Waiting(u, f) \cup (IF new THEN {n} ELSE {})
               /\ LastField(u, f, Fed)' = IF new THEN n ELSE LastField(u, f, Fed)
<1> DEFINE n == position + 1
           new == topic[n].aspect # "Other" /\ topic[n].urn = u /\ FieldOf(topic[n].aspect) = f
           docs == pending \o DocumentsToUpdate(n)
<1>1. /\ topic \in Seq(Events) /\ n \in 1 .. Len(topic) /\ position \in Nat
      /\ Fed = position /\ Fed' = n
      /\ \/ pending' = docs /\ flight' = flight
         \/ flight = NoFlight /\ pending' = <<>> /\ flight' = [docs |-> docs, attempt |-> 0]
      /\ UNCHANGED <<topic, index, faults>>
  BY FeedingEvent, TypeFacts DEF JobInv
<1>2. Ats(docs, u, f) = Ats(pending, u, f) \cup Ats(DocumentsToUpdate(n), u, f)
  BY FeedingEvent
<1>3. Ats(DocumentsToUpdate(n), u, f) = IF new THEN {n} ELSE {}
  BY <1>1, DocumentsOfEvent
<1>4. Ats(<<>>, u, f) = {} /\ NoFlight.docs = <<>>
  BY DEF Ats, NoFlight
<1>5. LastField(u, f, position + 1) = IF new THEN position + 1 ELSE LastField(u, f, position)
  BY <1>1, LastOfOneMore
<1>6. LastField(u, f, Fed)' = LastField(u, f, n)
  BY <1>1 DEF LastField
<1> HIDE DEF new, docs
<1>7. Waiting(u, f)' = Waiting(u, f) \cup Ats(DocumentsToUpdate(n), u, f)
  <2>1. CASE pending' = docs /\ flight' = flight
    BY <1>2, <2>1 DEF Waiting
  <2>2. CASE flight = NoFlight /\ pending' = <<>> /\ flight' = [docs |-> docs, attempt |-> 0]
    BY <1>2, <1>4, <2>2 DEF Waiting
  <2> QED
    BY <1>1, <2>1, <2>2
<1> QED
  BY <1>1, <1>3, <1>5, <1>6, <1>7 DEF new

(* An answer takes documents to the index and leaves the others waiting,   *)
(* unless it drops them.                                                   *)
LEMMA AnsweringField ==
    ASSUME JobInv, NEW ids, NEW u \in Urns, NEW f \in Fields
    PROVE  LET sent == Ats(flight.docs, u, f)  waits == Ats(pending, u, f) IN
           /\ Taken(ids)[u][f] \in Nat
           /\ sent \subseteq 1 .. Fed /\ waits \subseteq 1 .. Fed
           /\ \A m \in sent, n \in waits : m < n
           /\ Ats(Left(ids), u, f) = IF u \in ids THEN {} ELSE sent
           /\ IF u \in ids /\ sent # {}
              THEN Taken(ids)[u][f] \in sent /\ \A n \in sent : n <= Taken(ids)[u][f]
              ELSE Taken(ids)[u][f] = index[u][f]
<1>1. /\ TypeInv /\ QueueInv /\ Fed \in Nat /\ reached \in Nat /\ Fed <= reached
      /\ flight.docs \in Seq(Doc) /\ index \in [Urns -> [Fields -> 0 .. reached]]
  BY TypeFacts DEF JobInv, TypeInv
<1>2. /\ Ats(flight.docs, u, f) \subseteq 1 .. Fed /\ Ats(pending, u, f) \subseteq 1 .. Fed
      /\ \A m \in Ats(flight.docs, u, f), n \in Ats(pending, u, f) : m < n
  BY <1>1 DEF Ats, QueueInv
<1>3. Ats(Left(ids), u, f) = IF u \in ids THEN {} ELSE Ats(flight.docs, u, f)
  BY <1>1, LeftDocuments
<1>4. Sorted(flight.docs) /\ \A i \in DOMAIN flight.docs : flight.docs[i].at \in 1 .. reached
  BY <1>1 DEF QueueInv
<1>5. /\ Taken(ids) \in [Urns -> [Fields -> 0 .. reached]]
      /\ IF u \in ids /\ Ats(flight.docs, u, f) # {}
         THEN /\ Taken(ids)[u][f] \in Ats(flight.docs, u, f)
              /\ \A n \in Ats(flight.docs, u, f) : n <= Taken(ids)[u][f]
         ELSE Taken(ids)[u][f] = index[u][f]
  BY <1>1, <1>4, TakenFields
<1>6. Taken(ids)[u][f] \in Nat
  BY <1>1, <1>5
<1> QED
  BY <1>2, <1>3, <1>5, <1>6

(* As long as none is dropped, no last document gets lost.                 *)
LEMMA DocumentsStep == JobInv /\ Steps => DocumentsInv'
<1> DEFINE Known(u, f) == IF Waiting(u, f) = {} THEN index[u][f] = LastField(u, f, Fed)
                          ELSE LastField(u, f, Fed) \in Waiting(u, f)
                                  /\ \A n \in Waiting(u, f) : n <= LastField(u, f, Fed)
<1> SUFFICES ASSUME JobInv, Steps, Harmless', NEW u \in Urns, NEW f \in Fields
             PROVE  Known(u, f)'
  BY Zenon DEF DocumentsInv
<1>1. /\ TypeInv /\ Fed \in Nat /\ Fed <= Len(topic) /\ topic \in Seq(Events) /\ Len(topic) \in Nat
      /\ faults.count \in Nat /\ faults'.count \in Nat /\ faults.count <= faults'.count
      /\ faults.kinds \subseteq faults'.kinds /\ MaxBulkRetry \in Nat
  BY TypeFacts, FaultsGrow, JobAssumption DEF JobInv
<1>2. Harmless
  BY <1>1 DEF Harmless
<1>3. Known(u, f)
  BY Zenon, <1>2 DEF JobInv, DocumentsInv
<1>4. LastField(u, f, Fed) \in Nat
  BY <1>1, LastOfSome
<1>5. Fed' = Fed => LastField(u, f, Fed)' = LastField(u, f, Fed)
  <2>1. PICK n : n = Fed
    OBVIOUS
  <2>2. LastField(u, f, n)' = LastField(u, f, n)
    BY <1>1, <2>1, TopicGrows, LastOfGrownTopic
  <2> QED
    BY <2>1, <2>2 DEF LastField
<1>6. CASE UNCHANGED <<pending, flight, index>> /\ Fed' = Fed
  BY <1>3, <1>5, <1>6 DEF Waiting
<1>7. CASE UpdateElasticsearch
  <2> DEFINE n == position + 1
             new == topic[n].aspect # "Other" /\ topic[n].urn = u /\ FieldOf(topic[n].aspect) = f
  <2>1. /\ n \in Nat /\ Fed = position /\ index' = index
        /\ Waiting(u, f)' = Waiting(u, f) \cup (IF new THEN {n} ELSE {})
        /\ LastField(u, f, Fed)' = IF new THEN n ELSE LastField(u, f, Fed)
    BY <1>7, FeedingField
  <2>2. Waiting(u, f) \subseteq 1 .. Fed
    BY AnsweringField DEF Waiting
  <2> HIDE DEF new
  <2>3. CASE new
    <3>1. \A m \in Waiting(u, f) : m <= n
      BY <1>1, <2>1, <2>2
    <3> QED
      BY <2>1, <2>3, <3>1
  <2>4. CASE ~ new
    BY <1>3, <2>1, <2>4
  <2> QED
    BY <2>3, <2>4
<1>8. CASE Flush
  <2>1. /\ flight = NoFlight /\ flight' = [docs |-> pending, attempt |-> 0] /\ pending' = <<>>
        /\ index' = index /\ Fed' = Fed
    BY <1>8 DEF Flush, Sent, Fed, job
  <2>2. Waiting(u, f)' = Waiting(u, f)
    BY <2>1 DEF Waiting, Ats, NoFlight
  <2> QED
    BY <1>3, <1>5, <2>1, <2>2
<1>9. CASE BulkResponse
  <2>1. PICK ids \in SUBSET Ids(flight.docs) :
           /\ Answered(ids)
           /\ IF ids = Ids(flight.docs) THEN UNCHANGED faults ELSE Fault("rejected")
    BY <1>9 DEF BulkResponse
  <2>2. Fed' = Fed
    BY <1>9 DEF BulkResponse, Fed, job
  <2>3. flight'.docs = Left(ids)
    <3>1. ids = Ids(flight.docs) => Left(ids) = <<>>
      BY <1>1, LeftDocuments DEF TypeInv
    <3>2. ASSUME flight.attempt = MaxBulkRetry, ids # Ids(flight.docs) PROVE FALSE
      <4>1. faults'.count = faults.count + 1 /\ "rejected" \in faults'.kinds
        BY <1>1, <2>1, <3>2, FaultCounts
      <4>2. MaxBulkRetry <= faults.count
        BY <3>2 DEF JobInv, RetryInv
      <4> QED
        BY <1>1, <4>1, <4>2 DEF Harmless
    <3> QED
      BY <2>1, <3>1, <3>2 DEF Answered, NoFlight
  <2> DEFINE sent == Ats(flight.docs, u, f)
             waits == Ats(pending, u, f)
  <2>4. /\ sent \subseteq 1 .. Fed /\ waits \subseteq 1 .. Fed
        /\ \A m \in sent, n \in waits : m < n
        /\ Ats(Left(ids), u, f) = IF u \in ids THEN {} ELSE sent
        /\ Taken(ids)[u][f] \in Nat
        /\ IF u \in ids /\ sent # {}
           THEN Taken(ids)[u][f] \in sent /\ \A n \in sent : n <= Taken(ids)[u][f]
           ELSE Taken(ids)[u][f] = index[u][f]
    BY AnsweringField
  <2>5. Waiting(u, f) = sent \cup waits /\ Waiting(u, f)' = (IF u \in ids THEN {} ELSE sent) \cup waits
    BY <2>1, <2>3, <2>4 DEF Waiting, Answered
  <2>6. index'[u][f] = Taken(ids)[u][f]
    BY <2>1 DEF Answered
  <2>7. PICK shown, last : /\ shown = Taken(ids)[u][f] /\ last = LastField(u, f, Fed)
                           /\ LastField(u, f, Fed)' = last /\ last \in Nat
    BY <1>4, <1>5, <2>2
  <2> HIDE DEF sent, waits
  <2>8. CASE u \notin ids
    BY <1>3, <2>4, <2>5, <2>6, <2>7, <2>8
  <2>9. CASE u \in ids /\ waits = {}
    <3>1. sent = {} => shown = last
      BY <1>3, <2>4, <2>5, <2>7, <2>9
    <3>2. sent # {} => shown = last
      <4>1. sent # {} => last \in sent /\ shown \in sent /\ last <= shown /\ shown <= last
        BY <1>3, <2>4, <2>5, <2>7, <2>9
      <4> QED
        BY <2>4, <2>7, <4>1
    <3> QED
      BY <2>5, <2>6, <2>7, <2>9, <3>1, <3>2
  <2>10. CASE u \in ids /\ waits # {}
    <3>1. last \in sent \cup waits /\ \A n \in sent \cup waits : n <= last
      BY <1>3, <2>5, <2>7, <2>10
    <3>2. last \notin sent
      <4>1. PICK n \in waits : TRUE
        BY <2>10
      <4>2. last \in sent => last < n /\ n <= last
        BY <2>4, <3>1
      <4>3. n \in Nat
        BY <2>4
      <4> QED
        BY <2>7, <4>2, <4>3
    <3>3. Waiting(u, f)' = waits /\ waits # {} /\ last \in waits /\ \A n \in waits : n <= last
      BY <2>5, <2>10, <3>1, <3>2
    <3> QED
      BY <2>7, <3>3
  <2> QED
    BY <2>8, <2>9, <2>10
<1>10. CASE BulkFails \/ Crash \/ Shutdown
  <2>1. PICK kind \in {"bulkFailed", "crash", "shutdown"} : Fault(kind)
    BY <1>10 DEF BulkFails, Crash, Shutdown
  <2>2. kind \in faults'.kinds
    BY <1>1, <2>1, FaultCounts
  <2> QED
    BY <2>2 DEF Harmless
<1> QED
  BY <1>6, <1>7, <1>8, <1>9, <1>10, QueueUntouched

(* Until the first crash, what is indexed is not newer than what waits.    *)
LEMMA IndexStep ==
    JobInv /\ Steps =>
        /\ IndexInv'
        /\ "crash" \notin faults.kinds => \A u \in Urns, f \in Fields : index[u][f] <= index'[u][f]
<1> DEFINE Older(u, f) == index[u][f] <= Fed /\ \A n \in Waiting(u, f) : index[u][f] <= n
<1>0. JobInv /\ Steps => faults.kinds \subseteq faults'.kinds
  BY FaultsGrow
<1> SUFFICES ASSUME JobInv, Steps, "crash" \notin faults.kinds, NEW u \in Urns, NEW f \in Fields
             PROVE  /\ "crash" \notin faults'.kinds => Older(u, f)'
                    /\ index[u][f] <= index'[u][f]
  BY <1>0 DEF IndexInv
<1>1. /\ TypeInv /\ Fed \in Nat /\ index[u][f] \in Nat /\ position \in Nat
      /\ Older(u, f)
  <2>1. TypeInv /\ Fed \in Nat /\ index \in [Urns -> [Fields -> 0 .. reached]] /\ position \in Nat
    BY TypeFacts DEF JobInv
  <2> QED
    BY <2>1 DEF JobInv, IndexInv
<1> DEFINE sent == Ats(flight.docs, u, f)
           waits == Ats(pending, u, f)
<1>2. \A ids :
        /\ sent \subseteq 1 .. Fed /\ waits \subseteq 1 .. Fed
        /\ \A m \in sent, n \in waits : m < n
        /\ Ats(Left(ids), u, f) = IF u \in ids THEN {} ELSE sent
        /\ Taken(ids)[u][f] \in Nat
        /\ IF u \in ids /\ sent # {}
           THEN Taken(ids)[u][f] \in sent /\ \A n \in sent : n <= Taken(ids)[u][f]
           ELSE Taken(ids)[u][f] = index[u][f]
  BY AnsweringField
<1>3. Waiting(u, f) = sent \cup waits
  BY DEF Waiting
<1>4. CASE UNCHANGED <<pending, flight, index>> /\ Fed' = Fed
  BY <1>1, <1>4 DEF Waiting
<1>5. CASE UpdateElasticsearch
  <2> DEFINE n == position + 1
             new == topic[n].aspect # "Other" /\ topic[n].urn = u /\ FieldOf(topic[n].aspect) = f
  <2>1. /\ n \in Nat /\ Fed = position /\ Fed' = n /\ index' = index
        /\ Waiting(u, f)' = Waiting(u, f) \cup (IF new THEN {n} ELSE {})
    BY <1>5, FeedingField
  <2> QED
    BY <1>1, <2>1
<1>6. CASE Flush
  <2>1. /\ flight = NoFlight /\ flight' = [docs |-> pending, attempt |-> 0] /\ pending' = <<>>
        /\ index' = index /\ Fed' = Fed
    BY <1>6 DEF Flush, Sent, Fed, job
  <2>2. Waiting(u, f)' = Waiting(u, f)
    BY <2>1 DEF Waiting, Ats, NoFlight
  <2> QED
    BY <1>1, <2>1, <2>2
<1> HIDE DEF sent, waits
<1>7. ASSUME NEW ids, index' = Taken(ids)
      PROVE  /\ index[u][f] <= index'[u][f] /\ index'[u][f] <= Fed
             /\ \A n \in (IF u \in ids THEN {} ELSE sent) \cup waits : index'[u][f] <= n
  <2>1. CASE u \in ids /\ sent # {}
    <3>1. PICK shown \in sent : shown = index'[u][f]
      BY <1>2, <1>7, <2>1
    <3>2. shown \in 1 .. Fed /\ index[u][f] <= shown
      BY <1>1, <1>2, <1>3, <3>1
    <3>3. \A n \in waits : shown <= n
      <4> SUFFICES ASSUME NEW n \in waits PROVE shown <= n
        OBVIOUS
      <4>1. shown < n /\ n \in 1 .. Fed
        BY <1>2, <3>1
      <4> QED
        BY <1>1, <3>2, <4>1
    <3> QED
      BY <2>1, <3>1, <3>2, <3>3
  <2>2. CASE ~ (u \in ids /\ sent # {})
    <3>1. index'[u][f] = index[u][f]
      BY <1>2, <1>7, <2>2
    <3> QED
      BY <1>1, <1>3, <2>2, <3>1
  <2> QED
    BY <2>1, <2>2
<1>8. CASE BulkResponse
  <2>1. PICK ids \in SUBSET Ids(flight.docs) : Answered(ids)
    BY <1>8 DEF BulkResponse
  <2>2. Fed' = Fed /\ index' = Taken(ids) /\ pending' = pending /\ flight'.docs \in {<<>>, Left(ids)}
    BY <1>8, <2>1 DEF BulkResponse, Answered, Fed, job, NoFlight
  <2>3. Ats(<<>>, u, f) = {}
    BY DEF Ats
  <2>4. Waiting(u, f)' \subseteq (IF u \in ids THEN {} ELSE sent) \cup waits
    BY <1>2, <2>2, <2>3 DEF Waiting, waits
  <2> QED
    BY <1>7, <2>2, <2>4
<1>9. CASE BulkFails
  <2>1. PICK ids : index' = Taken(ids)
    BY <1>9 DEF BulkFails
  <2>2. Fed' = Fed /\ pending' = pending /\ flight'.docs = <<>>
    BY <1>9 DEF BulkFails, Fed, job, NoFlight
  <2>3. Waiting(u, f)' = waits
    BY <2>2 DEF Waiting, Ats, waits
  <2> QED
    BY <1>7, <2>1, <2>2, <2>3
<1>10. CASE Crash \/ Shutdown
  <2>1. PICK ids : index' = Taken(ids)
    BY <1>10 DEF Crash, Shutdown, Restart
  <2>2. pending' = <<>> /\ flight'.docs = <<>>
    BY <1>10 DEF Crash, Shutdown, Restart, NoFlight
  <2>3. Waiting(u, f)' = {}
    BY <2>2 DEF Waiting, Ats
  <2>4. Crash => "crash" \in faults'.kinds
    BY <1>1, FaultCounts DEF Crash
  <2>5. Shutdown => Fed' = Fed
    BY DEF Shutdown, Restart, Fed
  <2> QED
    BY <1>7, <1>10, <2>1, <2>3, <2>4, <2>5
<1> QED
  BY <1>4, <1>5, <1>6, <1>8, <1>9, <1>10, QueueUntouched

(* The invariant is inductive.                                             *)
LEMMA JobGoesOn == JobInv /\ Steps => JobInv'
BY TypeStep, EdgesStep, NodesStep, QueueStep, RetryStep, DocumentsStep, IndexStep DEF JobInv

(* What it says of the stores.                                             *)
LEMMA StoresOfInvariant == JobInv => StoresFollowTopic
<1> SUFFICES ASSUME JobInv PROVE StoresFollowTopic
  OBVIOUS
<1>1. /\ TypeInv /\ QueueInv /\ position \in Nat /\ reached \in Nat /\ position <= reached
      /\ flight.docs \in Seq(Doc) /\ pending \in Seq(Doc)
  BY TypeFacts DEF JobInv, TypeInv
<1>2. GraphFollowsTopic
  BY DEF JobInv, EdgesInv, GraphFollowsTopic
<1>3. NodesFollowTopic
  <2> SUFFICES ASSUME pc = "poll", ~ GraphLost, position = reached, NEW u \in Urns
               PROVE  NodeIs(u, LastNode(u, position))
    BY DEF NodesFollowTopic, NodeIs
  <2>1. PICK n \in position .. reached : NodeIs(u, LastNode(u, n))
    BY DEF JobInv, NodesInv, Written
  <2>2. n = position
    BY <1>1, <2>1
  <2> QED
    BY <2>1, <2>2
<1>4. NoDocumentLost
  <2> SUFFICES ASSUME faults.kinds \subseteq {"rejected", "graphFailed"}, faults.count <= MaxBulkRetry,
                      NEW u \in Urns, NEW f \in Fields
               PROVE  Applied(Queued)[u][f] = LastField(u, f, Fed)
    BY DEF NoDocumentLost
  <2>1. Harmless
    BY DEF Harmless
  <2>2. IF Waiting(u, f) = {} THEN index[u][f] = LastField(u, f, Fed)
        ELSE LastField(u, f, Fed) \in Waiting(u, f) /\ \A n \in Waiting(u, f) : n <= LastField(u, f, Fed)
    BY <2>1 DEF JobInv, DocumentsInv
  <2>3. Queued \in Seq(Doc) /\ Sorted(Queued) /\ Ats(Queued, u, f) = Waiting(u, f)
    BY <1>1, JoinedDocuments DEF Queued, QueueInv, Waiting
  <2> DEFINE docs == Queued
  <2> HIDE DEF docs
  <2>4. /\ Ats(docs, u, f) \subseteq Nat
        /\ Ats(docs, u, f) = {} => Applied(docs)[u][f] = index[u][f]
        /\ Ats(docs, u, f) # {} => /\ Applied(docs)[u][f] \in Ats(docs, u, f)
                                   /\ \A n \in Ats(docs, u, f) : n <= Applied(docs)[u][f]
    BY <2>3, LatestIsApplied DEF docs
  <2>5. CASE Waiting(u, f) = {}
    BY <2>2, <2>3, <2>4, <2>5 DEF docs
  <2>6. CASE Waiting(u, f) # {}
    <3>1. PICK shown, last : shown = Applied(docs)[u][f] /\ last = LastField(u, f, Fed)
      OBVIOUS
    <3>2. /\ shown \in Waiting(u, f) /\ last \in Waiting(u, f) /\ Waiting(u, f) \subseteq Nat
          /\ shown <= last /\ last <= shown
      BY <2>2, <2>3, <2>4, <2>6, <3>1 DEF docs
    <3>3. shown = last
      BY <3>2
    <3> QED
      BY <3>1, <3>3 DEF docs
  <2> QED
    BY <2>5, <2>6
<1> QED
  BY <1>2, <1>3, <1>4 DEF StoresFollowTopic

(* Whatever the events, the faults and the order of the steps: between two *)
(* events the edges of an urn are those of one event, nodes are those of   *)
(* the last event, and no document is lost while rejected ones are sent    *)
(* again (updateNeo4j, ElasticsearchConnector).                            *)
THEOREM StoresFollow == Spec => []StoresFollowTopic
<1>1. Spec => []JobInv
  <2>1. Init => JobInv
    BY JobStarts
  <2>2. JobInv /\ [Next]_vars => JobInv'
    BY NextIsSteps, JobGoesOn
  <2> QED
    BY <2>1, <2>2, PTL DEF Spec
<1> QED
  BY <1>1, StoresOfInvariant, PTL

LEMMA IndexGoesOn ==
    JobInv /\ Steps => [\A u \in Urns, f \in Fields :
                          index'[u][f] < index[u][f] => "crash" \in faults.kinds]_index
<1> SUFFICES ASSUME JobInv, Steps, NEW u \in Urns, NEW f \in Fields,
                    index'[u][f] < index[u][f], "crash" \notin faults.kinds
             PROVE  FALSE
  OBVIOUS
<1>1. index[u][f] <= index'[u][f]
  BY IndexStep
<1>2. index[u][f] \in Nat /\ index'[u][f] \in Nat
  <2>1. index \in [Urns -> [Fields -> 0 .. reached]]
    BY TypeFacts DEF JobInv
  <2>2. index' \in [Urns -> [Fields -> 0 .. reached']]
    BY TypeStep DEF TypeInv, TypeOK
  <2> QED
    BY <2>1, <2>2
<1> QED
  BY <1>1, <1>2

(* A field of the index goes back to an older event only after a crash has *)
(* sent the job back, however often documents are rejected and sent again. *)
THEOREM IndexOnlyGoesOn == Spec => IndexNeverGoesBack
<1>1. Init => JobInv
  BY JobStarts
<1>2. JobInv /\ [Next]_vars => JobInv'
  BY NextIsSteps, JobGoesOn
<1>3. JobInv /\ [Next]_vars => [\A u \in Urns, f \in Fields :
                                  index'[u][f] < index[u][f] => "crash" \in faults.kinds]_index
  BY NextIsSteps, IndexGoesOn
<1> QED
  BY <1>1, <1>2, <1>3, PTL DEF Spec, IndexNeverGoesBack

-----------------------------------------------------------------------------
(* The edges as a view of the topic.                                       *)

(* The log has one entry per event.                                        *)
LEMMA LogOfTopic ==
    ASSUME topic \in Seq(Events)
    PROVE  /\ Log \in Seq({Entry(e) : e \in Events}) /\ Len(Log) = Len(topic)
           /\ \A n \in 1 .. Len(topic) : Log[n] = Entry(topic[n])
<1> DEFINE X == {Entry(e) : e \in Events}
<1>1. Len(topic) \in Nat /\ DOMAIN topic = 1 .. Len(topic) /\ \A n \in 1 .. Len(topic) : topic[n] \in Events
  OBVIOUS
<1>2. Log = [n \in 1 .. Len(topic) |-> Entry(topic[n])]
  BY <1>1 DEF Log
<1>3. \A n \in 1 .. Len(topic) : Entry(topic[n]) \in X
  BY <1>1
<1> HIDE DEF X
<1>4. Log \in [1 .. Len(topic) -> X]
  BY <1>2, <1>3
<1>5. Log \in Seq(X) /\ Len(Log) = Len(topic)
  BY <1>1, <1>4
<1> QED
  BY <1>2, <1>5 DEF X

(* An event keeps the view unless it has edges.                            *)
LEMMA EntryKeeps ==
    ASSUME NEW e
    PROVE  /\ RelationshipUpdates(e) = <<>> \/ RelationshipUpdates(e) = <<<<>>>> => Entry(e).keep = TRUE
           /\ RelationshipUpdates(e) # <<>> /\ RelationshipUpdates(e) # <<<<>>>> =>
                 Entry(e) = [key |-> <<e.urn, EdgeType(e.aspect)>>, keep |-> FALSE,
                             value |-> {RelationshipUpdates(e)[1][i] : i \in DOMAIN RelationshipUpdates(e)[1]}]
<1>1. Entry(e) = IF RelationshipUpdates(e) = <<>> \/ RelationshipUpdates(e) = <<<<>>>>
                 THEN [key |-> <<e.urn, "ReportsTo">>, keep |-> TRUE, value |-> {}]
                 ELSE [key |-> <<e.urn, EdgeType(e.aspect)>>, keep |-> FALSE,
                       value |-> {RelationshipUpdates(e)[1][i] : i \in DOMAIN RelationshipUpdates(e)[1]}]
  BY Zenon DEF Entry
<1> QED
  BY <1>1

(* An appended event is an entry written at the end of the log.            *)
LEMMA EmitsWrites ==
    ASSUME topic \in Seq(Events), NEW e \in Events, topic' = Append(topic, e)
    PROVE  Len(Log') = Len(Log) + 1 /\ SubSeq(Log', 1, Len(Log)) = Log
<1> DEFINE X == {Entry(f) : f \in Events}  n == Len(topic)
<1>1. topic' \in Seq(Events) /\ Len(topic') = n + 1 /\ n \in Nat /\ \A i \in 1 .. n : topic'[i] = topic[i]
  OBVIOUS
<1>2. Log \in Seq(X) /\ Len(Log) = n /\ \A i \in 1 .. n : Log[i] = Entry(topic[i])
  BY LogOfTopic
<1>3. Log' \in Seq(X) /\ Len(Log') = n + 1 /\ \A i \in 1 .. n + 1 : Log'[i] = Entry(topic'[i])
  <2>1. DOMAIN topic' = 1 .. n + 1 /\ \A i \in 1 .. n + 1 : topic'[i] \in Events
    BY <1>1
  <2>2. Log' = [i \in 1 .. n + 1 |-> Entry(topic'[i])]
    BY <2>1 DEF Log
  <2>3. \A i \in 1 .. n + 1 : Entry(topic'[i]) \in X
    BY <2>1
  <2> HIDE DEF X, n
  <2>4. Log' \in [1 .. n + 1 -> X] /\ n + 1 \in Nat
    BY <1>1, <2>2, <2>3
  <2>5. Log' \in Seq(X) /\ Len(Log') = n + 1
    BY <2>4
  <2> QED
    BY <2>2, <2>5
<1> QED
  BY <1>1, <1>2, <1>3

(* A step of the job is a step of the view: an event that is sent is       *)
(* written, one that is finished is read, one that fails in the graph is   *)
(* skipped, and a crash goes back.                                         *)
LEMMA JobStepsView ==
    JobInv /\ Steps => View!Next \/ UNCHANGED <<Log, position, EdgeView, GraphLost>>
<1> SUFFICES ASSUME JobInv, Steps
             PROVE  View!Next \/ UNCHANGED <<Log, position, EdgeView, GraphLost>>
  OBVIOUS
<1>1. /\ TypeInv /\ topic \in Seq(Events) /\ Len(topic) \in Nat /\ graph \in Graph
      /\ position \in Nat /\ committed \in Nat /\ committed <= position
      /\ position <= reached /\ reached <= Len(topic) /\ reached \in Nat
      /\ pc # "poll" => position + 1 \in 1 .. Len(topic) /\ topic[position + 1] \in Events
                           /\ position < Len(topic)
  BY TypeFacts DEF JobInv
<1>2. UNCHANGED topic => Log' = Log
  BY DEF Log
<1>3. graph'.edges = graph.edges => EdgeView' = EdgeView
  BY DEF EdgeView, EdgesFrom
<1>4. UNCHANGED faults => GraphLost' = GraphLost
  BY DEF GraphLost
<1>5. \A kind : kind # "graphFailed" /\ Fault(kind) => GraphLost' = GraphLost
  BY <1>1, FaultCounts DEF GraphLost
<1>6. /\ Len(Log) = Len(topic)
      /\ \A n \in 1 .. Len(topic) : Log[n] = Entry(topic[n])
  BY <1>1, LogOfTopic
<1>7. CASE Emits
  <2>1. Len(Log') = Len(Log) + 1 /\ SubSeq(Log', 1, Len(Log)) = Log
    BY <1>1, <1>7, EmitsWrites DEF Emits
  <2>2. UNCHANGED <<position, EdgeView, GraphLost>>
    BY <1>3, <1>4, <1>7 DEF Emits, job
  <2> QED
    BY <2>1, <2>2 DEF View!Next, View!Write
<1>8. CASE /\ UNCHANGED <<topic, position>> /\ graph'.edges = graph.edges
           /\ UNCHANGED faults \/ \E kind \in {"rejected", "bulkFailed", "eventLost", "shutdown"} : Fault(kind)
  BY <1>2, <1>3, <1>4, <1>5, <1>8
<1>9. CASE AddEntities
  <2> DEFINE e == topic[position + 1]
  <2>1. graph'.edges = graph.edges
    BY <1>1, <1>9, NodeOfEvent DEF AddEntities
  <2>2. UNCHANGED <<topic, faults>> /\ pc # "poll"
    BY <1>9 DEF AddEntities
  <2>3. CASE UNCHANGED position
    BY <1>8, <2>1, <2>2, <2>3
  <2>4. CASE RelationshipUpdates(e) = <<>> /\ position' = position + 1
    <3>1. Log[position + 1].keep = TRUE
      <4>1. Entry(e).keep = TRUE
        BY <2>4, EntryKeeps
      <4> QED
        BY <1>1, <1>6, <2>2, <4>1
    <3> QED
      BY <1>1, <1>2, <1>3, <1>4, <1>6, <2>1, <2>2, <2>4, <3>1 DEF View!Next, View!Read
  <2> QED
    BY <1>9, <2>3, <2>4 DEF AddEntities, Finish
<1>10. CASE AddRelationships
  <2> DEFINE e == topic[position + 1]
             key == <<e.urn, EdgeType(e.aspect)>>
  <2>1. /\ UNCHANGED <<topic, faults>> /\ pc # "poll" /\ position' = position + 1
    BY <1>10 DEF AddRelationships, Finish
  <2>2. /\ RelationshipUpdates(e) # <<>>
        /\ EdgeType(e.aspect) \in EdgeTypes /\ e.urn \in Urns
        /\ RelationshipUpdates(e) = <<<<>>>> => graph' = graph
        /\ RelationshipUpdates(e) # <<<<>>>> =>
              \A u, t : EdgesFrom(u, t)'
                 = IF u = e.urn /\ t = EdgeType(e.aspect) THEN EdgesOf(position + 1) ELSE EdgesFrom(u, t)
    BY <1>1, <1>10, EdgesWritten
  <2>3. Log[position + 1] = Entry(e) /\ position < Len(Log)
    BY <1>1, <1>6, <2>1
  <2>4. UNCHANGED <<Log, GraphLost>>
    BY <1>2, <1>4, <2>1
  <2>5. CASE RelationshipUpdates(e) = <<<<>>>>
    <3>1. Log[position + 1].keep = TRUE /\ EdgeView' = EdgeView
      BY <1>3, <2>2, <2>3, <2>5, EntryKeeps
    <3> QED
      BY <2>1, <2>3, <2>4, <3>1 DEF View!Next, View!Read
  <2>6. CASE RelationshipUpdates(e) # <<<<>>>>
    <3> DEFINE value == EdgesOf(position + 1)
    <3>1. Entry(e) = [key |-> key, keep |-> FALSE, value |-> value]
      <4>1. value = {RelationshipUpdates(e)[1][i] : i \in DOMAIN RelationshipUpdates(e)[1]}
        BY <1>1 DEF EdgesOf
      <4>2. Entry(e) = [key |-> key, keep |-> FALSE,
                        value |-> {RelationshipUpdates(e)[1][i] : i \in DOMAIN RelationshipUpdates(e)[1]}]
        BY <2>2, <2>6, EntryKeeps
      <4> HIDE DEF value, e
      <4> QED
        BY <4>1, <4>2
    <3>2. key \in Keys /\ \A k \in Keys : k = <<k[1], k[2]>>
      BY <2>2 DEF Keys
    <3>3. \A k \in Keys : EdgesFrom(k[1], k[2])' = IF k = key THEN value ELSE EdgesFrom(k[1], k[2])
      BY <2>2, <2>6, <3>2
    <3>4. EdgeView' = [EdgeView EXCEPT ![key] = value]
      <4>1. EdgeView' = [k \in Keys |-> IF k = key THEN value ELSE EdgesFrom(k[1], k[2])]
        BY <3>3 DEF EdgeView
      <4> HIDE DEF key, value
      <4> QED
        BY <3>2, <4>1 DEF EdgeView
    <3> HIDE DEF key, value
    <3>5. EdgeView' = [EdgeView EXCEPT ![Log[position + 1].key] = Log[position + 1].value]
          /\ ~ Log[position + 1].keep
      BY <2>3, <3>1, <3>4
    <3> QED
      BY <2>1, <2>3, <2>4, <3>5 DEF View!Next, View!Read
  <2> QED
    BY <2>5, <2>6
<1>11. CASE GraphFails
  <2>1. /\ UNCHANGED <<topic, graph>> /\ pc # "poll" /\ position' = position + 1
        /\ Fault("graphFailed")
    BY <1>11 DEF GraphFails, Finish
  <2>2. GraphLost' = TRUE
    BY <1>1, <2>1, FaultCounts DEF GraphLost
  <2> QED
    BY <1>1, <1>2, <1>3, <1>6, <2>1, <2>2 DEF View!Next, View!Skip
<1>12. CASE Crash
  <2>1. /\ UNCHANGED <<topic, graph>> /\ position' = committed /\ Fault("crash")
    BY <1>12 DEF Crash, Restart
  <2>2. position' \in 0 .. position
    BY <1>1, <2>1
  <2> QED
    BY <1>2, <1>3, <1>5, <2>1, <2>2 DEF View!Next, View!GoBack
<1> QED
  <2>1. CASE Loses \/ UpdateElasticsearch \/ CommitOffset \/ Flush \/ BulkFails \/ Shutdown \/ UNCHANGED vars
    BY <1>8, <2>1 DEF Loses, UpdateElasticsearch, CommitOffset, Flush, BulkFails, Shutdown, Restart, vars, job
  <2>2. CASE BulkResponse
    BY <1>8, <2>2 DEF BulkResponse, job
  <2> QED
    BY <1>7, <1>9, <1>10, <1>11, <1>12, <2>1, <2>2 DEF Steps, Process

(* An empty topic is viewed as no edges.                                   *)
LEMMA StartOfView == Init => View!Init
<1> SUFFICES ASSUME Init PROVE View!Init
  OBVIOUS
<1>1. Log = <<>>
  BY DEF Init, Log
<1>2. EdgeView = [k \in Keys |-> {}]
  BY DEF Init, EmptyGraph, EdgeView, EdgesFrom
<1>3. GraphLost = FALSE
  BY DEF Init, GraphLost
<1> QED
  BY <1>1, <1>2, <1>3 DEF Init, View!Init

(* The job implements ReplayedView: whatever the events and the faults,    *)
(* its edges are what an at-least-once reader of the topic shows.          *)
THEOREM JobImplementsView == Spec => EdgesAreAView
<1>1. Init => JobInv /\ View!Init
  BY JobStarts, StartOfView
<1>2. JobInv /\ [Next]_vars => JobInv' /\ [View!Next]_<<Log, position, EdgeView, GraphLost>>
  BY NextIsSteps, JobGoesOn, JobStepsView
<1> QED
  BY <1>1, <1>2, PTL DEF Spec, EdgesAreAView, View!Spec

-----------------------------------------------------------------------------
(* The job behind an aspect store.                                         *)

(* To the job, GMS is a source of events, some of which get lost.          *)
LEMMA PipelineIsSteps ==
    PipelineTypeOK /\ [PipelineNext]_<<vars, gms>> => Steps
<1> SUFFICES ASSUME PipelineTypeOK, [PipelineNext]_<<vars, gms>> PROVE Steps
  OBVIOUS
<1>1. CASE Next \/ UNCHANGED vars
  BY <1>1, NextIsSteps
<1>2. ASSUME NEW w \in Writers, ProduceMetadataAuditEvent(w) PROVE Steps
  <2>1. calls[w] \in Call
    BY <1>2 DEF PipelineTypeOK, ProduceMetadataAuditEvent
  <2>2. [urn |-> calls[w].urn, aspect |-> "UpstreamLineage", value |-> calls[w].value] \in Events
    BY <2>1, PipelineAssumption DEF Call
  <2> QED
    BY <1>2, <2>2 DEF ProduceMetadataAuditEvent, Emits, Steps
<1>3. ASSUME NEW w \in Writers, EventLost(w) PROVE Steps
  BY <1>3 DEF EventLost, Loses, Steps
<1>4. ASSUME NEW w, NEW d, NEW v, Backfill(w, d) \/ Add(w, d, v) PROVE Steps
  BY <1>1, <1>4 DEF Backfill, Add, Begin
<1>5. ASSUME NEW d, FindDownstreams(d) \/ GetUpstreams(d) PROVE Steps
  BY <1>1, <1>5 DEF FindDownstreams, GetUpstreams, vars
<1> QED
  BY <1>1, <1>2, <1>3, <1>4, <1>5 DEF PipelineNext, GmsNext, gms, vars

(* The cases of a step of the pipeline.                                    *)
LEMMA PipelineCases ==
    [PipelineNext]_<<vars, gms>> =>
        \/ UNCHANGED <<topic, stored, calls, request, crossed>>
        \/ \E w \in Writers : ProduceMetadataAuditEvent(w)
        \/ \E w \in Writers : EventLost(w)
        \/ \E w \in Writers, d \in Datasets : Backfill(w, d)
        \/ \E w \in Writers, d \in Datasets, v \in LineageValues : Add(w, d, v)
        \/ \E d \in Datasets : FindDownstreams(d)
        \/ \E d \in Datasets : GetUpstreams(d)
BY DEF PipelineNext, GmsNext, gms, vars

(* The stores, the calls and the request have the right shape.             *)
LEMMA PipelineTypeStep ==
    PipelineInv /\ [PipelineNext]_<<vars, gms>> => PipelineTypeOK'
<1> SUFFICES ASSUME PipelineInv, [PipelineNext]_<<vars, gms>> PROVE PipelineTypeOK'
  OBVIOUS
<1>1. /\ stored \in [Datasets -> LineageValues \cup {NoLineage}]
      /\ calls \in [Writers -> Call \cup {NoCall}]
      /\ \A w \in Writers : calls[w] # NoCall => stored[calls[w].urn] # NoLineage
      /\ request \in Request /\ (request.todo # {} <=> request.status = "reading")
      /\ crossed \subseteq Datasets
  BY DEF PipelineInv, PipelineTypeOK
<1>2. ASSUME NEW w \in Writers, NEW call \in Call, Begin(w, call)
      PROVE  /\ calls' \in [Writers -> Call \cup {NoCall}] /\ crossed' \subseteq Datasets
             /\ \A v \in Writers : calls'[v] = IF v = w THEN call ELSE calls[v]
  BY <1>1, <1>2 DEF Begin, Call
<1>3. CASE UNCHANGED <<topic, stored, calls, request, crossed>>
  BY <1>1, <1>3 DEF PipelineTypeOK
<1>4. ASSUME NEW w \in Writers, ProduceMetadataAuditEvent(w) \/ EventLost(w) PROVE PipelineTypeOK'
  <2>1. UNCHANGED <<stored, request>> /\ calls' = [calls EXCEPT ![w] = NoCall]
    BY <1>4 DEF ProduceMetadataAuditEvent, EventLost
  <2>2. crossed' \subseteq Datasets
    BY <1>1, <1>4 DEF ProduceMetadataAuditEvent, EventLost, Call
  <2> QED
    BY <1>1, <2>1, <2>2 DEF PipelineTypeOK
<1>5. ASSUME NEW w \in Writers, NEW d \in Datasets, Backfill(w, d) PROVE PipelineTypeOK'
  <2>1. stored[d] \in LineageValues /\ UNCHANGED <<stored, request>>
        /\ Begin(w, [urn |-> d, value |-> stored[d]])
    BY <1>1, <1>5 DEF Backfill
  <2>2. [urn |-> d, value |-> stored[d]] \in Call
    BY <2>1 DEF Call
  <2>3. /\ calls' \in [Writers -> Call \cup {NoCall}] /\ crossed' \subseteq Datasets
        /\ \A v \in Writers : calls'[v] = IF v = w THEN [urn |-> d, value |-> stored[d]] ELSE calls[v]
    BY <1>2, <2>1, <2>2
  <2>4. stored[d] # NoLineage
    BY <2>1, PipelineAssumption
  <2> QED
    BY <1>1, <2>1, <2>3, <2>4 DEF PipelineTypeOK
<1>6. ASSUME NEW w \in Writers, NEW d \in Datasets, NEW v \in LineageValues, Add(w, d, v)
      PROVE  PipelineTypeOK'
  <2>1. /\ Begin(w, [urn |-> d, value |-> v]) /\ stored' = [stored EXCEPT ![d] = v]
        /\ request' = [request EXCEPT !.calm = @ /\ v = stored[d]]
    BY <1>6 DEF Add
  <2>2. [urn |-> d, value |-> v] \in Call /\ v # NoLineage
    BY PipelineAssumption DEF Call
  <2>3. /\ calls' \in [Writers -> Call \cup {NoCall}] /\ crossed' \subseteq Datasets
        /\ \A x \in Writers : calls'[x] = IF x = w THEN [urn |-> d, value |-> v] ELSE calls[x]
    BY <1>2, <2>1, <2>2
  <2>4. stored' \in [Datasets -> LineageValues \cup {NoLineage}]
        /\ \A c \in Datasets : stored[c] # NoLineage \/ c = d => stored'[c] # NoLineage
    BY <1>1, <2>1, <2>2
  <2>5. request' \in Request /\ (request'.todo # {} <=> request'.status = "reading")
    BY <1>1, <2>1 DEF Request
  <2>6. \A x \in Writers : calls[x] # NoCall => calls[x].urn \in Datasets
    BY <1>1 DEF Call
  <2> QED
    BY <2>3, <2>4, <2>5, <2>6, <1>1 DEF PipelineTypeOK
<1>7. ASSUME NEW u \in Datasets, FindDownstreams(u) PROVE PipelineTypeOK'
  <2> DEFINE sources == {e.source : e \in {f \in graph.edges : f.type = "DownstreamOf" /\ f.destination = u}}
  <2>1. PICK ds \in kSubset(Min({MaxDownstreams, Cardinality(sources)}), sources) :
           request' = [of |-> u, todo |-> ds, downstreams |-> {},
                       status |-> IF ds = {} THEN "answered" ELSE "reading",
                       calm |-> \A d \in Datasets : Settled(d)]
    BY Zenon, <1>7 DEF FindDownstreams
  <2>2. ds \subseteq sources
    BY <2>1 DEF kSubset
  <2>3. sources \subseteq Datasets
    BY DEF PipelineInv, LineageInv
  <2>4. request' \in Request /\ (request'.todo # {} <=> request'.status = "reading")
    <3> DEFINE calm == \A d \in Datasets : Settled(d)
    <3>1. calm \in BOOLEAN
      OBVIOUS
    <3> HIDE DEF calm, sources
    <3>2. request' = [of |-> u, todo |-> ds, downstreams |-> {},
                      status |-> IF ds = {} THEN "answered" ELSE "reading", calm |-> calm]
      BY <2>1 DEF calm
    <3> QED
      BY <2>2, <2>3, <3>1, <3>2 DEF Request
  <2>5. UNCHANGED <<stored, calls, crossed>>
    BY <1>7 DEF FindDownstreams
  <2> QED
    BY <1>1, <2>4, <2>5 DEF PipelineTypeOK
<1>8. ASSUME NEW d \in Datasets, GetUpstreams(d) PROVE PipelineTypeOK'
  <2>1. UNCHANGED <<stored, calls, crossed>> /\ d \in request.todo
    BY <1>8 DEF GetUpstreams
  <2>2. \/ request' = [request EXCEPT !.todo = @ \ {d}, !.downstreams = @ \cup {d},
                                       !.status = IF request.todo = {d} THEN "answered" ELSE "reading"]
        \/ request' = [request EXCEPT !.todo = {}, !.status = "failed"]
    BY <1>8 DEF GetUpstreams
  <2>3. request' \in Request /\ (request'.todo # {} <=> request'.status = "reading")
    <3>1. request.todo \ {d} = {} <=> request.todo = {d}
      BY <2>1
    <3>2. CASE request' = [request EXCEPT !.todo = {}, !.status = "failed"]
      BY <1>1, <3>2 DEF Request
    <3>3. CASE request' = [request EXCEPT !.todo = @ \ {d}, !.downstreams = @ \cup {d},
                                          !.status = IF request.todo = {d} THEN "answered" ELSE "reading"]
      <4>1. request' = [of |-> request.of, todo |-> request.todo \ {d},
                        downstreams |-> request.downstreams \cup {d},
                        status |-> IF request.todo = {d} THEN "answered" ELSE "reading",
                        calm |-> request.calm]
        BY <1>1, <3>3 DEF Request
      <4>2. request' \in Request
        BY <1>1, <4>1 DEF Request
      <4> QED
        BY <3>1, <4>1, <4>2
    <3> QED
      BY <2>2, <3>2, <3>3
  <2> QED
    BY <1>1, <2>1, <2>3 DEF PipelineTypeOK
<1> QED
  BY <1>3, <1>4, <1>5, <1>6, <1>7, <1>8, PipelineCases

(* Only lineages of datasets reach the topic and the graph.                *)
LEMMA LineageStep ==
    PipelineInv /\ [PipelineNext]_<<vars, gms>> => LineageInv'
<1> SUFFICES ASSUME PipelineInv, [PipelineNext]_<<vars, gms>> PROVE LineageInv'
  OBVIOUS
<1> DEFINE Lineage == [urn : Datasets, aspect : {"UpstreamLineage"}, value : LineageValues]
<1>1. /\ JobInv /\ Steps /\ TypeInv
      /\ topic \in Seq(Events) /\ \A n \in 1 .. Len(topic) : topic[n] \in Lineage
      /\ \A e \in graph.edges : e.source \in Datasets
  BY PipelineIsSteps, TypeFacts DEF PipelineInv, JobInv, LineageInv
<1>2. \A n \in 1 .. Len(topic') : topic'[n] \in Lineage
  <2>1. CASE UNCHANGED topic
    BY <1>1, <2>1
  <2>2. ASSUME NEW w \in Writers, ProduceMetadataAuditEvent(w)
        PROVE  \A n \in 1 .. Len(topic') : topic'[n] \in Lineage
    <3> DEFINE e == [urn |-> calls[w].urn, aspect |-> "UpstreamLineage", value |-> calls[w].value]
    <3>1. calls[w] \in Call
      BY <2>2 DEF PipelineInv, PipelineTypeOK, ProduceMetadataAuditEvent
    <3>2. e \in Lineage /\ topic' = Append(topic, e)
      BY <2>2, <3>1 DEF ProduceMetadataAuditEvent, Call
    <3> HIDE DEF e, Lineage
    <3> QED
      BY <1>1, <3>2
  <2>3. UNCHANGED topic \/ \E w \in Writers : ProduceMetadataAuditEvent(w)
    BY PipelineCases DEF EventLost, Backfill, Add, Begin, FindDownstreams, GetUpstreams, vars
  <2> QED
    BY <2>1, <2>2, <2>3
<1>3. \A e \in graph'.edges : e.source \in Datasets
  <2>1. CASE AddEntities
    <3>1. graph'.edges = graph.edges
      BY <1>1, <2>1, TypeFacts, NodeOfEvent DEF AddEntities
    <3> QED
      BY <1>1, <3>1
  <2>2. CASE AddRelationships
    <3>1. \A f \in graph'.edges : f \in graph.edges \/ f.source = topic[position + 1].urn
      BY <1>1, <2>2, EdgesWritten
    <3>2. topic[position + 1].urn \in Datasets
      BY <1>1, <2>2, TypeFacts DEF AddRelationships
    <3> QED
      BY <1>1, <3>1, <3>2
  <2>3. CASE UNCHANGED graph
    BY <1>1, <2>3
  <2> QED
    BY <1>1, <2>1, <2>2, <2>3, GraphUntouched DEF GraphFails
<1> QED
  BY <1>2, <1>3 DEF LineageInv

(* An event that arrives is the last about its dataset.                    *)
LEMMA LastEventGrows ==
    ASSUME topic \in Seq(Events), NEW e \in Events, topic' = Append(topic, e), NEW d
    PROVE  /\ LastEvent(d)' = IF e.urn = d THEN Len(topic) + 1 ELSE LastEvent(d)
           /\ topic'[Len(topic) + 1] = e
           /\ LastEvent(d) # 0 => topic'[LastEvent(d)] = topic[LastEvent(d)]
<1> DEFINE n == Len(topic)
           S == {i \in 1 .. n + 1 : topic'[i].urn = d}
<1>1. /\ n \in Nat /\ Len(topic') = n + 1 /\ topic'[n + 1] = e
      /\ \A i \in 1 .. n : topic'[i] = topic[i]
  OBVIOUS
<1>2. S \in SUBSET (1 .. n + 1) /\ (n + 1 \in S <=> e.urn = d)
  BY <1>1
<1>3. S \cap (1 .. n) = {i \in 1 .. n : topic[i].urn = d}
  BY <1>1
<1>4. LastEvent(d)' = GreatestOr(S, 0) /\ LastEvent(d) = GreatestOr(S \cap (1 .. n), 0)
  BY <1>1, <1>3 DEF LastEvent, LastNode
<1>5. GreatestOr(S, 0) = IF n + 1 \in S THEN n + 1 ELSE GreatestOr(S \cap (1 .. n), 0)
  <2> HIDE DEF S, n
  <2> QED
    BY <1>1, <1>2, NextOffset
<1>6. LastEvent(d) # 0 => LastEvent(d) \in 1 .. n
  BY <1>1, LastOfSome DEF LastEvent
<1> QED
  BY <1>1, <1>2, <1>4, <1>5, <1>6

(* What is on its way about a dataset, or was sent last, is what is stored.*)
LEMMA AnnouncedStep ==
    PipelineInv /\ [PipelineNext]_<<vars, gms>> => AnnouncedInv'
<1> DEFINE Unheard(d) == stored[d] = NoLineage => LastEvent(d) = 0 /\ About(d) = {}
           Told(d) == /\ \A v, w \in About(d) : v = w
                      /\ \A w \in About(d) : calls[w].value = stored[d]
                      /\ About(d) = {} /\ stored[d] # NoLineage =>
                            LastEvent(d) # 0 /\ topic[LastEvent(d)].value = stored[d]
<1> SUFFICES ASSUME PipelineInv, [PipelineNext]_<<vars, gms>>, NEW d \in Datasets
             PROVE  Unheard(d)' /\ (d \notin crossed' => Told(d)')
  BY DEF AnnouncedInv
<1>1. /\ topic \in Seq(Events)
      /\ stored \in [Datasets -> LineageValues \cup {NoLineage}]
      /\ calls \in [Writers -> Call \cup {NoCall}] /\ NoCall \notin Call
      /\ \A w \in Writers : calls[w] # NoCall => stored[calls[w].urn] # NoLineage
  BY TypeFacts, PipelineAssumption DEF PipelineInv, JobInv, PipelineTypeOK, Call
<1>2. Unheard(d) /\ (d \notin crossed => Told(d))
  BY DEF PipelineInv, AnnouncedInv
<1>3. topic' = topic => LastEvent(d)' = LastEvent(d)
  BY DEF LastEvent, LastNode
<1>4. CASE UNCHANGED <<topic, stored, calls, crossed>>
  BY <1>2, <1>3, <1>4 DEF About
<1>5. ASSUME NEW w \in Writers, ProduceMetadataAuditEvent(w)
      PROVE  Unheard(d)' /\ (d \notin crossed' => Told(d)')
  <2> DEFINE e == [urn |-> calls[w].urn, aspect |-> "UpstreamLineage", value |-> calls[w].value]
  <2>1. calls[w] \in Call /\ calls[w] # NoCall /\ stored[calls[w].urn] # NoLineage
    BY <1>1, <1>5 DEF ProduceMetadataAuditEvent
  <2>2. /\ topic' = Append(topic, e) /\ calls' = [calls EXCEPT ![w] = NoCall]
        /\ UNCHANGED <<stored, crossed>>
    BY <1>5 DEF ProduceMetadataAuditEvent
  <2>3. e \in Events /\ e.urn = calls[w].urn /\ e.value = calls[w].value
    BY <2>1, PipelineAssumption DEF Call
  <2> HIDE DEF e
  <2>4. /\ LastEvent(d)' = IF e.urn = d THEN Len(topic) + 1 ELSE LastEvent(d)
        /\ topic'[Len(topic) + 1] = e
        /\ LastEvent(d) # 0 => topic'[LastEvent(d)] = topic[LastEvent(d)]
    BY <1>1, <2>2, <2>3, LastEventGrows
  <2>5. About(d)' = About(d) \ {w} /\ \A x \in About(d)' : calls'[x] = calls[x]
    BY <1>1, <2>2 DEF About
  <2>6. w \in About(d) <=> e.urn = d
    BY <2>1, <2>3 DEF About
  <2>7. CASE e.urn = d
    <3>1. Unheard(d)'
      BY <2>1, <2>2, <2>3, <2>7
    <3>2. ASSUME d \notin crossed PROVE Told(d)'
      <4>1. About(d)' = {} /\ calls[w].value = stored[d]
        BY <1>2, <2>5, <2>6, <2>7, <3>2
      <4>2. Len(topic) + 1 # 0
        BY <1>1
      <4> QED
        BY <2>2, <2>3, <2>4, <2>7, <4>1, <4>2
    <3> QED
      BY <2>2, <3>1, <3>2
  <2>8. CASE e.urn # d
    <3>1. About(d)' = About(d)
      BY <2>5, <2>6, <2>8
    <3> QED
      BY <1>2, <2>2, <2>4, <2>5, <2>8, <3>1
  <2> QED
    BY <2>7, <2>8
<1>6. ASSUME NEW w \in Writers, EventLost(w)
      PROVE  Unheard(d)' /\ (d \notin crossed' => Told(d)')
  <2>1. /\ calls' = [calls EXCEPT ![w] = NoCall] /\ crossed' = crossed \cup {calls[w].urn}
        /\ UNCHANGED <<topic, stored>>
    BY <1>6 DEF EventLost
  <2>2. About(d)' = About(d) \ {w} /\ \A x \in About(d)' : calls'[x] = calls[x]
    BY <1>1, <2>1 DEF About
  <2>3. d \notin crossed' => w \notin About(d)
    BY <2>1 DEF About
  <2> QED
    BY <1>2, <1>3, <2>1, <2>2, <2>3
<1>7. ASSUME NEW w \in Writers, NEW c \in Datasets, NEW v \in LineageValues,
             Begin(w, [urn |-> c, value |-> v]), stored' = [stored EXCEPT ![c] = v]
      PROVE  Unheard(d)' /\ (d \notin crossed' => Told(d)')
  <2> DEFINE call == [urn |-> c, value |-> v]
  <2>1. /\ calls[w] = NoCall /\ calls' = [calls EXCEPT ![w] = call] /\ topic' = topic
        /\ crossed' = IF About(c) = {} THEN crossed \ {c} ELSE crossed \cup {c}
    BY <1>7 DEF Begin, vars
  <2>2. call \in Call /\ call.urn = c /\ call.value = v /\ call # NoCall
    BY <1>1 DEF Call
  <2> HIDE DEF call
  <2>3. w \notin About(d)
    BY <2>1 DEF About
  <2>4. /\ About(d)' = IF c = d THEN About(d) \cup {w} ELSE About(d)
        /\ \A x \in About(d) : calls'[x] = calls[x]
        /\ calls'[w] = call
    <3>1. \A x \in Writers : calls'[x] = IF x = w THEN call ELSE calls[x]
      BY <1>1, <2>1
    <3> QED
      BY <2>1, <2>2, <3>1 DEF About
  <2>5. CASE c = d
    <3>1. stored'[d] = v /\ v # NoLineage
      BY <1>1, <1>7, <2>5, PipelineAssumption
    <3>2. d \notin crossed' => About(d)' = {w}
      BY <2>1, <2>4, <2>5
    <3> QED
      BY <2>2, <2>4, <3>1, <3>2
  <2>6. CASE c # d
    <3>1. stored'[d] = stored[d] /\ (d \in crossed' <=> d \in crossed) /\ About(d)' = About(d)
      BY <1>1, <1>7, <2>1, <2>4, <2>6
    <3> QED
      BY <1>2, <1>3, <2>1, <2>4, <3>1
  <2> QED
    BY <2>5, <2>6
<1>8. ASSUME NEW w \in Writers, NEW c \in Datasets, Backfill(w, c)
      PROVE  Unheard(d)' /\ (d \notin crossed' => Told(d)')
  <2>1. stored[c] \in LineageValues /\ Begin(w, [urn |-> c, value |-> stored[c]]) /\ stored' = stored
    BY <1>1, <1>8 DEF Backfill
  <2>2. stored' = [stored EXCEPT ![c] = stored[c]]
    BY <1>1, <2>1
  <2> QED
    BY <1>7, <2>1, <2>2
<1>9. ASSUME NEW w \in Writers, NEW c \in Datasets, NEW v \in LineageValues, Add(w, c, v)
      PROVE  Unheard(d)' /\ (d \notin crossed' => Told(d)')
  BY <1>7, <1>9 DEF Add
<1>10. CASE \E c \in Datasets : FindDownstreams(c) \/ GetUpstreams(c)
  BY <1>4, <1>10 DEF FindDownstreams, GetUpstreams, vars
<1> QED
  <2>1. CASE UNCHANGED <<topic, stored, calls, request, crossed>>
    BY <1>4, <2>1
  <2> HIDE DEF Told, Unheard
  <2> QED
    BY <2>1, <1>5, <1>6, <1>8, <1>9, <1>10, PipelineCases

-----------------------------------------------------------------------------
(* The derived stores, once all about a dataset is consumed.               *)

LEMMA GreatestIs ==
    ASSUME NEW n \in Nat, NEW S \in SUBSET (1 .. n), NEW m \in S, \A s \in S : s <= m
    PROVE  GreatestOr(S, 0) = m
<1>1. PICK g : g = GreatestOr(S, 0)
  OBVIOUS
<1>2. g \in S /\ m <= g
  BY <1>1, LastOffset
<1>3. g \in Nat /\ m \in Nat /\ g <= m
  BY <1>2
<1> QED
  BY <1>1, <1>2, <1>3

(* The last event about a settled dataset has its lineage and was read.    *)
LEMMA SettledIsRead ==
    ASSUME PipelineInv, NEW d \in Datasets, Settled(d)
    PROVE  LET m == LastEvent(d) IN
           /\ \A i \in 1 .. Len(topic) : topic[i].urn = d => i <= m
           /\ stored[d] = NoLineage => \A i \in 1 .. Len(topic) : topic[i].urn # d
           /\ stored[d] # NoLineage => /\ m \in 1 .. position /\ position <= Len(topic)
                                       /\ topic[m] = [urn |-> d, aspect |-> "UpstreamLineage", value |-> stored[d]]
                                       /\ stored[d] \in LineageValues
<1> DEFINE m == LastEvent(d)
           S == {i \in 1 .. Len(topic) : topic[i].urn = d}
<1>1. /\ Len(topic) \in Nat /\ position \in Nat /\ position <= Len(topic)
      /\ \A i \in position + 1 .. Len(topic) : topic[i].urn # d
  BY TypeFacts DEF PipelineInv, JobInv, Settled
<1>2. m = GreatestOr(S, 0)
  BY DEF LastEvent, LastNode
<1>3. /\ S = {} => m = 0
      /\ S # {} => m \in S /\ \A i \in S : i <= m
  <2> HIDE DEF S, m
  <2>1. S \in SUBSET (1 .. Len(topic))
    BY DEF S
  <2> QED
    BY <1>1, <1>2, <2>1, LastOffset
<1>4. \A i \in 1 .. Len(topic) : topic[i].urn = d => i <= m
  BY <1>3
<1>5. stored[d] = NoLineage => m = 0
  BY DEF PipelineInv, AnnouncedInv
<1>6. stored[d] # NoLineage => m # 0 /\ topic[m].value = stored[d]
  BY DEF PipelineInv, AnnouncedInv, Settled
<1>7. CASE stored[d] = NoLineage
  <2>1. S = {}
    BY <1>1, <1>3, <1>5, <1>7
  <2> QED
    BY <1>4, <1>7, <2>1
<1>8. CASE stored[d] # NoLineage
  <2>1. m \in 1 .. Len(topic) /\ topic[m].urn = d
    BY <1>3, <1>6, <1>8
  <2>2. m \in 1 .. position
    BY <1>1, <2>1
  <2>3. topic[m] \in [urn : Datasets, aspect : {"UpstreamLineage"}, value : LineageValues]
    BY <2>1 DEF PipelineInv, LineageInv
  <2> HIDE DEF m
  <2>4. topic[m] = [urn |-> d, aspect |-> "UpstreamLineage", value |-> stored[d]] /\ stored[d] \in LineageValues
    BY <1>6, <1>8, <2>1, <2>3
  <2> QED
    BY <1>1, <1>4, <1>8, <2>2, <2>4 DEF m
<1> QED
  BY <1>7, <1>8

(* The edges of an event with a lineage lead to its upstreams.             *)
LEMMA EdgesOfLineage ==
    ASSUME NEW e \in [urn : Datasets, aspect : {"UpstreamLineage"}, value : LineageValues], e.value # <<>>
    PROVE  LET rels == RelationshipUpdates(e)[1] IN
           /\ Replaces(e, e.urn, "DownstreamOf")
           /\ \A x : (\E i \in DOMAIN rels : rels[i].destination = x) <=> \E i \in DOMAIN e.value : e.value[i] = x
<1> DEFINE rels == [i \in DOMAIN e.value |-> Rel("DownstreamOf", e.urn, e.value[i])]
<1>1. e.value \in Seq(Datasets)
  BY PipelineAssumption
<1>2. e.aspect = "UpstreamLineage" /\ EdgeType(e.aspect) = "DownstreamOf"
  BY DEF EdgeType
<1>3. RelationshipUpdates(e) = <<rels>>
  BY <1>2 DEF RelationshipUpdates
<1>4. 1 \in DOMAIN rels
  BY <1>1
<1>5. rels # <<>> /\ <<rels>> # <<>> /\ <<rels>> # <<<<>>>>
  <2> DEFINE r == rels
  <2>1. 1 \in DOMAIN r
    BY <1>4
  <2> HIDE DEF r
  <2>2. r # <<>>
    BY <2>1
  <2>3. <<r>> # <<>> /\ <<r>> # <<<<>>>>
    BY <2>2
  <2> QED
    BY <2>2, <2>3 DEF r
<1>6. \A i \in DOMAIN e.value : rels[i].destination = e.value[i]
  BY DEF Rel
<1>7. RelationshipUpdates(e)[1] = rels /\ DOMAIN rels = DOMAIN e.value
  BY <1>3
<1> HIDE DEF rels
<1>8. Replaces(e, e.urn, "DownstreamOf")
  BY <1>2, <1>3, <1>5 DEF Replaces
<1> QED
  BY <1>6, <1>7, <1>8

(* The graph shows the lineages of the store.                              *)
LEMMA GraphOfStore == PipelineInv => GraphShowsStore
<1> SUFFICES ASSUME PipelineInv, NEW d \in Datasets, Settled(d), stored[d] # <<>>
             PROVE  {e.destination : e \in EdgesFrom(d, "DownstreamOf")} = UpstreamsOf(d)
  BY DEF GraphShowsStore
<1> DEFINE T == "DownstreamOf"  m == LastEvent(d)
<1>1. /\ position \in Nat /\ reached \in Nat /\ position <= reached /\ reached <= Len(topic)
      /\ d \in Urns /\ T \in EdgeTypes /\ ~ GraphLost
  BY TypeFacts, EventAssumption, JobAssumption DEF PipelineInv, JobInv, Settled
<1>2. PICK n \in position .. reached : EdgesFrom(d, T) = EdgesOf(LastReplacing(d, T, n))
  BY <1>1 DEF PipelineInv, JobInv, EdgesInv
<1>3. n \in Nat /\ n <= Len(topic) /\ Len(topic) \in Nat
  BY <1>1, <1>2, TypeFacts DEF PipelineInv, JobInv
<1> DEFINE S == {i \in 1 .. n : Replaces(topic[i], d, T)}
<1>4. LastReplacing(d, T, n) = GreatestOr(S, 0)
  BY DEF LastReplacing
<1>5. \A i \in S : i \in 1 .. Len(topic) /\ topic[i].urn = d
  BY <1>3 DEF Replaces
<1>6. CASE stored[d] = NoLineage
  <2>1. S = {}
    BY <1>5, <1>6, SettledIsRead
  <2>2. EdgesFrom(d, T) = {}
    BY <1>2, <1>4, <2>1 DEF EdgesOf, GreatestOr
  <2> QED
    BY <1>6, <2>2 DEF UpstreamsOf
<1>7. CASE stored[d] # NoLineage
  <2>1. /\ m \in 1 .. n
        /\ topic[m] = [urn |-> d, aspect |-> "UpstreamLineage", value |-> stored[d]]
        /\ stored[d] \in LineageValues
        /\ \A i \in S : i <= m
    BY <1>1, <1>2, <1>5, <1>7, SettledIsRead
  <2> HIDE DEF m
  <2> DEFINE rels == RelationshipUpdates(topic[m])[1]
  <2>2. /\ Replaces(topic[m], d, T)
        /\ \A x : (\E i \in DOMAIN rels : rels[i].destination = x)
                      <=> \E i \in DOMAIN stored[d] : stored[d][i] = x
    <3>1. PICK e \in [urn : Datasets, aspect : {"UpstreamLineage"}, value : LineageValues] :
             topic[m] = e /\ e.urn = d /\ e.value = stored[d] /\ e.value # <<>>
      BY <2>1
    <3>2. LET es == RelationshipUpdates(e)[1] IN
          /\ Replaces(e, e.urn, "DownstreamOf")
          /\ \A x : (\E i \in DOMAIN es : es[i].destination = x) <=> \E i \in DOMAIN e.value : e.value[i] = x
      BY <3>1, EdgesOfLineage
    <3> QED
      BY <3>1, <3>2
  <2>3. GreatestOr(S, 0) = m
    <3>1. m \in S /\ S \in SUBSET (1 .. n)
      BY <2>1, <2>2
    <3> HIDE DEF S
    <3> QED
      BY <1>3, <2>1, <3>1, GreatestIs
  <2>4. EdgesFrom(d, T) = {rels[i] : i \in DOMAIN rels}
    BY <1>2, <1>4, <2>1, <2>3 DEF EdgesOf
  <2> HIDE DEF rels
  <2>5. UpstreamsOf(d) = {stored[d][i] : i \in DOMAIN stored[d]}
    BY <1>7 DEF UpstreamsOf
  <2>6. \A x : x \in {e.destination : e \in EdgesFrom(d, T)} <=> \E i \in DOMAIN rels : rels[i].destination = x
    BY <2>4
  <2>7. \A x : x \in {e.destination : e \in EdgesFrom(d, T)} <=> x \in UpstreamsOf(d)
    <3> SUFFICES ASSUME NEW x
                 PROVE  x \in {e.destination : e \in EdgesFrom(d, T)} <=> x \in UpstreamsOf(d)
      OBVIOUS
    <3>1. x \in UpstreamsOf(d) <=> \E i \in DOMAIN stored[d] : stored[d][i] = x
      BY <2>5
    <3>2. (\E i \in DOMAIN rels : rels[i].destination = x) <=> \E i \in DOMAIN stored[d] : stored[d][i] = x
      BY <2>2
    <3>3. x \in {e.destination : e \in EdgesFrom(d, T)} <=> \E i \in DOMAIN rels : rels[i].destination = x
      BY <2>6
    <3> QED
      BY <3>1, <3>2, <3>3
  <2> QED
    BY <2>7
<1> QED
  BY <1>6, <1>7

(* The search documents show the lineages of the store.                    *)
LEMMA IndexOfStore == PipelineInv => IndexShowsStore
<1> SUFFICES ASSUME PipelineInv, Queued = <<>>, faults.kinds \subseteq {"eventLost"},
                    NEW d \in Datasets, Settled(d), stored[d] # NoLineage
             PROVE  index[d]["upstreams"] > 0 /\ topic[index[d]["upstreams"]].value = stored[d]
  BY DEF IndexShowsStore
<1> DEFINE F == "upstreams"  m == LastEvent(d)
           S == {i \in 1 .. position : /\ topic[i].aspect # "Other" /\ topic[i].urn = d
                                       /\ FieldOf(topic[i].aspect) = F}
<1>1. /\ position \in Nat /\ position <= Len(topic) /\ Len(topic) \in Nat /\ d \in Urns /\ F \in Fields
      /\ pc = "poll" /\ Fed = position /\ flight.docs \in Seq(Doc) /\ pending \in Seq(Doc)
  BY TypeFacts, EventAssumption DEF PipelineInv, JobInv, TypeInv, Settled, Fields
<1>2. Waiting(d, F) = {}
  <2>1. Ats(Queued, d, F) = Waiting(d, F)
    BY <1>1, JoinedDocuments DEF Queued, Waiting
  <2>2. Ats(<<>>, d, F) = {}
    BY DEF Ats
  <2> QED
    BY <2>1, <2>2
<1>3. Harmless
  BY DEF Harmless
<1>4. index[d][F] = LastField(d, F, position)
  BY <1>1, <1>2, <1>3 DEF PipelineInv, JobInv, DocumentsInv
<1>5. LastField(d, F, position) = GreatestOr(S, 0)
  BY DEF LastField
<1>6. /\ m \in 1 .. position
      /\ topic[m] = [urn |-> d, aspect |-> "UpstreamLineage", value |-> stored[d]]
      /\ \A i \in 1 .. Len(topic) : topic[i].urn = d => i <= m
  BY SettledIsRead
<1> HIDE DEF m
<1>7. m \in S /\ S \in SUBSET (1 .. position)
  BY <1>6 DEF FieldOf
<1>8. \A i \in S : i <= m
  BY <1>1, <1>6
<1>9. GreatestOr(S, 0) = m
  <2> HIDE DEF S
  <2> QED
    BY <1>1, <1>7, <1>8, GreatestIs
<1> QED
  BY <1>4, <1>5, <1>6, <1>9

-----------------------------------------------------------------------------
(* The request for downstream datasets.                                    *)

(* When all is settled, the graph names the datasets that have an upstream *)
(* and some without a lineage.                                             *)
LEMMA SettledSources ==
    ASSUME PipelineInv, NEW u \in Datasets, \A d \in Datasets : Settled(d)
    PROVE  LET S == {e.source : e \in {f \in graph.edges : f.type = "DownstreamOf" /\ f.destination = u}} IN
           /\ S \in SUBSET Datasets
           /\ Having(u) \subseteq S
           /\ \A d \in S : stored[d] = <<>> \/ u \in UpstreamsOf(d)
<1> DEFINE S == {e.source : e \in {f \in graph.edges : f.type = "DownstreamOf" /\ f.destination = u}}
<1>1. S \in SUBSET Datasets
  BY DEF PipelineInv, LineageInv
<1>2. \A d \in Datasets : d \in S <=> u \in {e.destination : e \in EdgesFrom(d, "DownstreamOf")}
  BY DEF EdgesFrom
<1>3. \A d \in Datasets : stored[d] # <<>> =>
          {e.destination : e \in EdgesFrom(d, "DownstreamOf")} = UpstreamsOf(d)
  BY GraphOfStore DEF GraphShowsStore
<1>4. \A d \in Datasets : stored[d] = <<>> => UpstreamsOf(d) = {}
  BY DEF UpstreamsOf
<1> HIDE DEF S
<1>5. Having(u) \subseteq S
  BY <1>2, <1>3, <1>4 DEF Having
<1>6. \A d \in S : stored[d] = <<>> \/ u \in UpstreamsOf(d)
  BY <1>1, <1>2, <1>3
<1> QED
  BY <1>1, <1>5, <1>6 DEF S

(* The places of an upstream in a stored lineage can be counted.           *)
LEMMA UpstreamsCount ==
    ASSUME PipelineTypeOK, NEW d \in Datasets, NEW u
    PROVE  /\ Cardinality(Upstreams(d, u)) \in Nat
           /\ Cardinality(Upstreams(d, u)) = 0 <=> u \notin UpstreamsOf(d)
<1>1. CASE stored[d] = NoLineage
  BY <1>1, FS_EmptySet DEF Upstreams, UpstreamsOf
<1>2. CASE stored[d] # NoLineage
  <2>1. stored[d] \in Seq(Datasets)
    BY <1>2, PipelineAssumption DEF PipelineTypeOK
  <2>2. PICK k \in Nat : DOMAIN stored[d] = 1 .. k
    BY <2>1
  <2> DEFINE P == Upstreams(d, u)
  <2>3. P = {i \in 1 .. k : stored[d][i] = u}
    BY <1>2, <2>2 DEF Upstreams
  <2>4. IsFiniteSet(1 .. k)
    BY <2>2, FS_Interval
  <2>5. IsFiniteSet(P)
    <3>1. P \in SUBSET (1 .. k)
      BY <2>3
    <3> HIDE DEF P
    <3> QED
      BY <2>4, <3>1, FS_Subset
  <2>6. Cardinality(P) \in Nat /\ (Cardinality(P) = 0 <=> P = {})
    <3> HIDE DEF P
    <3> QED
      BY <2>5, FS_CardinalityType, FS_EmptySet
  <2>7. P = {} <=> u \notin UpstreamsOf(d)
    BY <1>2, <2>2, <2>3 DEF UpstreamsOf
  <2> QED
    BY <2>6, <2>7
<1> QED
  BY <1>1, <1>2

(* A calm request names what the graph named, and found so far only        *)
(* datasets that have its upstream.                                        *)
LEMMA RequestStep ==
    PipelineInv /\ [PipelineNext]_<<vars, gms>> => RequestInv'
<1> SUFFICES ASSUME PipelineInv, [PipelineNext]_<<vars, gms>> PROVE RequestInv'
  OBVIOUS
<1>1. /\ PipelineTypeOK /\ RequestInv /\ request \in Request
      /\ stored \in [Datasets -> LineageValues \cup {NoLineage}]
      /\ request.todo # {} <=> request.status = "reading"
  BY DEF PipelineInv, PipelineTypeOK
<1>2. ASSUME /\ request'.calm => request.calm /\ UNCHANGED stored
             /\ request'.of = request.of /\ request'.todo = request.todo
             /\ request'.downstreams = request.downstreams /\ request'.status = request.status
      PROVE  RequestInv'
  <2> SUFFICES ASSUME request'.calm PROVE RequestInv'
    BY DEF RequestInv
  <2>1. /\ \A x : Having(x)' = Having(x) /\ UpstreamsOf(x)' = UpstreamsOf(x)
        /\ \A x, u : Upstreams(x, u)' = Upstreams(x, u)
    BY <1>2 DEF Having, UpstreamsOf, Upstreams
  <2>2. ASSUME NEW S \in SUBSET Datasets, Named(S) PROVE Named(S)'
    BY <1>2, <2>1, <2>2 DEF Named
  <2> QED
    BY <1>1, <1>2, <2>1, <2>2 DEF RequestInv
<1>3. ASSUME NEW w \in Writers, NEW d \in Datasets, NEW v \in LineageValues, Add(w, d, v)
      PROVE  RequestInv'
  <2>1. /\ stored' = [stored EXCEPT ![d] = v]
        /\ request' = [request EXCEPT !.calm = request.calm /\ v = stored[d]]
    BY <1>3 DEF Add
  <2>2. request'.calm => UNCHANGED stored
    BY <1>1, <2>1 DEF Request
  <2>3. /\ request'.calm => request.calm
        /\ request'.of = request.of /\ request'.todo = request.todo
        /\ request'.downstreams = request.downstreams /\ request'.status = request.status
    BY <1>1, <2>1 DEF Request
  <2> QED
    BY <1>2, <2>2, <2>3
<1>4. ASSUME NEW u \in Datasets, FindDownstreams(u) PROVE RequestInv'
  <2> DEFINE S == {e.source : e \in {f \in graph.edges : f.type = "DownstreamOf" /\ f.destination = u}}
             calm == \A d \in Datasets : Settled(d)
  <2>1. PICK ds \in kSubset(Min({MaxDownstreams, Cardinality(S)}), S) :
           request' = [of |-> u, todo |-> ds, downstreams |-> {},
                       status |-> IF ds = {} THEN "answered" ELSE "reading",
                       calm |-> \A d \in Datasets : Settled(d)]
    BY Zenon, <1>4 DEF FindDownstreams
  <2>2. ds \subseteq S /\ Cardinality(ds) = Min({MaxDownstreams, Cardinality(S)})
    BY <2>1 DEF kSubset
  <2>3. calm => /\ S \in SUBSET Datasets
                /\ Having(u) \subseteq S
                /\ \A d \in S : stored[d] = <<>> \/ u \in UpstreamsOf(d)
    BY SettledSources
  <2>4. UNCHANGED stored
    BY <1>4 DEF FindDownstreams
  <2> HIDE DEF S
  <2>5. PICK T : T = S
    OBVIOUS
  <2>6. /\ request'.of = u /\ request'.todo = ds /\ request'.downstreams = {}
        /\ request'.status # "failed" /\ request'.calm = calm
    BY <2>1
  <2> HIDE DEF calm
  <2>7. Having(u)' = Having(u) /\ \A d : UpstreamsOf(d)' = UpstreamsOf(d)
    BY <2>4 DEF Having, UpstreamsOf
  <2>8. calm => T \in SUBSET Datasets /\ Named(T)'
    BY <2>2, <2>3, <2>4, <2>5, <2>6, <2>7 DEF Named
  <2>9. {} \subseteq Having(u)'
    OBVIOUS
  <2> QED
    BY <2>6, <2>8, <2>9 DEF RequestInv
<1>5. ASSUME NEW d \in Datasets, GetUpstreams(d) PROVE RequestInv'
  <2>1. UNCHANGED stored /\ d \in request.todo /\ request.status = "reading"
    BY <1>1, <1>5 DEF GetUpstreams
  <2>2. /\ \A x : Having(x)' = Having(x) /\ UpstreamsOf(x)' = UpstreamsOf(x)
        /\ \A x, u : Upstreams(x, u)' = Upstreams(x, u)
    BY <2>1 DEF Having, UpstreamsOf, Upstreams
  <2> DEFINE u == request.of
  <2>3. CASE Cardinality(Upstreams(d, u)) = 1
    <3>1. request' = [of |-> u, todo |-> request.todo \ {d},
                      downstreams |-> request.downstreams \cup {d},
                      status |-> IF request.todo = {d} THEN "answered" ELSE "reading",
                      calm |-> request.calm]
      BY <1>1, <1>5, <2>3 DEF GetUpstreams, Request
    <3>2. d \in Having(u)
      BY <1>1, <2>3, UpstreamsCount DEF Having
    <3>3. /\ request'.of = u /\ request'.status # "failed" /\ request'.calm = request.calm
          /\ request'.downstreams = request.downstreams \cup {d}
          /\ request'.downstreams \cup request'.todo = request.downstreams \cup request.todo
      BY <2>1, <3>1
    <3>4. ASSUME NEW S \in SUBSET Datasets, Named(S) PROVE Named(S)'
      BY <2>1, <2>2, <3>3, <3>4 DEF Named
    <3> QED
      BY <1>1, <2>1, <2>2, <3>2, <3>3, <3>4 DEF RequestInv
  <2>4. CASE Cardinality(Upstreams(d, u)) # 1
    <3>1. request' = [request EXCEPT !.todo = {}, !.status = "failed"]
      BY <1>5, <2>4 DEF GetUpstreams
    <3>2. /\ request'.of = u /\ request'.status = "failed" /\ request'.calm = request.calm
          /\ request'.downstreams = request.downstreams
      BY <1>1, <3>1 DEF Request
    <3>3. request.calm => stored[d] = <<>> \/ u \in UpstreamsOf(d)
      BY <1>1, <2>1 DEF RequestInv, Named
    <3>4. u \in UpstreamsOf(d) => Cardinality(Upstreams(d, u)) > 1
      BY <1>1, <2>4, UpstreamsCount
    <3> QED
      BY <1>1, <2>1, <2>2, <3>2, <3>3, <3>4 DEF RequestInv
  <2> QED
    BY <2>3, <2>4
<1>6. CASE UNCHANGED <<stored, request>>
  BY <1>2, <1>6
<1>7. \/ UNCHANGED <<stored, request>>
      \/ \E w \in Writers, d \in Datasets, v \in LineageValues : Add(w, d, v)
      \/ \E d \in Datasets : FindDownstreams(d)
      \/ \E d \in Datasets : GetUpstreams(d)
  BY PipelineCases DEF ProduceMetadataAuditEvent, EventLost, Backfill
<1> QED
  BY <1>3, <1>4, <1>5, <1>6, <1>7

-----------------------------------------------------------------------------
(* The theorems about the pipeline.                                        *)

LEMMA PipelineStarts == Init /\ PipelineInit => PipelineInv
<1> SUFFICES ASSUME Init, PipelineInit PROVE PipelineInv
  OBVIOUS
<1>1. /\ stored = [d \in Datasets |-> NoLineage] /\ calls = [w \in Writers |-> NoCall]
      /\ request \in Request /\ request.todo = {} /\ request.status = "answered" /\ ~ request.calm
      /\ crossed \in SUBSET Datasets
  BY DEF PipelineInit
<1>2. topic = <<>> /\ graph.edges = {}
  BY DEF Init, EmptyGraph
<1>3. JobInv
  BY JobStarts
<1>4. PipelineTypeOK
  BY <1>1 DEF PipelineTypeOK
<1>5. LineageInv
  BY <1>2 DEF LineageInv
<1>6. \A d : LastEvent(d) = 0 /\ About(d) = {}
  BY <1>1, <1>2 DEF LastEvent, LastNode, GreatestOr, About
<1>7. AnnouncedInv
  BY <1>1, <1>6 DEF AnnouncedInv
<1>8. RequestInv
  BY <1>1 DEF RequestInv
<1> QED
  BY <1>3, <1>4, <1>5, <1>7, <1>8 DEF PipelineInv

LEMMA PipelineGoesOn == PipelineInv /\ [PipelineNext]_<<vars, gms>> => PipelineInv'
<1> SUFFICES ASSUME PipelineInv, [PipelineNext]_<<vars, gms>> PROVE PipelineInv'
  OBVIOUS
<1>1. JobInv'
  BY PipelineIsSteps, JobGoesOn DEF PipelineInv
<1> QED
  BY <1>1, PipelineTypeStep, LineageStep, AnnouncedStep, RequestStep DEF PipelineInv

LEMMA PipelineInvariant == PipelineSpec => []PipelineInv
BY PipelineStarts, PipelineGoesOn, PTL DEF PipelineSpec

LEMMA MinOfTwo ==
    ASSUME NEW a \in Nat, NEW b \in Nat
    PROVE  Min({a, b}) = IF a <= b THEN a ELSE b
<1>1. PICK c \in {a, b} : \A y \in {a, b} : c =< y
  OBVIOUS
<1>2. Min({a, b}) \in {a, b} /\ \A y \in {a, b} : Min({a, b}) =< y
  BY <1>1 DEF Min
<1> QED
  BY <1>2

(* What the request's invariant says of its answer.                        *)
LEMMA AnswersOfInvariant == PipelineInv => LineageAnswers
<1> SUFFICES ASSUME PipelineInv, request.calm PROVE LineageAnswers
  BY DEF LineageAnswers
<1> DEFINE D == request.downstreams  H == Having(request.of)
<1>1. /\ request \in Request /\ (request.todo # {} <=> request.status = "reading")
      /\ D \subseteq H
      /\ request.status # "failed" => \E S \in SUBSET Datasets : Named(S)
      /\ request.status = "failed" =>
            \E d \in Datasets : stored[d] = <<>> \/ Cardinality(Upstreams(d, request.of)) > 1
  BY DEF PipelineInv, PipelineTypeOK, RequestInv
<1>2. ASSUME request.status = "answered"
      PROVE  Cardinality(D) = Min({MaxDownstreams, Cardinality(H)})
  <2>1. request.todo = {}
    BY <1>1, <1>2
  <2>2. PICK S \in SUBSET Datasets : Named(S)
    BY <1>1, <1>2
  <2>3. H \in SUBSET S /\ D \in SUBSET H /\ Cardinality(D) = Min({MaxDownstreams, Cardinality(S)})
    BY <1>1, <2>1, <2>2 DEF Named
  <2> HIDE DEF D, H
  <2>4. /\ IsFiniteSet(S) /\ IsFiniteSet(H) /\ IsFiniteSet(D)
        /\ Cardinality(D) <= Cardinality(H) /\ Cardinality(H) <= Cardinality(S)
    BY <2>2, <2>3, FS_Subset, PipelineAssumption
  <2>5. /\ Cardinality(S) \in Nat /\ Cardinality(H) \in Nat /\ Cardinality(D) \in Nat
        /\ MaxDownstreams \in Nat
    BY <2>4, FS_CardinalityType, PipelineAssumption
  <2> QED
    BY <2>3, <2>4, <2>5, MinOfTwo
<1>3. H = {d \in Datasets : request.of \in UpstreamsOf(d)}
  BY DEF Having
<1> HIDE DEF D, H
<1>4. /\ request.status = "failed" =>
            \E d \in Datasets : stored[d] = <<>> \/ Cardinality(Upstreams(d, request.of)) > 1
      /\ request.status = "answered" =>
            /\ D \subseteq H
            /\ Cardinality(D) = Min({MaxDownstreams, Cardinality(H)})
  BY <1>1, <1>2
<1> QED
  BY <1>3, <1>4 DEF LineageAnswers, D

(* The stores, the job and the requests always have real values, and the   *)
(* offsets stay within the topic (MaeStreamTask, BaseLocalDAO,             *)
(* DownstreamLineageResource).                                             *)
THEOREM PipelineHasTypes == PipelineSpec => []JobTypeOK
<1>1. PipelineInv => JobTypeOK
  BY DEF PipelineInv, JobInv, TypeInv, JobTypeOK
<1> QED
  BY <1>1, PipelineInvariant, PTL

(* Once nothing about a dataset is on its way, graph and index show the    *)
(* lineage that the store has of it, through crashes and redeliveries,     *)
(* unless calls about it overlapped or an event got lost                   *)
(* (BaseLocalDAO.add, KafkaMetadataEventProducer, MaeStreamTask).          *)
THEOREM StoreIsShown == PipelineSpec => []DerivedShowStore
<1>1. PipelineInv => DerivedShowStore
  BY GraphOfStore, IndexOfStore DEF DerivedShowStore
<1> QED
  BY <1>1, PipelineInvariant, PTL

(* A request for downstream datasets between changes answers with the      *)
(* datasets the store knows, as many as there are up to the limit, and     *)
(* fails for the stated reasons only (DownstreamLineageResource.get).      *)
THEOREM RequestsAreAnswered == PipelineSpec => []LineageAnswers
BY AnswersOfInvariant, PipelineInvariant, PTL

-----------------------------------------------------------------------------
(***************************************************************************)
(* The job on each of its sides.  With a store in front the invariant of   *)
(* the pipeline holds; without one nothing is claimed of any dataset of    *)
(* the store and of any request, and neither ever changes.                 *)
(***************************************************************************)
OfSide == IF side \in WithStore THEN PipelineInv ELSE crossed = Datasets /\ ~ request.calm

SidesInv == JobInv /\ PipelineTypeOK /\ OfSide

LEMMA SidesStart == JobInit => SidesInv
<1> SUFFICES ASSUME JobInit PROVE SidesInv
  OBVIOUS
<1>1. Init /\ PipelineInit /\ (side \notin WithStore => crossed = Datasets)
  BY DEF JobInit
<1>2. PipelineInv /\ JobInv /\ PipelineTypeOK
  BY <1>1, PipelineStarts DEF PipelineInv
<1>3. ~ request.calm
  BY <1>1 DEF PipelineInit
<1> QED
  BY <1>1, <1>2, <1>3 DEF SidesInv, OfSide

LEMMA SidesAreSteps == SidesInv /\ [JobNext]_<<side, gms, vars>> => Steps
<1> SUFFICES ASSUME SidesInv, [JobNext]_<<side, gms, vars>> PROVE Steps
  OBVIOUS
<1>1. [Next]_vars \/ PipelineNext
  BY DEF JobNext
<1> QED
  BY <1>1, NextIsSteps, PipelineIsSteps DEF SidesInv

LEMMA SidesGoOn == SidesInv /\ [JobNext]_<<side, gms, vars>> => SidesInv'
<1> SUFFICES ASSUME SidesInv, [JobNext]_<<side, gms, vars>> PROVE SidesInv'
  OBVIOUS
<1>1. side' = side
  BY DEF JobNext
<1>2. JobInv'
  BY SidesAreSteps, JobGoesOn DEF SidesInv
<1>3. CASE side \in WithStore
  <2>1. [PipelineNext]_<<vars, gms>>
    BY <1>3 DEF JobNext
  <2>2. PipelineInv'
    BY <1>3, <2>1, PipelineGoesOn DEF SidesInv, OfSide
  <2> QED
    BY <1>1, <1>2, <1>3, <2>2 DEF SidesInv, OfSide, PipelineInv
<1>4. CASE side \notin WithStore
  <2>1. UNCHANGED gms
    BY <1>4 DEF JobNext
  <2>2. UNCHANGED <<stored, calls, request, crossed>>
    BY <2>1 DEF gms
  <2>3. PipelineTypeOK' /\ crossed' = Datasets /\ ~ request'.calm
    BY <1>4, <2>2 DEF SidesInv, OfSide, PipelineTypeOK
  <2> QED
    BY <1>1, <1>2, <1>4, <2>3 DEF SidesInv, OfSide
<1> QED
  BY <1>3, <1>4

LEMMA SidesGive ==
    SidesInv => JobTypeOK /\ StoresFollowTopic /\ DerivedShowStore /\ LineageAnswers
<1> SUFFICES ASSUME SidesInv PROVE JobTypeOK /\ StoresFollowTopic /\ DerivedShowStore /\ LineageAnswers
  OBVIOUS
<1>1. JobTypeOK /\ StoresFollowTopic
  BY StoresOfInvariant DEF SidesInv, JobInv, TypeInv, JobTypeOK
<1>2. CASE side \in WithStore
  BY <1>1, <1>2, GraphOfStore, IndexOfStore, AnswersOfInvariant DEF SidesInv, OfSide, DerivedShowStore
<1>3. CASE side \notin WithStore
  <2>1. \A d \in Datasets : ~ Settled(d)
    BY <1>3 DEF SidesInv, OfSide, Settled
  <2>2. DerivedShowStore
    BY <2>1 DEF DerivedShowStore, GraphShowsStore, IndexShowsStore
  <2>3. LineageAnswers
    BY <1>3 DEF SidesInv, OfSide, LineageAnswers
  <2> QED
    BY <1>1, <2>2, <2>3
<1> QED
  BY <1>2, <1>3

(* On every side, with a store in front or without, the job keeps all its  *)
(* promises: its stores follow the topic and the store, requests are       *)
(* answered, edges are a view of the topic, and the index only goes on.    *)
THEOREM JobKeepsPromises ==
    JobSpec => /\ [](JobTypeOK /\ StoresFollowTopic /\ DerivedShowStore /\ LineageAnswers)
               /\ EdgesAreAView /\ IndexNeverGoesBack
<1>1. JobInit => Init
  BY DEF JobInit
<1>2. Init => View!Init
  BY StartOfView
<1>3. SidesInv /\ [JobNext]_<<side, gms, vars>> =>
        [View!Next]_<<Log, position, EdgeView, GraphLost>>
  BY SidesAreSteps, JobStepsView DEF SidesInv
<1>4. SidesInv /\ [JobNext]_<<side, gms, vars>> =>
        [\A u \in Urns, f \in Fields : index'[u][f] < index[u][f] => "crash" \in faults.kinds]_index
  BY SidesAreSteps, IndexGoesOn DEF SidesInv
<1> QED
  BY <1>1, <1>2, <1>3, <1>4, SidesStart, SidesGoOn, SidesGive, PTL
     DEF JobSpec, EdgesAreAView, View!Spec, IndexNeverGoesBack
=============================================================================
