------------------------------- MODULE Lineage -------------------------------
(***************************************************************************)
(* The lineage graph of a dataset's page: the graph that grows with every  *)
(* answer of the server (GraphDb), the selection that decides which of its *)
(* levels unfold, and the container that loads a node when it is toggled.  *)
(*                                                                         *)
(* A node is identified by the uri of its dataset, the graph's unique key; *)
(* an edge <<u, v>> says that u is a child of v.  The container stays on   *)
(* the page, with its graph, when the page goes from dataset to dataset.   *)
(***************************************************************************)
EXTENDS Integers, FiniteSets

CONSTANTS
  LineageUris,   \* datasets
  Lineages,      \* what the server may know: sets of pairs <<u, v>>, u is a downstream of v
  MaxLineageCalls \* bound: requests on the net

ASSUME LineageAssumption ==
  /\ \A l \in Lineages : l \subseteq LineageUris \X LineageUris
  /\ IsFiniteSet(LineageUris) /\ MaxLineageCalls \in Nat

VARIABLES
  lineage,       \* what the server knows
  graphOf,       \* the dataset of the page
  nodes,         \* the graph: uri -> [level, selected, loaded]
  edges,
  lineageCalls,  \* running requests: [uri, upstream, first]; first: made by firstLoadTask for this uri
  firstFailed,   \* firstLoadTask's last instance failed
  frozen,        \* a loop of the page never ends
  movedOn        \* history: the page has shown another dataset since it was loaded

lineageVars == <<lineage, graphOf, nodes, edges, lineageCalls, firstFailed, frozen, movedOn>>

Node == [level : -Cardinality(LineageUris) .. Cardinality(LineageUris), selected : BOOLEAN, loaded : BOOLEAN]
LineageCall == [uri : LineageUris, upstream : BOOLEAN, first : BOOLEAN]

LineageTypeOK ==
  /\ lineage \in Lineages /\ graphOf \in LineageUris
  /\ DOMAIN nodes \subseteq LineageUris /\ \A u \in DOMAIN nodes : nodes[u] \in Node
  /\ edges \subseteq (DOMAIN nodes) \X (DOMAIN nodes)
  /\ lineageCalls \subseteq LineageCall /\ \A c \in lineageCalls : c.uri \in DOMAIN nodes
  /\ {firstFailed, frozen, movedOn} \subseteq BOOLEAN

(***************************************************************************)
(* The graph.                                                              *)
(***************************************************************************)

ParentsOf(u) == {v \in DOMAIN nodes : <<u, v>> \in edges}
ChildrenOf(u) == {v \in DOMAIN nodes : <<v, u>> \in edges}

IsUpstream(u) == nodes[u].level < 0

DownstreamNodes == {u \in DOMAIN nodes : nodes[u].level > 0}
UpstreamNodes == {u \in DOMAIN nodes : nodes[u].level < 0}

NextHierarchy(u, up) == IF nodes[u].level # 0 THEN IF up THEN ParentsOf(u) ELSE ChildrenOf(u) ELSE {}

\* The rounds of the search from u: Rounds(u, up)[i] are the nodes of round i.  A
\* path as long as the graph has nodes meets one of them twice, and no end.
Rounds(u, up) ==
  LET round[i \in 0 .. Cardinality(DOMAIN nodes)] ==
        IF i = 0 THEN {u} ELSE UNION {NextHierarchy(v, up) : v \in round[i - 1]}
  IN  round
HierarchyNodes(u, up) == UNION {Rounds(u, up)[i] : i \in 0 .. Cardinality(DOMAIN nodes)}
HierarchyEnds(u, up) == Rounds(u, up)[Cardinality(DOMAIN nodes)] = {}

\* New datasets become nodes at the level, those of joined are relations of the
\* node that was asked about, which is marked as loaded.
AddNodesAt(level, uris, joined, parent, upstream, select) ==
  /\ nodes' = [u \in DOMAIN nodes \cup uris |->
                 IF u = parent THEN [nodes[u] EXCEPT !.loaded = TRUE, !.selected = @ \/ select]
                 ELSE IF u \in DOMAIN nodes THEN nodes[u]
                 ELSE [level |-> level, selected |-> FALSE, loaded |-> FALSE]]
  /\ edges' = edges \cup (IF upstream THEN {parent} \X joined ELSE joined \X {parent})

LevelBeyond(parent, upstream) == nodes[parent].level + (IF upstream THEN -1 ELSE 1)

\* Mutant: only a new node is joined to its parent.
AddNewNodes(uris, parent, upstream, select) ==
  AddNodesAt(LevelBeyond(parent, upstream), uris, uris \ DOMAIN nodes, parent, upstream, select)

\* The datasets of an answer join the graph.
AddNodes(uris, parent, upstream, select) ==
  AddNodesAt(LevelBeyond(parent, upstream), uris, uris, parent, upstream, select)

AddRoot(u) ==
  nodes' = [v \in DOMAIN nodes \cup {u} |->
              IF v \in DOMAIN nodes THEN nodes[v] ELSE [level |-> 0, selected |-> FALSE, loaded |-> FALSE]]

\* What toggling u walks: down from a node that is unselected, back to the root
\* from one that is selected.
ToggleUp(u) == IF nodes[u].selected THEN IsUpstream(u) ELSE ~IsUpstream(u)
WalksOnToggle(u) == ~(nodes[u].selected /\ nodes[u].level = 0)

Select(u, toUnselect, toSelect) ==
  nodes' = [v \in DOMAIN nodes |->
              [nodes[v] EXCEPT !.selected = IF v = u THEN ~@ ELSE v \in toSelect \/ (@ /\ v \notin toUnselect)]]

Toggle(u) ==
  IF nodes[u].selected
  THEN Select(u, IF nodes[u].level = 0 THEN DOMAIN nodes ELSE HierarchyNodes(u, ToggleUp(u)), {})
  ELSE Select(u, IF IsUpstream(u) THEN UpstreamNodes ELSE DownstreamNodes, HierarchyNodes(u, ToggleUp(u)))

(***************************************************************************)
(* The levels of the page.                                                 *)
(***************************************************************************)

ShouldShow(u) ==
  \/ nodes[u].level = 0
  \/ nodes[u].level > 0 /\ \E p \in ParentsOf(u) : nodes[p].selected
  \/ nodes[u].level < 0 /\ \E c \in ChildrenOf(u) : nodes[c].selected

LevelNodes(l) == {u \in DOMAIN nodes : nodes[u].level = l /\ ShouldShow(u)}
IsCollapsed(l) == \E u \in LevelNodes(l) : nodes[u].selected
IsListed(u) == u \in LevelNodes(nodes[u].level) /\ (IsCollapsed(nodes[u].level) => nodes[u].selected)

\* Numbers of a listed node, -1 where the page shows a dash.
NChildren(u) == IF nodes[u].loaded \/ nodes[u].level < 0 THEN Cardinality(ChildrenOf(u)) ELSE -1
NParents(u) == IF nodes[u].loaded \/ nodes[u].level > 0 THEN Cardinality(ParentsOf(u)) ELSE -1

(***************************************************************************)
(* The container.                                                          *)
(***************************************************************************)

Downstreams(u) == {p[1] : p \in {q \in lineage : q[2] = u}}
Upstreams(u) == {p[2] : p \in {q \in lineage : q[1] = u}}

FirstCall(u) == [uri |-> u, upstream |-> FALSE, first |-> TRUE]
FirstCalls == {c \in lineageCalls : c.first}

LineageInit ==
  /\ lineage \in Lineages /\ graphOf \in LineageUris
  /\ nodes = [u \in {graphOf} |-> [level |-> 0, selected |-> FALSE, loaded |-> FALSE]] /\ edges = {}
  /\ lineageCalls = {FirstCall(graphOf)}
  /\ firstFailed = FALSE /\ frozen = FALSE /\ movedOn = FALSE

\* firstLoadTask: the root, then its downstreams, then its upstreams.
PerformFirstLoad(u) ==
  /\ ~frozen /\ Cardinality(lineageCalls) < MaxLineageCalls
  /\ AddRoot(u)
  /\ lineageCalls' = lineageCalls \cup {FirstCall(u)}
  /\ firstFailed' = FALSE
  /\ UNCHANGED <<lineage, edges, frozen>>

\* The page goes to another dataset.  The task is not restartable.
ShowDataset(u) ==
  /\ u # graphOf /\ graphOf' = u /\ movedOn' = TRUE
  /\ PerformFirstLoad(u)

RetryFirstLoad ==
  /\ firstFailed
  /\ PerformFirstLoad(graphOf)
  /\ UNCHANGED <<graphOf, movedOn>>

\* A click on a node of the drawing or of a level, on the page while no first load
\* is running.  A request for a node that is being asked about already will get
\* the same answer; the two are one.
ToggleNode(u) ==
  /\ ~frozen /\ ~firstFailed /\ FirstCalls = {}
  /\ IF WalksOnToggle(u) => HierarchyEnds(u, ToggleUp(u))
     THEN /\ Toggle(u)
          /\ lineageCalls' = lineageCalls \cup
               (IF nodes[u].loaded THEN {} ELSE {[uri |-> u, upstream |-> IsUpstream(u), first |-> FALSE]})
          /\ Cardinality(lineageCalls') <= MaxLineageCalls
          /\ UNCHANGED frozen
     ELSE frozen' = TRUE /\ UNCHANGED <<nodes, lineageCalls>>
  /\ UNCHANGED <<lineage, graphOf, edges, firstFailed, movedOn>>

\* The answer to a request.  The first load goes on with the upstreams, and ends by
\* selecting the root.
GetLineageData(c) ==
  /\ ~frozen
  /\ AddNodes(IF c.upstream THEN Upstreams(c.uri) ELSE Downstreams(c.uri), c.uri, c.upstream, c.first /\ c.upstream)
  /\ lineageCalls' = (lineageCalls \ {c}) \cup
                     (IF c.first /\ ~c.upstream THEN {[c EXCEPT !.upstream = TRUE]} ELSE {})
  /\ UNCHANGED <<lineage, graphOf, firstFailed, frozen, movedOn>>

LineageDataFails(c) ==
  /\ ~frozen
  /\ lineageCalls' = lineageCalls \ {c}
  /\ firstFailed' = (firstFailed \/ (c.first /\ c.uri = graphOf))
  /\ UNCHANGED <<lineage, graphOf, nodes, edges, frozen, movedOn>>

\* The user loads the page again, as is left to do when it is frozen.
ReloadLineage ==
  /\ nodes' = [u \in {graphOf} |-> [level |-> 0, selected |-> FALSE, loaded |-> FALSE]] /\ edges' = {}
  /\ lineageCalls' = {FirstCall(graphOf)}
  /\ firstFailed' = FALSE /\ frozen' = FALSE /\ movedOn' = FALSE
  /\ UNCHANGED <<lineage, graphOf>>

LineageNext ==
  \/ \E u \in LineageUris : ShowDataset(u)
  \/ RetryFirstLoad \/ ReloadLineage
  \/ \E u \in DOMAIN nodes : ToggleNode(u)
  \/ \E c \in lineageCalls : GetLineageData(c) \/ LineageDataFails(c)

LineageSpec == LineageInit /\ [][LineageNext]_lineageVars

-----------------------------------------------------------------------------
\* The datasets fed by u, directly or not.
Reach(known, u) ==
  LET reach[i \in 0 .. Cardinality(LineageUris)] ==
        IF i = 0 THEN {v \in LineageUris : <<v, u>> \in known}
        ELSE reach[i - 1] \cup {v \in LineageUris : \E w \in reach[i - 1] : <<v, w>> \in known}
  IN  reach[Cardinality(LineageUris)]
IsCyclic == \E u \in LineageUris : u \in Reach(lineage, u)

\* The search of a toggle ends, whatever was loaded and toggled before and whatever
\* datasets the graph has collected, unless datasets feed each other in a cycle:
\* then it does not.
FreezesOnlyOnCycles == frozen => IsCyclic

\* What is said to be loaded is complete: all relations of a loaded node, on its
\* side of the graph, are edges, to nodes that were there before as well.  (In a
\* graph of several datasets an upstream node may be loaded as a root is first.)
LoadedIsComplete ==
  \A u \in DOMAIN nodes :
    nodes[u].loaded =>
      IF nodes[u].level < 0 THEN ~movedOn => Upstreams(u) \subseteq ParentsOf(u)
                            ELSE Downstreams(u) \subseteq ChildrenOf(u)

\* The number of children a node of the lower half is shown with is the number of
\* its downstreams, of parents in the upper half that of its upstreams.
CountsAreTrue ==
  \A u \in DOMAIN nodes :
    /\ nodes[u].level >= 0 => NChildren(u) \in {-1, Cardinality(Downstreams(u))}
    /\ nodes[u].level < 0 /\ ~movedOn => NParents(u) \in {-1, Cardinality(Upstreams(u))}

\* A selected node is listed, whatever is toggled in whatever order, as long as the
\* graph is that of one dataset and has no cycle.
SelectedIsListed ==
  \A u \in DOMAIN nodes : nodes[u].selected /\ ~movedOn /\ ~IsCyclic => IsListed(u)

\* The current dataset is the dataset of the page, and nothing else is, as long as
\* the page has shown no other.
CurrentIsCurrent == ~movedOn => \A u \in DOMAIN nodes : nodes[u].level = 0 <=> u = graphOf

\* The graph grows into the lineage in whatever order it is read: nodes said to be
\* loaded are, counts and selection are those of the graph.
LineageIsTrue ==
  /\ LineageTypeOK /\ FreezesOnlyOnCycles /\ LoadedIsComplete /\ CountsAreTrue
  /\ SelectedIsListed /\ CurrentIsCurrent
=============================================================================
