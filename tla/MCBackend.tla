------------------------------ MODULE MCBackend -----------------------------
(***************************************************************************)
(* Model checking of three parts of the backend that do not meet: the ids  *)
(* of newNumericId, the graph writer, and the MCE consumer with GMS.  One  *)
(* of them moves at a time: focus, which never changes, says which.        *)
(***************************************************************************)
EXTENDS NumericId, GraphWriter, MceConsumer

CONSTANTS
    Focus,                        \* the parts that may move
    d1, d2, u1, p1, p2, q1, q2,   \* urns, properties of nodes and of edges
    k1, k2, v1, v2, bad           \* (urn, aspect) pairs and aspect values

VARIABLE focus

PartsInit == focus \in Focus /\ IdInit /\ GraphInit /\ Init
PartsNext ==
    /\ UNCHANGED focus
    /\ \/ focus = "ids" /\ IdNext /\ UNCHANGED <<graph, vars>>
       \/ focus = "graph" /\ GraphNext /\ UNCHANGED <<idVars, vars>>
       \/ focus = "mce" /\ Next /\ UNCHANGED <<idVars, graph>>

PartsSpec ==
    /\ PartsInit /\ [][PartsNext]_<<focus, idVars, graph, vars>>
    /\ WF_vars(Process) /\ WF_vars(Timeout)
-----------------------------------------------------------------------------
(* Each part keeps its types: no id, node, edge or stored aspect but real  *)
(* ones, and requests only about events of the topic.                      *)
PartsTypeOK == focus \in Focus /\ IdTypeOK /\ GraphTypeOK /\ TypeOK
-----------------------------------------------------------------------------
MCUrns == {d1, d2, u1}
Rel(t, s, d, p) == [type |-> t, source |-> s, destination |-> d, props |-> p]
Rels == {Rel("DownstreamOf", d1, d2, NoProps), Rel("DownstreamOf", d2, d1, NoProps),
         Rel("OwnedBy", d1, u1, q1), Rel("OwnedBy", d1, u1, q2), Rel("OwnedBy", d2, u1, q1)}
SameType(rels) == \A i, j \in DOMAIN rels : rels[i].type = rels[j].type

MCEntityLists ==
    {<<[urn |-> u, props |-> p]>> : u \in {d1, u1}, p \in {p1, p2}}
        \cup {<<[urn |-> d2, props |-> p1], [urn |-> d2, props |-> p2]>>}
MCUrnSets == {{d1}, {d2}, {d1, u1}}
MCRelationshipLists ==
    {<<>>} \cup {<<r>> : r \in Rels} \cup {rs \in Rels \X Rels : SameType(rs)}
        \cup {<<Rel("OwnedBy", d1, u1, NoProps)>>}

Mce(kind, aspects) == [kind |-> kind, aspects |-> aspects]
MCEvents ==
    { Mce("snapshot", <<<<k1, v1>>, <<k2, v1>>>>),
      Mce("snapshot", <<<<k2, v2>>, <<k1, bad>>>>),
      Mce("malformed", <<>>), Mce("empty", <<>>) }
=============================================================================
