---------------------------- MODULE MCMaeConsumer ---------------------------
(* Values of the constants of MaeConsumer for the model checker.           *)
EXTENDS MaeConsumer, TLC

CONSTANTS d1, d2, u1, u2, g1

MCUrns == Datasets \cup Users
Event(u, a, v) == [urn |-> u, aspect |-> a, value |-> v]
Ownerships == {Event(d1, "Ownership", <<u1>>), Event(d1, "Ownership", <<u2, g1>>),
               Event(d1, "Ownership", <<g1>>)}
Lineages == {Event(d1, "UpstreamLineage", <<d2>>), Event(d1, "UpstreamLineage", <<>>)}
Statuses == {Event(d2, "Status", <<"removed">>), Event(d1, "Other", <<>>)}
Managers == {Event(u1, "CorpUserInfo", <<u2>>)}

GraphEvents == Ownerships \cup Lineages \cup Statuses \cup Managers
ReplayEvents == Ownerships \cup Statuses \cup {Event(d1, "UpstreamLineage", <<d2>>)}
IndexEvents == {Event(d1, "Ownership", <<u1>>), Event(u1, "CorpUserInfo", <<u2>>)}

=============================================================================
