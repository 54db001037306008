------------------------------ MODULE MCMaeJob ------------------------------
(***************************************************************************)
(* Model checking of MaeConsumer from four sides, with the events and the  *)
(* faults that matter there: "graph" with crashes and failures of the      *)
(* graph writer, "index" with every fault of the bulk queue and of the     *)
(* process, "pipeline" with the events of the aspect store, as             *)
(* MetadataPipeline has them, and "lineage" with the requests that ask     *)
(* both stores, without faults.  The side never changes.                   *)
(***************************************************************************)
EXTENDS MCMaeConsumer, MetadataPipeline

CONSTANTS Sides

VARIABLE side

MCLineageValues == {<<>>, <<d1>>, <<d1, d1>>, <<d2>>}

LineageEvents(values) ==
    {Event(d2, "UpstreamLineage", v) : v \in values} \cup {Event(d1, "UpstreamLineage", <<d1>>)}
JobEvents == ReplayEvents \cup IndexEvents \cup {Event(d, "UpstreamLineage", v) : d \in Datasets, v \in MCLineageValues}
EventsOf == [graph |-> ReplayEvents, index |-> IndexEvents, pipeline |-> LineageEvents(MCLineageValues \ {<<d1, d1>>}),
             lineage |-> LineageEvents(MCLineageValues \ {<<d2>>})]
WithStore == {"pipeline", "lineage"}
FaultsOf == [graph |-> {"crash", "graphFailed"},
             index |-> {"rejected", "bulkFailed", "crash", "shutdown"},
             pipeline |-> {"crash", "eventLost"}, lineage |-> {}]
FaultBoundOf == [graph |-> MaxFaults, index |-> MaxFaults, pipeline |-> 1, lineage |-> 0]

(* On the other sides the bulk queue is served at once.                    *)
ServedAtOnce ==
    /\ pending # <<>> => pending' = <<>>
    /\ flight # NoFlight => flight' = NoFlight

(* d1 is upstream, of d2 and of itself: who else would be asked for.       *)
CallsAndRequests ==
    /\ \A w \in Writers : calls'[w] # NoCall =>
          Event(calls'[w].urn, "UpstreamLineage", calls'[w].value) \in EventsOf[side]
    /\ request'.of = d1
    /\ side = "pipeline" => request' = request

JobInit ==
    /\ Init /\ side \in Sides
    /\ PipelineInit /\ request.of = d1 /\ crossed = IF side \in WithStore THEN {} ELSE Datasets
JobNext ==
    /\ \/ side \notin WithStore /\ Next /\ UNCHANGED gms
       \/ side \in WithStore /\ PipelineNext /\ CallsAndRequests
    /\ UNCHANGED side
    /\ topic' # topic => topic'[Len(topic')] \in EventsOf[side]
    /\ side # "index" => ServedAtOnce
    /\ faults'.kinds \subseteq FaultsOf[side] /\ faults'.count <= FaultBoundOf[side]

JobSpec == JobInit /\ [][JobNext]_<<side, gms, vars>> /\ Fairness

=============================================================================
