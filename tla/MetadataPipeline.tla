-------------------------- MODULE MetadataPipeline --------------------------
(***************************************************************************)
(* From the aspect store to the stores derived from it: GMS commits the    *)
(* lineage of a dataset and then sends the event that the MAE job          *)
(* (MaeConsumer) applies to graph and index, and answers which datasets    *)
(* are downstream of one by asking the graph for names and the store for   *)
(* the rest.                                                               *)
(*                                                                         *)
(* A commit is one step: what LocalDAO shows of version 0 is that it is    *)
(* the value of the last commit.  Between it and the event, or between the *)
(* read of a backfill and its event, other threads run.                    *)
(***************************************************************************)
EXTENDS MaeConsumer, FiniteSets, FiniteSetsExt

CONSTANTS
    Writers,             \* threads of GMS that change or backfill lineages
    LineageValues,       \* values of UpstreamLineage: lists of upstream datasets
    NoLineage, NoCall,
    MaxDownstreams       \* MAX_DOWNSTREAM_CNT

ASSUME PipelineAssumption ==
    /\ IsFiniteSet(Datasets)
    /\ LineageValues \subseteq Seq(Datasets) /\ NoLineage \notin LineageValues
    /\ NoCall \notin [urn : Datasets, value : LineageValues]
    /\ [urn : Datasets, aspect : {"UpstreamLineage"}, value : LineageValues] \subseteq Events
    /\ MaxDownstreams \in Nat \ {0}

VARIABLES
    stored,     \* version 0 of the lineage of every dataset
    calls,      \* what a thread has committed or read, and not announced yet
    request,    \* the last request for downstream datasets
    crossed     \* ghost: datasets with overlapping calls, or an event lost, since their last lone call;
                \* of a dataset that is in it first nothing is claimed until it has one

gms == <<stored, calls, request, crossed>>

Call == [urn : Datasets, value : LineageValues]
Request == [of : Datasets, todo : SUBSET Datasets, downstreams : SUBSET Datasets,
            status : {"reading", "answered", "failed"}, calm : BOOLEAN]

PipelineTypeOK ==
    /\ stored \in [Datasets -> LineageValues \cup {NoLineage}]
    /\ calls \in [Writers -> Call \cup {NoCall}]
    /\ \A w \in Writers : calls[w] # NoCall => stored[calls[w].urn] # NoLineage
    /\ request \in Request /\ (request.todo # {} <=> request.status = "reading")
    /\ crossed \subseteq Datasets

(* Only real values, offsets of the topic, and calls about stored lineages.*)
JobTypeOK == TypeOK /\ PipelineTypeOK

PipelineInit ==
    /\ stored = [d \in Datasets |-> NoLineage] /\ calls = [w \in Writers |-> NoCall]
    /\ request \in {r \in Request : r.todo = {} /\ r.downstreams = {} /\ r.status = "answered" /\ ~r.calm}
    /\ crossed \in SUBSET Datasets

About(d) == {w \in Writers : calls[w] # NoCall /\ calls[w].urn = d}

-----------------------------------------------------------------------------
Begin(w, call) ==
    /\ calls[w] = NoCall
    /\ Len(topic) + Cardinality({v \in Writers : calls[v] # NoCall}) < MaxEvents
    /\ calls' = [calls EXCEPT ![w] = call]
    /\ crossed' = IF About(call.urn) = {} THEN crossed \ {call.urn} ELSE crossed \cup {call.urn}
    /\ UNCHANGED vars

\* Mutant: the event is about the value before.
AddAnnouncesOld(w, d, v) ==
    /\ stored' = [stored EXCEPT ![d] = v]
    /\ request' = [request EXCEPT !.calm = @ /\ v = stored[d]]
    /\ Begin(w, [urn |-> d, value |-> IF stored[d] = NoLineage THEN v ELSE stored[d]])

(* A call that changes nothing is announced too.                           *)
Add(w, d, v) ==
    /\ stored' = [stored EXCEPT ![d] = v]
    /\ request' = [request EXCEPT !.calm = @ /\ v = stored[d]]
    /\ Begin(w, [urn |-> d, value |-> v])

Backfill(w, d) ==
    /\ stored[d] # NoLineage
    /\ Begin(w, [urn |-> d, value |-> stored[d]])
    /\ UNCHANGED <<stored, request>>

ProduceMetadataAuditEvent(w) ==
    /\ calls[w] # NoCall
    /\ topic' = Append(topic, [urn |-> calls[w].urn, aspect |-> "UpstreamLineage", value |-> calls[w].value])
    /\ calls' = [calls EXCEPT ![w] = NoCall]
    /\ UNCHANGED <<job, queue, graph, index, reached, faults, stored, request, crossed>>

(* GMS dies before it has sent the event, or the broker does not take it.  *)
EventLost(w) ==
    /\ Fault("eventLost")
    /\ calls[w] # NoCall
    /\ calls' = [calls EXCEPT ![w] = NoCall]
    /\ crossed' = crossed \cup {calls[w].urn}
    /\ UNCHANGED <<topic, job, queue, graph, index, reached, stored, request>>

-----------------------------------------------------------------------------
(* Nothing about a dataset is on its way, and nothing has gone amiss.      *)
Settled(d) ==
    /\ d \notin crossed /\ About(d) = {}
    /\ pc = "poll" /\ \A n \in position + 1 .. Len(topic) : topic[n].urn # d
    /\ ~GraphLost

UpstreamsOf(d) == IF stored[d] = NoLineage THEN {} ELSE {stored[d][i] : i \in DOMAIN stored[d]}

(* The graph is asked first, for any of the datasets if they are many.     *)
FindDownstreams(u) ==
    LET sources == {e.source : e \in {f \in graph.edges : f.type = "DownstreamOf" /\ f.destination = u}} IN
    /\ request.status # "reading"
    /\ \E ds \in kSubset(Min({MaxDownstreams, Cardinality(sources)}), sources) :
         request' = [of |-> u, todo |-> ds, downstreams |-> {},
                     status |-> IF ds = {} THEN "answered" ELSE "reading",
                     calm |-> \A d \in Datasets : Settled(d)]
    /\ UNCHANGED <<vars, stored, calls, crossed>>

Upstreams(d, u) == IF stored[d] = NoLineage THEN {} ELSE {i \in DOMAIN stored[d] : stored[d][i] = u}

\* Mutant: any number of upstreams will do.
TakeUpstreams(d) ==
    /\ d \in request.todo
    /\ request' = [request EXCEPT !.todo = @ \ {d}, !.downstreams = @ \cup {d},
                                  !.status = IF request.todo = {d} THEN "answered" ELSE "reading"]
    /\ UNCHANGED <<vars, stored, calls, crossed>>

(* Then the store, for each of them; one that does not name the dataset    *)
(* exactly once ends the request.                                          *)
GetUpstreams(d) ==
    /\ d \in request.todo
    /\ request' = IF Cardinality(Upstreams(d, request.of)) = 1
                  THEN [request EXCEPT !.todo = @ \ {d}, !.downstreams = @ \cup {d},
                                       !.status = IF request.todo = {d} THEN "answered" ELSE "reading"]
                  ELSE [request EXCEPT !.todo = {}, !.status = "failed"]
    /\ UNCHANGED <<vars, stored, calls, crossed>>

-----------------------------------------------------------------------------
GmsNext ==
    \/ \E w \in Writers :
         \/ ProduceMetadataAuditEvent(w) \/ EventLost(w)
         \/ \E d \in Datasets : Backfill(w, d) \/ \E v \in LineageValues : Add(w, d, v)
    \/ \E d \in Datasets : FindDownstreams(d) \/ GetUpstreams(d)

(* GMS is the only producer of the topic.                                  *)
PipelineNext == (Next /\ UNCHANGED <<topic, gms>>) \/ GmsNext

PipelineSpec == Init /\ PipelineInit /\ [][PipelineNext]_<<vars, gms>>

-----------------------------------------------------------------------------
(* Once what was sent about a dataset is consumed, the graph shows the     *)
(* lineage the store has of it, through crashes and redeliveries of the    *)
(* job: unless two calls about it overlapped (an add or a backfill may     *)
(* then announce the older value last) or an event got lost.  A call       *)
(* without company repairs it, whatever had happened before.  An empty     *)
(* lineage is excepted: it leaves the edges of the one before.             *)
GraphShowsStore ==
    \A d \in Datasets : Settled(d) /\ stored[d] # <<>> =>
        {e.destination : e \in EdgesFrom(d, "DownstreamOf")} = UpstreamsOf(d)

(* The same for the search document, the empty lineage included, as long   *)
(* as the job loses no document.                                           *)
IndexShowsStore ==
    Queued = <<>> /\ faults.kinds \subseteq {"eventLost"} =>
        \A d \in Datasets : Settled(d) /\ stored[d] # NoLineage =>
            LET n == index[d]["upstreams"] IN n > 0 /\ topic[n].value = stored[d]

DerivedShowStore == GraphShowsStore /\ IndexShowsStore

(* A request for downstream datasets that began when all was settled, with *)
(* no lineage changed since, fails only because a dataset names it twice,  *)
(* or because one whose lineage was emptied still has its old edges; the   *)
(* latter failure lasts until that dataset gets a lineage again.  If it is *)
(* answered, it names datasets whose lineage has it, all of them if they   *)
(* are no more than the limit.                                             *)
LineageAnswers ==
    LET downstreams == {d \in Datasets : request.of \in UpstreamsOf(d)} IN
    request.calm =>
        /\ request.status = "failed" => \E d \in Datasets :
              stored[d] = <<>> \/ Cardinality(Upstreams(d, request.of)) > 1
        /\ request.status = "answered" =>
              /\ request.downstreams \subseteq downstreams
              /\ Cardinality(request.downstreams) = Min({MaxDownstreams, Cardinality(downstreams)})
=============================================================================
