----------------------------- MODULE DatasetPage -----------------------------
(***************************************************************************)
(* The page of a dataset: the route that reads the dataset, the main       *)
(* container with its tabs, and the containers that read one thing each    *)
(* for the header and the tabs.  The containers know nothing of each       *)
(* other, so the model follows one of them, any one.                       *)
(*                                                                         *)
(* What a container shows is named by the dataset it was read for.  The    *)
(* page of another dataset gets the same containers, with other            *)
(* attributes.                                                             *)
(***************************************************************************)
EXTENDS Integers, Sequences, FiniteSets, SequencesExt, Lists

CONSTANTS
  PageDatasets,   \* datasets
  UrnKind,        \* PageDatasets -> "li", "wh" or "other", how the urn in the URL is written
  UmpDatasets,    \* the datasets of the UMP platform
  Relationships,  \* side, dataset -> the types of its relationships, a sequence
  TruncatedLength,
  MaxPageReads    \* bound: reads of the container, and of the route

ASSUME PageAssumption ==
  /\ PageDatasets \cap {"notFound", "error", "away", "none"} = {}
  /\ UrnKind \in [PageDatasets -> {"li", "wh", "other"}] /\ UmpDatasets \subseteq PageDatasets
  /\ \A side \in {"upstreams", "downstreams"}, u \in PageDatasets : Relationships[side, u] \in Seq(STRING)
  /\ TruncatedLength \in Nat /\ MaxPageReads \in Nat \ {0}

PageContainers == {"schema", "upstreams", "downstreams", "snapshot", "entity", "upstreamOwners"}
AllTypes == ""

VARIABLES
  container,     \* the container that is followed
  datasetPage,   \* model of the dataset route: a dataset, "notFound" or "error"; "away" on other routes
  target,        \* the dataset a transition is waiting for, or "none"
  routeReads,    \* datasets being read by the route
  searchEntity,  \* search service: the entity to search for
  tabSelected, relationshipsCached,
  containerReads, \* datasets the container is reading about, oldest first
  containerData, \* the dataset whose data it shows, or "none"
  lastFailed,    \* its task's last instance failed
  selectedRelationshipType, showAllRelationships,
  overtook,      \* history: a read of the container ended before an older one
  lateRead       \* history: the dataset of an abandoned transition was read after the user had gone on

readVars == <<containerReads, containerData, lastFailed, overtook>>
tableVars == <<selectedRelationshipType, showAllRelationships>>
pageVars == <<container, datasetPage, target, routeReads, searchEntity, tabSelected, relationshipsCached,
              readVars, tableVars, lateRead>>

PageTypeOK ==
  /\ container \in PageContainers
  /\ datasetPage \in PageDatasets \cup {"notFound", "error", "away"} /\ target \in PageDatasets \cup {"none"}
  /\ routeReads \subseteq PageDatasets /\ target \in routeReads \cup {"none"}
  /\ searchEntity \in {"datasets", "people"}
  /\ tabSelected \in {"schema", "properties", "ownership", "relationships", "wiki"}
  /\ containerReads \in Seq(PageDatasets) /\ Len(containerReads) <= MaxPageReads
  /\ containerData \in PageDatasets \cup {"none"}
  /\ {relationshipsCached, lastFailed, overtook, lateRead, showAllRelationships} \subseteq BOOLEAN

OnDatasetPage == datasetPage \in PageDatasets

(***************************************************************************)
(* The containers.                                                         *)
(***************************************************************************)

IsRestartable == container \in {"snapshot", "entity"}
IsMounted(page, cached) ==
  page \in PageDatasets /\ (container \in {"upstreams", "downstreams"} => cached)

\* Only the datasets of one platform have a snapshot.
ReadsAbout(u) == container = "snapshot" => u \in UmpDatasets

\* Mutant: performing leaves running instances alone.
PerformAlongside(u) ==
  /\ containerReads' = IF ReadsAbout(u) THEN Append(containerReads, u) ELSE containerReads
  /\ lastFailed' = FALSE
  /\ overtook' = (overtook /\ containerReads # <<>>)
  /\ UNCHANGED containerData

\* containerDataSource: the container's task is performed for new attributes.
PerformContainer(u) ==
  LET running == IF IsRestartable THEN <<>> ELSE containerReads
  IN  /\ containerReads' = IF ReadsAbout(u) THEN Append(running, u) ELSE running
      /\ lastFailed' = FALSE
      /\ overtook' = (overtook /\ running # <<>>)
      /\ UNCHANGED containerData

Unmount ==
  /\ containerReads' = <<>> /\ containerData' = "none" /\ lastFailed' = FALSE /\ overtook' = FALSE

Mount(u) ==
  /\ containerReads' = IF ReadsAbout(u) THEN <<u>> ELSE <<>>
  /\ containerData' = "none" /\ lastFailed' = FALSE /\ overtook' = FALSE

\* The table of relationships is made anew when its container has stopped reading.
NewTable == selectedRelationshipType' = AllTypes /\ showAllRelationships' = FALSE

\* What is shown when the read about u ends: what was read, or else what was shown
\* before or, of relationships, nothing.  A schema that cannot be read is shown as
\* one without columns.
Kept(u, ok) == IF ok THEN u ELSE containerData
GetDatasetSchema(u, ok) == u
GetDatasetUpstreams(u, ok) == IF ok THEN u ELSE "none"
GetDatasetDownstreams(u, ok) == IF ok THEN u ELSE "none"
GetSnapshot(u, ok) == Kept(u, ok)
ReifyEntity(u, ok) == Kept(u, ok)
GetUpstreamProperties(u, ok) == Kept(u, ok)

\* A read ends, any of those that run.
ContainerReads(i, ok) ==
  /\ container = "entity" => ok
  /\ containerReads' = RemoveAt(containerReads, i)
  /\ LET u == containerReads[i]
     IN  containerData' = CASE container = "schema" -> GetDatasetSchema(u, ok)
                            [] container = "upstreams" -> GetDatasetUpstreams(u, ok)
                            [] container = "downstreams" -> GetDatasetDownstreams(u, ok)
                            [] container = "snapshot" -> GetSnapshot(u, ok)
                            [] container = "entity" -> ReifyEntity(u, ok)
                            [] container = "upstreamOwners" -> GetUpstreamProperties(u, ok)
  /\ lastFailed' = (lastFailed \/ (~ok /\ container # "schema" /\ i = Len(containerReads)))
  /\ overtook' = (overtook \/ i > 1)
  /\ NewTable
  /\ UNCHANGED <<container, datasetPage, target, routeReads, searchEntity, tabSelected, relationshipsCached, lateRead>>

\* What of the container's data is on the page: nothing in place of a schema or of
\* relationships that are read; a snapshot only in the header that is made for it.
HeaderComponent(u) == IF u \in UmpDatasets THEN "ump" ELSE "regular"
IsVisible ==
  /\ OnDatasetPage /\ containerData # "none"
  /\ container \in {"schema", "upstreams", "downstreams"} => containerReads = <<>>
  /\ container = "snapshot" => HeaderComponent(datasetPage) = "ump"

(***************************************************************************)
(* The route and the tabs.                                                 *)
(***************************************************************************)

PageInit ==
  /\ container \in PageContainers
  /\ datasetPage = "away" /\ target = "none" /\ routeReads = {} /\ searchEntity = "people"
  /\ tabSelected = "schema" /\ relationshipsCached = FALSE
  /\ containerReads = <<>> /\ containerData = "none" /\ lastFailed = FALSE /\ overtook = FALSE
  /\ selectedRelationshipType = AllTypes /\ showAllRelationships = FALSE /\ lateRead = FALSE

VisitDataset(u) ==
  /\ u # datasetPage /\ u \notin routeReads /\ Cardinality(routeReads) < MaxPageReads
  /\ routeReads' = routeReads \cup {u} /\ target' = u
  /\ UNCHANGED <<container, datasetPage, searchEntity, tabSelected, relationshipsCached, readVars, tableVars, lateRead>>

\* The pages of other entities set the entity to search for when they are entered.
VisitPeople ==
  /\ datasetPage # "away" \/ target # "none"
  /\ datasetPage' = "away" /\ target' = "none" /\ searchEntity' = "people" /\ relationshipsCached' = FALSE
  /\ lateRead' = FALSE
  /\ Unmount /\ NewTable
  /\ UNCHANGED <<container, routeReads, tabSelected>>

\* The model of the route is there and the transition goes on, to the default tab.
\* The tabs that were opened stay, and what is in them.
ShowModel(model) ==
  /\ datasetPage' = model /\ target' = "none"
  /\ tabSelected' = IF model \in PageDatasets THEN "schema" ELSE tabSelected
  /\ relationshipsCached' = (relationshipsCached /\ OnDatasetPage /\ model \in PageDatasets)
  /\ IF ~IsMounted(model, relationshipsCached') THEN Unmount
     ELSE IF OnDatasetPage THEN PerformContainer(model) ELSE Mount(model)
  /\ NewTable

\* readDataset: a urn that is neither of the two kinds is not asked for.  The entity
\* to search for is set when the dataset is read, for an abandoned transition too.
ReadDataset(u, result) ==
  /\ u \in routeReads /\ routeReads' = routeReads \ {u}
  /\ UrnKind[u] = "other" => result = "error"
  /\ Len(containerReads) < MaxPageReads
  /\ searchEntity' = IF result = "dataset" THEN "datasets" ELSE searchEntity
  /\ lateRead' = (lateRead \/ (result = "dataset" /\ u # target))
  /\ IF u = target THEN ShowModel(IF result = "dataset" THEN u ELSE result)
     ELSE UNCHANGED <<datasetPage, target, tabSelected, relationshipsCached, readVars, tableVars>>
  /\ UNCHANGED container

DatasetTabs == {"schema", "properties", "ownership", "relationships", "wiki"}

\* A tab that is rendered lazily stays once it was selected.
SelectTab(tab) ==
  /\ OnDatasetPage /\ tab # tabSelected /\ tab \in DatasetTabs
  /\ tabSelected' = tab
  /\ relationshipsCached' = (relationshipsCached \/ tab = "relationships")
  /\ IF IsMounted(datasetPage, relationshipsCached') /\ ~IsMounted(datasetPage, relationshipsCached)
     THEN Mount(datasetPage) ELSE UNCHANGED readVars
  /\ UNCHANGED <<container, datasetPage, target, routeReads, searchEntity, tableVars, lateRead>>

(***************************************************************************)
(* The tables of relationships.                                            *)
(***************************************************************************)

IsTableContainer == container \in {"upstreams", "downstreams"}
RelationshipList == IF IsTableContainer /\ IsVisible THEN Relationships[container, containerData] ELSE <<>>

RelationshipTypes == {AllTypes} \cup Range(RelationshipList)

LineageTypeFilter(type) == selectedRelationshipType = AllTypes \/ type = selectedRelationshipType
FilteredByType == Only(RelationshipList, {type \in RelationshipTypes : LineageTypeFilter(type)})
TakeN(list) == IF showAllRelationships \/ Len(list) <= TruncatedLength THEN list ELSE SubSeq(list, 1, TruncatedLength)
FilteredRelationships == TakeN(FilteredByType)

HasMore ==
  IF selectedRelationshipType = AllTypes THEN Len(RelationshipList) > TruncatedLength
  ELSE Len(FilteredByType) > TruncatedLength

IsTable == tabSelected = "relationships" /\ RelationshipList # <<>>

OnTypeSelect(type) ==
  /\ IsTable /\ type \in RelationshipTypes
  /\ selectedRelationshipType' = type
  /\ UNCHANGED <<container, datasetPage, target, routeReads, searchEntity, tabSelected, relationshipsCached,
                 readVars, showAllRelationships, lateRead>>

OnToggleShowMore ==
  /\ IsTable /\ HasMore
  /\ showAllRelationships' = ~showAllRelationships
  /\ UNCHANGED <<container, datasetPage, target, routeReads, searchEntity, tabSelected, relationshipsCached,
                 readVars, selectedRelationshipType, lateRead>>

PageNext ==
  \/ \E u \in PageDatasets : VisitDataset(u)
  \/ \E u \in routeReads, result \in {"dataset", "notFound", "error"} : ReadDataset(u, result)
  \/ VisitPeople
  \/ \E tab \in DatasetTabs : SelectTab(tab)
  \/ \E i \in DOMAIN containerReads, ok \in BOOLEAN : ContainerReads(i, ok)
  \/ \E type \in RelationshipTypes : OnTypeSelect(type)
  \/ OnToggleShowMore

PageSpec == PageInit /\ [][PageNext]_pageVars

-----------------------------------------------------------------------------
\* What a container shows at rest is of the dataset of the page, never of one that
\* was on the page before: always where the task is restartable, else as long as
\* its reads end in the order they began; a container without a place for its
\* error may keep the old data.
ShowsDatasetOfPage ==
  IsVisible /\ containerReads = <<>> /\ (overtook => IsRestartable) =>
    containerData = datasetPage \/ (lastFailed /\ container \in {"snapshot", "upstreamOwners"})

\* The search box is set to datasets on a dataset's page and to people elsewhere,
\* as long as no dataset arrives for a transition that was given up.
SearchEntityOfPage ==
  /\ OnDatasetPage => searchEntity = "datasets"
  /\ datasetPage = "away" /\ ~lateRead => searchEntity = "people"

\* No relationship of the selected type is out of reach: what a table leaves out
\* it offers to show.
MoreIsOffered == IsTable /\ ~HasMore => FilteredRelationships = FilteredByType

\* Tabs, relationships and search box belong to the dataset of the page, whatever
\* is answered late.
PageIsOfOneDataset ==
  /\ PageTypeOK /\ ShowsDatasetOfPage /\ SearchEntityOfPage /\ MoreIsOffered
=============================================================================
