------------------------------- MODULE Browse -------------------------------
(***************************************************************************)
(* Browsing the categories of an entity in the web client: the browse      *)
(* routes, the container whose restartable task reads one category, the    *)
(* memory of the browse endpoint (cacheApi), the lists that are rendered a *)
(* few elements per animation frame, and the links of the page.            *)
(*                                                                         *)
(* A path is a sequence of segments; the string of a URL is the sequence   *)
(* of what stands between its slashes, <<"">> if it is empty.  A key names *)
(* one request: the entity and the segments.                               *)
(***************************************************************************)
EXTENDS Integers, Sequences, FiniteSets, SequencesExt, Lists

CONSTANTS
  BrowseEntities, TiledEntity,  \* entities; the one whose root is shown as tiles
  Groups,         \* Groups[e, p]: names of the categories below p, a sequence
  Elements,       \* Elements[e, p]: urns of the entities in p, a sequence
  MaxTrailLength, \* breadcrumbs shown without a gap
  ChunkSize,      \* elements rendered in one frame
  MaxPending      \* bound: requests on the net

Segments == STRING \ {""}

\* Segments have a name; one without could be linked to, but not be followed.
ASSUME BrowseAssumption ==
  /\ TiledEntity \in BrowseEntities /\ DOMAIN Elements = DOMAIN Groups
  /\ DOMAIN Groups \subseteq BrowseEntities \X Seq(Segments)
  /\ \A k \in DOMAIN Groups : Groups[k] \in Seq(Segments) /\ Elements[k] \in Seq(STRING)
  /\ \A e \in BrowseEntities : <<e, <<>>>> \in DOMAIN Groups
  /\ Elements[TiledEntity, <<>>] = <<>>
  /\ MaxTrailLength \in Nat \ {0, 1} /\ ChunkSize \in Nat \ {0} /\ MaxPending \in Nat

VARIABLES
  browseRoute,     \* "index", "browse" or "away"
  browseParams,    \* the model of the route: the key of the category to show
  browseEntity,    \* search service: the entity being browsed, "none" if undefined
  promises,        \* cacheApi: key -> "pending", "cached" or "failed"
  nodesTask,       \* getEntityCategoriesNodesTask: "running", "idle" or "error"
  browsePath,      \* what the container shows
  showAsTiles,
  loading,         \* the lists whose loading flag is set
  renderedTo,      \* per list on the page, how much of it is rendered
  frames           \* the lists with an animation frame requested

browseVars == <<browseRoute, browseParams, browseEntity, promises, nodesTask, browsePath,
                showAsTiles, loading, renderedTo, frames>>

Keys == DOMAIN Groups
NoBrowsePath == [none |-> TRUE]
Flags == {"groups", "entities"}

(***************************************************************************)
(* Links.                                                                  *)
(***************************************************************************)

\* join('/') and split('/') of a list of segments.
Join(segments) == IF segments = <<>> THEN <<"">> ELSE segments
Split(path) == Only(path, ToSet(path) \ {""})

\* Each crumb adds its segment to the path of the one before it.
BakeBreadcrumbs(segments) ==
  LET crumbs[i \in 0 .. Len(segments)] ==
        IF i = 0 THEN <<>>
        ELSE Append(crumbs[i - 1],
                    [label |-> segments[i],
                     path  |-> Join((IF i = 1 THEN <<>> ELSE Last(crumbs[i - 1]).path) \o <<segments[i]>>)])
  IN  crumbs[Len(segments)]

\* A trail that is too long keeps its two ends; what is between them is folded.
Affix(crumbs) ==
  LET n == Len(crumbs)  breakAt == MaxTrailLength \div 2 IN
  IF n <= MaxTrailLength THEN [prefix |-> crumbs, infix |-> <<>>, suffix |-> <<>>]
  ELSE [prefix |-> SubSeq(crumbs, 1, breakAt),
        infix  |-> SubSeq(crumbs, breakAt + 1, n - breakAt),
        suffix |-> SubSeq(crumbs, n - breakAt + 1, n)]

\* The path an entity is found at: the first the server names.
ReadPath(paths) == IF paths = <<>> THEN <<>> ELSE Split(paths[1])

LinkForCategory(e, segments) == [model |-> e, path |-> Join(Split(segments))]
LinkForEntity(e, urn) == [entity |-> e, model |-> urn]
SearchWithinLink(e, segments) == [model |-> e, path |-> Join(segments)]

\* The answer of the browse endpoint made into links.
ReadCategories(k) ==
  [key      |-> k,
   count    |-> Len(Elements[k]),
   entities |-> [i \in DOMAIN Elements[k] |-> LinkForEntity(k[1], Elements[k][i])],
   groups   |-> [i \in DOMAIN Groups[k] |-> LinkForCategory(k[1], Append(k[2], Groups[k][i]))]]

(***************************************************************************)
(* The lists.                                                              *)
(***************************************************************************)

Lists == IF showAsTiles THEN {"tiles"} ELSE {"groups", "entities"}
ListOf(l) == IF l = "entities" THEN browsePath.entities ELSE browsePath.groups

\* Spinner and error hide the page: its lists are destroyed, their frames cancelled.
HideLists == renderedTo' = << >> /\ frames' = {}
ShowLists == renderedTo' = [l \in Lists' |-> 0] /\ frames' = Lists'

-----------------------------------------------------------------------------
BrowseInit ==
  /\ browseRoute = "index" /\ browseParams = <<TiledEntity, <<>>>> /\ browseEntity = "none"
  /\ promises = << >> /\ nodesTask = "idle" /\ browsePath = NoBrowsePath
  /\ showAsTiles = FALSE /\ loading = {} /\ renderedTo = << >> /\ frames = {}

BrowseTypeOK ==
  /\ browseRoute \in {"index", "browse", "away"} /\ browseParams \in Keys
  /\ browseEntity \in BrowseEntities \cup {"none"}
  /\ DOMAIN promises \subseteq Keys
  /\ \A k \in DOMAIN promises : promises[k] \in {"pending", "cached", "failed"}
  /\ nodesTask \in {"running", "idle", "error"}
  /\ browsePath # NoBrowsePath => browsePath.key \in Keys
  /\ showAsTiles \in BOOLEAN /\ loading \subseteq Flags
  /\ frames \subseteq DOMAIN renderedTo /\ DOMAIN renderedTo \subseteq {"tiles", "groups", "entities"}
  /\ \A l \in DOMAIN renderedTo : renderedTo[l] \in 0..Len(ListOf(l))

(***************************************************************************)
(* The task.  Its finally clause runs when it ends, fails or is cancelled. *)
(***************************************************************************)

Finally(k, answer) ==
  /\ browsePath' = answer
  /\ showAsTiles' = (k[2] = <<>> /\ k[1] = TiledEntity)
  /\ loading' = Flags

Finish(k) == Finally(k, ReadCategories(k)) /\ nodesTask' = "idle" /\ ShowLists
Fail(k) == Finally(k, NoBrowsePath) /\ nodesTask' = "error" /\ HideLists

\* cacheApi: an answer is kept, and so is the promise of a request that failed.
ReadBrowse(k) ==
  IF k \in DOMAIN promises THEN UNCHANGED promises
  ELSE /\ Cardinality({p \in DOMAIN promises : promises[p] = "pending"}) < MaxPending
       /\ promises' = [p \in DOMAIN promises \cup {k} |-> IF p = k THEN "pending" ELSE promises[p]]

\* The task performed for k: it waits only if the answer is not there yet.
PerformNodes(k) ==
  /\ ReadBrowse(k)
  /\ CASE promises'[k] = "cached" -> Finish(k)
       [] promises'[k] = "failed" -> Fail(k)
       [] OTHER -> /\ nodesTask' = "running" /\ HideLists
                   /\ IF nodesTask = "running" THEN Finally(browseParams, NoBrowsePath)
                      ELSE UNCHANGED <<browsePath, showAsTiles, loading>>

\* A model hook that ran made a new params object, so the container reads anew.
ContainerDataSource(k) ==
  IF browseRoute = "browse" /\ k = browseParams
  THEN UNCHANGED <<promises, nodesTask, browsePath, showAsTiles, loading, renderedTo, frames>>
  ELSE PerformNodes(k)

(***************************************************************************)
(* The routes.                                                             *)
(***************************************************************************)

\* The path is what the URL says, empty segments and all.
OpenBrowse(e, path) ==
  LET k == <<e, Split(path)>> IN
  /\ k \in Keys
  /\ browseEntity' = e
  /\ browseRoute' = "browse" /\ browseParams' = k
  /\ ContainerDataSource(k)

FollowLink(link) == OpenBrowse(link.model, link.path)

\* The container is destroyed and its task with it; the request goes on.
LeaveBrowse(to) ==
  /\ browseRoute = "browse"
  /\ browseRoute' = to /\ nodesTask' = "idle" /\ browsePath' = NoBrowsePath
  /\ showAsTiles' = FALSE /\ loading' = {} /\ HideLists
  /\ UNCHANGED <<browseParams, promises>>

OpenIndex == LeaveBrowse("index") /\ browseEntity' = "none"
OpenEntityPage ==
  /\ nodesTask = "idle" /\ LeaveBrowse("away") /\ UNCHANGED browseEntity

RetryNodes ==
  /\ nodesTask = "error"
  /\ PerformNodes(browseParams)
  /\ UNCHANGED <<browseRoute, browseParams, browseEntity>>

Awaited(k) == nodesTask = "running" /\ k = browseParams

BrowseAnswers(k) ==
  /\ k \in DOMAIN promises /\ promises[k] = "pending"
  /\ promises' = [promises EXCEPT ![k] = "cached"]
  /\ IF Awaited(k) THEN Finish(k)
     ELSE UNCHANGED <<nodesTask, browsePath, showAsTiles, loading, renderedTo, frames>>
  /\ UNCHANGED <<browseRoute, browseParams, browseEntity>>

BrowseFails(k) ==
  /\ k \in DOMAIN promises /\ promises[k] = "pending"
  /\ promises' = [promises EXCEPT ![k] = "failed"]
  /\ IF Awaited(k) THEN Fail(k)
     ELSE UNCHANGED <<nodesTask, browsePath, showAsTiles, loading, renderedTo, frames>>
  /\ UNCHANGED <<browseRoute, browseParams, browseEntity>>

(***************************************************************************)
(* Animation frames.                                                       *)
(***************************************************************************)

\* Mutant: a list that is done says so for both.
OnAnyFinished(l) == loading' = {}

OnFinished(l) == loading' = loading \ (IF l = "tiles" THEN Flags ELSE {l})

\* Mutant: the last chunk asks for no frame.
NextChunkUntilLast(l) ==
  /\ l \in frames
  /\ IF renderedTo[l] + ChunkSize < Len(ListOf(l))
     THEN renderedTo' = [renderedTo EXCEPT ![l] = @ + ChunkSize] /\ UNCHANGED <<frames, loading>>
     ELSE /\ renderedTo' = [renderedTo EXCEPT ![l] = Len(ListOf(l))] /\ frames' = frames \ {l}
          /\ IF Len(ListOf(l)) = 0 THEN OnFinished(l) ELSE UNCHANGED loading
  /\ UNCHANGED <<browseRoute, browseParams, browseEntity, promises, nodesTask, browsePath, showAsTiles>>

\* One frame: the next chunk, or the list is finished.
NextChunk(l) ==
  /\ l \in frames
  /\ IF renderedTo[l] < Len(ListOf(l))
     THEN /\ renderedTo' = [renderedTo EXCEPT ![l] = IF @ + ChunkSize < Len(ListOf(l)) THEN @ + ChunkSize
                                                     ELSE Len(ListOf(l))]
          /\ UNCHANGED <<frames, loading>>
     ELSE /\ frames' = frames \ {l} /\ OnFinished(l) /\ UNCHANGED renderedTo
  /\ UNCHANGED <<browseRoute, browseParams, browseEntity, promises, nodesTask, browsePath, showAsTiles>>

BrowseNext ==
  \/ \E k \in Keys : \/ OpenBrowse(k[1], <<"">> \o k[2])
                     \/ browseRoute = "away" /\ OpenBrowse(k[1], ReadPath(<<k[2]>>))
                     \/ BrowseAnswers(k) \/ BrowseFails(k)
  \/ /\ nodesTask = "idle" /\ browsePath # NoBrowsePath
     /\ \E i \in DOMAIN browsePath.groups : FollowLink(browsePath.groups[i])
  \/ OpenIndex \/ OpenEntityPage \/ RetryNodes
  \/ \E l \in {"tiles", "groups", "entities"} : NextChunk(l)

\* Browsers run the animation frames that are requested.
BrowseFairness == \A l \in {"tiles", "groups", "entities"} : WF_browseVars(NextChunk(l))

BrowseSpec == BrowseInit /\ [][BrowseNext]_browseVars /\ BrowseFairness

-----------------------------------------------------------------------------
(***************************************************************************)
(* Properties.                                                             *)
(***************************************************************************)

BrowseVisible == browseRoute = "browse" /\ nodesTask = "idle"

\* The page shows the category its URL names, however the requests for other
\* categories were answered meanwhile.
BrowseShowsParams == BrowseVisible => browsePath = ReadCategories(browseParams)

\* When the spinner of a category goes, all of its categories and entities are
\* on the page.
RenderedWhenLoaded ==
  BrowseVisible /\ loading = {} =>
    /\ \A l \in DOMAIN renderedTo : renderedTo[l] = Len(ListOf(l))
    /\ renderedTo = << >> \/ "groups" \in DOMAIN renderedTo \/ browsePath.entities = <<>>

\* The spinner goes, unless the user goes first.
LoadingEnds ==
  \A k \in Keys : LET Waiting == BrowseVisible /\ browseParams = k /\ loading # {}
                  IN  Waiting ~> ~Waiting

\* Links keep the way: a category leads one step down, a breadcrumb back to its
\* prefix of the trail, the search within stays where it is.
LinksKeepTheWay ==
  BrowseVisible =>
    /\ \A i \in DOMAIN browsePath.groups :
         Split(browsePath.groups[i].path) = Append(browseParams[2], Groups[browseParams][i])
    /\ \A i \in DOMAIN browseParams[2] :
         Split(BakeBreadcrumbs(browseParams[2])[i].path) = SubSeq(browseParams[2], 1, i)
    /\ Split(SearchWithinLink(browseParams[1], browseParams[2]).path) = browseParams[2]

\* A folded trail loses no crumb and shows at most MaxTrailLength of them.
TrailIsWhole ==
  LET crumbs == BakeBreadcrumbs(browseParams[2])  a == Affix(crumbs) IN
  a.prefix \o a.infix \o a.suffix = crumbs /\ Len(a.prefix \o a.suffix) <= MaxTrailLength

\* Page, links and trail of a hierarchy agree with its url, though categories are
\* read late and rendered over many frames.
BrowsingAgrees ==
  /\ BrowseTypeOK /\ BrowseShowsParams /\ RenderedWhenLoaded /\ LinksKeepTheWay /\ TrailIsWhole
=============================================================================
