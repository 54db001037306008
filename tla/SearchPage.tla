----------------------------- MODULE SearchPage -----------------------------
(***************************************************************************)
(* The search page of the web client: the search route and the search      *)
(* service, the container that asks the server for results, the facets     *)
(* beside them and the page links below them.  A page of answers is        *)
(* requested whenever the query in the URL changes; the task that asks is  *)
(* restartable, the asynchronous function it calls is not, so an answer    *)
(* that was overtaken by a newer request still replaces the results.       *)
(*                                                                         *)
(* A keyword stands for the keyword and the entity searched for; a facet   *)
(* option is a pair <<facet name, value>>.                                 *)
(***************************************************************************)
EXTENDS Integers, Sequences, FiniteSets, SequencesExt

CONSTANTS
  Keywords,       \* what a user may type, with the entity to search for
  NoKeyword,      \* the empty keyword of the search service
  Options,        \* the facet options, pairs of facet name and value
  DefaultFacets,  \* the facets an entity selects by default
  Hits,           \* Hits[k, f]: how many entities match keyword k and facets f
  Buckets,        \* Buckets[k]: the options the server aggregates for k
  PageSize,       \* results on one page
  Threshold,      \* page links on either side of the current page
  MaxInFlight,    \* bound: searches awaiting their answer
  MaxTimers       \* bound: debounced facet changes that have not fired

ASSUME SearchAssumption ==
  /\ DefaultFacets \subseteq Options
  /\ NoKeyword \notin Keywords
  /\ Hits \in [Keywords \X SUBSET Options -> Nat]
  /\ Buckets \in [Keywords -> SUBSET Options]
  /\ PageSize \in Nat \ {0} /\ Threshold \in Nat
  /\ MaxInFlight \in Nat /\ MaxTimers \in Nat

VARIABLES
  route,       \* "search", "entity" or "other"
  url,         \* the query of the search page; away from it, the one Back restores
  keyword,     \* search service: the keyword shown in the search box
  selections,  \* facets container: its own copy of the check boxes, option -> BOOLEAN
  changing,    \* entity container: _isFacetsChanging
  timers,      \* debounced facet changes; "mine" is the one of the living container
  task,        \* searchTask: "idle", "running" or "error"
  inFlight,    \* the searches without an answer, oldest first
  result,      \* the result the container holds
  overtaken    \* history: a late answer is shown ("now"), was shown ("past"), or "never"

searchVars == <<route, url, keyword, selections, changing, timers, task, inFlight,
          result, overtaken>>

Query == [keyword : Keywords, page : Nat, facets : SUBSET Options]

(***************************************************************************)
(* Facets: the map of check boxes and the list of the URL.                 *)
(***************************************************************************)

\* Only boxes that are ticked reach the URL; a facet without one is dropped.
ToFacetSelectionsArray(sel) == {o \in DOMAIN sel : sel[o]}

ToFacetSelectionsMap(facets) == [o \in facets |-> TRUE]

FacetToParamUrl(sel) == ToFacetSelectionsArray(sel)

FacetFromParamUrl(facets) == ToFacetSelectionsMap(facets)

Toggle(sel, o) ==
  [p \in DOMAIN sel \cup {o} |-> IF p = o THEN ~(o \in DOMAIN sel /\ sel[o]) ELSE sel[p]]

ClearFacet(sel, name) == [o \in {p \in DOMAIN sel : p[1] # name} |-> sel[o]]

\* A selected option the answer does not count is added with a count of 0.
MergeFacetCounts(found, selected) ==
  [o \in found \cup selected |-> IF o \in found THEN 1 ELSE 0]

(***************************************************************************)
(* Pages.                                                                  *)
(***************************************************************************)

Ceil(a, b) == (a + b - 1) \div b

TotalPages(q) == Ceil(Hits[q.keyword, q.facets], PageSize)

\* What the container keeps of an answer; start and count come back from the
\* server, page and totalPages are computed from them.
ResultOf(q) ==
  LET start == (q.page - 1) * PageSize
      total == Hits[q.keyword, q.facets]
  IN  [query |-> q, start |-> start, total |-> total,
       size |-> IF total < start THEN 0
                ELSE IF total - start < PageSize THEN total - start ELSE PageSize,
       page |-> Ceil(start + 1, PageSize),
       totalPages |-> Ceil(total, PageSize),
       counts |-> MergeFacetCounts(Buckets[q.keyword], q.facets)]

NoResult == [none |-> TRUE]

SearchResultItemIndex(page, pageIndex) == PageSize * (page - 1) + pageIndex + 1

ShowingMax(r) == IF PageSize * r.page > r.total THEN r.total ELSE PageSize * r.page

ShowingMin(r) == PageSize * (r.page - 1) + 1

\* The entries of the pagination: page numbers, and 0 for an ellipsis.
PageEntries(current, total) ==
  LET initial == current - Threshold > 2
      last    == current + Threshold < total - 1
      from    == IF initial THEN current - Threshold ELSE 2
      to      == IF last THEN current + Threshold ELSE total - 1
      window  == IF to < from THEN <<>> ELSE [i \in 1..(to - from + 1) |-> from + i - 1]
  IN  <<1>> \o (IF initial THEN <<0>> ELSE <<>>) \o window
            \o (IF last THEN <<0>> ELSE <<>>) \o (IF total > 1 THEN <<total>> ELSE <<>>)

PreviousPage(current) == IF current <= 1 THEN current ELSE current - 1

NextPage(current, total) == IF current >= total THEN total ELSE current + 1

\* Previous and next are links except on the first and on the last page.
PageLinks(current, total) ==
  {p \in ToSet(PageEntries(current, total)) : p # 0 /\ p # current}
    \cup (IF current <= 1 THEN {} ELSE {PreviousPage(current)})
    \cup (IF current >= total THEN {} ELSE {NextPage(current, total)})

ShowNoResult(r) == r.size = 0

-----------------------------------------------------------------------------
(***************************************************************************)
(* State.                                                                  *)
(***************************************************************************)

SearchTypeOK ==
  /\ route \in {"search", "entity", "other"}
  /\ url \in Query /\ url.page >= 1
  /\ keyword \in Keywords \cup {NoKeyword}
  /\ DOMAIN selections \subseteq Options
  /\ changing \in BOOLEAN
  /\ \A t \in timers : DOMAIN t.sel \subseteq Options /\ t.mine \in BOOLEAN
  /\ task \in {"idle", "running", "error"}
  /\ inFlight \in Seq(Query)
  /\ result = NoResult \/ result.query \in Query
  /\ overtaken \in {"never", "past", "now"}

ContainerInit ==
  changing = FALSE /\ timers = {} /\ task = "idle" /\ inFlight = <<>> /\ result = NoResult

FacetsInit == selections = << >>

ControllerInit ==
  url \in {[keyword |-> k, page |-> 1, facets |-> DefaultFacets] : k \in Keywords}

\* The home page: nothing was searched for yet.
SearchInit ==
  /\ route = "other" /\ keyword = NoKeyword /\ overtaken = "never"
  /\ ContainerInit /\ FacetsInit /\ ControllerInit

(***************************************************************************)
(* Transitions of the router.                                              *)
(***************************************************************************)

\* Mutant: the facets are not among the watched attributes.
SearchIfMoved(q) ==
  IF q.keyword = url.keyword /\ q.page = url.page THEN UNCHANGED <<task, inFlight>>
  ELSE /\ Len(inFlight) < MaxInFlight
       /\ task' = "running"
       /\ inFlight' = Append(inFlight, q)

\* The container searches again if one of its watched attributes changed.
SearchIfChanged(q) ==
  IF q = url THEN UNCHANGED <<task, inFlight>>
  ELSE /\ Len(inFlight) < MaxInFlight
       /\ task' = "running"
       /\ inFlight' = Append(inFlight, q)

\* Any facet still ticked shows its clear button.
ShowClearBtn(name) == \E o \in DOMAIN selections : o[1] = name /\ selections[o]

\* The route tells the service its keyword; new facets reset the check boxes.
ShowQuery(q) ==
  /\ SearchIfChanged(q)
  /\ url' = q
  /\ keyword' = q.keyword
  /\ selections' = IF q.facets = url.facets THEN selections
                   ELSE FacetFromParamUrl(q.facets)
  /\ UNCHANGED <<route, result, overtaken>>

\* A page entered from elsewhere has a new container, which searches at once.
EnterSearch(q) ==
  /\ route # "search"
  /\ route' = "search" /\ url' = q /\ keyword' = q.keyword
  /\ selections' = FacetFromParamUrl(q.facets)
  /\ changing' = FALSE
  /\ task' = "running" /\ inFlight' = <<q>> /\ result' = NoResult
  /\ overtaken' = IF overtaken = "never" THEN "never" ELSE "past"
  /\ UNCHANGED timers

\* The search box: page 1 and the default facets of the entity.
OnSearch(k) ==
  LET q == [keyword |-> k, page |-> 1, facets |-> DefaultFacets]
  IN  \/ EnterSearch(q)
      \/ route = "search" /\ ShowQuery(q) /\ UNCHANGED <<changing, timers>>

\* The back button returns to the query the page was left with.
Return == EnterSearch(url)

\* Leaving empties the keyword of the service.  The container is destroyed:
\* answers to its searches set nothing, but its debounced change still fires.
WillTransition(to) ==
  /\ route = "search" /\ to # "search"
  /\ route' = to
  /\ keyword' = NoKeyword
  /\ changing' = FALSE
  /\ timers' = {[t EXCEPT !.mine = FALSE] : t \in timers}
  /\ task' = "idle" /\ inFlight' = <<>> /\ result' = NoResult
  /\ overtaken' = IF overtaken = "never" THEN "never" ELSE "past"
  /\ UNCHANGED <<url, selections>>

\* Results and page links are rendered only while the task neither runs nor failed.
ResultsShown == route = "search" /\ task = "idle" /\ result # NoResult

GoToPage(p) ==
  /\ ResultsShown /\ ~ShowNoResult(result)
  /\ p \in PageLinks(result.page, result.totalPages)
  /\ ShowQuery([url EXCEPT !.page = p])
  /\ UNCHANGED <<changing, timers>>

(***************************************************************************)
(* Facets.                                                                 *)
(***************************************************************************)

\* A change is debounced: it replaces the one of this container still waiting.
OnFacetsChange(sel) ==
  /\ Cardinality({t \in timers : ~t.mine}) < MaxTimers
  /\ selections' = sel
  /\ changing' = TRUE
  /\ timers' = {t \in timers : ~t.mine} \cup {[sel |-> sel, mine |-> TRUE]}
  /\ UNCHANGED <<route, url, keyword, task, inFlight, result, overtaken>>

OnFacetChange(o) ==
  /\ route = "search" /\ result # NoResult /\ o \in DOMAIN result.counts
  /\ OnFacetsChange(Toggle(selections, o))

OnFacetClear(name) ==
  /\ route = "search" /\ result # NoResult
  /\ ShowClearBtn(name)
  /\ OnFacetsChange(ClearFacet(selections, name))

\* The query with the facets of a selection, from its first page.
OnFacetsParamChange(sel) ==
  [url EXCEPT !.facets = FacetToParamUrl(sel), !.page = 1]

\* The second is over.  The router is asked for the route that is current now:
\* only the search route has these parameters.
OnFacetsDidChange(t) ==
  /\ t \in timers
  /\ timers' = timers \ {t}
  /\ changing' = (changing /\ ~t.mine)
  /\ IF route = "search" THEN ShowQuery(OnFacetsParamChange(t.sel))
     ELSE UNCHANGED <<route, url, keyword, selections, task, inFlight, result, overtaken>>

(***************************************************************************)
(* Answers.                                                                *)
(***************************************************************************)

\* The newest search is the one the task waits for.
IsNewest(i) == task = "running" /\ i = Len(inFlight)

\* New counts re-render the facets, whose check boxes go back to the URL's.
SearchEntities(i) ==
  /\ i \in DOMAIN inFlight
  /\ result' = ResultOf(inFlight[i])
  /\ selections' = FacetFromParamUrl(url.facets)
  /\ inFlight' = RemoveAt(inFlight, i)
  /\ task' = IF IsNewest(i) THEN "idle" ELSE task
  /\ overtaken' = IF ~IsNewest(i) THEN "now"
                  ELSE IF overtaken = "now" THEN "past" ELSE overtaken
  /\ UNCHANGED <<route, url, keyword, changing, timers>>

\* The endpoint fails: only the task of the newest search is there to notice.
SearchFails(i) ==
  /\ i \in DOMAIN inFlight
  /\ inFlight' = RemoveAt(inFlight, i)
  /\ task' = IF IsNewest(i) THEN "error" ELSE task
  /\ UNCHANGED <<route, url, keyword, selections, changing, timers, result, overtaken>>

\* The retry button shown in place of the results.
Retry ==
  /\ task = "error" /\ Len(inFlight) < MaxInFlight
  /\ task' = "running"
  /\ inFlight' = Append(inFlight, url)
  /\ UNCHANGED <<route, url, keyword, selections, changing, timers, result, overtaken>>

SearchNext ==
  \/ \E k \in Keywords : OnSearch(k)
  \/ Return
  \/ \E to \in {"entity", "other"} : WillTransition(to)
  \/ \E p \in 1..(IF ResultsShown THEN result.totalPages ELSE 0) : GoToPage(p)
  \/ \E o \in Options : OnFacetChange(o)
  \/ \E name \in {o[1] : o \in Options} : OnFacetClear(name)
  \/ \E t \in timers : OnFacetsDidChange(t)
  \/ \E i \in DOMAIN inFlight : SearchEntities(i) \/ SearchFails(i)
  \/ Retry

SearchSpec == SearchInit /\ [][SearchNext]_searchVars

-----------------------------------------------------------------------------
(***************************************************************************)
(* Properties.                                                             *)
(***************************************************************************)

\* Once its task is idle the page shows the results of the query in the URL,
\* unless an older answer overtook the newest one (searchTask is restartable,
\* searchEntities is not).
IdleShowsUrl ==
  route = "search" /\ task = "idle" /\ overtaken # "now" => result.query = url

\* The check boxes and the URL name the same facets whenever no debounced
\* change waits, whichever containers asked for changes in between.
FacetsFollowTheUser ==
  route = "search" /\ timers = {} => ToFacetSelectionsArray(selections) = url.facets

\* The page in the URL exists for the keyword and facets in the URL, as long as
\* no late answer ever showed the page links of another query.
PageExists ==
  route = "search" /\ overtaken = "never" => url.page <= TotalPages(url) \/ url.page = 1

\* Every facet the URL selects has a check box to take it back with, also when
\* the answer knows no such option.
SelectedCanBeCleared ==
  ResultsShown /\ overtaken # "now" => url.facets \subseteq DOMAIN result.counts

\* The pagination lists every page once and in order, an ellipsis only where
\* pages are left out.
EllipsesHidePages ==
  ResultsShown /\ ~ShowNoResult(result) =>
    LET e == PageEntries(result.page, result.totalPages)
    IN  /\ e[1] = 1 /\ e[Len(e)] = result.totalPages
        /\ \A i \in 2..Len(e) : IF e[i] = 0 THEN e[i + 1] - e[i - 1] > 1
                                ELSE e[i] = e[i - 1] + 1 \/ e[i - 1] = 0
        /\ \E i \in DOMAIN e : e[i] = result.page

\* The numbers written beside the results are their ranks in the whole list, and
\* "Showing a - b" says the first and the last of them.
RanksContinue ==
  ResultsShown /\ ~ShowNoResult(result) =>
    /\ \A i \in 0..(result.size - 1) :
         SearchResultItemIndex(result.page, i) = result.start + i + 1
    /\ ShowingMin(result) = result.start + 1
    /\ ShowingMax(result) = result.start + result.size

\* The results, the facets, the pages and the url of the search page say the same,
\* however answers, delayed changes and navigation fall together.
SearchPageAgrees ==
  /\ SearchTypeOK /\ IdleShowsUrl /\ FacetsFollowTheUser /\ PageExists /\ SelectedCanBeCleared
  /\ EllipsesHidePages /\ RanksContinue
=============================================================================
