----------------------------- MODULE Analytics -----------------------------
(***************************************************************************)
(* What the web client tells the analytics: the configuration of the       *)
(* server switches it on, route changes become page views, answered        *)
(* searches become site searches and, after the page has rendered them,    *)
(* impressions of their results, and actions of the user become events.    *)
(***************************************************************************)
EXTENDS Lists, SequencesExt

CONSTANTS
  Routes,          \* routes: [name, attribute]; the attribute is "none" or the entity or tab of the route
  HaveSearch,      \* route names and titles in which the word search occurs
  ServerConfigs,   \* answers of the configuration endpoint: functions of keys
  FlagKeys,        \* keys that are read with a default: the banners
  UiEvents,        \* [category, action, name]: "" if not given
  ResultLists,     \* lists of results
  MaxSent          \* bound: activities sent, visits and searches

ASSUME AnalyticsAssumption ==
  /\ MaxSent \in Nat
  /\ \A c \in ServerConfigs : \A k \in FlagKeys \cap DOMAIN c : c[k] \in {"TRUE", "FALSE"}

SearchRoute == "search"

VARIABLES
  appConfig,       \* what was loaded
  configState,     \* "none", "loaded" or "failed"
  trackersOn,      \* the adapters that are active
  sent,            \* activities that reached the analytics
  toRender,        \* impressions scheduled after the next render
  resultsShown,    \* results on the page
  visited, handled \* history: the routes visited, and the events whose action was handled

analyticsVars == <<appConfig, configState, trackersOn, sent, toRender, resultsShown, visited, handled>>

AnalyticsInit ==
  /\ appConfig = << >> /\ configState = "none" /\ trackersOn = {} /\ sent = <<>>
  /\ toRender = 0 /\ resultsShown = <<>> /\ visited = <<>> /\ handled = <<>>

-----------------------------------------------------------------------------
(* The configuration.                                                        *)

\* A key that is not there and has no default is answered with all of the configuration.
GetConfig(config, key, useDefault, default) ==
  IF key \in DOMAIN config THEN config[key]
  ELSE IF useDefault THEN default ELSE "all of the configuration"

IsTracked(config) == GetConfig(config, "tracking", FALSE, "none") = "enabled"

SetupTrackers(isEnabled) == IF isEnabled THEN {"Piwik"} ELSE {}

\* The application loads its configuration once, before its first route, and sets up the trackers.
LoadAppConfig(config) ==
  /\ configState = "none" /\ configState' = "loaded" /\ appConfig' = config
  /\ trackersOn' = SetupTrackers(IsTracked(config))
  /\ UNCHANGED <<sent, toRender, resultsShown, visited, handled>>

LoadAppConfigFails ==
  /\ configState = "none" /\ configState' = "failed"
  /\ UNCHANGED <<appConfig, trackersOn, sent, toRender, resultsShown, visited, handled>>

-----------------------------------------------------------------------------
(* Activities.  Without an adapter there is no queue of Piwik: an activity    *)
(* goes to a list nobody reads.                                               *)

Push(activities) == sent' = IF trackersOn = {} THEN sent ELSE sent \o activities

\* A route whose placeholder can be resolved is named after what it shows.
ResolveDynamicRouteName(r) ==
  CASE r.name \in {"browse.entity", "browse.entity.index"} /\ r.attribute # "none" -> <<"browse", r.attribute>>
    [] r.name = "datasets.dataset.tab" /\ r.attribute # "none" -> <<"datasets", r.attribute>>
    [] OTHER -> <<r.name>>

IsSearchRoute(r) == (\E t \in ToSet(ResolveDynamicRouteName(r)) : t \in HaveSearch) \/ r.name = SearchRoute

TrackPageView(r) ==
  Push((IF IsSearchRoute(r) THEN <<>> ELSE <<<<"page", ResolveDynamicRouteName(r)>>>>) \o <<<<"heartbeat">>>>)

VisitRoute(r) ==
  /\ configState = "loaded" /\ Len(visited) < MaxSent
  /\ visited' = Append(visited, r) /\ TrackPageView(r)
  /\ resultsShown' = <<>>
  /\ UNCHANGED <<appConfig, configState, trackersOn, toRender, handled>>

\* Each answer schedules its own impressions: scheduleOnce is given a function that is new each time.
TrackContentImpressions == toRender' = toRender + 1
TrackSiteSearch(count) == Push(<<<<"search", count>>>>)

\* Mutant: the impressions are sent before the results are rendered.
AnswerWithImpressions(results) ==
  /\ visited # <<>> /\ Last(visited).name = SearchRoute /\ Len(sent) < MaxSent
  /\ resultsShown' = results
  /\ Push(<<<<"impressions", {}>>, <<"search", Len(results)>>>>) /\ UNCHANGED toRender
  /\ UNCHANGED <<appConfig, configState, trackersOn, visited, handled>>

\* Only the search page collects telemetry; searches below a category do not.
SearchAnswered(results) ==
  /\ visited # <<>> /\ Last(visited).name = SearchRoute /\ Len(sent) < MaxSent /\ toRender < MaxSent
  /\ resultsShown' = results
  /\ TrackContentImpressions /\ TrackSiteSearch(Len(results))
  /\ UNCHANGED <<appConfig, configState, trackersOn, visited, handled>>

\* The blocks of content on the page: the title of each result is one.
BlocksOf(results) == {<<i, results[i]>> : i \in DOMAIN results}
ContentBlocks == BlocksOf(resultsShown)

AfterRender ==
  /\ toRender > 0 /\ toRender' = toRender - 1
  /\ Push(<<<<"impressions", ContentBlocks>>>>)
  /\ UNCHANGED <<appConfig, configState, trackersOn, resultsShown, visited, handled>>

\* An event needs a category and an action; a name that is empty is left out.
TrackEvent(e) == IF e.category # "" /\ e.action # "" THEN Push(<<<<"event", e>>>>) ELSE UNCHANGED sent

\* The action of the nested component comes first; if it throws nothing is tracked.
TrackOnAction(e, fails) ==
  /\ visited # <<>> /\ Len(sent) < MaxSent /\ Len(handled) < MaxSent
  /\ ~fails /\ handled' = Append(handled, e) /\ TrackEvent(e)
  /\ UNCHANGED <<appConfig, configState, trackersOn, toRender, resultsShown, visited>>

AnalyticsNext ==
  \/ \E c \in ServerConfigs : LoadAppConfig(c)
  \/ LoadAppConfigFails
  \/ \E r \in Routes : VisitRoute(r)
  \/ \E l \in ResultLists : SearchAnswered(l)
  \/ AfterRender
  \/ \E e \in UiEvents, fails \in BOOLEAN : TrackOnAction(e, fails)

AnalyticsSpec == AnalyticsInit /\ [][AnalyticsNext]_analyticsVars

-----------------------------------------------------------------------------
OfKind(list, kind) == Only(list, {a \in ToSet(list) : a[1] = kind})
SentOf(kind) == OfKind(sent, kind)

AnalyticsTypeOK ==
  /\ configState \in {"none", "loaded", "failed"} /\ (configState # "loaded" => appConfig = << >>)
  /\ trackersOn \subseteq {"Piwik"} /\ toRender \in 0..MaxSent
  /\ ToSet(visited) \subseteq Routes /\ ToSet(handled) \subseteq UiEvents
  /\ \A i \in DOMAIN sent : sent[i][1] \in {"page", "heartbeat", "search", "impressions", "event"}

\* Nothing is sent unless the server has enabled tracking, and a flag of a banner is a flag
\* even if the server does not send it.
OnlyWhatIsEnabled ==
  /\ sent # <<>> => configState = "loaded" /\ IsTracked(appConfig)
  /\ configState = "loaded" => \A k \in FlagKeys : GetConfig(appConfig, k, TRUE, "FALSE") \in {"TRUE", "FALSE"}

\* A page is tracked once for each visit, and a visit to the search page is tracked by its searches only.
\* (The pages whose name has search in it are left out here.)
PagesOrSearches ==
  LET pages == Only(visited, {r \in Routes : ~IsSearchRoute(r)}) IN
  trackersOn # {} =>
    /\ SentOf("page") = [i \in 1..Len(pages) |-> <<"page", ResolveDynamicRouteName(pages[i])>>]
    /\ \A r \in Routes : r.name = SearchRoute => <<"page", ResolveDynamicRouteName(r)>> \notin ToSet(sent)

\* Impressions come after the search whose results they are of, one for each, and name results
\* of a list that was found.
ImpressionsFollowSearch ==
  /\ \A n \in 1..Len(sent) :
       LET first == SubSeq(sent, 1, n) IN Len(OfKind(first, "impressions")) <= Len(OfKind(first, "search"))
  /\ trackersOn # {} => Len(SentOf("impressions")) + toRender = Len(SentOf("search"))
  /\ \A i \in 1..Len(sent) : sent[i][1] = "impressions" =>
       \E l \in ResultLists \cup {<<>>} : sent[i][2] = BlocksOf(l)

\* An event is sent once for each time its action was handled.
EventsAreHandled ==
  LET whole == Only(handled, {e \in UiEvents : e.category # "" /\ e.action # ""}) IN
  trackersOn # {} => SentOf("event") = [i \in 1..Len(whole) |-> <<"event", whole[i]>>]

\* What the trackers hear happened, in that order, once, and only if it is wanted.
AnalyticsAreTrue ==
  /\ AnalyticsTypeOK /\ OnlyWhatIsEnabled /\ PagesOrSearches /\ ImpressionsFollowSearch
  /\ EventsAreHandled
=============================================================================
