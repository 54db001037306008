---------------------------- MODULE ClientSession ----------------------------
(***************************************************************************)
(* The shell of the web client: it loads the configuration and the user of *)
(* a restored session before the first page, logs a user in, tells the     *)
(* analytics who that is, and follows the user from page to page to find   *)
(* out which results of a search were worth the click: those whose page    *)
(* the user leaves for another page, or returns from to the search only    *)
(* after a while.                                                          *)
(*                                                                         *)
(* An invalidated session reloads the application (Ember Simple Auth).     *)
(***************************************************************************)
EXTENDS Integers, FiniteSets

CONSTANTS
  Results,                    \* the urns of search results; also their pages
  SuccessfulDwellTimeLength,
  MaxTime, MaxClicks          \* bounds: the clock and the clicks in one load of the application

ASSUME SessionAssumption ==
  /\ {SuccessfulDwellTimeLength, MaxTime} \subseteq Nat \ {0} /\ MaxClicks \in Nat
  /\ Results \cap {"login", "browse", "search", "none"} = {}

Pages == {"browse", "search"} \cup Results

VARIABLES
  appPhase,            \* "beforeModel", "ready" or "failed"
  isAuthenticated,
  userTask,            \* the user of the session is being loaded
  currentUser,         \* loaded
  configLoaded,
  avatarOfUser,        \* the navigation bar shows the avatar of the user
  hasUserBeenTracked,
  identified,          \* history: how often the analytics were told the user
  authenticating, errorMessage, \* the login page
  page,
  now, startTime, clickedSearchResultUrn,
  clicks, satClicks,   \* history: clicks on results, and those found satisfying
  strayed              \* history: after the last click the user did not go to the page of the
                       \* result, or went back too soon

userVars == <<appPhase, isAuthenticated, userTask, currentUser, configLoaded, avatarOfUser,
              hasUserBeenTracked, identified, authenticating, errorMessage>>
dwellVars == <<now, startTime, clickedSearchResultUrn, clicks, satClicks, strayed>>
sessVars == <<userVars, page, dwellVars>>


SessInit ==
  /\ appPhase = "beforeModel" /\ isAuthenticated \in BOOLEAN /\ userTask = isAuthenticated
  /\ currentUser = FALSE /\ configLoaded = FALSE /\ avatarOfUser = FALSE
  /\ hasUserBeenTracked = FALSE /\ identified = 0
  /\ authenticating = FALSE /\ errorMessage = FALSE
  /\ page = "none" /\ now = 1 /\ startTime = 0 /\ clickedSearchResultUrn = "none"
  /\ clicks = 0 /\ satClicks = 0 /\ strayed = FALSE

SessTypeOK ==
  /\ appPhase \in {"beforeModel", "ready", "failed"}
  /\ {isAuthenticated, userTask, currentUser, configLoaded, avatarOfUser, hasUserBeenTracked,
      authenticating, errorMessage, strayed} \subseteq BOOLEAN
  /\ page \in Pages \cup {"login", "none"} /\ (page # "none" <=> appPhase = "ready")
  /\ appPhase = "ready" => configLoaded
  /\ now \in 1..MaxTime /\ startTime \in 0..now /\ clickedSearchResultUrn \in Results \cup {"none"}

(***************************************************************************)
(* Dwell time.                                                             *)
(***************************************************************************)

IsRouteEntityPageRoute(p) == p \in Results

IsSATClick(dwellTime, from, to) ==
  \/ to = "search" /\ dwellTime >= SuccessfulDwellTimeLength
  \/ to # "search" /\ IsRouteEntityPageRoute(from)

\* Mutant: the measurement goes on.
CountOn(from, to) ==
  /\ satClicks' = IF startTime # 0 /\ IsSATClick(now - startTime, from, to) THEN satClicks + 1 ELSE satClicks
  /\ UNCHANGED startTime

BeginTracking == startTime' = now
ResetDwellTimeTracking == startTime' = 0

\* Measuring ends only with a satisfying click.
Record(from, to) ==
  LET sat == startTime # 0 /\ IsSATClick(now - startTime, from, to)
  IN  /\ satClicks' = IF sat THEN satClicks + 1 ELSE satClicks
      /\ IF sat THEN ResetDwellTimeTracking ELSE UNCHANGED startTime

\* A page is left for another or, as in a search with other parameters, for itself.
RouteDidChange(to) ==
  /\ page' = to
  /\ Record(page, to)
  /\ strayed' = (strayed \/ /\ startTime # 0
                            /\ IF page = "search" THEN to # clickedSearchResultUrn ELSE startTime' # 0)
  /\ UNCHANGED <<now, clickedSearchResultUrn, clicks>>

DidClickSearchResult(u) ==
  /\ page = "search" /\ clicks < MaxClicks
  /\ BeginTracking /\ clickedSearchResultUrn' = u /\ clicks' = clicks + 1
  /\ strayed' = FALSE
  /\ UNCHANGED <<userVars, page, now, satClicks>>

Tick ==
  /\ page \in Pages /\ now < MaxTime /\ now' = now + 1
  /\ UNCHANGED <<userVars, page, startTime, clickedSearchResultUrn, clicks, satClicks, strayed>>

(***************************************************************************)
(* The session.                                                            *)
(***************************************************************************)

TrackCurrentUser(user) ==
  /\ hasUserBeenTracked' = (hasUserBeenTracked \/ user)
  /\ identified' = IF user /\ ~hasUserBeenTracked THEN identified + 1 ELSE identified

\* Everything of the application starts again, with a session or without.
Restart(session) ==
  /\ isAuthenticated' = session
  /\ appPhase' = "beforeModel" /\ userTask' = session /\ currentUser' = FALSE /\ configLoaded' = FALSE
  /\ avatarOfUser' = FALSE /\ hasUserBeenTracked' = FALSE /\ identified' = 0
  /\ authenticating' = FALSE /\ errorMessage' = FALSE /\ page' = "none"
  /\ now' = 1 /\ startTime' = 0 /\ clickedSearchResultUrn' = "none"
  /\ clicks' = 0 /\ satClicks' = 0 /\ strayed' = FALSE

InvalidateSession == Restart(FALSE)

\* The user reloads the page; the stored session is restored.
Reload == appPhase # "beforeModel" /\ Restart(isAuthenticated)

Load(ok) ==
  /\ userTask
  /\ IF ok
     THEN /\ userTask' = FALSE /\ currentUser' = TRUE
          /\ UNCHANGED <<appPhase, isAuthenticated, configLoaded, avatarOfUser, hasUserBeenTracked,
                         identified, authenticating, errorMessage, page, dwellVars>>
     ELSE InvalidateSession

LoadConfig(ok) ==
  /\ appPhase = "beforeModel" /\ ~configLoaded
  /\ configLoaded' = ok
  /\ appPhase' = IF ok THEN appPhase ELSE "failed"
  /\ UNCHANGED <<isAuthenticated, userTask, currentUser, avatarOfUser, hasUserBeenTracked, identified,
                 authenticating, errorMessage, page, dwellVars>>

\* The application route has what it needs: its model is made once, the user is
\* tracked, and the first page is a page or, without a session, the login.
AfterModel ==
  /\ appPhase = "beforeModel" /\ configLoaded /\ ~userTask
  /\ appPhase' = "ready"
  /\ avatarOfUser' = currentUser
  /\ TrackCurrentUser(currentUser)
  /\ page' \in IF isAuthenticated THEN Pages ELSE {"login"}
  /\ UNCHANGED <<isAuthenticated, userTask, currentUser, configLoaded, authenticating, errorMessage, dwellVars>>

AuthenticateUser ==
  /\ page = "login" /\ ~authenticating
  /\ authenticating' = TRUE
  /\ UNCHANGED <<appPhase, isAuthenticated, userTask, currentUser, configLoaded, avatarOfUser,
                 hasUserBeenTracked, identified, errorMessage, page, dwellVars>>

BadCredentials ==
  /\ authenticating /\ authenticating' = FALSE /\ errorMessage' = TRUE
  /\ UNCHANGED <<appPhase, isAuthenticated, userTask, currentUser, configLoaded, avatarOfUser,
                 hasUserBeenTracked, identified, page, dwellVars>>

\* The transition to the index page starts before the user is loaded.
SessionAuthenticated ==
  /\ authenticating /\ authenticating' = FALSE
  /\ isAuthenticated' = TRUE /\ userTask' = TRUE
  /\ TrackCurrentUser(currentUser)
  /\ RouteDidChange("browse")
  /\ UNCHANGED <<appPhase, currentUser, configLoaded, avatarOfUser, errorMessage>>

Visit(to) ==
  /\ page \in Pages
  /\ to = page => to = "search"
  /\ RouteDidChange(to)
  /\ UNCHANGED userVars

\* The index page tracks the user and is replaced by the page to browse.
VisitIndex ==
  /\ page \in Pages
  /\ TrackCurrentUser(currentUser)
  /\ RouteDidChange("browse")
  /\ UNCHANGED <<appPhase, isAuthenticated, userTask, currentUser, configLoaded, avatarOfUser,
                 authenticating, errorMessage>>

Logout == page \in Pages /\ InvalidateSession

SessNext ==
  \/ \E ok \in BOOLEAN : Load(ok) \/ LoadConfig(ok)
  \/ AfterModel
  \/ AuthenticateUser \/ BadCredentials \/ SessionAuthenticated
  \/ \E to \in Pages : Visit(to)
  \/ VisitIndex \/ Logout \/ Reload
  \/ \E u \in Results : DidClickSearchResult(u)
  \/ Tick

SessSpec == SessInit /\ [][SessNext]_sessVars

-----------------------------------------------------------------------------
\* The analytics are told the user at most once in a load of the application,
\* from wherever, and only a user who is loaded.
IdentifiedOnce == identified <= 1 /\ (identified = 1 => currentUser)

\* A click is found satisfying at most once, however the user moves on.
SatisfiedOncePerClick == satClicks <= clicks

\* What is found satisfying is the result the user leaves, as long as the user
\* went there after the click and did not come back too soon.
SatisfiedByResult ==
  [][satClicks' > satClicks /\ ~strayed' => page = clickedSearchResultUrn]_<<satClicks, page>>

\* The analytics know the user once, and count a click as satisfying once and for
\* its own result.
SessionIsTracked ==
  /\ [](SessTypeOK /\ IdentifiedOnce /\ SatisfiedOncePerClick)
  /\ SatisfiedByResult
=============================================================================
