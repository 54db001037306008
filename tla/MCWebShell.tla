---------------------------- MODULE MCWebShell -----------------------------
(***************************************************************************)
(* Model checking of the shell of the web client and of the parts its      *)
(* pages share: browsing, the lists of entities, notifications, the        *)
(* session, looking up users, drop downs, charts and collections.  They    *)
(* are checked one at a time in one run: focus, which never changes, says  *)
(* which of them moves; the others stay as they are first.                 *)
(***************************************************************************)
EXTENDS Browse, EntityLists, Notifications, ClientSession, UserLookup, HoverDropdown,
        Charts, Collections

CONSTANT Focus                                  \* the components to check

VARIABLE focus

webVars == <<focus, browseVars, listVars, notifyVars, bannerVars, sessVars, lookupVars, dropdownVars, chartVars, collectionVars>>

\* Init predicates that leave a choice are narrowed where the component is not in focus.
WebInit ==
  /\ focus \in Focus
  /\ BrowseInit
  /\ ListsInit
  /\ NotifyInit /\ (focus # "notify" => banners = <<>>)
  /\ SessInit /\ (focus # "session" => isAuthenticated)
  /\ LookupInit
  /\ DropdownInit /\ (focus # "dropdown" => dropdownCode = "addon")
  /\ ChartsInit /\ (focus # "charts" => series = <<>> /\ elementWidth = 1 /\ score = 0 /\ maxScore = 50)
  /\ CollectionsInit

WebNext ==
  /\ UNCHANGED focus
  /\ \/ focus = "browse" /\ BrowseNext
        /\ UNCHANGED <<listVars, notifyVars, bannerVars, sessVars, lookupVars, dropdownVars, chartVars, collectionVars>>
     \/ focus = "lists" /\ ListsNext
        /\ UNCHANGED <<browseVars, notifyVars, bannerVars, sessVars, lookupVars, dropdownVars, chartVars, collectionVars>>
     \/ focus = "notify" /\ NotifyNext
        /\ UNCHANGED <<browseVars, listVars, sessVars, lookupVars, dropdownVars, chartVars, collectionVars>>
     \/ focus = "session" /\ SessNext
        /\ UNCHANGED <<browseVars, listVars, notifyVars, bannerVars, lookupVars, dropdownVars, chartVars, collectionVars>>
     \/ focus = "lookup" /\ LookupNext
        /\ UNCHANGED <<browseVars, listVars, notifyVars, bannerVars, sessVars, dropdownVars, chartVars, collectionVars>>
     \/ focus = "dropdown" /\ DropdownNext
        /\ UNCHANGED <<browseVars, listVars, notifyVars, bannerVars, sessVars, lookupVars, chartVars, collectionVars>>
     \/ focus = "charts" /\ ChartsNext
        /\ UNCHANGED <<browseVars, listVars, notifyVars, bannerVars, sessVars, lookupVars, dropdownVars, collectionVars>>
     \/ focus = "collections" /\ CollectionsNext
        /\ UNCHANGED <<browseVars, listVars, notifyVars, bannerVars, sessVars, lookupVars, dropdownVars, chartVars>>

\* What is scheduled for the next frame, and a task that waits for its timer, go on in the end.
WebSpec == WebInit /\ [][WebNext]_webVars /\ BrowseFairness /\ DropdownFairness

\* Browsing agrees with the url, and a category on the screen is rendered in the end.
BrowsingServes == []BrowsingAgrees /\ LoadingEnds

-----------------------------------------------------------------------------
\* Three levels of categories of datasets, people in one list.
MCPaths == {<<>>, <<"prod">>, <<"prod", "hive">>, <<"prod", "hive", "db">>}
MCKeys == ({"datasets"} \X MCPaths) \cup {<<"people", <<>>>>}
MCGroups == [k \in MCKeys |->
  IF k[1] = "people" THEN <<>>
  ELSE CASE Len(k[2]) = 0 -> <<"prod">> [] Len(k[2]) = 1 -> <<"hive">> [] Len(k[2]) = 2 -> <<"db">> [] OTHER -> <<>>]
MCElements == [k \in MCKeys |->
  IF k[1] = "people" THEN <<"u1", "u2", "u3">>
  ELSE CASE Len(k[2]) = 3 -> <<"t1">> [] Len(k[2]) = 2 -> <<"t2">> [] OTHER -> <<>>]

MCKindOf == [u \in ListUrns |-> IF u = "d1" THEN "datasets" ELSE "people"]

MCUserEntities == <<"ann", "amy", "abe", "bob">>
MCStartsWith == {<<"ann", "a">>, <<"amy", "a">>, <<"abe", "a">>, <<"bob", "b">>, <<"amy", "am">>}

MCApplyStep == [f \in Steps |-> [x \in Items |-> IF f = "next" THEN 1 - x ELSE 0]]

-----------------------------------------------------------------------------
\* What is drawn fits and agrees with what is written beside it, and what is
\* computed from a list is computed from all of it, in its order.
DrawnAndComputedWhole ==
  /\ ChartsTypeOK /\ BarsFit /\ BarsDoNotOverlap /\ GaugeAgrees
  /\ CollectionsTypeOK /\ TraversalIsWhole /\ PartitionIsWhole /\ PickAndOmit /\ PipeRunsInOrder
=============================================================================
