---------------------------- MODULE MCWebSearch ----------------------------
(***************************************************************************)
(* Model checking of the components of the web client that search: the     *)
(* search page, the search box and its key, analytics and the fetcher,     *)
(* one at a time in one run: focus, which never changes, says              *)
(* which of them moves.                                                    *)
(***************************************************************************)
EXTENDS SearchPage, SearchBox, HotKeys, Analytics, Fetcher

CONSTANTS
  Focus,                                        \* the components to check
  k1, k2,                                       \* keywords
  datasets, people, noEntity,                   \* entities of the drop down
  empty, abc, xabc, bad                         \* texts of the search box

VARIABLE focus

webVars == <<focus, searchVars, boxVars, keyVars, analyticsVars, fetchVars>>

WebInit ==
  /\ focus \in Focus
  /\ SearchInit /\ BoxInit /\ KeysInit /\ AnalyticsInit /\ FetchInit

WebNext ==
  /\ UNCHANGED focus
  /\ \/ focus = "page" /\ SearchNext /\ UNCHANGED <<boxVars, keyVars, analyticsVars, fetchVars>>
     \/ focus = "box" /\ BoxNext /\ UNCHANGED <<searchVars, keyVars, analyticsVars, fetchVars>>
     \/ focus = "keys" /\ KeysNext /\ UNCHANGED <<searchVars, boxVars, analyticsVars, fetchVars>>
     \/ focus = "analytics" /\ AnalyticsNext /\ UNCHANGED <<searchVars, boxVars, keyVars, fetchVars>>
     \/ focus = "fetch" /\ FetchNext /\ UNCHANGED <<searchVars, boxVars, keyVars, analyticsVars>>

WebSpec == WebInit /\ [][WebNext]_webVars

-----------------------------------------------------------------------------
platformHive == <<"platform", "hive">>
originProd == <<"origin", "prod">>

MCKeywords == {k1, k2}
MCOptions == {platformHive, originProd}
\* Nine entities match k1, two match k2, three of them are in Hive and none in production.
MCHits == [q \in MCKeywords \X SUBSET MCOptions |->
             CASE q[2] = {} -> IF q[1] = k1 THEN 9 ELSE 2
               [] q[2] = {platformHive} -> 3
               [] OTHER -> 0]
MCBuckets == [k \in MCKeywords |-> {platformHive} \cup (IF k = k1 THEN {originProd} ELSE {})]

\* abc may become the name of a facet or an entity, xabc the value of a facet, bad is no query.
MCWanted == (empty :> {"FacetName", "EntityName"}) @@ (abc :> {"FacetName", "EntityName"})
            @@ (xabc :> {"FacetValue"}) @@ (bad :> {})
MCWordLength == (empty :> 0) @@ (abc :> 3) @@ (xabc :> 3) @@ (bad :> 1)
MCCacheKey == (empty :> 1) @@ (abc :> 2) @@ (xabc :> 3) @@ (bad :> 4)

RouteOf(name, attribute) == [name |-> name, attribute |-> attribute]
MCRoutes == {RouteOf("browse.entity", "people"), RouteOf("search", "none"),
             RouteOf("browsesearch.entity", "none"), RouteOf("datasets.dataset.tab", "none")}
MCServerConfigs == {("tracking" :> "enabled"), ("tracking" :> "disabled"),
                    ("tracking" :> "enabled") @@ ("isStagingBanner" :> "TRUE"), ("isStagingBanner" :> "FALSE")}
MCUiEvents == {[category |-> "search", action |-> a, name |-> ""] : a \in {"click", ""}}
MCResultLists == {<<>>, <<"r1", "r2">>}

\* A plus is a space in a url, a percent sign that ends a text cannot be decoded, and what comes
\* after an ampersand is another parameter.
MCDecodeText == [t \in FetchTexts |-> CASE t = "a+b" -> "a b" [] t = "a%" -> "malformed" [] t = "a%26b" -> "a&b" [] OTHER -> t]
MCEncodeText == [t \in FetchTexts |-> IF t = "a&b" THEN "a%26b" ELSE t]
MCServerText == [t \in FetchTexts |-> CASE t = "a+b" -> "a b" [] t = "a&b" -> "a" [] t = "a%26b" -> "a&b" [] OTHER -> t]
=============================================================================
