--------------------------- MODULE MCWebDataset ----------------------------
(***************************************************************************)
(* Model checking of the components of the web client that show and edit   *)
(* a dataset: the datasets, owners, relations, links and urns.             *)
(***************************************************************************)
EXTENDS WebDataset, TLC

CONSTANTS
  da, db,                                       \* datasets with owners
  ann, bob                                      \* their owners

MCInitialOwners == (da :> <<[userName |-> bob, source |-> "DB", type |-> "Consumer", confirmed |-> FALSE]>>) @@ (db :> <<>>)

MCUrnKind == [u \in PageDatasets |-> CASE u = "x" -> "other" [] u = "b" -> "wh" [] OTHER -> "li"]
MCRelationships ==
  [k \in {"upstreams", "downstreams"} \X PageDatasets |->
     CASE k = <<"upstreams", "a">> -> <<"t1", "t2", "t2">> [] k[2] = "b" -> <<"t1">> [] OTHER -> <<>>]

\* A fork, a line with a short cut, a cycle, and a dataset that feeds itself.
MCLineages == {{<<"b", "a">>, <<"c", "a">>},
               {<<"b", "a">>, <<"c", "b">>, <<"c", "a">>},
               {<<"b", "a">>, <<"c", "b">>, <<"a", "c">>},
               {<<"b", "a">>, <<"b", "b">>, <<"c", "b">>}}

MCStoredAtFirst == ("a" :> [deprecated |-> TRUE, deprecationNote |-> "old", decommissionTime |-> "d1"])
                   @@ ("b" :> [deprecated |-> FALSE, deprecationNote |-> "", decommissionTime |-> "null"])
MCWikiAtFirst == ("a" :> <<[url |-> "l1", of |-> "a", stamped |-> TRUE]>>) @@ ("b" :> <<>>)

\* Dataset names of a platform with slashes and of one with dots.
MCDatasetNames == ("hdfs" :> {<<"/", "a", "/", "b">>, <<"/", "a", "/", "c", "/", "d">>, <<"/", "e">>})
                  @@ ("hive" :> {<<"a", ".", "b">>, <<"c">>})
MCDelimiters == ("hdfs" :> "/")
MCLowerCase == [p \in {"hdfs", "HDFS", "hive"} |-> IF p = "HDFS" THEN "hdfs" ELSE p]
MCUpperCase == [f \in {"PROD", "prod", "EI", "bad"} |-> IF f = "prod" THEN "PROD" ELSE f]
UrnOf(kind, platform, path, fabric) == [kind |-> kind, platform |-> platform, path |-> path, fabric |-> fabric]
MCFabUrns == {UrnOf("li", "hdfs", <<"/", "a">>, "PROD"), UrnOf("li", "hive", <<"a", ".", "b">>, "prod"),
              UrnOf("li", "hive", <<"a", "/", "b">>, "EI"), UrnOf("li", "HDFS", <<>>, "bad"),
              UrnOf("wh", "hive", <<"a", "/", "b">>, "none"), UrnOf("other", "none", <<>>, "none")}
MCOrigins == [u \in MCFabUrns |-> CASE u.fabric = "PROD" -> <<"PROD", "EI">> [] u.fabric = "prod" -> <<"PROD">> [] OTHER -> <<>>]
=============================================================================
