----------------------------- MODULE WebDataset -----------------------------
(***************************************************************************)
(* The components of the web client that show and edit a dataset, side by  *)
(* side.  They share only the page's dataset; one at a time moves: focus,  *)
(* which never changes, says which, the others stay as they are first.     *)
(* The header of a dataset shares only the page's dataset with the owners, *)
(* so its reads are late where nothing is edited ("header"), and are       *)
(* answered at once where owners are edited ("owners").                    *)
(***************************************************************************)
EXTENDS DatasetOwners, DatasetPage, Lineage, Deprecation, WikiLinks, DatasetUrns

CONSTANTS
  Focus                                         \* the components that may move

VARIABLE focus

webVars == <<focus, ownVars, pageVars, lineageVars, deprVars, wikiVars, urnVars>>

\* Init predicates that leave a choice are narrowed where the component is not in focus.
WebInit ==
  /\ focus \in Focus
  /\ OwnInit /\ ownUrn = (CHOOSE u \in Urns : u \notin Inherited)
  /\ PageInit /\ (focus # "page" => container = "schema")
  /\ LineageInit /\ (focus # "lineage" => lineage = (CHOOSE l \in Lineages : TRUE) /\ graphOf = (CHOOSE u \in LineageUris : TRUE))
  /\ DeprInit /\ (focus # "deprecation" => deprUrn = (CHOOSE u \in DeprUrns : TRUE))
  /\ WikiInit /\ (focus # "wiki" => wikiUrn = (CHOOSE u \in WikiUrns : TRUE))
  /\ UrnsInit /\ (focus # "urns" => fabUrn = (CHOOSE u \in FabUrns : TRUE))

\* The dataset of the page and everything that reads its owners, without an edit.
HeaderNext ==
  \/ \E u \in Urns : OpenDataset(u)
  \/ RetryReads \/ GetHeaderOwners \/ \E ok \in BOOLEAN : GetUserEntities(ok)
  \/ \E i \in DOMAIN reads : GetDatasetOwners(i) \/ GetSuggestedOwners(i) \/ ReadFails(i)

HeaderAtOnce == headerTask # {} => headerTask' = {}

WebNext ==
  /\ UNCHANGED focus
  /\ \/ focus = "header" /\ HeaderNext /\ UNCHANGED <<pageVars, lineageVars, deprVars, wikiVars, urnVars>>
     \/ focus = "owners" /\ OwnNext /\ HeaderAtOnce
          /\ UNCHANGED <<pageVars, lineageVars, deprVars, wikiVars, urnVars>>
     \/ focus = "page" /\ PageNext /\ UNCHANGED <<ownVars, lineageVars, deprVars, wikiVars, urnVars>>
     \/ focus = "lineage" /\ LineageNext /\ UNCHANGED <<ownVars, pageVars, deprVars, wikiVars, urnVars>>
     \/ focus = "deprecation" /\ DeprNext /\ UNCHANGED <<ownVars, pageVars, lineageVars, wikiVars, urnVars>>
     \/ focus = "wiki" /\ WikiNext /\ UNCHANGED <<ownVars, pageVars, lineageVars, deprVars, urnVars>>
     \/ focus = "urns" /\ UrnsNext /\ UNCHANGED <<ownVars, pageVars, lineageVars, deprVars, wikiVars>>

WebSpec == WebInit /\ [][WebNext]_webVars

\* What the user says of a dataset in a form, its deprecation and its links, is said of that
\* dataset and stays, across edits, late reads, writes and page changes.
EditsStayWithDataset == []FormIsOfDataset /\ LinksStayWithDataset
=============================================================================
