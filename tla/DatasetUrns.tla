---------------------------- MODULE DatasetUrns ----------------------------
(***************************************************************************)
(* Urns of datasets in the web client: what they are taken apart into and  *)
(* built from, the fabrics of a dataset (a container that reads them and a *)
(* switcher that links to the dataset in each), and the categories in      *)
(* which datasets are browsed by platform and prefix.                      *)
(*                                                                         *)
(* A text is a sequence of tokens: names and the delimiters "/" and ".".   *)
(***************************************************************************)
EXTENDS Integers, Sequences, SequencesExt, FiniteSets, Lists

CONSTANTS
  LowerCase, UpperCase,  \* case conversions of the platforms and fabrics that occur
  Delimiters,            \* the delimiter of each platform the server lists
  DatasetNames,          \* per platform, the names of its datasets: texts
  FabUrns,               \* urns the container may be given
  Origins,               \* per urn, the fabrics its dataset is in: a sequence
  MaxFabReads            \* bound: reads in flight

VARIABLES
  fabUrn,        \* the urn the container was given
  fabrics,       \* its list of fabrics
  fabReads,      \* the urns being read, a sequence: nothing restarts the task
  fabFailed,     \* a read failed or ended out of order: what is shown may be another dataset's
  fabLinks,      \* fabricUrns of the switcher; it is computed when the switcher is rendered
  fabOver,       \* the pointer is over the switcher or its options
  isExpandedFab, fabricsOpen,
  fabHides,      \* hideFabricsTask instances that wait, 2 if there are more than one
  segmentsShown  \* categories page: the segments of the route

fabricVars == <<fabUrn, fabrics, fabReads, fabFailed, fabLinks, fabOver, isExpandedFab, fabricsOpen, fabHides>>
urnVars == <<fabUrn, fabrics, fabReads, fabFailed, fabLinks, fabOver, isExpandedFab, fabricsOpen, fabHides, segmentsShown>>

PlatformsWithSlash == {"hdfs", "seas-hdfs", "seas-deployed"}
FabricTypes == {"DEV", "EI", "PROD", "CORP", "LIT", "PRIME", "MANDA", "AZURECONTROL", "AZUREPROD", "AZUREEI"}

-----------------------------------------------------------------------------
(* Urns: [kind |-> "li", platform, path, fabric], [kind |-> "wh", platform,   *)
(* path], or of another kind.                                                 *)

IsWhUrn(u) == u.kind = "wh" /\ u.path # <<>>
IsLiUrn(u) == u.kind = "li"
IsUrn(u) == IsLiUrn(u) \/ IsWhUrn(u)
IsDatasetFabric(f) == UpperCase[f] \in FabricTypes

\* An empty path and a fabric that is not one are undefined.
GetDatasetUrnParts(u) ==
  IF ~IsLiUrn(u) THEN [platform |-> "undefined", prefix |-> <<>>, fabric |-> "undefined"]
  ELSE [platform |-> LowerCase[u.platform], prefix |-> u.path,
        fabric |-> IF IsDatasetFabric(u.fabric) THEN UpperCase[u.fabric] ELSE "undefined"]

ConvertWhDatasetPathToLiPath(platform, path) ==
  IF LowerCase[platform] \in PlatformsWithSlash
  THEN IF path # <<>> /\ Head(path) = "/" THEN path ELSE <<"/">> \o path
  ELSE [i \in DOMAIN path |-> IF path[i] = "/" THEN "." ELSE path[i]]

BuildDatasetLiUrn(platform, path, fabric) ==
  [kind |-> "li", platform |-> platform, path |-> ConvertWhDatasetPathToLiPath(platform, path), fabric |-> fabric]

ConvertWhUrnToLiUrn(u) == BuildDatasetLiUrn(u.platform, u.path, "PROD")

\* The urns the server gives out: its names start with a slash on some platforms and have none on the others.
IsCanonical(u) ==
  /\ IsLiUrn(u) /\ u.path # <<>>
  /\ u.path = ConvertWhDatasetPathToLiPath(u.platform, u.path)

-----------------------------------------------------------------------------
(* Categories of the datasets, when the platforms endpoint is browsed.       *)

GetDelimiter(category) == IF category \in DOMAIN Delimiters THEN Delimiters[category] ELSE "."

\* Each segment with the delimiter after it.
Delimited(segments, d) == [i \in 1..2 * Len(segments) |-> IF i % 2 = 1 THEN segments[(i + 1) \div 2] ELSE d]
Leading(d) == IF d = "/" THEN <<"/">> ELSE <<>>

GetPrefix(category, segments) ==
  LET d == GetDelimiter(category) IN
  IF segments = <<>> THEN <<>> ELSE Leading(d) \o Delimited(segments, d)

\* split of a text at a delimiter, its empty parts filtered out.
SplitAt(text, d) == Only(text, ToSet(text) \ {d})

\* A name as the server gives it out: its parts, joined by the delimiter of its platform, in
\* the form that the urn builder leaves as it is.
IsNameOf(platform, name) ==
  LET d == GetDelimiter(platform)  parts == SplitAt(name, d) IN
  /\ name \in Seq(STRING) /\ parts \in Seq(STRING \ {"/", "."}) /\ parts # <<>>
  /\ name = Append(Leading(d) \o Delimited(Front(parts), d), Last(parts))
  /\ ConvertWhDatasetPathToLiPath(platform, name) = name

ASSUME UrnsAssumption ==
  /\ MaxFabReads \in Nat \ {0}
  /\ \A u \in FabUrns : /\ u.path \in Seq(STRING)
                        /\ Origins[u] \in Seq({f \in FabricTypes \cap DOMAIN UpperCase : UpperCase[f] = f})
  /\ \A p \in DOMAIN Delimiters : Delimiters[p] \in {"/", "."}
  /\ DOMAIN DatasetNames # {}
  /\ \A p \in DOMAIN DatasetNames : DatasetNames[p] # {} /\ \A name \in DatasetNames[p] : IsNameOf(p, name)

\* The platforms endpoint: platforms, or what follows the prefix up to a delimiter.
UpToDelimiter(text, n, d) ==
  LET ends == {i \in n + 1..Len(text) : text[i] = d /\ i > 1} IN
  IF ends = {} THEN text ELSE SubSeq(text, 1, CHOOSE i \in ends : \A j \in ends : i <= j)
ReadPlatforms(category, prefix) ==
  {UpToDelimiter(name, Len(prefix), GetDelimiter(category)) :
     name \in {t \in DatasetNames[category] : Len(t) > Len(prefix) /\ SubSeq(t, 1, Len(prefix)) = prefix}}

IsDatasetSegment(node) == Last(node) \in {".", "/"}
IsDatasetIdentifier(node) == ~IsDatasetSegment(node)
GetDisplayName(node, d) == Last(SplitAt(node, d))

\* The categories and the datasets below a list of segments: the first is the platform.
ReadDatasetCategories(segments) ==
  IF segments = <<>> THEN [groups |-> {<<p>> : p \in DOMAIN DatasetNames}, entities |-> {}]
  ELSE LET category == Head(segments)
           nodes == ReadPlatforms(category, GetPrefix(category, Tail(segments)))
       IN  [groups |-> {<<category>> \o SplitAt(node, GetDelimiter(category)) : node \in {m \in nodes : IsDatasetSegment(m)}},
            entities |-> {BuildDatasetLiUrn(category, node, "PROD") : node \in {m \in nodes : IsDatasetIdentifier(m)}}]

OpenCategory == \E s \in ReadDatasetCategories(segmentsShown).groups : segmentsShown' = s /\ UNCHANGED fabricVars
LeaveCategory == segmentsShown # <<>> /\ segmentsShown' = Front(segmentsShown) /\ UNCHANGED fabricVars

-----------------------------------------------------------------------------
(* The fabrics of a dataset.                                                 *)

FabricUrns(u, list) ==
  IF IsLiUrn(u) THEN [i \in DOMAIN list |-> [fabric |-> list[i], urn |-> BuildDatasetLiUrn(u.platform, u.path, list[i])]] ELSE <<>>

\* While a fabric read runs an animation stands in for the switcher.
SwitcherShown == fabReads = <<>>
CloseSwitcher == isExpandedFab' = FALSE /\ fabricsOpen' = FALSE /\ fabHides' = 0 /\ fabOver' = FALSE

\* The task reads nothing if the urn is of another format.
GetFabrics(u) ==
  IF IsLiUrn(u)
  THEN /\ Len(fabReads) < MaxFabReads
       /\ fabReads' = Append(fabReads, u) /\ fabLinks' = <<>> /\ CloseSwitcher
       /\ fabFailed' = (IF fabReads = <<>> THEN FALSE ELSE fabFailed)
  ELSE fabFailed' = TRUE /\ UNCHANGED <<fabReads, fabLinks, isExpandedFab, fabricsOpen, fabHides, fabOver>>

UrnsInit ==
  /\ fabUrn \in FabUrns
  /\ fabrics = <<>> /\ fabReads = (IF IsLiUrn(fabUrn) THEN <<fabUrn>> ELSE <<>>) /\ fabFailed = ~IsLiUrn(fabUrn)
  /\ fabLinks = <<>> /\ fabOver = FALSE /\ isExpandedFab = FALSE /\ fabricsOpen = FALSE /\ fabHides = 0
  /\ segmentsShown = <<>>

VisitFabUrn(u) == u # fabUrn /\ fabUrn' = u /\ GetFabrics(u) /\ UNCHANGED <<fabrics, segmentsShown>>

\* Mutant: the fabrics of a dataset join those of the one before.
AddFabrics(answer) == fabrics \o answer

SetFabrics(answer) == answer

\* The answer that comes last stays, be it of the read that was started last or not.
FabReadEnds(i) ==
  /\ \/ fabrics' = SetFabrics(Origins[fabReads[i]]) /\ fabFailed' = (fabFailed \/ i > 1)
     \/ UNCHANGED fabrics /\ fabFailed' = TRUE
  /\ fabReads' = RemoveAt(fabReads, i)
  /\ fabLinks' = (IF Len(fabReads) = 1 THEN FabricUrns(fabUrn, fabrics') ELSE fabLinks)
  /\ UNCHANGED <<fabUrn, fabOver, isExpandedFab, fabricsOpen, fabHides, segmentsShown>>

\* The pointer enters: the last hide is cancelled.
ShowFabrics ==
  /\ SwitcherShown /\ ~fabOver /\ fabOver' = TRUE
  /\ fabHides' = (IF fabHides > 0 THEN fabHides - 1 ELSE 0)
  /\ isExpandedFab' = TRUE /\ fabricsOpen' = TRUE
  /\ UNCHANGED <<fabUrn, fabrics, fabReads, fabFailed, fabLinks, segmentsShown>>

\* It leaves: the options go away after 200 ms.
HideFabrics ==
  /\ SwitcherShown /\ fabOver /\ fabOver' = FALSE
  /\ fabHides' = (IF fabHides < 2 THEN fabHides + 1 ELSE 2) /\ isExpandedFab' = FALSE
  /\ UNCHANGED <<fabUrn, fabrics, fabReads, fabFailed, fabLinks, fabricsOpen, segmentsShown>>

HideFabricsEnds ==
  /\ fabHides > 0 /\ fabHides' = fabHides - 1 /\ fabricsOpen' = FALSE
  /\ UNCHANGED <<fabUrn, fabrics, fabReads, fabFailed, fabLinks, fabOver, isExpandedFab, segmentsShown>>

UrnsNext ==
  \/ \E u \in FabUrns : VisitFabUrn(u)
  \/ \E i \in DOMAIN fabReads : FabReadEnds(i)
  \/ ShowFabrics \/ HideFabrics \/ HideFabricsEnds
  \/ OpenCategory \/ LeaveCategory

UrnsSpec == UrnsInit /\ [][UrnsNext]_urnVars

-----------------------------------------------------------------------------
UrnsTypeOK ==
  /\ fabUrn \in FabUrns /\ ToSet(fabrics) \subseteq FabricTypes /\ Len(fabReads) <= MaxFabReads
  /\ ToSet(fabReads) \subseteq FabUrns /\ fabHides \in 0..2
  /\ {fabFailed, fabOver, isExpandedFab, fabricsOpen} \subseteq BOOLEAN
  /\ \A i \in DOMAIN fabLinks : IsLiUrn(fabLinks[i].urn) /\ IsDatasetFabric(fabLinks[i].fabric)
  /\ segmentsShown # <<>> => Head(segmentsShown) \in DOMAIN DatasetNames

\* Each fabric of a dataset is linked to the same dataset in that fabric, as long as every read
\* was answered in its order and the server's urn is in the form buildDatasetLiUrn builds.
FabricLinksOfDataset ==
  SwitcherShown /\ ~fabFailed /\ IsCanonical(fabUrn) =>
    /\ [i \in DOMAIN fabLinks |-> fabLinks[i].fabric] = Origins[fabUrn]
    /\ \A i \in DOMAIN fabLinks :
         GetDatasetUrnParts(fabLinks[i].urn) = [GetDatasetUrnParts(fabUrn) EXCEPT !.fabric = fabLinks[i].fabric]

\* The options stay while the pointer is over them.
FabricsStayOpen == fabOver => fabricsOpen /\ isExpandedFab

\* What a urn is built from is what it is taken apart into, and building again changes nothing.
UrnRoundTrip ==
  IsUrn(fabUrn) =>
    LET li == IF IsWhUrn(fabUrn) THEN ConvertWhUrnToLiUrn(fabUrn)
              ELSE BuildDatasetLiUrn(fabUrn.platform, fabUrn.path, fabUrn.fabric)
    IN
    /\ IsLiUrn(li) /\ GetDatasetUrnParts(li).prefix = li.path
    /\ BuildDatasetLiUrn(li.platform, li.path, li.fabric) = li

\* Every dataset is found by following the categories: the one shown has a dataset below it, a
\* group is one segment longer, and a dataset is listed where its name without its last part leads.
CategoriesLeadToDatasets ==
  LET page == ReadDatasetCategories(segmentsShown) IN
  /\ page.groups # {} \/ page.entities # {}
  /\ \A s \in page.groups : Front(s) = segmentsShown
  /\ segmentsShown # <<>> =>
       \A name \in DatasetNames[Head(segmentsShown)] :
         LET parts == SplitAt(name, GetDelimiter(Head(segmentsShown))) IN
         Front(parts) = Tail(segmentsShown)
           => \E u \in page.entities : u.path = name /\ GetDisplayName(u.path, GetDelimiter(u.platform)) = Last(parts)

\* Fabrics, urns and categories lead to the dataset they are made from.
UrnsLeadBack ==
  /\ UrnsTypeOK /\ FabricLinksOfDataset /\ FabricsStayOpen /\ UrnRoundTrip
  /\ CategoriesLeadToDatasets
=============================================================================
