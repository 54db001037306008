----------------------------- MODULE EntityLists -----------------------------
(***************************************************************************)
(* The lists of entities a user keeps in the storage of the browser: the   *)
(* service that manages them, the button that puts an entity on its list   *)
(* or takes it off, the count in the navigation bar, and the container of  *)
(* the page of a list, which reads the entities of the stored urns and     *)
(* lets the user select and remove some.  The page reads them once and     *)
(* after its own removals; the button may be clicked at any time.          *)
(***************************************************************************)
EXTENDS Lists, FiniteSets, SequencesExt

CONSTANTS
  ListUrns,               \* the entities that can be put on a list
  KindOf,                 \* KindOf[u]: the display name of the type of u
  SupportedListEntities,  \* the types that have lists
  PageKind,               \* the type whose list is on the page
  KnownUrns               \* the entities the backend still knows

ASSUME ListsAssumption ==
  KnownUrns \subseteq ListUrns /\ PageKind \in SupportedListEntities /\ DOMAIN KindOf = ListUrns

VARIABLES
  storedList,        \* the storage: one list of urns for all types
  instances,         \* the entities shown on the page
  selectedEntities,  \* of these, those selected
  hydrateTask,       \* the last instance of hydrateEntitiesTask: {} or {[step, urns]}
  movedOn,           \* history: the list changed, or a read of it failed, since it was last asked for
  pickedOld          \* history: something was selected while the list was read

listVars == <<storedList, instances, selectedEntities, hydrateTask, movedOn, pickedOld>>

FindEntityInList(u, list) == u \in ToSet(list)

\* The list of a type; the others are not listed.
ListedEntities(kind) ==
  IF kind \in SupportedListEntities THEN Only(storedList, {u \in ListUrns : KindOf[u] = kind}) ELSE <<>>

PageList == ListedEntities(PageKind)

AddToList(us) == storedList' = storedList \o Only(us, ListUrns \ ToSet(storedList))

RemoveFromList(us) == storedList' = Only(storedList, ListUrns \ us)

\* What the page says of its list.
ListCount == Len(instances)
SelectedAll == selectedEntities # {} /\ Cardinality(selectedEntities) = ListCount

-----------------------------------------------------------------------------

\* Restarted: an earlier read is dropped.  An empty list is not asked for.
PerformHydrate(list) ==
  IF list = <<>> THEN hydrateTask' = {} /\ instances' = <<>>
  ELSE hydrateTask' = {[step |-> "snapshots", urns |-> list]} /\ UNCHANGED instances

ListsInit ==
  /\ storedList = <<>>
  /\ instances = <<>> /\ selectedEntities = {} /\ hydrateTask = {}
  /\ movedOn = FALSE /\ pickedOld = FALSE

ListsTypeOK ==
  /\ ToSet(storedList) \subseteq ListUrns /\ ToSet(instances) \subseteq ListUrns
  /\ selectedEntities \subseteq ListUrns
  /\ Cardinality(hydrateTask) <= 1
  /\ \A h \in hydrateTask : h.step \in {"snapshots", "entities"} /\ (h.step = "snapshots" => h.urns # <<>>)
  /\ {movedOn, pickedOld} \subseteq BOOLEAN

\* The page is opened: the container is made anew.
OpenList ==
  /\ instances' = <<>> /\ selectedEntities' = {}
  /\ hydrateTask' = IF PageList = <<>> THEN {} ELSE {[step |-> "snapshots", urns |-> PageList]}
  /\ movedOn' = FALSE /\ pickedOld' = FALSE
  /\ UNCHANGED storedList

\* The button shows whether its entity is on the list, and does the opposite.
EntityExistsInList(u) == FindEntityInList(u, ListedEntities(KindOf[u]))

ToggleOnList(u) ==
  /\ KindOf[u] \in SupportedListEntities
  /\ IF EntityExistsInList(u) THEN RemoveFromList({u}) ELSE AddToList(<<u>>)
  /\ movedOn' = (movedOn \/ KindOf[u] = PageKind)
  /\ UNCHANGED <<instances, selectedEntities, hydrateTask, pickedOld>>

\* First the snapshots of the urns, for those the backend knows, then each entity.
KnownOf(list) == Only(list, KnownUrns)

ReadSnapshots ==
  \E h \in hydrateTask :
    /\ h.step = "snapshots"
    /\ hydrateTask' = {[step |-> "entities", urns |-> KnownOf(h.urns)]}
    /\ UNCHANGED <<storedList, instances, selectedEntities, movedOn, pickedOld>>

ReadEntities ==
  \E h \in hydrateTask :
    /\ h.step = "entities"
    /\ hydrateTask' = {} /\ instances' = h.urns
    /\ UNCHANGED <<storedList, selectedEntities, movedOn, pickedOld>>

\* One entity that cannot be read fails them all; what is shown stays.
HydrateFails ==
  /\ hydrateTask # {} /\ hydrateTask' = {}
  /\ movedOn' = TRUE
  /\ UNCHANGED <<storedList, instances, selectedEntities, pickedOld>>

OnSelectEntity(u) ==
  /\ u \in ToSet(instances)
  /\ selectedEntities' = IF u \in selectedEntities THEN selectedEntities \ {u} ELSE selectedEntities \cup {u}
  /\ pickedOld' = (pickedOld \/ hydrateTask # {})
  /\ UNCHANGED <<storedList, instances, hydrateTask, movedOn>>

OnSelectEntityList ==
  /\ selectedEntities' = IF SelectedAll THEN {} ELSE IF instances # <<>> THEN ToSet(instances) ELSE selectedEntities
  /\ pickedOld' = (pickedOld \/ hydrateTask # {})
  /\ UNCHANGED <<storedList, instances, hydrateTask, movedOn>>

\* Mutant: the page reads nothing.
RemoveAndForget ==
  /\ selectedEntities # {}
  /\ RemoveFromList(selectedEntities)
  /\ selectedEntities' = {}
  /\ UNCHANGED <<instances, hydrateTask, movedOn, pickedOld>>

RemoveAllSelected ==
  /\ selectedEntities # {}
  /\ RemoveFromList(selectedEntities)
  /\ selectedEntities' = {}
  /\ PerformHydrate(Only(PageList, ListUrns \ selectedEntities))
  /\ movedOn' = FALSE
  /\ UNCHANGED pickedOld

ListsNext ==
  \/ OpenList
  \/ \E u \in ListUrns : ToggleOnList(u) \/ OnSelectEntity(u)
  \/ ReadSnapshots \/ ReadEntities \/ HydrateFails
  \/ OnSelectEntityList \/ RemoveAllSelected

ListsSpec == ListsInit /\ [][ListsNext]_listVars

-----------------------------------------------------------------------------
\* An entity is on its list once, however often it was added from anywhere.
ListedOnce == IsInjective(storedList)

\* Once the page has read its list it shows it, until the list is changed
\* elsewhere; also after removals that overtake a read.
PageShowsList == hydrateTask = {} /\ ~movedOn => instances = KnownOf(PageList)

\* "All selected" compares only lengths; it is true of all entities as long as
\* nothing was selected on a page that was about to change.
AllSelectedIsAll == SelectedAll /\ ~pickedOld /\ hydrateTask = {} => selectedEntities = ToSet(instances)

\* The list, its page and the selection agree while entities are toggled, selected
\* and removed from several places.
ListsAgree ==
  /\ ListsTypeOK /\ ListedOnce /\ PageShowsList /\ AllSelectedIsAll
=============================================================================
