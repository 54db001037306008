---------------------------- MODULE HoverDropdown ----------------------------
(***************************************************************************)
(* Dropdowns that open when the mouse comes and close a while after it     *)
(* left, so that it has the time to get from the trigger to the content.   *)
(* The code is there three times: in the utils addon, in the data portal   *)
(* and in the switcher between the fabrics of a dataset.  They differ in   *)
(* what a selection does.                                                  *)
(***************************************************************************)
EXTENDS Integers, FiniteSets

CONSTANTS
  DropDownItems,
  HideIds        \* bound: hide tasks that run

VARIABLES
  dropdownCode,  \* which of the three: "addon", "portal" or "fabrics"
  mouseOver,     \* "trigger", "content" or "outside"
  dropdownOpen,
  isExpanded,    \* the caret
  hideTasks,     \* the instances of the hide task that wait
  mostRecentHideTask,
  selectedDropDown,
  onSelected     \* what the caller was told last

dropdownVars == <<dropdownCode, mouseOver, dropdownOpen, isExpanded, hideTasks, mostRecentHideTask,
                  selectedDropDown, onSelected>>

DropdownTypeOK ==
  /\ dropdownCode \in {"addon", "portal", "fabrics"} /\ mouseOver \in {"trigger", "content", "outside"}
  /\ {dropdownOpen, isExpanded} \subseteq BOOLEAN /\ hideTasks \subseteq HideIds
  /\ mostRecentHideTask \in HideIds \cup {"none"}
  /\ {selectedDropDown, onSelected} \subseteq DropDownItems \cup {"none"}
  /\ dropdownCode # "portal" => selectedDropDown = "none"

DropdownInit ==
  /\ dropdownCode \in {"addon", "portal", "fabrics"}
  /\ mouseOver = "outside" /\ dropdownOpen = FALSE /\ isExpanded = FALSE
  /\ hideTasks = {} /\ mostRecentHideTask = "none"
  /\ selectedDropDown = "none" /\ onSelected = "none"

\* The last hide task is cancelled, waiting or not.
Show ==
  /\ hideTasks' = hideTasks \ {mostRecentHideTask}
  /\ isExpanded' = TRUE /\ dropdownOpen' = TRUE

Hide ==
  \E id \in HideIds \ hideTasks :
    /\ hideTasks' = hideTasks \cup {id} /\ mostRecentHideTask' = id
    /\ isExpanded' = FALSE

ShowDropDown == dropdownCode = "addon" /\ Show
ShowHoverDropDown == dropdownCode = "portal" /\ Show
ShowFabrics == dropdownCode = "fabrics" /\ Show
HideDropDown == dropdownCode = "addon" /\ Hide
HideHoverDropDown == dropdownCode = "portal" /\ Hide
HideFabrics == dropdownCode = "fabrics" /\ Hide

\* Between two parts the mouse is nowhere for a moment: it leaves before it enters.
MouseEnter(part) ==
  /\ mouseOver = "outside" /\ (part = "content" => dropdownOpen)
  /\ mouseOver' = part
  /\ ShowDropDown \/ ShowHoverDropDown \/ ShowFabrics
  /\ UNCHANGED <<dropdownCode, mostRecentHideTask, selectedDropDown, onSelected>>

MouseLeave ==
  /\ mouseOver # "outside" /\ mouseOver' = "outside"
  /\ HideDropDown \/ HideHoverDropDown \/ HideFabrics
  /\ UNCHANGED <<dropdownCode, dropdownOpen, selectedDropDown, onSelected>>

\* Mutant: only a content with its caret up is closed.
ExpandedTaskEnds(id) ==
  /\ id \in hideTasks
  /\ hideTasks' = hideTasks \ {id} /\ dropdownOpen' = (dropdownOpen /\ ~isExpanded)
  /\ UNCHANGED <<dropdownCode, mouseOver, isExpanded, mostRecentHideTask, selectedDropDown, onSelected>>

\* 200 ms are over.
HideTaskEnds(id) ==
  /\ id \in hideTasks
  /\ hideTasks' = hideTasks \ {id} /\ dropdownOpen' = FALSE
  /\ UNCHANGED <<dropdownCode, mouseOver, isExpanded, mostRecentHideTask, selectedDropDown, onSelected>>

\* A click elsewhere closes the dropdown (ember-basic-dropdown).
ClickOutside ==
  /\ mouseOver = "outside" /\ dropdownOpen
  /\ dropdownOpen' = FALSE
  /\ UNCHANGED <<dropdownCode, mouseOver, isExpanded, hideTasks, mostRecentHideTask, selectedDropDown, onSelected>>

\* The addon leaves what is selected to its caller.
OnDropDownSelect(item) == /\ dropdownCode = "addon" /\ onSelected' = item /\ UNCHANGED selectedDropDown
OnHoverDropDownSelect(item) == dropdownCode = "portal" /\ onSelected' = item /\ selectedDropDown' = item

SelectItem(item) ==
  /\ mouseOver = "content"
  /\ OnDropDownSelect(item) \/ OnHoverDropDownSelect(item)
  /\ UNCHANGED <<dropdownCode, mouseOver, dropdownOpen, isExpanded, hideTasks, mostRecentHideTask>>

DropdownNext ==
  \/ \E part \in {"trigger", "content"} : MouseEnter(part)
  \/ MouseLeave \/ ClickOutside
  \/ \E id \in HideIds : HideTaskEnds(id)
  \/ \E item \in DropDownItems : SelectItem(item)

\* Timers ring.
DropdownFairness == \A id \in HideIds : WF_dropdownVars(HideTaskEnds(id))

DropdownSpec == DropdownInit /\ [][DropdownNext]_dropdownVars /\ DropdownFairness

-----------------------------------------------------------------------------
\* The content is there as long as the mouse is over the trigger or the content,
\* whatever came and went before.
OpenWhileOver == mouseOver # "outside" => dropdownOpen

\* The caret never says that the content is open when it is not.
CaretTellsOpen == isExpanded => dropdownOpen /\ hideTasks = {}

\* Without the mouse the content goes away.
ClosesWhenLeft == mouseOver = "outside" ~> (~dropdownOpen \/ mouseOver # "outside")

\* A dropdown is open while the mouse is over it, says so, and closes when the
\* mouse has left, whatever tasks wait.
DropdownFollowsMouse == [](DropdownTypeOK /\ OpenWhileOver /\ CaretTellsOpen) /\ ClosesWhenLeft
=============================================================================
