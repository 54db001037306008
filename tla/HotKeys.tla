------------------------------- MODULE HotKeys -------------------------------
(***************************************************************************)
(* The key that brings the user to the search box: a service keeps one     *)
(* action for a key, whoever registered it last, and a component at the    *)
(* root of the page hands it the keys that no text field takes.            *)
(*                                                                         *)
(* The search box is part of the hero of some pages and of the navigation  *)
(* bar of all others.  When the user goes from the ones to the others, one *)
(* render inserts a new box and destroys the old; each tells the service.  *)
(* In which order a render does this is for the renderer (Ember) to say;   *)
(* no key comes in the meantime.  What a box does with what is typed is    *)
(* in SearchBox.                                                           *)
(***************************************************************************)
EXTENDS SearchBox

VARIABLES
  boxesOnPage,       \* the search boxes inserted and not destroyed
  toInsert, toDestroy, \* what is left of the render
  listening,         \* the root of the page listens to keys
  keyMappings,       \* the action of the slash: a box to focus, "noop", or "none"
  activeElement,     \* where a key goes
  searchEnabled,     \* an entity is selected: the input of a box takes the focus
  destroyedLast      \* history: the last render destroyed a box after it inserted the other

keyVars == <<boxesOnPage, toInsert, toDestroy, listening, keyMappings, activeElement, searchEnabled,
             destroyedLast>>

SearchBoxes == {"hero", "navbar"}

\* Elements of a page besides the inputs of its boxes.
OtherElements == {"card", "note", "comment"}
TagName == [e \in SearchBoxes \cup OtherElements |->
              CASE e \in {"card", "comment"} -> "DIV" [] e = "note" -> "TEXTAREA" [] OTHER -> "INPUT"]
ContentEditable == {"comment"}

KeysTypeOK ==
  /\ {boxesOnPage, toInsert, toDestroy} \subseteq SUBSET SearchBoxes
  /\ {listening, searchEnabled, destroyedLast} \subseteq BOOLEAN
  /\ keyMappings \in SearchBoxes \cup {"noop", "none"}
  /\ activeElement \in OtherElements \cup boxesOnPage

\* The login page: no box, and nobody listens.
KeysInit ==
  /\ boxesOnPage = {} /\ toInsert = {} /\ toDestroy = {} /\ listening = FALSE
  /\ keyMappings = "none" /\ activeElement = "card" /\ searchEnabled = FALSE
  /\ destroyedLast = FALSE

Rendered == toInsert = {} /\ toDestroy = {}

\* What the current route shows decides where the box is.
BoxOfRoute(hero) == IF hero THEN "hero" ELSE "navbar"

-----------------------------------------------------------------------------
RegisterKeyMapping(box) == keyMappings' = box

\* The key loses its action, whoever registered it.
UnregisterKeyMapping == keyMappings' = "noop"

DidInsertElement(box) ==
  /\ box \in toInsert /\ toInsert' = toInsert \ {box}
  /\ boxesOnPage' = boxesOnPage \cup {box}
  /\ RegisterKeyMapping(box)
  /\ destroyedLast' = FALSE
  /\ UNCHANGED <<toDestroy, listening, activeElement, searchEnabled>>

WillDestroyElement(box) ==
  /\ box \in toDestroy /\ toDestroy' = toDestroy \ {box}
  /\ boxesOnPage' = boxesOnPage \ {box}
  /\ UnregisterKeyMapping
  /\ activeElement' = IF activeElement = box THEN "card" ELSE activeElement
  /\ destroyedLast' = (boxesOnPage' # {})
  /\ UNCHANGED <<toInsert, listening, searchEnabled>>

\* The first page with a session; what is inside the root is inserted before it.
RenderApplication(hero) ==
  /\ Rendered /\ boxesOnPage = {}
  /\ toInsert' = {BoxOfRoute(hero)}
  /\ UNCHANGED <<boxesOnPage, toDestroy, listening, keyMappings, activeElement, searchEnabled, destroyedLast>>

ListenToKeys ==
  /\ Rendered /\ boxesOnPage # {} /\ ~listening
  /\ listening' = TRUE
  /\ UNCHANGED <<boxesOnPage, toInsert, toDestroy, keyMappings, activeElement, searchEnabled, destroyedLast>>

ChangeRoute(hero) ==
  /\ Rendered /\ listening
  /\ BoxOfRoute(hero) \notin boxesOnPage
  /\ toInsert' = {BoxOfRoute(hero)} /\ toDestroy' = boxesOnPage
  /\ UNCHANGED <<boxesOnPage, listening, keyMappings, activeElement, searchEnabled, destroyedLast>>

\* The session ends and the application is loaded again.
LeaveApplication ==
  /\ Rendered /\ listening
  /\ boxesOnPage' = {} /\ listening' = FALSE /\ keyMappings' = "none" /\ activeElement' = "card"
  /\ searchEnabled' = FALSE /\ destroyedLast' = FALSE
  /\ UNCHANGED <<toInsert, toDestroy>>

SelectSearchEntity ==
  /\ Rendered /\ listening /\ activeElement \notin SearchBoxes
  /\ searchEnabled' = ~searchEnabled
  /\ UNCHANGED <<boxesOnPage, toInsert, toDestroy, listening, keyMappings, activeElement, destroyedLast>>

-----------------------------------------------------------------------------
IsEligibleTarget(element) ==
  /\ TagName[element] \notin {"INPUT", "TEXTAREA"}
  /\ ~(TagName[element] = "DIV" /\ element \in ContentEditable)

\* A disabled input does not take the focus.
SetFocus(box) == activeElement' = IF searchEnabled THEN box ELSE activeElement

ApplyKeyMapping == IF keyMappings \in SearchBoxes THEN SetFocus(keyMappings) ELSE UNCHANGED activeElement

\* The user presses the slash.
OnKeyUp ==
  /\ Rendered /\ listening
  /\ IF IsEligibleTarget(activeElement) THEN ApplyKeyMapping ELSE UNCHANGED activeElement
  /\ UNCHANGED <<boxesOnPage, toInsert, toDestroy, listening, keyMappings, searchEnabled, destroyedLast>>

\* The user clicks somewhere.
FocusElement(element) ==
  /\ Rendered /\ element \in OtherElements \cup (IF searchEnabled THEN boxesOnPage ELSE {})
  /\ activeElement' = element
  /\ UNCHANGED <<boxesOnPage, toInsert, toDestroy, listening, keyMappings, searchEnabled, destroyedLast>>

KeysNext ==
  \/ \E hero \in BOOLEAN : RenderApplication(hero) \/ ChangeRoute(hero)
  \/ \E box \in SearchBoxes : DidInsertElement(box) \/ WillDestroyElement(box)
  \/ ListenToKeys \/ LeaveApplication \/ SelectSearchEntity \/ OnKeyUp
  \/ \E element \in SearchBoxes \cup OtherElements : FocusElement(element)

KeysSpec == KeysInit /\ [][KeysNext]_keyVars

-----------------------------------------------------------------------------
\* The slash never focuses a box that is gone, however the boxes came and went.
NoBoxOfAnotherPage == Rendered => keyMappings \in boxesOnPage \cup {"noop", "none"}

\* The slash finds the box of the page, unless the last render destroyed the
\* other one after it inserted this one: then the key is dead until the next.
SlashFindsBox == Rendered /\ listening /\ ~destroyedLast => keyMappings \in boxesOnPage

\* The search box suggests for what is typed, loses nothing the user typed, leaves
\* neither a task nor a tooltip behind, and the slash leads to it wherever it is.
SearchBoxServes == SuggestionsAreCurrent /\ KeysTypeOK /\ NoBoxOfAnotherPage /\ SlashFindsBox
=============================================================================
