-------------------------- MODULE WebSearchProofs ---------------------------
(***************************************************************************)
(* Proofs about the parts of the web client around searching, and about    *)
(* all of them as they run together.                                       *)
(***************************************************************************)
EXTENDS MCWebSearch, FiniteSetTheorems, Foundations

(***************************************************************************)
(* The search box.  What the task works on, what it awaits and what is     *)
(* typed agree at any time: a task awaits the one query that is about its  *)
(* own text and entity, and while the input has the focus and nobody else  *)
(* took its text away, these are the text and entity of the input.         *)
(***************************************************************************)
Question == [text : Texts, entity : Entities, stage : {"waiting", "asked"}, awaited : BOOLEAN]
Asking == {t \in Texts : WordLength[t] >= 3}

QueriesAreAsked == \A q \in queries : q.text \in Asking

AwaitsItsQuery ==
    /\ \A q \in queries : q.awaited => typeahead = [text |-> q.text, entity |-> q.entity]
    /\ \A q, r \in queries : q.awaited /\ r.awaited => q = r
    /\ typeahead # NoTask => \E q \in queries : q.awaited

WorksOnInput ==
    focusing /\ typeahead # NoTask /\ ~ replaced =>
        typeahead.text = inputText /\ typeahead.entity = SearchedEntity

BoxInv ==
    /\ BoxTypeOK /\ QueriesAreAsked /\ AwaitsItsQuery /\ WorksOnInput
    /\ SuggestionsMatchInput /\ BlurKeepsText /\ TooltipGoesAway

LEMMA SearchedType ==
    ASSUME BoxTypeOK PROVE SearchedEntity \in Entities
BY SearchBoxAssumption DEF BoxTypeOK, SearchedEntity

(* A task is never mistaken for none.                                      *)
LEMMA TaskIsNone ==
    \A t, e : [text |-> t, entity |-> e] # NoTask
<1>1. \A t, e : "text" \in DOMAIN [text |-> t, entity |-> e]
  OBVIOUS
<1>2. "text" \notin DOMAIN NoTask
  BY DEF NoTask
<1> QED
  BY <1>1, <1>2

(* Nobody awaits what a task that is gone has asked.                       *)
LEMMA UnawaitedType ==
    ASSUME BoxTypeOK, QueriesAreAsked
    PROVE  /\ Unawaited \subseteq Question
           /\ \A q \in Unawaited : ~ q.awaited /\ q.text \in Asking
BY DEF BoxTypeOK, QueriesAreAsked, Unawaited, Question

(* Typing restarts the task: it has its answer at once, or awaits the one  *)
(* query it has just asked.                                                *)
LEMMA TypeaheadRestarts ==
    ASSUME BoxTypeOK, QueriesAreAsked, NEW t \in Texts, OnTypeahead(t)
    PROVE  /\ queries' \subseteq Question
           /\ \A q \in queries' : q.text \in Asking
           /\ \/ /\ typeahead' = NoTask
                 /\ \A q \in queries' : ~ q.awaited
                 /\ suggestions'.text = t /\ suggestions'.entity = SearchedEntity
              \/ /\ typeahead' = [text |-> t, entity |-> SearchedEntity]
                 /\ \A q \in queries' : q.awaited => q.text = t /\ q.entity = SearchedEntity /\ q.stage = "waiting"
                 /\ \E q \in queries' : q.awaited
                 /\ suggestions' = suggestions
<1> DEFINE e == SearchedEntity
<1>1. e \in Entities
  BY SearchedType
<1>2. CASE NeedsServer(t)
  <2> DEFINE q == [text |-> t, entity |-> e, stage |-> "waiting", awaited |-> TRUE]
  <2>1. typeahead' = [text |-> t, entity |-> e] /\ queries' = Debounced(t, e) /\ suggestions' = suggestions
    BY <1>2, Zenon DEF OnTypeahead
  <2>2. t \in Asking /\ q \in Question
    BY <1>1, <1>2 DEF NeedsServer, Asking, Question
  <2>3. Debounced(t, e) \subseteq Unawaited \cup {q} /\ q \in Debounced(t, e)
    BY DEF Debounced
  <2>4. \A r \in queries' : r = q \/ r \in Unawaited
    BY <2>1, <2>3
  <2>5. queries' \subseteq Question
    BY <2>2, <2>4, UnawaitedType
  <2>6. q.text = t /\ q.entity = e /\ q.stage = "waiting" /\ q.awaited
    OBVIOUS
  <2>7. \A r \in queries' : r.text \in Asking
    BY <2>2, <2>4, <2>6, UnawaitedType
  <2>8. \A r \in queries' : r.awaited => r.text = t /\ r.entity = e /\ r.stage = "waiting"
    BY <2>4, <2>6, UnawaitedType
  <2>9. \E r \in queries' : r.awaited
    BY <2>1, <2>3, <2>6
  <2> QED
    BY <2>1, <2>5, <2>7, <2>8, <2>9
<1>3. CASE ~ NeedsServer(t)
  <2> DEFINE values == IF CacheKey[t] \in DOMAIN responses /\ WordLength[t] >= 3
                       THEN {responses[CacheKey[t]]} ELSE {}
  <2>1. typeahead' = NoTask /\ queries' = Unawaited /\ suggestions' = Suggest(t, e, values)
    BY <1>3, Zenon DEF OnTypeahead
  <2>2. suggestions'.text = t /\ suggestions'.entity = e
    BY <2>1 DEF Suggest
  <2> QED
    BY <2>1, <2>2, UnawaitedType
<1> QED
  BY <1>2, <1>3

LEMMA BoxStarts == BoxInit => BoxInv
<1> SUFFICES ASSUME BoxInit PROVE BoxInv
  OBVIOUS
<1>1. DOMAIN << >> = {}
  OBVIOUS
<1>2. BoxTypeOK
  BY <1>1, SearchBoxAssumption DEF BoxInit, BoxTypeOK
<1> QED
  BY <1>2 DEF BoxInit, BoxInv, QueriesAreAsked, AwaitsItsQuery, WorksOnInput,
              SuggestionsMatchInput, BlurKeepsText, TooltipGoesAway

(* After the text of a focused input was handed to the task.               *)
LEMMA TypingKeepsBox ==
    ASSUME BoxInv, NEW t \in Texts, OnTypeahead(t), inputText' = t, text' \in Texts,
           focusing' = TRUE, refocus' \in BOOLEAN, replaced' \in BOOLEAN,
           UNCHANGED <<selectedEntity, initialFor, tooltip, tooltipTimer, responses>>
    PROVE  BoxInv'
<1> DEFINE e == SearchedEntity
<1>1. e \in Entities /\ SearchedEntity' = e
  BY SearchedType DEF BoxInv, SearchedEntity
<1>2. BoxTypeOK /\ QueriesAreAsked
  BY DEF BoxInv
<1>3. /\ queries' \subseteq Question
      /\ \A q \in queries' : q.text \in Asking
  BY <1>2, TypeaheadRestarts
<1>4. CASE /\ typeahead' = NoTask
           /\ \A q \in queries' : ~ q.awaited
           /\ suggestions'.text = t /\ suggestions'.entity = e
  <2>1. BoxTypeOK'
    BY <1>2, <1>3, <1>4 DEF BoxTypeOK, Question
  <2>2. QueriesAreAsked' /\ AwaitsItsQuery' /\ WorksOnInput'
    BY <1>3, <1>4 DEF QueriesAreAsked, AwaitsItsQuery, WorksOnInput
  <2>3. SuggestionsMatchInput' /\ BlurKeepsText' /\ TooltipGoesAway'
    BY <1>1, <1>4 DEF SuggestionsMatchInput, BlurKeepsText, TooltipGoesAway, BoxInv
  <2> QED
    BY <2>1, <2>2, <2>3 DEF BoxInv
<1>5. CASE /\ typeahead' = [text |-> t, entity |-> e]
           /\ \A q \in queries' : q.awaited => q.text = t /\ q.entity = e /\ q.stage = "waiting"
           /\ \E q \in queries' : q.awaited
           /\ suggestions' = suggestions
  <2>1. BoxTypeOK'
    BY <1>1, <1>2, <1>3, <1>5 DEF BoxTypeOK, Question
  <2>2. \A q, r \in queries' : q.awaited /\ r.awaited => q = r
    BY <1>3, <1>5 DEF Question
  <2>3. QueriesAreAsked' /\ AwaitsItsQuery'
    BY <1>3, <1>5, <2>2 DEF QueriesAreAsked, AwaitsItsQuery
  <2>4. typeahead' # NoTask
    BY <1>5, TaskIsNone
  <2>5. WorksOnInput'
    BY <1>1, <1>5 DEF WorksOnInput
  <2>6. SuggestionsMatchInput' /\ BlurKeepsText' /\ TooltipGoesAway'
    BY <2>4 DEF SuggestionsMatchInput, BlurKeepsText, TooltipGoesAway, BoxInv
  <2> QED
    BY <2>1, <2>3, <2>5, <2>6 DEF BoxInv
<1> QED
  BY <1>2, <1>4, <1>5, TypeaheadRestarts

(* After the task was cancelled.                                           *)
LEMMA CancellingKeepsBox ==
    ASSUME BoxInv, CancelInflightTask, text' \in Texts, inputText' \in Texts,
           focusing' \in BOOLEAN, refocus' \in BOOLEAN, replaced' \in BOOLEAN,
           focusing' => replaced', ~ focusing' => text' = inputText',
           UNCHANGED <<selectedEntity, suggestions, initialFor, tooltip, tooltipTimer, responses>>
    PROVE  BoxInv'
<1>1. BoxTypeOK /\ QueriesAreAsked
  BY DEF BoxInv
<1>2. queries' \subseteq Question /\ \A q \in queries' : ~ q.awaited /\ q.text \in Asking
  BY <1>1, UnawaitedType DEF CancelInflightTask
<1>3. typeahead' = NoTask
  BY DEF CancelInflightTask
<1>4. BoxTypeOK'
  BY <1>1, <1>2, <1>3 DEF BoxTypeOK, Question
<1>5. QueriesAreAsked' /\ AwaitsItsQuery' /\ WorksOnInput'
  BY <1>2, <1>3 DEF QueriesAreAsked, AwaitsItsQuery, WorksOnInput
<1>6. SuggestionsMatchInput' /\ BlurKeepsText' /\ TooltipGoesAway'
  BY DEF SuggestionsMatchInput, BlurKeepsText, TooltipGoesAway, BoxInv
<1> QED
  BY <1>4, <1>5, <1>6 DEF BoxInv

(* A query that is no longer there, and the task that awaited it if any.   *)
LEMMA AnswerKeepsBox ==
    ASSUME BoxInv, NEW q \in queries, queries' = queries \ {q},
           \/ /\ q.awaited /\ typeahead' = NoTask
              /\ suggestions'.text = q.text /\ suggestions'.entity = q.entity
           \/ /\ ~ q.awaited
              /\ UNCHANGED <<typeahead, suggestions>>,
           DOMAIN responses' \subseteq DOMAIN responses \cup {CacheKey[q.text]},
           UNCHANGED <<text, inputText, selectedEntity, focusing, initialFor, tooltip,
                       tooltipTimer, refocus, replaced>>
    PROVE  BoxInv'
<1> USE DEF Question
<1>1. q \in Question /\ q.text \in Asking /\ BoxTypeOK
  BY DEF BoxInv, BoxTypeOK, QueriesAreAsked
<1>2. BoxTypeOK'
  BY <1>1 DEF BoxTypeOK, Asking
<1>3. QueriesAreAsked'
  BY DEF BoxInv, QueriesAreAsked
<1>4. q.awaited => typeahead # NoTask /\ typeahead.text = q.text /\ typeahead.entity = q.entity
  BY <1>1, TaskIsNone DEF BoxInv, AwaitsItsQuery
<1>5. AwaitsItsQuery'
  BY <1>1 DEF BoxInv, AwaitsItsQuery
<1>6. SearchedEntity' = SearchedEntity
  BY DEF SearchedEntity
<1>7. WorksOnInput'
  BY <1>6 DEF BoxInv, WorksOnInput
<1>8. SuggestionsMatchInput'
  BY <1>4, <1>6 DEF BoxInv, SuggestionsMatchInput, WorksOnInput
<1>9. BlurKeepsText' /\ TooltipGoesAway'
  BY DEF BoxInv, BlurKeepsText, TooltipGoesAway
<1> QED
  BY <1>2, <1>3, <1>5, <1>7, <1>8, <1>9 DEF BoxInv

LEMMA SentKeepsBox ==
    ASSUME BoxInv, NEW q \in queries, RunQueryCallback(q)
    PROVE  BoxInv'
<1> DEFINE s == [q EXCEPT !.stage = "asked"]
<1>1. q \in Question /\ q.text \in Asking /\ BoxTypeOK
  BY DEF BoxInv, BoxTypeOK, QueriesAreAsked, Question
<1>2. s \in Question /\ s.text = q.text /\ s.entity = q.entity /\ s.awaited = q.awaited
  BY <1>1 DEF Question
<1> HIDE DEF s
<1>3. queries' = (queries \ {q}) \cup {s}
  BY DEF RunQueryCallback, s
<1>4. UNCHANGED <<text, inputText, selectedEntity, focusing, typeahead, suggestions, initialFor,
                  tooltip, tooltipTimer, responses, refocus, replaced>>
  BY DEF RunQueryCallback
<1>5. BoxTypeOK'
  BY <1>1, <1>2, <1>3, <1>4 DEF BoxTypeOK, Question
<1>6. QueriesAreAsked'
  BY <1>1, <1>2, <1>3 DEF BoxInv, QueriesAreAsked
<1>7. AwaitsItsQuery'
  <2>1. \A r \in queries' : r.awaited => typeahead = [text |-> r.text, entity |-> r.entity]
    BY <1>2, <1>3 DEF BoxInv, AwaitsItsQuery
  <2>2. \A r, t \in queries' : r.awaited /\ t.awaited => r = t
    BY <1>2, <1>3 DEF BoxInv, AwaitsItsQuery
  <2>3. typeahead # NoTask => \E r \in queries' : r.awaited
    BY <1>2, <1>3 DEF BoxInv, AwaitsItsQuery
  <2> QED
    BY <1>4, <2>1, <2>2, <2>3 DEF AwaitsItsQuery
<1>8. WorksOnInput' /\ SuggestionsMatchInput' /\ BlurKeepsText' /\ TooltipGoesAway'
  BY <1>4 DEF BoxInv, WorksOnInput, SuggestionsMatchInput, BlurKeepsText, TooltipGoesAway, SearchedEntity
<1> QED
  BY <1>5, <1>6, <1>7, <1>8 DEF BoxInv

LEMMA BoxSteps == BoxInv /\ [BoxNext]_boxVars => BoxInv'
<1> SUFFICES ASSUME BoxInv, [BoxNext]_boxVars PROVE BoxInv'
  OBVIOUS
<1> USE DEF BoxInv
<1>0. BoxTypeOK
  OBVIOUS
<1>1. ASSUME NEW t \in Texts, DidReceiveAttrs(t) PROVE BoxInv'
  <2>1. BoxTypeOK'
    BY <1>1, SearchBoxAssumption DEF BoxTypeOK, DidReceiveAttrs, SetInitialSuggestions
  <2> QED
    BY <1>1, <2>1 DEF DidReceiveAttrs, QueriesAreAsked, AwaitsItsQuery, WorksOnInput,
                      SuggestionsMatchInput, BlurKeepsText, TooltipGoesAway
<1>2. ASSUME NEW t \in Texts, OnInput(t) PROVE BoxInv'
  <2>1. /\ OnTypeahead(t) /\ inputText' = t /\ text' \in Texts /\ focusing' = TRUE
        /\ refocus' \in BOOLEAN /\ replaced' \in BOOLEAN
        /\ UNCHANGED <<selectedEntity, initialFor, tooltip, tooltipTimer, responses>>
    BY <1>2 DEF OnInput, BoxTypeOK
  <2> QED
    BY <2>1, TypingKeepsBox
<1>3. ASSUME NEW t \in Texts, OnChange(t) PROVE BoxInv'
  <2>1. /\ CancelInflightTask /\ text' \in Texts /\ inputText' \in Texts
        /\ focusing' \in BOOLEAN /\ refocus' \in BOOLEAN /\ replaced' \in BOOLEAN
        /\ (focusing' => replaced') /\ (~ focusing' => text' = inputText')
        /\ UNCHANGED <<selectedEntity, suggestions, initialFor, tooltip, tooltipTimer, responses>>
    BY <1>3 DEF OnChange, BoxTypeOK
  <2> QED
    BY <2>1, CancellingKeepsBox
<1>4. ASSUME OnFocus PROVE BoxInv'
  <2>1. /\ text \in Texts /\ OnTypeahead(text) /\ inputText' = text /\ text' \in Texts
        /\ focusing' = TRUE /\ refocus' \in BOOLEAN /\ replaced' \in BOOLEAN
        /\ UNCHANGED <<selectedEntity, initialFor, tooltip, tooltipTimer, responses>>
    BY <1>4 DEF OnFocus, BoxTypeOK
  <2> QED
    BY <2>1, TypingKeepsBox
<1>5. ASSUME OnBlur PROVE BoxInv'
  <2>1. /\ CancelInflightTask /\ text' \in Texts /\ inputText' \in Texts
        /\ focusing' \in BOOLEAN /\ refocus' \in BOOLEAN /\ replaced' \in BOOLEAN
        /\ (focusing' => replaced') /\ (~ focusing' => text' = inputText')
        /\ UNCHANGED <<selectedEntity, suggestions, initialFor, tooltip, tooltipTimer, responses>>
    BY <1>5 DEF OnBlur, BoxTypeOK
  <2> QED
    BY <2>1, CancellingKeepsBox
<1>6. ASSUME OnSubmit PROVE BoxInv'
  <2>1. /\ CancelInflightTask /\ text' \in Texts /\ inputText' \in Texts
        /\ focusing' \in BOOLEAN /\ refocus' \in BOOLEAN /\ replaced' \in BOOLEAN
        /\ (focusing' => replaced') /\ (~ focusing' => text' = inputText')
        /\ UNCHANGED <<selectedEntity, suggestions, initialFor, tooltip, tooltipTimer, responses>>
    BY <1>6 DEF OnSubmit, BoxTypeOK, BlurKeepsText
  <2> QED
    BY <2>1, CancellingKeepsBox
<1>7. ASSUME NEW e \in Entities \cup {NoEntity}, OnSelectedEntityChange(e) PROVE BoxInv'
  <2>1. BoxTypeOK'
    BY <1>7, SearchBoxAssumption DEF BoxTypeOK, OnSelectedEntityChange, SetInitialSuggestions
  <2> QED
    BY <1>7, <2>1 DEF OnSelectedEntityChange, QueriesAreAsked, AwaitsItsQuery, WorksOnInput,
                      SuggestionsMatchInput, BlurKeepsText, TooltipGoesAway
<1>8. ASSUME MouseDown \/ TooltipTimeout PROVE BoxInv'
  <2>1. BoxTypeOK'
    BY <1>8 DEF BoxTypeOK, MouseDown, TooltipTimeout
  <2> QED
    BY <1>8, <2>1 DEF MouseDown, TooltipTimeout, QueriesAreAsked, AwaitsItsQuery, WorksOnInput,
                      SearchedEntity, SuggestionsMatchInput, BlurKeepsText, TooltipGoesAway
<1>9. ASSUME NEW q \in queries, RunQueryCallback(q) PROVE BoxInv'
  BY <1>9, SentKeepsBox
<1>10. ASSUME NEW q \in queries, FetchFacetValue(q) PROVE BoxInv'
  <2>1. queries' = queries \ {q} /\ DOMAIN responses' = DOMAIN responses \cup {CacheKey[q.text]}
    BY <1>10 DEF FetchFacetValue
  <2>2. \/ /\ q.awaited /\ typeahead' = NoTask
           /\ suggestions'.text = q.text /\ suggestions'.entity = q.entity
        \/ ~ q.awaited /\ UNCHANGED <<typeahead, suggestions>>
    BY <1>10 DEF FetchFacetValue, TakeAnswer, Suggest
  <2>3. UNCHANGED <<text, inputText, selectedEntity, focusing, initialFor, tooltip,
                    tooltipTimer, refocus, replaced>>
    BY <1>10 DEF FetchFacetValue
  <2> QED
    BY <2>1, <2>2, <2>3, AnswerKeepsBox
<1>11. ASSUME NEW q \in queries, QueryFails(q) PROVE BoxInv'
  <2>1. queries' = queries \ {q} /\ responses' = responses
    BY <1>11 DEF QueryFails
  <2>2. \/ /\ q.awaited /\ typeahead' = NoTask
           /\ suggestions'.text = q.text /\ suggestions'.entity = q.entity
        \/ ~ q.awaited /\ UNCHANGED <<typeahead, suggestions>>
    BY <1>11 DEF QueryFails
  <2>3. UNCHANGED <<text, inputText, selectedEntity, focusing, initialFor, tooltip,
                    tooltipTimer, refocus, replaced>>
    BY <1>11 DEF QueryFails
  <2> QED
    BY <2>1, <2>2, <2>3, AnswerKeepsBox
<1>12. ASSUME UNCHANGED boxVars PROVE BoxInv'
  BY <1>12 DEF boxVars, BoxTypeOK, QueriesAreAsked, AwaitsItsQuery, WorksOnInput, SearchedEntity,
               SuggestionsMatchInput, BlurKeepsText, TooltipGoesAway
<1> HIDE DEF BoxInv
<1> QED
  BY <1>1, <1>2, <1>3, <1>4, <1>5, <1>6, <1>7, <1>8, <1>9, <1>10, <1>11, <1>12 DEF BoxNext

LEMMA BoxGives == BoxInv => SuggestionsAreCurrent
<1> SUFFICES ASSUME BoxInv PROVE SuggestionsAreCurrent
  OBVIOUS
<1>1. NoTaskHangs
  <2>1. CASE typeahead = NoTask
    BY <2>1, TaskIsNone DEF BoxInv, AwaitsItsQuery, NoTaskHangs
  <2>2. CASE typeahead # NoTask
    <3>1. PICK q \in queries : q.awaited
      BY <2>2 DEF BoxInv, AwaitsItsQuery
    <3>2. {r \in queries : r.awaited} = {q}
      BY <3>1 DEF BoxInv, AwaitsItsQuery
    <3>3. typeahead.text = q.text
      BY <3>1 DEF BoxInv, AwaitsItsQuery
    <3> QED
      BY <2>2, <3>2, <3>3 DEF NoTaskHangs
  <2> QED
    BY <2>1, <2>2
<1> QED
  BY <1>1 DEF BoxInv, SuggestionsAreCurrent

(***************************************************************************)
(* The key that leads to the box.  During a render at most one box is      *)
(* about to come and none that goes comes back; the key always leads to a  *)
(* box of the page or nowhere, and it leads to one unless the last render  *)
(* has destroyed the other box after it inserted this one.                 *)
(***************************************************************************)
KeysInv ==
    /\ KeysTypeOK
    /\ toDestroy \subseteq boxesOnPage /\ toInsert \cap boxesOnPage = {}
    /\ keyMappings \in boxesOnPage \cup {"noop", "none"}
    /\ toInsert = {} /\ boxesOnPage # {} /\ ~ destroyedLast => keyMappings \in boxesOnPage
    /\ listening /\ toInsert = {} => boxesOnPage \ toDestroy # {}

LEMMA KeysStart == KeysInit => KeysInv
BY DEF KeysInit, KeysInv, KeysTypeOK, OtherElements

LEMMA KeysSteps == KeysInv /\ [KeysNext]_keyVars => KeysInv'
<1> SUFFICES ASSUME KeysInv, [KeysNext]_keyVars PROVE KeysInv'
  OBVIOUS
<1> USE DEF KeysInv, KeysTypeOK, Rendered, OtherElements
<1>1. ASSUME NEW hero \in BOOLEAN, RenderApplication(hero) PROVE KeysInv'
  BY <1>1 DEF RenderApplication, BoxOfRoute, SearchBoxes
<1>2. ASSUME NEW hero \in BOOLEAN, ChangeRoute(hero) PROVE KeysInv'
  BY <1>2 DEF ChangeRoute, BoxOfRoute, SearchBoxes
<1>3. ASSUME NEW box \in SearchBoxes, DidInsertElement(box) PROVE KeysInv'
  BY <1>3 DEF DidInsertElement, RegisterKeyMapping
<1>4. ASSUME NEW box \in SearchBoxes, WillDestroyElement(box) PROVE KeysInv'
  BY <1>4 DEF WillDestroyElement, UnregisterKeyMapping, SearchBoxes
<1>5. ASSUME ListenToKeys PROVE KeysInv'
  BY <1>5 DEF ListenToKeys
<1>6. ASSUME LeaveApplication PROVE KeysInv'
  BY <1>6 DEF LeaveApplication
<1>7. ASSUME SelectSearchEntity PROVE KeysInv'
  BY <1>7 DEF SelectSearchEntity
<1>8. ASSUME OnKeyUp PROVE KeysInv'
  <2>1. UNCHANGED <<boxesOnPage, toInsert, toDestroy, listening, keyMappings, searchEnabled, destroyedLast>>
    BY <1>8 DEF OnKeyUp
  <2>2. activeElement' = activeElement \/ activeElement' \in boxesOnPage
    BY <1>8 DEF OnKeyUp, ApplyKeyMapping, SetFocus, SearchBoxes
  <2> QED
    BY <2>1, <2>2
<1>9. ASSUME NEW element \in SearchBoxes \cup OtherElements, FocusElement(element) PROVE KeysInv'
  BY <1>9 DEF FocusElement
<1>10. ASSUME UNCHANGED keyVars PROVE KeysInv'
  BY <1>10 DEF keyVars
<1> HIDE DEF KeysInv, KeysTypeOK, Rendered, OtherElements
<1> QED
  BY <1>1, <1>2, <1>3, <1>4, <1>5, <1>6, <1>7, <1>8, <1>9, <1>10 DEF KeysNext

LEMMA KeysGive == KeysInv => KeysTypeOK /\ NoBoxOfAnotherPage /\ SlashFindsBox
BY DEF KeysInv, NoBoxOfAnotherPage, SlashFindsBox, Rendered

(* The search box suggests for what is typed, keeps what was typed, leaves *)
(* neither a task without its query nor a tooltip behind, and the slash    *)
(* leads to a box of the page, for any texts, entities and grammar, and in *)
(* whatever order a render inserts and destroys its boxes.                 *)
THEOREM SearchBoxIsServing == BoxSpec /\ KeysSpec => []SearchBoxServes
<1>1. BoxInit /\ KeysInit => BoxInv /\ KeysInv
  BY BoxStarts, KeysStart
<1>2. BoxInv /\ KeysInv /\ [BoxNext]_boxVars /\ [KeysNext]_keyVars => BoxInv' /\ KeysInv'
  BY BoxSteps, KeysSteps
<1>3. BoxInv /\ KeysInv => SearchBoxServes
  BY BoxGives, KeysGive DEF SearchBoxServes
<1> QED
  BY <1>1, <1>2, <1>3, PTL DEF BoxSpec, KeysSpec

(***************************************************************************)
(* The search page.  A running task waits for a search of the query in the *)
(* URL, the newest of all; a result is that of its query, with the pages   *)
(* and ranks computed from it; and the check boxes name the facets of the  *)
(* URL unless a change of theirs waits for its second.                     *)
(***************************************************************************)
PagedQuery(q) == q \in Query /\ q.page >= 1

RunsForUrl ==
    route = "search" /\ task = "running" => inFlight # <<>> /\ inFlight[Len(inFlight)] = url

AnswersAsked ==
    /\ \A i \in DOMAIN inFlight : PagedQuery(inFlight[i])
    /\ result # NoResult => PagedQuery(result.query) /\ result = ResultOf(result.query)
    /\ route = "search" /\ task = "idle" => result # NoResult

BoxesAreDue ==
    route = "search" =>
        \/ ToFacetSelectionsArray(selections) = url.facets
        \/ \E t \in timers : ToFacetSelectionsArray(t.sel) = ToFacetSelectionsArray(selections)

TimersAreChanges == \A t \in timers : t = [sel |-> t.sel, mine |-> t.mine]

NothingBehind ==
    route # "search" => task = "idle" /\ inFlight = <<>> /\ result = NoResult

PageOfUrlExists == overtaken = "never" => url.page <= TotalPages(url) \/ url.page = 1

SearchInv ==
    /\ SearchTypeOK /\ TimersAreChanges /\ RunsForUrl /\ AnswersAsked /\ BoxesAreDue /\ NothingBehind
    /\ IdleShowsUrl /\ PageOfUrlExists

(* Pages: which page a start belongs to, and how many pages there are.     *)
LEMMA Division ==
    ASSUME NEW a \in Nat, NEW b \in Nat \ {0}
    PROVE  (a \div b) \in Nat /\ b * (a \div b) <= a /\ a < b * (a \div b) + b
OBVIOUS

LEMMA LargerProduct ==
    ASSUME NEW b \in Nat \ {0}, NEW x \in Int, NEW y \in Int, x < y
    PROVE  b * x + b <= b * y
<1>1. x + 1 <= y
  OBVIOUS
<1>2. b * (x + 1) <= b * y
  BY <1>1
<1>3. b * (x + 1) = b * x + b
  OBVIOUS
<1> QED
  BY <1>2, <1>3

LEMMA CeilBounds ==
    ASSUME NEW a \in Nat, NEW b \in Nat \ {0}
    PROVE  /\ Ceil(a, b) \in Nat
           /\ a <= b * Ceil(a, b) /\ b * Ceil(a, b) < a + b
<1>1. PICK n \in Nat : n = a + b - 1
  OBVIOUS
<1>2. (n \div b) \in Nat /\ b * (n \div b) <= n /\ n < b * (n \div b) + b
  BY Division
<1>3. PICK c \in Nat : c = n \div b
  BY <1>2
<1>4. PICK m \in Nat : m = b * c
  OBVIOUS
<1>5. m <= n /\ n < m + b
  BY <1>2, <1>3, <1>4
<1>6. a <= m /\ m < a + b
  BY <1>1, <1>5
<1> QED
  BY <1>1, <1>3, <1>4, <1>6 DEF Ceil

LEMMA CeilOfStart ==
    ASSUME NEW p \in Nat \ {0}, NEW b \in Nat \ {0}
    PROVE  (p - 1) * b \in Nat /\ Ceil((p - 1) * b + 1, b) = p
<1>1. PICK k \in Nat : k = p - 1
  OBVIOUS
<1>2. PICK m \in Nat : m = k * b /\ m = b * k
  <2>1. k * b \in Nat /\ k * b = b * k
    OBVIOUS
  <2> QED
    BY <2>1
<1>3. PICK s \in Nat : s = m + 1
  OBVIOUS
<1>4. PICK c \in Nat : c = Ceil(s, b) /\ s <= b * c /\ b * c < s + b
  BY CeilBounds
<1>5. PICK x \in Nat : x = b * c
  OBVIOUS
<1>6. PICK y \in Nat : y = b * p
  OBVIOUS
<1>7. y = m + b
  <2>1. b * (k + 1) = b * k + b
    OBVIOUS
  <2>2. p = k + 1
    BY <1>1
  <2> QED
    BY <1>2, <1>6, <2>1, <2>2
<1>8. ~ (c < p)
  <2> SUFFICES ASSUME c < p PROVE FALSE
    OBVIOUS
  <2>1. x + b <= y
    BY <1>5, <1>6, LargerProduct
  <2> QED
    BY <1>3, <1>4, <1>5, <1>7, <2>1
<1>9. ~ (p < c)
  <2> SUFFICES ASSUME p < c PROVE FALSE
    OBVIOUS
  <2>1. y + b <= x
    BY <1>5, <1>6, LargerProduct
  <2> QED
    BY <1>3, <1>4, <1>5, <1>7, <2>1
<1>10. c = p
  BY <1>8, <1>9
<1> QED
  BY <1>1, <1>2, <1>3, <1>4, <1>10

(* What a result says of its query: the page asked for, and the ranks.     *)
ShowsPageOf(r, q) ==
    /\ r.query = q /\ r.page = q.page /\ r.totalPages = TotalPages(q)
    /\ q.facets \subseteq DOMAIN r.counts
    /\ r.totalPages \in Nat /\ r.page \in Nat \ {0}
    /\ r.size # 0 =>
         /\ r.page <= r.totalPages
         /\ r.size \in Nat
         /\ PageSize * (r.page - 1) = r.start
         /\ ShowingMin(r) = r.start + 1
         /\ ShowingMax(r) = r.start + r.size

LEMMA ResultsOwnPage ==
    ASSUME NEW q, PagedQuery(q) PROVE ShowsPageOf(ResultOf(q), q)
<1> DEFINE r == ResultOf(q)
<1>1. q \in Query /\ q.page \in Nat \ {0} /\ q.keyword \in Keywords /\ q.facets \in SUBSET Options
  BY DEF PagedQuery, Query
<1>2. PICK t \in Nat : t = Hits[q.keyword, q.facets]
  BY <1>1, SearchAssumption
<1>3. PICK p \in Nat \ {0} : p = q.page
  BY <1>1
<1>4. PICK b \in Nat \ {0} : b = PageSize
  BY SearchAssumption
<1>5. PICK s \in Nat : s = (p - 1) * b /\ Ceil(s + 1, b) = p
  BY CeilOfStart
<1>6. r = [query |-> q, start |-> s, total |-> t,
           size |-> IF t < s THEN 0 ELSE IF t - s < b THEN t - s ELSE b,
           page |-> Ceil(s + 1, b), totalPages |-> Ceil(t, b),
           counts |-> MergeFacetCounts(Buckets[q.keyword], q.facets)]
  BY <1>2, <1>3, <1>4, <1>5 DEF ResultOf
<1>7. /\ r.query = q /\ r.start = s /\ r.total = t /\ r.page = p /\ r.totalPages = Ceil(t, b)
      /\ r.size = IF t < s THEN 0 ELSE IF t - s < b THEN t - s ELSE b
      /\ r.counts = MergeFacetCounts(Buckets[q.keyword], q.facets)
  BY <1>5, <1>6
<1> HIDE DEF r
<1>8. r.totalPages = TotalPages(q)
  BY <1>2, <1>4, <1>7 DEF TotalPages
<1>9. q.facets \subseteq DOMAIN r.counts
  BY <1>7 DEF MergeFacetCounts
<1>10. PICK c \in Nat : c = Ceil(t, b) /\ t <= b * c
  BY CeilBounds
<1>11. PICK x \in Nat : x = b * c
  OBVIOUS
<1>12. PICK y \in Nat : y = b * p /\ y = s + b /\ b * (p - 1) = s
  <2>1. PICK k \in Nat : k = p - 1 /\ p = k + 1
    OBVIOUS
  <2>2. b * (k + 1) = b * k + b /\ b * k = k * b /\ b * (k + 1) \in Nat
    OBVIOUS
  <2> QED
    BY <1>5, <2>1, <2>2
<1>13. ASSUME r.size # 0
       PROVE  /\ r.page <= r.totalPages /\ r.size \in Nat
              /\ PageSize * (r.page - 1) = r.start
              /\ ShowingMin(r) = r.start + 1
              /\ ShowingMax(r) = r.start + r.size
  <2>1. s < t /\ r.size \in Nat
    BY <1>7, <1>13
  <2>2. ~ (c < p)
    <3> SUFFICES ASSUME c < p PROVE FALSE
      OBVIOUS
    <3>1. x + b <= y
      BY <1>11, <1>12, LargerProduct
    <3> QED
      BY <1>10, <1>11, <1>12, <2>1, <3>1
  <2>3. PageSize * (r.page - 1) = r.start
    BY <1>4, <1>7, <1>12
  <2>4. ShowingMin(r) = r.start + 1
    BY <2>3 DEF ShowingMin
  <2>5. PageSize * r.page = y
    BY <1>4, <1>7, <1>12
  <2>6. ShowingMax(r) = IF y > t THEN t ELSE y
    BY <1>7, <2>5 DEF ShowingMax
  <2>7. (IF y > t THEN t ELSE y) = s + r.size
    BY <1>7, <1>12, <2>1
  <2>8. r.page <= r.totalPages
    BY <1>7, <1>10, <2>2
  <2> QED
    BY <1>7, <2>1, <2>3, <2>4, <2>6, <2>7, <2>8
<1>14. r.page = q.page /\ r.totalPages \in Nat /\ r.page \in Nat \ {0}
  BY <1>3, <1>7, <1>10
<1> QED
  BY <1>7, <1>8, <1>9, <1>13, <1>14 DEF r, ShowsPageOf

(* Two lists, one after the other, entry by entry.                         *)
Joined(s, t, st) ==
    /\ st \in Seq(Nat) /\ st = s \o t /\ Len(st) = Len(s) + Len(t)
    /\ \A i \in 1 .. Len(s) : st[i] = s[i]
    /\ \A i \in 1 .. Len(t) : st[Len(s) + i] = t[i]

LEMMA JoinedLists ==
    ASSUME NEW s \in Seq(Nat), NEW t \in Seq(Nat) PROVE \E st : Joined(s, t, st)
<1>1. /\ s \o t \in Seq(Nat) /\ Len(s \o t) = Len(s) + Len(t)
      /\ \A i \in 1 .. Len(s) : (s \o t)[i] = s[i]
      /\ \A i \in 1 .. Len(t) : (s \o t)[Len(s) + i] = t[i]
  OBVIOUS
<1>2. Joined(s, t, s \o t)
  BY <1>1 DEF Joined
<1> QED
  BY <1>2

(* A list of no or one entry.                                              *)
AtMost(c, x, s) == s \in Seq(Nat) /\ s = (IF c THEN <<x>> ELSE <<>>)
                     /\ (c => Len(s) = 1 /\ s[1] = x) /\ (~ c => Len(s) = 0)

LEMMA AtMostOne ==
    ASSUME NEW c \in BOOLEAN, NEW x \in Nat PROVE \E s : AtMost(c, x, s)
<1>1. <<x>> \in Seq(Nat) /\ Len(<<x>>) = 1 /\ <<x>>[1] = x
  OBVIOUS
<1>2. << >> \in Seq(Nat) /\ Len(<< >>) = 0
  OBVIOUS
<1>3. CASE c
  <2>1. AtMost(c, x, <<x>>)
    BY <1>1, <1>3 DEF AtMost
  <2> QED
    BY <2>1
<1>4. CASE ~ c
  <2>1. AtMost(c, x, << >>)
    BY <1>2, <1>4 DEF AtMost
  <2> QED
    BY <2>1
<1> QED
  BY <1>3, <1>4

(* The pagination lists every page once and in order, the current one too, *)
(* with an ellipsis only where pages are left out.                         *)
ListsPages(e, current, total) ==
    /\ e[1] = 1 /\ e[Len(e)] = total
    /\ \A i \in 2..Len(e) : IF e[i] = 0 THEN e[i + 1] - e[i - 1] > 1
                            ELSE e[i] = e[i - 1] + 1 \/ e[i - 1] = 0
    /\ \E i \in DOMAIN e : e[i] = current

LEMMA EntriesListPages ==
    ASSUME NEW c \in Nat \ {0}, NEW t \in Nat, c <= t
    PROVE  ListsPages(PageEntries(c, t), c, t)
<1> DEFINE initial == c - Threshold > 2
           last == c + Threshold < t - 1
           from == IF initial THEN c - Threshold ELSE 2
           to == IF last THEN c + Threshold ELSE t - 1
           window == IF to < from THEN <<>> ELSE [i \in 1..(to - from + 1) |-> from + i - 1]
<1>1. Threshold \in Nat
  BY SearchAssumption
<1>2. PICK one : AtMost(TRUE, 1, one)
  BY AtMostOne
<1>a. initial \in BOOLEAN /\ last \in BOOLEAN /\ (t > 1) \in BOOLEAN /\ 0 \in Nat
  BY <1>1
<1>b. from \in Nat /\ to \in Int
  BY <1>1
<1>6. PICK w \in Nat : w = IF to < from THEN 0 ELSE to - from + 1
  <2> HIDE DEF from, to
  <2> QED
    BY <1>b
<1>3. PICK a : AtMost(initial, 0, a)
  <2> HIDE DEF initial
  <2> QED
    BY <1>a, AtMostOne, Zenon
<1>4. PICK b : AtMost(last, 0, b)
  <2> HIDE DEF last
  <2> QED
    BY <1>a, AtMostOne, Zenon
<1>5. PICK z : AtMost(t > 1, t, z)
  <2> DEFINE more == t > 1
  <2>1. more \in BOOLEAN
    BY <1>a
  <2> HIDE DEF more
  <2>2. \E z : AtMost(more, t, z)
    BY <2>1, AtMostOne, Zenon
  <2> QED
    BY <2>2 DEF more
<1>7. window \in Seq(Nat) /\ Len(window) = w /\ \A i \in 1 .. w : window[i] = from + i - 1
  <2>1. CASE to < from
    BY <1>6, <2>1
  <2>2. CASE ~ (to < from)
    <3>1. w = to - from + 1 /\ from \in Nat
      BY <1>1, <1>6, <2>2
    <3>2. window = [i \in 1 .. w |-> from + i - 1]
      BY <2>2, <3>1
    <3> HIDE DEF window, to, from
    <3>3. \A i \in 1 .. w : from + i - 1 \in Nat
      BY <3>1
    <3> QED
      BY <3>2, <3>3
  <2> QED
    BY <2>1, <2>2
<1>8. PICK r \in Seq(Nat) : r = window
  BY <1>7
<1> HIDE DEF window
<1>9. one \in Seq(Nat) /\ a \in Seq(Nat) /\ b \in Seq(Nat) /\ z \in Seq(Nat)
  BY <1>2, <1>3, <1>4, <1>5 DEF AtMost
<1>10. PICK e1 : Joined(one, a, e1)
  BY <1>9, JoinedLists
<1>11. PICK e2 : Joined(e1, r, e2)
  BY <1>10, JoinedLists DEF Joined
<1>12. PICK e3 : Joined(e2, b, e3)
  BY <1>9, <1>11, JoinedLists DEF Joined
<1>13. PICK e : Joined(e3, z, e)
  BY <1>9, <1>12, JoinedLists DEF Joined
<1>14. e = PageEntries(c, t)
  <2>1. PageEntries(c, t) = (((<<1>> \o (IF initial THEN <<0>> ELSE <<>>)) \o window)
                              \o (IF last THEN <<0>> ELSE <<>>)) \o (IF t > 1 THEN <<t>> ELSE <<>>)
    BY Zenon DEF PageEntries, window, initial, last, from, to
  <2> HIDE DEF initial, last
  <2> QED
    BY <1>2, <1>3, <1>4, <1>5, <1>8, <1>10, <1>11, <1>12, <1>13, <2>1, Zenon DEF Joined, AtMost
<1> DEFINE x == IF initial THEN 1 ELSE 0
           y == IF last THEN 1 ELSE 0
           v == IF t > 1 THEN 1 ELSE 0
<1>15. /\ Len(one) = 1 /\ one[1] = 1
       /\ Len(a) = x /\ (initial => a[1] = 0)
       /\ Len(b) = y /\ (last => b[1] = 0)
       /\ Len(z) = v /\ (t > 1 => z[1] = t)
       /\ Len(r) = w /\ \A i \in 1 .. w : r[i] = from + i - 1
  <2> HIDE DEF initial, last, from
  <2> QED
    BY <1>2, <1>3, <1>4, <1>5, <1>7, <1>8 DEF AtMost
<1>16. /\ Len(e) = 1 + x + w + y + v
       /\ e[1] = 1
       /\ initial => e[2] = 0
       /\ \A i \in 1 .. w : e[1 + x + i] = from + i - 1
       /\ last => e[1 + x + w + 1] = 0
       /\ t > 1 => e[1 + x + w + y + 1] = t
  <2>1. x \in 0 .. 1 /\ y \in 0 .. 1 /\ v \in 0 .. 1
    OBVIOUS
  <2>2. (initial => x = 1) /\ (last => y = 1) /\ (t > 1 => v = 1)
    OBVIOUS
  <2> HIDE DEF initial, last, from, to, x, y, v
  <2>3. /\ Len(e1) = 1 + x /\ \A i \in 1 .. 1 : e1[i] = one[i]
        /\ \A i \in 1 .. x : e1[1 + i] = a[i]
    BY <1>10, <1>15, <2>1 DEF Joined
  <2>4. e1[1] = 1 /\ (initial => e1[2] = 0)
    BY <1>15, <2>2, <2>3
  <2>5. /\ Len(e2) = 1 + x + w /\ \A i \in 1 .. 1 + x : e2[i] = e1[i]
        /\ \A i \in 1 .. w : e2[1 + x + i] = r[i]
    BY <1>11, <1>15, <2>1, <2>3 DEF Joined
  <2>6. /\ Len(e3) = 1 + x + w + y /\ \A i \in 1 .. 1 + x + w : e3[i] = e2[i]
        /\ \A i \in 1 .. y : e3[1 + x + w + i] = b[i]
    BY <1>12, <1>15, <2>1, <2>5 DEF Joined
  <2>7. /\ Len(e) = 1 + x + w + y + v /\ \A i \in 1 .. 1 + x + w + y : e[i] = e3[i]
        /\ \A i \in 1 .. v : e[1 + x + w + y + i] = z[i]
    BY <1>13, <1>15, <2>1, <2>6 DEF Joined
  <2>8. e[1] = 1 /\ (initial => e[2] = 0)
    <3>1. 1 \in 1 .. 1 + x /\ 1 \in 1 .. 1 + x + w /\ 1 \in 1 .. 1 + x + w + y
      BY <2>1
    <3>2. initial => 2 \in 1 .. 1 + x /\ 2 \in 1 .. 1 + x + w /\ 2 \in 1 .. 1 + x + w + y
      BY <2>1, <2>2
    <3> QED
      BY <2>4, <2>5, <2>6, <2>7, <3>1, <3>2
  <2>9. \A i \in 1 .. w : e[1 + x + i] = from + i - 1
    <3> SUFFICES ASSUME NEW i \in 1 .. w PROVE e[1 + x + i] = from + i - 1
      OBVIOUS
    <3>1. PICK k \in 1 .. 1 + x + w : k = 1 + x + i /\ k \in 1 .. 1 + x + w + y
      BY <2>1
    <3> QED
      BY <1>15, <2>5, <2>6, <2>7, <3>1
  <2>10. last => e[1 + x + w + 1] = 0
    <3> SUFFICES ASSUME last PROVE e[1 + x + w + 1] = 0
      OBVIOUS
    <3>1. 1 \in 1 .. y /\ 1 + x + w + 1 \in 1 .. 1 + x + w + y
      BY <2>1, <2>2
    <3> QED
      BY <1>15, <2>6, <2>7, <3>1
  <2>11. t > 1 => e[1 + x + w + y + 1] = t
    <3> SUFFICES ASSUME t > 1 PROVE e[1 + x + w + y + 1] = t
      OBVIOUS
    <3>1. 1 \in 1 .. v
      BY <2>2
    <3> QED
      BY <1>15, <2>7, <3>1
  <2> QED
    BY <2>7, <2>8, <2>9, <2>10, <2>11
<1>17. e \in Seq(Nat) /\ DOMAIN e = 1 .. Len(e)
  BY <1>13 DEF Joined
<1>18. e[Len(e)] = t
  <2>1. CASE t > 1
    BY <1>16, <2>1
  <2>2. CASE t = 1
    <3>1. x = 0 /\ y = 0 /\ v = 0 /\ w = 0
      BY <1>1, <1>6, <2>2
    <3> QED
      BY <1>16, <2>2, <3>1
  <2> QED
    BY <2>1, <2>2
<1>19. ASSUME NEW i \in 2 .. Len(e)
       PROVE  IF e[i] = 0 THEN e[i + 1] - e[i - 1] > 1 ELSE e[i] = e[i - 1] + 1 \/ e[i - 1] = 0
  <2>1. t > 1
    <3> SUFFICES ASSUME t = 1 PROVE FALSE
      OBVIOUS
    <3>1. x = 0 /\ y = 0 /\ v = 0 /\ w = 0
      BY <1>1, <1>6
    <3> QED
      BY <1>16, <3>1
  <2>2. v = 1 /\ Len(e) = 1 + x + w + y + 1 /\ e[1 + x + w + y + 1] = t
    BY <1>16, <2>1
  <2>3. CASE initial /\ i = 2
    <3>1. x = 1 /\ from = c - Threshold /\ from > 2
      BY <2>3
    <3>2. e[2] = 0 /\ e[1] = 1
      BY <1>16, <2>3
    <3>3. CASE w > 0
      <4>1. e[1 + x + 1] = from + 1 - 1
        <5> HIDE DEF from, to, x, y, v, initial, last
        <5> QED
          BY <1>16, <3>3
      <4> QED
        BY <1>1, <2>3, <3>1, <3>2, <4>1
    <3>4. CASE w = 0
      <4>1. ~ last
        BY <1>1, <1>6, <2>3, <3>4
      <4>2. y = 0 /\ e[3] = t
        BY <2>2, <3>1, <3>4, <4>1
      <4> QED
        BY <1>1, <2>3, <3>2, <4>2
    <3> QED
      BY <3>3, <3>4
  <2>4. CASE i > 1 + x /\ i <= 1 + x + w
    <3>1. PICK k \in 1 .. w : k = i - 1 - x /\ i = 1 + x + k
      <4>1. x \in 0 .. 1
        OBVIOUS
      <4> HIDE DEF x
      <4> QED
        BY <2>4, <4>1
    <3>2. e[i] = from + k - 1 /\ from >= 2
      <4>1. from >= 2
        BY <1>1
      <4> HIDE DEF from, to, x, y, v, initial, last
      <4> QED
        BY <1>16, <3>1, <4>1
    <3>3. CASE k > 1
      <4>1. PICK l \in 1 .. w : l = k - 1 /\ i - 1 = 1 + x + l
        BY <3>1, <3>3
      <4>2. e[i - 1] = from + l - 1
        <5> HIDE DEF from, to, x, y, v, initial, last
        <5> QED
          BY <1>16, <4>1
      <4> HIDE DEF from, to, x, y, v, initial, last
      <4> QED
        BY <1>b, <3>2, <4>1, <4>2
    <3>4. CASE k = 1 /\ initial
      <4>1. i - 1 = 2
        BY <3>1, <3>4
      <4>2. e[i - 1] = 0
        BY <1>16, <3>4, <4>1
      <4>3. e[i] # 0
        <5> HIDE DEF from
        <5> QED
          BY <1>b, <3>2, <3>4
      <4> QED
        BY <4>2, <4>3, Zenon
    <3>5. CASE k = 1 /\ ~ initial
      <4>1. i - 1 = 1 /\ from = 2
        BY <3>1, <3>5
      <4>2. e[i - 1] = 1
        BY <1>16, <4>1
      <4>3. e[i] = 2
        <5> HIDE DEF from
        <5> QED
          BY <3>2, <3>5, <4>1
      <4> QED
        BY <4>2, <4>3
    <3> QED
      BY <3>3, <3>4, <3>5
  <2>5. CASE last /\ i = 1 + x + w + 1
    <3>1. y = 1 /\ to = c + Threshold /\ e[i] = 0 /\ e[i + 1] = t
      BY <1>16, <2>2, <2>5
    <3>2. CASE w > 0
      <4>1. w = to - from + 1
        <5> HIDE DEF from, to
        <5> QED
          BY <1>6, <1>b, <3>2
      <4>2. e[1 + x + w] = from + w - 1
        <5> HIDE DEF from, to, x, y, v, initial, last
        <5> QED
          BY <1>16, <3>2
      <4>3. i - 1 = 1 + x + w
        BY <2>5
      <4>4. e[i - 1] = to
        <5> HIDE DEF from, to, x, y, v, initial, last
        <5> QED
          BY <1>b, <4>1, <4>2, <4>3
      <4> QED
        BY <1>1, <2>5, <3>1, <4>4
    <3>3. CASE w = 0
      <4>1. ~ initial /\ c = 1 /\ Threshold = 0
        BY <1>1, <1>6, <2>5, <3>3
      <4>2. i - 1 = 1 /\ e[i - 1] = 1
        BY <1>16, <2>5, <3>3, <4>1
      <4> QED
        BY <1>1, <2>5, <3>1, <4>1, <4>2
    <3> QED
      BY <3>2, <3>3
  <2>6. CASE i = Len(e)
    <3>1. e[i] = t /\ t # 0
      BY <1>18, <2>6
    <3>2. CASE last
      <4>1. i - 1 = 1 + x + w + 1
        BY <2>2, <2>6, <3>2
      <4> QED
        BY <1>16, <3>1, <3>2, <4>1
    <3>3. CASE ~ last /\ w > 0
      <4>1. w = to - from + 1 /\ to = t - 1
        BY <1>6, <1>1, <3>3
      <4>2. e[1 + x + w] = from + w - 1
        <5> HIDE DEF from, to, x, y, v, initial, last
        <5> QED
          BY <1>16, <3>3
      <4>3. i - 1 = 1 + x + w
        BY <2>2, <2>6, <3>3
      <4>4. e[i - 1] = t - 1
        <5> HIDE DEF from, to, x, y, v, initial, last
        <5> QED
          BY <1>b, <4>1, <4>2, <4>3
      <4> QED
        BY <3>1, <4>4
    <3>4. CASE ~ last /\ w = 0 /\ initial
      <4>1. i - 1 = 2
        BY <2>2, <2>6, <3>4
      <4> QED
        BY <1>16, <3>1, <3>4, <4>1
    <3>5. CASE ~ last /\ w = 0 /\ ~ initial
      <4>1. i - 1 = 1 /\ t = 2
        BY <1>6, <2>1, <2>2, <2>6, <3>5
      <4>2. e[1] = 1
        BY <1>16
      <4> QED
        BY <3>1, <4>1, <4>2
    <3> QED
      BY <3>2, <3>3, <3>4, <3>5
  <2>7. \/ initial /\ i = 2
        \/ i > 1 + x /\ i <= 1 + x + w
        \/ last /\ i = 1 + x + w + 1
        \/ i = Len(e)
    <3>1. (initial /\ x = 1) \/ (~ initial /\ x = 0)
      OBVIOUS
    <3>2. (last /\ y = 1) \/ (~ last /\ y = 0)
      OBVIOUS
    <3> HIDE DEF initial, last, x, y, v, from, to
    <3> QED
      BY <2>2, <3>1, <3>2
  <2> QED
    BY <2>3, <2>4, <2>5, <2>6, <2>7
<1>20. \E i \in DOMAIN e : e[i] = c
  <2>1. CASE c = 1
    BY <1>16, <1>17, <2>1
  <2>2. CASE c = t
    BY <1>16, <1>17, <1>18, <2>2
  <2>3. CASE 1 < c /\ c < t
    <3>1. from <= c /\ c <= to
      BY <1>1, <2>3
    <3>2. PICK k \in 1 .. w : k = c - from + 1
      <4> HIDE DEF from, to
      <4> QED
        BY <1>6, <1>b, <3>1
    <3>3. e[1 + x + k] = c /\ 1 + x + k \in 1 .. Len(e)
      <4>1. from + k - 1 = c
        BY <1>b, <3>2
      <4>2. x \in 0 .. 1 /\ y \in 0 .. 1 /\ v \in 0 .. 1
        OBVIOUS
      <4>3. e[1 + x + k] = from + k - 1
        <5> HIDE DEF from, to, x, y, v, initial, last
        <5> QED
          BY <1>16
      <4> HIDE DEF from, to, x, y, v, initial, last
      <4>4. 1 + x + k \in 1 .. 1 + x + w + y + v
        BY <4>2
      <4> QED
        BY <1>16, <4>1, <4>3, <4>4
    <3> QED
      BY <1>17, <3>3
  <2> QED
    BY <2>1, <2>2, <2>3
<1> QED
  BY <1>14, <1>16, <1>18, <1>19, <1>20 DEF ListsPages

(* The searches left when one is answered.                                 *)
LeavesRest(list, i, rest) ==
    /\ rest = RemoveAt(list, i) /\ rest \in Seq(Query)
    /\ \A k \in DOMAIN rest : \E l \in DOMAIN list : rest[k] = list[l]
    /\ i # Len(list) => rest # <<>> /\ rest[Len(rest)] = list[Len(list)]

LEMMA AnsweredLeavesRest ==
    ASSUME NEW list \in Seq(Query), NEW i \in DOMAIN list
    PROVE  \E rest : LeavesRest(list, i, rest)
<1> DEFINE n == Len(list)  rest == Without(list, i)
<1>1. n \in Nat /\ i \in 1 .. n /\ DOMAIN list = 1 .. n
  OBVIOUS
<1>2. /\ rest \in Seq(Query) /\ Len(rest) = n - 1
      /\ \A k \in 1 .. n - 1 : rest[k] = IF k < i THEN list[k] ELSE list[k + 1]
  BY <1>1, WithoutEntry
<1>3. RemoveAt(list, i) = rest
  BY Zenon DEF RemoveAt, Without
<1> HIDE DEF rest
<1>4. ASSUME NEW k \in DOMAIN rest PROVE \E l \in DOMAIN list : rest[k] = list[l]
  <2>1. k \in 1 .. n - 1 /\ k \in 1 .. n /\ k + 1 \in 1 .. n
    BY <1>1, <1>2
  <2> QED
    BY <1>1, <1>2, <2>1
<1>5. ASSUME i # n PROVE rest # <<>> /\ rest[Len(rest)] = list[n]
  <2>1. n - 1 \in 1 .. n - 1 /\ ~ (n - 1 < i)
    BY <1>1, <1>5
  <2>2. rest[n - 1] = list[n]
    BY <1>1, <1>2, <2>1
  <2>3. rest # <<>>
    BY <1>1, <1>2, <2>1
  <2> QED
    BY <1>2, <2>2, <2>3
<1>6. LeavesRest(list, i, rest)
  BY <1>2, <1>3, <1>4, <1>5 DEF LeavesRest
<1> QED
  BY <1>6

LEMMA ResultIsThere ==
    \A q : ResultOf(q) # NoResult
<1> SUFFICES ASSUME NEW q PROVE ResultOf(q) # NoResult
  OBVIOUS
<1>1. "query" \in DOMAIN ResultOf(q)
  BY DEF ResultOf
<1>2. "query" \notin DOMAIN NoResult
  BY DEF NoResult
<1> QED
  BY <1>1, <1>2

LEMMA MapNamesFacets ==
    \A facets : /\ ToFacetSelectionsArray(FacetFromParamUrl(facets)) = facets
                /\ DOMAIN FacetFromParamUrl(facets) = facets
BY DEF ToFacetSelectionsArray, FacetFromParamUrl, ToFacetSelectionsMap

(* One more search, for the new query of the URL.                          *)
LEMMA AppendedSearch ==
    ASSUME inFlight \in Seq(Query), \A i \in DOMAIN inFlight : PagedQuery(inFlight[i]),
           NEW q, PagedQuery(q), inFlight' = Append(inFlight, q)
    PROVE  /\ inFlight' \in Seq(Query) /\ \A i \in DOMAIN inFlight' : PagedQuery(inFlight'[i])
           /\ inFlight' # <<>> /\ inFlight'[Len(inFlight')] = q
<1>1. q \in Query
  BY DEF PagedQuery
<1> QED
  BY <1>1

(* The URL gets another query while the page is shown.                     *)
LEMMA ShownQueryAgrees ==
    ASSUME SearchInv, route = "search", NEW q, PagedQuery(q), ShowQuery(q),
           changing' \in BOOLEAN, timers' \subseteq timers,
           \A t \in timers \ timers' : ToFacetSelectionsArray(t.sel) = q.facets,
           overtaken = "never" => q.page <= TotalPages(q) \/ q.page = 1
    PROVE  SearchInv'
<1>1. SearchTypeOK /\ AnswersAsked
  BY DEF SearchInv
<1>2. /\ url' = q /\ keyword' = q.keyword /\ UNCHANGED <<route, result, overtaken>>
      /\ SearchIfChanged(q)
  BY DEF ShowQuery
<1>3. q \in Query /\ q.page >= 1 /\ q.keyword \in Keywords /\ q.facets \subseteq Options
  BY DEF PagedQuery, Query
<1>4. /\ DOMAIN selections' \subseteq Options
      /\ \/ ToFacetSelectionsArray(selections') = q.facets
         \/ selections' = selections /\ q.facets = url.facets
  BY <1>1, <1>3, MapNamesFacets DEF ShowQuery, SearchTypeOK
<1>5. CASE q = url
  <2>1. UNCHANGED <<task, inFlight>>
    BY <1>2, <1>5 DEF SearchIfChanged
  <2>2. SearchTypeOK'
    BY <1>1, <1>2, <1>3, <1>4, <2>1 DEF SearchTypeOK
  <2>3. BoxesAreDue'
    BY <1>2, <1>4 DEF SearchInv, BoxesAreDue
  <2> QED
    BY <1>2, <1>5, <2>1, <2>2, <2>3
       DEF SearchInv, TimersAreChanges, RunsForUrl, AnswersAsked, NothingBehind, IdleShowsUrl, PageOfUrlExists
<1>6. CASE q # url
  <2>1. task' = "running" /\ inFlight' = Append(inFlight, q)
    BY <1>2, <1>6 DEF SearchIfChanged
  <2>2. /\ inFlight' \in Seq(Query) /\ \A i \in DOMAIN inFlight' : PagedQuery(inFlight'[i])
        /\ inFlight' # <<>> /\ inFlight'[Len(inFlight')] = q
    BY <1>1, <2>1, AppendedSearch DEF SearchTypeOK, AnswersAsked
  <2>3. SearchTypeOK'
    BY <1>1, <1>2, <1>3, <1>4, <2>1, <2>2 DEF SearchTypeOK
  <2>4. BoxesAreDue'
    BY <1>2, <1>4 DEF SearchInv, BoxesAreDue
  <2>5. AnswersAsked' /\ RunsForUrl' /\ NothingBehind' /\ IdleShowsUrl'
    BY <1>1, <1>2, <2>1, <2>2 DEF AnswersAsked, RunsForUrl, NothingBehind, IdleShowsUrl
  <2>6. PageOfUrlExists'
    <3>1. TotalPages(url)' = TotalPages(q)
      BY <1>2 DEF TotalPages
    <3> QED
      BY <1>2, <3>1 DEF PageOfUrlExists
  <2> QED
    BY <2>3, <2>4, <2>5, <2>6 DEF SearchInv, TimersAreChanges
<1> QED
  BY <1>5, <1>6

(* The page is entered with a query.                                       *)
LEMMA EnteredPageAgrees ==
    ASSUME SearchInv, NEW q, PagedQuery(q), EnterSearch(q),
           overtaken = "never" => q.page <= TotalPages(q) \/ q.page = 1
    PROVE  SearchInv'
<1>1. SearchTypeOK
  BY DEF SearchInv
<1>2. /\ route' = "search" /\ url' = q /\ keyword' = q.keyword /\ changing' = FALSE
      /\ selections' = FacetFromParamUrl(q.facets)
      /\ task' = "running" /\ inFlight' = <<q>> /\ result' = NoResult /\ timers' = timers
      /\ overtaken' = IF overtaken = "never" THEN "never" ELSE "past"
  BY DEF EnterSearch
<1>3. q \in Query /\ q.page >= 1 /\ q.keyword \in Keywords /\ q.facets \subseteq Options
  BY DEF PagedQuery, Query
<1>4. /\ inFlight' \in Seq(Query) /\ \A i \in DOMAIN inFlight' : inFlight'[i] = q
      /\ inFlight' # <<>> /\ inFlight'[Len(inFlight')] = q
  BY <1>2, <1>3
<1>5. /\ DOMAIN selections' \subseteq Options
      /\ ToFacetSelectionsArray(selections') = q.facets
  BY <1>2, <1>3, MapNamesFacets
<1>6. SearchTypeOK'
  BY <1>1, <1>2, <1>3, <1>4, <1>5 DEF SearchTypeOK
<1>7. AnswersAsked' /\ RunsForUrl' /\ NothingBehind' /\ IdleShowsUrl' /\ BoxesAreDue'
  BY <1>2, <1>4, <1>5 DEF AnswersAsked, RunsForUrl, NothingBehind, IdleShowsUrl, BoxesAreDue
<1>8. PageOfUrlExists'
  <2>1. TotalPages(url)' = TotalPages(q)
    BY <1>2 DEF TotalPages
  <2> QED
    BY <1>2, <2>1 DEF PageOfUrlExists
<1> QED
  BY <1>2, <1>6, <1>7, <1>8 DEF SearchInv, TimersAreChanges

(* The user ticks a box, or clears a facet.                                *)
LEMMA ChangedBoxesAreDue ==
    ASSUME SearchInv, NEW sel, DOMAIN sel \subseteq Options, OnFacetsChange(sel), route = "search"
    PROVE  SearchInv'
<1> DEFINE t == [sel |-> sel, mine |-> TRUE]
<1>1. SearchTypeOK
  BY DEF SearchInv
<1>2. /\ selections' = sel /\ changing' = TRUE
      /\ timers' = {x \in timers : ~ x.mine} \cup {t}
      /\ UNCHANGED <<route, url, keyword, task, inFlight, result, overtaken>>
  BY DEF OnFacetsChange
<1>3. t.sel = sel /\ t.mine \in BOOLEAN /\ t = [sel |-> t.sel, mine |-> t.mine]
  OBVIOUS
<1> HIDE DEF t
<1>4. SearchTypeOK'
  BY <1>1, <1>2, <1>3 DEF SearchTypeOK
<1>5. BoxesAreDue'
  BY <1>2, <1>3 DEF BoxesAreDue
<1>6. UNCHANGED TotalPages(url)
  BY <1>2 DEF TotalPages
<1>7. TimersAreChanges'
  BY <1>2, <1>3 DEF SearchInv, TimersAreChanges
<1> QED
  BY <1>2, <1>4, <1>5, <1>6, <1>7
     DEF SearchInv, RunsForUrl, AnswersAsked, NothingBehind, IdleShowsUrl, PageOfUrlExists

(* An answer, or a failure, of one of the searches.                        *)
LEMMA AnswerAgrees ==
    ASSUME SearchInv, NEW i \in DOMAIN inFlight, SearchEntities(i)
    PROVE  SearchInv'
<1>1. SearchTypeOK /\ AnswersAsked
  BY DEF SearchInv
<1>2. PICK q : q = inFlight[i] /\ PagedQuery(q) /\ q \in Query
  BY <1>1 DEF AnswersAsked, PagedQuery
<1>3. inFlight \in Seq(Query) /\ inFlight # <<>>
  <2>1. inFlight \in Seq(Query)
    BY <1>1 DEF SearchTypeOK
  <2> QED
    BY <2>1
<1>4. route = "search"
  BY <1>3 DEF SearchInv, NothingBehind
<1>5. /\ result' = ResultOf(q) /\ selections' = FacetFromParamUrl(url.facets)
      /\ inFlight' = RemoveAt(inFlight, i)
      /\ task' = IF IsNewest(i) THEN "idle" ELSE task
      /\ overtaken' = IF ~IsNewest(i) THEN "now"
                      ELSE IF overtaken = "now" THEN "past" ELSE overtaken
      /\ UNCHANGED <<route, url, keyword, changing, timers>>
  BY <1>2 DEF SearchEntities
<1>6. PICK rest : LeavesRest(inFlight, i, rest)
  BY <1>3, AnsweredLeavesRest
<1>7. /\ inFlight' = rest /\ rest \in Seq(Query)
      /\ \A k \in DOMAIN rest : PagedQuery(rest[k])
      /\ i # Len(inFlight) => rest # <<>> /\ rest[Len(rest)] = inFlight[Len(inFlight)]
  BY <1>1, <1>5, <1>6 DEF LeavesRest, AnswersAsked
<1>8. ShowsPageOf(ResultOf(q), q)
  BY <1>2, ResultsOwnPage
<1>9. result' # NoResult /\ result'.query = q
  BY <1>5, <1>8, ResultIsThere DEF ShowsPageOf
<1>10. url.facets \subseteq Options
  BY <1>1 DEF SearchTypeOK, Query
<1>11. SearchTypeOK'
  BY <1>1, <1>2, <1>5, <1>7, <1>9, <1>10, MapNamesFacets DEF SearchTypeOK
<1>12. BoxesAreDue'
  BY <1>5, MapNamesFacets DEF BoxesAreDue
<1>13. AnswersAsked'
  <2>1. result' = ResultOf(result'.query)
    BY <1>5, <1>9
  <2> QED
    BY <1>2, <1>7, <1>9, <2>1 DEF AnswersAsked
<1>14. RunsForUrl'
  BY <1>4, <1>5, <1>7 DEF SearchInv, RunsForUrl, IsNewest
<1>15. NothingBehind'
  BY <1>4, <1>5 DEF NothingBehind
<1>16. IdleShowsUrl'
  BY <1>2, <1>4, <1>5, <1>9 DEF SearchInv, RunsForUrl, IdleShowsUrl, IsNewest
<1>17. PageOfUrlExists'
  <2>1. UNCHANGED TotalPages(url)
    BY <1>5 DEF TotalPages
  <2> QED
    BY <1>5, <2>1 DEF SearchInv, PageOfUrlExists
<1> QED
  BY <1>5, <1>11, <1>12, <1>13, <1>14, <1>15, <1>16, <1>17 DEF SearchInv, TimersAreChanges

LEMMA FailureAgrees ==
    ASSUME SearchInv, NEW i \in DOMAIN inFlight, SearchFails(i)
    PROVE  SearchInv'
<1>1. SearchTypeOK /\ AnswersAsked
  BY DEF SearchInv
<1>3. inFlight \in Seq(Query) /\ inFlight # <<>>
  <2>1. inFlight \in Seq(Query)
    BY <1>1 DEF SearchTypeOK
  <2> QED
    BY <2>1
<1>4. route = "search"
  BY <1>3 DEF SearchInv, NothingBehind
<1>5. /\ inFlight' = RemoveAt(inFlight, i)
      /\ task' = IF IsNewest(i) THEN "error" ELSE task
      /\ UNCHANGED <<route, url, keyword, selections, changing, timers, result, overtaken>>
  BY DEF SearchFails
<1>6. PICK rest : LeavesRest(inFlight, i, rest)
  BY <1>3, AnsweredLeavesRest
<1>7. /\ inFlight' = rest /\ rest \in Seq(Query)
      /\ \A k \in DOMAIN rest : PagedQuery(rest[k])
      /\ i # Len(inFlight) => rest # <<>> /\ rest[Len(rest)] = inFlight[Len(inFlight)]
  BY <1>1, <1>5, <1>6 DEF LeavesRest, AnswersAsked
<1>8. SearchTypeOK'
  BY <1>1, <1>5, <1>7 DEF SearchTypeOK
<1>9. RunsForUrl'
  BY <1>4, <1>5, <1>7 DEF SearchInv, RunsForUrl, IsNewest
<1>10. AnswersAsked'
  BY <1>1, <1>5, <1>7 DEF AnswersAsked
<1>11. UNCHANGED TotalPages(url)
  BY <1>5 DEF TotalPages
<1> QED
  BY <1>4, <1>5, <1>8, <1>9, <1>10, <1>11
     DEF SearchInv, TimersAreChanges, BoxesAreDue, NothingBehind, IdleShowsUrl, PageOfUrlExists

LEMMA RetryAgrees ==
    ASSUME SearchInv, Retry
    PROVE  SearchInv'
<1>1. SearchTypeOK /\ AnswersAsked
  BY DEF SearchInv
<1>2. PICK q : q = url /\ PagedQuery(q)
  BY <1>1 DEF SearchTypeOK, PagedQuery
<1>3. /\ task = "error" /\ task' = "running" /\ inFlight' = Append(inFlight, q)
      /\ UNCHANGED <<route, url, keyword, selections, changing, timers, result, overtaken>>
  BY <1>2 DEF Retry
<1>4. /\ inFlight' \in Seq(Query) /\ \A i \in DOMAIN inFlight' : PagedQuery(inFlight'[i])
      /\ inFlight' # <<>> /\ inFlight'[Len(inFlight')] = q
  BY <1>1, <1>2, <1>3, AppendedSearch DEF SearchTypeOK, AnswersAsked
<1>5. SearchTypeOK'
  BY <1>1, <1>3, <1>4 DEF SearchTypeOK
<1>6. UNCHANGED TotalPages(url)
  BY <1>3 DEF TotalPages
<1>7. AnswersAsked' /\ RunsForUrl'
  BY <1>1, <1>2, <1>3, <1>4 DEF AnswersAsked, RunsForUrl
<1> QED
  BY <1>3, <1>5, <1>6, <1>7
     DEF SearchInv, TimersAreChanges, BoxesAreDue, NothingBehind, IdleShowsUrl, PageOfUrlExists

LEMMA LeavingAgrees ==
    ASSUME SearchInv, NEW to \in {"entity", "other"}, WillTransition(to)
    PROVE  SearchInv'
<1>1. SearchTypeOK
  BY DEF SearchInv
<1>2. /\ route' = to /\ to # "search" /\ keyword' = NoKeyword /\ changing' = FALSE
      /\ timers' = {[t EXCEPT !.mine = FALSE] : t \in timers}
      /\ task' = "idle" /\ inFlight' = <<>> /\ result' = NoResult
      /\ overtaken' = IF overtaken = "never" THEN "never" ELSE "past"
      /\ UNCHANGED <<url, selections>>
  BY DEF WillTransition
<1>3. \A t \in timers' : /\ DOMAIN t.sel \subseteq Options /\ t.mine \in BOOLEAN
                          /\ t = [sel |-> t.sel, mine |-> t.mine]
  <2> SUFFICES ASSUME NEW t \in timers, NEW x, x = [t EXCEPT !.mine = FALSE]
               PROVE  /\ DOMAIN x.sel \subseteq Options /\ x.mine \in BOOLEAN
                      /\ x = [sel |-> x.sel, mine |-> x.mine]
    BY <1>2
  <2>1. t = [sel |-> t.sel, mine |-> t.mine] /\ DOMAIN t.sel \subseteq Options
    BY <1>1 DEF SearchInv, TimersAreChanges, SearchTypeOK
  <2>2. x = [sel |-> t.sel, mine |-> FALSE]
    BY <2>1
  <2> QED
    BY <2>1, <2>2
<1>4. SearchTypeOK'
  <2>1. << >> \in Seq(Query)
    OBVIOUS
  <2> QED
    BY <1>1, <1>2, <1>3, <2>1 DEF SearchTypeOK
<1>5. AnswersAsked'
  <2>1. DOMAIN << >> = {}
    OBVIOUS
  <2> QED
    BY <1>2, <2>1 DEF AnswersAsked
<1>6. UNCHANGED TotalPages(url)
  BY <1>2 DEF TotalPages
<1> QED
  BY <1>2, <1>3, <1>4, <1>5, <1>6
     DEF SearchInv, TimersAreChanges, RunsForUrl, BoxesAreDue, NothingBehind, IdleShowsUrl, PageOfUrlExists

LEMMA SearchStarts == SearchInit => SearchInv
<1> SUFFICES ASSUME SearchInit PROVE SearchInv
  OBVIOUS
<1>1. PICK k \in Keywords : url = [keyword |-> k, page |-> 1, facets |-> DefaultFacets]
  BY DEF SearchInit, ControllerInit
<1>2. url \in Query /\ url.page = 1
  BY <1>1, SearchAssumption DEF Query
<1>3. << >> \in Seq(Query) /\ DOMAIN << >> = {}
  OBVIOUS
<1>4. /\ route = "other" /\ keyword = NoKeyword /\ overtaken = "never" /\ changing = FALSE
      /\ timers = {} /\ task = "idle" /\ inFlight = << >> /\ result = NoResult /\ selections = << >>
  BY DEF SearchInit, ContainerInit, FacetsInit
<1>5. SearchTypeOK
  <2>1. url \in Query /\ url.page >= 1 /\ keyword \in Keywords \cup {NoKeyword}
    BY <1>2, <1>4
  <2>2. inFlight \in Seq(Query) /\ DOMAIN selections \subseteq Options
    BY <1>3, <1>4
  <2>3. /\ route \in {"search", "entity", "other"} /\ changing \in BOOLEAN
        /\ \A t \in timers : DOMAIN t.sel \subseteq Options /\ t.mine \in BOOLEAN
        /\ task \in {"idle", "running", "error"} /\ (result = NoResult \/ result.query \in Query)
        /\ overtaken \in {"never", "past", "now"}
    BY <1>4
  <2> QED
    BY <2>1, <2>2, <2>3 DEF SearchTypeOK
<1> QED
  BY <1>2, <1>3, <1>4, <1>5
     DEF SearchInv, TimersAreChanges, RunsForUrl, AnswersAsked, BoxesAreDue,
         NothingBehind, IdleShowsUrl, PageOfUrlExists

LEMMA SearchSteps == SearchInv /\ [SearchNext]_searchVars => SearchInv'
<1> SUFFICES ASSUME SearchInv, [SearchNext]_searchVars PROVE SearchInv'
  OBVIOUS
<1>1. SearchTypeOK
  BY DEF SearchInv
<1>2. ASSUME NEW k \in Keywords, OnSearch(k) PROVE SearchInv'
  <2>1. PICK q : q = [keyword |-> k, page |-> 1, facets |-> DefaultFacets]
    OBVIOUS
  <2>2. PagedQuery(q) /\ q.page = 1
    BY <2>1, SearchAssumption DEF PagedQuery, Query
  <2>3. \/ EnterSearch(q)
        \/ route = "search" /\ ShowQuery(q) /\ UNCHANGED <<changing, timers>>
    BY <1>2, <2>1 DEF OnSearch
  <2>4. CASE EnterSearch(q)
    BY <2>2, <2>4, EnteredPageAgrees
  <2>5. CASE route = "search" /\ ShowQuery(q) /\ UNCHANGED <<changing, timers>>
    <3>1. changing' \in BOOLEAN /\ timers' \subseteq timers /\ timers \ timers' = {}
      BY <1>1, <2>5 DEF SearchTypeOK
    <3> QED
      BY <2>2, <2>5, <3>1, ShownQueryAgrees
  <2> QED
    BY <2>3, <2>4, <2>5
<1>3. ASSUME Return PROVE SearchInv'
  <2>1. PICK q : q = url /\ PagedQuery(q)
    BY <1>1 DEF SearchTypeOK, PagedQuery
  <2>2. EnterSearch(q)
    BY <1>3, <2>1 DEF Return
  <2>3. overtaken = "never" => q.page <= TotalPages(q) \/ q.page = 1
    BY <2>1 DEF SearchInv, PageOfUrlExists
  <2> QED
    BY <2>1, <2>2, <2>3, EnteredPageAgrees
<1>4. ASSUME NEW to \in {"entity", "other"}, WillTransition(to) PROVE SearchInv'
  BY <1>4, LeavingAgrees
<1>5. ASSUME NEW p \in 1 .. (IF ResultsShown THEN result.totalPages ELSE 0), GoToPage(p)
      PROVE  SearchInv'
  <2>1. /\ ResultsShown /\ ShowQuery([url EXCEPT !.page = p]) /\ UNCHANGED <<changing, timers>>
    BY <1>5 DEF GoToPage
  <2>2. route = "search" /\ task = "idle" /\ result # NoResult
    BY <2>1 DEF ResultsShown
  <2>3. PICK r : r = result.query /\ PagedQuery(r) /\ result = ResultOf(r)
    BY <2>2 DEF SearchInv, AnswersAsked
  <2>4. result.totalPages = TotalPages(r) /\ TotalPages(r) \in Nat
    BY <2>3, ResultsOwnPage DEF ShowsPageOf
  <2>5. p \in 1 .. TotalPages(r) /\ p \in Nat /\ p >= 1
    BY <2>1, <2>4
  <2>6. url \in Query
    BY <1>1 DEF SearchTypeOK
  <2>7. PICK q : q = [url EXCEPT !.page = p]
    OBVIOUS
  <2>8. /\ PagedQuery(q) /\ q.page = p /\ q.keyword = url.keyword /\ q.facets = url.facets
    BY <2>5, <2>6, <2>7 DEF PagedQuery, Query
  <2>9. overtaken = "never" => q.page <= TotalPages(q)
    <3> SUFFICES ASSUME overtaken = "never" PROVE q.page <= TotalPages(q)
      OBVIOUS
    <3>1. r = url
      BY <2>2, <2>3 DEF SearchInv, IdleShowsUrl
    <3>2. TotalPages(q) = TotalPages(r)
      BY <2>8, <3>1 DEF TotalPages
    <3> QED
      BY <2>4, <2>5, <2>8, <3>2
  <2>10. changing' \in BOOLEAN /\ timers' \subseteq timers /\ timers \ timers' = {}
    BY <1>1, <2>1 DEF SearchTypeOK
  <2> QED
    BY <2>1, <2>2, <2>7, <2>8, <2>9, <2>10, ShownQueryAgrees
<1>6. ASSUME NEW o \in Options, OnFacetChange(o) PROVE SearchInv'
  <2>1. DOMAIN Toggle(selections, o) \subseteq Options
    BY <1>1 DEF SearchTypeOK, Toggle
  <2> QED
    BY <1>6, <2>1, ChangedBoxesAreDue DEF OnFacetChange
<1>7. ASSUME NEW name, OnFacetClear(name) PROVE SearchInv'
  <2>1. DOMAIN ClearFacet(selections, name) \subseteq Options
    BY <1>1 DEF SearchTypeOK, ClearFacet
  <2> QED
    BY <1>7, <2>1, ChangedBoxesAreDue DEF OnFacetClear
<1>8. ASSUME NEW t \in timers, OnFacetsDidChange(t) PROVE SearchInv'
  <2>1. /\ timers' = timers \ {t} /\ changing' = (changing /\ ~t.mine)
        /\ IF route = "search" THEN ShowQuery(OnFacetsParamChange(t.sel))
           ELSE UNCHANGED <<route, url, keyword, selections, task, inFlight, result, overtaken>>
    BY <1>8 DEF OnFacetsDidChange
  <2>2. changing' \in BOOLEAN /\ timers' \subseteq timers
    BY <1>1, <2>1 DEF SearchTypeOK
  <2>3. CASE route = "search"
    <3>1. PICK q : q = OnFacetsParamChange(t.sel)
      OBVIOUS
    <3>2. url \in Query /\ ToFacetSelectionsArray(t.sel) \subseteq Options
      BY <1>1 DEF SearchTypeOK, ToFacetSelectionsArray
    <3>3. PagedQuery(q) /\ q.page = 1 /\ q.facets = ToFacetSelectionsArray(t.sel)
      <4>1. PICK k \in Keywords, n \in Nat, f \in SUBSET Options :
              url = [keyword |-> k, page |-> n, facets |-> f]
        BY <3>2 DEF Query
      <4>2. PICK g \in SUBSET Options : g = ToFacetSelectionsArray(t.sel)
        BY <3>2
      <4>3. q = [keyword |-> k, page |-> 1, facets |-> g]
        BY <3>1, <4>1, <4>2 DEF OnFacetsParamChange, FacetToParamUrl
      <4> QED
        BY <4>2, <4>3 DEF PagedQuery, Query
    <3>4. \A x \in timers \ timers' : ToFacetSelectionsArray(x.sel) = q.facets
      BY <2>1, <3>3
    <3> QED
      BY <2>1, <2>2, <2>3, <3>1, <3>3, <3>4, ShownQueryAgrees
  <2>4. CASE route # "search"
    <3>1. UNCHANGED <<route, url, keyword, selections, task, inFlight, result, overtaken>>
      BY <2>1, <2>4
    <3>2. UNCHANGED TotalPages(url)
      BY <3>1 DEF TotalPages
    <3>3. SearchTypeOK' /\ TimersAreChanges'
      BY <1>1, <2>2, <3>1 DEF SearchInv, SearchTypeOK, TimersAreChanges
    <3> QED
      BY <2>4, <3>1, <3>2, <3>3
         DEF SearchInv, RunsForUrl, AnswersAsked, BoxesAreDue, NothingBehind, IdleShowsUrl,
             PageOfUrlExists
  <2> QED
    BY <2>3, <2>4
<1>9. ASSUME NEW i \in DOMAIN inFlight, SearchEntities(i) \/ SearchFails(i) PROVE SearchInv'
  BY <1>9, AnswerAgrees, FailureAgrees
<1>10. ASSUME Retry PROVE SearchInv'
  BY <1>10, RetryAgrees
<1>11. ASSUME UNCHANGED searchVars PROVE SearchInv'
  <2>1. UNCHANGED TotalPages(url)
    BY <1>11 DEF searchVars, TotalPages
  <2> QED
    BY <1>11, <2>1
       DEF searchVars, SearchInv, SearchTypeOK, TimersAreChanges, RunsForUrl, AnswersAsked,
           BoxesAreDue, NothingBehind, IdleShowsUrl, PageOfUrlExists
<1> QED
  BY <1>2, <1>3, <1>4, <1>5, <1>6, <1>7, <1>8, <1>9, <1>10, <1>11 DEF SearchNext

LEMMA SearchGives == SearchInv => SearchPageAgrees
<1> SUFFICES ASSUME SearchInv PROVE SearchPageAgrees
  OBVIOUS
<1>1. /\ SearchTypeOK /\ IdleShowsUrl /\ PageExists /\ FacetsFollowTheUser
  BY DEF SearchInv, PageOfUrlExists, PageExists, BoxesAreDue, FacetsFollowTheUser
<1>2. ASSUME ResultsShown PROVE ShowsPageOf(result, result.query)
  BY <1>2, ResultsOwnPage DEF ResultsShown, SearchInv, AnswersAsked
<1>3. SelectedCanBeCleared
  <2> SUFFICES ASSUME ResultsShown, overtaken # "now" PROVE url.facets \subseteq DOMAIN result.counts
    BY DEF SelectedCanBeCleared
  <2>1. result.query = url
    BY DEF ResultsShown, SearchInv, IdleShowsUrl
  <2> QED
    BY <1>2, <2>1 DEF ShowsPageOf
<1>4. EllipsesHidePages
  <2> SUFFICES ASSUME ResultsShown, ~ ShowNoResult(result)
               PROVE  ListsPages(PageEntries(result.page, result.totalPages), result.page, result.totalPages)
    BY Zenon DEF EllipsesHidePages, ListsPages
  <2>1. /\ result.page \in Nat \ {0} /\ result.totalPages \in Nat
        /\ result.page <= result.totalPages
    BY <1>2 DEF ShowsPageOf, ShowNoResult
  <2> QED
    BY <2>1, EntriesListPages
<1>5. RanksContinue
  <2> SUFFICES ASSUME ResultsShown, ~ ShowNoResult(result)
               PROVE  /\ \A i \in 0..(result.size - 1) :
                           SearchResultItemIndex(result.page, i) = result.start + i + 1
                      /\ ShowingMin(result) = result.start + 1
                      /\ ShowingMax(result) = result.start + result.size
    BY DEF RanksContinue
  <2>1. /\ PageSize * (result.page - 1) = result.start
        /\ ShowingMin(result) = result.start + 1
        /\ ShowingMax(result) = result.start + result.size
    BY <1>2 DEF ShowsPageOf, ShowNoResult
  <2>2. ASSUME NEW i \in 0..(result.size - 1)
        PROVE  SearchResultItemIndex(result.page, i) = result.start + i + 1
    BY <2>1 DEF SearchResultItemIndex
  <2> QED
    BY <2>1, <2>2
<1> QED
  BY <1>1, <1>3, <1>4, <1>5 DEF SearchPageAgrees

(* The results, the facets, the page links and the URL of the search page  *)
(* agree, for any keywords, facets, hits, buckets and page size: however   *)
(* answers, debounced changes and navigation fall together, an idle page   *)
(* shows the query of its URL, at the right page and ranks, unless a late  *)
(* answer has just overtaken the newest.                                   *)
THEOREM SearchPageIsInAgreement == SearchSpec => []SearchPageAgrees
BY SearchStarts, SearchSteps, SearchGives, PTL DEF SearchSpec

-----------------------------------------------------------------------------
(* Requests and their cache.                                               *)

FetchArgs == FetchEntities \X FetchTexts
Urls == {BuildUrl(a[1], a[2]) : a \in Apis \X FetchArgs}
AnswerSet == [of : Urls \cup {Default.of, NoAnswer.of}, data : 0 .. 1]
RequestSet == [url : Urls, state : Outcomes \cup {"waiting"}, answer : AnswerSet]
CallSet == [api : Apis, args : FetchArgs, request : Nat, state : {"waiting", "ok", "failed"}, answer : AnswerSet]

\* What a call asks for.
AskedBy(c) == BuildUrl(c.api, c.args)

\* A call has the request for what it asks, of those there are, and what it is answered is of that.
CallIsOwn(c, asked) ==
  /\ c.request \in 0 .. Len(asked)
  /\ c.request = 0 => c.state = "failed"
  /\ c.request # 0 => asked[c.request].url = AskedBy(c)
  /\ c.state = "ok" => c.answer.of = AskedBy(c) \/ (c.answer = Default /\ c.api = "lineage")

\* What is sent can be read, and is answered for itself.
RequestsAreOwn ==
  \A r \in 1 .. Len(requests) :
    ~Throws(requests[r].url) /\ (requests[r].state = "ok" => requests[r].answer.of = requests[r].url)

\* The key stands for the arguments of the url.
KeyOfUrl(k, u) == \E api \in CachedApis : \E args \in FetchArgs : k = ArgsToKey(args) /\ u = BuildUrl(api, args)

\* Every request of the cached api is kept, under the key of its arguments, and so is its answer.
PromisesKept ==
  /\ \A k \in DOMAIN promiseOf : promiseOf[k] \in 1 .. Len(requests) /\ KeyOfUrl(k, requests[promiseOf[k]].url)
  /\ \A r \in 1 .. Len(requests) : requests[r].url.path \in CachedApis => \E k \in DOMAIN promiseOf : promiseOf[k] = r

ResultsKept ==
  /\ DOMAIN cachedResult \subseteq DOMAIN promiseOf
  /\ \A k \in DOMAIN cachedResult : cachedResult[k] \in AnswerSet /\ cachedResult[k].of = requests[promiseOf[k]].url

FetchInv ==
  /\ calls \in Seq(CallSet) /\ requests \in Seq(RequestSet)
  /\ \A i \in 1 .. Len(calls) : CallIsOwn(calls[i], requests)
  /\ RequestsAreOwn
  /\ PromisesKept
  /\ ResultsKept

(* The url of a call of the cached api tells the arguments, a blank one by  *)
(* what is missing.                                                        *)
LEMMA UrlTellsArgs ==
    ASSUME NEW api \in CachedApis, NEW a \in FetchArgs, NEW b \in FetchArgs, BuildUrl(api, a) = BuildUrl(api, b)
    PROVE  a = b
<1>1. api = "browse" /\ api # "search"
  BY DEF CachedApis
<1>2. PICK e \in FetchEntities, t \in FetchTexts : a = <<e, t>>
  BY DEF FetchArgs
<1>3. PICK f \in FetchEntities, u \in FetchTexts : b = <<f, u>>
  BY DEF FetchArgs
<1> DEFINE q(x, y) == {p \in {<<"type", x>>, <<"text", y>>} : ~IsBlank(p[2])}
<1>4. BuildUrl(api, a).query = q(e, t) /\ BuildUrl(api, b).query = q(f, u)
  BY <1>1, <1>2, <1>3 DEF BuildUrl
<1>5. q(e, t) = q(f, u)
  <2> HIDE DEF q
  <2> QED
    BY <1>4
<1>6. /\ e # "" /\ f # "" /\ t # "undefined" /\ u # "undefined"
  BY FetchAssumption
<1>7. ASSUME NEW x, NEW y, NEW v
      PROVE  /\ <<"type", v>> \in q(x, y) <=> v = x /\ ~IsBlank(v)
             /\ <<"text", v>> \in q(x, y) <=> v = y /\ ~IsBlank(v)
  OBVIOUS
<1> HIDE DEF q
<1>8. e = f
  BY <1>5, <1>6, <1>7 DEF IsBlank
<1>9. t = u
  BY <1>5, <1>6, <1>7 DEF IsBlank
<1> QED
  BY <1>2, <1>3, <1>8, <1>9

(* So does the key of a call, which keeps the text even if it is empty.    *)
LEMMA KeyTellsArgs ==
    ASSUME NEW a \in FetchArgs, NEW b \in FetchArgs, ArgsToKey(a) = ArgsToKey(b)
    PROVE  a = b
<1>1. PICK e \in FetchEntities, t \in FetchTexts : a = <<e, t>>
  BY DEF FetchArgs
<1>2. PICK f \in FetchEntities, u \in FetchTexts : b = <<f, u>>
  BY DEF FetchArgs
<1>3. t # "undefined" /\ u # "undefined"
  BY FetchAssumption
<1>4. ASSUME NEW S, NEW x \in S, NEW y \in S
      PROVE  /\ <<y>> \in Seq(S) /\ Len(<<y>>) = 1 /\ <<>> \o <<y>> = <<y>>
             /\ Len(<<x, y>>) = 2 /\ <<x>> \o <<y>> = <<x, y>>
  <2>1. <<>> \in Seq(S) /\ <<x>> \in Seq(S) /\ <<y>> \in Seq(S) /\ Len(<<y>>) = 1 /\ Len(<<x, y>>) = 2
    OBVIOUS
  <2>2. PICK o \in Seq(S), m \in Seq(S), n \in Seq(S) : o = <<>> /\ m = <<x>> /\ n = <<y>>
    BY <2>1
  <2>3. o \o n = n
    BY <2>2
  <2>a. <<x, y>> \in Seq(S) /\ m \o n \in Seq(S)
    BY <2>2
  <2>b. PICK p \in Seq(S), q \in Seq(S) : p = <<x, y>> /\ q = m \o n
    BY <2>a
  <2>c. Len(p) = 2 /\ p[1] = x /\ p[2] = y /\ Len(q) = 2 /\ q[1] = x /\ q[2] = y
    BY <2>2, <2>b
  <2>d. \A i \in 1 .. Len(p) : p[i] = q[i]
    BY <2>c
  <2>e. p = q
    BY <2>c, <2>d, SeqEqual
  <2>4. m \o n = <<x, y>>
    BY <2>b, <2>e
  <2> QED
    BY <2>1, <2>2, <2>3, <2>4
<1>5. /\ ArgsToKey(a) = IF e = "undefined" THEN <<t>> ELSE <<e, t>>
      /\ ArgsToKey(b) = IF f = "undefined" THEN <<u>> ELSE <<f, u>>
  <2> DEFINE S == FetchEntities \cup FetchTexts
  <2>1. e \in S /\ t \in S /\ f \in S /\ u \in S
    OBVIOUS
  <2> HIDE DEF S
  <2>2. /\ <<>> \o <<t>> = <<t>> /\ <<e>> \o <<t>> = <<e, t>>
        /\ <<>> \o <<u>> = <<u>> /\ <<f>> \o <<u>> = <<f, u>>
    BY <1>4, <2>1
  <2>3. /\ ArgsToKey(a) = (IF e = "undefined" THEN <<>> ELSE <<e>>) \o <<t>>
        /\ ArgsToKey(b) = (IF f = "undefined" THEN <<>> ELSE <<f>>) \o <<u>>
    BY <1>1, <1>2, <1>3 DEF ArgsToKey, Given
  <2> QED
    BY <2>2, <2>3
<1>6. e = f /\ t = u
  <2>1. ASSUME NEW w, NEW x, NEW y, NEW z
        PROVE  /\ Len(<<x>>) = 1 /\ Len(<<x, y>>) = 2
               /\ <<x>> = <<y>> => x = y
               /\ <<w, x>> = <<y, z>> => w = y /\ x = z
    OBVIOUS
  <2>2. <<t>> # <<f, u>> /\ <<e, t>> # <<u>>
    BY <2>1
  <2>3. /\ <<t>> = <<u>> => t = u
        /\ <<e, t>> = <<f, u>> => e = f /\ t = u
    BY <2>1
  <2> QED
    BY <1>5, <2>2, <2>3, Zenon
<1> QED
  BY <1>1, <1>2, <1>6

(* The server reads what was typed, or what it is the encoded form of.     *)
LEMMA ServerReadsTyped ==
    ASSUME NEW args \in FetchArgs, ~Throws(BuildUrl("search", args))
    PROVE  TextRead(BuildUrl("search", args)) \in {args[2], DecodeText[args[2]]}
<1>1. PICK e \in FetchEntities, t \in FetchTexts : args = <<e, t>>
  BY DEF FetchArgs
<1> DEFINE v == EncodeValue(t)
           query == {p \in {<<"type", e>>, <<"text", v>>} : ~IsBlank(p[2])}
<1>2. PICK u : u = BuildUrl("search", args) /\ u.query = query
  BY <1>1 DEF BuildUrl
<1> DEFINE texts == {p \in u.query : p[1] = "text"}
<1>3. TextRead(u) = IF texts = {} THEN "" ELSE ServerText[(CHOOSE p \in texts : TRUE)[2]]
  BY Zenon DEF TextRead
<1>4. IsBlank(v) => texts = {}
  BY <1>2
<1>5. ~IsBlank(v) => texts = {<<"text", v>>}
  BY <1>2
<1>6. ~IsBlank(v) => TextRead(u) = ServerText[v]
  <2> SUFFICES ASSUME ~IsBlank(v) PROVE TextRead(u) = ServerText[v]
    OBVIOUS
  <2> HIDE DEF texts
  <2>1. (CHOOSE p \in texts : TRUE) = <<"text", v>>
    BY <1>5
  <2>2. texts # {}
    BY <1>5
  <2>3. <<"text", v>>[2] = v
    OBVIOUS
  <2> HIDE DEF v
  <2> QED
    BY <1>3, <2>1, <2>2, <2>3
<1>7. v # "throws"
  <2> SUFFICES ASSUME v = "throws" PROVE FALSE
    OBVIOUS
  <2>1. <<"text", v>> \in query
    BY DEF IsBlank
  <2> QED
    BY <1>2, <2>1 DEF Throws
<1> HIDE DEF texts, query
<1>8. CASE t = ""
  <2>1. DecodeText[t] = "" /\ EncodeText[t] = ""
    BY <1>8, FetchAssumption
  <2>2. v = ""
    BY <1>8, <2>1 DEF EncodeValue
  <2> QED
    BY <1>1, <1>2, <1>3, <1>4, <1>8, <2>2 DEF IsBlank
<1>9. CASE t # "" /\ DecodeText[t] = t
  <2>1. EncodeText[t] \notin {"", "undefined", "throws"} /\ ServerText[EncodeText[t]] = t
    BY <1>9, FetchAssumption
  <2>2. t # "malformed" => v = EncodeText[t]
    BY <1>9 DEF EncodeValue
  <2>3. t # "malformed"
    BY <1>7, <1>9 DEF EncodeValue
  <2> QED
    BY <1>1, <1>2, <1>6, <1>9, <2>1, <2>2, <2>3 DEF IsBlank
<1>10. CASE t # "" /\ DecodeText[t] # t
  <2>1. DecodeText[t] # "malformed" /\ v = t
    BY <1>7, <1>10 DEF EncodeValue
  <2>2. ServerText[t] = DecodeText[t] /\ t # "undefined"
    BY <1>10, <2>1, FetchAssumption
  <2> HIDE DEF v
  <2> QED
    BY <1>1, <1>2, <1>6, <1>10, <2>1, <2>2 DEF IsBlank
<1> QED
  BY <1>8, <1>9, <1>10

(* The urls and the answers there are.                                     *)
LEMMA FetchTypes ==
  /\ NoAnswer \in AnswerSet /\ Default \in AnswerSet
  /\ \A api \in Apis : \A args \in FetchArgs : BuildUrl(api, args) \in Urls /\ BuildUrl(api, args).path = api
  /\ CachedApis \subseteq Apis /\ "lineage" \notin CachedApis /\ "ok" \in Outcomes
<1>1. NoAnswer \in AnswerSet
  <2> DEFINE T == Urls \cup {Default.of, NoAnswer.of}
  <2>1. NoAnswer = [of |-> NoAnswer.of, data |-> 1] /\ 1 \in 0 .. 1
    BY DEF NoAnswer
  <2>2. NoAnswer.of \in T /\ AnswerSet = [of : T, data : 0 .. 1]
    BY DEF AnswerSet
  <2> HIDE DEF T
  <2> QED
    BY <2>1, <2>2
<1>2. Default \in AnswerSet
  <2> DEFINE T == Urls \cup {Default.of, NoAnswer.of}
  <2>1. Default = [of |-> Default.of, data |-> 1] /\ 1 \in 0 .. 1
    BY DEF Default
  <2>2. Default.of \in T /\ AnswerSet = [of : T, data : 0 .. 1]
    BY DEF AnswerSet
  <2> HIDE DEF T
  <2> QED
    BY <2>1, <2>2
<1>3. ASSUME NEW api \in Apis, NEW args \in FetchArgs
      PROVE  BuildUrl(api, args) \in Urls /\ BuildUrl(api, args).path = api
  <2>1. BuildUrl(api, args).path = api
    BY DEF BuildUrl
  <2>2. <<api, args>> \in Apis \X FetchArgs /\ <<api, args>>[1] = api /\ <<api, args>>[2] = args
    OBVIOUS
  <2> QED
    BY <2>1, <2>2 DEF Urls
<1> QED
  BY <1>1, <1>2, <1>3 DEF CachedApis, Apis, Outcomes

(* A call and its answer have the types they should.                       *)
LEMMA CallIs ==
    ASSUME NEW api \in Apis, NEW args \in FetchArgs, NEW r \in Nat, NEW s \in {"waiting", "ok", "failed"},
           NEW a \in AnswerSet
    PROVE  [api |-> api, args |-> args, request |-> r, state |-> s, answer |-> a] \in CallSet
BY DEF CallSet

Answered(c, a) == [c EXCEPT !.state = "ok", !.answer = a]
Rejected(c) == [c EXCEPT !.state = "failed"]
RequestEnded(q, s, a) == [q EXCEPT !.state = s, !.answer = a]

LEMMA CallGoesOn ==
    ASSUME NEW c \in CallSet, NEW a \in AnswerSet
    PROVE  /\ Answered(c, a) \in CallSet
           /\ Answered(c, a).api = c.api /\ Answered(c, a).args = c.args
           /\ Answered(c, a).request = c.request /\ Answered(c, a).answer = a
           /\ Rejected(c) \in CallSet
           /\ Rejected(c).api = c.api /\ Rejected(c).args = c.args
           /\ Rejected(c).request = c.request /\ Rejected(c).state = "failed"
BY DEF CallSet, Answered, Rejected

LEMMA RequestEnds ==
    ASSUME NEW q \in RequestSet, NEW s \in Outcomes, NEW a \in AnswerSet
    PROVE  /\ RequestEnded(q, s, a) \in RequestSet
           /\ RequestEnded(q, s, a).url = q.url /\ RequestEnded(q, s, a).state = s /\ RequestEnded(q, s, a).answer = a
BY DEF RequestSet, RequestEnded

(* A call of its own joins the others, with a request of its own or an     *)
(* older one.                                                              *)
LEMMA OneCallMore ==
    ASSUME FetchInv, NEW api \in Apis, NEW args \in FetchArgs, NEW r \in Nat, NEW found,
           found.state \in {"waiting", "ok", "failed"}, found.answer \in AnswerSet,
           AddCall(api, args, r, found),
           requests' \in Seq(RequestSet), Len(requests') >= Len(requests),
           \A s \in 1 .. Len(requests) : requests'[s].url = requests[s].url,
           r \in 0 .. Len(requests'), r = 0 => found.state = "failed",
           r # 0 => requests'[r].url = BuildUrl(api, args),
           found.state = "ok" => found.answer.of = BuildUrl(api, args)
    PROVE  calls' \in Seq(CallSet) /\ \A i \in 1 .. Len(calls') : CallIsOwn(calls'[i], requests')
<1> DEFINE c == [api |-> api, args |-> args, request |-> r, state |-> found.state, answer |-> found.answer]
<1>1. c \in CallSet /\ c.api = api /\ c.args = args /\ c.request = r /\ c.state = found.state
      /\ c.answer = found.answer
  BY CallIs
<1>2. calls \in Seq(CallSet) /\ calls' = Append(calls, c)
  BY DEF FetchInv, AddCall
<1> HIDE DEF c
<1>3. /\ calls' \in Seq(CallSet) /\ Len(calls') = Len(calls) + 1 /\ calls'[Len(calls) + 1] = c
      /\ \A i \in 1 .. Len(calls) : calls'[i] = calls[i]
      /\ Len(calls) \in Nat /\ Len(requests) \in Nat /\ Len(requests') \in Nat
  BY <1>1, <1>2 DEF FetchInv
<1>4. ASSUME NEW i \in 1 .. Len(calls) PROVE CallIsOwn(calls'[i], requests')
  <2>1. CallIsOwn(calls[i], requests) /\ calls'[i] = calls[i]
    BY <1>3 DEF FetchInv
  <2>2. calls[i].request \in 0 .. Len(requests)
    BY <2>1 DEF CallIsOwn
  <2>3. calls[i].request \in 0 .. Len(requests')
    BY <1>3, <2>2
  <2>4. calls[i].request # 0 => requests'[calls[i].request].url = requests[calls[i].request].url
    BY <1>3, <2>2
  <2> QED
    BY <2>1, <2>3, <2>4 DEF CallIsOwn, AskedBy
<1>5. CallIsOwn(c, requests')
  BY <1>1 DEF CallIsOwn, AskedBy
<1>6. \A i \in 1 .. Len(calls) + 1 : i \in 1 .. Len(calls) \/ i = Len(calls) + 1
  BY <1>3
<1> QED
  BY <1>3, <1>4, <1>5, <1>6

LEMMA FetchSteps == FetchInv /\ [FetchNext]_fetchVars => FetchInv'
<1> SUFFICES ASSUME FetchInv, [FetchNext]_fetchVars PROVE FetchInv'
  OBVIOUS
<1>a. /\ calls \in Seq(CallSet) /\ requests \in Seq(RequestSet)
      /\ DOMAIN calls = 1 .. Len(calls) /\ DOMAIN requests = 1 .. Len(requests)
      /\ Len(calls) \in Nat /\ Len(requests) \in Nat
  BY DEF FetchInv
<1>b. /\ \A i \in 1 .. Len(calls) : CallIsOwn(calls[i], requests)
      /\ RequestsAreOwn
      /\ PromisesKept
      /\ ResultsKept
  BY DEF FetchInv
<1>1. ASSUME NEW api \in Apis, NEW args \in FetchArgs, CallThrows(api, args) PROVE FetchInv'
  <2> DEFINE found == [state |-> "failed", answer |-> NoAnswer]
  <2>1. found.state = "failed" /\ found.answer = NoAnswer /\ AddCall(api, args, 0, found)
        /\ UNCHANGED <<requests, promiseOf, cachedResult>>
    BY <1>1 DEF CallThrows
  <2> HIDE DEF found
  <2>2. calls' \in Seq(CallSet) /\ \A i \in 1 .. Len(calls') : CallIsOwn(calls'[i], requests')
    BY <1>a, <2>1, FetchTypes, OneCallMore
  <2>3. PromisesKept' /\ ResultsKept' /\ RequestsAreOwn'
    BY <1>b, <2>1 DEF PromisesKept, ResultsKept, RequestsAreOwn
  <2> QED
    BY <1>a, <2>1, <2>2, <2>3 DEF FetchInv
<1>2. ASSUME NEW api \in Apis, NEW args \in FetchArgs, CallFindsCached(api, args) PROVE FetchInv'
  <2> DEFINE key == ArgsToKey(args)
             found == FromCache(key)
  <2>1. /\ api \in CachedApis /\ IsKnown(key) /\ AddCall(api, args, promiseOf[key], found)
        /\ UNCHANGED <<requests, promiseOf, cachedResult>>
    BY <1>2 DEF CallFindsCached
  <2>2. key \in DOMAIN promiseOf
    BY <1>b, <2>1 DEF IsKnown, IsCached, ResultsKept
  <2>3. promiseOf[key] \in 1 .. Len(requests) /\ KeyOfUrl(key, requests[promiseOf[key]].url)
    BY <1>b, <2>2 DEF PromisesKept
  <2>4. requests[promiseOf[key]].url = BuildUrl(api, args)
    <3>1. PICK other \in CachedApis : \E b \in FetchArgs :
                 ArgsToKey(args) = ArgsToKey(b) /\ requests[promiseOf[key]].url = BuildUrl(other, b)
      BY <2>3 DEF KeyOfUrl
    <3>2. PICK b \in FetchArgs :
                 ArgsToKey(args) = ArgsToKey(b) /\ requests[promiseOf[key]].url = BuildUrl(other, b)
      BY <3>1
    <3>3. args = b
      BY <3>2, KeyTellsArgs
    <3> QED
      BY <2>1, <3>2, <3>3 DEF CachedApis
  <2>5. PICK r \in 1 .. Len(requests) : r = promiseOf[key]
    BY <2>3
  <2>6. requests[r] \in RequestSet
    BY <1>a
  <2>7. requests[r].state \in Outcomes \cup {"waiting"} /\ requests[r].answer \in AnswerSet
    BY <2>6 DEF RequestSet
  <2>8. /\ found.state \in {"waiting", "ok", "failed"} /\ found.answer \in AnswerSet
        /\ found.state = "ok" => found.answer.of = BuildUrl(api, args)
    <3>1. CASE IsCached(key)
      <4>1. found = [state |-> "ok", answer |-> cachedResult[key]]
        BY <3>1 DEF FromCache
      <4>2. cachedResult[key] \in AnswerSet /\ cachedResult[key].of = BuildUrl(api, args)
        BY <1>b, <2>4, <3>1 DEF IsCached, ResultsKept
      <4> QED
        BY <4>1, <4>2
    <3>2. CASE ~IsCached(key)
      <4>1. found = [state |-> StateOf(requests[r].state), answer |-> requests[r].answer]
        BY <2>5, <3>2 DEF FromCache
      <4>2. found.state = StateOf(requests[r].state) /\ found.answer = requests[r].answer
        BY <4>1
      <4>3. found.state \in {"waiting", "ok", "failed"} /\ (found.state = "ok" => requests[r].state = "ok")
        BY <4>2 DEF StateOf
      <4> QED
        BY <1>b, <2>4, <2>5, <2>7, <4>2, <4>3 DEF RequestsAreOwn
    <3> QED
      BY <3>1, <3>2
  <2> HIDE DEF found
  <2>9. calls' \in Seq(CallSet) /\ \A i \in 1 .. Len(calls') : CallIsOwn(calls'[i], requests')
    <3>1. AddCall(api, args, r, found) /\ r \in Nat /\ r # 0 /\ r \in 0 .. Len(requests)
      BY <2>1, <2>5
    <3> QED
      BY <1>a, <2>1, <2>4, <2>5, <2>8, <3>1, OneCallMore
  <2>10. PromisesKept' /\ ResultsKept' /\ RequestsAreOwn'
    BY <1>b, <2>1 DEF PromisesKept, ResultsKept, RequestsAreOwn
  <2> QED
    BY <1>a, <2>1, <2>9, <2>10 DEF FetchInv
<1>3. ASSUME NEW api \in Apis, NEW args \in FetchArgs, CallSends(api, args) PROVE FetchInv'
  <2> DEFINE u == BuildUrl(api, args)
             key == ArgsToKey(args)
             n == Len(requests)
             new == [url |-> u, state |-> "waiting", answer |-> NoAnswer]
             found == [state |-> "waiting", answer |-> NoAnswer]
  <2>1. /\ ~Throws(u) /\ (api \in CachedApis => ~IsKnown(key))
        /\ requests' = Append(requests, new)
        /\ promiseOf' = IF api \in CachedApis
                         THEN [k \in DOMAIN promiseOf \cup {key} |-> IF k = key THEN n + 1 ELSE promiseOf[k]]
                         ELSE promiseOf
        /\ AddCall(api, args, n + 1, found)
        /\ cachedResult' = cachedResult
    BY <1>3 DEF CallSends
  <2>2. u \in Urls /\ u.path = api
    BY FetchTypes
  <2>3. /\ new \in RequestSet /\ new.url = u /\ new.state = "waiting"
        /\ found.state = "waiting" /\ found.answer = NoAnswer
    BY <2>2, FetchTypes DEF RequestSet
  <2> HIDE DEF u, key, new, found
  <2>4. /\ requests' \in Seq(RequestSet) /\ Len(requests') = n + 1 /\ requests'[n + 1] = new
        /\ \A s \in 1 .. n : requests'[s] = requests[s]
    BY <1>a, <2>1, <2>3
  <2>5. calls' \in Seq(CallSet) /\ \A i \in 1 .. Len(calls') : CallIsOwn(calls'[i], requests')
    <3>1. /\ n + 1 \in Nat /\ n + 1 # 0 /\ n + 1 \in 0 .. Len(requests') /\ Len(requests') >= n
          /\ requests'[n + 1].url = BuildUrl(api, args)
      BY <1>a, <2>3, <2>4 DEF u
    <3>2. \A s \in 1 .. Len(requests) : requests'[s].url = requests[s].url
      BY <2>4
    <3> QED
      BY <2>1, <2>3, <2>4, <3>1, <3>2, FetchTypes, OneCallMore
  <2>6. RequestsAreOwn'
    <3> SUFFICES ASSUME NEW r \in 1 .. n + 1
                 PROVE  ~Throws(requests'[r].url) /\ (requests'[r].state = "ok" => requests'[r].answer.of = requests'[r].url)
      BY <2>4 DEF RequestsAreOwn
    <3>1. CASE r = n + 1
      BY <2>1, <2>3, <2>4, <3>1
    <3>2. CASE r \in 1 .. n
      BY <1>b, <2>4, <3>2 DEF RequestsAreOwn
    <3> QED
      BY <1>a, <3>1, <3>2
  <2>7. \A k \in DOMAIN promiseOf : k \in DOMAIN promiseOf' /\ promiseOf'[k] = promiseOf[k]
    <3>1. api \in CachedApis => key \notin DOMAIN promiseOf
      BY <2>1 DEF IsKnown
    <3> QED
      BY <2>1, <3>1
  <2>8. \A k \in DOMAIN promiseOf : promiseOf[k] \in 1 .. n /\ requests'[promiseOf[k]] = requests[promiseOf[k]]
    BY <1>b, <2>4 DEF PromisesKept
  <2>9. PromisesKept'
    <3>1. ASSUME NEW k \in DOMAIN promiseOf'
          PROVE  promiseOf'[k] \in 1 .. n + 1 /\ KeyOfUrl(k, requests'[promiseOf'[k]].url)
      <4>1. CASE k \in DOMAIN promiseOf
        <5>1. promiseOf[k] \in 1 .. n /\ KeyOfUrl(k, requests[promiseOf[k]].url)
          BY <1>b, <4>1 DEF PromisesKept
        <5>2. promiseOf[k] \in 1 .. n + 1
          BY <1>a, <5>1
        <5> QED
          BY <2>7, <2>8, <4>1, <5>1, <5>2
      <4>2. CASE k \notin DOMAIN promiseOf
        <5>1. api \in CachedApis /\ k = key /\ promiseOf'[k] = n + 1
          BY <2>1, <4>2
        <5>2. requests'[promiseOf'[k]].url = BuildUrl(api, args) /\ k = ArgsToKey(args)
          BY <2>3, <2>4, <5>1 DEF u, key
        <5>3. KeyOfUrl(k, requests'[promiseOf'[k]].url)
          BY <5>1, <5>2 DEF KeyOfUrl
        <5> QED
          BY <1>a, <5>1, <5>3
      <4> QED
        BY <4>1, <4>2
    <3>2. ASSUME NEW r \in 1 .. n + 1, requests'[r].url.path \in CachedApis
          PROVE  \E k \in DOMAIN promiseOf' : promiseOf'[k] = r
      <4>1. CASE r \in 1 .. n
        <5>1. PICK k \in DOMAIN promiseOf : promiseOf[k] = r
          BY <1>b, <2>4, <3>2, <4>1 DEF PromisesKept
        <5> QED
          BY <2>7, <5>1
      <4>2. CASE r = n + 1
        <5>1. api \in CachedApis
          BY <2>2, <2>3, <2>4, <3>2, <4>2
        <5>2. key \in DOMAIN promiseOf' /\ promiseOf'[key] = n + 1
          BY <2>1, <5>1
        <5> QED
          BY <4>2, <5>2
      <4> QED
        BY <1>a, <4>1, <4>2
    <3> QED
      BY <2>4, <3>1, <3>2 DEF PromisesKept, KeyOfUrl
  <2>10. ResultsKept'
    <3>1. DOMAIN cachedResult \subseteq DOMAIN promiseOf
      BY <1>b DEF ResultsKept
    <3> QED
      BY <1>b, <2>1, <2>7, <2>8, <3>1 DEF ResultsKept
  <2> QED
    BY <2>4, <2>5, <2>6, <2>9, <2>10 DEF FetchInv
<1>4. ASSUME NEW r \in DOMAIN requests, NEW o \in Outcomes, NEW data \in 0 .. 1, Respond(r, o, data)
      PROVE  FetchInv'
  <2> DEFINE answer == [of |-> requests[r].url, data |-> data]
             kept == IF o = "ok" THEN answer ELSE NoAnswer
             keys == {k \in DOMAIN promiseOf : promiseOf[k] = r}
             Goes(c) == IF c.request # r \/ c.state # "waiting" THEN c
                        ELSE IF o = "ok" THEN [c EXCEPT !.state = "ok", !.answer = answer]
                        ELSE IF ReturnDefaultIfNotFound(c.api, o)
                             THEN [c EXCEPT !.state = "ok", !.answer = Default]
                             ELSE [c EXCEPT !.state = "failed"]
             more == IF o = "ok" THEN keys ELSE {}
  <2>1. /\ requests' = [requests EXCEPT ![r] = [requests[r] EXCEPT !.state = o, !.answer = kept]]
        /\ calls' = [i \in DOMAIN calls |-> Goes(calls[i])]
        /\ cachedResult' = [k \in DOMAIN cachedResult \cup more |->
                               IF k \in keys /\ o = "ok" THEN answer ELSE cachedResult[k]]
        /\ promiseOf' = promiseOf
    BY <1>4 DEF Respond
  <2>2. r \in 1 .. Len(requests) /\ requests[r] \in RequestSet
    BY <1>a
  <2>3. requests[r].url \in Urls
    BY <2>2 DEF RequestSet
  <2>4. answer \in AnswerSet /\ answer.of = requests[r].url /\ kept \in AnswerSet
    BY <2>3, FetchTypes DEF AnswerSet
  <2> HIDE DEF answer
  <2>5. /\ requests' \in Seq(RequestSet) /\ Len(requests') = Len(requests)
        /\ \A s \in 1 .. Len(requests) : requests'[s].url = requests[s].url
        /\ requests'[r].state = o /\ requests'[r].answer = kept
        /\ \A s \in 1 .. Len(requests) : s # r => requests'[s] = requests[s]
    <3>1. PICK q \in RequestSet : q = RequestEnded(requests[r], o, kept)
      BY <2>2, <2>4, RequestEnds
    <3>2. q.url = requests[r].url /\ q.state = o /\ q.answer = kept
      BY <2>2, <2>4, <3>1, RequestEnds
    <3> HIDE DEF kept
    <3>3. requests' = [requests EXCEPT ![r] = q]
      BY <2>1, <3>1, Zenon DEF RequestEnded
    <3> QED
      BY <1>a, <2>2, <3>2, <3>3
  <2>6. /\ calls' \in Seq(CallSet) /\ Len(calls') = Len(calls)
        /\ \A i \in 1 .. Len(calls) : calls'[i] = Goes(calls[i])
    <3>1. ASSUME NEW c \in CallSet PROVE Goes(c) \in CallSet
      BY <2>4, FetchTypes, CallGoesOn DEF Answered, Rejected
    <3> HIDE DEF Goes
    <3> QED
      BY <1>a, <2>1, <3>1
  <2>7. ASSUME NEW i \in 1 .. Len(calls) PROVE CallIsOwn(calls'[i], requests')
    <3>1. PICK c \in CallSet : c = calls[i] /\ CallIsOwn(c, requests)
      BY <1>a, <1>b
    <3>2. /\ c.request \in 0 .. Len(requests) /\ (c.request = 0 => c.state = "failed")
          /\ c.request # 0 => requests[c.request].url = AskedBy(c)
          /\ c.state = "ok" => c.answer.of = AskedBy(c) \/ (c.answer = Default /\ c.api = "lineage")
      BY <3>1 DEF CallIsOwn
    <3>3. c.request # 0 => requests'[c.request].url = AskedBy(c)
      BY <1>a, <2>5, <3>2
    <3>4. c.request \in 0 .. Len(requests')
      BY <2>5, <3>2
    <3>5. SUFFICES CallIsOwn(Goes(c), requests')
      BY <2>6, <3>1 DEF CallIsOwn
    <3>6. CASE c.request # r \/ c.state # "waiting"
      BY <3>2, <3>3, <3>4, <3>6 DEF CallIsOwn, AskedBy
    <3>7. CASE c.request = r /\ c.state = "waiting"
      <4>1. AskedBy(c) = requests[r].url /\ r # 0
        BY <1>a, <2>2, <3>2, <3>7
      <4>2. CASE o = "ok"
        <5>1. PICK d \in CallSet : d = Answered(c, answer)
          BY <2>4, CallGoesOn
        <5>2. d.api = c.api /\ d.args = c.args /\ d.request = c.request /\ d.answer = answer
          BY <2>4, <5>1, CallGoesOn
        <5>3. Goes(c) = d
          BY <3>7, <4>2, <5>1 DEF Answered
        <5> HIDE DEF Goes
        <5>4. CallIsOwn(d, requests')
          BY <2>4, <3>3, <3>4, <3>7, <4>1, <5>2 DEF CallIsOwn, AskedBy
        <5> QED
          BY <5>3, <5>4
      <4>3. CASE o # "ok" /\ ReturnDefaultIfNotFound(c.api, o)
        <5>1. PICK d \in CallSet : d = Answered(c, Default)
          BY FetchTypes, CallGoesOn
        <5>2. d.api = c.api /\ d.args = c.args /\ d.request = c.request /\ d.answer = Default
          BY <5>1, FetchTypes, CallGoesOn
        <5>3. Goes(c) = d
          BY <3>7, <4>3, <5>1 DEF Answered
        <5> HIDE DEF Goes
        <5>4. CallIsOwn(d, requests')
          BY <3>3, <3>4, <3>7, <4>1, <4>3, <5>2 DEF CallIsOwn, AskedBy, ReturnDefaultIfNotFound
        <5> QED
          BY <5>3, <5>4
      <4>4. CASE o # "ok" /\ ~ReturnDefaultIfNotFound(c.api, o)
        <5>1. PICK d \in CallSet : d = Rejected(c)
          BY CallGoesOn, FetchTypes
        <5>2. d.api = c.api /\ d.args = c.args /\ d.request = c.request /\ d.state = "failed"
          BY <5>1, CallGoesOn, FetchTypes
        <5>3. Goes(c) = d
          BY <3>7, <4>4, <5>1 DEF Rejected
        <5> HIDE DEF Goes
        <5>4. CallIsOwn(d, requests')
          BY <3>3, <3>4, <3>7, <4>1, <5>2 DEF CallIsOwn, AskedBy
        <5> QED
          BY <5>3, <5>4
      <4> QED
        BY <4>2, <4>3, <4>4
    <3> QED
      BY <3>6, <3>7
  <2>8. RequestsAreOwn'
    <3> SUFFICES ASSUME NEW s \in 1 .. Len(requests)
                 PROVE  ~Throws(requests'[s].url) /\ (requests'[s].state = "ok" => requests'[s].answer.of = requests'[s].url)
      BY <2>5 DEF RequestsAreOwn
    <3>1. CASE s = r
      BY <1>b, <2>4, <2>5, <3>1 DEF RequestsAreOwn
    <3>2. CASE s # r
      BY <1>b, <2>5, <3>2 DEF RequestsAreOwn
    <3> QED
      BY <3>1, <3>2
  <2>9. PromisesKept'
    <3>1. ASSUME NEW k \in DOMAIN promiseOf
          PROVE  /\ promiseOf[k] \in 1 .. Len(requests')
                 /\ KeyOfUrl(k, requests'[promiseOf[k]].url)
      <4>1. promiseOf[k] \in 1 .. Len(requests) /\ KeyOfUrl(k, requests[promiseOf[k]].url)
        BY <1>b DEF PromisesKept
      <4> QED
        BY <2>5, <4>1
    <3>2. ASSUME NEW s \in 1 .. Len(requests'), requests'[s].url.path \in CachedApis
          PROVE  \E k \in DOMAIN promiseOf : promiseOf[k] = s
      BY <1>b, <2>5, <3>2 DEF PromisesKept
    <3> QED
      BY <2>1, <3>1, <3>2 DEF PromisesKept
  <2>10. ResultsKept'
    <3>1. DOMAIN cachedResult' \subseteq DOMAIN promiseOf
      BY <1>b, <2>1 DEF ResultsKept
    <3>2. ASSUME NEW k \in DOMAIN cachedResult'
          PROVE  cachedResult'[k] \in AnswerSet /\ cachedResult'[k].of = requests'[promiseOf'[k]].url
      <4>1. promiseOf'[k] = promiseOf[k] /\ promiseOf[k] \in 1 .. Len(requests)
        BY <1>b, <2>1, <3>1, <3>2 DEF PromisesKept
      <4>2. CASE k \in keys /\ o = "ok"
        <5>1. cachedResult'[k] = answer /\ promiseOf[k] = r
          BY <2>1, <3>2, <4>2
        <5> QED
          BY <2>2, <2>4, <2>5, <4>1, <5>1
      <4>3. CASE ~(k \in keys /\ o = "ok")
        <5>1. k \in DOMAIN cachedResult /\ cachedResult'[k] = cachedResult[k]
          BY <2>1, <3>2, <4>3
        <5> QED
          BY <1>b, <2>5, <4>1, <5>1 DEF ResultsKept
      <4> QED
        BY <4>2, <4>3
    <3> QED
      BY <2>1, <3>1, <3>2 DEF ResultsKept
  <2> QED
    BY <2>5, <2>6, <2>7, <2>8, <2>9, <2>10 DEF FetchInv
<1>5. ASSUME UNCHANGED fetchVars PROVE FetchInv'
  <2>1. UNCHANGED <<calls, requests, promiseOf, cachedResult>>
    BY <1>5 DEF fetchVars
  <2> QED
    BY <1>a, <1>b, <2>1 DEF FetchInv, CallIsOwn, AskedBy, RequestsAreOwn, PromisesKept, ResultsKept
<1>6. \A e \in FetchEntities, t \in FetchTexts : <<e, t>> \in FetchArgs
  BY DEF FetchArgs
<1> QED
  BY <1>1, <1>2, <1>3, <1>4, <1>5, <1>6 DEF FetchNext

(* A caller gets the answer to its own arguments, asked as typed, though    *)
(* callers share requests and answers; the cached api is asked once for    *)
(* each arguments.                                                         *)
THEOREM AnswersBelongToCallers == FetchSpec => []AnswersAreOwn
<1>1. FetchInit => FetchInv
  <2> SUFFICES ASSUME FetchInit PROVE FetchInv
    OBVIOUS
  <2>1. calls = <<>> /\ requests = <<>> /\ promiseOf = <<>> /\ cachedResult = <<>>
    BY DEF FetchInit
  <2>2. <<>> \in Seq(CallSet) /\ <<>> \in Seq(RequestSet) /\ Len(<<>>) = 0 /\ DOMAIN <<>> = {}
    OBVIOUS
  <2> QED
    BY <2>1, <2>2 DEF FetchInv, RequestsAreOwn, PromisesKept, ResultsKept
<1>2. FetchInv => AnswersAreOwn
  <2> SUFFICES ASSUME FetchInv PROVE AnswersAreOwn
    OBVIOUS
  <2>1. /\ calls \in Seq(CallSet) /\ requests \in Seq(RequestSet)
        /\ DOMAIN calls = 1 .. Len(calls) /\ DOMAIN requests = 1 .. Len(requests)
        /\ Len(calls) \in Nat /\ Len(requests) \in Nat
        /\ \A i \in 1 .. Len(calls) : CallIsOwn(calls[i], requests)
        /\ RequestsAreOwn /\ PromisesKept /\ ResultsKept
    BY DEF FetchInv
  <2>2. FetchTypeOK
    <3>1. ASSUME NEW i \in DOMAIN calls
          PROVE  /\ calls[i].api \in Apis /\ calls[i].args \in FetchEntities \X FetchTexts
                 /\ calls[i].request \in 0 .. Len(requests) /\ calls[i].state \in {"waiting", "ok", "failed"}
      <4>1. calls[i] \in CallSet /\ CallIsOwn(calls[i], requests)
        BY <2>1
      <4> QED
        BY <4>1 DEF CallSet, CallIsOwn, FetchArgs
    <3>2. ASSUME NEW r \in DOMAIN requests PROVE requests[r].state \in Outcomes \cup {"waiting"}
      <4>1. requests[r] \in RequestSet
        BY <2>1
      <4> QED
        BY <4>1 DEF RequestSet
    <3> QED
      BY <2>1, <3>1, <3>2 DEF FetchTypeOK, PromisesKept, ResultsKept
  <2>3. AnswersOwnArguments
    BY <2>1 DEF AnswersOwnArguments, CallIsOwn, AskedBy
  <2>4. CachedAskedOnce
    <3> SUFFICES ASSUME NEW r \in 1 .. Len(requests), NEW s \in 1 .. Len(requests),
                        requests[r].url = requests[s].url, requests[r].url.path \in CachedApis
                 PROVE  r = s
      BY <2>1 DEF CachedAskedOnce
    <3>1. PICK k \in DOMAIN promiseOf : promiseOf[k] = r
      BY <2>1 DEF PromisesKept
    <3>2. PICK l \in DOMAIN promiseOf : promiseOf[l] = s
      BY <2>1 DEF PromisesKept
    <3>3. KeyOfUrl(k, requests[r].url) /\ KeyOfUrl(l, requests[r].url)
      BY <2>1, <3>1, <3>2 DEF PromisesKept
    <3>4. PICK a \in FetchArgs : k = ArgsToKey(a) /\ requests[r].url = BuildUrl("browse", a)
      BY <3>3 DEF KeyOfUrl, CachedApis
    <3>5. PICK b \in FetchArgs : l = ArgsToKey(b) /\ requests[r].url = BuildUrl("browse", b)
      BY <3>3 DEF KeyOfUrl, CachedApis
    <3>6. "browse" \in CachedApis
      BY DEF CachedApis
    <3>7. a = b
      BY <3>4, <3>5, <3>6, UrlTellsArgs
    <3> QED
      BY <3>1, <3>2, <3>4, <3>5, <3>7
  <2>5. ReadAsTyped
    <3> SUFFICES ASSUME NEW i \in 1 .. Len(calls), calls[i].api = "search", calls[i].request # 0
                 PROVE  TextRead(requests[calls[i].request].url) \in {calls[i].args[2], DecodeText[calls[i].args[2]]}
      BY <2>1 DEF ReadAsTyped
    <3>1. calls[i] \in CallSet /\ CallIsOwn(calls[i], requests)
      BY <2>1
    <3>2. calls[i].args \in FetchArgs
      BY <3>1 DEF CallSet
    <3>3. /\ calls[i].request \in 1 .. Len(requests)
          /\ requests[calls[i].request].url = BuildUrl("search", calls[i].args)
      BY <2>1, <3>1 DEF CallIsOwn, AskedBy
    <3>4. ~Throws(BuildUrl("search", calls[i].args))
      BY <2>1, <3>3 DEF RequestsAreOwn
    <3> QED
      BY <3>2, <3>3, <3>4, ServerReadsTyped
  <2> QED
    BY <2>2, <2>3, <2>4, <2>5 DEF AnswersAreOwn
<1> QED
  BY <1>1, <1>2, FetchSteps, PTL DEF FetchSpec

-----------------------------------------------------------------------------
(* Analytics.                                                              *)

PageOf(r) == <<"page", ResolveDynamicRouteName(r)>>
OtherPages == {r \in Routes : ~IsSearchRoute(r)}
Found == ResultLists \cup {<<>>}
Activities ==
  {PageOf(r) : r \in OtherPages} \cup {<<"heartbeat">>} \cup {<<"search", Len(l)>> : l \in ResultLists}
    \cup {<<"impressions", BlocksOf(l)>> : l \in Found} \cup {<<"event", e>> : e \in UiEvents}

WholeEvents == {e \in UiEvents : e.category # "" /\ e.action # ""}

PagesOf(list) == LET pages == Only(list, OtherPages) IN [i \in 1..Len(pages) |-> PageOf(pages[i])]
EventsOf(list) == LET whole == Only(list, WholeEvents) IN [i \in 1..Len(whole) |-> <<"event", whole[i]>>]

NoMoreImpressions(list) == Len(OfKind(list, "impressions")) <= Len(OfKind(list, "search"))
SearchesFirst(list) == \A n \in 1..Len(list) : NoMoreImpressions(SubSeq(list, 1, n))

\* What is sent tells what was done, impressions that wait for the page set aside.
TellsAll(list, routes, events, scheduled) ==
  /\ OfKind(list, "page") = PagesOf(routes)
  /\ OfKind(list, "event") = EventsOf(events)
  /\ Len(OfKind(list, "impressions")) + scheduled = Len(OfKind(list, "search"))

AnalyticsInv ==
  /\ configState \in {"none", "loaded", "failed"} /\ trackersOn \subseteq {"Piwik"} /\ toRender \in 0..MaxSent
  /\ visited \in Seq(Routes) /\ handled \in Seq(UiEvents) /\ sent \in Seq(Activities) /\ resultsShown \in Found
  /\ configState = "loaded" => appConfig \in ServerConfigs
  /\ configState # "loaded" =>
       appConfig = << >> /\ trackersOn = {} /\ toRender = 0 /\ visited = <<>> /\ handled = <<>>
  /\ trackersOn = {} => sent = <<>>
  /\ trackersOn # {} => IsTracked(appConfig) /\ TellsAll(sent, visited, handled, toRender)
  /\ SearchesFirst(sent)

(* A list mapped, with one entry more.                                     *)
LEMMA OneMapped ==
    ASSUME NEW T, NEW U, NEW f \in [T -> U], NEW list \in Seq(T), NEW x \in T
    PROVE  [i \in 1 .. Len(Append(list, x)) |-> f[Append(list, x)[i]]]
             = Append([i \in 1 .. Len(list) |-> f[list[i]]], f[x])
<1> DEFINE s == [i \in 1 .. Len(list) |-> f[list[i]]]
           more == Append(list, x)
           t == [i \in 1 .. Len(more) |-> f[more[i]]]
<1>1. s \in Seq(U) /\ Len(s) = Len(list)
  OBVIOUS
<1>2. /\ more \in Seq(T) /\ Len(more) = Len(list) + 1 /\ more[Len(list) + 1] = x
      /\ \A i \in 1 .. Len(list) : more[i] = list[i]
  OBVIOUS
<1> HIDE DEF more
<1>4. t \in Seq(U) /\ Len(t) = Len(more) /\ \A i \in 1 .. Len(more) : t[i] = f[more[i]]
  BY <1>2
<1>5. Append(s, f[x]) \in Seq(U) /\ Len(Append(s, f[x])) = Len(list) + 1
      /\ \A i \in 1 .. Len(list) + 1 : Append(s, f[x])[i] = IF i = Len(list) + 1 THEN f[x] ELSE s[i]
  BY <1>1
<1>6. \A i \in 1 .. Len(list) : s[i] = f[list[i]]
  OBVIOUS
<1>7. PICK a, b : a = t /\ b = Append(s, f[x])
  OBVIOUS
<1> HIDE DEF s, t
<1>8. \A i \in 1 .. Len(list) + 1 : a[i] = b[i]
  BY <1>2, <1>4, <1>5, <1>6, <1>7
<1>9. a \in Seq(U) /\ b \in Seq(U) /\ Len(a) = Len(b) /\ Len(a) = Len(list) + 1
  BY <1>2, <1>4, <1>5, <1>7
<1>10. a = b
  BY <1>8, <1>9, SeqEqual
<1> QED
  BY <1>7, <1>10 DEF more, s, t

(* Pages and events told, with one visit or one action more.               *)
LEMMA OneVisitMore ==
    ASSUME NEW list \in Seq(Routes), NEW r \in Routes
    PROVE  PagesOf(Append(list, r)) = IF IsSearchRoute(r) THEN PagesOf(list) ELSE Append(PagesOf(list), PageOf(r))
<1>1. PICK old \in Seq(Routes) : old = Only(list, OtherPages)
  BY OnlyKeeps
<1>2. PICK new : new = Only(Append(list, r), OtherPages)
  OBVIOUS
<1>3. new = IF IsSearchRoute(r) THEN old ELSE Append(old, r)
  <2>1. r \in OtherPages <=> ~IsSearchRoute(r)
    BY DEF OtherPages
  <2> QED
    BY <1>1, <1>2, <2>1, OnlyAppend
<1>4. /\ PagesOf(list) = [i \in 1..Len(old) |-> PageOf(old[i])]
      /\ PagesOf(Append(list, r)) = [i \in 1..Len(new) |-> PageOf(new[i])]
  BY <1>1, <1>2, Zenon DEF PagesOf
<1>5. CASE IsSearchRoute(r)
  BY <1>3, <1>4, <1>5
<1>6. CASE ~IsSearchRoute(r)
  <2> DEFINE f == [x \in Routes |-> PageOf(x)]
             U == {PageOf(x) : x \in Routes}
  <2>1. f \in [Routes -> U] /\ f[r] = PageOf(r)
    OBVIOUS
  <2>2. \A l \in Seq(Routes) : [i \in 1..Len(l) |-> PageOf(l[i])] = [i \in 1..Len(l) |-> f[l[i]]]
    OBVIOUS
  <2>3. new = Append(old, r) /\ new \in Seq(Routes)
    BY <1>1, <1>3, <1>6
  <2> HIDE DEF f, U
  <2>4. [i \in 1 .. Len(new) |-> f[new[i]]] = Append([i \in 1 .. Len(old) |-> f[old[i]]], f[r])
    BY <2>1, <2>3, OneMapped
  <2>5. PagesOf(list) = [i \in 1..Len(old) |-> f[old[i]]] /\ PagesOf(Append(list, r)) = [i \in 1..Len(new) |-> f[new[i]]]
    BY <1>4, <2>2, <2>3
  <2> QED
    BY <1>6, <2>1, <2>4, <2>5
<1> QED
  BY <1>5, <1>6

LEMMA OneActionMore ==
    ASSUME NEW list \in Seq(UiEvents), NEW e \in UiEvents
    PROVE  EventsOf(Append(list, e)) =
             IF e.category # "" /\ e.action # "" THEN Append(EventsOf(list), <<"event", e>>) ELSE EventsOf(list)
<1>1. PICK old \in Seq(UiEvents) : old = Only(list, WholeEvents)
  BY OnlyKeeps
<1>2. PICK new : new = Only(Append(list, e), WholeEvents)
  OBVIOUS
<1>3. new = IF e.category # "" /\ e.action # "" THEN Append(old, e) ELSE old
  <2>1. e \in WholeEvents <=> e.category # "" /\ e.action # ""
    BY DEF WholeEvents
  <2>2. new = IF e \in WholeEvents THEN Append(old, e) ELSE old
    BY <1>1, <1>2, OnlyAppend
  <2>3. CASE e \in WholeEvents
    BY <2>1, <2>2, <2>3, Zenon
  <2>4. CASE e \notin WholeEvents
    BY <2>1, <2>2, <2>4, Zenon
  <2> QED
    BY <2>3, <2>4
<1>4. /\ EventsOf(list) = [i \in 1..Len(old) |-> <<"event", old[i]>>]
      /\ EventsOf(Append(list, e)) = [i \in 1..Len(new) |-> <<"event", new[i]>>]
  BY <1>1, <1>2, Zenon DEF EventsOf
<1>5. CASE ~(e.category # "" /\ e.action # "")
  BY <1>3, <1>4, <1>5
<1>6. CASE e.category # "" /\ e.action # ""
  <2> DEFINE f == [x \in UiEvents |-> <<"event", x>>]
             U == {<<"event", x>> : x \in UiEvents}
  <2>1. f \in [UiEvents -> U] /\ f[e] = <<"event", e>>
    OBVIOUS
  <2>2. \A l \in Seq(UiEvents) : [i \in 1..Len(l) |-> <<"event", l[i]>>] = [i \in 1..Len(l) |-> f[l[i]]]
    OBVIOUS
  <2>a. new = Append(old, e)
    BY <1>3, <1>6, Zenon
  <2>3. new = Append(old, e) /\ new \in Seq(UiEvents)
    BY <1>1, <2>a
  <2> HIDE DEF f, U
  <2>4. [i \in 1 .. Len(new) |-> f[new[i]]] = Append([i \in 1 .. Len(old) |-> f[old[i]]], f[e])
    BY <2>1, <2>3, OneMapped
  <2>5. EventsOf(list) = [i \in 1..Len(old) |-> f[old[i]]] /\ EventsOf(Append(list, e)) = [i \in 1..Len(new) |-> f[new[i]]]
    BY <1>4, <2>2, <2>3
  <2> QED
    BY <1>6, <2>1, <2>4, <2>5
<1> QED
  BY <1>5, <1>6

(* The activities of a kind, with one activity more.                       *)
LEMMA OneSentMore ==
    ASSUME NEW list \in Seq(Activities), NEW x \in Activities, NEW kind
    PROVE  /\ OfKind(list, kind) \in Seq(Activities)
           /\ OfKind(Append(list, x), kind) = IF x[1] = kind THEN Append(OfKind(list, kind), x) ELSE OfKind(list, kind)
<1> DEFINE more == Append(list, x)
           S == {a \in ToSet(list) : a[1] = kind}
           R == {a \in ToSet(more) : a[1] = kind}
<1>1. /\ more \in Seq(Activities) /\ Len(more) = Len(list) + 1 /\ more[Len(list) + 1] = x
      /\ \A i \in 1 .. Len(list) : more[i] = list[i]
      /\ DOMAIN list = 1 .. Len(list) /\ DOMAIN more = 1 .. Len(more) /\ Len(list) \in Nat
  OBVIOUS
<1>2. OfKind(list, kind) = Only(list, S) /\ OfKind(Append(list, x), kind) = Only(more, R)
  BY DEF OfKind
<1>3. ToSet(list) = {list[i] : i \in 1 .. Len(list)} /\ ToSet(more) = {more[i] : i \in 1 .. Len(list) + 1}
  BY <1>1 DEF ToSet
<1> HIDE DEF more
<1>4. \A i \in 1 .. Len(list) : list[i] \in S <=> list[i] \in R
  BY <1>1, <1>3
<1>5. x \in R <=> x[1] = kind
  BY <1>1, <1>3
<1> HIDE DEF S, R
<1>6. Only(list, S) = Only(list, R)
  BY <1>4, OnlyAgrees
<1>7. Only(more, R) = IF x \in R THEN Append(Only(list, R), x) ELSE Only(list, R)
  BY OnlyAppend DEF more
<1>8. Only(list, S) \in Seq(Activities)
  BY OnlyKeeps
<1> QED
  BY <1>2, <1>5, <1>6, <1>7, <1>8

LEMMA SearchesStayFirst ==
    ASSUME NEW list \in Seq(Activities), NEW x \in Activities, SearchesFirst(list),
           x[1] = "impressions" => Len(OfKind(list, "impressions")) < Len(OfKind(list, "search")),
           Len(OfKind(list, "impressions")) <= Len(OfKind(list, "search"))
    PROVE  SearchesFirst(Append(list, x))
<1> DEFINE more == Append(list, x)
           a == OfKind(list, "impressions")  b == OfKind(list, "search")
<1>1. /\ more \in Seq(Activities) /\ Len(more) = Len(list) + 1 /\ Len(list) \in Nat
      /\ \A n \in 1 .. Len(list) : SubSeq(more, 1, n) = SubSeq(list, 1, n)
      /\ SubSeq(more, 1, Len(list) + 1) = more
  OBVIOUS
<1>2. a \in Seq(Activities) /\ b \in Seq(Activities)
  BY OneSentMore
<1>3. /\ OfKind(more, "impressions") = IF x[1] = "impressions" THEN Append(a, x) ELSE a
      /\ OfKind(more, "search") = IF x[1] = "search" THEN Append(b, x) ELSE b
  BY OneSentMore
<1> HIDE DEF more, a, b
<1>4. Len(Append(a, x)) = Len(a) + 1 /\ Len(Append(b, x)) = Len(b) + 1 /\ Len(a) \in Nat /\ Len(b) \in Nat
  BY <1>2
<1>5. Len(a) <= Len(b) /\ (x[1] = "impressions" => Len(a) < Len(b))
  BY DEF a, b
<1>6. Len(OfKind(more, "impressions")) <= Len(OfKind(more, "search"))
  <2>1. CASE x[1] = "impressions"
    BY <1>3, <1>4, <1>5, <2>1
  <2>2. CASE x[1] # "impressions"
    BY <1>3, <1>4, <1>5, <2>2
  <2> QED
    BY <2>1, <2>2
<1>7. NoMoreImpressions(more)
  BY <1>6 DEF NoMoreImpressions
<1>8. ASSUME NEW n \in 1 .. Len(list) + 1 PROVE NoMoreImpressions(SubSeq(more, 1, n))
  <2>1. CASE n = Len(list) + 1
    BY <1>1, <1>7, <2>1
  <2>2. CASE n \in 1 .. Len(list)
    BY <1>1, <2>2 DEF SearchesFirst
  <2> QED
    BY <1>1, <2>1, <2>2
<1>9. SearchesFirst(more)
  BY <1>1, <1>8 DEF SearchesFirst
<1> QED
  BY <1>9 DEF more

(* One activity is one entry more, and two are two.                        *)
TwoPushed(list, x, y) == list \o (<<x>> \o <<y>>) = Append(Append(list, x), y)

LEMMA PushedAre ==
    ASSUME NEW T, NEW list \in Seq(T), NEW x \in T, NEW y \in T
    PROVE  /\ list \o <<x>> = Append(list, x)
           /\ list \o (<<>> \o <<x>>) = Append(list, x)
           /\ TwoPushed(list, x, y)
<1>1. <<>> \in Seq(T) /\ <<x>> \in Seq(T) /\ <<y>> \in Seq(T)
  OBVIOUS
<1>2. PICK e \in Seq(T), p \in Seq(T), q \in Seq(T) : e = <<>> /\ p = <<x>> /\ q = <<y>>
  BY <1>1
<1>3. Append(e, x) = p /\ Append(e, y) = q /\ list \o e = list /\ e \o p = p /\ p \o e = p
  BY <1>2
<1>4. AppendsLast(list, e, x) /\ AppendsLast(p, e, y) /\ AppendsLast(list, p, y)
  BY ConcatAppend
<1>5. list \o p = Append(list, x)
  BY <1>3, <1>4 DEF AppendsLast
<1>6. p \o q = Append(p, y)
  BY <1>3, <1>4 DEF AppendsLast
<1>7. list \o Append(p, y) = Append(list \o p, y)
  BY <1>4 DEF AppendsLast
<1> QED
  BY <1>2, <1>3, <1>5, <1>6, <1>7 DEF TwoPushed

(* What is sent tells what was done, with one activity more of each kind.  *)
LEMMA TellsOneMore ==
    ASSUME NEW list \in Seq(Activities), NEW x \in Activities, NEW v \in Seq(Routes), NEW h \in Seq(UiEvents),
           NEW n \in Nat, TellsAll(list, v, h, n), SearchesFirst(list)
    PROVE  /\ Append(list, x) \in Seq(Activities)
           /\ x = <<"heartbeat">> => TellsAll(Append(list, x), v, h, n) /\ SearchesFirst(Append(list, x))
           /\ x[1] = "search" => TellsAll(Append(list, x), v, h, n + 1) /\ SearchesFirst(Append(list, x))
           /\ x[1] = "impressions" /\ n > 0 =>
                TellsAll(Append(list, x), v, h, n - 1) /\ SearchesFirst(Append(list, x))
           /\ \A r \in Routes : x = PageOf(r) /\ ~IsSearchRoute(r) =>
                TellsAll(Append(list, x), Append(v, r), h, n) /\ SearchesFirst(Append(list, x))
           /\ \A e \in UiEvents : x = <<"event", e>> /\ e.category # "" /\ e.action # "" =>
                TellsAll(Append(list, x), v, Append(h, e), n) /\ SearchesFirst(Append(list, x))
<1> DEFINE a == OfKind(list, "impressions")  b == OfKind(list, "search")
           p == OfKind(list, "page")  q == OfKind(list, "event")
           more == Append(list, x)
<1>1. a \in Seq(Activities) /\ b \in Seq(Activities) /\ p \in Seq(Activities) /\ q \in Seq(Activities)
  BY OneSentMore
<1>2. /\ OfKind(more, "impressions") = IF x[1] = "impressions" THEN Append(a, x) ELSE a
      /\ OfKind(more, "search") = IF x[1] = "search" THEN Append(b, x) ELSE b
      /\ OfKind(more, "page") = IF x[1] = "page" THEN Append(p, x) ELSE p
      /\ OfKind(more, "event") = IF x[1] = "event" THEN Append(q, x) ELSE q
  BY OneSentMore
<1>3. p = PagesOf(v) /\ q = EventsOf(h) /\ Len(a) + n = Len(b)
  BY DEF TellsAll
<1>4. /\ Len(a) \in Nat /\ Len(b) \in Nat /\ Len(Append(a, x)) = Len(a) + 1 /\ Len(Append(b, x)) = Len(b) + 1
  BY <1>1
<1>5. more \in Seq(Activities)
  OBVIOUS
<1>6. x[1] # "impressions" \/ n > 0 => SearchesFirst(more)
  <2> SUFFICES ASSUME x[1] # "impressions" \/ n > 0 PROVE SearchesFirst(more)
    OBVIOUS
  <2>1. Len(a) <= Len(b) /\ (x[1] = "impressions" => Len(a) < Len(b))
    BY <1>3, <1>4
  <2> QED
    BY <2>1, SearchesStayFirst
<1> HIDE DEF a, b, p, q, more
<1>7. x = <<"heartbeat">> => TellsAll(more, v, h, n) /\ SearchesFirst(more)
  <2> SUFFICES ASSUME x = <<"heartbeat">> PROVE TellsAll(more, v, h, n) /\ SearchesFirst(more)
    OBVIOUS
  <2>1. x[1] = "heartbeat"
    OBVIOUS
  <2> QED
    BY <1>2, <1>3, <1>6, <2>1 DEF TellsAll
<1>8. x[1] = "search" => TellsAll(more, v, h, n + 1) /\ SearchesFirst(more)
  BY <1>2, <1>3, <1>4, <1>6 DEF TellsAll
<1>9. x[1] = "impressions" /\ n > 0 => TellsAll(more, v, h, n - 1) /\ SearchesFirst(more)
  <2> SUFFICES ASSUME x[1] = "impressions", n > 0 PROVE TellsAll(more, v, h, n - 1) /\ SearchesFirst(more)
    OBVIOUS
  <2>1. OfKind(more, "impressions") = Append(a, x) /\ OfKind(more, "search") = b
    BY <1>2
  <2>2. Len(Append(a, x)) + (n - 1) = Len(b)
    BY <1>3, <1>4
  <2>3. OfKind(more, "page") = p /\ OfKind(more, "event") = q
    BY <1>2
  <2> QED
    BY <1>3, <1>6, <2>1, <2>2, <2>3, Zenon DEF TellsAll
<1>10. ASSUME NEW r \in Routes, x = PageOf(r), ~IsSearchRoute(r)
       PROVE  TellsAll(more, Append(v, r), h, n) /\ SearchesFirst(more)
  <2>1. x[1] = "page"
    BY <1>10 DEF PageOf
  <2>2. PagesOf(Append(v, r)) = Append(PagesOf(v), x)
    BY <1>10, OneVisitMore
  <2> QED
    BY <1>2, <1>3, <1>6, <2>1, <2>2 DEF TellsAll
<1>11. ASSUME NEW e \in UiEvents, x = <<"event", e>>, e.category # "", e.action # ""
       PROVE  TellsAll(more, v, Append(h, e), n) /\ SearchesFirst(more)
  <2>1. x[1] = "event"
    BY <1>11
  <2>2. EventsOf(Append(h, e)) = Append(EventsOf(h), x)
    BY <1>11, OneActionMore
  <2> QED
    BY <1>2, <1>3, <1>6, <2>1, <2>2 DEF TellsAll
<1>12. /\ \A r \in Routes : x = PageOf(r) /\ ~IsSearchRoute(r) =>
            TellsAll(more, Append(v, r), h, n) /\ SearchesFirst(more)
       /\ \A e \in UiEvents : x = <<"event", e>> /\ e.category # "" /\ e.action # "" =>
            TellsAll(more, v, Append(h, e), n) /\ SearchesFirst(more)
  BY <1>10, <1>11
<1> QED
  BY <1>5, <1>7, <1>8, <1>9, <1>12 DEF more

LEMMA ActivitiesAre ==
  /\ <<"heartbeat">> \in Activities
  /\ \A r \in OtherPages : PageOf(r) \in Activities
  /\ \A l \in ResultLists : <<"search", Len(l)>> \in Activities
  /\ \A l \in Found : <<"impressions", BlocksOf(l)>> \in Activities
  /\ \A e \in UiEvents : <<"event", e>> \in Activities
BY DEF Activities

LEMMA AnalyticsSteps == AnalyticsInv /\ [AnalyticsNext]_analyticsVars => AnalyticsInv'
<1> SUFFICES ASSUME AnalyticsInv, [AnalyticsNext]_analyticsVars PROVE AnalyticsInv'
  OBVIOUS
<1>a. /\ configState \in {"none", "loaded", "failed"} /\ trackersOn \subseteq {"Piwik"} /\ toRender \in 0..MaxSent
      /\ visited \in Seq(Routes) /\ handled \in Seq(UiEvents) /\ sent \in Seq(Activities) /\ resultsShown \in Found
      /\ MaxSent \in Nat
  BY AnalyticsAssumption DEF AnalyticsInv
<1>b. /\ configState = "loaded" => appConfig \in ServerConfigs
      /\ configState # "loaded" =>
           appConfig = << >> /\ trackersOn = {} /\ toRender = 0 /\ visited = <<>> /\ handled = <<>>
      /\ trackersOn = {} => sent = <<>>
      /\ trackersOn # {} => IsTracked(appConfig) /\ TellsAll(sent, visited, handled, toRender)
      /\ SearchesFirst(sent)
  BY DEF AnalyticsInv
<1>c. <<>> \in Found /\ ResultLists \subseteq Found
  BY DEF Found
<1>1. ASSUME NEW c \in ServerConfigs, LoadAppConfig(c) PROVE AnalyticsInv'
  <2>1. /\ configState = "none" /\ configState' = "loaded" /\ appConfig' = c
        /\ trackersOn' = SetupTrackers(IsTracked(c))
        /\ UNCHANGED <<sent, toRender, resultsShown, visited, handled>>
    BY <1>1 DEF LoadAppConfig
  <2>2. sent = <<>> /\ visited = <<>> /\ handled = <<>> /\ toRender = 0
    BY <1>b, <2>1
  <2>3. trackersOn' \subseteq {"Piwik"} /\ (trackersOn' # {} => IsTracked(c))
    BY <2>1 DEF SetupTrackers
  <2>4. TellsAll(<<>>, <<>>, <<>>, 0)
    <3>1. PICK p, w : p = Only(<<>>, OtherPages) /\ w = Only(<<>>, WholeEvents)
      OBVIOUS
    <3>2. /\ PagesOf(<<>>) = [i \in 1..Len(p) |-> PageOf(p[i])]
          /\ EventsOf(<<>>) = [i \in 1..Len(w) |-> <<"event", w[i]>>]
      BY <3>1, Zenon DEF PagesOf, EventsOf
    <3>3. Len(<<>>) = 0 /\ p = <<>> /\ w = <<>>
      BY <3>1, OnlyOfEmpty
    <3>4. PagesOf(<<>>) = <<>> /\ EventsOf(<<>>) = <<>>
      BY <3>2, <3>3
    <3>5. \A kind : OfKind(<<>>, kind) = <<>>
      BY OnlyOfEmpty DEF OfKind
    <3> QED
      BY <3>3, <3>4, <3>5 DEF TellsAll
  <2> QED
    BY <1>a, <1>b, <2>1, <2>2, <2>3, <2>4 DEF AnalyticsInv
<1>2. ASSUME LoadAppConfigFails PROVE AnalyticsInv'
  BY <1>2, <1>a, <1>b DEF LoadAppConfigFails, AnalyticsInv
<1>3. ASSUME NEW r \in Routes, VisitRoute(r) PROVE AnalyticsInv'
  <2>1. /\ configState = "loaded" /\ visited' = Append(visited, r) /\ resultsShown' = <<>>
        /\ sent' = IF trackersOn = {} THEN sent
                   ELSE sent \o ((IF IsSearchRoute(r) THEN <<>> ELSE <<PageOf(r)>>) \o <<<<"heartbeat">>>>)
        /\ UNCHANGED <<appConfig, configState, trackersOn, toRender, handled>>
    BY <1>3 DEF VisitRoute, TrackPageView, Push, PageOf
  <2>2. visited' \in Seq(Routes)
    BY <1>a, <2>1
  <2>3. CASE trackersOn = {}
    BY <1>a, <1>b, <1>c, <2>1, <2>2, <2>3 DEF AnalyticsInv
  <2>a. PICK beat \in Activities : beat = <<"heartbeat">>
    BY ActivitiesAre
  <2>b. toRender \in Nat
    BY <1>a
  <2>4. CASE trackersOn # {} /\ IsSearchRoute(r)
    <3>1. sent' = sent \o (<<>> \o <<beat>>)
      BY <2>1, <2>4, <2>a
    <3>2. sent' = Append(sent, beat)
      BY <1>a, <3>1, PushedAre
    <3>3. PagesOf(visited') = PagesOf(visited)
      BY <1>a, <2>1, <2>4, OneVisitMore
    <3>4. sent' \in Seq(Activities) /\ TellsAll(sent', visited, handled, toRender) /\ SearchesFirst(sent')
      BY <1>a, <1>b, <2>4, <2>a, <2>b, <3>2, TellsOneMore
    <3>5. TellsAll(sent', visited', handled, toRender)
      BY <3>3, <3>4 DEF TellsAll
    <3> QED
      BY <1>a, <1>b, <1>c, <2>1, <2>2, <2>4, <3>4, <3>5 DEF AnalyticsInv
  <2>5. CASE trackersOn # {} /\ ~IsSearchRoute(r)
    <3>a. PICK shown \in Activities : shown = PageOf(r)
      BY <2>5, ActivitiesAre DEF OtherPages
    <3>1. sent' = sent \o (<<shown>> \o <<beat>>)
      BY <2>1, <2>5, <2>a, <3>a
    <3>b. TwoPushed(sent, shown, beat)
      BY <1>a, <2>a, <3>a, PushedAre
    <3>2. sent' = Append(Append(sent, shown), beat)
      BY <3>1, <3>b DEF TwoPushed
    <3>c. Append(sent, shown) \in Seq(Activities)
      BY <1>a, <3>a
    <3>3. PICK s \in Seq(Activities) : s = Append(sent, shown)
      BY <3>c
    <3>4. TellsAll(s, visited', handled, toRender) /\ SearchesFirst(s)
      BY <1>a, <1>b, <2>1, <2>5, <2>b, <3>a, <3>3, TellsOneMore
    <3>5. sent' \in Seq(Activities) /\ TellsAll(sent', visited', handled, toRender) /\ SearchesFirst(sent')
      BY <1>a, <2>2, <2>a, <2>b, <3>2, <3>3, <3>4, TellsOneMore
    <3> QED
      BY <1>a, <1>b, <1>c, <2>1, <2>2, <2>5, <3>5 DEF AnalyticsInv
  <2> QED
    BY <2>3, <2>4, <2>5
<1>4. ASSUME NEW l \in ResultLists, SearchAnswered(l) PROVE AnalyticsInv'
  <2>1. /\ visited # <<>> /\ toRender < MaxSent /\ resultsShown' = l /\ toRender' = toRender + 1
        /\ sent' = IF trackersOn = {} THEN sent ELSE sent \o <<<<"search", Len(l)>>>>
        /\ UNCHANGED <<appConfig, configState, trackersOn, visited, handled>>
    BY <1>4 DEF SearchAnswered, TrackContentImpressions, TrackSiteSearch, Push
  <2>2. configState = "loaded" /\ toRender' \in 0..MaxSent /\ resultsShown' \in Found
    BY <1>a, <1>b, <1>c, <2>1
  <2>3. CASE trackersOn = {}
    BY <1>a, <1>b, <2>1, <2>2, <2>3 DEF AnalyticsInv
  <2>4. CASE trackersOn # {}
    <3>1. PICK x \in Activities : x = <<"search", Len(l)>>
      BY ActivitiesAre
    <3>2. sent' = Append(sent, x) /\ x[1] = "search"
      BY <1>a, <2>1, <2>4, <3>1, PushedAre
    <3>3. sent' \in Seq(Activities) /\ TellsAll(sent', visited, handled, toRender + 1) /\ SearchesFirst(sent')
      <4>1. toRender \in Nat
        BY <1>a
      <4> QED
        BY <1>a, <1>b, <2>4, <3>2, <4>1, TellsOneMore
    <3> QED
      BY <1>a, <1>b, <2>1, <2>2, <2>4, <3>3 DEF AnalyticsInv
  <2> QED
    BY <2>3, <2>4
<1>5. ASSUME AfterRender PROVE AnalyticsInv'
  <2>1. /\ toRender > 0 /\ toRender' = toRender - 1
        /\ sent' = IF trackersOn = {} THEN sent ELSE sent \o <<<<"impressions", BlocksOf(resultsShown)>>>>
        /\ UNCHANGED <<appConfig, configState, trackersOn, resultsShown, visited, handled>>
    BY <1>5 DEF AfterRender, Push, ContentBlocks
  <2>2. configState = "loaded" /\ toRender' \in 0..MaxSent
    BY <1>a, <1>b, <2>1
  <2>3. CASE trackersOn = {}
    BY <1>a, <1>b, <2>1, <2>2, <2>3 DEF AnalyticsInv
  <2>4. CASE trackersOn # {}
    <3>1. PICK x \in Activities : x = <<"impressions", BlocksOf(resultsShown)>>
      BY <1>a, ActivitiesAre
    <3>2. sent' = Append(sent, x) /\ x[1] = "impressions"
      BY <1>a, <2>1, <2>4, <3>1, PushedAre
    <3>3. sent' \in Seq(Activities) /\ TellsAll(sent', visited, handled, toRender - 1) /\ SearchesFirst(sent')
      <4>1. toRender \in Nat
        BY <1>a
      <4> QED
        BY <1>a, <1>b, <2>1, <2>4, <3>2, <4>1, TellsOneMore
    <3> QED
      BY <1>a, <1>b, <2>1, <2>2, <2>4, <3>3 DEF AnalyticsInv
  <2> QED
    BY <2>3, <2>4
<1>6. ASSUME NEW e \in UiEvents, NEW fails \in BOOLEAN, TrackOnAction(e, fails) PROVE AnalyticsInv'
  <2>1. /\ visited # <<>> /\ handled' = Append(handled, e) /\ TrackEvent(e)
        /\ UNCHANGED <<appConfig, configState, trackersOn, toRender, resultsShown, visited>>
    BY <1>6 DEF TrackOnAction
  <2>2. configState = "loaded" /\ handled' \in Seq(UiEvents)
    BY <1>a, <1>b, <2>1
  <2>3. CASE e.category # "" /\ e.action # ""
    <3>1. sent' = IF trackersOn = {} THEN sent ELSE sent \o <<<<"event", e>>>>
      BY <2>1, <2>3 DEF TrackEvent, Push
    <3>2. CASE trackersOn = {}
      BY <1>a, <1>b, <2>1, <2>2, <3>1, <3>2 DEF AnalyticsInv
    <3>3. CASE trackersOn # {}
      <4>1. PICK x \in Activities : x = <<"event", e>>
        BY ActivitiesAre
      <4>2. sent' = Append(sent, x) /\ x[1] = "event"
        BY <1>a, <3>1, <3>3, <4>1, PushedAre
      <4>3. toRender \in Nat
        BY <1>a
      <4>4. sent' \in Seq(Activities) /\ TellsAll(sent', visited, handled', toRender) /\ SearchesFirst(sent')
        BY <1>a, <1>b, <2>1, <2>3, <3>3, <4>1, <4>2, <4>3, TellsOneMore
      <4> QED
        BY <1>a, <1>b, <2>1, <2>2, <3>3, <4>4 DEF AnalyticsInv
    <3> QED
      BY <3>2, <3>3
  <2>4. CASE ~(e.category # "" /\ e.action # "")
    <3>1. sent' = sent
      BY <2>1, <2>4 DEF TrackEvent
    <3>2. EventsOf(handled') = EventsOf(handled)
      BY <1>a, <2>1, <2>4, OneActionMore
    <3>3. trackersOn # {} => TellsAll(sent, visited, handled', toRender)
      BY <1>b, <3>2 DEF TellsAll
    <3> QED
      BY <1>a, <1>b, <2>1, <2>2, <3>1, <3>3 DEF AnalyticsInv
  <2> QED
    BY <2>3, <2>4
<1>7. ASSUME UNCHANGED analyticsVars PROVE AnalyticsInv'
  BY <1>a, <1>b, <1>7 DEF analyticsVars, AnalyticsInv
<1> QED
  BY <1>1, <1>2, <1>3, <1>4, <1>5, <1>6, <1>7 DEF AnalyticsNext

(* What the trackers hear happened, in that order, once, and only if the    *)
(* server has switched tracking on.                                        *)
THEOREM AnalyticsStayTrue == AnalyticsSpec => []AnalyticsAreTrue
<1>1. AnalyticsInit => AnalyticsInv
  <2> SUFFICES ASSUME AnalyticsInit PROVE AnalyticsInv
    OBVIOUS
  <2>1. /\ appConfig = << >> /\ configState = "none" /\ trackersOn = {} /\ sent = <<>>
        /\ toRender = 0 /\ resultsShown = <<>> /\ visited = <<>> /\ handled = <<>>
    BY DEF AnalyticsInit
  <2>2. /\ <<>> \in Seq(Routes) /\ <<>> \in Seq(UiEvents) /\ <<>> \in Seq(Activities) /\ <<>> \in Found
        /\ Len(<<>>) = 0 /\ 0 \in 0..MaxSent
    BY AnalyticsAssumption DEF Found
  <2>3. SearchesFirst(<<>>)
    BY <2>2 DEF SearchesFirst
  <2> QED
    BY <2>1, <2>2, <2>3 DEF AnalyticsInv
<1>2. AnalyticsInv => AnalyticsAreTrue
  <2> SUFFICES ASSUME AnalyticsInv PROVE AnalyticsAreTrue
    OBVIOUS
  <2>1. /\ configState \in {"none", "loaded", "failed"} /\ trackersOn \subseteq {"Piwik"} /\ toRender \in 0..MaxSent
        /\ visited \in Seq(Routes) /\ handled \in Seq(UiEvents) /\ sent \in Seq(Activities)
        /\ configState = "loaded" => appConfig \in ServerConfigs
        /\ configState # "loaded" => appConfig = << >> /\ trackersOn = {}
        /\ trackersOn = {} => sent = <<>>
        /\ trackersOn # {} => IsTracked(appConfig) /\ TellsAll(sent, visited, handled, toRender)
        /\ SearchesFirst(sent)
    BY DEF AnalyticsInv
  <2>2. \A i \in 1 .. Len(sent) : sent[i] \in Activities
    BY <2>1
  <2>3. \A a \in Activities :
          /\ a[1] \in {"page", "heartbeat", "search", "impressions", "event"}
          /\ a[1] = "impressions" => \E l \in Found : a[2] = BlocksOf(l)
    BY DEF Activities, PageOf
  <2>4. DOMAIN sent = 1 .. Len(sent) /\ ToSet(visited) \subseteq Routes /\ ToSet(handled) \subseteq UiEvents
    BY <2>1 DEF ToSet
  <2>5. AnalyticsTypeOK
    BY <2>1, <2>2, <2>3, <2>4 DEF AnalyticsTypeOK
  <2>6. OnlyWhatIsEnabled
    <3>1. sent # <<>> => configState = "loaded" /\ IsTracked(appConfig)
      BY <2>1
    <3>2. ASSUME configState = "loaded", NEW k \in FlagKeys
          PROVE  GetConfig(appConfig, k, TRUE, "FALSE") \in {"TRUE", "FALSE"}
      BY <2>1, <3>2, AnalyticsAssumption DEF GetConfig
    <3> QED
      BY <3>1, <3>2 DEF OnlyWhatIsEnabled
  <2>7. PagesOrSearches
    <3>1. \A r \in Routes : r.name = SearchRoute => PageOf(r) \notin ToSet(sent)
      <4> SUFFICES ASSUME NEW r \in Routes, r.name = SearchRoute, NEW i \in 1 .. Len(sent), sent[i] = PageOf(r)
                   PROVE  FALSE
        BY <2>4 DEF ToSet
      <4>1. PICK q \in OtherPages : PageOf(r) = PageOf(q)
        <5>1. PageOf(r) \in Activities /\ PageOf(r)[1] = "page"
          BY <2>2 DEF PageOf
        <5> QED
          BY <5>1 DEF Activities
      <4>2. ResolveDynamicRouteName(r) = <<SearchRoute>>
        BY DEF ResolveDynamicRouteName, SearchRoute
      <4>3. ResolveDynamicRouteName(q) = <<SearchRoute>>
        BY <4>1, <4>2 DEF PageOf
      <4>4. q.name # SearchRoute
        BY DEF OtherPages, IsSearchRoute
      <4>5. /\ SearchRoute # "browse" /\ SearchRoute # "datasets"
            /\ <<SearchRoute>>[1] = SearchRoute /\ <<q.name>>[1] = q.name
            /\ <<"browse", q.attribute>>[1] = "browse" /\ <<"datasets", q.attribute>>[1] = "datasets"
        BY DEF SearchRoute
      <4>6. ResolveDynamicRouteName(q) \in {<<"browse", q.attribute>>, <<"datasets", q.attribute>>, <<q.name>>}
        BY Zenon DEF ResolveDynamicRouteName
      <4> QED
        BY <4>3, <4>4, <4>5, <4>6
    <3>2. trackersOn # {} => SentOf("page") = PagesOf(visited)
      BY <2>1 DEF TellsAll, SentOf
    <3> QED
      BY <3>1, <3>2, Zenon DEF PagesOrSearches, PagesOf, PageOf, OtherPages
  <2>8. ImpressionsFollowSearch
    <3>1. \A n \in 1..Len(sent) :
            LET first == SubSeq(sent, 1, n) IN Len(OfKind(first, "impressions")) <= Len(OfKind(first, "search"))
      BY <2>1, Zenon DEF SearchesFirst, NoMoreImpressions
    <3>2. trackersOn # {} => Len(SentOf("impressions")) + toRender = Len(SentOf("search"))
      BY <2>1 DEF TellsAll, SentOf
    <3>3. \A i \in 1..Len(sent) : sent[i][1] = "impressions" => \E l \in Found : sent[i][2] = BlocksOf(l)
      BY <2>2, <2>3
    <3> QED
      BY <3>1, <3>2, <3>3, Zenon DEF ImpressionsFollowSearch, Found
  <2>9. EventsAreHandled
    <3>1. trackersOn # {} => SentOf("event") = EventsOf(handled)
      BY <2>1 DEF TellsAll, SentOf
    <3> QED
      BY <3>1, Zenon DEF EventsAreHandled, EventsOf, WholeEvents
  <2> QED
    BY <2>5, <2>6, <2>7, <2>8, <2>9 DEF AnalyticsAreTrue
<1> QED
  BY <1>1, <1>2, AnalyticsSteps, PTL DEF AnalyticsSpec

-----------------------------------------------------------------------------
(* The parts together: each moves by itself.                               *)
LEMMA SearchingStep ==
    [WebNext]_webVars => /\ [SearchNext]_searchVars /\ [BoxNext]_boxVars /\ [KeysNext]_keyVars
                         /\ [AnalyticsNext]_analyticsVars /\ [FetchNext]_fetchVars
BY DEF WebNext, webVars

(* Searching keeps its promises whichever of its parts moves: page and url *)
(* agree, the box serves input and keys, trackers hear what happened, and  *)
(* callers get the answers to what they asked.                             *)
THEOREM SearchingKeepsPromises ==
    WebSpec => [](SearchPageAgrees /\ SearchBoxServes /\ AnalyticsAreTrue /\ AnswersAreOwn)
<1>1. WebInit => SearchInit /\ BoxInit /\ KeysInit /\ AnalyticsInit /\ FetchInit
  BY DEF WebInit
<1>2. WebSpec => SearchSpec /\ BoxSpec /\ KeysSpec /\ AnalyticsSpec /\ FetchSpec
  BY <1>1, SearchingStep, PTL DEF WebSpec, SearchSpec, BoxSpec, KeysSpec, AnalyticsSpec, FetchSpec
<1> QED
  BY <1>2, SearchPageIsInAgreement, SearchBoxIsServing, AnalyticsStayTrue, AnswersBelongToCallers, PTL
=============================================================================
