------------------------------ MODULE SearchBox ------------------------------
(***************************************************************************)
(* The search box of the web client: its text, the restartable task that   *)
(* looks for suggestions while the user types, the steps that turn a text  *)
(* into groups of suggestions, and the debounced and memoized query for    *)
(* the values of a field.                                                  *)
(*                                                                         *)
(* A text is a model value; what the grammar makes of it is given by       *)
(* constants: the rules its last column wants (none if it does not parse)  *)
(* and the length of its last word.  A text wants at most one rule that    *)
(* asks the server, EntityName or FacetValue.  A query for a value is      *)
(* "waiting" for the 200 ms of the debounce, then "asked"; a later query   *)
(* replaces a waiting one, whose promise is then never settled.            *)
(***************************************************************************)
EXTENDS Integers, Sequences, FiniteSets

CONSTANTS
  Entities, DefaultEntity, NoEntity,  \* entities of the drop down; nothing selected
  Texts, EmptyText,                   \* what the input may hold
  Wanted,        \* Wanted[t]: rules wanted by the parser after t, {} if t is invalid
  WordLength,    \* WordLength[t]: length of the last word of t
  CacheKey,      \* CacheKey[t]: the field and the word whose values t asks for
  MaxAsked       \* bound: queries on the net

RuleNames == {"FacetName", "FacetValue", "AndOperator", "OrOperator", "EntityName"}

ASSUME SearchBoxAssumption ==
  /\ DefaultEntity \in Entities /\ NoEntity \notin Entities /\ EmptyText \in Texts
  /\ Wanted \in [Texts -> SUBSET RuleNames] /\ WordLength \in [Texts -> Nat]
  /\ DOMAIN CacheKey = Texts
  /\ \A t \in Texts : ~({"FacetValue", "EntityName"} \subseteq Wanted[t])
  /\ WordLength[EmptyText] = 0 /\ MaxAsked \in Nat

VARIABLES
  text,            \* the text the route or the last submit gave the box
  inputText,       \* what the input shows
  selectedEntity,  \* the entity of the drop down
  focusing,        \* the input has the focus
  typeahead,       \* onTypeaheadTask: NoTask or the text and entity it works on
  suggestions,     \* the groups shown, with the text and entity they are for
  initialFor,      \* the entity of the initial suggestions
  tooltip,         \* showSelectEntityTooltip
  tooltipTimer,    \* a timer to hide it is running
  queries,         \* queries for values: stage, and whether the task awaits it
  responses,       \* queryResponseCache: key -> the entity whose values it holds
  refocus,         \* onChange has scheduled the focus to come back
  replaced         \* history: the text or the task of the focused input was taken away

boxVars == <<text, inputText, selectedEntity, focusing, typeahead, suggestions,
             initialFor, tooltip, tooltipTimer, queries, responses, refocus, replaced>>

NoTask == [idle |-> TRUE]
NoSuggestions == [none |-> TRUE]
SearchedEntity == IF selectedEntity = NoEntity THEN DefaultEntity ELSE selectedEntity

(***************************************************************************)
(* The steps from a text to its suggestions.                               *)
(***************************************************************************)

BuilderOf(t, e) == [text |-> t, entity |-> e, parsed |-> FALSE, allWanted |-> {}, wanted |-> {},
                    operators |-> {}, facetNames |-> {}, datasets |-> {}, groups |-> {}]

\* An invalid text leaves a message in the groups and goes on.
Feed(b) == IF Wanted[b.text] = {} THEN [b EXCEPT !.groups = {"error"}]
           ELSE [b EXCEPT !.parsed = TRUE]

\* All the rules the parser wants, whatever they are wanted by.
CreateWantedRulesMap(b) == IF ~b.parsed THEN b ELSE [b EXCEPT !.allWanted = Wanted[b.text]]

\* The ones there are suggestions for.
FilterWantedRulesMap(b) == [b EXCEPT !.wanted = b.allWanted \cap RuleNames]

\* The two logical operators are suggested where the grammar wants them.
LogicalOperators(b) ==
  [b EXCEPT !.operators = {r \in b.wanted : r \in {"AndOperator", "OrOperator"}}]

\* Facet names come from the fields of the entity.
FacetNames(b) ==
  [b EXCEPT !.facetNames = IF "FacetName" \in b.wanted THEN {"name"} ELSE @]

FacetValues(b, values) ==
  [b EXCEPT !.facetNames = IF "FacetValue" \in b.wanted THEN @ \cup values ELSE @]

EntityNames(b, values) ==
  [b EXCEPT !.datasets = IF "EntityName" \in b.wanted THEN @ \cup values ELSE @]

\* All groups are made anew, in the order they are displayed.
GenerateGroups(b) ==
  [b EXCEPT !.groups =
    {g \in {"hint", "Operators", "Filter By", "Entities"} :
       CASE g = "hint" -> b.datasets = {} /\ "EntityName" \in b.wanted /\ WordLength[b.text] < 3
         [] g = "Operators" -> b.operators # {}
         [] g = "Filter By" -> b.facetNames # {}
         [] OTHER -> b.datasets # {}}]

ProcessRules(b, values) == EntityNames(FacetValues(FacetNames(LogicalOperators(b)), values), values)

\* grammarProcessingSteps, once the values they need are there.
TypeaheadQueryProcessor(t, e, values) ==
  GenerateGroups(ProcessRules(FilterWantedRulesMap(CreateWantedRulesMap(Feed(BuilderOf(t, e)))),
                              values)).groups

(***************************************************************************)
(* The values of a field.  The key a response is remembered by is the      *)
(* field and the input of the query; the entity is not part of it.         *)
(***************************************************************************)

\* A query shorter than three characters is answered with nothing; an answered
\* one is remembered.
NeedsServer(t) ==
  /\ Wanted[t] \cap {"FacetValue", "EntityName"} # {}
  /\ WordLength[t] >= 3
  /\ CacheKey[t] \notin DOMAIN responses

Suggest(t, e, values) ==
  [text |-> t, entity |-> e, values |-> values, groups |-> TypeaheadQueryProcessor(t, e, values)]

\* Nobody awaits the queries of a task that is cancelled.
Unawaited == {[q EXCEPT !.awaited = FALSE] : q \in queries}

\* debounce: a query still waiting is replaced.
Debounced(t, e) ==
  {q \in Unawaited : q.stage = "asked"}
    \cup {[text |-> t, entity |-> e, stage |-> "waiting", awaited |-> TRUE]}

\* onTypeaheadTask.perform: restartable, so the task before it is cancelled.
OnTypeahead(t) ==
  LET e == SearchedEntity IN
  IF NeedsServer(t)
  THEN /\ typeahead' = [text |-> t, entity |-> e]
       /\ queries' = Debounced(t, e)
       /\ UNCHANGED suggestions
  ELSE /\ typeahead' = NoTask
       /\ queries' = Unawaited
       /\ suggestions' = Suggest(t, e, IF CacheKey[t] \in DOMAIN responses /\ WordLength[t] >= 3
                                       THEN {responses[CacheKey[t]]} ELSE {})

CancelInflightTask ==
  /\ typeahead' = NoTask
  /\ queries' = Unawaited

\* Initial suggestions ask no server: they follow the drop down at once.
SetInitialSuggestions(e) == initialFor' = IF e = NoEntity THEN DefaultEntity ELSE e

-----------------------------------------------------------------------------
BoxInit ==
  /\ text = EmptyText /\ inputText = EmptyText
  /\ selectedEntity = DefaultEntity /\ focusing = FALSE
  /\ typeahead = NoTask /\ suggestions = NoSuggestions /\ initialFor = DefaultEntity
  /\ tooltip = FALSE /\ tooltipTimer = FALSE
  /\ queries = {} /\ responses = << >>
  /\ refocus = FALSE /\ replaced = FALSE

BoxTypeOK ==
  /\ text \in Texts /\ inputText \in Texts
  /\ selectedEntity \in Entities \cup {NoEntity} /\ initialFor \in Entities
  /\ {focusing, tooltip, tooltipTimer, refocus, replaced} \subseteq BOOLEAN
  /\ typeahead = NoTask \/ typeahead \in [text : Texts, entity : Entities]
  /\ queries \subseteq [text : Texts, entity : Entities, stage : {"waiting", "asked"}, awaited : BOOLEAN]
  /\ DOMAIN responses \subseteq {CacheKey[t] : t \in {u \in Texts : WordLength[u] >= 3}}

(***************************************************************************)
(* What the user and the route do.                                         *)
(***************************************************************************)

\* The route gave another keyword: whatever was typed is replaced.
DidReceiveAttrs(t) ==
  /\ text' = t /\ inputText' = t
  /\ SetInitialSuggestions(selectedEntity)
  /\ replaced' = TRUE
  /\ UNCHANGED <<selectedEntity, focusing, typeahead, suggestions, tooltip, tooltipTimer,
                 queries, responses, refocus>>

SearchDisabled == selectedEntity = NoEntity

OnFocus ==
  /\ ~focusing /\ ~SearchDisabled
  /\ inputText' = text /\ focusing' = TRUE /\ refocus' = FALSE /\ replaced' = FALSE
  /\ OnTypeahead(text)
  /\ UNCHANGED <<text, selectedEntity, initialFor, tooltip, tooltipTimer, responses>>

OnInput(t) ==
  /\ focusing
  /\ inputText' = t /\ replaced' = FALSE
  /\ OnTypeahead(t)
  /\ UNCHANGED <<text, selectedEntity, focusing, initialFor, tooltip, tooltipTimer, responses,
                 refocus>>

OnBlur ==
  /\ focusing
  /\ text' = inputText /\ focusing' = FALSE
  /\ CancelInflightTask
  /\ UNCHANGED <<inputText, selectedEntity, suggestions, initialFor, tooltip, tooltipTimer,
                 responses, refocus, replaced>>

\* A suggestion is taken: the input loses the focus now and gets it back later.
OnChange(t) ==
  /\ focusing /\ suggestions # NoSuggestions
  /\ suggestions.groups \ {"hint", "error"} # {}
  /\ text' = t /\ inputText' = t
  /\ focusing' = FALSE /\ refocus' = TRUE
  /\ CancelInflightTask
  /\ UNCHANGED <<selectedEntity, suggestions, initialFor, tooltip, tooltipTimer, responses, replaced>>

\* Only a text that is not blank is searched for.
OnSubmit ==
  /\ ~SearchDisabled
  /\ CancelInflightTask
  /\ text' = IF inputText = EmptyText THEN text ELSE inputText
  /\ replaced' = TRUE
  /\ UNCHANGED <<inputText, selectedEntity, focusing, suggestions, initialFor, tooltip,
                 tooltipTimer, responses, refocus>>

\* The drop down takes the focus, so the input has lost it.
OnSelectedEntityChange(e) ==
  /\ ~focusing
  /\ selectedEntity' = e
  /\ tooltip' = FALSE
  /\ SetInitialSuggestions(e)
  /\ UNCHANGED <<text, inputText, focusing, typeahead, suggestions, tooltipTimer, queries,
                 responses, refocus, replaced>>

\* A click on the disabled input shows a tooltip for two seconds.
MouseDown ==
  /\ SearchDisabled
  /\ tooltip' = TRUE /\ tooltipTimer' = TRUE
  /\ UNCHANGED <<text, inputText, selectedEntity, focusing, typeahead, suggestions, initialFor,
                 queries, responses, refocus, replaced>>

TooltipTimeout ==
  /\ tooltipTimer
  /\ tooltip' = FALSE /\ tooltipTimer' = FALSE
  /\ UNCHANGED <<text, inputText, selectedEntity, focusing, typeahead, suggestions, initialFor,
                 queries, responses, refocus, replaced>>

(***************************************************************************)
(* Queries for values.                                                     *)
(***************************************************************************)

\* The debounce is over and the query is sent.
RunQueryCallback(q) ==
  /\ q.stage = "waiting"
  /\ Cardinality({r \in queries : r.stage = "asked"}) < MaxAsked
  /\ queries' = (queries \ {q}) \cup {[q EXCEPT !.stage = "asked"]}
  /\ UNCHANGED <<text, inputText, selectedEntity, focusing, typeahead, suggestions, initialFor,
                 tooltip, tooltipTimer, responses, refocus, replaced>>

\* Mutant: an answer is shown whoever asked for it.
ShowAnswer(q) ==
  /\ typeahead' = IF q.awaited THEN NoTask ELSE typeahead
  /\ suggestions' = Suggest(q.text, q.entity, {q.entity})

TakeAnswer(q) ==
  IF q.awaited
  THEN /\ typeahead' = NoTask
       /\ suggestions' = Suggest(q.text, q.entity, {q.entity})
  ELSE UNCHANGED <<typeahead, suggestions>>

\* The answer is remembered under the key of the query even if its task is gone.
FetchFacetValue(q) ==
  /\ q.stage = "asked"
  /\ queries' = queries \ {q}
  /\ responses' = [key \in DOMAIN responses \cup {CacheKey[q.text]} |->
                    IF key = CacheKey[q.text] THEN q.entity ELSE responses[key]]
  /\ TakeAnswer(q)
  /\ UNCHANGED <<text, inputText, selectedEntity, focusing, initialFor, tooltip, tooltipTimer,
                 refocus, replaced>>

\* A failed query is not remembered; its task shows an error.
QueryFails(q) ==
  /\ q.stage = "asked"
  /\ queries' = queries \ {q}
  /\ IF q.awaited
     THEN /\ typeahead' = NoTask
          /\ suggestions' = [text |-> q.text, entity |-> q.entity, values |-> {}, groups |-> {"error"}]
     ELSE UNCHANGED <<typeahead, suggestions>>
  /\ UNCHANGED <<text, inputText, selectedEntity, focusing, initialFor, tooltip, tooltipTimer,
                 responses, refocus, replaced>>

BoxNext ==
  \/ \E t \in Texts : DidReceiveAttrs(t) \/ OnInput(t) \/ OnChange(t)
  \/ OnFocus \/ OnBlur \/ OnSubmit
  \/ \E e \in Entities \cup {NoEntity} : OnSelectedEntityChange(e)
  \/ MouseDown \/ TooltipTimeout
  \/ \E q \in queries : RunQueryCallback(q) \/ FetchFacetValue(q) \/ QueryFails(q)

BoxSpec == BoxInit /\ [][BoxNext]_boxVars

-----------------------------------------------------------------------------
(***************************************************************************)
(* Properties.                                                             *)
(***************************************************************************)

\* When no task runs, the suggestions under a focused input are those of the
\* text in it and of the entity selected, however typing, blurring and late
\* answers were interleaved, until the route or a submit takes the text or the
\* task away.
SuggestionsMatchInput ==
  focusing /\ typeahead = NoTask /\ ~replaced =>
    suggestions.text = inputText /\ suggestions.entity = SearchedEntity

\* A running task awaits exactly one query, which waits or is on the net: the
\* debounce never drops the promise of a living task (it never settles it).
NoTaskHangs ==
  {q.text : q \in {r \in queries : r.awaited}}
    = IF typeahead = NoTask THEN {} ELSE {typeahead.text}

\* An input that loses the focus keeps its text: it comes back with the focus.
BlurKeepsText == ~focusing => text = inputText

\* The tooltip always has a timer that takes it away.
TooltipGoesAway == tooltip => tooltipTimer

\* The search box suggests for what is typed, loses nothing the user typed, and
\* leaves neither a task nor a tooltip behind.
SuggestionsAreCurrent ==
  /\ BoxTypeOK /\ SuggestionsMatchInput /\ NoTaskHangs /\ BlurKeepsText /\ TooltipGoesAway
=============================================================================
