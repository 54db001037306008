----------------------------- MODULE UserLookup -----------------------------
(***************************************************************************)
(* The typeahead that finds a person or a group to add to the owners of a  *)
(* dataset (components pwr-user-lookup and user-lookup, service            *)
(* user-lookup).  The names all come from one request, which every lookup  *)
(* of the page waits for: they go on in the order in which they came.      *)
(***************************************************************************)
EXTENDS Lists, SequencesExt

CONSTANTS
  UserEntitiesSource,  \* the names the server knows, a sequence
  LookupKeywords,      \* what is typed
  BadKeywords,         \* those of them that are no regular expression
  StartsWith,          \* the pairs <<name, keyword>> that match
  SuggestionLimit,
  MaxWaiting,          \* bound: lookups that wait for the names
  MaxFound             \* bound: users handed on

ASSUME LookupAssumption ==
  /\ UserEntitiesSource \in Seq(ToSet(UserEntitiesSource))
  /\ BadKeywords \subseteq LookupKeywords /\ SuggestionLimit \in Nat \ {0}

VARIABLES
  inFocus, showPlaceholder, lookupEntity, suggestedText, suggestionOptions,
  highlighted,         \* the option of the list that is highlighted (ember-power-select)
  partyRequest,        \* "none", "inflight", "failed" or "cached"
  waiting,             \* the lookups that wait: <<"resolve", keyword>> or <<"find", user name>>
  didFindUser,         \* the users handed to the owners, in order
  lookupKeyword,       \* the last keyword searched (ghost)
  sought               \* the users looked for (ghost)

Names == ToSet(UserEntitiesSource)

\* The two kinds of lookups.
Resolving == {"resolve"} \X LookupKeywords
Finding == {"find"} \X Names

lookupVars == <<inFocus, showPlaceholder, lookupEntity, suggestedText, suggestionOptions, highlighted,
                partyRequest, waiting, didFindUser, lookupKeyword, sought>>


LookupTypeOK ==
  /\ {inFocus, showPlaceholder} \subseteq BOOLEAN
  /\ {lookupEntity, suggestedText} \subseteq Names \cup {"", "undefined"}
  /\ highlighted \in Names \cup {"undefined"}
  /\ ToSet(suggestionOptions) \subseteq Names /\ Len(suggestionOptions) <= SuggestionLimit
  /\ partyRequest \in {"none", "inflight", "failed", "cached"}
  /\ ToSet(waiting) \subseteq Resolving \cup Finding
  /\ waiting # <<>> => partyRequest = "inflight"

LookupInit ==
  /\ inFocus = FALSE /\ showPlaceholder = TRUE
  /\ lookupEntity = "undefined" /\ suggestedText = "undefined"
  /\ suggestionOptions = <<>> /\ highlighted = "undefined"
  /\ partyRequest = "none" /\ waiting = <<>> /\ didFindUser = <<>>
  /\ lookupKeyword = "" /\ sought = <<>>

-----------------------------------------------------------------------------
FirstOf(options) == IF options = <<>> THEN "undefined" ELSE options[1]

Matching(k) == Only(UserEntitiesSource, {name \in Names : <<name, k>> \in StartsWith})

NewSuggestions(k) == IF Len(Matching(k)) > SuggestionLimit THEN SubSeq(Matching(k), 1, SuggestionLimit) ELSE Matching(k)

Asked(lookups) == LET found == Only(lookups, Resolving) IN [i \in 1..Len(found) |-> found[i][2]]

\* Mutant: the first of the keywords that waited is the one answered.
SuggestFirst(lookups) ==
  IF Asked(lookups) = <<>>
  THEN UNCHANGED <<suggestionOptions, suggestedText, highlighted>>
  ELSE /\ suggestionOptions' = NewSuggestions(Head(Asked(lookups)))
       /\ suggestedText' = FirstOf(suggestionOptions') /\ highlighted' = FirstOf(suggestionOptions')

\* Lookups that have the names set the suggestions one after the other, and the list
\* highlights the first of them.
SuggestNames(lookups) ==
  IF Asked(lookups) = <<>>
  THEN UNCHANGED <<suggestionOptions, suggestedText, highlighted>>
  ELSE /\ suggestionOptions' = NewSuggestions(Last(Asked(lookups)))
       /\ suggestedText' = FirstOf(suggestionOptions') /\ highlighted' = FirstOf(suggestionOptions')

NamesSought(lookups) == LET found == Only(lookups, Finding) IN [i \in 1..Len(found) |-> found[i][2]]

\* A name that only looks like a user's finds nobody.
FindUser(lookups) == didFindUser' = didFindUser \o Only(NamesSought(lookups), Names)

\* A lookup asks for the names unless they are there or a request for them is under way.
\* A request that failed is kept: who comes later fails with it.
GetUserEntities(lookup) ==
  /\ Len(waiting) < MaxWaiting
  /\ partyRequest' = IF partyRequest = "none" THEN "inflight" ELSE partyRequest
  /\ waiting' = IF partyRequest \in {"none", "inflight"} THEN Append(waiting, lookup) ELSE waiting

\* With the names there, the lookup goes on at once.
Resumed(lookup) == IF partyRequest = "cached" THEN <<lookup>> ELSE <<>>

PartyAnswer ==
  /\ partyRequest = "inflight" /\ partyRequest' = "cached" /\ waiting' = <<>>
  /\ SuggestNames(waiting) /\ FindUser(waiting)
  /\ UNCHANGED <<inFocus, showPlaceholder, lookupEntity, lookupKeyword, sought>>

PartyFails ==
  /\ partyRequest = "inflight" /\ partyRequest' = "failed" /\ waiting' = <<>>
  /\ UNCHANGED <<inFocus, showPlaceholder, lookupEntity, suggestedText, suggestionOptions, highlighted,
                 didFindUser, lookupKeyword, sought>>

-----------------------------------------------------------------------------
FocusIn ==
  /\ ~inFocus /\ inFocus' = TRUE /\ showPlaceholder' = FALSE
  /\ UNCHANGED <<lookupEntity, suggestedText, suggestionOptions, highlighted, partyRequest, waiting,
                 didFindUser, lookupKeyword, sought>>

FocusOut ==
  /\ inFocus /\ inFocus' = FALSE
  /\ suggestedText' = "" /\ showPlaceholder' = (lookupEntity \in {"", "undefined"})
  /\ UNCHANGED <<lookupEntity, suggestionOptions, highlighted, partyRequest, waiting, didFindUser, lookupKeyword, sought>>

\* A keyword that is no regular expression throws before anything is asked for.
LookUp(k) ==
  /\ inFocus /\ k \notin BadKeywords
  /\ lookupKeyword' = k
  /\ GetUserEntities(<<"resolve", k>>) /\ SuggestNames(Resumed(<<"resolve", k>>))
  /\ UNCHANGED <<inFocus, showPlaceholder, lookupEntity, didFindUser, sought>>

NextSuggestion(step) ==
  LET current == CHOOSE i \in DOMAIN suggestionOptions : suggestionOptions[i] = highlighted
  IN  IF current + step \in DOMAIN suggestionOptions THEN suggestionOptions[current + step] ELSE highlighted

\* The arrow keys suggest the neighbour of what is highlighted; the list highlights it next.
PressArrow(step) ==
  /\ inFocus /\ highlighted # "undefined"
  /\ suggestedText' = NextSuggestion(step) /\ highlighted' = NextSuggestion(step)
  /\ UNCHANGED <<inFocus, showPlaceholder, lookupEntity, suggestionOptions, partyRequest, waiting,
                 didFindUser, lookupKeyword, sought>>

PressTab ==
  /\ inFocus /\ lookupEntity' = suggestedText
  /\ UNCHANGED <<inFocus, showPlaceholder, suggestedText, suggestionOptions, highlighted, partyRequest,
                 waiting, didFindUser, lookupKeyword, sought>>

\* A name that is empty is not looked for.
OnChangeSelection(selection) ==
  /\ selection # "undefined" /\ lookupEntity' = "" /\ suggestedText' = ""
  /\ IF selection = "" THEN UNCHANGED <<partyRequest, waiting, didFindUser, sought>>
     ELSE /\ Len(sought) < MaxFound /\ sought' = Append(sought, selection)
          /\ GetUserEntities(<<"find", selection>>) /\ FindUser(Resumed(<<"find", selection>>))
  /\ UNCHANGED <<inFocus, showPlaceholder, suggestionOptions, highlighted, lookupKeyword>>

PressEnter == inFocus /\ OnChangeSelection(lookupEntity)
ClickOption(name) == inFocus /\ name \in ToSet(suggestionOptions) /\ OnChangeSelection(name)

LookupNext ==
  \/ FocusIn \/ FocusOut \/ PressTab \/ PressEnter \/ PartyAnswer \/ PartyFails
  \/ \E k \in LookupKeywords : LookUp(k)
  \/ \E step \in {-1, 1} : PressArrow(step)
  \/ \E name \in Names : ClickOption(name)

LookupSpec == LookupInit /\ [][LookupNext]_lookupVars

-----------------------------------------------------------------------------
\* Once the names are there the options are those of the last keyword, however many keywords
\* were typed while the names were fetched.
OptionsOfKeyword == partyRequest = "cached" /\ lookupKeyword # "" => suggestionOptions = NewSuggestions(lookupKeyword)

\* The text suggested behind what is typed is the option that the list highlights: Tab takes
\* what the user sees.
SuggestedIsHighlighted == suggestedText \notin {"", "undefined"} => suggestedText = highlighted

\* Every user looked for is handed to the owners, once and in order, unless the names never come.
FoundAsSought == partyRequest = "cached" => didFindUser = sought

\* The lookup offers and finds the users of what is typed, though names come late.
LookupFindsUsers ==
  /\ LookupTypeOK /\ OptionsOfKeyword /\ SuggestedIsHighlighted /\ FoundAsSought
=============================================================================
