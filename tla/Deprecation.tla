---------------------------- MODULE Deprecation ----------------------------
(***************************************************************************)
(* The form that deprecates a dataset (component entity-deprecation) and   *)
(* its container on the page of a dataset (dataset-properties).  The       *)
(* container reads the dataset again after each update and whenever the    *)
(* page goes to another dataset; the form stays.                           *)
(***************************************************************************)
EXTENDS Integers, FiniteSets

CONSTANTS
  DeprUrns,            \* datasets
  Notes,               \* texts of a deprecation, "" not among them
  Dates,               \* dates offered by the calendar
  StoredAtFirst,       \* what the server knows of the datasets
  MaxDeprReads,        \* bound: reads under way
  MaxUpdates           \* bound: updates asked for

DeprecationOf == [deprecated : BOOLEAN, deprecationNote : Notes \cup {""}, decommissionTime : Dates \cup {"null"}]

ASSUME StoredAssumption ==
  /\ StoredAtFirst \in [DeprUrns -> DeprecationOf]
  /\ {MaxDeprReads, MaxUpdates} \subseteq Nat

VARIABLES
  deprUrn,             \* the dataset of the page
  stored,              \* what the server knows
  depReads,            \* the reads under way: the dataset and what the server knew when asked
  depUpdates,          \* the updates under way
  nUpdates,
  deprecated, deprecationNote, decommissionTime,   \* what the container holds
  isDeprecatedAlias,   \* the switch
  deprecationNoteAlias,\* the note edited, "follows" until somebody sets it
  isDeprecationAcknowledged,
  touched,             \* the user has used the switch (ghost)
  disturbed            \* a read failed, or two were under way (ghost)

formVars == <<isDeprecatedAlias, deprecationNoteAlias, isDeprecationAcknowledged, touched>>
heldVars == <<deprecated, deprecationNote, decommissionTime>>
deprVars == <<deprUrn, stored, depReads, depUpdates, nUpdates, heldVars, formVars, disturbed>>

DeprTypeOK ==
  /\ deprUrn \in DeprUrns /\ stored \in [DeprUrns -> DeprecationOf]
  /\ depReads \subseteq [urn : DeprUrns, seen : DeprecationOf]
  /\ depUpdates \subseteq [urn : DeprUrns, value : DeprecationOf, id : 1..MaxUpdates] /\ nUpdates \in 0..MaxUpdates
  /\ [deprecated |-> deprecated, deprecationNote |-> deprecationNote, decommissionTime |-> decommissionTime] \in DeprecationOf
  /\ {isDeprecatedAlias, isDeprecationAcknowledged, touched, disturbed} \subseteq BOOLEAN
  /\ deprecationNoteAlias \in Notes \cup {"", "follows"}

-----------------------------------------------------------------------------
DeprInit ==
  /\ stored = StoredAtFirst /\ deprUrn \in DeprUrns
  /\ depReads = {[urn |-> deprUrn, seen |-> stored[deprUrn]]} /\ depUpdates = {} /\ nUpdates = 0
  /\ deprecated = FALSE /\ deprecationNote = "" /\ decommissionTime = "null"
  /\ isDeprecatedAlias = FALSE /\ deprecationNoteAlias = "follows" /\ isDeprecationAcknowledged = FALSE
  /\ touched = FALSE /\ disturbed = FALSE

\* Mutant: the dataset that was updated is not read again.
NoRead(urn, server) == UNCHANGED <<depReads, disturbed>>

\* A read does not stop the one that is under way.
PerformRead(urn, server) ==
  /\ Cardinality(depReads) < MaxDeprReads
  /\ depReads' = depReads \cup {[urn |-> urn, seen |-> server[urn]]}
  /\ disturbed' = (disturbed \/ depReads # {})

VisitDeprecation(urn) ==
  /\ urn # deprUrn /\ deprUrn' = urn
  /\ UNCHANGED <<stored, depUpdates, nUpdates, heldVars, formVars>>
  /\ PerformRead(urn, stored)

\* The server answers with what it knew when asked or with what it knows now.
GetDeprecationProperties(read) ==
  /\ read \in depReads /\ depReads' = depReads \ {read}
  /\ \E value \in {read.seen, stored[read.urn]} :
       /\ deprecated' = value.deprecated /\ deprecationNote' = value.deprecationNote
       /\ decommissionTime' = value.decommissionTime
  /\ UNCHANGED <<deprUrn, stored, depUpdates, nUpdates, formVars, disturbed>>

DeprecationReadFails(read) ==
  /\ read \in depReads /\ depReads' = depReads \ {read} /\ disturbed' = TRUE
  /\ UNCHANGED <<deprUrn, stored, depUpdates, nUpdates, heldVars, formVars>>

-----------------------------------------------------------------------------
ToggleDeprecatedStatus ==
  /\ isDeprecatedAlias' = ~isDeprecatedAlias /\ touched' = TRUE
  /\ UNCHANGED <<deprUrn, stored, depReads, depUpdates, nUpdates, heldVars, deprecationNoteAlias,
                 isDeprecationAcknowledged, disturbed>>

\* The fields under the switch are there only while it is on.
EditNote(note) ==
  /\ isDeprecatedAlias /\ deprecationNoteAlias' = note
  /\ UNCHANGED <<deprUrn, stored, depReads, depUpdates, nUpdates, heldVars, isDeprecatedAlias,
                 isDeprecationAcknowledged, touched, disturbed>>

\* The date of the form is the date of the container.
OnDecommissionDateChange(date) ==
  /\ isDeprecatedAlias /\ decommissionTime' = date
  /\ UNCHANGED <<deprUrn, stored, depReads, depUpdates, nUpdates, deprecated, deprecationNote, formVars, disturbed>>

OnAcknowledgeDeprecationNotice ==
  /\ isDeprecatedAlias /\ isDeprecationAcknowledged' = ~isDeprecationAcknowledged
  /\ UNCHANGED <<deprUrn, stored, depReads, depUpdates, nUpdates, heldVars, isDeprecatedAlias,
                 deprecationNoteAlias, touched, disturbed>>

IsSubmittable == isDeprecatedAlias => decommissionTime # "null" /\ isDeprecationAcknowledged

NoteShown == IF deprecationNoteAlias = "follows" THEN deprecationNote ELSE deprecationNoteAlias
NoteValue == IF isDeprecatedAlias THEN NoteShown ELSE ""

NewDeprecation ==
  [deprecated |-> isDeprecatedAlias, deprecationNote |-> NoteValue,
   decommissionTime |-> IF isDeprecatedAlias THEN decommissionTime ELSE "null"]

OnUpdateDeprecation ==
  /\ IsSubmittable /\ nUpdates < MaxUpdates /\ nUpdates' = nUpdates + 1
  /\ depUpdates' = depUpdates \cup {[urn |-> deprUrn, value |-> NewDeprecation, id |-> nUpdates + 1]}
  /\ UNCHANGED <<deprUrn, stored, depReads, heldVars, formVars, disturbed>>

\* Whether the update worked or not, the dataset of the page is read again, and the form
\* keeps the note that was sent.
UpdateDeprecation(update, worked) ==
  /\ update \in depUpdates /\ depUpdates' = depUpdates \ {update}
  /\ stored' = IF worked THEN [stored EXCEPT ![update.urn] = update.value] ELSE stored
  /\ deprecationNoteAlias' = update.value.deprecationNote
  /\ UNCHANGED <<deprUrn, nUpdates, heldVars, isDeprecatedAlias, isDeprecationAcknowledged, touched>>
  /\ PerformRead(deprUrn, stored')

DeprNext ==
  \/ \E urn \in DeprUrns : VisitDeprecation(urn)
  \/ \E read \in depReads : GetDeprecationProperties(read) \/ DeprecationReadFails(read)
  \/ ToggleDeprecatedStatus \/ OnAcknowledgeDeprecationNotice \/ OnUpdateDeprecation
  \/ \E note \in Notes \cup {""} : EditNote(note)
  \/ \E date \in Dates : OnDecommissionDateChange(date)
  \/ \E update \in depUpdates, worked \in BOOLEAN : UpdateDeprecation(update, worked)

DeprSpec == DeprInit /\ [][DeprNext]_deprVars

-----------------------------------------------------------------------------
\* No dataset is deprecated without a date at which it goes, whatever datasets and reads the
\* page went through while the form was filled in.
DeprecatedHasDate == \A urn \in DeprUrns : stored[urn].deprecated => stored[urn].decommissionTime # "null"

\* A dataset that is not deprecated keeps no note and no date.
NotDeprecatedKeepsNothing ==
  \A urn \in DeprUrns : ~stored[urn].deprecated => stored[urn] = [deprecated |-> FALSE, deprecationNote |-> "", decommissionTime |-> "null"]

\* When nothing is under way the container holds what the server knows of the dataset of the
\* page, unless a read failed or was overtaken.
HoldsTheDataset ==
  depReads = {} /\ depUpdates = {} /\ ~disturbed
    => deprecated = stored[deprUrn].deprecated /\ deprecationNote = stored[deprUrn].deprecationNote

\* The switch of a form that nobody touched says whether the dataset is deprecated.  It is
\* violated: the container hands over "deprecated" and the form reads "isDeprecated", so that
\* the form of a deprecated dataset says that it is not, and an update withdraws the deprecation.
DeprecationShown == depReads = {} /\ ~touched /\ ~disturbed => isDeprecatedAlias = deprecated

\* Form, container and server agree about the deprecation of a dataset across
\* edits, updates, reads and page changes.
FormIsOfDataset ==
  /\ DeprTypeOK /\ DeprecatedHasDate /\ NotDeprecatedKeepsNothing /\ HoldsTheDataset
=============================================================================
