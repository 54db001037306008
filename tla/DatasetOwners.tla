---------------------------- MODULE DatasetOwners ----------------------------
(***************************************************************************)
(* The owners of a dataset in the web client: the container of the tab,    *)
(* whose parent task reads several things at once, the table in which a user  *)
(* edits the owners, the save that replaces the whole list on the server   *)
(* and reads it again, and the list of avatars in the header.  The tab     *)
(* stays mounted when the user goes from one dataset to another; its tasks *)
(* are not restartable, those of the header are.                           *)
(*                                                                         *)
(* An owner is a record of what the code looks at; whether a user is a     *)
(* person or a group, and active, is fixed by constants.                   *)
(***************************************************************************)
EXTENDS Integers, Sequences, FiniteSets, SequencesExt, Lists

CONSTANTS
  Urns,             \* the datasets a user moves between
  Inherited,        \* those whose owners come from an upstream dataset
  UserNames,        \* users and groups that may own a dataset
  Persons, Active,  \* of these: idType User, and isActive
  InitialOwners,    \* InitialOwners[u]: the owners the server knows first
  Suggested,        \* Suggested[u]: the owners it suggests
  OwnerTypes,       \* the types of the server, "DataOwner" among them
  MaxReads, MaxOwners, MaxRaced, MaxPosts, MaxSaved
                    \* bounds: parent tasks remembered, length of an edited list before and
                    \* after a race of reads, saves on the net, datasets saved

Owner == [userName : UserNames, source : {"UI", "DB"}, type : OwnerTypes, confirmed : BOOLEAN]

ASSUME OwnersAssumption ==
  /\ Inherited \subseteq Urns /\ Persons \subseteq UserNames /\ Active \subseteq UserNames
  /\ InitialOwners \in [Urns -> Seq(Owner)] /\ Suggested \in [Urns -> Seq(Owner)]
  /\ {"DataOwner", "Consumer"} \subseteq OwnerTypes
  /\ {MaxReads, MaxOwners, MaxRaced, MaxPosts, MaxSaved} \subseteq Nat

VARIABLES
  store,          \* the server: dataset -> owners
  ownUrn,         \* the dataset of the page
  owners,         \* the container's list
  ownersOf,       \* history: the dataset the list was read for
  suggestedOwners,
  reads,          \* instances of getContainerDataTask, the last performed last
  userEntities,   \* getUserEntities: "pending", "cached" or "failed", for all callers
  rereads,        \* datasets whose owners a save asked for again
  posts,          \* saves the server has not taken yet
  saving,         \* saveOwners runs in the table on the page
  changedState,   \* -1, 0 or 1
  saveDisabled,   \* requiredMinNotConfirmed as it was last computed
  ownersDot,      \* the dot on the tab: owners are missing
  headerOf, headerTask, \* the dataset of the avatars in the header, and of their read
  diverged,       \* history: the list was edited, or a read of it failed
  raced           \* history: a dataset was left before its owners were read

ownVars == <<store, ownUrn, owners, ownersOf, suggestedOwners, reads, userEntities, rereads, posts,
             saving, changedState, saveDisabled, ownersDot, headerOf, headerTask, diverged, raced>>

(***************************************************************************)
(* Lists of owners.                                                        *)
(***************************************************************************)

OwnerKey(o) == <<o.userName, o.source>>

OwnerAlreadyExists(list, o) == \E i \in DOMAIN list : OwnerKey(list[i]) = OwnerKey(o)

\* One owner replaced in its place, if the list then has no key twice.
UpdateOwner(list, i, o) ==
  LET new == [list EXCEPT ![i] = o]
  IN  IF Cardinality({OwnerKey(new[j]) : j \in DOMAIN new}) = Len(new) THEN new ELSE list

DefaultOwner(u) == [userName |-> u, source |-> "UI", type |-> "DataOwner", confirmed |-> FALSE]

IsConfirmedOwner(o) == o.source = "UI"
ConfirmedOwners(list) == Only(list, {o \in Owner : IsConfirmedOwner(o)})

IsValidConfirmedOwner(o) ==
  o.confirmed /\ o.type = "DataOwner" /\ o.userName \in Persons /\ o.userName \in Active
ValidConfirmedOwners(list) == Only(ConfirmedOwners(list), {o \in Owner : IsValidConfirmedOwner(o)})

MinRequiredConfirmedOwners == 2

OwnersRequiredCount(list) == MinRequiredConfirmedOwners - Len(ValidConfirmedOwners(list))

IsRequiredMinOwnersNotConfirmed(list) == Len(ValidConfirmedOwners(list)) < MinRequiredConfirmedOwners

CommonOwners == {o \in ToSet(ConfirmedOwners(owners)) :
                   \E s \in ToSet(suggestedOwners) : s.userName = o.userName}

\* The types a user may choose, without consumers.
ReadDatasetOwnerTypes == OwnerTypes \ {"Consumer"}

(***************************************************************************)
(* The parent task.  It performs its children at once and waits for them   *)
(* in this order, so that it fails at the first failure it comes to.  The  *)
(* read of the owner types is one with that of the suggestions.            *)
(***************************************************************************)

Children == <<"owners", "suggested", "users">>

NewRead(u) ==
  [urn |-> u,
   pending |-> ToSet(Children) \ (IF userEntities = "pending" THEN {} ELSE {"users"}),
   failed |-> IF userEntities = "failed" THEN {"users"} ELSE {}]

Status(r) ==
  LET open == {c \in DOMAIN Children : Children[c] \in r.pending \cup r.failed}
      first == CHOOSE c \in open : \A d \in open : c <= d
  IN  CASE open = {} -> "done"
        [] open # {} /\ Children[first] \in r.failed -> "error"
        [] OTHER -> "running"

\* Mutant: the page does not wait for the owners.
OthersRun == \E i \in DOMAIN reads : reads[i].pending \cap {"suggested", "users"} # {}

IsRunning == \E i \in DOMAIN reads : Status(reads[i]) = "running"
IsError == Status(Last(reads)) = "error"

\* The table of owners is on the page.
Editing == ~IsError /\ ~IsRunning /\ ownersOf \notin Inherited

\* Only the last instance matters once nothing of an older one is pending.
Perform(u) ==
  /\ reads' = Append(Only(reads, {r \in ToSet(reads) : r.pending # {}}), NewRead(u))
  /\ Len(reads') <= MaxReads

\* A table that appears starts anew; in one that stays, a changed list counts
\* as a change and Save and the dot are decided anew.
AuthorsRerender(touched) ==
  /\ CASE ~Editing' -> changedState' = -1 /\ saveDisabled' = TRUE /\ saving' = FALSE
       [] Editing' /\ ~Editing -> changedState' = 0 /\ saveDisabled' = TRUE /\ UNCHANGED saving
       [] OTHER -> IF touched
                   THEN /\ changedState' = 1 /\ UNCHANGED saving
                        /\ saveDisabled' = IsRequiredMinOwnersNotConfirmed(owners')
                   ELSE UNCHANGED <<changedState, saveDisabled, saving>>
  /\ ownersDot' = IF Editing' THEN IsRequiredMinOwnersNotConfirmed(owners') ELSE ownersDot

-----------------------------------------------------------------------------
OwnInit ==
  /\ store = InitialOwners
  /\ ownUrn \in Urns
  /\ owners = <<>> /\ ownersOf = ownUrn /\ suggestedOwners = <<>>
  /\ userEntities = "pending"
  /\ reads = <<[urn |-> ownUrn, pending |-> ToSet(Children), failed |-> {}]>>
  /\ rereads = {} /\ posts = {} /\ saving = FALSE /\ changedState = -1 /\ saveDisabled = TRUE
  /\ ownersDot = FALSE /\ headerOf = ownUrn /\ headerTask = {ownUrn} /\ diverged = TRUE /\ raced = FALSE

OwnTypeOK ==
  /\ store \in [Urns -> Seq(Owner)] /\ ownUrn \in Urns /\ ownersOf \in Urns
  /\ \A i \in DOMAIN owners : owners[i] \in Owner
  /\ userEntities \in {"pending", "cached", "failed"}
  /\ reads # <<>>
  /\ \A i \in DOMAIN reads : reads[i].pending \cup reads[i].failed \subseteq ToSet(Children)
  /\ rereads \subseteq Urns /\ {saving, saveDisabled, ownersDot, diverged, raced} \subseteq BOOLEAN
  /\ changedState \in -1..1 /\ (changedState = -1 <=> ~Editing)
  /\ Cardinality(headerTask) <= 1

(***************************************************************************)
(* Reading.                                                                *)
(***************************************************************************)

RestartHeader(u) == {u}

OpenDataset(u) ==
  /\ u # ownUrn
  /\ ownUrn' = u
  /\ Perform(u)
  /\ headerTask' = RestartHeader(u)
  /\ raced' = (raced \/ rereads # {} \/ \E i \in DOMAIN reads : "owners" \in reads[i].pending)
  /\ UNCHANGED <<store, owners, ownersOf, suggestedOwners, userEntities, rereads, posts, headerOf, diverged>>
  /\ AuthorsRerender(FALSE)

RetryReads ==
  /\ IsError
  /\ Perform(ownUrn)
  /\ UNCHANGED <<store, ownUrn, owners, ownersOf, suggestedOwners, userEntities, rereads, posts,
                 headerOf, headerTask, diverged, raced>>
  /\ AuthorsRerender(FALSE)

ChildEnds(i, c, ok) ==
  /\ i \in DOMAIN reads /\ c \in reads[i].pending
  /\ reads' = [reads EXCEPT ![i].pending = @ \ {c}, ![i].failed = IF ok THEN @ ELSE @ \cup {c}]

\* The list read replaces what is there, edits and all.
SetOwners(u) == owners' = store[u] /\ ownersOf' = u /\ diverged' = FALSE

GetDatasetOwners(i) ==
  /\ ChildEnds(i, "owners", TRUE)
  /\ SetOwners(reads[i].urn)
  /\ UNCHANGED <<store, ownUrn, suggestedOwners, userEntities, rereads, posts, headerOf, headerTask, raced>>
  /\ AuthorsRerender(TRUE)

GetSuggestedOwners(i) ==
  /\ ChildEnds(i, "suggested", TRUE)
  /\ suggestedOwners' = Suggested[reads[i].urn]
  /\ UNCHANGED <<store, ownUrn, owners, ownersOf, userEntities, rereads, posts, headerOf, headerTask,
                 diverged, raced>>
  /\ AuthorsRerender(FALSE)

ReadFails(i) ==
  /\ \E c \in {"owners", "suggested"} : ChildEnds(i, c, FALSE)
  /\ UNCHANGED <<store, ownUrn, owners, ownersOf, suggestedOwners, userEntities, rereads, posts,
                 headerOf, headerTask, diverged, raced>>
  /\ AuthorsRerender(FALSE)

\* One request for all: it is never sent again, also if it failed.
GetUserEntities(ok) ==
  /\ userEntities = "pending"
  /\ userEntities' = IF ok THEN "cached" ELSE "failed"
  /\ reads' = [i \in DOMAIN reads |->
                 [reads[i] EXCEPT !.pending = @ \ {"users"},
                                  !.failed = IF ok THEN @ ELSE @ \cup {"users"}]]
  /\ UNCHANGED <<store, ownUrn, owners, ownersOf, suggestedOwners, rereads, posts, headerOf, headerTask,
                 diverged, raced>>
  /\ AuthorsRerender(FALSE)

\* The header: restartable, so only the last read sets its avatars.
GetHeaderOwners ==
  /\ headerOf' \in headerTask
  /\ headerTask' = headerTask \ {headerOf'}
  /\ UNCHANGED <<store, ownUrn, owners, ownersOf, suggestedOwners, reads, userEntities, rereads, posts,
                 saving, changedState, saveDisabled, ownersDot, diverged, raced>>

(***************************************************************************)
(* Editing.                                                                *)
(***************************************************************************)

EditTo(list) ==
  /\ Editing /\ list # owners /\ Len(list) <= (IF raced THEN MaxRaced ELSE MaxOwners)
  /\ owners' = list /\ diverged' = TRUE
  /\ UNCHANGED <<store, ownUrn, ownersOf, suggestedOwners, reads, userEntities, rereads, posts,
                 headerOf, headerTask, raced>>
  /\ AuthorsRerender(ConfirmedOwners(list) # ConfirmedOwners(owners))

\* The user who adds an owner confirms it.
AddOwner(o) ==
  EditTo(IF OwnerAlreadyExists(owners, o) THEN owners ELSE Append(owners, [o EXCEPT !.confirmed = TRUE]))

AddUser(u) == AddOwner(DefaultOwner(u))

IsOwnerMutable(o) == IsConfirmedOwner(o)

IsConfirmedSuggestedOwner(o) == ~IsOwnerMutable(o) /\ \E c \in CommonOwners : c.userName = o.userName

ConfirmSuggestedOwner(o) == ~IsConfirmedSuggestedOwner(o) /\ AddOwner([o EXCEPT !.source = "UI"])

UpdateOwnerType(i, type) ==
  /\ i \in DOMAIN owners /\ IsOwnerMutable(owners[i])
  /\ EditTo(UpdateOwner(owners, i, [owners[i] EXCEPT !.type = type]))

RemoveOwner(i) ==
  /\ i \in DOMAIN owners /\ IsOwnerMutable(owners[i])
  /\ EditTo(RemoveAt(owners, i))

(***************************************************************************)
(* Saving.                                                                 *)
(***************************************************************************)

\* The list goes to whatever dataset the page is at now.
SaveOwners ==
  /\ Editing /\ ~saveDisabled /\ ~saving
  /\ Cardinality(posts) < MaxPosts
  /\ Cardinality({u \in Urns : store[u] # InitialOwners[u]} \cup {ownUrn}) <= MaxSaved
  /\ posts' = posts \cup {[urn |-> ownUrn, of |-> ownersOf, owners |-> owners]}
  /\ saving' = TRUE
  /\ UNCHANGED <<store, ownUrn, owners, ownersOf, suggestedOwners, reads, userEntities, rereads,
                 changedState, saveDisabled, ownersDot, headerOf, headerTask, diverged, raced>>

\* Saved: the owners of the dataset the page is at now are read again.
SaveOwnerChanges(p) ==
  /\ p \in posts
  /\ posts' = posts \ {p} /\ store' = [store EXCEPT ![p.urn] = p.owners]
  /\ rereads' = rereads \cup {ownUrn}
  /\ saving' = FALSE
  /\ UNCHANGED <<ownUrn, owners, ownersOf, suggestedOwners, reads, userEntities, changedState,
                 saveDisabled, ownersDot, headerOf, headerTask, diverged, raced>>

\* Not saved: the user is told, the list stays.
NotifyNotSaved(p) ==
  /\ p \in posts
  /\ posts' = posts \ {p} /\ saving' = FALSE /\ diverged' = TRUE
  /\ UNCHANGED <<store, ownUrn, owners, ownersOf, suggestedOwners, reads, userEntities, rereads,
                 changedState, saveDisabled, ownersDot, headerOf, headerTask, raced>>

\* The page is not hidden meanwhile, and nobody notices a failure.
Reread(u, ok) ==
  /\ u \in rereads
  /\ rereads' = rereads \ {u}
  /\ IF ok THEN SetOwners(u) ELSE diverged' = TRUE /\ UNCHANGED <<owners, ownersOf>>
  /\ UNCHANGED <<store, ownUrn, suggestedOwners, reads, userEntities, posts, headerOf, headerTask, raced>>
  /\ AuthorsRerender(ok)

OwnNext ==
  \/ \E u \in Urns : OpenDataset(u)
  \/ RetryReads \/ GetHeaderOwners
  \/ \E i \in DOMAIN reads : \/ GetDatasetOwners(i) \/ GetSuggestedOwners(i)
                             \/ ReadFails(i)
  \/ \E ok \in BOOLEAN : GetUserEntities(ok) \/ \E u \in Urns : Reread(u, ok)
  \/ \E u \in UserNames : AddUser(u)
  \/ \E s \in ToSet(suggestedOwners) : ConfirmSuggestedOwner(s)
  \/ \E i \in DOMAIN owners : RemoveOwner(i) \/ \E t \in ReadDatasetOwnerTypes : UpdateOwnerType(i, t)
  \/ SaveOwners
  \/ \E p \in posts : SaveOwnerChanges(p) \/ NotifyNotSaved(p)

OwnSpec == OwnInit /\ [][OwnNext]_ownVars

-----------------------------------------------------------------------------
(***************************************************************************)
(* Properties.                                                             *)
(***************************************************************************)

NoReads == rereads = {} /\ \A i \in DOMAIN reads : reads[i].pending = {}

\* What can be edited is the list of the dataset on the page, as long as nobody
\* left a dataset before its owners were read (the tasks are not restartable).
EditsOwnDataset == Editing /\ ~raced => ownersOf = ownUrn

\* After all saves and reads a list nobody edited since is the list the server
\* has: a save is followed by a read.
PageAgreesWithServer ==
  Editing /\ NoReads /\ posts = {} /\ ~diverged /\ ~raced => owners = store[ownUrn]

\* No user owns a dataset twice from one source, however owners were added,
\* confirmed from the suggestions, changed, saved and read again.
OwnersAreUnique ==
  \A u \in Urns : \A i, j \in DOMAIN store[u] :
    OwnerKey(store[u][i]) = OwnerKey(store[u][j]) => i = j

\* A save leaves the dataset with enough owners who may answer for it.
SavesHaveTwoOwners == \A p \in posts : Len(ValidConfirmedOwners(p.owners)) >= 2

FromOtherSources(list) == Only(list, {o \in Owner : ~IsConfirmedOwner(o)})

\* What the server knows from other sources is neither edited nor confirmed away.
OtherSourcesStay ==
  \A u \in Urns : FromOtherSources(store[u]) = FromOtherSources(InitialOwners[u]) \/ raced

\* The dot on the tab is there exactly while the list on the page lacks owners.
DotTellsMissing == Editing => (ownersDot <=> OwnersRequiredCount(owners) > 0)

\* The header shows owners of the dataset of the page: a late answer for another
\* one is dropped.  (It is not read again after a save.)
HeaderOfDataset ==
  headerTask = {} => headerOf = ownUrn

\* Tab, header and server hold the owners of the dataset that is shown, under the
\* rules of ownership, while edits, reads and saves overlap.
OwnershipIsSafe ==
  /\ OwnTypeOK /\ EditsOwnDataset /\ PageAgreesWithServer /\ OwnersAreUnique
  /\ SavesHaveTwoOwners /\ OtherSourcesStay /\ DotTellsMissing /\ HeaderOfDataset
=============================================================================
