----------------------------- MODULE WikiLinks -----------------------------
(***************************************************************************)
(* The wiki links of a dataset ("institutional memory"): the tab container *)
(* that reads and writes them, the list, its dialogs and the entity that   *)
(* holds them.  A change writes the whole list and reads it again; a       *)
(* change made while another is being written is dropped.                  *)
(***************************************************************************)
EXTENDS Integers, FiniteSets, Sequences, SequencesExt

CONSTANTS
  WikiUrns,            \* datasets
  WikiUrls,            \* links that can be added
  WikiAtFirst,         \* the links the server has of each dataset
  MaxLinks,            \* bound: links of a dataset
  MaxWikiReads,        \* bound: reads under way
  MaxChanges           \* bound: links added and removed

\* A link has a stamp once the server has it.
Link == [url : WikiUrls \cup {""}, of : WikiUrns, stamped : BOOLEAN]

\* What the server has first it has of each dataset.
ASSUME WikiAssumption ==
  /\ WikiAtFirst \in [WikiUrns -> Seq(Link)]
  /\ \A urn \in WikiUrns : \A link \in ToSet(WikiAtFirst[urn]) : link.stamped /\ link.of = urn
  /\ {MaxLinks, MaxWikiReads, MaxChanges} \subseteq Nat

VARIABLES
  wikiUrn,             \* the dataset of the page
  wikiStored,          \* the links the server has
  institutionalMemories,\* the links of the entity of the page
  isRead,              \* whether the entity has any yet
  wikiReads,           \* reads for this entity under way: what the server had when asked
  wikiWrites,          \* the write under way, if there is one
  isShowingModal,
  typedUrl,            \* the address in the dialog, "" if there is none
  confirming,          \* the link whose removal waits for a confirmation
  nChanges,
  removed,             \* links the user removed (ghost)
  trouble              \* of "raced", "failed" and "dropped" those that happened (ghost)

wikiVars == <<wikiUrn, wikiStored, institutionalMemories, isRead, wikiReads, wikiWrites, isShowingModal,
              typedUrl, confirming, nChanges, removed, trouble>>

WikiTypeOK ==
  /\ wikiUrn \in WikiUrns /\ \A urn \in WikiUrns : ToSet(wikiStored[urn]) \subseteq [url : WikiUrls \cup {""}, of : WikiUrns, stamped : {TRUE}]
  /\ ToSet(institutionalMemories) \subseteq Link /\ {isRead, isShowingModal} \subseteq BOOLEAN
  /\ wikiWrites \subseteq [urn : WikiUrns, links : {w.links : w \in wikiWrites}] /\ Cardinality(wikiWrites) <= 1
  /\ typedUrl \in WikiUrls \cup {""} /\ (~isShowingModal => typedUrl = "")
  /\ confirming \subseteq Link /\ Cardinality(confirming) <= 1
  /\ nChanges \in 0..MaxChanges /\ trouble \subseteq {"raced", "failed", "dropped"}

\* A read that starts before the last one ended may be answered before it.
ReadInstitutionalMemory(stored) ==
  /\ Len(wikiReads) < MaxWikiReads
  /\ wikiReads' = Append(wikiReads, stored)
  /\ trouble' = IF wikiReads = <<>> THEN trouble ELSE trouble \cup {"raced"}

WikiInit ==
  /\ wikiUrn \in WikiUrns /\ wikiStored = WikiAtFirst
  /\ institutionalMemories = <<>> /\ isRead = FALSE /\ wikiReads = <<WikiAtFirst[wikiUrn]>>
  /\ wikiWrites = {} /\ isShowingModal = FALSE /\ typedUrl = "" /\ confirming = {}
  /\ nChanges = 0 /\ removed = {} /\ trouble = {}

\* The page gets a new entity: what is read for the one before goes to an object nobody shows.
VisitWiki(urn) ==
  /\ urn # wikiUrn /\ wikiUrn' = urn
  /\ institutionalMemories' = <<>> /\ isRead' = FALSE /\ wikiReads' = <<wikiStored[urn]>>
  /\ UNCHANGED <<wikiStored, wikiWrites, isShowingModal, typedUrl, confirming, nChanges, removed, trouble>>

\* The server answers with what it had when asked, or with what it has now.
WikiReadEnds(i) ==
  /\ wikiReads' = RemoveAt(wikiReads, i)
  /\ institutionalMemories' \in {wikiReads[i], wikiStored[wikiUrn]} /\ isRead' = TRUE
  /\ UNCHANGED <<wikiUrn, wikiStored, wikiWrites, isShowingModal, typedUrl, confirming, nChanges, removed, trouble>>

\* Nobody waits for the read: the tab is as it was.
WikiReadFails(i) ==
  /\ wikiReads' = RemoveAt(wikiReads, i) /\ trouble' = trouble \cup {"failed"}
  /\ UNCHANGED <<wikiUrn, wikiStored, institutionalMemories, isRead, wikiWrites, isShowingModal, typedUrl, confirming, nChanges, removed>>

-----------------------------------------------------------------------------
\* The task that writes drops what comes while it runs.
WriteContainerData(links) ==
  /\ nChanges < MaxChanges /\ nChanges' = nChanges + 1
  /\ wikiWrites' = IF wikiWrites = {} THEN {[urn |-> wikiUrn, links |-> links]} ELSE wikiWrites
  /\ trouble' = trouble \cup (IF wikiWrites # {} THEN {"dropped"} ELSE IF wikiReads # <<>> THEN {"raced"} ELSE {})

OnAddLink ==
  /\ isRead /\ ~isShowingModal /\ isShowingModal' = TRUE
  /\ UNCHANGED <<wikiUrn, wikiStored, institutionalMemories, isRead, wikiReads, wikiWrites, typedUrl, confirming, nChanges, removed, trouble>>

TypeUrl(url) ==
  /\ isShowingModal /\ typedUrl' = url
  /\ UNCHANGED <<wikiUrn, wikiStored, institutionalMemories, isRead, wikiReads, wikiWrites, isShowingModal, confirming, nChanges, removed, trouble>>

OnCancelAddLink ==
  /\ isShowingModal /\ isShowingModal' = FALSE /\ typedUrl' = ""
  /\ UNCHANGED <<wikiUrn, wikiStored, institutionalMemories, isRead, wikiReads, wikiWrites, confirming, nChanges, removed, trouble>>

\* The dialog knows an address; whose link it is, is decided when it is saved.
NewLink(url) == [url |-> url, of |-> wikiUrn, stamped |-> FALSE]

\* Mutant: only the link added is written.
AddOneLink(link) ==
  /\ isShowingModal /\ isRead /\ Len(institutionalMemories) < MaxLinks
  /\ institutionalMemories' = Append(institutionalMemories, link) /\ WriteContainerData(<<link>>)
  /\ UNCHANGED <<wikiUrn, wikiStored, isRead, wikiReads, isShowingModal, typedUrl, confirming, removed>>

\* The dialog stays open, with what was typed: saving again adds the link again.  While
\* the links of the dataset are not there yet, nothing is added.
AddInstitutionalMemoryLink(link) ==
  /\ isShowingModal /\ isRead /\ Len(institutionalMemories) < MaxLinks
  /\ institutionalMemories' = Append(institutionalMemories, link)
  /\ WriteContainerData(institutionalMemories')
  /\ UNCHANGED <<wikiUrn, wikiStored, isRead, wikiReads, isShowingModal, typedUrl, confirming, removed>>

\* Nothing is asked of what was typed.
OnSaveLink == AddInstitutionalMemoryLink(NewLink(typedUrl))

OnRemoveLink(link) ==
  /\ confirming = {} /\ confirming' = {link}
  /\ UNCHANGED <<wikiUrn, wikiStored, institutionalMemories, isRead, wikiReads, wikiWrites, isShowingModal, typedUrl, nChanges, removed, trouble>>

DismissRemoval ==
  /\ confirming # {} /\ confirming' = {}
  /\ UNCHANGED <<wikiUrn, wikiStored, institutionalMemories, isRead, wikiReads, wikiWrites, isShowingModal, typedUrl, nChanges, removed, trouble>>

\* The list may have been read again meanwhile: a link that got its stamp is another link.
RemoveInstitutionalMemoryLink(link) ==
  /\ link \in confirming /\ confirming' = {}
  /\ IF isRead /\ link \in ToSet(institutionalMemories)
     THEN /\ institutionalMemories' = RemoveFirst(institutionalMemories, link)
          /\ WriteContainerData(institutionalMemories') /\ removed' = removed \cup {<<link.of, link.url>>}
     ELSE UNCHANGED <<institutionalMemories, wikiWrites, nChanges, removed, trouble>>
  /\ UNCHANGED <<wikiUrn, wikiStored, isRead, wikiReads, isShowingModal, typedUrl>>

Stamped(links) == [i \in DOMAIN links |-> [links[i] EXCEPT !.stamped = TRUE]]

\* The list is then read again, that of the entity the page has now.
WriteInstitutionalMemory(write) ==
  /\ write \in wikiWrites /\ wikiWrites' = {}
  /\ wikiStored' = [wikiStored EXCEPT ![write.urn] = Stamped(write.links)]
  /\ UNCHANGED <<wikiUrn, institutionalMemories, isRead, isShowingModal, typedUrl, confirming, nChanges, removed>>
  /\ ReadInstitutionalMemory(wikiStored'[wikiUrn])

\* The list stays as the user changed it.
WikiWriteFails(write) ==
  /\ write \in wikiWrites /\ wikiWrites' = {} /\ trouble' = trouble \cup {"failed"}
  /\ UNCHANGED <<wikiUrn, wikiStored, institutionalMemories, isRead, wikiReads, isShowingModal, typedUrl, confirming, nChanges, removed>>

WikiNext ==
  \/ \E urn \in WikiUrns : VisitWiki(urn)
  \/ \E i \in DOMAIN wikiReads : WikiReadEnds(i) \/ WikiReadFails(i)
  \/ OnAddLink \/ OnCancelAddLink \/ DismissRemoval
  \/ \E url \in WikiUrls : TypeUrl(url)
  \/ OnSaveLink
  \/ \E link \in ToSet(institutionalMemories) : OnRemoveLink(link)
  \/ \E link \in confirming : RemoveInstitutionalMemoryLink(link)
  \/ \E write \in wikiWrites : WriteInstitutionalMemory(write) \/ WikiWriteFails(write)

WikiSpec == WikiInit /\ [][WikiNext]_wikiVars

-----------------------------------------------------------------------------
\* A dataset never gets the links of another, wherever the page goes while links are read and written.
LinksOfOwnDataset == \A urn \in WikiUrns : \A link \in ToSet(wikiStored[urn]) : link.of = urn

\* A write loses no link that the user did not remove, unless it was made while the list was
\* being read or a request failed.
KeepsLinks ==
  [][ trouble \cap {"raced", "failed"} = {}
      => \A urn \in WikiUrns : \A link \in ToSet(wikiStored[urn]) :
           link \in ToSet(wikiStored'[urn]) \/ <<urn, link.url>> \in removed ]_wikiVars

\* When nothing is under way the list shown is the list the server has, unless a request
\* failed or reads and writes overlapped.
ShowsWhatIsStored ==
  isRead /\ wikiReads = <<>> /\ wikiWrites = {} /\ trouble \cap {"raced", "failed"} = {}
    => institutionalMemories = wikiStored[wikiUrn]

\* Links are shown and written with the dataset they are of, and a write loses
\* none that it did not mean to.
LinksStayWithDataset ==
  /\ [](WikiTypeOK /\ LinksOfOwnDataset /\ ShowsWhatIsStored)
  /\ KeepsLinks
=============================================================================
