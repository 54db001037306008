-------------------------- MODULE WebDatasetProofs --------------------------
(***************************************************************************)
(* Proofs about the components of the web client that show and edit a      *)
(* dataset: DatasetOwners, Deprecation, WikiLinks, DatasetPage, Lineage,   *)
(* DatasetUrns.                                                            *)
(***************************************************************************)
EXTENDS WebDataset, FiniteSetTheorems, Foundations

(***************************************************************************)
(* The owners of a dataset.  The inductive invariant says of the reads     *)
(* under way for which dataset they are, of the list on the page whether   *)
(* it is still as the server has it, of every list, also of those on their *)
(* way to the server, that it obeys the rules of ownership.                *)
(***************************************************************************)

Read == [urn : Urns, pending : SUBSET ToSet(Children), failed : SUBSET ToSet(Children)]
Post == [urn : Urns, of : Urns, owners : Seq(Owner)]

OwnersTyped ==
    /\ store \in [Urns -> Seq(Owner)]
    /\ ownUrn \in Urns /\ ownersOf \in Urns
    /\ owners \in Seq(Owner) /\ suggestedOwners \in Seq(Owner)
    /\ userEntities \in {"pending", "cached", "failed"}
    /\ reads \in Seq(Read) /\ Len(reads) > 0
    /\ rereads \subseteq Urns /\ posts \subseteq Post
    /\ saving \in BOOLEAN /\ saveDisabled \in BOOLEAN /\ ownersDot \in BOOLEAN
    /\ diverged \in BOOLEAN /\ raced \in BOOLEAN
    /\ changedState \in {-1, 0, 1}
    /\ changedState = -1 <=> ~ Editing

\* The header has the owners of the page's dataset, or is about to get them.
HeaderFollows == headerTask = {ownUrn} \/ (headerTask = {} /\ headerOf = ownUrn)

\* Reads are for the dataset of the page, as long as nobody left one too early.
ReadsFollow ==
    /\ reads[Len(reads)].urn = ownUrn
    /\ ~ raced => /\ \A i \in 1 .. Len(reads) : "owners" \in reads[i].pending => reads[i].urn = ownUrn
                  /\ rereads \subseteq {ownUrn}

\* The last parent task has read its owners.
OwnersRead == "owners" \notin reads[Len(reads)].pending /\ "owners" \notin reads[Len(reads)].failed

\* Then the list is of the page's dataset, and has what other sources know of it.
ListIsOfDataset ==
    ~ raced /\ OwnersRead =>
       /\ ownersOf = ownUrn
       /\ FromOtherSources(owners) = FromOtherSources(InitialOwners[ownUrn])

OthersKept ==
    ~ raced => /\ \A u \in Urns : FromOtherSources(store[u]) = FromOtherSources(InitialOwners[u])
               /\ \A p \in posts : FromOtherSources(p.owners) = FromOtherSources(InitialOwners[p.urn])

ListAgrees == ~ diverged => owners = store[ownersOf] \/ rereads # {}

KeysUnique(list) == \A i, j \in 1 .. Len(list) : OwnerKey(list[i]) = OwnerKey(list[j]) => i = j

ListsUnique ==
    /\ \A u \in Urns : KeysUnique(store[u])
    /\ KeysUnique(owners)
    /\ \A p \in posts : KeysUnique(p.owners)

SavesEnough ==
    /\ Editing /\ ~ saveDisabled => ~ IsRequiredMinOwnersNotConfirmed(owners)
    /\ \A p \in posts : ~ IsRequiredMinOwnersNotConfirmed(p.owners)

DotTells == Editing => (ownersDot <=> IsRequiredMinOwnersNotConfirmed(owners))

OwnInv ==
    /\ OwnersTyped /\ HeaderFollows /\ ReadsFollow /\ ListIsOfDataset /\ OthersKept
    /\ ListAgrees /\ ListsUnique /\ SavesEnough /\ DotTells

-----------------------------------------------------------------------------
(* The children of the parent task.                                        *)
LEMMA ChildNames == ToSet(Children) = {"owners", "suggested", "users"}
<1>1. DOMAIN Children = 1 .. 3 /\ Children[1] = "owners" /\ Children[2] = "suggested" /\ Children[3] = "users"
  BY DEF Children
<1>2. ToSet(Children) = {Children[i] : i \in 1 .. 3}
  BY <1>1 DEF ToSet
<1>3. \A i \in 1 .. 3 : i = 1 \/ i = 2 \/ i = 3
  OBVIOUS
<1> QED
  BY <1>1, <1>2, <1>3

(* The table of owners is on the page only when the last parent task has   *)
(* read its owners.                                                        *)
LEMMA EditingHasRead ==
    ASSUME OwnersTyped, Editing PROVE OwnersRead
<1> DEFINE r == reads[Len(reads)]
           open == {c \in DOMAIN Children : Children[c] \in r.pending \cup r.failed}
<1>1. Len(reads) \in DOMAIN reads
  BY DEF OwnersTyped
<1>2. Status(r) # "running" /\ Status(r) # "error"
  BY <1>1 DEF Editing, IsRunning, IsError, Last
<1>3. open = {}
  <2> SUFFICES ASSUME open # {} PROVE FALSE
    OBVIOUS
  <2>1. Status(r) = "error" \/ Status(r) = "running"
    BY Zenon DEF Status
  <2> QED
    BY <1>2, <2>1
<1>4. 1 \in DOMAIN Children /\ Children[1] = "owners"
  BY DEF Children
<1> QED
  BY <1>3, <1>4 DEF OwnersRead

LEMMA EditingSame ==
    ASSUME reads' = reads, ownersOf' = ownersOf PROVE Editing' <=> Editing
BY DEF Editing, IsRunning, IsError

(* At first everything is being read.                                      *)
LEMMA FirstReadRuns ==
    ASSUME OwnInit PROVE ~ Editing
<1> DEFINE r == [urn |-> ownUrn, pending |-> ToSet(Children), failed |-> {}]
           open == {c \in DOMAIN Children : Children[c] \in r.pending \cup r.failed}
           first == CHOOSE c \in open : \A d \in open : c <= d
<1>1. reads[1] = r /\ 1 \in DOMAIN reads
  BY DEF OwnInit
<1>2. open # {}
  <2>1. 1 \in open
    BY ChildNames DEF Children
  <2> QED
    BY <2>1
<1>3. Status(r) = "running"
  <2>1. ~ (open = {}) /\ ~ (open # {} /\ Children[first] \in r.failed)
    BY <1>2
  <2> QED
    BY <2>1, Zenon DEF Status
<1> QED
  BY <1>1, <1>3 DEF Editing, IsRunning

(* A parent task that is performed is the last one remembered; the others  *)
(* were there before.                                                      *)
LEMMA Performed ==
    ASSUME OwnersTyped, NEW u \in Urns, Perform(u)
    PROVE  /\ reads' \in Seq(Read) /\ Len(reads') > 0
           /\ reads'[Len(reads')] = NewRead(u) /\ "owners" \in NewRead(u).pending /\ NewRead(u).urn = u
           /\ \A i \in 1 .. Len(reads') : i # Len(reads') => \E j \in 1 .. Len(reads) : reads'[i] = reads[j]
<1> DEFINE S == {r \in ToSet(reads) : r.pending # {}}
<1>1. PICK old \in Seq(Read) : old = Only(reads, S) /\ Embeddings(old, reads, S) # {}
  BY OnlyKeeps DEF OwnersTyped
<1>2. NewRead(u) \in Read /\ "owners" \in NewRead(u).pending /\ NewRead(u).urn = u
  BY ChildNames DEF NewRead, Read
<1>3. reads' = Append(old, NewRead(u))
  BY <1>1 DEF Perform
<1>4. PICK h \in [1 .. Len(old) -> 1 .. Len(reads)] : \A k \in 1 .. Len(old) : old[k] = reads[h[k]]
  <2>1. PICK h : h \in Embeddings(old, reads, S)
    BY <1>1
  <2> QED
    BY <2>1 DEF Embeddings
<1>5. /\ reads' \in Seq(Read) /\ Len(reads') = Len(old) + 1 /\ reads'[Len(old) + 1] = NewRead(u)
      /\ \A i \in 1 .. Len(old) : reads'[i] = old[i]
  BY <1>2, <1>3
<1>6. \A i \in 1 .. Len(old) : \E j \in 1 .. Len(reads) : reads'[i] = reads[j]
  BY <1>4, <1>5
<1>7. PICK m \in Nat : m = Len(old)
  OBVIOUS
<1>8. \A i \in 1 .. m + 1 : i # m + 1 => i \in 1 .. m
  OBVIOUS
<1>9. Len(reads') = m + 1 /\ reads'[m + 1] = NewRead(u) /\ m + 1 > 0
  BY <1>5, <1>7
<1>10. \A i \in 1 .. m + 1 : i # m + 1 => \E j \in 1 .. Len(reads) : reads'[i] = reads[j]
  BY <1>6, <1>7, <1>8
<1> QED
  BY <1>2, <1>5, <1>9, <1>10

(* What the table shows is decided anew with what is on the page.          *)
LEMMA Rerendered ==
    ASSUME OwnersTyped, SavesEnough, NEW edited \in BOOLEAN, AuthorsRerender(edited),
           ~ edited => ConfirmedOwners(owners') = ConfirmedOwners(owners)
    PROVE  /\ changedState' \in {-1, 0, 1} /\ (changedState' = -1 <=> ~ Editing')
           /\ saving' \in BOOLEAN /\ saveDisabled' \in BOOLEAN /\ ownersDot' \in BOOLEAN
           /\ Editing' /\ ~ saveDisabled' => ~ IsRequiredMinOwnersNotConfirmed(owners')
           /\ DotTells'
<1> DEFINE few == IsRequiredMinOwnersNotConfirmed(owners')
<1>a. few \in BOOLEAN
  BY DEF IsRequiredMinOwnersNotConfirmed
<1>1. ownersDot' \in BOOLEAN /\ DotTells'
  <2>1. ownersDot' = IF Editing' THEN few ELSE ownersDot
    BY DEF AuthorsRerender
  <2> HIDE DEF few
  <2>2. ownersDot' \in BOOLEAN /\ (Editing' => (ownersDot' <=> few))
    BY <1>a, <2>1 DEF OwnersTyped
  <2> QED
    BY <2>2 DEF few, DotTells
<1>2. CASE ~ Editing'
  <2>1. changedState' = -1 /\ saveDisabled' = TRUE /\ saving' = FALSE
    BY <1>2 DEF AuthorsRerender
  <2> QED
    BY <1>1, <1>2, <2>1
<1>3. CASE Editing' /\ ~ Editing
  <2>1. changedState' = 0 /\ saveDisabled' = TRUE /\ saving' = saving
    BY <1>3 DEF AuthorsRerender
  <2> QED
    BY <1>1, <1>3, <2>1 DEF OwnersTyped
<1>4. CASE Editing' /\ Editing /\ edited
  <2>1. changedState' = 1 /\ saving' = saving /\ saveDisabled' = few
    BY <1>4 DEF AuthorsRerender
  <2> HIDE DEF few
  <2>2. Editing' /\ ~ saveDisabled' => ~ few
    BY <2>1, <1>a
  <2>3. saveDisabled' \in BOOLEAN
    BY <2>1, <1>a
  <2> QED
    BY <1>1, <1>4, <2>1, <2>2, <2>3 DEF OwnersTyped, few
<1>5. CASE Editing' /\ Editing /\ ~ edited
  <2>1. changedState' = changedState /\ saving' = saving /\ saveDisabled' = saveDisabled
    BY <1>5 DEF AuthorsRerender
  <2>2. few <=> IsRequiredMinOwnersNotConfirmed(owners)
    BY <1>5 DEF IsRequiredMinOwnersNotConfirmed, ValidConfirmedOwners
  <2> HIDE DEF few
  <2>3. Editing' /\ ~ saveDisabled' => ~ few
    BY <1>5, <2>1, <2>2 DEF SavesEnough
  <2>4. changedState # -1
    BY <1>5 DEF OwnersTyped
  <2> QED
    BY <1>1, <1>5, <2>1, <2>3, <2>4 DEF OwnersTyped, few
<1> QED
  BY <1>2, <1>3, <1>4, <1>5

-----------------------------------------------------------------------------
(* What an edit of the list may do: it keeps what other sources know, and  *)
(* makes no key occur twice.                                               *)
FairEdit(list) ==
    /\ list \in Seq(Owner)
    /\ FromOtherSources(list) = FromOtherSources(owners)
    /\ KeysUnique(owners) => KeysUnique(list)

(* An owner is added only when its key is not there.                       *)
LEMMA AddIsFair ==
    ASSUME OwnersTyped, NEW o \in Owner, o.source = "UI", AddOwner(o)
    PROVE  \E list : EditTo(list) /\ FairEdit(list)
<1> DEFINE x == [o EXCEPT !.confirmed = TRUE]  n == Len(owners)
<1>1. x \in Owner /\ x.source = "UI" /\ OwnerKey(x) = OwnerKey(o)
  BY DEF Owner, OwnerKey
<1>2. owners \in Seq(Owner) /\ n \in Nat /\ DOMAIN owners = 1 .. n
  BY DEF OwnersTyped
<1>3. CASE OwnerAlreadyExists(owners, o)
  <2>1. EditTo(owners)
    BY <1>3 DEF AddOwner
  <2>2. FALSE
    BY <2>1 DEF EditTo
  <2> QED
    BY <2>2
<1>4. CASE ~ OwnerAlreadyExists(owners, o)
  <2> DEFINE list == Append(owners, x)
  <2>1. EditTo(list)
    BY <1>4 DEF AddOwner
  <2>2. list \in Seq(Owner) /\ Len(list) = n + 1 /\ list[n + 1] = x /\ \A i \in 1 .. n : list[i] = owners[i]
    BY <1>1, <1>2
  <2> HIDE DEF x
  <2>3. FromOtherSources(list) = FromOtherSources(owners)
    <3> DEFINE S == {w \in Owner : ~ IsConfirmedOwner(w)}
    <3>1. x \notin S
      BY <1>1 DEF IsConfirmedOwner
    <3>2. Only(list, S) = Only(owners, S)
      BY <1>1, <1>2, <3>1, OnlyAppend
    <3> QED
      BY <3>2 DEF FromOtherSources
  <2>4. ASSUME KeysUnique(owners) PROVE KeysUnique(list)
    <3>1. \A i \in 1 .. n : OwnerKey(owners[i]) # OwnerKey(x)
      BY <1>1, <1>2, <1>4 DEF OwnerAlreadyExists
    <3>2. \A i \in 1 .. n + 1 : i \in 1 .. n \/ i = n + 1
      BY <1>2
    <3>3. \A i, j \in 1 .. n : OwnerKey(owners[i]) = OwnerKey(owners[j]) => i = j
      BY <2>4 DEF KeysUnique
    <3> HIDE DEF list, n
    <3>4. ASSUME NEW i \in 1 .. n + 1, NEW j \in 1 .. n + 1, OwnerKey(list[i]) = OwnerKey(list[j])
          PROVE  i = j
      <4>1. CASE i \in 1 .. n /\ j \in 1 .. n
        BY <2>2, <3>3, <3>4, <4>1
      <4>2. CASE i \in 1 .. n /\ j = n + 1
        BY <2>2, <3>1, <3>4, <4>2
      <4>3. CASE i = n + 1 /\ j \in 1 .. n
        BY <2>2, <3>1, <3>4, <4>3
      <4> QED
        BY <3>2, <4>1, <4>2, <4>3
    <3> QED
      BY <2>2, <3>4 DEF KeysUnique
  <2> QED
    BY <2>1, <2>2, <2>3, <2>4 DEF FairEdit
<1> QED
  BY <1>3, <1>4

(* An owner of the user interface may be removed.                          *)
LEMMA RemoveIsFair ==
    ASSUME OwnersTyped, NEW i \in 1 .. Len(owners), RemoveOwner(i)
    PROVE  \E list : EditTo(list) /\ FairEdit(list)
<1> DEFINE list == Without(owners, i)  n == Len(owners)
<1>1. EditTo(list)
  BY DEF RemoveOwner, RemoveAt, Without
<1>2. owners \in Seq(Owner) /\ n \in Nat /\ i \in 1 .. n /\ IsConfirmedOwner(owners[i])
  BY DEF OwnersTyped, RemoveOwner, IsOwnerMutable
<1>3. /\ list \in Seq(Owner) /\ Len(list) = n - 1
      /\ \A k \in 1 .. n - 1 : list[k] = IF k < i THEN owners[k] ELSE owners[k + 1]
  BY <1>2, WithoutEntry
<1>4. FromOtherSources(list) = FromOtherSources(owners)
  <2> DEFINE S == {w \in Owner : ~ IsConfirmedOwner(w)}
  <2>1. owners[i] \notin S
    BY <1>2
  <2>2. Only(list, S) = Only(owners, S)
    BY <1>2, <2>1, OnlyWithout
  <2> QED
    BY <2>2 DEF FromOtherSources
<1> HIDE DEF list, n
<1>5. ASSUME KeysUnique(owners), NEW k \in 1 .. n - 1, NEW l \in 1 .. n - 1,
             OwnerKey(list[k]) = OwnerKey(list[l])
      PROVE  k = l
  <2> DEFINE at(k_) == IF k_ < i THEN k_ ELSE k_ + 1
  <2>1. at(k) \in 1 .. n /\ at(l) \in 1 .. n /\ (at(k) = at(l) => k = l)
    BY <1>2
  <2>2. list[k] = owners[at(k)] /\ list[l] = owners[at(l)]
    BY <1>3
  <2> HIDE DEF at
  <2>3. at(k) = at(l)
    BY <1>5, <2>1, <2>2 DEF KeysUnique, n
  <2> QED
    BY <2>1, <2>3
<1>6. KeysUnique(owners) => KeysUnique(list)
  BY <1>3, <1>5 DEF KeysUnique
<1> QED
  BY <1>1, <1>3, <1>4, <1>6 DEF FairEdit

(* The positions of a list, counted.                                       *)
LEMMA PositionsCounted ==
    ASSUME NEW n \in Nat PROVE IsFiniteSet(1 .. n) /\ Cardinality(1 .. n) = n
<1>1. 1 \in Int /\ n \in Int
  OBVIOUS
<1>2. IsFiniteSet(1 .. n) /\ Cardinality(1 .. n) = IF 1 > n THEN 0 ELSE n - 1 + 1
  BY <1>1, FS_Interval
<1> QED
  BY <1>2

(* As many keys as entries: no key occurs twice.                           *)
LEMMA CountedKeysUnique ==
    ASSUME NEW list \in Seq(Owner), Cardinality({OwnerKey(list[j]) : j \in DOMAIN list}) = Len(list)
    PROVE  KeysUnique(list)
<1> DEFINE n == Len(list)
           K == {OwnerKey(list[j]) : j \in DOMAIN list}
           key == [j \in 1 .. n |-> OwnerKey(list[j])]
<1>1. n \in Nat /\ DOMAIN list = 1 .. n
  OBVIOUS
<1>2. key \in [1 .. n -> K] /\ \A k \in K : \E j \in 1 .. n : key[j] = k
  BY <1>1
<1>3. key \in Surjection(1 .. n, K)
  BY <1>2 DEF Surjection
<1>4. IsFiniteSet(1 .. n) /\ Cardinality(1 .. n) = n
  BY <1>1, PositionsCounted
<1>5. Cardinality(K) = n
  OBVIOUS
<1> HIDE DEF n, K, key
<1>6. key \in Injection(1 .. n, K)
  BY <1>3, <1>4, <1>5, FS_Surjection
<1>7. \A i, j \in 1 .. n : key[i] = key[j] => i = j
  BY <1>6 DEF Injection, IsInjective
<1> QED
  BY <1>7 DEF key, n, KeysUnique

(* The type of an owner of the user interface may be changed.              *)
LEMMA UpdateIsFair ==
    ASSUME OwnersTyped, NEW i \in 1 .. Len(owners), NEW t \in OwnerTypes, UpdateOwnerType(i, t)
    PROVE  \E list : EditTo(list) /\ FairEdit(list)
<1> DEFINE y == [owners[i] EXCEPT !.type = t]
           new == [owners EXCEPT ![i] = y]
<1>1. owners \in Seq(Owner) /\ owners[i] \in Owner /\ IsConfirmedOwner(owners[i])
  BY DEF OwnersTyped, UpdateOwnerType, IsOwnerMutable
<1>2. y \in Owner /\ IsConfirmedOwner(y)
  BY <1>1 DEF Owner, IsConfirmedOwner
<1>3. EditTo(UpdateOwner(owners, i, y))
  BY DEF UpdateOwnerType
<1> HIDE DEF y
<1>4. new \in Seq(Owner)
  BY <1>1, <1>2
<1>5. FromOtherSources(new) = FromOtherSources(owners)
  <2> DEFINE S == {w \in Owner : ~ IsConfirmedOwner(w)}
  <2>1. owners[i] \notin S /\ y \notin S
    BY <1>1, <1>2
  <2>2. Only(new, S) = Only(owners, S)
    BY <1>1, <1>2, <2>1, OnlyReplaced
  <2> QED
    BY <2>2 DEF FromOtherSources
<1>6. CASE UpdateOwner(owners, i, y) = owners
  BY <1>3, <1>6 DEF EditTo
<1>7. CASE UpdateOwner(owners, i, y) # owners
  <2>1. UpdateOwner(owners, i, y) = new /\ Cardinality({OwnerKey(new[j]) : j \in DOMAIN new}) = Len(new)
    BY <1>7 DEF UpdateOwner
  <2>2. KeysUnique(new)
    BY <1>4, <2>1, CountedKeysUnique
  <2> QED
    BY <1>3, <1>4, <1>5, <2>1, <2>2 DEF FairEdit
<1> QED
  BY <1>6, <1>7

-----------------------------------------------------------------------------
(* Parent tasks in which children end: the same tasks, with less to do.    *)
ReadsGoOn ==
    /\ reads' \in Seq(Read) /\ Len(reads') = Len(reads)
    /\ \A k \in 1 .. Len(reads) :
          /\ reads'[k].urn = reads[k].urn
          /\ "owners" \in reads'[k].pending => "owners" \in reads[k].pending

LEMMA RecordOfRead ==
    ASSUME NEW x \in Read, NEW P, NEW F
    PROVE  [x EXCEPT !.pending = P, !.failed = F] = [urn |-> x.urn, pending |-> P, failed |-> F]
<1>1. x = [urn |-> x.urn, pending |-> x.pending, failed |-> x.failed]
  BY DEF Read
<1> DEFINE y == [x EXCEPT !.pending = P]
           z == [y EXCEPT !.failed = F]
<1>2. y = [urn |-> x.urn, pending |-> P, failed |-> x.failed]
  BY <1>1
<1>3. z = [urn |-> y.urn, pending |-> y.pending, failed |-> F]
  <2> HIDE DEF y
  <2> QED
    BY <1>2
<1>4. z = [x EXCEPT !.pending = P, !.failed = F]
  OBVIOUS
<1> QED
  BY <1>2, <1>3, <1>4

LEMMA ChildEnded ==
    ASSUME OwnersTyped, NEW i \in DOMAIN reads, NEW c \in {"owners", "suggested"}, NEW ok \in BOOLEAN,
           ChildEnds(i, c, ok)
    PROVE  /\ ReadsGoOn
           /\ c = "owners" => "owners" \in reads[i].pending
           /\ ~ (ok /\ c = "owners") /\ OwnersRead' => OwnersRead
<1> DEFINE n == Len(reads)
           r == [urn |-> reads[i].urn, pending |-> reads[i].pending \ {c},
                 failed |-> IF ok THEN reads[i].failed ELSE reads[i].failed \cup {c}]
<1>1. /\ reads \in Seq(Read) /\ n \in Nat /\ n > 0 /\ i \in 1 .. n /\ reads[i] \in Read
      /\ c \in reads[i].pending /\ c \in ToSet(Children)
  BY ChildNames DEF OwnersTyped, ChildEnds
<1>2. reads' = [reads EXCEPT ![i] = r]
  <2>1. reads' = [reads EXCEPT ![i].pending = @ \ {c}, ![i].failed = IF ok THEN @ ELSE @ \cup {c}]
    BY DEF ChildEnds
  <2>2. PICK x \in Read : x = reads[i]
    BY <1>1
  <2>3. x = [urn |-> x.urn, pending |-> x.pending, failed |-> x.failed]
    BY DEF Read
  <2>4. r = [urn |-> x.urn, pending |-> r.pending, failed |-> r.failed]
    BY <2>2
  <2>5. reads' = [reads EXCEPT ![i].pending = r.pending, ![i].failed = r.failed]
    BY <2>1
  <2> HIDE DEF r
  <2>6. reads' = [reads EXCEPT ![i] = [reads[i] EXCEPT !.pending = r.pending, !.failed = r.failed]]
    BY <2>5
  <2>7. [x EXCEPT !.pending = r.pending, !.failed = r.failed] = [urn |-> x.urn, pending |-> r.pending, failed |-> r.failed]
    BY RecordOfRead
  <2> QED
    BY <2>2, <2>4, <2>6, <2>7
<1>3. r \in Read
  BY <1>1 DEF Read
<1>4. /\ reads' \in Seq(Read) /\ Len(reads') = n /\ reads'[i] = r
      /\ \A k \in 1 .. n : k # i => reads'[k] = reads[k]
  BY <1>1, <1>2, <1>3
<1>5. ReadsGoOn
  <2>1. r.urn = reads[i].urn /\ r.pending \subseteq reads[i].pending
    OBVIOUS
  <2> HIDE DEF r
  <2> QED
    BY <1>4, <2>1 DEF ReadsGoOn
<1>6. ASSUME ~ (ok /\ c = "owners"), OwnersRead' PROVE OwnersRead
  <2>1. n \in 1 .. n
    BY <1>1
  <2>2. CASE n # i
    BY <1>4, <1>6, <2>1, <2>2 DEF OwnersRead
  <2>3. CASE n = i
    <3>1. "owners" \notin r.pending /\ "owners" \notin r.failed
      BY <1>4, <1>6, <2>3 DEF OwnersRead
    <3>2. "owners" \notin reads[i].failed /\ (c # "owners" => "owners" \notin reads[i].pending)
      BY <3>1
    <3>3. c # "owners"
      BY <1>6, <3>1
    <3> QED
      BY <2>3, <3>2, <3>3 DEF OwnersRead
  <2> QED
    BY <2>2, <2>3
<1> QED
  BY <1>1, <1>5, <1>6

(* The one request for users ends for all tasks.                           *)
LEMMA UsersEnded ==
    ASSUME OwnersTyped, NEW ok \in BOOLEAN, GetUserEntities(ok)
    PROVE  ReadsGoOn /\ (OwnersRead' => OwnersRead)
<1> DEFINE n == Len(reads)
           r(k) == [urn |-> reads[k].urn, pending |-> reads[k].pending \ {"users"},
                    failed |-> IF ok THEN reads[k].failed ELSE reads[k].failed \cup {"users"}]
<1>1. reads \in Seq(Read) /\ n \in Nat /\ n > 0 /\ DOMAIN reads = 1 .. n /\ \A k \in 1 .. n : reads[k] \in Read
  BY DEF OwnersTyped
<1>2. \A k \in 1 .. n : r(k) \in Read
  <2> SUFFICES ASSUME NEW k \in 1 .. n PROVE r(k) \in Read
    OBVIOUS
  <2>1. reads[k] \in Read
    BY <1>1
  <2> QED
    BY <2>1, ChildNames DEF Read
<1>3. reads' = [k \in 1 .. n |-> r(k)]
  <2>1. reads' = [i \in DOMAIN reads |->
                 [reads[i] EXCEPT !.pending = @ \ {"users"},
                                  !.failed = IF ok THEN @ ELSE @ \cup {"users"}]]
    BY DEF GetUserEntities
  <2>2. \A k \in 1 .. n : [reads[k] EXCEPT !.pending = @ \ {"users"},
                                  !.failed = IF ok THEN @ ELSE @ \cup {"users"}] = r(k)
    <3> SUFFICES ASSUME NEW k \in 1 .. n
                 PROVE  [reads[k] EXCEPT !.pending = @ \ {"users"},
                                  !.failed = IF ok THEN @ ELSE @ \cup {"users"}] = r(k)
      OBVIOUS
    <3>1. PICK x \in Read : x = reads[k]
      BY <1>1
    <3>2. PICK F : F = IF ok THEN x.failed ELSE x.failed \cup {"users"}
      OBVIOUS
    <3>3. PICK P : P = x.pending \ {"users"}
      OBVIOUS
    <3>4. [x EXCEPT !.pending = P, !.failed = F] = [urn |-> x.urn, pending |-> P, failed |-> F]
      BY RecordOfRead
    <3> QED
      BY <3>1, <3>2, <3>3, <3>4
  <2> HIDE DEF r
  <2> QED
    BY <1>1, <2>1, <2>2
<1>4. reads' \in Seq(Read) /\ Len(reads') = n /\ \A k \in 1 .. n : reads'[k] = r(k)
  <2> HIDE DEF r, n
  <2> QED
    BY <1>1, <1>2, <1>3
<1>5. \A k \in 1 .. n : /\ r(k).urn = reads[k].urn
                        /\ "owners" \in r(k).pending <=> "owners" \in reads[k].pending
                        /\ "owners" \in reads[k].failed => "owners" \in r(k).failed
  OBVIOUS
<1>6. n \in 1 .. n
  BY <1>1
<1> HIDE DEF r
<1>7. ReadsGoOn
  BY <1>4, <1>5 DEF ReadsGoOn
<1>8. OwnersRead' => OwnersRead
  BY <1>4, <1>5, <1>6 DEF OwnersRead
<1> QED
  BY <1>7, <1>8

(* The reads go on for the datasets they are for.                          *)
LEMMA ReadsStillFollow ==
    ASSUME OwnersTyped, ReadsFollow, ReadsGoOn, ownUrn' = ownUrn, raced' = raced, rereads' \subseteq rereads
    PROVE  ReadsFollow'
<1>1. Len(reads) \in 1 .. Len(reads)
  BY DEF OwnersTyped
<1>2. reads'[Len(reads')].urn = ownUrn'
  BY <1>1 DEF ReadsFollow, ReadsGoOn
<1>3. ~ raced' => /\ \A i \in 1 .. Len(reads') : "owners" \in reads'[i].pending => reads'[i].urn = ownUrn'
                  /\ rereads' \subseteq {ownUrn'}
  <2> SUFFICES ASSUME ~ raced'
               PROVE  /\ \A i \in 1 .. Len(reads') : "owners" \in reads'[i].pending => reads'[i].urn = ownUrn'
                      /\ rereads' \subseteq {ownUrn'}
    OBVIOUS
  <2>1. /\ \A i \in 1 .. Len(reads) : "owners" \in reads[i].pending => reads[i].urn = ownUrn
        /\ rereads \subseteq {ownUrn}
    BY DEF ReadsFollow
  <2> QED
    BY <2>1 DEF ReadsGoOn
<1> QED
  BY <1>2, <1>3 DEF ReadsFollow

(* A parent task that is performed is for the page's dataset.              *)
LEMMA NewReadFollows ==
    ASSUME OwnersTyped, NEW u \in Urns, Perform(u), ownUrn' = u,
           ~ raced' => \A i \in 1 .. Len(reads) : "owners" \in reads[i].pending => reads[i].urn = u,
           ~ raced' => rereads' \subseteq {u}
    PROVE  ReadsFollow' /\ ~ OwnersRead'
<1>1. reads' \in Seq(Read) /\ Len(reads') > 0 /\ reads'[Len(reads')].urn = u
      /\ "owners" \in reads'[Len(reads')].pending
  BY Performed
<1>2. ~ OwnersRead'
  BY <1>1 DEF OwnersRead
<1>3. ~ raced' => \A i \in 1 .. Len(reads') : "owners" \in reads'[i].pending => reads'[i].urn = u
  <2> SUFFICES ASSUME ~ raced', NEW i \in 1 .. Len(reads'), "owners" \in reads'[i].pending
               PROVE  reads'[i].urn = u
    OBVIOUS
  <2>1. CASE i = Len(reads')
    BY <1>1, <2>1
  <2>2. CASE i # Len(reads')
    <3>1. PICK j \in 1 .. Len(reads) : reads'[i] = reads[j]
      BY <2>2, Performed
    <3> QED
      BY <3>1
  <2> QED
    BY <2>1, <2>2
<1> QED
  BY <1>1, <1>2, <1>3 DEF ReadsFollow

-----------------------------------------------------------------------------
LEMMA ReadsHaveUrns ==
    ASSUME OwnersTyped, NEW i \in DOMAIN reads PROVE reads[i].urn \in Urns /\ i \in 1 .. Len(reads)
<1>1. PICK r \in Read : r = reads[i] /\ i \in 1 .. Len(reads)
  BY DEF OwnersTyped
<1> QED
  BY <1>1 DEF Read

(* A step that leaves all lists alone keeps what is said of them.          *)
LEMMA ListsStay ==
    ASSUME OwnInv, UNCHANGED <<store, owners, ownersOf, rereads, posts>>,
           diverged' = diverged, raced => raced'
    PROVE  /\ OthersKept' /\ ListAgrees' /\ ListsUnique'
           /\ \A p \in posts' : ~ IsRequiredMinOwnersNotConfirmed(p.owners)
<1>1. OthersKept'
  BY DEF OwnInv, OthersKept
<1>2. ListAgrees'
  BY DEF OwnInv, ListAgrees
<1>3. ListsUnique'
  BY DEF OwnInv, ListsUnique
<1> QED
  BY <1>1, <1>2, <1>3 DEF OwnInv, SavesEnough

(* A list that stays while the reads go on is still of its dataset.        *)
LEMMA ListStays ==
    ASSUME OwnInv, ReadsGoOn, OwnersRead' => OwnersRead, UNCHANGED <<owners, ownersOf, ownUrn, raced>>
    PROVE  ListIsOfDataset'
BY DEF OwnInv, ListIsOfDataset

LEMMA NewReadKeeps ==
    ASSUME OwnInv, NEW u \in Urns, Perform(u), ownUrn' = u, AuthorsRerender(FALSE),
           UNCHANGED <<store, owners, ownersOf, suggestedOwners, userEntities, rereads, posts, headerOf,
                       diverged>>,
           HeaderFollows', raced' \in BOOLEAN, raced => raced',
           ~ raced' => \A i \in 1 .. Len(reads) : "owners" \in reads[i].pending => reads[i].urn = u,
           ~ raced' => rereads \subseteq {u}
    PROVE  OwnInv'
<1>1. /\ changedState' \in {-1, 0, 1} /\ (changedState' = -1 <=> ~ Editing')
      /\ saving' \in BOOLEAN /\ saveDisabled' \in BOOLEAN /\ ownersDot' \in BOOLEAN
      /\ Editing' /\ ~ saveDisabled' => ~ IsRequiredMinOwnersNotConfirmed(owners')
      /\ DotTells'
  BY Rerendered DEF OwnInv
<1>2. OwnersTyped'
  <2>1. reads' \in Seq(Read) /\ Len(reads') > 0
    BY Performed DEF OwnInv
  <2> QED
    BY <1>1, <2>1 DEF OwnInv, OwnersTyped
<1>3. ReadsFollow' /\ ~ OwnersRead'
  BY NewReadFollows DEF OwnInv
<1>4. /\ OthersKept' /\ ListAgrees' /\ ListsUnique'
      /\ \A p \in posts' : ~ IsRequiredMinOwnersNotConfirmed(p.owners)
  BY ListsStay
<1>5. ListIsOfDataset'
  BY <1>3 DEF ListIsOfDataset
<1>6. SavesEnough'
  BY <1>1, <1>4 DEF SavesEnough
<1> QED
  BY <1>1, <1>2, <1>3, <1>4, <1>5, <1>6 DEF OwnInv

LEMMA OpenKeeps ==
    ASSUME OwnInv, NEW u \in Urns, OpenDataset(u) PROVE OwnInv'
<1>1. /\ Perform(u) /\ ownUrn' = u /\ AuthorsRerender(FALSE) /\ headerTask' = {u}
      /\ UNCHANGED <<store, owners, ownersOf, suggestedOwners, userEntities, rereads, posts, headerOf,
                     diverged>>
      /\ raced' = (raced \/ rereads # {} \/ \E i \in DOMAIN reads : "owners" \in reads[i].pending)
  BY DEF OpenDataset, RestartHeader
<1>2. HeaderFollows'
  BY <1>1 DEF HeaderFollows
<1>3. raced' \in BOOLEAN /\ (raced => raced') /\ (~ raced' => rereads \subseteq {u})
  BY <1>1
<1>4. ~ raced' => \A i \in 1 .. Len(reads) : "owners" \in reads[i].pending => reads[i].urn = u
  <2>1. DOMAIN reads = 1 .. Len(reads)
    BY DEF OwnInv, OwnersTyped
  <2> QED
    BY <1>1, <2>1
<1> QED
  BY <1>1, <1>2, <1>3, <1>4, NewReadKeeps

LEMMA RetryKeeps ==
    ASSUME OwnInv, RetryReads PROVE OwnInv'
<1>1. /\ Perform(ownUrn) /\ ownUrn' = ownUrn /\ AuthorsRerender(FALSE)
      /\ UNCHANGED <<store, owners, ownersOf, suggestedOwners, userEntities, rereads, posts, headerOf,
                     diverged>>
      /\ headerTask' = headerTask /\ raced' = raced
  BY DEF RetryReads
<1>2. HeaderFollows'
  BY <1>1 DEF OwnInv, HeaderFollows
<1>3. PICK u \in Urns : u = ownUrn
  BY DEF OwnInv, OwnersTyped
<1>4. raced' \in BOOLEAN /\ (raced => raced') /\ (~ raced' => rereads \subseteq {u})
  BY <1>1, <1>3 DEF OwnInv, OwnersTyped, ReadsFollow
<1>5. ~ raced' => \A i \in 1 .. Len(reads) : "owners" \in reads[i].pending => reads[i].urn = u
  BY <1>1, <1>3 DEF OwnInv, ReadsFollow
<1>6. Perform(u) /\ ownUrn' = u
  BY <1>1, <1>3
<1> QED
  BY <1>1, <1>2, <1>4, <1>5, <1>6, NewReadKeeps

(* A child that ends, but for the owners, leaves the list as it is.        *)
LEMMA EndKeeps ==
    ASSUME OwnInv, ReadsGoOn, OwnersRead' => OwnersRead, AuthorsRerender(FALSE),
           suggestedOwners' \in Seq(Owner), userEntities' \in {"pending", "cached", "failed"},
           UNCHANGED <<store, ownUrn, owners, ownersOf, rereads, posts, headerOf, headerTask, diverged, raced>>
    PROVE  OwnInv'
<1>1. /\ changedState' \in {-1, 0, 1} /\ (changedState' = -1 <=> ~ Editing')
      /\ saving' \in BOOLEAN /\ saveDisabled' \in BOOLEAN /\ ownersDot' \in BOOLEAN
      /\ Editing' /\ ~ saveDisabled' => ~ IsRequiredMinOwnersNotConfirmed(owners')
      /\ DotTells'
  BY Rerendered DEF OwnInv
<1>2. OwnersTyped'
  <2>1. reads' \in Seq(Read) /\ Len(reads') > 0
    BY DEF OwnInv, OwnersTyped, ReadsGoOn
  <2> QED
    BY <1>1, <2>1 DEF OwnInv, OwnersTyped
<1>3. ReadsFollow'
  BY ReadsStillFollow DEF OwnInv
<1>4. /\ OthersKept' /\ ListAgrees' /\ ListsUnique'
      /\ \A p \in posts' : ~ IsRequiredMinOwnersNotConfirmed(p.owners)
  BY ListsStay
<1>5. ListIsOfDataset'
  BY ListStays
<1>6. SavesEnough'
  BY <1>1, <1>4 DEF SavesEnough
<1>7. HeaderFollows'
  BY DEF OwnInv, HeaderFollows
<1> QED
  BY <1>1, <1>2, <1>3, <1>4, <1>5, <1>6, <1>7 DEF OwnInv

LEMMA SuggestedKeeps ==
    ASSUME OwnInv, NEW i \in DOMAIN reads, GetSuggestedOwners(i) PROVE OwnInv'
<1>1. ChildEnds(i, "suggested", TRUE)
  BY DEF GetSuggestedOwners
<1>2. ReadsGoOn /\ (OwnersRead' => OwnersRead)
  BY <1>1, ChildEnded DEF OwnInv
<1>3. suggestedOwners' \in Seq(Owner)
  <2>1. reads[i].urn \in Urns
    BY ReadsHaveUrns DEF OwnInv
  <2> QED
    BY <2>1, OwnersAssumption DEF GetSuggestedOwners
<1>4. userEntities' \in {"pending", "cached", "failed"}
  BY DEF GetSuggestedOwners, OwnInv, OwnersTyped
<1> QED
  BY <1>2, <1>3, <1>4, EndKeeps DEF GetSuggestedOwners

LEMMA FailKeeps ==
    ASSUME OwnInv, NEW i \in DOMAIN reads, ReadFails(i) PROVE OwnInv'
<1>1. PICK c \in {"owners", "suggested"} : ChildEnds(i, c, FALSE)
  BY DEF ReadFails
<1>2. ReadsGoOn /\ (OwnersRead' => OwnersRead)
  BY <1>1, ChildEnded DEF OwnInv
<1>3. suggestedOwners' \in Seq(Owner) /\ userEntities' \in {"pending", "cached", "failed"}
  BY DEF ReadFails, OwnInv, OwnersTyped
<1> QED
  BY <1>2, <1>3, EndKeeps DEF ReadFails

LEMMA UsersKeep ==
    ASSUME OwnInv, NEW ok \in BOOLEAN, GetUserEntities(ok) PROVE OwnInv'
<1>1. ReadsGoOn /\ (OwnersRead' => OwnersRead)
  BY UsersEnded DEF OwnInv
<1>2. suggestedOwners' \in Seq(Owner) /\ userEntities' \in {"pending", "cached", "failed"}
  BY DEF GetUserEntities, OwnInv, OwnersTyped
<1> QED
  BY <1>1, <1>2, EndKeeps DEF GetUserEntities

LEMMA HeaderKeeps ==
    ASSUME OwnInv, GetHeaderOwners PROVE OwnInv'
<1>1. /\ headerTask = {ownUrn} /\ headerOf' = ownUrn /\ headerTask' = {}
  BY DEF GetHeaderOwners, OwnInv, HeaderFollows
<1>2. UNCHANGED <<store, ownUrn, owners, ownersOf, suggestedOwners, reads, userEntities, rereads, posts,
                  saving, changedState, saveDisabled, ownersDot, diverged, raced>>
  BY DEF GetHeaderOwners
<1>3. Editing' <=> Editing
  BY <1>2, EditingSame
<1>4. OwnersTyped' /\ SavesEnough' /\ DotTells'
  <2>1. OwnersTyped'
    BY <1>2, <1>3 DEF OwnInv, OwnersTyped
  <2>2. SavesEnough'
    BY <1>2, <1>3 DEF OwnInv, SavesEnough
  <2>3. DotTells'
    BY <1>2, <1>3 DEF OwnInv, DotTells
  <2> QED
    BY <2>1, <2>2, <2>3
<1>5. OthersKept' /\ ListAgrees' /\ ListsUnique'
  BY <1>2, ListsStay
<1>6. HeaderFollows'
  BY <1>1, <1>2 DEF HeaderFollows
<1>7. ReadsFollow' /\ ListIsOfDataset'
  BY <1>2 DEF OwnInv, ReadsFollow, ListIsOfDataset, OwnersRead
<1> QED
  BY <1>4, <1>5, <1>6, <1>7 DEF OwnInv

(* Owners that are read replace the list: they are those of the dataset    *)
(* they were read for, as the server has them.                             *)
LEMMA SetKeeps ==
    ASSUME OwnInv, NEW u \in Urns, SetOwners(u), ~ raced => u = ownUrn, AuthorsRerender(TRUE),
           reads' \in Seq(Read), Len(reads') > 0, ReadsFollow', rereads' \subseteq rereads,
           UNCHANGED <<store, ownUrn, suggestedOwners, userEntities, posts, headerOf, headerTask, raced>>
    PROVE  OwnInv'
<1>1. /\ changedState' \in {-1, 0, 1} /\ (changedState' = -1 <=> ~ Editing')
      /\ saving' \in BOOLEAN /\ saveDisabled' \in BOOLEAN /\ ownersDot' \in BOOLEAN
      /\ Editing' /\ ~ saveDisabled' => ~ IsRequiredMinOwnersNotConfirmed(owners')
      /\ DotTells'
  BY Rerendered DEF OwnInv
<1>2. owners' = store[u] /\ ownersOf' = u /\ diverged' = FALSE /\ store[u] \in Seq(Owner)
  BY DEF SetOwners, OwnInv, OwnersTyped
<1>3. OwnersTyped'
  BY <1>1, <1>2 DEF OwnInv, OwnersTyped
<1>4. HeaderFollows'
  BY DEF OwnInv, HeaderFollows
<1>5. ListIsOfDataset'
  BY <1>2 DEF OwnInv, OwnersTyped, OthersKept, ListIsOfDataset
<1>6. OthersKept'
  BY DEF OwnInv, OthersKept
<1>7. ListAgrees'
  BY <1>2 DEF ListAgrees
<1>8. ListsUnique'
  BY <1>2 DEF OwnInv, ListsUnique
<1>9. SavesEnough'
  BY <1>1 DEF OwnInv, SavesEnough
<1> QED
  BY <1>1, <1>3, <1>4, <1>5, <1>6, <1>7, <1>8, <1>9 DEF OwnInv

LEMMA OwnersKeep ==
    ASSUME OwnInv, NEW i \in DOMAIN reads, GetDatasetOwners(i) PROVE OwnInv'
<1>1. /\ ChildEnds(i, "owners", TRUE) /\ SetOwners(reads[i].urn) /\ AuthorsRerender(TRUE)
      /\ UNCHANGED <<store, ownUrn, suggestedOwners, userEntities, rereads, posts, headerOf, headerTask, raced>>
  BY DEF GetDatasetOwners
<1>2. ReadsGoOn /\ "owners" \in reads[i].pending
  BY <1>1, ChildEnded DEF OwnInv
<1>3. PICK u \in Urns : u = reads[i].urn /\ i \in 1 .. Len(reads)
  BY ReadsHaveUrns DEF OwnInv
<1>4. ~ raced => u = ownUrn
  BY <1>2, <1>3 DEF OwnInv, ReadsFollow
<1>5. ReadsFollow'
  BY <1>1, <1>2, ReadsStillFollow DEF OwnInv
<1>6. reads' \in Seq(Read) /\ Len(reads') > 0
  BY <1>2 DEF OwnInv, OwnersTyped, ReadsGoOn
<1>7. SetOwners(u) /\ rereads' \subseteq rereads
  BY <1>1, <1>3
<1> QED
  BY <1>1, <1>4, <1>5, <1>6, <1>7, SetKeeps

LEMMA RereadKeeps ==
    ASSUME OwnInv, NEW u \in Urns, NEW ok \in BOOLEAN, Reread(u, ok) PROVE OwnInv'
<1>1. /\ u \in rereads /\ rereads' = rereads \ {u} /\ AuthorsRerender(ok)
      /\ UNCHANGED <<store, ownUrn, suggestedOwners, reads, userEntities, posts, headerOf, headerTask, raced>>
  BY DEF Reread
<1>2. ReadsFollow' /\ (OwnersRead' <=> OwnersRead) /\ HeaderFollows'
  BY <1>1 DEF OwnInv, ReadsFollow, OwnersRead, HeaderFollows
<1>3. CASE ok
  <2>1. SetOwners(u) /\ AuthorsRerender(TRUE) /\ rereads' \subseteq rereads
    BY <1>1, <1>3 DEF Reread
  <2>2. ~ raced => u = ownUrn
    BY <1>1 DEF OwnInv, ReadsFollow
  <2>3. reads' \in Seq(Read) /\ Len(reads') > 0
    BY <1>1 DEF OwnInv, OwnersTyped
  <2> QED
    BY <1>1, <1>2, <2>1, <2>2, <2>3, SetKeeps
<1>4. CASE ~ ok
  <2>1. diverged' = TRUE /\ UNCHANGED <<owners, ownersOf>> /\ AuthorsRerender(FALSE)
    BY <1>1, <1>4 DEF Reread
  <2>2. /\ changedState' \in {-1, 0, 1} /\ (changedState' = -1 <=> ~ Editing')
        /\ saving' \in BOOLEAN /\ saveDisabled' \in BOOLEAN /\ ownersDot' \in BOOLEAN
        /\ Editing' /\ ~ saveDisabled' => ~ IsRequiredMinOwnersNotConfirmed(owners')
        /\ DotTells'
    BY <2>1, Rerendered DEF OwnInv
  <2>3. OwnersTyped'
    BY <1>1, <2>1, <2>2 DEF OwnInv, OwnersTyped
  <2>4. ListIsOfDataset' /\ OthersKept'
    BY <1>1, <1>2, <2>1 DEF OwnInv, ListIsOfDataset, OthersKept
  <2>5. ListAgrees' /\ ListsUnique'
    BY <1>1, <2>1 DEF OwnInv, ListAgrees, ListsUnique
  <2>6. SavesEnough'
    BY <1>1, <2>2 DEF OwnInv, SavesEnough
  <2> QED
    BY <1>2, <2>2, <2>3, <2>4, <2>5, <2>6 DEF OwnInv
<1> QED
  BY <1>3, <1>4

(* A fair edit of a list that may be edited.                               *)
LEMMA EditKeeps ==
    ASSUME OwnInv, NEW list, EditTo(list), FairEdit(list) PROVE OwnInv'
<1>1. /\ Editing /\ owners' = list /\ diverged' = TRUE
      /\ AuthorsRerender(ConfirmedOwners(list) # ConfirmedOwners(owners))
      /\ UNCHANGED <<store, ownUrn, ownersOf, suggestedOwners, reads, userEntities, rereads, posts,
                     headerOf, headerTask, raced>>
  BY DEF EditTo
<1>2. /\ list \in Seq(Owner) /\ FromOtherSources(list) = FromOtherSources(owners)
      /\ KeysUnique(owners) => KeysUnique(list)
  BY DEF FairEdit
<1>3. PICK edited \in BOOLEAN : edited = (ConfirmedOwners(list) # ConfirmedOwners(owners))
  OBVIOUS
<1>4. AuthorsRerender(edited)
  BY <1>1, <1>3
<1>5. /\ changedState' \in {-1, 0, 1} /\ (changedState' = -1 <=> ~ Editing')
      /\ saving' \in BOOLEAN /\ saveDisabled' \in BOOLEAN /\ ownersDot' \in BOOLEAN
      /\ Editing' /\ ~ saveDisabled' => ~ IsRequiredMinOwnersNotConfirmed(owners')
      /\ DotTells'
  <2>1. ~ edited => ConfirmedOwners(owners') = ConfirmedOwners(owners)
    BY <1>1, <1>3
  <2> QED
    BY <1>4, <2>1, Rerendered DEF OwnInv
<1>6. OwnersTyped'
  BY <1>1, <1>2, <1>5 DEF OwnInv, OwnersTyped
<1>7. ReadsFollow' /\ (OwnersRead' <=> OwnersRead) /\ HeaderFollows'
  BY <1>1 DEF OwnInv, ReadsFollow, OwnersRead, HeaderFollows
<1>8. ListIsOfDataset' /\ OthersKept'
  BY <1>1, <1>2, <1>7 DEF OwnInv, ListIsOfDataset, OthersKept
<1>9. ListAgrees' /\ ListsUnique'
  BY <1>1, <1>2 DEF OwnInv, ListAgrees, ListsUnique
<1>10. SavesEnough'
  BY <1>1, <1>5 DEF OwnInv, SavesEnough
<1> QED
  BY <1>5, <1>6, <1>7, <1>8, <1>9, <1>10 DEF OwnInv

(* The list that is saved is the one on the page: of its dataset, with     *)
(* enough owners, and with what other sources know.                        *)
LEMMA SaveKeeps ==
    ASSUME OwnInv, SaveOwners PROVE OwnInv'
<1> DEFINE post == [urn |-> ownUrn, of |-> ownersOf, owners |-> owners]
<1>1. /\ Editing /\ ~ saveDisabled /\ posts' = posts \cup {post} /\ saving' = TRUE
      /\ UNCHANGED <<store, ownUrn, owners, ownersOf, suggestedOwners, reads, userEntities, rereads,
                     changedState, saveDisabled, ownersDot, headerOf, headerTask, diverged, raced>>
  BY DEF SaveOwners
<1>2. post \in Post /\ post.owners = owners /\ post.urn = ownUrn
  BY DEF OwnInv, OwnersTyped, Post
<1> HIDE DEF post
<1>3. Editing' <=> Editing
  BY <1>1, EditingSame
<1>4. OwnersTyped'
  BY <1>1, <1>2, <1>3 DEF OwnInv, OwnersTyped
<1>5. OwnersRead
  BY <1>1, EditingHasRead DEF OwnInv
<1>6. ReadsFollow' /\ (OwnersRead' <=> OwnersRead) /\ HeaderFollows'
  BY <1>1 DEF OwnInv, ReadsFollow, OwnersRead, HeaderFollows
<1>7. ListIsOfDataset' /\ ListAgrees' /\ DotTells'
  BY <1>1, <1>3, <1>6 DEF OwnInv, ListIsOfDataset, ListAgrees, DotTells
<1>8. OthersKept'
  BY <1>1, <1>2, <1>5 DEF OwnInv, OthersKept, ListIsOfDataset
<1>9. ListsUnique'
  BY <1>1, <1>2 DEF OwnInv, ListsUnique
<1>10. SavesEnough'
  BY <1>1, <1>2, <1>3 DEF OwnInv, SavesEnough
<1> QED
  BY <1>4, <1>6, <1>7, <1>8, <1>9, <1>10 DEF OwnInv

LEMMA SavedKeeps ==
    ASSUME OwnInv, NEW p \in posts, SaveOwnerChanges(p) PROVE OwnInv'
<1>1. /\ posts' = posts \ {p} /\ store' = [store EXCEPT ![p.urn] = p.owners]
      /\ rereads' = rereads \cup {ownUrn} /\ saving' = FALSE
      /\ UNCHANGED <<ownUrn, owners, ownersOf, suggestedOwners, reads, userEntities, changedState,
                     saveDisabled, ownersDot, headerOf, headerTask, diverged, raced>>
  BY DEF SaveOwnerChanges
<1>2. p.urn \in Urns /\ p.owners \in Seq(Owner)
  BY DEF OwnInv, OwnersTyped, Post
<1>3. Editing' <=> Editing
  BY <1>1, EditingSame
<1>4. /\ store' \in [Urns -> Seq(Owner)]
      /\ \A u \in Urns : store'[u] = IF u = p.urn THEN p.owners ELSE store[u]
  BY <1>1, <1>2 DEF OwnInv, OwnersTyped
<1>5. OwnersTyped'
  BY <1>1, <1>3, <1>4 DEF OwnInv, OwnersTyped
<1>6. ReadsFollow' /\ (OwnersRead' <=> OwnersRead) /\ HeaderFollows'
  BY <1>1 DEF OwnInv, ReadsFollow, OwnersRead, HeaderFollows
<1>7. ListIsOfDataset' /\ DotTells' /\ ListAgrees'
  BY <1>1, <1>3, <1>6 DEF OwnInv, ListIsOfDataset, ListAgrees, DotTells
<1>8. OthersKept'
  BY <1>1, <1>2, <1>4 DEF OwnInv, OthersKept
<1>9. ListsUnique'
  BY <1>1, <1>2, <1>4 DEF OwnInv, ListsUnique
<1>10. SavesEnough'
  BY <1>1, <1>3 DEF OwnInv, SavesEnough
<1> QED
  BY <1>5, <1>6, <1>7, <1>8, <1>9, <1>10 DEF OwnInv

LEMMA NotSavedKeeps ==
    ASSUME OwnInv, NEW p \in posts, NotifyNotSaved(p) PROVE OwnInv'
<1>1. /\ posts' = posts \ {p} /\ saving' = FALSE /\ diverged' = TRUE
      /\ UNCHANGED <<store, ownUrn, owners, ownersOf, suggestedOwners, reads, userEntities, rereads,
                     changedState, saveDisabled, ownersDot, headerOf, headerTask, raced>>
  BY DEF NotifyNotSaved
<1>2. Editing' <=> Editing
  BY <1>1, EditingSame
<1>3. OwnersTyped'
  BY <1>1, <1>2 DEF OwnInv, OwnersTyped
<1>4. ReadsFollow' /\ (OwnersRead' <=> OwnersRead) /\ HeaderFollows'
  BY <1>1 DEF OwnInv, ReadsFollow, OwnersRead, HeaderFollows
<1>5. ListIsOfDataset' /\ ListAgrees' /\ DotTells' /\ OthersKept'
  BY <1>1, <1>2, <1>4 DEF OwnInv, ListIsOfDataset, ListAgrees, DotTells, OthersKept
<1>6. ListsUnique' /\ SavesEnough'
  BY <1>1, <1>2 DEF OwnInv, ListsUnique, SavesEnough
<1> QED
  BY <1>3, <1>4, <1>5, <1>6 DEF OwnInv

LEMMA OwnInvStays ==
    ASSUME OwnInv, UNCHANGED ownVars PROVE OwnInv'
<1>1. Editing' <=> Editing
  BY EditingSame DEF ownVars
<1>2. OwnersTyped' /\ HeaderFollows'
  BY <1>1 DEF ownVars, OwnInv, OwnersTyped, HeaderFollows
<1>3. ReadsFollow' /\ ListIsOfDataset' /\ OthersKept' /\ ListAgrees' /\ ListsUnique'
  BY DEF ownVars, OwnInv, ReadsFollow, ListIsOfDataset, OwnersRead, OthersKept, ListAgrees, ListsUnique
<1>4. SavesEnough' /\ DotTells'
  BY <1>1 DEF ownVars, OwnInv, SavesEnough, DotTells
<1> QED
  BY <1>2, <1>3, <1>4 DEF OwnInv

\* The server starts without an owner it has twice from one source.
KeysUniqueAtFirst == \A u \in Urns : KeysUnique(InitialOwners[u])

LEMMA OwnInitInv ==
    ASSUME KeysUniqueAtFirst, OwnInit PROVE OwnInv
<1> DEFINE r == [urn |-> ownUrn, pending |-> ToSet(Children), failed |-> {}]
<1>1. r \in Read /\ "owners" \in r.pending /\ r.urn = ownUrn
  BY ChildNames DEF OwnInit, Read
<1>2. reads = <<r>>
  BY DEF OwnInit
<1> HIDE DEF r
<1>3. reads \in Seq(Read) /\ Len(reads) = 1 /\ reads[1] = r
  BY <1>1, <1>2
<1>4. ~ Editing
  BY FirstReadRuns
<1>5. OwnersTyped
  <2>1. <<>> \in Seq(Owner)
    OBVIOUS
  <2>2. store \in [Urns -> Seq(Owner)] /\ owners \in Seq(Owner) /\ suggestedOwners \in Seq(Owner)
    BY <2>1, OwnersAssumption DEF OwnInit
  <2>3. Len(reads) > 0
    BY <1>3
  <2>4. posts \subseteq Post /\ rereads \subseteq Urns /\ ownUrn \in Urns /\ ownersOf \in Urns
    BY DEF OwnInit
  <2>5. changedState = -1 /\ changedState \in {-1, 0, 1}
    BY DEF OwnInit
  <2>6. /\ userEntities \in {"pending", "cached", "failed"}
        /\ saving \in BOOLEAN /\ saveDisabled \in BOOLEAN /\ ownersDot \in BOOLEAN
        /\ diverged \in BOOLEAN /\ raced \in BOOLEAN
    BY DEF OwnInit
  <2> QED
    BY <1>3, <1>4, <2>2, <2>3, <2>4, <2>5, <2>6 DEF OwnersTyped
<1>6. HeaderFollows
  BY DEF OwnInit, HeaderFollows
<1>7. ReadsFollow /\ ~ OwnersRead
  BY <1>1, <1>3 DEF OwnInit, ReadsFollow, OwnersRead
<1>8. ListIsOfDataset
  BY <1>7 DEF ListIsOfDataset
<1>9. OthersKept /\ ListAgrees
  BY DEF OwnInit, OthersKept, ListAgrees
<1>10. ListsUnique
  <2>1. KeysUnique(<<>>)
    BY DEF KeysUnique
  <2> QED
    BY <2>1 DEF OwnInit, ListsUnique, KeysUniqueAtFirst
<1>11. SavesEnough /\ DotTells
  BY <1>4 DEF OwnInit, SavesEnough, DotTells
<1> QED
  BY <1>5, <1>6, <1>7, <1>8, <1>9, <1>10, <1>11 DEF OwnInv

LEMMA OwnInvStep ==
    ASSUME OwnInv, [OwnNext]_ownVars PROVE OwnInv'
<1>1. ASSUME NEW u \in Urns, OpenDataset(u) PROVE OwnInv'
  BY <1>1, OpenKeeps
<1>2. CASE RetryReads
  BY <1>2, RetryKeeps
<1>3. CASE GetHeaderOwners
  BY <1>3, HeaderKeeps
<1>4. ASSUME NEW i \in DOMAIN reads, GetDatasetOwners(i) \/ GetSuggestedOwners(i) \/ ReadFails(i)
      PROVE  OwnInv'
  BY <1>4, OwnersKeep, SuggestedKeeps, FailKeeps
<1>5. ASSUME NEW ok \in BOOLEAN, GetUserEntities(ok) PROVE OwnInv'
  BY <1>5, UsersKeep
<1>6. ASSUME NEW ok \in BOOLEAN, NEW u \in Urns, Reread(u, ok) PROVE OwnInv'
  BY <1>6, RereadKeeps
<1>7. ASSUME NEW u \in UserNames, AddUser(u) PROVE OwnInv'
  <2>1. DefaultOwner(u) \in Owner /\ DefaultOwner(u).source = "UI"
    BY OwnersAssumption DEF DefaultOwner, Owner
  <2>2. PICK list : EditTo(list) /\ FairEdit(list)
    BY <1>7, <2>1, AddIsFair DEF AddUser, OwnInv
  <2> QED
    BY <2>2, EditKeeps
<1>8. ASSUME NEW s \in ToSet(suggestedOwners), ConfirmSuggestedOwner(s) PROVE OwnInv'
  <2>1. s \in Owner
    BY <1>8 DEF OwnInv, OwnersTyped, ToSet
  <2>2. PICK o \in Owner : o = [s EXCEPT !.source = "UI"] /\ o.source = "UI"
    <3>1. [s EXCEPT !.source = "UI"] \in Owner /\ [s EXCEPT !.source = "UI"].source = "UI"
      BY <2>1 DEF Owner
    <3> QED
      BY <3>1
  <2>3. AddOwner(o)
    BY <1>8, <2>2 DEF ConfirmSuggestedOwner
  <2>4. PICK list : EditTo(list) /\ FairEdit(list)
    BY <2>2, <2>3, AddIsFair DEF OwnInv
  <2> QED
    BY <2>4, EditKeeps
<1>9. ASSUME NEW i \in DOMAIN owners, RemoveOwner(i) PROVE OwnInv'
  <2>1. i \in 1 .. Len(owners)
    BY <1>9 DEF OwnInv, OwnersTyped
  <2>2. PICK list : EditTo(list) /\ FairEdit(list)
    BY <1>9, <2>1, RemoveIsFair DEF OwnInv
  <2> QED
    BY <2>2, EditKeeps
<1>10. ASSUME NEW i \in DOMAIN owners, NEW t \in ReadDatasetOwnerTypes, UpdateOwnerType(i, t) PROVE OwnInv'
  <2>1. i \in 1 .. Len(owners) /\ t \in OwnerTypes
    BY <1>10 DEF OwnInv, OwnersTyped, ReadDatasetOwnerTypes
  <2>2. PICK list : EditTo(list) /\ FairEdit(list)
    BY <1>10, <2>1, UpdateIsFair DEF OwnInv
  <2> QED
    BY <2>2, EditKeeps
<1>11. CASE SaveOwners
  BY <1>11, SaveKeeps
<1>12. ASSUME NEW p \in posts, SaveOwnerChanges(p) \/ NotifyNotSaved(p) PROVE OwnInv'
  BY <1>12, SavedKeeps, NotSavedKeeps
<1>13. CASE UNCHANGED ownVars
  BY <1>13, OwnInvStays
<1> QED
  BY <1>1, <1>2, <1>3, <1>4, <1>5, <1>6, <1>7, <1>8, <1>9, <1>10, <1>11, <1>12, <1>13 DEF OwnNext

LEMMA OwnInvIsSafe ==
    ASSUME OwnInv PROVE OwnershipIsSafe
<1>1. OwnTypeOK
  <2>1. \A i \in DOMAIN owners : owners[i] \in Owner
    BY DEF OwnInv, OwnersTyped
  <2>2. reads # <<>>
    BY DEF OwnInv, OwnersTyped
  <2>3. \A i \in DOMAIN reads : reads[i].pending \cup reads[i].failed \subseteq ToSet(Children)
    <3> SUFFICES ASSUME NEW i \in DOMAIN reads
                 PROVE  reads[i].pending \cup reads[i].failed \subseteq ToSet(Children)
      OBVIOUS
    <3>1. PICK r \in Read : r = reads[i]
      BY DEF OwnInv, OwnersTyped
    <3> QED
      BY <3>1 DEF Read
  <2>4. Cardinality(headerTask) <= 1
    <3>1. headerTask = {ownUrn} \/ headerTask = {}
      BY DEF OwnInv, HeaderFollows
    <3>2. Cardinality({}) = 0 /\ Cardinality({ownUrn}) = 1
      BY FS_EmptySet, FS_Singleton
    <3> QED
      BY <3>1, <3>2
  <2>5. {saving, saveDisabled, ownersDot, diverged, raced} \subseteq BOOLEAN
    BY DEF OwnInv, OwnersTyped
  <2> QED
    BY <2>1, <2>2, <2>3, <2>4, <2>5 DEF OwnInv, OwnersTyped, OwnTypeOK
<1>2. EditsOwnDataset
  BY EditingHasRead DEF OwnInv, EditsOwnDataset, ListIsOfDataset
<1>3. PageAgreesWithServer
  BY <1>2 DEF OwnInv, PageAgreesWithServer, EditsOwnDataset, NoReads, ListAgrees
<1>4. OwnersAreUnique
  <2> SUFFICES ASSUME NEW u \in Urns, NEW i \in DOMAIN store[u], NEW j \in DOMAIN store[u],
                      OwnerKey(store[u][i]) = OwnerKey(store[u][j])
               PROVE  i = j
    BY DEF OwnersAreUnique
  <2>1. store[u] \in Seq(Owner) /\ KeysUnique(store[u])
    BY DEF OwnInv, OwnersTyped, ListsUnique
  <2>2. DOMAIN store[u] = 1 .. Len(store[u])
    BY <2>1
  <2> QED
    BY <2>1, <2>2 DEF KeysUnique
<1>5. \A list \in Seq(Owner) : Len(ValidConfirmedOwners(list)) \in Nat
  <2> SUFFICES ASSUME NEW list \in Seq(Owner) PROVE Len(ValidConfirmedOwners(list)) \in Nat
    OBVIOUS
  <2>1. PICK c \in Seq(Owner) : c = ConfirmedOwners(list)
    BY OnlyKeeps DEF ConfirmedOwners
  <2>2. PICK v \in Seq(Owner) : v = ValidConfirmedOwners(list)
    BY <2>1, OnlyKeeps DEF ValidConfirmedOwners
  <2> QED
    BY <2>2
<1>6. SavesHaveTwoOwners
  <2> SUFFICES ASSUME NEW p \in posts PROVE Len(ValidConfirmedOwners(p.owners)) >= 2
    BY DEF SavesHaveTwoOwners
  <2>1. p.owners \in Seq(Owner)
    BY DEF OwnInv, OwnersTyped, Post
  <2>2. ~ (Len(ValidConfirmedOwners(p.owners)) < 2)
    BY DEF OwnInv, SavesEnough, IsRequiredMinOwnersNotConfirmed, MinRequiredConfirmedOwners
  <2> QED
    BY <1>5, <2>1, <2>2
<1>7. OtherSourcesStay
  BY DEF OwnInv, OthersKept, OtherSourcesStay
<1>8. DotTellsMissing
  <2>1. PICK n \in Nat : n = Len(ValidConfirmedOwners(owners))
    BY <1>5 DEF OwnInv, OwnersTyped
  <2>2. Editing => (ownersDot <=> n < 2)
    BY <2>1 DEF OwnInv, DotTells, IsRequiredMinOwnersNotConfirmed, MinRequiredConfirmedOwners
  <2>3. OwnersRequiredCount(owners) = 2 - n
    BY <2>1 DEF OwnersRequiredCount, MinRequiredConfirmedOwners
  <2> QED
    BY <2>1, <2>2, <2>3 DEF DotTellsMissing
<1>9. HeaderOfDataset
  BY DEF OwnInv, HeaderFollows, HeaderOfDataset
<1> QED
  BY <1>1, <1>2, <1>3, <1>4, <1>6, <1>7, <1>8, <1>9 DEF OwnershipIsSafe

(* Tab, header and server hold the owners of the dataset that is shown,    *)
(* whatever reads, edits, saves and page changes overlap: what can be      *)
(* edited is the list of the page's dataset, an unedited list is as the    *)
(* server has it, no owner is there twice, a save has enough owners and    *)
(* leaves alone what other sources know (dataset-authors.ts,               *)
(* dataset-ownership.ts), if the server starts with unique owners.         *)
THEOREM OwnershipStaysSafe ==
    ASSUME KeysUniqueAtFirst PROVE OwnSpec => []OwnershipIsSafe
<1>1. OwnInit => OwnInv
  BY OwnInitInv
<1>2. OwnInv /\ [OwnNext]_ownVars => OwnInv'
  BY OwnInvStep
<1>3. OwnInv => OwnershipIsSafe
  BY OwnInvIsSafe
<1> QED
  BY <1>1, <1>2, <1>3, PTL DEF OwnSpec

-----------------------------------------------------------------------------
(***************************************************************************)
(* The deprecation of a dataset.  What is on its way to the server is as   *)
(* the form lets it be; as long as nothing was disturbed the read under    *)
(* way is for the page's dataset and has what the server still knows.      *)
(***************************************************************************)

\* A deprecated dataset has a date; one that is not keeps nothing.
WellDeprecated(value) ==
    /\ value.deprecated => value.decommissionTime # "null"
    /\ ~ value.deprecated => value = [deprecated |-> FALSE, deprecationNote |-> "", decommissionTime |-> "null"]

\* The server starts with such datasets.
DeprecatedAtFirst == \A urn \in DeprUrns : WellDeprecated(StoredAtFirst[urn])

Update == [urn : DeprUrns, value : DeprecationOf, id : 1 .. MaxUpdates]

DeprTyped ==
    /\ deprUrn \in DeprUrns /\ stored \in [DeprUrns -> DeprecationOf]
    /\ depReads \subseteq [urn : DeprUrns, seen : DeprecationOf]
    /\ depUpdates \subseteq Update /\ nUpdates \in 0 .. MaxUpdates
    /\ deprecated \in BOOLEAN /\ deprecationNote \in Notes \cup {""} /\ decommissionTime \in Dates \cup {"null"}
    /\ isDeprecatedAlias \in BOOLEAN /\ isDeprecationAcknowledged \in BOOLEAN
    /\ touched \in BOOLEAN /\ disturbed \in BOOLEAN
    /\ deprecationNoteAlias \in Notes \cup {"", "follows"}

WellStored ==
    /\ \A urn \in DeprUrns : WellDeprecated(stored[urn])
    /\ \A update \in depUpdates : WellDeprecated(update.value)

ReadsAreFresh ==
    ~ disturbed =>
       /\ \A read \in depReads : read.urn = deprUrn /\ read.seen = stored[deprUrn]
       /\ depReads = {} => /\ deprecated = stored[deprUrn].deprecated
                           /\ deprecationNote = stored[deprUrn].deprecationNote

DeprInv == DeprTyped /\ WellStored /\ ReadsAreFresh

LEMMA UpdatesBounded == MaxUpdates \in Nat
BY StoredAssumption

LEMMA DeprInitInv ==
    ASSUME DeprecatedAtFirst, DeprInit PROVE DeprInv
<1>1. PICK read : read = [urn |-> deprUrn, seen |-> stored[deprUrn]]
  OBVIOUS
<1>2. /\ stored = StoredAtFirst /\ deprUrn \in DeprUrns
      /\ depReads = {read} /\ depUpdates = {} /\ nUpdates = 0
      /\ deprecated = FALSE /\ deprecationNote = "" /\ decommissionTime = "null"
      /\ isDeprecatedAlias = FALSE /\ deprecationNoteAlias = "follows" /\ isDeprecationAcknowledged = FALSE
      /\ touched = FALSE /\ disturbed = FALSE
  BY <1>1 DEF DeprInit
<1>3. stored \in [DeprUrns -> DeprecationOf]
  BY <1>2, StoredAssumption
<1>4. read \in [urn : DeprUrns, seen : DeprecationOf] /\ read.urn = deprUrn /\ read.seen = stored[deprUrn]
  BY <1>1, <1>2, <1>3
<1>5. DeprTyped
  <2>1. nUpdates \in 0 .. MaxUpdates
    <3>1. PICK n \in Nat : n = MaxUpdates
      BY UpdatesBounded
    <3>2. nUpdates = 0
      BY <1>2
    <3> QED
      BY <3>1, <3>2
  <2>2. depReads \subseteq [urn : DeprUrns, seen : DeprecationOf] /\ depUpdates \subseteq Update
    BY <1>2, <1>4
  <2> QED
    BY <1>2, <1>3, <2>1, <2>2 DEF DeprTyped
<1>6. WellStored
  BY <1>2 DEF DeprecatedAtFirst, WellStored
<1>7. ReadsAreFresh
  BY <1>2, <1>4 DEF ReadsAreFresh
<1> QED
  BY <1>5, <1>6, <1>7 DEF DeprInv

(* A read that is asked for is disturbed if another one is under way.      *)
LEMMA ReadAsked ==
    ASSUME DeprTyped, NEW urn \in DeprUrns, NEW server \in [DeprUrns -> DeprecationOf],
           PerformRead(urn, server), stored' = server, deprUrn' = urn
    PROVE  /\ depReads' \subseteq [urn : DeprUrns, seen : DeprecationOf] /\ disturbed' \in BOOLEAN
           /\ ReadsAreFresh'
<1> DEFINE read == [urn |-> urn, seen |-> server[urn]]
<1>1. read \in [urn : DeprUrns, seen : DeprecationOf] /\ read.urn = urn /\ read.seen = server[urn]
  OBVIOUS
<1>2. depReads' = depReads \cup {read} /\ disturbed' = (disturbed \/ depReads # {})
  BY DEF PerformRead
<1> HIDE DEF read
<1>3. depReads' \subseteq [urn : DeprUrns, seen : DeprecationOf] /\ disturbed' \in BOOLEAN
  BY <1>1, <1>2 DEF DeprTyped
<1>4. ReadsAreFresh'
  <2>1. ~ disturbed' => depReads' = {read}
    BY <1>2
  <2> QED
    BY <1>1, <2>1 DEF ReadsAreFresh
<1> QED
  BY <1>3, <1>4

LEMMA DeprInvStep ==
    ASSUME DeprInv, [DeprNext]_deprVars PROVE DeprInv'
<1> USE DEF DeprInv
<1>1. ASSUME NEW urn \in DeprUrns, VisitDeprecation(urn) PROVE DeprInv'
  <2>1. /\ deprUrn' = urn /\ PerformRead(urn, stored)
        /\ UNCHANGED <<stored, depUpdates, nUpdates, deprecated, deprecationNote, decommissionTime,
                       isDeprecatedAlias, deprecationNoteAlias, isDeprecationAcknowledged, touched>>
    BY <1>1 DEF VisitDeprecation, heldVars, formVars
  <2>2. stored \in [DeprUrns -> DeprecationOf] /\ stored' = stored
    BY <2>1 DEF DeprTyped
  <2>3. /\ depReads' \subseteq [urn : DeprUrns, seen : DeprecationOf] /\ disturbed' \in BOOLEAN
        /\ ReadsAreFresh'
    BY <2>1, <2>2, ReadAsked
  <2>4. DeprTyped'
    BY <2>1, <2>3 DEF DeprTyped
  <2>5. WellStored'
    BY <2>1 DEF WellStored
  <2> QED
    BY <2>3, <2>4, <2>5
<1>2. ASSUME NEW read \in depReads, GetDeprecationProperties(read) PROVE DeprInv'
  <2>1. /\ depReads' = depReads \ {read}
        /\ UNCHANGED <<deprUrn, stored, depUpdates, nUpdates, isDeprecatedAlias, deprecationNoteAlias,
                       isDeprecationAcknowledged, touched, disturbed>>
    BY <1>2 DEF GetDeprecationProperties, formVars
  <2>2. PICK value \in {read.seen, stored[read.urn]} :
           /\ deprecated' = value.deprecated /\ deprecationNote' = value.deprecationNote
           /\ decommissionTime' = value.decommissionTime
    BY <1>2 DEF GetDeprecationProperties
  <2>3. read.urn \in DeprUrns /\ read.seen \in DeprecationOf
    BY DEF DeprTyped
  <2>4. value \in DeprecationOf
    BY <2>2, <2>3 DEF DeprTyped
  <2>5. DeprTyped'
    BY <2>1, <2>2, <2>4 DEF DeprTyped, DeprecationOf
  <2>6. WellStored'
    BY <2>1 DEF WellStored
  <2>7. ReadsAreFresh'
    <3>1. ~ disturbed => value = stored[deprUrn]
      BY <2>2 DEF ReadsAreFresh
    <3> QED
      BY <2>1, <2>2, <3>1 DEF ReadsAreFresh
  <2> QED
    BY <2>5, <2>6, <2>7
<1>3. ASSUME NEW read \in depReads, DeprecationReadFails(read) PROVE DeprInv'
  <2>1. /\ depReads' = depReads \ {read} /\ disturbed' = TRUE
        /\ UNCHANGED <<deprUrn, stored, depUpdates, nUpdates, deprecated, deprecationNote, decommissionTime,
                       isDeprecatedAlias, deprecationNoteAlias, isDeprecationAcknowledged, touched>>
    BY <1>3 DEF DeprecationReadFails, heldVars, formVars
  <2>2. DeprTyped' /\ WellStored' /\ ReadsAreFresh'
    BY <2>1 DEF DeprTyped, WellStored, ReadsAreFresh
  <2> QED
    BY <2>2
<1>4. CASE ToggleDeprecatedStatus
  <2>1. DeprTyped' /\ WellStored' /\ ReadsAreFresh'
    BY <1>4 DEF ToggleDeprecatedStatus, heldVars, DeprTyped, WellStored, ReadsAreFresh
  <2> QED
    BY <2>1
<1>5. CASE OnAcknowledgeDeprecationNotice
  <2>1. DeprTyped' /\ WellStored' /\ ReadsAreFresh'
    BY <1>5 DEF OnAcknowledgeDeprecationNotice, heldVars, DeprTyped, WellStored, ReadsAreFresh
  <2> QED
    BY <2>1
<1>6. ASSUME NEW note \in Notes \cup {""}, EditNote(note) PROVE DeprInv'
  <2>1. DeprTyped' /\ WellStored' /\ ReadsAreFresh'
    BY <1>6 DEF EditNote, heldVars, DeprTyped, WellStored, ReadsAreFresh
  <2> QED
    BY <2>1
<1>7. ASSUME NEW date \in Dates, OnDecommissionDateChange(date) PROVE DeprInv'
  <2>1. DeprTyped' /\ WellStored' /\ ReadsAreFresh'
    BY <1>7 DEF OnDecommissionDateChange, formVars, DeprTyped, WellStored, ReadsAreFresh
  <2> QED
    BY <2>1
<1>8. CASE OnUpdateDeprecation
  <2> DEFINE update == [urn |-> deprUrn, value |-> NewDeprecation, id |-> nUpdates + 1]
  <2>1. /\ IsSubmittable /\ nUpdates < MaxUpdates /\ nUpdates' = nUpdates + 1
        /\ depUpdates' = depUpdates \cup {update}
        /\ UNCHANGED <<deprUrn, stored, depReads, deprecated, deprecationNote, decommissionTime,
                       isDeprecatedAlias, deprecationNoteAlias, isDeprecationAcknowledged, touched, disturbed>>
    BY <1>8 DEF OnUpdateDeprecation, heldVars, formVars
  <2>2. nUpdates' \in 0 .. MaxUpdates /\ nUpdates + 1 \in 1 .. MaxUpdates
    <3>1. PICK n \in Nat : n = MaxUpdates
      BY UpdatesBounded
    <3>2. PICK k \in 0 .. n : k = nUpdates
      BY <3>1 DEF DeprTyped
    <3>3. k < n /\ nUpdates' = k + 1
      BY <2>1, <3>1, <3>2
    <3> QED
      BY <3>1, <3>2, <3>3
  <2>3. NewDeprecation \in DeprecationOf
    <3>1. NoteValue \in Notes \cup {""}
      BY DEF DeprTyped, NoteValue, NoteShown
    <3> QED
      BY <3>1 DEF DeprTyped, NewDeprecation, DeprecationOf
  <2>4. WellDeprecated(NewDeprecation)
    BY <2>1 DEF DeprTyped, IsSubmittable, NewDeprecation, NoteValue, WellDeprecated
  <2>5. update \in Update /\ update.value = NewDeprecation
    BY <2>2, <2>3 DEF DeprTyped, Update
  <2> HIDE DEF update
  <2>6. DeprTyped'
    BY <2>1, <2>2, <2>5 DEF DeprTyped
  <2>7. WellStored' /\ ReadsAreFresh'
    BY <2>1, <2>4, <2>5 DEF WellStored, ReadsAreFresh
  <2> QED
    BY <2>6, <2>7
<1>9. ASSUME NEW update \in depUpdates, NEW worked \in BOOLEAN, UpdateDeprecation(update, worked) PROVE DeprInv'
  <2>1. /\ depUpdates' = depUpdates \ {update}
        /\ stored' = IF worked THEN [stored EXCEPT ![update.urn] = update.value] ELSE stored
        /\ deprecationNoteAlias' = update.value.deprecationNote /\ PerformRead(deprUrn, stored')
        /\ UNCHANGED <<deprUrn, nUpdates, deprecated, deprecationNote, decommissionTime,
                       isDeprecatedAlias, isDeprecationAcknowledged, touched>>
    BY <1>9 DEF UpdateDeprecation, heldVars
  <2>2. update.urn \in DeprUrns /\ update.value \in DeprecationOf /\ WellDeprecated(update.value)
    BY DEF DeprTyped, Update, WellStored
  <2>3. PICK server \in [DeprUrns -> DeprecationOf] :
           server = stored' /\ \A urn \in DeprUrns : server[urn] \in {stored[urn], update.value}
    <3>1. /\ stored' \in [DeprUrns -> DeprecationOf]
          /\ \A urn \in DeprUrns : stored'[urn] \in {stored[urn], update.value}
      BY <2>1, <2>2 DEF DeprTyped
    <3> QED
      BY <3>1
  <2>4. PICK urn \in DeprUrns : urn = deprUrn
    BY DEF DeprTyped
  <2>5. PerformRead(urn, server) /\ stored' = server /\ deprUrn' = urn
    BY <2>1, <2>3, <2>4
  <2>6. /\ depReads' \subseteq [urn : DeprUrns, seen : DeprecationOf] /\ disturbed' \in BOOLEAN
        /\ ReadsAreFresh'
    BY <2>5, ReadAsked
  <2>7. DeprTyped'
    <3>1. update.value.deprecationNote \in Notes \cup {""}
      BY <2>2 DEF DeprecationOf
    <3> QED
      BY <2>1, <2>3, <2>6, <3>1 DEF DeprTyped
  <2>8. WellStored'
    BY <2>1, <2>2, <2>3 DEF WellStored
  <2> QED
    BY <2>6, <2>7, <2>8
<1>10. CASE UNCHANGED deprVars
  <2>1. DeprTyped' /\ WellStored' /\ ReadsAreFresh'
    BY <1>10 DEF deprVars, heldVars, formVars, DeprTyped, WellStored, ReadsAreFresh
  <2> QED
    BY <2>1
<1> QED
  BY <1>1, <1>2, <1>3, <1>4, <1>5, <1>6, <1>7, <1>8, <1>9, <1>10 DEF DeprNext

LEMMA DeprInvIsForm ==
    ASSUME DeprInv PROVE FormIsOfDataset
<1>1. DeprTypeOK
  BY DEF DeprInv, DeprTyped, DeprTypeOK, DeprecationOf, Update
<1>2. DeprecatedHasDate /\ NotDeprecatedKeepsNothing
  BY DEF DeprInv, WellStored, WellDeprecated, DeprecatedHasDate, NotDeprecatedKeepsNothing
<1>3. HoldsTheDataset
  BY DEF DeprInv, ReadsAreFresh, HoldsTheDataset
<1> QED
  BY <1>1, <1>2, <1>3 DEF FormIsOfDataset

(* Form, container and server agree about the deprecation of a dataset: no *)
(* dataset is deprecated without a date, one that is not keeps nothing,    *)
(* and what is shown when nothing is under way is what the server knows of *)
(* the page's dataset (entity-deprecation.ts, dataset-properties.ts).      *)
THEOREM FormStaysOfDataset ==
    ASSUME DeprecatedAtFirst PROVE DeprSpec => []FormIsOfDataset
<1>1. DeprInit => DeprInv
  BY DeprInitInv
<1>2. DeprInv /\ [DeprNext]_deprVars => DeprInv'
  BY DeprInvStep
<1>3. DeprInv => FormIsOfDataset
  BY DeprInvIsForm
<1> QED
  BY <1>1, <1>2, <1>3, PTL DEF DeprSpec

-----------------------------------------------------------------------------
(***************************************************************************)
(* The wiki links of a dataset.  Lists that are read, shown and written    *)
(* hold links of their own dataset; as long as nothing raced or failed,    *)
(* what is read is what the server has, and what is written has all of it  *)
(* that the user did not remove.                                           *)
(***************************************************************************)

StampedLink == [url : WikiUrls \cup {""}, of : WikiUrns, stamped : {TRUE}]
WikiWrite == [urn : WikiUrns, links : Seq(Link)]

WikiTyped ==
    /\ wikiUrn \in WikiUrns /\ wikiStored \in [WikiUrns -> Seq(StampedLink)]
    /\ institutionalMemories \in Seq(Link) /\ wikiReads \in Seq(Seq(StampedLink))
    /\ isRead \in BOOLEAN /\ isShowingModal \in BOOLEAN
    /\ wikiWrites \subseteq WikiWrite /\ \A w, v \in wikiWrites : w = v
    /\ typedUrl \in WikiUrls \cup {""} /\ (~ isShowingModal => typedUrl = "")
    /\ confirming \subseteq Link /\ \A c, d \in confirming : c = d
    /\ nChanges \in 0 .. MaxChanges /\ trouble \subseteq {"raced", "failed", "dropped"}

\* All links of a list are of a dataset.
AllOf(list, urn) == \A i \in 1 .. Len(list) : list[i].of = urn

LinksAreOwn ==
    /\ \A urn \in WikiUrns : AllOf(wikiStored[urn], urn)
    /\ AllOf(institutionalMemories, wikiUrn)
    /\ \A i \in 1 .. Len(wikiReads) : AllOf(wikiReads[i], wikiUrn)
    /\ \A w \in wikiWrites : AllOf(w.links, w.urn)

Untroubled == trouble \cap {"raced", "failed"} = {}

\* What a list lacks of what the server has of a dataset, the user removed.
LacksOnlyRemoved(list, urn) ==
    \A i \in 1 .. Len(wikiStored[urn]) :
       \/ \E k \in 1 .. Len(list) : list[k] = wikiStored[urn][i]
       \/ <<urn, wikiStored[urn][i].url>> \in removed

ListsAreCurrent ==
    Untroubled =>
       /\ \A i \in 1 .. Len(wikiReads) : wikiReads[i] = wikiStored[wikiUrn]
       /\ isRead /\ wikiReads = <<>> /\ wikiWrites = {} => institutionalMemories = wikiStored[wikiUrn]
       /\ \A w \in wikiWrites : LacksOnlyRemoved(w.links, w.urn)

WikiInv == WikiTyped /\ LinksAreOwn /\ ListsAreCurrent

(* A list of which a link was removed.                                     *)
LEMMA RemovedFirst ==
    ASSUME NEW T, NEW list \in Seq(T), NEW x \in T, \E i \in 1 .. Len(list) : list[i] = x
    PROVE  /\ RemoveFirst(list, x) \in Seq(T)
           /\ \A k \in 1 .. Len(RemoveFirst(list, x)) : \E i \in 1 .. Len(list) : RemoveFirst(list, x)[k] = list[i]
           /\ \A i \in 1 .. Len(list) : list[i] = x \/ \E k \in 1 .. Len(RemoveFirst(list, x)) : RemoveFirst(list, x)[k] = list[i]
<1> DEFINE I == {i \in 1 .. Len(list) : list[i] = x}
           at == SelectInSeq(list, LAMBDA v : v = x)
           n == Len(list)
<1>1. I # {} /\ n \in Nat
  OBVIOUS
<1>2. at = Min(I)
  BY <1>1 DEF SelectInSeq
<1>3. \E i \in I : \A j \in I : i <= j
  <2>1. I \in SUBSET Nat
    OBVIOUS
  <2> HIDE DEF I
  <2> QED
    BY <1>1, <2>1, NatHasLeast
<1>4. Min(I) \in I
  <2> HIDE DEF I
  <2> QED
    BY <1>3 DEF Min
<1>5. PICK a \in 1 .. n : a = at /\ list[a] = x
  BY <1>2, <1>4
<1>6. RemoveFirst(list, x) = Without(list, a)
  BY <1>5 DEF RemoveFirst, RemoveAt, Without
<1>7. /\ Without(list, a) \in Seq(T) /\ Len(Without(list, a)) = n - 1
      /\ \A k \in 1 .. n - 1 : Without(list, a)[k] = IF k < a THEN list[k] ELSE list[k + 1]
  BY <1>5, WithoutEntry
<1>8. PICK r \in Seq(T) : r = Without(list, a)
  BY <1>7
<1> HIDE DEF at, I, n
<1>9. \A k \in 1 .. n - 1 : \E i \in 1 .. n : r[k] = list[i]
  <2> SUFFICES ASSUME NEW k \in 1 .. n - 1 PROVE \E i \in 1 .. n : r[k] = list[i]
    OBVIOUS
  <2>1. CASE k < a
    BY <1>1, <1>7, <1>8, <2>1
  <2>2. CASE ~ (k < a)
    <3>1. r[k] = list[k + 1] /\ k + 1 \in 1 .. n
      BY <1>1, <1>7, <1>8, <2>2
    <3> QED
      BY <3>1
  <2> QED
    BY <2>1, <2>2
<1>10. \A i \in 1 .. n : list[i] = x \/ \E k \in 1 .. n - 1 : r[k] = list[i]
  <2> SUFFICES ASSUME NEW i \in 1 .. n, i # a PROVE \E k \in 1 .. n - 1 : r[k] = list[i]
    BY <1>5
  <2>1. CASE i < a
    <3>1. i \in 1 .. n - 1
      BY <1>1, <2>1
    <3> QED
      BY <1>7, <1>8, <2>1, <3>1
  <2>2. CASE i > a
    <3>1. PICK k \in 1 .. n - 1 : k = i - 1 /\ ~ (k < a) /\ k + 1 = i
      <4>1. i - 1 \in 1 .. n - 1 /\ ~ (i - 1 < a) /\ i - 1 + 1 = i
        BY <1>1, <2>2
      <4> QED
        BY <4>1
    <3>2. r[k] = list[k + 1]
      BY <1>7, <1>8, <3>1
    <3> QED
      BY <3>1, <3>2
  <2> QED
    BY <1>1, <2>1, <2>2
<1> QED
  BY <1>6, <1>7, <1>8, <1>9, <1>10 DEF n

(* Links get their stamp when the server has them.                         *)
LEMMA StampedLinks ==
    ASSUME NEW links \in Seq(Link)
    PROVE  /\ Stamped(links) \in Seq(StampedLink) /\ Len(Stamped(links)) = Len(links)
           /\ \A i \in 1 .. Len(links) : /\ Stamped(links)[i].of = links[i].of
                                         /\ links[i] \in StampedLink => Stamped(links)[i] = links[i]
<1> DEFINE n == Len(links)  s == Stamped(links)
<1>1. n \in Nat /\ DOMAIN links = 1 .. n /\ \A i \in 1 .. n : links[i] \in Link
  OBVIOUS
<1>2. \A x \in Link : /\ [x EXCEPT !.stamped = TRUE] \in StampedLink
                      /\ [x EXCEPT !.stamped = TRUE].of = x.of
                      /\ x \in StampedLink => [x EXCEPT !.stamped = TRUE] = x
  BY DEF Link, StampedLink
<1>3. s = [i \in 1 .. n |-> [links[i] EXCEPT !.stamped = TRUE]]
  BY <1>1 DEF Stamped
<1> HIDE DEF s, n
<1>4. \A i \in 1 .. n : /\ s[i] \in StampedLink /\ s[i].of = links[i].of
                        /\ links[i] \in StampedLink => s[i] = links[i]
  BY <1>1, <1>2, <1>3
<1>5. s \in Seq(StampedLink) /\ Len(s) = n
  <2>1. s = [i \in 1 .. n |-> s[i]]
    BY <1>3
  <2> QED
    BY <1>1, <1>4, <2>1
<1> QED
  BY <1>4, <1>5 DEF s, n

LEMMA WikiBounds == MaxChanges \in Nat /\ WikiAtFirst \in [WikiUrns -> Seq(StampedLink)]
                    /\ \A urn \in WikiUrns : AllOf(WikiAtFirst[urn], urn)
<1>1. MaxChanges \in Nat /\ WikiAtFirst \in [WikiUrns -> Seq(Link)]
  BY WikiAssumption
<1>2. ASSUME NEW urn \in WikiUrns
      PROVE  WikiAtFirst[urn] \in Seq(StampedLink) /\ AllOf(WikiAtFirst[urn], urn)
  <2> DEFINE list == WikiAtFirst[urn]  n == Len(list)
  <2>1. list \in Seq(Link) /\ n \in Nat
    BY <1>1
  <2>2. \A i \in 1 .. n : list[i] \in Link /\ list[i].stamped /\ list[i].of = urn
    <3>1. \A i \in 1 .. n : list[i] \in ToSet(list)
      BY <2>1 DEF ToSet
    <3> QED
      BY <2>1, <3>1, WikiAssumption
  <2>3. \A i \in 1 .. n : list[i] \in StampedLink
    <3>1. \A x \in Link : x.stamped => x \in StampedLink
      BY DEF Link, StampedLink
    <3> QED
      BY <2>2, <3>1
  <2>4. list = [i \in 1 .. n |-> list[i]]
    BY <2>1
  <2> HIDE DEF list, n
  <2>5. list \in Seq(StampedLink)
    BY <2>1, <2>3, <2>4
  <2> QED
    BY <2>2, <2>5 DEF AllOf, list, n
<1> QED
  BY <1>1, <1>2

LEMMA WikiInitInv == WikiInit => WikiInv
<1> SUFFICES ASSUME WikiInit PROVE WikiInv
  OBVIOUS
<1>1. PICK urn \in WikiUrns : wikiUrn = urn
  BY DEF WikiInit
<1>2. PICK list \in Seq(StampedLink) : list = WikiAtFirst[urn] /\ AllOf(list, urn)
  BY WikiBounds
<1>3. /\ wikiStored = WikiAtFirst /\ institutionalMemories = <<>> /\ isRead = FALSE /\ wikiReads = <<list>>
      /\ wikiWrites = {} /\ isShowingModal = FALSE /\ typedUrl = "" /\ confirming = {}
      /\ nChanges = 0 /\ trouble = {}
  BY <1>1, <1>2 DEF WikiInit
<1>4. WikiTyped
  <2>1. <<list>> \in Seq(Seq(StampedLink)) /\ <<>> \in Seq(Link)
    OBVIOUS
  <2>2. nChanges \in 0 .. MaxChanges
    <3>1. PICK n \in Nat : n = MaxChanges
      BY WikiBounds
    <3>2. 0 \in 0 .. n
      OBVIOUS
    <3> QED
      BY <1>3, <3>1, <3>2
  <2> QED
    BY <1>1, <1>3, <2>1, <2>2, WikiBounds DEF WikiTyped
<1>5. /\ \A i \in 1 .. Len(wikiReads) : wikiReads[i] = list
      /\ \A i \in 1 .. Len(institutionalMemories) : FALSE
  <2>1. wikiReads = <<list>> /\ institutionalMemories = <<>>
    BY <1>3
  <2> QED
    BY <2>1
<1>6. LinksAreOwn
  BY <1>1, <1>2, <1>3, <1>5, WikiBounds DEF LinksAreOwn, AllOf
<1>7. ListsAreCurrent
  BY <1>1, <1>2, <1>3, <1>5 DEF ListsAreCurrent
<1> QED
  BY <1>4, <1>6, <1>7 DEF WikiInv

(* A page that shows a dataset reads its links.                            *)
LEMMA VisitKeepsWiki ==
    ASSUME WikiInv, NEW urn \in WikiUrns, VisitWiki(urn) PROVE WikiInv'
<1>1. PICK list \in Seq(StampedLink) : list = wikiStored[urn] /\ AllOf(list, urn)
  BY DEF WikiInv, WikiTyped, LinksAreOwn
<1>2. /\ wikiUrn' = urn /\ institutionalMemories' = <<>> /\ isRead' = FALSE /\ wikiReads' = <<list>>
      /\ UNCHANGED <<wikiStored, wikiWrites, isShowingModal, typedUrl, confirming, nChanges, removed, trouble>>
  BY <1>1 DEF VisitWiki
<1>3. /\ \A i \in 1 .. Len(wikiReads') : wikiReads'[i] = list
      /\ \A i \in 1 .. Len(institutionalMemories') : FALSE
  BY <1>2
<1>4. WikiTyped'
  <2>1. <<list>> \in Seq(Seq(StampedLink)) /\ <<>> \in Seq(Link)
    OBVIOUS
  <2> QED
    BY <1>2, <2>1 DEF WikiInv, WikiTyped
<1>5. LinksAreOwn'
  BY <1>1, <1>2, <1>3 DEF WikiInv, LinksAreOwn, AllOf
<1>6. ListsAreCurrent'
  BY <1>1, <1>2, <1>3 DEF WikiInv, ListsAreCurrent, Untroubled, LacksOnlyRemoved
<1> QED
  BY <1>4, <1>5, <1>6 DEF WikiInv

(* A list with one entry less: where its entries come from.                *)
EntriesOf(rest, list, T) ==
    rest \in Seq(T) /\ \A k \in 1 .. Len(rest) : \E j \in 1 .. Len(list) : rest[k] = list[j]

LEMMA WithoutOne ==
    ASSUME NEW T, NEW list \in Seq(T), NEW i \in 1 .. Len(list)
    PROVE  EntriesOf(RemoveAt(list, i), list, T)
<1> DEFINE n == Len(list)
<1>1. RemoveAt(list, i) = Without(list, i)
  BY DEF RemoveAt, Without
<1>2. PICK r \in Seq(T) : /\ r = Without(list, i) /\ Len(r) = n - 1
                          /\ \A k \in 1 .. n - 1 : r[k] = IF k < i THEN list[k] ELSE list[k + 1]
  <2>1. /\ Without(list, i) \in Seq(T) /\ Len(Without(list, i)) = n - 1
        /\ \A k \in 1 .. n - 1 : Without(list, i)[k] = IF k < i THEN list[k] ELSE list[k + 1]
    BY WithoutEntry
  <2> QED
    BY <2>1
<1>3. n \in Nat
  OBVIOUS
<1>4. \A k \in 1 .. n - 1 : k \in 1 .. n /\ k + 1 \in 1 .. n
  BY <1>3
<1> HIDE DEF n
<1>5. \A k \in 1 .. n - 1 : \E j \in 1 .. n : r[k] = list[j]
  BY <1>2, <1>4
<1> QED
  BY <1>1, <1>2, <1>5 DEF n, EntriesOf

(* What is read for the page is of its dataset, whenever it is answered.   *)
LEMMA ReadEndKeepsWiki ==
    ASSUME WikiInv, NEW i \in DOMAIN wikiReads, WikiReadEnds(i) PROVE WikiInv'
<1>1. wikiReads \in Seq(Seq(StampedLink)) /\ wikiUrn \in WikiUrns /\ i \in 1 .. Len(wikiReads)
  <2>1. wikiReads \in Seq(Seq(StampedLink)) /\ wikiUrn \in WikiUrns
    BY DEF WikiInv, WikiTyped
  <2> QED
    BY <2>1
<1>2. PICK rest \in Seq(Seq(StampedLink)) : 
        /\ rest = RemoveAt(wikiReads, i)
        /\ \A k \in 1 .. Len(rest) : \E j \in 1 .. Len(wikiReads) : rest[k] = wikiReads[j]
  <2> DEFINE T == Seq(StampedLink)
  <2> HIDE DEF T
  <2>1. wikiReads \in Seq(T) /\ i \in 1 .. Len(wikiReads)
    BY <1>1 DEF T
  <2>2. EntriesOf(RemoveAt(wikiReads, i), wikiReads, T)
    BY <2>1, WithoutOne, Zenon
  <2> QED
    BY <2>2 DEF T, EntriesOf
<1>3. PICK list \in Seq(StampedLink) : /\ list = institutionalMemories' /\ AllOf(list, wikiUrn)
                                       /\ list \in {wikiReads[i], wikiStored[wikiUrn]}
  <2>1. wikiReads[i] \in Seq(StampedLink) /\ AllOf(wikiReads[i], wikiUrn)
    BY <1>1 DEF WikiInv, LinksAreOwn
  <2>2. wikiStored[wikiUrn] \in Seq(StampedLink) /\ AllOf(wikiStored[wikiUrn], wikiUrn)
    BY DEF WikiInv, WikiTyped, LinksAreOwn
  <2> QED
    BY <2>1, <2>2 DEF WikiReadEnds
<1>4. /\ wikiReads' = rest /\ institutionalMemories' = list /\ isRead' = TRUE
      /\ UNCHANGED <<wikiUrn, wikiStored, wikiWrites, isShowingModal, typedUrl, confirming, nChanges, removed, trouble>>
  BY <1>2, <1>3 DEF WikiReadEnds
<1>5. WikiTyped'
  <2>1. StampedLink \subseteq Link
    BY DEF StampedLink, Link
  <2>2. list \in Seq(Link)
    BY <2>1
  <2> QED
    BY <1>4, <2>2 DEF WikiInv, WikiTyped
<1>6. LinksAreOwn'
  <2>1. \A k \in 1 .. Len(rest) : AllOf(rest[k], wikiUrn)
    BY <1>2 DEF WikiInv, LinksAreOwn
  <2> QED
    BY <1>3, <1>4, <2>1 DEF WikiInv, LinksAreOwn, AllOf
<1>7. ListsAreCurrent'
  <2> SUFFICES ASSUME Untroubled'
               PROVE  /\ \A k \in 1 .. Len(wikiReads') : wikiReads'[k] = wikiStored'[wikiUrn']
                      /\ institutionalMemories' = wikiStored'[wikiUrn']
                      /\ \A w \in wikiWrites' : LacksOnlyRemoved(w.links, w.urn)'
    BY DEF ListsAreCurrent
  <2>1. Untroubled
    BY <1>4 DEF Untroubled
  <2>2. /\ \A k \in 1 .. Len(wikiReads) : wikiReads[k] = wikiStored[wikiUrn]
        /\ \A w \in wikiWrites : LacksOnlyRemoved(w.links, w.urn)
    BY <2>1 DEF WikiInv, ListsAreCurrent
  <2>3. \A w \in wikiWrites : LacksOnlyRemoved(w.links, w.urn)'
    BY <1>4, <2>2 DEF LacksOnlyRemoved
  <2>4. list = wikiStored[wikiUrn]
    BY <1>1, <1>3, <2>2
  <2>5. \A k \in 1 .. Len(rest) : rest[k] = wikiStored[wikiUrn]
    BY <1>2, <2>2
  <2> QED
    BY <1>4, <2>3, <2>4, <2>5
<1> QED
  BY <1>5, <1>6, <1>7 DEF WikiInv

(* A failure leaves the lists as they are.                                 *)
LEMMA ReadFailKeepsWiki ==
    ASSUME WikiInv, NEW i \in DOMAIN wikiReads, WikiReadFails(i) PROVE WikiInv'
<1>1. wikiReads \in Seq(Seq(StampedLink)) /\ i \in 1 .. Len(wikiReads)
  <2>1. wikiReads \in Seq(Seq(StampedLink))
    BY DEF WikiInv, WikiTyped
  <2> QED
    BY <2>1
<1>2. PICK rest \in Seq(Seq(StampedLink)) : 
        /\ rest = RemoveAt(wikiReads, i)
        /\ \A k \in 1 .. Len(rest) : \E j \in 1 .. Len(wikiReads) : rest[k] = wikiReads[j]
  <2> DEFINE T == Seq(StampedLink)
  <2> HIDE DEF T
  <2>1. wikiReads \in Seq(T) /\ i \in 1 .. Len(wikiReads)
    BY <1>1 DEF T
  <2>2. EntriesOf(RemoveAt(wikiReads, i), wikiReads, T)
    BY <2>1, WithoutOne, Zenon
  <2> QED
    BY <2>2 DEF T, EntriesOf
<1>3. /\ wikiReads' = rest /\ trouble' = trouble \cup {"failed"}
      /\ UNCHANGED <<wikiUrn, wikiStored, institutionalMemories, isRead, wikiWrites, isShowingModal, typedUrl, confirming, nChanges, removed>>
  BY <1>2 DEF WikiReadFails
<1>4. WikiTyped'
  BY <1>3 DEF WikiInv, WikiTyped
<1>5. LinksAreOwn'
  <2>1. \A k \in 1 .. Len(rest) : AllOf(rest[k], wikiUrn)
    BY <1>2 DEF WikiInv, LinksAreOwn
  <2> QED
    BY <1>3, <2>1 DEF WikiInv, LinksAreOwn, AllOf
<1>6. ListsAreCurrent'
  BY <1>3 DEF ListsAreCurrent, Untroubled
<1> QED
  BY <1>4, <1>5, <1>6 DEF WikiInv

LEMMA WriteFailKeepsWiki ==
    ASSUME WikiInv, NEW write \in wikiWrites, WikiWriteFails(write) PROVE WikiInv'
<1>1. /\ wikiWrites' = {} /\ trouble' = trouble \cup {"failed"}
      /\ UNCHANGED <<wikiUrn, wikiStored, institutionalMemories, isRead, wikiReads, isShowingModal, typedUrl, confirming, nChanges, removed>>
  BY DEF WikiWriteFails
<1>2. WikiTyped'
  BY <1>1 DEF WikiInv, WikiTyped
<1>3. LinksAreOwn'
  BY <1>1 DEF WikiInv, LinksAreOwn, AllOf
<1>4. ListsAreCurrent'
  BY <1>1 DEF ListsAreCurrent, Untroubled
<1> QED
  BY <1>2, <1>3, <1>4 DEF WikiInv

(* The dialogs change nothing but themselves.                              *)
LEMMA DialogKeepsWiki ==
    ASSUME WikiInv,
           OnAddLink \/ OnCancelAddLink \/ DismissRemoval \/ (\E url \in WikiUrls : TypeUrl(url))
             \/ (\E link \in ToSet(institutionalMemories) : OnRemoveLink(link)) \/ UNCHANGED wikiVars
    PROVE  WikiInv'
<1>1. UNCHANGED <<wikiUrn, wikiStored, institutionalMemories, isRead, wikiReads, wikiWrites, nChanges, removed, trouble>>
  BY DEF OnAddLink, OnCancelAddLink, DismissRemoval, TypeUrl, OnRemoveLink, wikiVars
<1>2. /\ isShowingModal' \in BOOLEAN /\ typedUrl' \in WikiUrls \cup {""} /\ (~ isShowingModal' => typedUrl' = "")
      /\ confirming' \subseteq Link /\ \A c, d \in confirming' : c = d
  <2>1. ToSet(institutionalMemories) \subseteq Link
    <3>1. institutionalMemories \in Seq(Link)
      BY DEF WikiInv, WikiTyped
    <3> QED
      BY <3>1 DEF ToSet
  <2> QED
    BY <2>1 DEF WikiInv, WikiTyped, OnAddLink, OnCancelAddLink, DismissRemoval, TypeUrl, OnRemoveLink, wikiVars
<1>3. WikiTyped'
  BY <1>1, <1>2 DEF WikiInv, WikiTyped
<1>4. LinksAreOwn'
  BY <1>1 DEF WikiInv, LinksAreOwn, AllOf
<1>5. ListsAreCurrent'
  BY <1>1 DEF WikiInv, ListsAreCurrent, Untroubled, LacksOnlyRemoved
<1> QED
  BY <1>3, <1>4, <1>5 DEF WikiInv

(* What is written of the list has all of it that was not removed, and is  *)
(* written with the dataset whose links they are.                          *)
LEMMA WriteStartKeepsWiki ==
    ASSUME WikiInv, NEW list \in Seq(Link), AllOf(list, wikiUrn), isRead, institutionalMemories' = list,
           WriteContainerData(list), removed \subseteq removed',
           \A i \in 1 .. Len(institutionalMemories) :
              \/ \E k \in 1 .. Len(list) : list[k] = institutionalMemories[i]
              \/ <<wikiUrn, institutionalMemories[i].url>> \in removed',
           confirming' \subseteq confirming,
           UNCHANGED <<wikiUrn, wikiStored, isRead, wikiReads, isShowingModal, typedUrl>>
    PROVE  WikiInv'
<1>1. PICK urn \in WikiUrns : urn = wikiUrn
  BY DEF WikiInv, WikiTyped
<1>2. PICK write \in WikiWrite : write.urn = urn /\ write.links = list /\ write = [urn |-> urn, links |-> list]
  <2>1. [urn |-> urn, links |-> list] \in WikiWrite
    BY DEF WikiWrite
  <2> QED
    BY <2>1
<1>3. /\ nChanges < MaxChanges /\ nChanges' = nChanges + 1
      /\ wikiWrites' = IF wikiWrites = {} THEN {write} ELSE wikiWrites
      /\ trouble' = trouble \cup (IF wikiWrites # {} THEN {"dropped"} ELSE IF wikiReads # <<>> THEN {"raced"} ELSE {})
  BY <1>1, <1>2 DEF WriteContainerData
<1>4. WikiTyped'
  <2>1. nChanges' \in 0 .. MaxChanges
    <3>1. PICK n \in Nat : n = MaxChanges
      BY WikiBounds
    <3>2. nChanges \in 0 .. n /\ nChanges < n
      BY <1>3, <3>1 DEF WikiInv, WikiTyped
    <3> QED
      BY <1>3, <3>1, <3>2
  <2>2. trouble' \subseteq {"raced", "failed", "dropped"}
    BY <1>3 DEF WikiInv, WikiTyped
  <2>3. wikiWrites' \subseteq WikiWrite /\ \A w, v \in wikiWrites' : w = v
    BY <1>3 DEF WikiInv, WikiTyped
  <2> QED
    BY <2>1, <2>2, <2>3 DEF WikiInv, WikiTyped
<1>5. LinksAreOwn'
  <2>1. \A w \in wikiWrites' : AllOf(w.links, w.urn)
    BY <1>1, <1>2, <1>3 DEF WikiInv, LinksAreOwn
  <2> QED
    BY <2>1 DEF WikiInv, LinksAreOwn, AllOf
<1>6. ListsAreCurrent'
  <2> SUFFICES ASSUME Untroubled'
               PROVE  /\ \A k \in 1 .. Len(wikiReads') : wikiReads'[k] = wikiStored'[wikiUrn']
                      /\ wikiWrites' # {}
                      /\ \A w \in wikiWrites' : LacksOnlyRemoved(w.links, w.urn)'
    BY DEF ListsAreCurrent
  <2>1. Untroubled
    BY <1>3 DEF Untroubled
  <2>2. /\ \A k \in 1 .. Len(wikiReads) : wikiReads[k] = wikiStored[wikiUrn]
        /\ \A w \in wikiWrites : LacksOnlyRemoved(w.links, w.urn)
    BY <2>1 DEF WikiInv, ListsAreCurrent
  <2>3. \A w \in wikiWrites : LacksOnlyRemoved(w.links, w.urn)'
    BY <2>2 DEF LacksOnlyRemoved
  <2>4. ASSUME wikiWrites = {} PROVE LacksOnlyRemoved(list, urn)'
    <3>1. wikiReads = <<>>
      BY <1>3, <2>4 DEF Untroubled
    <3>2. institutionalMemories = wikiStored[wikiUrn]
      BY <2>1, <2>4, <3>1 DEF WikiInv, ListsAreCurrent
    <3>3. wikiStored[urn] = institutionalMemories /\ wikiStored' = wikiStored
      BY <1>1, <3>2
    <3> QED
      BY <1>1, <3>3 DEF LacksOnlyRemoved
  <2>5. wikiWrites' # {} /\ \A w \in wikiWrites' : w \in wikiWrites \/ (wikiWrites = {} /\ w = write)
    BY <1>3
  <2> QED
    BY <1>2, <2>2, <2>3, <2>4, <2>5
<1> QED
  BY <1>4, <1>5, <1>6 DEF WikiInv

LEMMA AddKeepsWiki ==
    ASSUME WikiInv, OnSaveLink PROVE WikiInv'
<1>1. PICK shown \in Seq(Link) : shown = institutionalMemories
  BY DEF WikiInv, WikiTyped
<1>2. PICK link \in Link : link = NewLink(typedUrl) /\ link.of = wikiUrn
  <2>1. typedUrl \in WikiUrls \cup {""} /\ wikiUrn \in WikiUrns
    BY DEF WikiInv, WikiTyped
  <2>2. NewLink(typedUrl) \in Link /\ NewLink(typedUrl).of = wikiUrn
    BY <2>1 DEF NewLink, Link
  <2> QED
    BY <2>2
<1>3. PICK list \in Seq(Link) : 
        /\ list = Append(shown, link) /\ Len(list) = Len(shown) + 1 /\ list[Len(shown) + 1] = link
        /\ \A i \in 1 .. Len(shown) : list[i] = shown[i]
  <2>1. /\ Append(shown, link) \in Seq(Link) /\ Len(Append(shown, link)) = Len(shown) + 1
        /\ Append(shown, link)[Len(shown) + 1] = link
        /\ \A i \in 1 .. Len(shown) : Append(shown, link)[i] = shown[i]
    OBVIOUS
  <2> QED
    BY <2>1
<1>4. /\ isRead /\ institutionalMemories' = list /\ WriteContainerData(list)
      /\ UNCHANGED <<wikiUrn, wikiStored, isRead, wikiReads, isShowingModal, typedUrl, confirming, removed>>
  BY <1>1, <1>2, <1>3 DEF OnSaveLink, AddInstitutionalMemoryLink
<1>5. AllOf(list, wikiUrn)
  <2>1. AllOf(shown, wikiUrn)
    BY <1>1 DEF WikiInv, LinksAreOwn
  <2>2. \A i \in 1 .. Len(list) : i \in 1 .. Len(shown) \/ i = Len(shown) + 1
    BY <1>3
  <2> QED
    BY <1>2, <1>3, <2>1, <2>2 DEF AllOf
<1>6. \A i \in 1 .. Len(institutionalMemories) : \E k \in 1 .. Len(list) : list[k] = institutionalMemories[i]
  <2>1. \A i \in 1 .. Len(shown) : i \in 1 .. Len(list)
    BY <1>3
  <2> QED
    BY <1>1, <1>3, <2>1
<1> QED
  BY <1>4, <1>5, <1>6, WriteStartKeepsWiki

LEMMA RemoveKeepsWiki ==
    ASSUME WikiInv, NEW link \in confirming, RemoveInstitutionalMemoryLink(link) PROVE WikiInv'
<1>1. PICK shown \in Seq(Link) : shown = institutionalMemories /\ AllOf(shown, wikiUrn)
  BY DEF WikiInv, WikiTyped, LinksAreOwn
<1>2. confirming' = {} /\ UNCHANGED <<wikiUrn, wikiStored, isRead, wikiReads, isShowingModal, typedUrl>>
  BY DEF RemoveInstitutionalMemoryLink
<1>3. CASE isRead /\ link \in ToSet(institutionalMemories)
  <2>1. PICK i \in 1 .. Len(shown) : shown[i] = link
    BY <1>1, <1>3 DEF ToSet
  <2>2. link \in Link /\ link.of = wikiUrn
    <3>1. shown[i] \in Link
      OBVIOUS
    <3> QED
      BY <1>1, <2>1, <3>1 DEF AllOf
  <2>3. PICK list \in Seq(Link) : 
          /\ list = RemoveFirst(shown, link)
          /\ \A k \in 1 .. Len(list) : \E j \in 1 .. Len(shown) : list[k] = shown[j]
          /\ \A j \in 1 .. Len(shown) : shown[j] = link \/ \E k \in 1 .. Len(list) : list[k] = shown[j]
    <3>1. /\ RemoveFirst(shown, link) \in Seq(Link)
          /\ \A k \in 1 .. Len(RemoveFirst(shown, link)) : \E j \in 1 .. Len(shown) : RemoveFirst(shown, link)[k] = shown[j]
          /\ \A j \in 1 .. Len(shown) : shown[j] = link \/ \E k \in 1 .. Len(RemoveFirst(shown, link)) : RemoveFirst(shown, link)[k] = shown[j]
      BY <2>1, <2>2, RemovedFirst
    <3> QED
      BY <3>1
  <2>4. /\ isRead /\ institutionalMemories' = list /\ WriteContainerData(list)
        /\ removed' = removed \cup {<<link.of, link.url>>}
    BY <1>1, <1>3, <2>3 DEF RemoveInstitutionalMemoryLink
  <2>5. AllOf(list, wikiUrn)
    BY <1>1, <2>3 DEF AllOf
  <2>6. \A j \in 1 .. Len(institutionalMemories) :
              \/ \E k \in 1 .. Len(list) : list[k] = institutionalMemories[j]
              \/ <<wikiUrn, institutionalMemories[j].url>> \in removed'
    BY <1>1, <2>2, <2>3, <2>4
  <2> QED
    BY <1>2, <2>4, <2>5, <2>6, WriteStartKeepsWiki
<1>4. CASE ~ (isRead /\ link \in ToSet(institutionalMemories))
  <2>1. UNCHANGED <<institutionalMemories, wikiWrites, nChanges, removed, trouble>>
    BY <1>4 DEF RemoveInstitutionalMemoryLink
  <2>2. WikiTyped'
    BY <1>2, <2>1 DEF WikiInv, WikiTyped
  <2>3. LinksAreOwn'
    BY <1>2, <2>1 DEF WikiInv, LinksAreOwn, AllOf
  <2>4. ListsAreCurrent'
    BY <1>2, <2>1 DEF WikiInv, ListsAreCurrent, Untroubled, LacksOnlyRemoved
  <2> QED
    BY <2>2, <2>3, <2>4 DEF WikiInv
<1> QED
  BY <1>3, <1>4

(* A list with one entry more: where its entries come from.                *)
OneMore(more, list, x) ==
    /\ more # <<>>
    /\ \A i \in 1 .. Len(more) : more[i] = x \/ \E j \in 1 .. Len(list) : more[i] = list[j]
    /\ list = <<>> => \A i \in 1 .. Len(more) : more[i] = x

LEMMA AppendedOneMore ==
    ASSUME NEW T, NEW list \in Seq(T), NEW x \in T PROVE OneMore(Append(list, x), list, x)
<1> DEFINE more == Append(list, x)
<1>1. /\ Len(more) = Len(list) + 1 /\ more[Len(list) + 1] = x /\ more # <<>>
      /\ \A i \in 1 .. Len(list) : more[i] = list[i]
  OBVIOUS
<1>2. Len(list) \in Nat /\ (list = <<>> => Len(list) = 0)
  OBVIOUS
<1> HIDE DEF more
<1>3. \A i \in 1 .. Len(more) : i \in 1 .. Len(list) \/ i = Len(list) + 1
  BY <1>1, <1>2
<1> QED
  BY <1>1, <1>2, <1>3 DEF OneMore, more

(* The server keeps what was written, and the page reads it again.         *)
LEMMA WrittenKeepsWiki ==
    ASSUME WikiInv, NEW write \in wikiWrites, WriteInstitutionalMemory(write) PROVE WikiInv'
<1>1. PICK urn \in WikiUrns : urn = write.urn
  BY DEF WikiInv, WikiTyped, WikiWrite
<1>2. PICK links \in Seq(Link) : links = write.links /\ AllOf(links, urn)
  BY <1>1 DEF WikiInv, WikiTyped, WikiWrite, LinksAreOwn
<1>3. PICK list \in Seq(StampedLink) :
        /\ list = Stamped(links) /\ AllOf(list, urn)
  <2>1. /\ Stamped(links) \in Seq(StampedLink) /\ Len(Stamped(links)) = Len(links)
        /\ \A i \in 1 .. Len(links) : Stamped(links)[i].of = links[i].of
    BY StampedLinks
  <2>2. AllOf(Stamped(links), urn)
    BY <1>2, <2>1 DEF AllOf
  <2> QED
    BY <2>1, <2>2
<1>4. PICK server \in [WikiUrns -> Seq(StampedLink)] :
        /\ server = [wikiStored EXCEPT ![urn] = list]
        /\ \A u \in WikiUrns : AllOf(server[u], u)
  <2>1. [wikiStored EXCEPT ![urn] = list] \in [WikiUrns -> Seq(StampedLink)]
    BY DEF WikiInv, WikiTyped
  <2>2. \A u \in WikiUrns : AllOf([wikiStored EXCEPT ![urn] = list][u], u)
    BY <1>3 DEF WikiInv, WikiTyped, LinksAreOwn
  <2> QED
    BY <2>1, <2>2
<1>5. PICK read \in Seq(StampedLink) : read = server[wikiUrn] /\ AllOf(read, wikiUrn)
  BY <1>4 DEF WikiInv, WikiTyped
<1>6. PICK asked \in Seq(Seq(StampedLink)) : asked = wikiReads
  BY DEF WikiInv, WikiTyped
<1>7. PICK reads2 \in Seq(Seq(StampedLink)) : reads2 = Append(asked, read) /\ OneMore(reads2, asked, read)
  <2> DEFINE T == Seq(StampedLink)
  <2> HIDE DEF T
  <2>1. asked \in Seq(T) /\ read \in T
    BY DEF T
  <2>2. Append(asked, read) \in Seq(T)
    BY <2>1
  <2>3. OneMore(Append(asked, read), asked, read)
    BY <2>1, AppendedOneMore, Zenon
  <2> QED
    BY <2>2, <2>3 DEF T
<1>8. /\ wikiStored' = server /\ wikiWrites' = {} /\ wikiReads' = reads2
      /\ trouble' = IF wikiReads = <<>> THEN trouble ELSE trouble \cup {"raced"}
      /\ UNCHANGED <<wikiUrn, institutionalMemories, isRead, isShowingModal, typedUrl, confirming, nChanges, removed>>
  <2>1. wikiStored' = server
    BY <1>1, <1>2, <1>3, <1>4 DEF WriteInstitutionalMemory
  <2>2. wikiReads' = Append(wikiReads, wikiStored'[wikiUrn])
    BY DEF WriteInstitutionalMemory, ReadInstitutionalMemory
  <2> QED
    BY <1>5, <1>6, <1>7, <2>1, <2>2 DEF WriteInstitutionalMemory, ReadInstitutionalMemory
<1>9. WikiTyped'
  BY <1>8 DEF WikiInv, WikiTyped
<1>10. LinksAreOwn'
  <2>1. \A i \in 1 .. Len(reads2) : AllOf(reads2[i], wikiUrn)
    BY <1>5, <1>6, <1>7 DEF WikiInv, LinksAreOwn, OneMore
  <2> QED
    BY <1>4, <1>8, <2>1 DEF WikiInv, LinksAreOwn, AllOf
<1>11. ListsAreCurrent'
  <2> SUFFICES ASSUME Untroubled'
               PROVE  /\ \A k \in 1 .. Len(wikiReads') : wikiReads'[k] = wikiStored'[wikiUrn']
                      /\ wikiReads' # <<>> /\ wikiWrites' = {}
    BY DEF ListsAreCurrent
  <2>1. asked = <<>>
    BY <1>6, <1>8 DEF Untroubled
  <2> QED
    BY <1>5, <1>7, <1>8, <2>1 DEF OneMore
<1> QED
  BY <1>9, <1>10, <1>11 DEF WikiInv

LEMMA WikiInvStep == WikiInv /\ [WikiNext]_wikiVars => WikiInv'
BY VisitKeepsWiki, ReadEndKeepsWiki, ReadFailKeepsWiki, WriteFailKeepsWiki, DialogKeepsWiki,
   AddKeepsWiki, RemoveKeepsWiki, WrittenKeepsWiki DEF WikiNext

LEMMA WikiInvIsSafe ==
    ASSUME WikiInv PROVE WikiTypeOK /\ LinksOfOwnDataset /\ ShowsWhatIsStored
<1>1. ASSUME NEW urn \in WikiUrns, NEW link \in ToSet(wikiStored[urn])
      PROVE  link \in StampedLink /\ link.of = urn
  <2>1. PICK list \in Seq(StampedLink) : list = wikiStored[urn] /\ AllOf(list, urn)
    BY DEF WikiInv, WikiTyped, LinksAreOwn
  <2>2. PICK i \in 1 .. Len(list) : link = list[i]
    BY <2>1 DEF ToSet
  <2>3. list[i] \in StampedLink
    OBVIOUS
  <2> QED
    BY <2>1, <2>2, <2>3 DEF AllOf
<1>2. LinksOfOwnDataset
  BY <1>1 DEF LinksOfOwnDataset
<1>3. ASSUME NEW S, \A c, d \in S : c = d PROVE Cardinality(S) <= 1
  <2>1. CASE S = {}
    BY <2>1, FS_EmptySet
  <2>2. CASE S # {}
    <3>1. PICK c : S = {c}
      BY <1>3, <2>2
    <3>2. Cardinality(S) = 1
      BY <3>1, FS_Singleton
    <3> QED
      BY <3>2
  <2> QED
    BY <2>1, <2>2
<1>4. WikiTypeOK
  <2>1. ToSet(institutionalMemories) \subseteq Link
    <3>1. institutionalMemories \in Seq(Link)
      BY DEF WikiInv, WikiTyped
    <3> QED
      BY <3>1 DEF ToSet
  <2>2. \A urn \in WikiUrns : ToSet(wikiStored[urn]) \subseteq [url : WikiUrls \cup {""}, of : WikiUrns, stamped : {TRUE}]
    BY <1>1 DEF StampedLink
  <2>3. Cardinality(wikiWrites) <= 1 /\ Cardinality(confirming) <= 1
    BY <1>3 DEF WikiInv, WikiTyped
  <2>4. wikiWrites \subseteq [urn : WikiUrns, links : {w.links : w \in wikiWrites}]
    BY DEF WikiInv, WikiTyped, WikiWrite
  <2> QED
    BY <2>1, <2>2, <2>3, <2>4 DEF WikiInv, WikiTyped, WikiTypeOK
<1>5. ShowsWhatIsStored
  BY DEF WikiInv, ListsAreCurrent, Untroubled, ShowsWhatIsStored
<1> QED
  BY <1>2, <1>4, <1>5

\* No step loses a link of the server that the user did not remove.
LosesNoLink ==
    trouble \cap {"raced", "failed"} = {}
      => \A urn \in WikiUrns : \A link \in ToSet(wikiStored[urn]) :
           link \in ToSet(wikiStored'[urn]) \/ <<urn, link.url>> \in removed

LEMMA WritesLoseNothing ==
    ASSUME WikiInv, NEW write \in wikiWrites, WriteInstitutionalMemory(write) PROVE LosesNoLink
<1> SUFFICES ASSUME Untroubled, NEW urn \in WikiUrns, NEW link \in ToSet(wikiStored[urn])
             PROVE  link \in ToSet(wikiStored'[urn]) \/ <<urn, link.url>> \in removed
  BY DEF LosesNoLink, Untroubled
<1>1. wikiStored \in [WikiUrns -> Seq(StampedLink)] /\ wikiStored' = [wikiStored EXCEPT ![write.urn] = Stamped(write.links)]
  BY DEF WriteInstitutionalMemory, WikiInv, WikiTyped
<1>2. CASE urn # write.urn
  BY <1>1, <1>2
<1>3. CASE urn = write.urn
  <2>1. PICK links \in Seq(Link) : links = write.links /\ LacksOnlyRemoved(links, urn)
    BY <1>3 DEF WikiInv, WikiTyped, WikiWrite, ListsAreCurrent
  <2>2. PICK list \in Seq(StampedLink) : list = wikiStored[urn]
    BY <1>1
  <2>3. PICK i \in 1 .. Len(list) : link = list[i] /\ link \in StampedLink
    BY <2>2 DEF ToSet
  <2>4. \/ \E k \in 1 .. Len(links) : links[k] = link
        \/ <<urn, link.url>> \in removed
    BY <2>1, <2>2, <2>3 DEF LacksOnlyRemoved
  <2>5. ASSUME NEW k \in 1 .. Len(links), links[k] = link PROVE link \in ToSet(wikiStored'[urn])
    <3>1. PICK new \in Seq(StampedLink) : new = Stamped(links) /\ Len(new) = Len(links) /\ new[k] = links[k]
      <4>1. /\ Stamped(links) \in Seq(StampedLink) /\ Len(Stamped(links)) = Len(links)
            /\ Stamped(links)[k] = links[k]
        BY <2>3, <2>5, StampedLinks
      <4> QED
        BY <4>1
    <3>2. wikiStored'[urn] = new
      BY <1>1, <1>3, <2>1, <3>1
    <3> QED
      BY <2>5, <3>1, <3>2 DEF ToSet
  <2> QED
    BY <2>4, <2>5
<1> QED
  BY <1>2, <1>3

LEMMA NothingIsLost == WikiInv /\ WikiNext => LosesNoLink
<1> SUFFICES ASSUME WikiInv, WikiNext PROVE LosesNoLink
  OBVIOUS
<1>1. CASE \E write \in wikiWrites : WriteInstitutionalMemory(write)
  BY <1>1, WritesLoseNothing
<1>2. CASE ~ \E write \in wikiWrites : WriteInstitutionalMemory(write)
  <2>1. UNCHANGED wikiStored
    BY <1>2 DEF WikiNext, VisitWiki, WikiReadEnds, WikiReadFails, OnAddLink, OnCancelAddLink, DismissRemoval, TypeUrl,
       OnSaveLink, AddInstitutionalMemoryLink, OnRemoveLink, RemoveInstitutionalMemoryLink, WikiWriteFails
  <2> QED
    BY <2>1 DEF LosesNoLink
<1> QED
  BY <1>1, <1>2

(* The links of a dataset are read, shown and written with that dataset,   *)
(* and as long as no read raced a write and no request failed, a write     *)
(* loses no link the user did not remove and the list shown is the list    *)
(* the server has (institutional-memory of dataset-entity.ts and its tab). *)
THEOREM WikiLinksStay == WikiSpec => LinksStayWithDataset
<1>1. WikiInit => WikiInv
  BY WikiInitInv
<1>2. WikiInv /\ [WikiNext]_wikiVars => WikiInv'
  BY WikiInvStep
<1>3. WikiInv => WikiTypeOK /\ LinksOfOwnDataset /\ ShowsWhatIsStored
  BY WikiInvIsSafe
<1>4. WikiInv /\ [WikiNext]_wikiVars => [LosesNoLink]_wikiVars
  BY NothingIsLost
<1>5. WikiSpec => [](WikiTypeOK /\ LinksOfOwnDataset /\ ShowsWhatIsStored)
  BY <1>1, <1>2, <1>3, PTL DEF WikiSpec
<1>6. WikiSpec => [][LosesNoLink]_wikiVars
  BY <1>1, <1>2, <1>4, PTL DEF WikiSpec
<1>7. KeepsLinks <=> [][LosesNoLink]_wikiVars
  BY PTL DEF KeepsLinks, LosesNoLink
<1> QED
  BY <1>5, <1>6, <1>7 DEF LinksStayWithDataset

-----------------------------------------------------------------------------
(***************************************************************************)
(* Side by side, each component behaves as it does by itself.              *)
(***************************************************************************)

LEMMA WebStepIsStep ==
    [WebNext]_webVars => /\ [OwnNext]_ownVars /\ [PageNext]_pageVars /\ [LineageNext]_lineageVars
                         /\ [DeprNext]_deprVars /\ [WikiNext]_wikiVars /\ [UrnsNext]_urnVars
<1> SUFFICES ASSUME [WebNext]_webVars
             PROVE  /\ [OwnNext]_ownVars /\ [PageNext]_pageVars /\ [LineageNext]_lineageVars
                    /\ [DeprNext]_deprVars /\ [WikiNext]_wikiVars /\ [UrnsNext]_urnVars
  OBVIOUS
<1>1. HeaderNext => OwnNext
  BY DEF HeaderNext, OwnNext
<1> QED
  BY <1>1 DEF WebNext, webVars

(* The deprecation and the wiki links the user edits are said of the       *)
(* dataset of the page and stay, beside everything else the page does.     *)
THEOREM EditsStay ==
    ASSUME DeprecatedAtFirst PROVE WebSpec => EditsStayWithDataset
<1>1. WebInit => DeprInit /\ WikiInit
  BY DEF WebInit
<1>2. WebSpec => DeprSpec /\ WikiSpec
  BY <1>1, WebStepIsStep, PTL DEF WebSpec, DeprSpec, WikiSpec
<1> QED
  BY <1>2, FormStaysOfDataset, WikiLinksStay DEF EditsStayWithDataset

-----------------------------------------------------------------------------
(***************************************************************************)
(* The page of a dataset.  The last read a container began is one of the   *)
(* dataset of the page; when none is under way, what it shows is what the  *)
(* last read ended with, unless reads ended out of their order.            *)
(***************************************************************************)

PageTyped ==
    /\ container \in PageContainers
    /\ datasetPage \in PageDatasets \cup {"notFound", "error", "away"} /\ target \in PageDatasets \cup {"none"}
    /\ routeReads \subseteq PageDatasets /\ target \in routeReads \cup {"none"}
    /\ searchEntity \in {"datasets", "people"} /\ tabSelected \in DatasetTabs
    /\ containerReads \in Seq(PageDatasets) /\ Len(containerReads) <= MaxPageReads
    /\ containerData \in PageDatasets \cup {"none"}
    /\ relationshipsCached \in BOOLEAN /\ lastFailed \in BOOLEAN /\ overtook \in BOOLEAN
    /\ lateRead \in BOOLEAN /\ showAllRelationships \in BOOLEAN

ReadsOneAtATime == IsRestartable => Len(containerReads) <= 1

\* What an ended read leaves on the page: its own data, or nothing, or the old data where the
\* container has no place for an error.
IsAnswerOf(data, failed, u) ==
    data \in {u, "none"} \/ (failed /\ container \in {"snapshot", "upstreamOwners"})

LastReadIsOfPage ==
    (overtook => IsRestartable) /\ IsMounted(datasetPage, relationshipsCached) /\ ReadsAbout(datasetPage) =>
       IF containerReads = <<>> THEN IsAnswerOf(containerData, lastFailed, datasetPage)
       ELSE containerReads[Len(containerReads)] = datasetPage

\* A container that is not on the page reads and holds nothing.
UnmountedIsEmpty ==
    ~ IsMounted(datasetPage, relationshipsCached) => containerReads = <<>> /\ containerData = "none"

PageInv == PageTyped /\ ReadsOneAtATime /\ LastReadIsOfPage /\ UnmountedIsEmpty /\ SearchEntityOfPage

LEMMA PageNames ==
    /\ MaxPageReads \in Nat /\ 1 <= MaxPageReads
    /\ \A u \in PageDatasets : u # "notFound" /\ u # "error" /\ u # "away" /\ u # "none"
<1>1. MaxPageReads \in Nat \ {0}
  BY PageAssumption
<1>2. PICK n \in Nat : n = MaxPageReads /\ n # 0
  BY <1>1
<1>3. PageDatasets \cap {"notFound", "error", "away", "none"} = {}
  BY PageAssumption
<1> QED
  BY <1>2, <1>3

LEMMA PageInitInv == PageInit => PageInv
<1> SUFFICES ASSUME PageInit PROVE PageInv
  OBVIOUS
<1>1. PICK n \in Nat : n = MaxPageReads
  BY PageNames
<1>2. containerReads = <<>> /\ containerReads \in Seq(PageDatasets) /\ Len(containerReads) = 0
  BY DEF PageInit
<1>3. PageTyped
  <2>1. 0 <= MaxPageReads
    BY <1>1
  <2>2. Len(containerReads) <= MaxPageReads
    BY <1>2, <2>1
  <2> QED
    BY <1>2, <2>2 DEF PageInit, PageTyped, DatasetTabs
<1>4. ReadsOneAtATime
  BY <1>2 DEF ReadsOneAtATime
<1>5. LastReadIsOfPage /\ UnmountedIsEmpty /\ SearchEntityOfPage
  BY PageNames DEF PageInit, LastReadIsOfPage, UnmountedIsEmpty, SearchEntityOfPage, IsMounted, OnDatasetPage
<1> QED
  BY <1>3, <1>4, <1>5 DEF PageInv

LEMMA ShortReads ==
    /\ <<>> \in Seq(PageDatasets) /\ Len(<<>>) = 0 /\ 0 <= MaxPageReads
    /\ \A u \in PageDatasets : /\ <<u>> \in Seq(PageDatasets) /\ Len(<<u>>) = 1 /\ <<u>>[1] = u /\ <<u>> # <<>>
    /\ \A k \in Nat : k < MaxPageReads => k + 1 <= MaxPageReads
<1>1. PICK n \in Nat : n = MaxPageReads
  BY PageNames
<1>2. 0 <= n /\ \A k \in Nat : k < n => k + 1 <= n
  OBVIOUS
<1>3. \A u \in PageDatasets : /\ <<u>> \in Seq(PageDatasets) /\ Len(<<u>>) = 1 /\ <<u>>[1] = u /\ <<u>> # <<>>
  OBVIOUS
<1> QED
  BY <1>1, <1>2, <1>3

(* The container is mounted, unmounted or performed for the page's dataset. *)
ReadsFor(u) ==
    /\ containerReads' \in Seq(PageDatasets) /\ Len(containerReads') <= MaxPageReads
    /\ containerData' \in PageDatasets \cup {"none"} /\ lastFailed' \in BOOLEAN /\ overtook' \in BOOLEAN
    /\ IsRestartable => Len(containerReads') <= 1
    /\ (overtook' => IsRestartable) /\ ReadsAbout(u) =>
         containerReads' # <<>> /\ containerReads'[Len(containerReads')] = u

\* The reads of a container without one, and with one.
EmptyReads(none) == none \in Seq(PageDatasets) /\ none = <<>> /\ Len(none) <= 1 /\ Len(none) <= MaxPageReads
OneRead(one, u) ==
    one \in Seq(PageDatasets) /\ one = <<u>> /\ Len(one) <= 1 /\ Len(one) <= MaxPageReads
      /\ one[Len(one)] = u /\ one # <<>>

LEMMA FirstReads ==
    (\E none : EmptyReads(none)) /\ \A u \in PageDatasets : \E one : OneRead(one, u)
<1>1. EmptyReads(<<>>)
  <2>1. Len(<<>>) <= 1
    OBVIOUS
  <2> QED
    BY <2>1, ShortReads DEF EmptyReads
<1>2. ASSUME NEW u \in PageDatasets PROVE OneRead(<<u>>, u)
  <2>1. Len(<<u>>) = 1 /\ Len(<<u>>) <= 1
    OBVIOUS
  <2>2. 1 <= MaxPageReads
    BY PageNames
  <2> QED
    BY <2>1, <2>2, ShortReads DEF OneRead
<1> QED
  BY <1>1, <1>2

LEMMA UnmountReads ==
    ASSUME Unmount
    PROVE  /\ containerReads' \in Seq(PageDatasets) /\ Len(containerReads') <= MaxPageReads
           /\ containerData' \in PageDatasets \cup {"none"} /\ lastFailed' \in BOOLEAN /\ overtook' \in BOOLEAN
           /\ Len(containerReads') <= 1
<1>1. PICK none : EmptyReads(none)
  BY FirstReads
<1> QED
  BY <1>1 DEF Unmount, EmptyReads

LEMMA MountReads ==
    ASSUME NEW u \in PageDatasets, Mount(u) PROVE ReadsFor(u)
<1>1. PICK none : EmptyReads(none)
  BY FirstReads
<1>2. PICK one : OneRead(one, u)
  BY FirstReads
<1>3. /\ containerReads' = IF ReadsAbout(u) THEN one ELSE none
      /\ containerData' = "none" /\ lastFailed' = FALSE /\ overtook' = FALSE
  BY <1>1, <1>2 DEF Mount, EmptyReads, OneRead
<1>4. containerReads' \in Seq(PageDatasets) /\ Len(containerReads') <= MaxPageReads /\ Len(containerReads') <= 1
  BY <1>1, <1>2, <1>3 DEF EmptyReads, OneRead
<1> QED
  BY <1>2, <1>3, <1>4 DEF ReadsFor, OneRead

LEMMA PerformReads ==
    ASSUME PageInv, NEW u \in PageDatasets, PerformContainer(u), Len(containerReads) < MaxPageReads
    PROVE  ReadsFor(u)
<1>1. PICK reading \in Seq(PageDatasets) : reading = containerReads
  BY DEF PageInv, PageTyped
<1>2. PICK running \in Seq(PageDatasets) :
        /\ running = IF IsRestartable THEN <<>> ELSE containerReads
        /\ Len(running) < MaxPageReads /\ (IsRestartable => Len(running) = 0)
  <2>1. 0 < MaxPageReads
    BY PageNames
  <2> QED
    BY <1>1, <2>1, ShortReads
<1>3. PICK more \in Seq(PageDatasets) :
        more = Append(running, u) /\ Len(more) = Len(running) + 1 /\ more[Len(more)] = u /\ more # <<>>
  <2>1. /\ Append(running, u) \in Seq(PageDatasets) /\ Len(Append(running, u)) = Len(running) + 1
        /\ Append(running, u)[Len(running) + 1] = u /\ Append(running, u) # <<>>
    OBVIOUS
  <2> QED
    BY <2>1
<1>4. /\ containerReads' = IF ReadsAbout(u) THEN more ELSE running
      /\ lastFailed' = FALSE /\ overtook' = (overtook /\ running # <<>>) /\ containerData' = containerData
  BY <1>2, <1>3 DEF PerformContainer
<1>5. Len(running) \in Nat /\ Len(running) <= MaxPageReads /\ Len(more) <= MaxPageReads
  <2>1. PICK k \in Nat : k = Len(running)
    OBVIOUS
  <2>2. k < MaxPageReads /\ k + 1 <= MaxPageReads
    BY <1>2, <2>1, ShortReads
  <2>3. k <= MaxPageReads
    BY <2>2, PageNames
  <2> QED
    BY <1>3, <2>1, <2>2, <2>3
<1>6. IsRestartable => Len(running) <= 1 /\ Len(more) <= 1
  BY <1>2, <1>3
<1>7. overtook' \in BOOLEAN /\ containerData' \in PageDatasets \cup {"none"}
  BY <1>4 DEF PageInv, PageTyped
<1> QED
  BY <1>3, <1>4, <1>5, <1>6, <1>7 DEF ReadsFor

(* A read ends: if the reads end in their order, the last one began is     *)
(* still under way or is the one that ended.                               *)
LEMMA ReadEndKeepsPage ==
    ASSUME PageInv, NEW i \in DOMAIN containerReads, NEW ok \in BOOLEAN, ContainerReads(i, ok)
    PROVE  PageInv'
<1>1. PICK asked \in Seq(PageDatasets) : asked = containerReads /\ i \in 1 .. Len(asked)
  <2>1. containerReads \in Seq(PageDatasets)
    BY DEF PageInv, PageTyped
  <2> QED
    BY <2>1
<1>2. PICK rest \in Seq(PageDatasets) :
        /\ rest = RemoveAt(asked, i) /\ Len(rest) = Len(asked) - 1
        /\ \A k \in 1 .. Len(asked) - 1 : rest[k] = IF k < i THEN asked[k] ELSE asked[k + 1]
  <2>1. /\ Without(asked, i) \in Seq(PageDatasets) /\ Len(Without(asked, i)) = Len(asked) - 1
        /\ \A k \in 1 .. Len(asked) - 1 : Without(asked, i)[k] = IF k < i THEN asked[k] ELSE asked[k + 1]
    BY <1>1, WithoutEntry
  <2>2. RemoveAt(asked, i) = Without(asked, i)
    BY DEF RemoveAt, Without
  <2> QED
    BY <2>1, <2>2
<1>3. PICK u \in PageDatasets : u = asked[i]
  BY <1>1
<1>4. /\ container = "entity" => ok
      /\ containerReads' = rest
      /\ lastFailed' = (lastFailed \/ (~ ok /\ container # "schema" /\ i = Len(asked)))
      /\ overtook' = (overtook \/ i > 1)
      /\ showAllRelationships' = FALSE
      /\ UNCHANGED <<container, datasetPage, target, routeReads, searchEntity, tabSelected, relationshipsCached, lateRead>>
  BY <1>1, <1>2 DEF ContainerReads, NewTable
<1>5. /\ containerData' \in {u, "none", containerData}
      /\ ok => containerData' = u
      /\ containerData' = containerData => containerData' \in {u, "none"} \/ container \in {"snapshot", "upstreamOwners"}
  <2>1. containerData' = CASE container = "schema" -> GetDatasetSchema(u, ok)
                            [] container = "upstreams" -> GetDatasetUpstreams(u, ok)
                            [] container = "downstreams" -> GetDatasetDownstreams(u, ok)
                            [] container = "snapshot" -> GetSnapshot(u, ok)
                            [] container = "entity" -> ReifyEntity(u, ok)
                            [] container = "upstreamOwners" -> GetUpstreamProperties(u, ok)
    BY <1>1, <1>3 DEF ContainerReads
  <2>2. container \in {"schema", "upstreams", "downstreams", "snapshot", "entity", "upstreamOwners"}
    BY DEF PageInv, PageTyped, PageContainers
  <2> QED
    BY <1>4, <2>1, <2>2 DEF GetDatasetSchema, GetDatasetUpstreams, GetDatasetDownstreams, GetSnapshot,
         ReifyEntity, GetUpstreamProperties, Kept
<1>6. PICK k \in Nat : k = Len(asked) /\ i \in 1 .. k
  BY <1>1
<1>7. PageTyped'
  <2>1. Len(rest) <= MaxPageReads
    <3>1. PICK n \in Nat : n = MaxPageReads
      BY PageNames
    <3>2. k <= n
      BY <1>1, <1>6, <3>1 DEF PageInv, PageTyped
    <3>3. k - 1 <= n
      BY <1>6, <3>1, <3>2
    <3> QED
      BY <1>2, <1>6, <3>1, <3>3
  <2>2. containerData' \in PageDatasets \cup {"none"}
    BY <1>5 DEF PageInv, PageTyped
  <2>3. lastFailed' \in BOOLEAN /\ overtook' \in BOOLEAN
    BY <1>4 DEF PageInv, PageTyped
  <2> QED
    BY <1>4, <2>1, <2>2, <2>3 DEF PageInv, PageTyped
<1>8. IsRestartable' <=> IsRestartable
  BY <1>4 DEF IsRestartable
<1>9. ReadsOneAtATime'
  <2>1. IsRestartable => k <= 1
    BY <1>1, <1>6 DEF PageInv, ReadsOneAtATime
  <2>2. Len(rest) = k - 1
    BY <1>2, <1>6
  <2>3. IsRestartable => Len(rest) <= 1
    BY <1>6, <2>1, <2>2
  <2> QED
    BY <1>4, <1>8, <2>3 DEF ReadsOneAtATime
<1>10. LastReadIsOfPage'
  <2> SUFFICES ASSUME overtook' => IsRestartable, IsMounted(datasetPage, relationshipsCached), ReadsAbout(datasetPage)
               PROVE  IF containerReads' = <<>> THEN IsAnswerOf(containerData', lastFailed', datasetPage)
                      ELSE containerReads'[Len(containerReads')] = datasetPage
    BY <1>4, <1>8 DEF LastReadIsOfPage, IsMounted, ReadsAbout, IsAnswerOf
  <2>1. i = 1
    <3>0. IsRestartable => k <= 1
      BY <1>1, <1>6 DEF PageInv, ReadsOneAtATime
    <3>1. ~ (i > 1)
      <4> SUFFICES ASSUME i > 1 PROVE FALSE
        OBVIOUS
      <4>1. overtook'
        BY <1>4, Zenon
      <4>2. k <= 1
        BY <3>0, <4>1
      <4> QED
        BY <1>6, <4>2
    <3> QED
      BY <1>6, <3>1
  <2>2. asked # <<>> /\ asked[k] = datasetPage
    <3>1. overtook => IsRestartable
      BY <1>4
    <3>2. asked # <<>>
      BY <1>1
    <3> QED
      BY <1>1, <1>6, <3>1, <3>2 DEF PageInv, LastReadIsOfPage
  <2>3. CASE k = 1
    <3>1. rest = <<>>
      BY <1>2, <1>6, <2>3
    <3>2. u = datasetPage
      BY <1>3, <2>1, <2>2, <2>3
    <3>3. ~ ok /\ container # "schema" => lastFailed'
      BY <1>4, <1>6, <2>1, <2>3
    <3>4. IsAnswerOf(containerData', lastFailed', datasetPage)
      BY <1>5, <3>2, <3>3 DEF IsAnswerOf
    <3> QED
      BY <1>4, <3>1, <3>4
  <2>4. CASE k # 1
    <3>1. PICK j \in 1 .. k - 1 : j = k - 1 /\ ~ (j < i) /\ j + 1 = k
      BY <1>6, <2>1, <2>4
    <3>2. rest[j] = asked[j + 1] /\ Len(rest) = j /\ rest # <<>>
      BY <1>2, <1>6, <3>1
    <3> QED
      BY <1>4, <2>2, <3>1, <3>2
  <2> QED
    BY <2>3, <2>4
<1>11. SearchEntityOfPage'
  BY <1>4 DEF PageInv, SearchEntityOfPage, OnDatasetPage
<1>12. UnmountedIsEmpty'
  <2>1. containerReads # <<>>
    BY <1>1
  <2> QED
    BY <1>4, <2>1 DEF PageInv, UnmountedIsEmpty, IsMounted
<1> QED
  BY <1>7, <1>9, <1>10, <1>11, <1>12 DEF PageInv

(* The page goes to another dataset, or the container's tab is opened.     *)
LEMMA ShownKeepsPage ==
    ASSUME PageInv, NEW u \in routeReads, NEW result \in {"dataset", "notFound", "error"}, ReadDataset(u, result)
    PROVE  PageInv'
<1>1. /\ u \in PageDatasets /\ routeReads' = routeReads \ {u} /\ container' = container
      /\ Len(containerReads) < MaxPageReads
      /\ searchEntity' = IF result = "dataset" THEN "datasets" ELSE searchEntity
      /\ lateRead' = (lateRead \/ (result = "dataset" /\ u # target))
  BY DEF ReadDataset, PageInv, PageTyped
<1>2. CASE u = target
  <2> DEFINE model == IF result = "dataset" THEN u ELSE result
  <2>1. ShowModel(model)
    BY <1>2 DEF ReadDataset
  <2>2. model \in PageDatasets \cup {"notFound", "error"} /\ (model \in PageDatasets <=> result = "dataset")
    BY <1>1, PageNames
  <2> HIDE DEF model
  <2>3. /\ datasetPage' = model /\ target' = "none"
        /\ tabSelected' = IF model \in PageDatasets THEN "schema" ELSE tabSelected
        /\ relationshipsCached' = (relationshipsCached /\ OnDatasetPage /\ model \in PageDatasets)
        /\ showAllRelationships' = FALSE
    BY <2>1 DEF ShowModel, NewTable
  <2>4. relationshipsCached' \in BOOLEAN
    BY <2>3
  <2>5. CASE ~ IsMounted(model, relationshipsCached')
    <3>1. Unmount
      BY <2>1, <2>5 DEF ShowModel
    <3>2. PageTyped'
      BY <1>1, <2>2, <2>3, <2>4, <3>1, UnmountReads DEF PageInv, PageTyped, DatasetTabs
    <3>3. ReadsOneAtATime'
      BY <3>1, UnmountReads DEF ReadsOneAtATime
    <3>4. LastReadIsOfPage'
      BY <1>1, <2>3, <2>5 DEF LastReadIsOfPage, IsMounted
    <3>5. UnmountedIsEmpty'
      BY <3>1 DEF UnmountedIsEmpty, Unmount
    <3> QED
      BY <1>1, <1>2, <2>2, <2>3, <3>2, <3>3, <3>4, <3>5, PageNames DEF PageInv, SearchEntityOfPage, OnDatasetPage
  <2>6. CASE IsMounted(model, relationshipsCached')
    <3>1. model \in PageDatasets
      BY <2>6 DEF IsMounted
    <3>2. PerformContainer(model) \/ Mount(model)
      BY <2>1, <2>6 DEF ShowModel
    <3>3. ReadsFor(model)
      BY <1>1, <3>1, <3>2, PerformReads, MountReads
    <3>4. PageTyped'
      BY <1>1, <2>2, <2>3, <2>4, <3>3 DEF PageInv, PageTyped, DatasetTabs, ReadsFor
    <3>5. ReadsOneAtATime'
      BY <1>1, <3>3 DEF ReadsOneAtATime, IsRestartable, ReadsFor
    <3>6. LastReadIsOfPage'
      BY <1>1, <2>3, <3>3 DEF LastReadIsOfPage, IsMounted, ReadsAbout, IsRestartable, ReadsFor
    <3>7. UnmountedIsEmpty'
      BY <1>1, <2>3, <2>6 DEF UnmountedIsEmpty, IsMounted
    <3> QED
      BY <1>1, <1>2, <2>2, <2>3, <3>4, <3>5, <3>6, <3>7, PageNames DEF PageInv, SearchEntityOfPage, OnDatasetPage
  <2> QED
    BY <2>5, <2>6
<1>3. CASE u # target
  <2>1. UNCHANGED <<datasetPage, target, tabSelected, relationshipsCached, readVars, tableVars>>
    BY <1>3 DEF ReadDataset
  <2>2. PageTyped'
    BY <1>1, <1>3, <2>1 DEF PageInv, PageTyped, readVars, tableVars
  <2>3. ReadsOneAtATime'
    BY <1>1, <2>1 DEF PageInv, ReadsOneAtATime, IsRestartable, readVars
  <2>4. LastReadIsOfPage'
    BY <1>1, <2>1 DEF PageInv, LastReadIsOfPage, IsMounted, ReadsAbout, IsRestartable, IsAnswerOf, readVars
  <2>5. SearchEntityOfPage'
    BY <1>1, <1>3, <2>1 DEF PageInv, PageTyped, SearchEntityOfPage, OnDatasetPage
  <2>6. UnmountedIsEmpty'
    BY <1>1, <2>1 DEF PageInv, UnmountedIsEmpty, IsMounted, readVars
  <2> QED
    BY <2>2, <2>3, <2>4, <2>5, <2>6 DEF PageInv
<1> QED
  BY <1>2, <1>3

LEMMA PeopleKeepsPage ==
    ASSUME PageInv, VisitPeople PROVE PageInv'
<1>1. /\ datasetPage' = "away" /\ target' = "none" /\ searchEntity' = "people" /\ relationshipsCached' = FALSE
      /\ lateRead' = FALSE /\ Unmount /\ showAllRelationships' = FALSE
      /\ UNCHANGED <<container, routeReads, tabSelected>>
  BY DEF VisitPeople, NewTable
<1>2. PageTyped'
  BY <1>1, UnmountReads DEF PageInv, PageTyped
<1>3. ReadsOneAtATime'
  BY <1>1, UnmountReads DEF ReadsOneAtATime
<1>4. LastReadIsOfPage' /\ UnmountedIsEmpty' /\ SearchEntityOfPage'
  BY <1>1, PageNames DEF LastReadIsOfPage, UnmountedIsEmpty, Unmount, IsMounted, SearchEntityOfPage, OnDatasetPage
<1> QED
  BY <1>2, <1>3, <1>4 DEF PageInv

LEMMA TabKeepsPage ==
    ASSUME PageInv, NEW tab \in DatasetTabs, SelectTab(tab) PROVE PageInv'
<1>1. /\ datasetPage \in PageDatasets /\ tabSelected' = tab
      /\ relationshipsCached' = (relationshipsCached \/ tab = "relationships")
      /\ UNCHANGED <<container, datasetPage, target, routeReads, searchEntity, tableVars, lateRead>>
  BY DEF SelectTab, OnDatasetPage
<1>2. CASE IsMounted(datasetPage, relationshipsCached') /\ ~ IsMounted(datasetPage, relationshipsCached)
  <2>1. ReadsFor(datasetPage)
    BY <1>1, <1>2, MountReads DEF SelectTab
  <2>2. PageTyped'
    BY <1>1, <2>1 DEF PageInv, PageTyped, ReadsFor, tableVars
  <2>3. ReadsOneAtATime'
    BY <1>1, <2>1 DEF ReadsOneAtATime, IsRestartable, ReadsFor
  <2>4. LastReadIsOfPage'
    BY <1>1, <2>1 DEF LastReadIsOfPage, IsMounted, ReadsAbout, IsRestartable, ReadsFor
  <2>5. UnmountedIsEmpty'
    BY <1>1, <1>2 DEF UnmountedIsEmpty, IsMounted
  <2> QED
    BY <1>1, <2>2, <2>3, <2>4, <2>5 DEF PageInv, SearchEntityOfPage, OnDatasetPage
<1>3. CASE ~ (IsMounted(datasetPage, relationshipsCached') /\ ~ IsMounted(datasetPage, relationshipsCached))
  <2>1. UNCHANGED readVars
    BY <1>3 DEF SelectTab
  <2>2. PageTyped'
    BY <1>1, <2>1 DEF PageInv, PageTyped, readVars, tableVars
  <2>3. ReadsOneAtATime'
    BY <1>1, <2>1 DEF PageInv, ReadsOneAtATime, IsRestartable, readVars
  <2>4. IsMounted(datasetPage, relationshipsCached') => IsMounted(datasetPage, relationshipsCached)
    BY <1>3
  <2>5. LastReadIsOfPage'
    <3>1. UNCHANGED <<container, datasetPage, containerReads, containerData, lastFailed, overtook>>
      BY <1>1, <2>1 DEF readVars
    <3>2. IsMounted(datasetPage, relationshipsCached)' => IsMounted(datasetPage, relationshipsCached)
      BY <2>4, <3>1 DEF IsMounted
    <3> QED
      BY <3>1, <3>2 DEF PageInv, LastReadIsOfPage, ReadsAbout, IsRestartable, IsAnswerOf
  <2>6. UnmountedIsEmpty'
    <3>1. UNCHANGED <<container, datasetPage, containerReads, containerData>>
      BY <1>1, <2>1 DEF readVars
    <3>2. IsMounted(datasetPage, relationshipsCached) => IsMounted(datasetPage, relationshipsCached)'
      BY <1>1, <3>1 DEF IsMounted
    <3> QED
      BY <3>1, <3>2 DEF PageInv, UnmountedIsEmpty
  <2> QED
    BY <1>1, <2>2, <2>3, <2>5, <2>6 DEF PageInv, SearchEntityOfPage, OnDatasetPage
<1> QED
  BY <1>2, <1>3

LEMMA PageInvStep == PageInv /\ [PageNext]_pageVars => PageInv'
<1> SUFFICES ASSUME PageInv, [PageNext]_pageVars PROVE PageInv'
  OBVIOUS
<1>1. ASSUME NEW u \in PageDatasets, VisitDataset(u) PROVE PageInv'
  <2>1. /\ routeReads' = routeReads \cup {u} /\ target' = u
        /\ UNCHANGED <<container, datasetPage, searchEntity, tabSelected, relationshipsCached, readVars, tableVars, lateRead>>
    BY <1>1 DEF VisitDataset
  <2>2. PageTyped'
    BY <2>1 DEF PageInv, PageTyped, readVars, tableVars
  <2> QED
    BY <2>1, <2>2 DEF PageInv, ReadsOneAtATime, LastReadIsOfPage, UnmountedIsEmpty, SearchEntityOfPage, OnDatasetPage, IsRestartable,
       IsMounted, ReadsAbout, IsAnswerOf, readVars
<1>2. CASE (\E type \in RelationshipTypes : OnTypeSelect(type)) \/ OnToggleShowMore \/ UNCHANGED pageVars
  <2>1. /\ UNCHANGED <<container, datasetPage, target, routeReads, searchEntity, tabSelected, relationshipsCached,
                       containerReads, containerData, lastFailed, overtook, lateRead>>
        /\ showAllRelationships' \in BOOLEAN
    BY <1>2 DEF OnTypeSelect, OnToggleShowMore, pageVars, readVars, tableVars, PageInv, PageTyped
  <2>2. PageTyped'
    BY <2>1 DEF PageInv, PageTyped
  <2> QED
    BY <2>1, <2>2 DEF PageInv, ReadsOneAtATime, LastReadIsOfPage, UnmountedIsEmpty, SearchEntityOfPage, OnDatasetPage, IsRestartable,
       IsMounted, ReadsAbout, IsAnswerOf
<1> QED
  BY <1>1, <1>2, ShownKeepsPage, PeopleKeepsPage, TabKeepsPage, ReadEndKeepsPage DEF PageNext

(* What a table of relationships leaves out it offers to show.             *)
LEMMA MoreOffered == ASSUME PageInv PROVE MoreIsOffered
<1> SUFFICES ASSUME IsTable, ~ HasMore PROVE FilteredRelationships = FilteredByType
  BY DEF MoreIsOffered
<1>1. RelationshipList \in Seq(STRING)
  <2>1. RelationshipList = Relationships[container, containerData] /\ container \in {"upstreams", "downstreams"}
        /\ containerData \in PageDatasets
    BY DEF IsTable, RelationshipList, IsTableContainer, IsVisible, PageInv, PageTyped
  <2> QED
    BY <2>1, PageAssumption
<1>2. PICK list \in Seq(STRING) : list = RelationshipList
  BY <1>1
<1>3. PICK some \in Seq(STRING) : some = FilteredByType /\ Len(some) <= Len(list)
  BY <1>2, OnlyKeeps, OnlyShortens DEF FilteredByType
<1>4. Len(some) <= TruncatedLength
  <2>1. PICK n \in Nat : n = TruncatedLength
    BY PageAssumption
  <2>2. CASE selectedRelationshipType = AllTypes
    BY <1>2, <1>3, <2>1, <2>2 DEF HasMore
  <2>3. CASE selectedRelationshipType # AllTypes
    BY <1>3, <2>1, <2>3 DEF HasMore
  <2> QED
    BY <2>2, <2>3
<1> QED
  BY <1>3, <1>4 DEF FilteredRelationships, TakeN

LEMMA PageInvIsOfDataset == ASSUME PageInv PROVE PageIsOfOneDataset
<1>1. PageTypeOK
  BY DEF PageInv, PageTyped, PageTypeOK, DatasetTabs
<1>2. ShowsDatasetOfPage
  <2> SUFFICES ASSUME IsVisible, containerReads = <<>>, overtook => IsRestartable
               PROVE  containerData = datasetPage \/ (lastFailed /\ container \in {"snapshot", "upstreamOwners"})
    BY DEF ShowsDatasetOfPage
  <2>1. datasetPage \in PageDatasets /\ containerData # "none"
    BY DEF IsVisible, OnDatasetPage
  <2>2. ReadsAbout(datasetPage)
    BY DEF IsVisible, ReadsAbout, HeaderComponent
  <2>3. CASE IsMounted(datasetPage, relationshipsCached)
    BY <2>1, <2>2, <2>3 DEF PageInv, LastReadIsOfPage, IsAnswerOf
  <2>4. CASE ~ IsMounted(datasetPage, relationshipsCached)
    BY <2>1, <2>4 DEF PageInv, UnmountedIsEmpty
  <2> QED
    BY <2>3, <2>4
<1> QED
  BY <1>1, <1>2, MoreOffered DEF PageInv, PageIsOfOneDataset

(* Tabs, relationships and search box belong to the dataset of the page,   *)
(* whatever is answered late: what a container shows at rest is of that    *)
(* dataset, unless its reads ended out of order (container-data-source.ts, *)
(* routes/datasets/dataset.ts, lineage-table components).                  *)
THEOREM PageStaysOfDataset == PageSpec => []PageIsOfOneDataset
<1>1. PageInit => PageInv
  BY PageInitInv
<1>2. PageInv /\ [PageNext]_pageVars => PageInv'
  BY PageInvStep
<1>3. PageInv => PageIsOfOneDataset
  BY PageInvIsOfDataset
<1> QED
  BY <1>1, <1>2, <1>3, PTL DEF PageSpec

(***************************************************************************)
(* Walking over a finite set: the rounds of a search, and what is reached. *)
(***************************************************************************)

(* The rounds of a search from u: each has what follows the one before.    *)
Walks(S, next, u) ==
    {r \in [0 .. Cardinality(S) -> SUBSET S] :
        /\ r[0] = {u}
        /\ \A i \in 1 .. Cardinality(S) : r[i] = UNION {next[v] : v \in r[i - 1]}}

LEMMA FiniteCount ==
    ASSUME NEW S, IsFiniteSet(S), NEW T \in SUBSET S
    PROVE  /\ Cardinality(S) \in Nat /\ IsFiniteSet(T) /\ Cardinality(T) \in Nat
           /\ Cardinality(T) <= Cardinality(S)
           /\ T # S => Cardinality(T) < Cardinality(S)
           /\ S # {} => Cardinality(S) > 0
<1>1. IsFiniteSet(T)
  BY FS_Subset
<1>2. Cardinality(S) \in Nat /\ Cardinality(T) \in Nat
  BY <1>1, FS_CardinalityType
<1>3. /\ Cardinality(T) <= Cardinality(S)
      /\ Cardinality(T) = Cardinality(S) => T = S
  BY FS_Subset
<1>4. S # {} => Cardinality(S) # 0
  BY FS_EmptySet
<1> QED
  BY <1>1, <1>2, <1>3, <1>4

LEMMA WalkBegins ==
    ASSUME NEW S, IsFiniteSet(S), NEW next \in [S -> SUBSET S], NEW u \in S
    PROVE  Walks(S, next, u) # {}
<1> DEFINE n == Cardinality(S)
           X == SUBSET S
           a == {u}
           step == [i \in 1 .. n |-> [x \in X |-> UNION {next[v] : v \in x}]]
<1>1. n \in Nat /\ a \in X
  BY FiniteCount
<1>2. \A x \in X : UNION {next[v] : v \in x} \in X
  OBVIOUS
<1>3. step \in [1 .. n -> [X -> X]]
  BY <1>2
<1>4. PICK f \in Recursions(n, X, a, step) : TRUE
  <2> HIDE DEF n, X, a, step
  <2> QED
    BY <1>1, <1>3, FiniteRecursion
<1>5. f \in [0 .. n -> X] /\ f[0] = a /\ \A i \in 1 .. n : f[i] = step[i][f[i - 1]]
  <2> HIDE DEF n, X, a, step
  <2> QED
    BY <1>4 DEF Recursions
<1>6. \A i \in 1 .. n : f[i] = UNION {next[v] : v \in f[i - 1]}
  <2> SUFFICES ASSUME NEW i \in 1 .. n PROVE f[i] = UNION {next[v] : v \in f[i - 1]}
    OBVIOUS
  <2>1. f[i - 1] \in X
    BY <1>1, <1>5
  <2>2. step[i] = [x \in X |-> UNION {next[v] : v \in x}]
    OBVIOUS
  <2> QED
    BY <1>5, <2>1, <2>2
<1>7. f \in Walks(S, next, u)
  BY <1>5, <1>6 DEF Walks
<1> QED
  BY <1>7

(* What holds of u, and of what follows where it holds, holds of all that  *)
(* the search meets.                                                       *)
LEMMA WalkStays ==
    ASSUME NEW S, IsFiniteSet(S), NEW next \in [S -> SUBSET S], NEW u \in S,
           NEW r \in Walks(S, next, u), NEW T, u \in T,
           \A v \in S \cap T : next[v] \subseteq T
    PROVE  \A i \in 0 .. Cardinality(S) : r[i] \subseteq T
<1> DEFINE n == Cardinality(S)
           Bad == {i \in 0 .. n : ~ (r[i] \subseteq T)}
<1>1. n \in Nat
  BY FiniteCount
<1>2. /\ r \in [0 .. n -> SUBSET S] /\ r[0] = {u}
      /\ \A i \in 1 .. n : r[i] = UNION {next[v] : v \in r[i - 1]}
  BY DEF Walks
<1>3. Bad = {}
  <2> SUFFICES ASSUME Bad # {} PROVE FALSE
    OBVIOUS
  <2>1. PICK m \in Bad : \A k \in Bad : m <= k
    <3> Bad \subseteq Nat
      BY <1>1
    <3> HIDE DEF Bad
    <3> QED
      BY NatHasLeast
  <2>2. m # 0 /\ m \in 1 .. n /\ m - 1 \in 0 .. n
    BY <1>1, <1>2
  <2>3. m - 1 \notin Bad
    <3> HIDE DEF Bad
    <3> QED
      BY <1>1, <2>1, <2>2
  <2>4. r[m - 1] \subseteq S \cap T
    BY <1>2, <2>2, <2>3
  <2>5. r[m] \subseteq T
    BY <1>2, <2>2, <2>4
  <2> QED
    BY <2>1, <2>5
<1> QED
  BY <1>3

(* Where every step leaves less to meet, the search ends.                  *)
LEMMA WalkEnds ==
    ASSUME NEW S, IsFiniteSet(S), NEW next \in [S -> SUBSET S], NEW u \in S,
           NEW r \in Walks(S, next, u), NEW left \in [S -> SUBSET S],
           \A v \in S : v \notin left[v],
           \A v \in S : \A w \in next[v] : w \in left[v] /\ left[w] \subseteq left[v]
    PROVE  r[Cardinality(S)] = {}
<1> DEFINE n == Cardinality(S)
           Bad == {i \in 0 .. n : ~ \A v \in r[i] : Cardinality(left[v]) + i < n}
<1>1. n \in Nat
  BY FiniteCount
<1>2. /\ r \in [0 .. n -> SUBSET S] /\ r[0] = {u}
      /\ \A i \in 1 .. n : r[i] = UNION {next[v] : v \in r[i - 1]}
  BY DEF Walks
<1>3. \A v \in S : Cardinality(left[v]) \in Nat /\ Cardinality(left[v]) < n
  <2> SUFFICES ASSUME NEW v \in S PROVE Cardinality(left[v]) \in Nat /\ Cardinality(left[v]) < n
    OBVIOUS
  <2>1. left[v] \in SUBSET S /\ left[v] # S
    OBVIOUS
  <2> QED
    BY <2>1, FiniteCount
<1>4. \A v \in S : \A w \in next[v] : w \in S /\ Cardinality(left[w]) < Cardinality(left[v])
  <2> SUFFICES ASSUME NEW v \in S, NEW w \in next[v]
               PROVE  w \in S /\ Cardinality(left[w]) < Cardinality(left[v])
    OBVIOUS
  <2>1. w \in S /\ left[w] \in SUBSET left[v] /\ left[w] # left[v] /\ left[v] \in SUBSET S
    OBVIOUS
  <2>2. IsFiniteSet(left[v])
    BY <2>1, FiniteCount
  <2> QED
    BY <2>1, <2>2, FiniteCount
<1>5. Bad = {}
  <2> SUFFICES ASSUME Bad # {} PROVE FALSE
    OBVIOUS
  <2>1. PICK m \in Bad : \A k \in Bad : m <= k
    <3> Bad \subseteq Nat
      BY <1>1
    <3> HIDE DEF Bad
    <3> QED
      BY NatHasLeast
  <2>2. m \in 0 .. n
    OBVIOUS
  <2>3. m # 0
    <3>1. 0 \in 0 .. n /\ \A v \in r[0] : Cardinality(left[v]) + 0 < n
      BY <1>1, <1>2, <1>3
    <3> QED
      BY <3>1
  <2>4. m \in 1 .. n /\ m - 1 \in 0 .. n
    BY <1>1, <2>2, <2>3
  <2>5. m - 1 \notin Bad
    <3> HIDE DEF Bad
    <3> QED
      BY <1>1, <2>1, <2>4
  <2>6. \A v \in r[m - 1] : v \in S /\ Cardinality(left[v]) + (m - 1) < n
    BY <1>2, <2>4, <2>5
  <2>7. ASSUME NEW w \in r[m] PROVE Cardinality(left[w]) + m < n
    <3>1. PICK v \in r[m - 1] : w \in next[v]
      BY <1>2, <2>4
    <3> DEFINE a == Cardinality(left[w])  b == Cardinality(left[v])
    <3>2. w \in S /\ a < b /\ b + (m - 1) < n
      BY <1>4, <2>6, <3>1
    <3>3. a \in Nat /\ b \in Nat
      BY <1>3, <2>6, <3>1, <3>2
    <3> HIDE DEF a, b, n
    <3> SUFFICES a + m < n
      BY DEF a
    <3> QED
      BY <1>1, <2>4, <3>2, <3>3
  <2> QED
    BY <2>1, <2>7
<1>6. ASSUME NEW v \in r[n] PROVE FALSE
  <2>1. n \in 0 .. n /\ v \in S
    BY <1>1, <1>2
  <2>2. Cardinality(left[v]) + n < n
    BY <1>5, <2>1
  <2> QED
    BY <1>1, <1>3, <2>1, <2>2
<1> QED
  BY <1>6

(***************************************************************************)
(* What a dataset feeds.                                                   *)
(***************************************************************************)

FedBy(known, u) == {v \in LineageUris : <<v, u>> \in known}

LEMMA UrisAreFinite == IsFiniteSet(LineageUris) /\ Cardinality(LineageUris) \in Nat
BY LineageAssumption, FS_CardinalityType

(* The recursion of Reach, round by round.                                 *)
Reachings(known, u) ==
    {f \in [0 .. Cardinality(LineageUris) -> SUBSET LineageUris] :
        /\ f[0] = FedBy(known, u)
        /\ \A i \in 1 .. Cardinality(LineageUris) :
              f[i] = f[i - 1] \cup {v \in LineageUris : \E w \in f[i - 1] : <<v, w>> \in known}
        /\ Reach(known, u) = f[Cardinality(LineageUris)]}

LEMMA ReachUnfolds == ASSUME NEW known, NEW u PROVE Reachings(known, u) # {}
<1> DEFINE n == Cardinality(LineageUris)
           X == SUBSET LineageUris
           a == {v \in LineageUris : <<v, u>> \in known}
           next(x) == x \cup {v \in LineageUris : \E w \in x : <<v, w>> \in known}
           step == [i \in 1 .. n |-> [x \in X |-> next(x)]]
           rec(f) == [i \in 0 .. n |-> IF i = 0 THEN a ELSE next(f[i - 1])]
           reach == CHOOSE f : f = rec(f)
<1>1. n \in Nat /\ a \in X
  BY UrisAreFinite
<1>2. step \in [1 .. n -> [X -> X]]
  OBVIOUS
<1>3. PICK f \in Recursions(n, X, a, step) : TRUE
  <2> HIDE DEF n, X, a, step
  <2> QED
    BY <1>1, <1>2, FiniteRecursion
<1>4. f \in [0 .. n -> X] /\ f[0] = a /\ \A i \in 1 .. n : f[i] = step[i][f[i - 1]]
  <2> HIDE DEF n, X, a, step
  <2> QED
    BY <1>3 DEF Recursions
<1>5. \A i \in 1 .. n : i - 1 \in 0 .. n /\ f[i] = next(f[i - 1])
  <2> SUFFICES ASSUME NEW i \in 1 .. n PROVE i - 1 \in 0 .. n /\ f[i] = next(f[i - 1])
    OBVIOUS
  <2>1. i - 1 \in 0 .. n /\ f[i - 1] \in X
    BY <1>1, <1>4
  <2> HIDE DEF next, X, a, n
  <2>2. step[i] = [x \in X |-> next(x)]
    BY DEF step
  <2> QED
    BY <1>4, <2>1, <2>2
<1>6. f = rec(f)
  <2> DEFINE F(i) == IF i = 0 THEN a ELSE next(f[i - 1])
  <2>1. \A i \in 0 .. n : f[i] = F(i)
    <3>1. \A i \in 0 .. n : i = 0 \/ (i # 0 /\ i \in 1 .. n)
      BY <1>1
    <3> HIDE DEF next, n, a, X
    <3> QED
      BY <1>4, <1>5, <3>1
  <2>2. f = [i \in 0 .. n |-> f[i]]
    BY <1>4
  <2> HIDE DEF F, n, a, next, X
  <2>3. f = [i \in 0 .. n |-> F(i)]
    BY <2>1, <2>2
  <2> QED
    BY <2>3 DEF F
<1>7. reach = rec(reach)
  <2> HIDE DEF rec
  <2> QED
    BY <1>6
<1>8. Reach(known, u) = reach[n]
  BY Zenon DEF Reach
<1>9. reach \in [0 .. n -> X] /\ reach[0] = a /\ \A i \in 1 .. n : reach[i] = next(reach[i - 1])
  <2> HIDE DEF reach, a, next, X, n
  <2>1. /\ reach = [i \in 0 .. n |-> reach[i]]
        /\ \A i \in 0 .. n : reach[i] = IF i = 0 THEN a ELSE next(reach[i - 1])
    BY <1>7
  <2>2. reach[0] = a
    BY <1>1, <2>1
  <2>3. \A i \in 1 .. n : i - 1 \in 0 .. n /\ i \in 0 .. n /\ i # 0
    BY <1>1
  <2>4. \A i \in 1 .. n : reach[i] = next(reach[i - 1])
    BY <2>1, <2>3
  <2> DEFINE Bad == {i \in 0 .. n : reach[i] \notin X}
  <2>5. Bad = {}
    <3> SUFFICES ASSUME Bad # {} PROVE FALSE
      OBVIOUS
    <3>1. PICK m \in Bad : \A k \in Bad : m <= k
      <4> Bad \subseteq Nat
        BY <1>1
      <4> HIDE DEF Bad
      <4> QED
        BY NatHasLeast
    <3>2. m \in 1 .. n /\ m - 1 \in 0 .. n
      BY <1>1, <2>2
    <3>3. m - 1 \notin Bad
      <4> HIDE DEF Bad
      <4> QED
        BY <1>1, <3>1, <3>2
    <3>4. reach[m - 1] \in X /\ reach[m] = next(reach[m - 1])
      BY <2>4, <3>2, <3>3
    <3>5. reach[m] \in X
      BY <3>4 DEF next, X
    <3> QED
      BY <3>1, <3>5
  <2> QED
    BY <2>1, <2>2, <2>4, <2>5
<1> HIDE DEF reach
<1>10. reach \in Reachings(known, u)
  BY <1>8, <1>9 DEF FedBy, Reachings
<1> QED
  BY <1>10

(* What a dataset feeds is fed by it directly, or by what it feeds ...     *)
LEMMA ReachFollows ==
    ASSUME NEW known, NEW u
    PROVE  /\ Reach(known, u) \in SUBSET LineageUris
           /\ FedBy(known, u) \subseteq Reach(known, u)
           /\ \A w \in Reach(known, u) : FedBy(known, w) \subseteq Reach(known, u)
<1> DEFINE U == LineageUris
           n == Cardinality(U)
           Closed(x) == \A w \in x : FedBy(known, w) \subseteq x
<1>1. IsFiniteSet(U) /\ n \in Nat
  BY UrisAreFinite
<1>0. PICK f \in Reachings(known, u) : TRUE
  BY ReachUnfolds
<1>2. /\ f \in [0 .. n -> SUBSET U] /\ f[0] = FedBy(known, u)
      /\ \A i \in 1 .. n : f[i] = f[i - 1] \cup {v \in U : \E w \in f[i - 1] : <<v, w>> \in known}
      /\ Reach(known, u) = f[n]
  BY <1>0 DEF Reachings
<1>3. \A i \in 0 .. n : Cardinality(f[i]) \in Nat /\ IsFiniteSet(f[i]) /\ Cardinality(f[i]) <= n
  <2> SUFFICES ASSUME NEW i \in 0 .. n
               PROVE  Cardinality(f[i]) \in Nat /\ IsFiniteSet(f[i]) /\ Cardinality(f[i]) <= n
    OBVIOUS
  <2>1. f[i] \in SUBSET U
    BY <1>2
  <2> QED
    BY <1>1, <2>1, FiniteCount
<1>4. \A i \in 1 .. n : i - 1 \in 0 .. n /\ f[i - 1] \subseteq f[i] /\ (Closed(f[i - 1]) => f[i] = f[i - 1])
  <2> SUFFICES ASSUME NEW i \in 1 .. n
               PROVE  i - 1 \in 0 .. n /\ f[i - 1] \subseteq f[i] /\ (Closed(f[i - 1]) => f[i] = f[i - 1])
    OBVIOUS
  <2>1. i - 1 \in 0 .. n
    BY <1>1
  <2>2. f[i] = f[i - 1] \cup {v \in U : \E w \in f[i - 1] : <<v, w>> \in known}
    BY <1>2
  <2>3. Closed(f[i - 1]) => {v \in U : \E w \in f[i - 1] : <<v, w>> \in known} \subseteq f[i - 1]
    BY DEF FedBy
  <2> HIDE DEF Closed
  <2> QED
    BY <2>1, <2>2, <2>3
<1>5. \A i \in 1 .. n : Closed(f[i - 1]) \/ f[i] # f[i - 1]
  <2> SUFFICES ASSUME NEW i \in 1 .. n, f[i] = f[i - 1] PROVE Closed(f[i - 1])
    OBVIOUS
  <2> QED
    BY <1>2 DEF FedBy
<1> DEFINE Bad == {i \in 0 .. n : ~ (Closed(f[i]) \/ Cardinality(f[i]) > i)}
<1>6. Bad = {}
  <2> SUFFICES ASSUME Bad # {} PROVE FALSE
    OBVIOUS
  <2>1. PICK m \in Bad : \A k \in Bad : m <= k
    <3> Bad \subseteq Nat
      BY <1>1
    <3> HIDE DEF Bad
    <3> QED
      BY NatHasLeast
  <2>2. m # 0
    <3>1. 0 \in 0 .. n
      BY <1>1
    <3>2. CASE f[0] = {}
      BY <3>1, <3>2
    <3>3. CASE f[0] # {}
      <4>1. Cardinality(f[0]) > 0
        BY <1>3, <3>1, <3>3, FiniteCount
      <4> QED
        BY <4>1
    <3> QED
      BY <3>2, <3>3
  <2>3. m \in 1 .. n /\ m - 1 \in 0 .. n
    BY <1>1, <2>2
  <2>4. m - 1 \notin Bad
    <3> HIDE DEF Bad
    <3> QED
      BY <1>1, <2>1, <2>3
  <2>5. ~ Closed(f[m]) /\ ~ (Cardinality(f[m]) > m)
    BY <2>1
  <2>6. ~ Closed(f[m - 1])
    <3> HIDE DEF Closed, Bad
    <3> QED
      BY <1>4, <2>3, <2>5
  <2>7. Cardinality(f[m - 1]) > m - 1
    <3> HIDE DEF Closed
    <3> QED
      BY <2>3, <2>4, <2>6
  <2>8. f[m - 1] \in SUBSET f[m] /\ f[m - 1] # f[m] /\ m \in 0 .. n
    <3> HIDE DEF Closed, Bad
    <3> QED
      BY <1>1, <1>4, <1>5, <2>3, <2>6
  <2>9. Cardinality(f[m - 1]) < Cardinality(f[m])
    BY <1>3, <2>8, FiniteCount
  <2> DEFINE p == Cardinality(f[m - 1])  q == Cardinality(f[m])
  <2>10. p \in Nat /\ q \in Nat /\ p < q /\ p > m - 1 /\ ~ (q > m) /\ m \in Nat
    BY <1>1, <1>3, <2>3, <2>5, <2>7, <2>8, <2>9
  <2> HIDE DEF p, q, Bad, Closed
  <2> QED
    BY <2>10
<1>7. Closed(f[n])
  <2>1. n \in 0 .. n /\ ~ (Cardinality(f[n]) > n)
    BY <1>1, <1>3
  <2> HIDE DEF Closed
  <2> QED
    BY <1>6, <2>1
<1>8. f[n] \in SUBSET U
  BY <1>1, <1>2
<1>9. FedBy(known, u) \subseteq f[n]
  <2> DEFINE Out == {i \in 0 .. n : ~ (FedBy(known, u) \subseteq f[i])}
  <2>1. Out = {}
    <3> SUFFICES ASSUME Out # {} PROVE FALSE
      OBVIOUS
    <3>1. PICK m \in Out : \A k \in Out : m <= k
      <4> Out \subseteq Nat
        BY <1>1
      <4> HIDE DEF Out
      <4> QED
        BY NatHasLeast
    <3>2. m \in 1 .. n /\ m - 1 \in 0 .. n
      BY <1>1, <1>2
    <3>3. m - 1 \notin Out
      <4> HIDE DEF Out
      <4> QED
        BY <1>1, <3>1, <3>2
    <3> QED
      BY <1>4, <3>1, <3>2, <3>3
  <2> QED
    BY <1>1, <2>1
<1> QED
  BY <1>2, <1>7, <1>8, <1>9

(* ... and nothing else is.                                                *)
LEMMA ReachIsLeast ==
    ASSUME NEW known, NEW u, NEW T, FedBy(known, u) \subseteq T,
           \A w \in T \cap LineageUris : FedBy(known, w) \subseteq T
    PROVE  Reach(known, u) \subseteq T
<1> DEFINE n == Cardinality(LineageUris)
<1>1. n \in Nat
  BY UrisAreFinite
<1>0. PICK f \in Reachings(known, u) : TRUE
  BY ReachUnfolds
<1>2. /\ f \in [0 .. n -> SUBSET LineageUris] /\ f[0] = FedBy(known, u)
      /\ \A i \in 1 .. n : f[i] = f[i - 1] \cup {v \in LineageUris : \E w \in f[i - 1] : <<v, w>> \in known}
      /\ Reach(known, u) = f[n]
  BY <1>0 DEF Reachings
<1> DEFINE Bad == {i \in 0 .. n : ~ (f[i] \subseteq T)}
<1>3. Bad = {}
  <2> SUFFICES ASSUME Bad # {} PROVE FALSE
    OBVIOUS
  <2>1. PICK m \in Bad : \A k \in Bad : m <= k
    <3> Bad \subseteq Nat
      BY <1>1
    <3> HIDE DEF Bad
    <3> QED
      BY NatHasLeast
  <2>2. m \in 1 .. n /\ m - 1 \in 0 .. n
    BY <1>1, <1>2
  <2>3. m - 1 \notin Bad
    <3> HIDE DEF Bad
    <3> QED
      BY <1>1, <2>1, <2>2
  <2>4. f[m - 1] \subseteq T \cap LineageUris
    BY <1>2, <2>2, <2>3
  <2>5. f[m] \subseteq T
    <3>1. \A v \in LineageUris, w \in f[m - 1] : <<v, w>> \in known => v \in T
      BY <2>4 DEF FedBy
    <3> QED
      BY <1>2, <2>2, <2>4, <3>1
  <2> QED
    BY <2>1, <2>5
<1> QED
  BY <1>1, <1>2, <1>3

LEMMA ReachIsTransitive ==
    ASSUME NEW known, NEW u, NEW w \in Reach(known, u) \cup FedBy(known, u)
    PROVE  w \in Reach(known, u) /\ Reach(known, w) \subseteq Reach(known, u)
<1>1. w \in Reach(known, u)
  BY ReachFollows
<1>2. \A v \in Reach(known, u) : FedBy(known, v) \subseteq Reach(known, u)
  BY ReachFollows
<1>3. FedBy(known, w) \subseteq Reach(known, u)
  BY <1>1, <1>2
<1> QED
  BY <1>1, <1>2, <1>3, ReachIsLeast

(***************************************************************************)
(* The search of a toggle.                                                 *)
(***************************************************************************)

PlainNode == [level : Int, selected : BOOLEAN, loaded : BOOLEAN]

(* The graph is a part of the lineage.                                     *)
GraphTyped ==
    /\ lineage \in Lineages /\ graphOf \in LineageUris
    /\ DOMAIN nodes \subseteq LineageUris /\ nodes \in [DOMAIN nodes -> PlainNode]
    /\ edges \subseteq (DOMAIN nodes) \X (DOMAIN nodes) /\ edges \subseteq lineage
    /\ lineageCalls \subseteq LineageCall /\ \A c \in lineageCalls : c.uri \in DOMAIN nodes
    /\ firstFailed \in BOOLEAN /\ frozen \in BOOLEAN /\ movedOn \in BOOLEAN

NextOf(up) == [v \in DOMAIN nodes |-> NextHierarchy(v, up)]

LEMMA NextIsNode ==
    ASSUME NEW u, NEW up PROVE NextHierarchy(u, up) \in SUBSET (DOMAIN nodes)
BY DEF NextHierarchy, ParentsOf, ChildrenOf

LEMMA GraphIsFinite == GraphTyped => IsFiniteSet(DOMAIN nodes) /\ Cardinality(DOMAIN nodes) \in Nat
BY UrisAreFinite, FiniteCount DEF GraphTyped

LEMMA RoundsAreAWalk ==
    ASSUME GraphTyped, NEW u \in DOMAIN nodes, NEW up
    PROVE  Rounds(u, up) \in Walks(DOMAIN nodes, NextOf(up), u)
<1> DEFINE S == DOMAIN nodes
           n == Cardinality(S)
           rec(f) == [i \in 0 .. n |-> IF i = 0 THEN {u} ELSE UNION {NextHierarchy(v, up) : v \in f[i - 1]}]
           round == CHOOSE f : f = rec(f)
<1>1. IsFiniteSet(S) /\ n \in Nat
  BY GraphIsFinite
<1>2. NextOf(up) \in [S -> SUBSET S] /\ \A v \in S : NextOf(up)[v] = NextHierarchy(v, up)
  BY NextIsNode DEF NextOf
<1>3. PICK r \in Walks(S, NextOf(up), u) : TRUE
  <2>1. u \in S
    OBVIOUS
  <2> HIDE DEF S
  <2> QED
    BY <1>1, <1>2, <2>1, WalkBegins
<1>4. /\ r \in [0 .. n -> SUBSET S] /\ r[0] = {u}
      /\ \A i \in 1 .. n : r[i] = UNION {NextOf(up)[v] : v \in r[i - 1]}
  BY <1>3 DEF Walks
<1>5. r = rec(r)
  <2> DEFINE F(i) == IF i = 0 THEN {u} ELSE UNION {NextHierarchy(v, up) : v \in r[i - 1]}
  <2>1. \A i \in 1 .. n : i # 0 /\ r[i - 1] \in SUBSET S
    BY <1>1, <1>4
  <2>2. \A i \in 1 .. n : r[i] = F(i)
    <3> SUFFICES ASSUME NEW i \in 1 .. n PROVE r[i] = UNION {NextHierarchy(v, up) : v \in r[i - 1]}
      BY <2>1
    <3>1. \A v \in r[i - 1] : NextOf(up)[v] = NextHierarchy(v, up)
      BY <1>2, <2>1
    <3> QED
      BY <1>4, <3>1
  <2>3. \A i \in 0 .. n : r[i] = F(i)
    <3>1. \A i \in 0 .. n : i = 0 \/ i \in 1 .. n
      BY <1>1
    <3>2. r[0] = F(0)
      BY <1>4
    <3> HIDE DEF F
    <3> QED
      BY <2>2, <3>1, <3>2
  <2>4. r = [i \in 0 .. n |-> r[i]]
    BY <1>4
  <2> HIDE DEF F
  <2>5. r = [i \in 0 .. n |-> F(i)]
    BY <2>3, <2>4
  <2> QED
    BY <2>5 DEF F
<1>6. round = rec(round)
  <2> HIDE DEF rec
  <2> QED
    BY <1>5
<1>7. Rounds(u, up) = round
  BY Zenon DEF Rounds
<1> HIDE DEF round
<1>8. /\ round = [i \in 0 .. n |-> round[i]]
      /\ \A i \in 0 .. n : round[i] = IF i = 0 THEN {u} ELSE UNION {NextHierarchy(v, up) : v \in round[i - 1]}
  BY <1>6
<1>9. \A i \in 1 .. n : i \in 0 .. n /\ i # 0 /\ i - 1 \in 0 .. n
  BY <1>1
<1>10. round[0] = {u} /\ \A i \in 1 .. n : round[i] = UNION {NextHierarchy(v, up) : v \in round[i - 1]}
  BY <1>1, <1>8, <1>9
<1>11. \A i \in 0 .. n : round[i] \in SUBSET S
  <2>1. \A x : UNION {NextHierarchy(v, up) : v \in x} \in SUBSET S
    BY NextIsNode
  <2>2. {u} \in SUBSET S
    OBVIOUS
  <2> QED
    BY <1>8, <2>1, <2>2
<1>12. \A i \in 1 .. n : round[i] = UNION {NextOf(up)[v] : v \in round[i - 1]}
  <2> SUFFICES ASSUME NEW i \in 1 .. n PROVE round[i] = UNION {NextOf(up)[v] : v \in round[i - 1]}
    OBVIOUS
  <2>1. \A v \in round[i - 1] : NextOf(up)[v] = NextHierarchy(v, up)
    BY <1>2, <1>9, <1>11
  <2> QED
    BY <1>10, <2>1
<1> QED
  BY <1>7, <1>8, <1>10, <1>11, <1>12 DEF Walks

(* What a toggle finds: the node, and all that follows up to the root.     *)
LEMMA HierarchyIsClosed ==
    ASSUME GraphTyped, NEW u \in DOMAIN nodes, NEW up
    PROVE  /\ u \in HierarchyNodes(u, up) /\ HierarchyNodes(u, up) \subseteq DOMAIN nodes
           /\ HierarchyEnds(u, up) => \A v \in HierarchyNodes(u, up) : NextHierarchy(v, up) \subseteq HierarchyNodes(u, up)
           /\ \A T : u \in T /\ (\A v \in T \cap DOMAIN nodes : NextHierarchy(v, up) \subseteq T)
                       => HierarchyNodes(u, up) \subseteq T
<1> DEFINE S == DOMAIN nodes
           n == Cardinality(S)
           r == Rounds(u, up)
           H == HierarchyNodes(u, up)
<1>1. IsFiniteSet(S) /\ n \in Nat
  BY GraphIsFinite
<1>2. NextOf(up) \in [S -> SUBSET S] /\ \A v \in S : NextOf(up)[v] = NextHierarchy(v, up)
  BY NextIsNode DEF NextOf
<1>3. r \in Walks(S, NextOf(up), u)
  BY RoundsAreAWalk
<1>4. /\ r \in [0 .. n -> SUBSET S] /\ r[0] = {u}
      /\ \A i \in 1 .. n : r[i] = UNION {NextOf(up)[v] : v \in r[i - 1]}
  BY <1>3 DEF Walks
<1>5. H = UNION {r[i] : i \in 0 .. n}
  BY DEF HierarchyNodes
<1>6. u \in H /\ H \subseteq S
  <2> HIDE DEF r, H, n
  <2> QED
    BY <1>1, <1>4, <1>5
<1>7. ASSUME HierarchyEnds(u, up), NEW v \in H PROVE NextHierarchy(v, up) \subseteq H
  <2>1. r[n] = {}
    BY <1>7 DEF HierarchyEnds
  <2> HIDE DEF r, H, n
  <2>2. PICK i \in 0 .. n : v \in r[i]
    BY <1>5, <1>7
  <2>3. i # n
    BY <2>1, <2>2
  <2>4. i + 1 \in 1 .. n /\ i + 1 \in 0 .. n /\ (i + 1) - 1 = i
    BY <1>1, <2>3
  <2>5. r[i + 1] = UNION {NextOf(up)[w] : w \in r[i]}
    BY <1>4, <2>4
  <2>6. NextHierarchy(v, up) = NextOf(up)[v]
    BY <1>2, <1>6, <1>7
  <2> QED
    BY <1>5, <2>2, <2>4, <2>5, <2>6
<1>8. ASSUME NEW T, u \in T, \A v \in T \cap S : NextHierarchy(v, up) \subseteq T
      PROVE  H \subseteq T
  <2>1. \A v \in S \cap T : NextOf(up)[v] \subseteq T
    BY <1>2, <1>8
  <2>2. \A i \in 0 .. n : r[i] \subseteq T
    <3>1. u \in S /\ u \in T
      BY <1>8
    <3> HIDE DEF r, S
    <3> QED
      BY <1>1, <1>2, <1>3, <2>1, <3>1, WalkStays DEF n
  <2> HIDE DEF r, H, n
  <2> QED
    BY <1>5, <2>2
<1> QED
  BY <1>6, <1>7, <1>8

(* A child of a node is one of its downstreams.                            *)
LEMMA EdgesAreLineage ==
    ASSUME GraphTyped, NEW u, NEW v
    PROVE  /\ v \in ChildrenOf(u) => v \in FedBy(lineage, u) /\ v \in DOMAIN nodes
           /\ v \in ParentsOf(u) => u \in FedBy(lineage, v) /\ v \in DOMAIN nodes
BY DEF GraphTyped, ChildrenOf, ParentsOf, FedBy

(* The search ends unless datasets feed each other in a cycle: along an    *)
(* edge, what is left to meet gets less.                                   *)
LEMMA SearchEnds ==
    ASSUME GraphTyped, ~ IsCyclic, NEW u \in DOMAIN nodes, NEW up \in BOOLEAN
    PROVE  HierarchyEnds(u, up)
<1> DEFINE S == DOMAIN nodes
           Above(v) == {x \in S : v \in Reach(lineage, x)}
           Below(v) == {x \in S : x \in Reach(lineage, v)}
           left == [v \in S |-> IF up THEN Above(v) ELSE Below(v)]
<1>1. IsFiniteSet(S) /\ S \subseteq LineageUris
  BY GraphIsFinite DEF GraphTyped
<1>2. NextOf(up) \in [S -> SUBSET S] /\ \A v \in S : NextOf(up)[v] = NextHierarchy(v, up)
  BY NextIsNode DEF NextOf
<1>3. \A v \in S : v \notin Reach(lineage, v)
  BY <1>1 DEF IsCyclic
<1>4. left \in [S -> SUBSET S] /\ \A v \in S : v \notin left[v]
  BY <1>3
<1>5. ASSUME NEW v \in S, NEW w \in NextOf(up)[v] PROVE w \in left[v] /\ left[w] \subseteq left[v]
  <2>1. w \in S
    BY <1>2, <1>5
  <2>2. CASE up
    <3>1. w \in ParentsOf(v)
      BY <1>2, <1>5, <2>2 DEF NextHierarchy
    <3>2. v \in FedBy(lineage, w)
      BY <3>1, EdgesAreLineage
    <3>3. v \in Reach(lineage, w)
      BY <3>2, ReachFollows
    <3>4. \A x \in S : w \in Reach(lineage, x) => v \in Reach(lineage, x)
      BY <3>2, ReachFollows
    <3> QED
      BY <2>1, <2>2, <3>3, <3>4
  <2>3. CASE ~ up
    <3>1. w \in ChildrenOf(v)
      BY <1>2, <1>5, <2>3 DEF NextHierarchy
    <3>2. w \in FedBy(lineage, v)
      BY <3>1, EdgesAreLineage
    <3>3. w \in Reach(lineage, v) /\ Reach(lineage, w) \subseteq Reach(lineage, v)
      BY <3>2, ReachIsTransitive
    <3> QED
      BY <2>1, <2>3, <3>3
  <2> QED
    BY <2>2, <2>3
<1>6. Rounds(u, up) \in Walks(S, NextOf(up), u)
  BY RoundsAreAWalk
<1> HIDE DEF left
<1>7. \A v \in S : \A w \in NextOf(up)[v] : w \in left[v] /\ left[w] \subseteq left[v]
  BY <1>5
<1>8. Rounds(u, up)[Cardinality(S)] = {}
  <2> HIDE DEF S
  <2> QED
    BY <1>1, <1>2, <1>4, <1>6, <1>7, WalkEnds DEF S
<1> QED
  BY <1>8 DEF HierarchyEnds

(***************************************************************************)
(* The invariant.                                                          *)
(***************************************************************************)

(* All that u feeds, or is fed by, is joined to it.                        *)
FedIn(known, E, u) == \A v \in LineageUris : <<v, u>> \in known => <<v, u>> \in E
FeedsIn(known, E, u) == \A v \in LineageUris : <<u, v>> \in known => <<u, v>> \in E

(* The levels of a graph have no gap.                                      *)
Chained(N) ==
    \A u \in DOMAIN N :
        /\ N[u].level > 0 => \E v \in DOMAIN N : N[v].level = N[u].level - 1
        /\ N[u].level < 0 => \E v \in DOMAIN N : N[v].level = N[u].level + 1

(* Who asks for the upstreams of the lower half has its downstreams.       *)
CallsAreReady(N, E, C, known) ==
    \A c \in C : c.upstream /\ N[c.uri].level >= 0 => c.first /\ FedIn(known, E, c.uri)

LoadedIsFed(N, E, known) == \A u \in DOMAIN N : N[u].loaded /\ N[u].level >= 0 => FedIn(known, E, u)

(* As long as the page has shown one dataset: its root, the sides of its   *)
(* requests and edges, and how each node is related to the root.           *)
RootIsAlone(N, root) == root \in DOMAIN N /\ \A u \in DOMAIN N : N[u].level = 0 <=> u = root

CallsHaveSides(N, C, root) ==
    \A c \in C : /\ c.first => c.uri = root
                 /\ IF c.upstream THEN N[c.uri].level <= 0 ELSE N[c.uri].level >= 0

LoadedFeeds(N, E, known) == \A u \in DOMAIN N : N[u].loaded /\ N[u].level < 0 => FeedsIn(known, E, u)

EdgesHaveSides(N, E) == \A u, p \in DOMAIN N : <<u, p>> \in E => N[p].level >= 0 \/ N[u].level <= 0

NodesAreRelated(N, known, root) ==
    \A u \in DOMAIN N : /\ N[u].level > 0 => u \in Reach(known, root)
                        /\ N[u].level < 0 => root \in Reach(known, u)

NodesAreJoined(N, E) ==
    \A u \in DOMAIN N : /\ N[u].level > 0 => \E p \in DOMAIN N : <<u, p>> \in E
                        /\ N[u].level < 0 => \E c \in DOMAIN N : <<c, u>> \in E

IsOfOnePage(N, E, C, known, root) ==
    /\ RootIsAlone(N, root) /\ CallsHaveSides(N, C, root) /\ LoadedFeeds(N, E, known)
    /\ EdgesHaveSides(N, E) /\ NodesAreRelated(N, known, root) /\ NodesAreJoined(N, E)

(* The selection leads back to the root.                                   *)
SelectionLeadsBack(N, E) ==
    \A u \in DOMAIN N : N[u].selected =>
        /\ N[u].level > 0 => \E p \in DOMAIN N : <<u, p>> \in E /\ N[p].selected
        /\ N[u].level < 0 => \E c \in DOMAIN N : <<c, u>> \in E /\ N[c].selected

LineageInv ==
    /\ GraphTyped /\ Chained(nodes) /\ CallsAreReady(nodes, edges, lineageCalls, lineage)
    /\ LoadedIsFed(nodes, edges, lineage) /\ FreezesOnlyOnCycles
    /\ ~ movedOn => IsOfOnePage(nodes, edges, lineageCalls, lineage, graphOf)
    /\ ~ movedOn /\ ~ IsCyclic => SelectionLeadsBack(nodes, edges)

(* Every level between that of a node and 0 has a node, and these differ.  *)
LEMMA LevelsAreBounded ==
    ASSUME NEW N, DOMAIN N \subseteq LineageUris, N \in [DOMAIN N -> PlainNode], Chained(N),
           NEW u \in DOMAIN N
    PROVE  N[u].level \in -Cardinality(LineageUris) .. Cardinality(LineageUris)
<1> DEFINE D == DOMAIN N
           n == Cardinality(LineageUris)
           sign == IF N[u].level < 0 THEN -1 ELSE 1
           k == IF N[u].level < 0 THEN -N[u].level ELSE N[u].level
           Has(j) == \E v \in D : N[v].level = sign * j
           Bad == {i \in 0 .. k : ~ Has(k - i)}
<1>1. N[u].level \in Int /\ \A v \in D : N[v].level \in Int
  BY DEF PlainNode
<1>2. k \in Nat /\ sign \in {-1, 1} /\ N[u].level = sign * k
  BY <1>1
<1>3. \A j \in Nat : j > 0 /\ Has(j) => Has(j - 1)
  <2> SUFFICES ASSUME NEW j \in Nat, j > 0, NEW v \in D, N[v].level = sign * j PROVE Has(j - 1)
    OBVIOUS
  <2>1. CASE sign = 1
    <3>1. N[v].level > 0 /\ N[v].level - 1 = sign * (j - 1)
      BY <2>1
    <3>2. PICK w \in D : N[w].level = N[v].level - 1
      BY <3>1 DEF Chained
    <3> QED
      BY <3>1, <3>2
  <2>2. CASE sign = -1
    <3>1. N[v].level < 0 /\ N[v].level + 1 = sign * (j - 1)
      BY <2>2
    <3>2. PICK w \in D : N[w].level = N[v].level + 1
      BY <3>1 DEF Chained
    <3> QED
      BY <3>1, <3>2
  <2> QED
    BY <1>2, <2>1, <2>2
<1>4. Bad = {}
  <2> SUFFICES ASSUME Bad # {} PROVE FALSE
    OBVIOUS
  <2>1. PICK m \in Bad : \A i \in Bad : m <= i
    <3> Bad \subseteq Nat
      BY <1>2
    <3> HIDE DEF Bad
    <3> QED
      BY NatHasLeast
  <2>2. Has(k)
    BY <1>2
  <2> HIDE DEF k, sign, Has
  <2>3. m \in 1 .. k /\ m - 1 \in 0 .. k
    BY <1>2, <2>2
  <2>4. m - 1 \notin Bad
    <3> HIDE DEF Bad
    <3> QED
      BY <1>2, <2>1, <2>3
  <2>5. Has(k - (m - 1)) /\ k - (m - 1) \in Nat /\ k - (m - 1) > 0 /\ (k - (m - 1)) - 1 = k - m
    BY <1>2, <2>3, <2>4
  <2>6. Has((k - (m - 1)) - 1)
    BY <1>3, <2>5
  <2>7. Has(k - m)
    BY <2>5, <2>6
  <2> QED
    BY <2>1, <2>7
<1>5. \A j \in 0 .. k : Has(j)
  <2> SUFFICES ASSUME NEW j \in 0 .. k PROVE Has(j)
    OBVIOUS
  <2> HIDE DEF k, sign, Has
  <2>1. k - j \in 0 .. k /\ k - (k - j) = j
    BY <1>2
  <2>2. Has(k - (k - j))
    BY <1>4, <2>1
  <2> QED
    BY <2>1, <2>2
<1> DEFINE f == [j \in 0 .. k |-> CHOOSE v \in D : N[v].level = sign * j]
<1>6. \A j \in 0 .. k : f[j] \in D /\ N[f[j]].level = sign * j
  <2> HIDE DEF k, sign
  <2> QED
    BY <1>5
<1>7. f \in Injection(0 .. k, LineageUris)
  <2> HIDE DEF k, sign
  <2>1. f \in [0 .. k -> LineageUris]
    BY <1>6
  <2> HIDE DEF f
  <2>2. \A i, j \in 0 .. k : f[i] = f[j] => i = j
    <3> SUFFICES ASSUME NEW i \in 0 .. k, NEW j \in 0 .. k, f[i] = f[j] PROVE i = j
      OBVIOUS
    <3>1. sign * i = sign * j /\ i \in Int /\ j \in Int
      BY <1>2, <1>6
    <3>2. CASE sign = 1
      BY <3>1, <3>2
    <3>3. CASE sign = -1
      BY <3>1, <3>3
    <3> QED
      BY <1>2, <3>2, <3>3
  <2> QED
    BY <2>1, <2>2 DEF Injection, IsInjective
<1>8. Cardinality(0 .. k) = k + 1 /\ IsFiniteSet(0 .. k)
  <2> HIDE DEF k
  <2>1. 0 \in Int /\ k \in Int /\ ~ (0 > k) /\ k - 0 + 1 = k + 1
    BY <1>2
  <2>2. IsFiniteSet(0 .. k) /\ Cardinality(0 .. k) = IF 0 > k THEN 0 ELSE k - 0 + 1
    BY <2>1, FS_Interval, Zenon
  <2> QED
    BY <2>1, <2>2
<1>9. k + 1 <= n
  <2> HIDE DEF k, f
  <2> QED
    BY <1>7, <1>8, UrisAreFinite, FS_Injection
<1> QED
  <2> HIDE DEF k
  <2>1. k <= n /\ n \in Nat
    BY <1>2, <1>9, UrisAreFinite
  <2> HIDE DEF n
  <2>2. CASE N[u].level < 0
    BY <1>1, <2>1, <2>2 DEF k, n
  <2>3. CASE ~ (N[u].level < 0)
    BY <1>1, <2>1, <2>3 DEF k, n
  <2> QED
    BY <2>2, <2>3 DEF n

(***************************************************************************)
(* What the steps do to the graph.                                         *)
(***************************************************************************)

(* The graph after an answer about u: the datasets of the answer are nodes,*)
(* the new ones at the level, and u is loaded.                             *)
GrownTo(N, M, u, more, level, select) ==
    /\ DOMAIN M = DOMAIN N \cup more /\ M \in [DOMAIN M -> PlainNode]
    /\ \A v \in DOMAIN N : M[v].level = N[v].level /\ (v # u => M[v] = N[v])
    /\ M[u].loaded /\ (M[u].selected <=> N[u].selected \/ select)
    /\ \A v \in more \ DOMAIN N : M[v].level = level /\ ~ M[v].selected /\ ~ M[v].loaded

LoadedNode(n, select) == [n EXCEPT !.loaded = TRUE, !.selected = @ \/ select]
NewNode(level) == [level |-> level, selected |-> FALSE, loaded |-> FALSE]

LEMMA NodeChanges ==
    ASSUME NEW n \in PlainNode, NEW b \in BOOLEAN, NEW l \in Int
    PROVE  /\ LoadedNode(n, b) \in PlainNode /\ LoadedNode(n, b).level = n.level
           /\ LoadedNode(n, b).loaded /\ (LoadedNode(n, b).selected <=> n.selected \/ b)
           /\ NewNode(l) \in PlainNode /\ NewNode(l).level = l
           /\ ~ NewNode(l).selected /\ ~ NewNode(l).loaded
BY DEF PlainNode, LoadedNode, NewNode

LEMMA AddNodesGrows ==
    ASSUME GraphTyped, NEW level \in Int, NEW uris, NEW joined, NEW u \in DOMAIN nodes,
           NEW up, NEW select \in BOOLEAN, AddNodesAt(level, uris, joined, u, up, select)
    PROVE  GrownTo(nodes, nodes', u, uris, level, select)
<1> DEFINE D == DOMAIN nodes
           value(v) == IF v = u THEN LoadedNode(nodes[v], select)
                       ELSE IF v \in D THEN nodes[v] ELSE NewNode(level)
<1>1. nodes' = [v \in D \cup uris |-> value(v)]
  BY DEF AddNodesAt, LoadedNode, NewNode
<1>2. \A v \in D : nodes[v] \in PlainNode
  BY DEF GraphTyped
<1>3. \A v \in D : LoadedNode(nodes[v], select) \in PlainNode
  BY <1>2, NodeChanges
<1>4. NewNode(level) \in PlainNode
  <2>1. nodes[u] \in PlainNode
    BY <1>2
  <2> QED
    BY <2>1, NodeChanges
<1>5. \A v \in D \cup uris : value(v) \in PlainNode
  BY <1>2, <1>3, <1>4
<1>6. DOMAIN nodes' = D \cup uris /\ \A v \in D \cup uris : nodes'[v] = value(v)
  BY <1>1
<1>7. nodes' \in [D \cup uris -> PlainNode]
  BY <1>1, <1>5
<1>8. \A v \in D : v # u => nodes'[v] = nodes[v]
  BY <1>6
<1>9. nodes'[u] = LoadedNode(nodes[u], select)
  BY <1>6
<1>10. nodes[u] \in PlainNode
  BY <1>2
<1>11. nodes'[u].loaded /\ (nodes'[u].selected <=> nodes[u].selected \/ select) /\ nodes'[u].level = nodes[u].level
  BY <1>9, <1>10, NodeChanges
<1>12. \A v \in D : nodes'[v].level = nodes[v].level
  BY <1>8, <1>11
<1>13. \A v \in uris \ D : nodes'[v] = NewNode(level)
  BY <1>6
<1>14. NewNode(level).level = level /\ ~ NewNode(level).selected /\ ~ NewNode(level).loaded
  BY <1>10, NodeChanges
<1> QED
  BY <1>6, <1>7, <1>8, <1>11, <1>12, <1>13, <1>14 DEF GrownTo

(* What an answer adds to the edges.                                       *)
Answered(c) == IF c.upstream THEN Upstreams(c.uri) ELSE Downstreams(c.uri)
LevelOfAnswer(c) == nodes[c.uri].level + (IF c.upstream THEN -1 ELSE 1)

LEMMA AnswerGrows ==
    ASSUME GraphTyped, NEW c \in lineageCalls, GetLineageData(c)
    PROVE  /\ c \in LineageCall /\ c.uri \in DOMAIN nodes
           /\ LevelOfAnswer(c) \in Int /\ Answered(c) \subseteq LineageUris
           /\ \A v : v \in Answered(c) <=> IF c.upstream THEN <<c.uri, v>> \in lineage ELSE <<v, c.uri>> \in lineage
           /\ GrownTo(nodes, nodes', c.uri, Answered(c), LevelOfAnswer(c), c.first /\ c.upstream)
           /\ \A v, w : <<v, w>> \in edges' <=>
                 \/ <<v, w>> \in edges
                 \/ c.upstream /\ v = c.uri /\ <<v, w>> \in lineage
                 \/ ~ c.upstream /\ w = c.uri /\ <<v, w>> \in lineage
           /\ \A e \in edges' : \E v, w : e = <<v, w>>
           /\ UNCHANGED <<lineage, graphOf, firstFailed, frozen, movedOn>>
<1>1. c \in LineageCall /\ c.uri \in DOMAIN nodes /\ lineage \subseteq LineageUris \X LineageUris
  BY LineageAssumption DEF GraphTyped
<1>2. nodes[c.uri].level \in Int
  BY <1>1 DEF GraphTyped, PlainNode
<1>3. LevelOfAnswer(c) \in Int
  BY <1>2 DEF LevelOfAnswer
<1>4. /\ \A u, v : v \in Upstreams(u) <=> <<u, v>> \in lineage
      /\ \A u, v : v \in Downstreams(u) <=> <<v, u>> \in lineage
  <2>1. \A q \in lineage : q = <<q[1], q[2]>>
    BY <1>1
  <2>2. ASSUME NEW u, NEW v PROVE v \in Upstreams(u) <=> <<u, v>> \in lineage
    <3>1. v \in Upstreams(u) => <<u, v>> \in lineage
      BY <2>1 DEF Upstreams
    <3>2. ASSUME <<u, v>> \in lineage PROVE v \in Upstreams(u)
      <4> DEFINE q == <<u, v>>
      <4>1. q \in lineage /\ q[1] = u /\ q[2] = v
        BY <3>2
      <4> QED
        BY <4>1 DEF Upstreams
    <3> QED
      BY <3>1, <3>2
  <2>3. ASSUME NEW u, NEW v PROVE v \in Downstreams(u) <=> <<v, u>> \in lineage
    <3>1. v \in Downstreams(u) => <<v, u>> \in lineage
      BY <2>1 DEF Downstreams
    <3>2. ASSUME <<v, u>> \in lineage PROVE v \in Downstreams(u)
      <4> DEFINE q == <<v, u>>
      <4>1. q \in lineage /\ q[1] = v /\ q[2] = u
        BY <3>2
      <4> QED
        BY <4>1 DEF Downstreams
    <3> QED
      BY <3>1, <3>2
  <2> QED
    BY <2>2, <2>3
<1>5. \A v : v \in Answered(c) <=> IF c.upstream THEN <<c.uri, v>> \in lineage ELSE <<v, c.uri>> \in lineage
  BY <1>4 DEF Answered
<1>6. Answered(c) \subseteq LineageUris
  <2>1. \A u, v : <<u, v>> \in lineage => u \in LineageUris /\ v \in LineageUris
    BY <1>1
  <2> QED
    BY <1>5, <2>1
<1>7. AddNodesAt(LevelOfAnswer(c), Answered(c), Answered(c), c.uri, c.upstream, c.first /\ c.upstream)
  BY DEF GetLineageData, AddNodes, LevelBeyond, LevelOfAnswer, Answered
<1>8. (c.first /\ c.upstream) \in BOOLEAN
  OBVIOUS
<1>9. GrownTo(nodes, nodes', c.uri, Answered(c), LevelOfAnswer(c), c.first /\ c.upstream)
  BY <1>1, <1>3, <1>7, <1>8, AddNodesGrows
<1>10. edges' = edges \cup (IF c.upstream THEN {c.uri} \X Answered(c) ELSE Answered(c) \X {c.uri})
  BY <1>7 DEF AddNodesAt
<1>11. \A v, w : <<v, w>> \in edges' <=>
                 \/ <<v, w>> \in edges
                 \/ c.upstream /\ v = c.uri /\ <<v, w>> \in lineage
                 \/ ~ c.upstream /\ w = c.uri /\ <<v, w>> \in lineage
  BY <1>5, <1>10
<1>12. \A e \in edges' : \E v, w : e = <<v, w>>
  BY <1>10 DEF GraphTyped
<1> QED
  BY <1>1, <1>3, <1>5, <1>6, <1>9, <1>11, <1>12 DEF GetLineageData

(* Who is called is asked once for each half, the first request for both.  *)
LEMMA CallsAfterAnswer ==
    ASSUME GraphTyped, NEW c \in lineageCalls, GetLineageData(c), NEW d \in lineageCalls'
    PROVE  /\ d \in LineageCall
           /\ \/ d \in lineageCalls
              \/ c.first /\ ~ c.upstream /\ d.uri = c.uri /\ d.first /\ d.upstream
<1> DEFINE e == [c EXCEPT !.upstream = TRUE]
<1>1. c \in LineageCall
  BY DEF GraphTyped
<1>2. e \in LineageCall /\ e.uri = c.uri /\ e.first = c.first /\ e.upstream
  BY <1>1 DEF LineageCall
<1>3. d \in lineageCalls \/ (c.first /\ ~ c.upstream /\ d = e)
  BY DEF GetLineageData
<1> HIDE DEF e
<1> QED
  BY <1>2, <1>3 DEF GraphTyped

LEMMA AnswerKeepsTypes ==
    ASSUME LineageInv, NEW c \in lineageCalls, GetLineageData(c)
    PROVE  GraphTyped'
<1> DEFINE more == Answered(c)
<1>1. GraphTyped
  BY DEF LineageInv
<1>2. /\ c.uri \in DOMAIN nodes /\ more \subseteq LineageUris
      /\ \A v : v \in more <=> IF c.upstream THEN <<c.uri, v>> \in lineage ELSE <<v, c.uri>> \in lineage
      /\ \A v, w : <<v, w>> \in edges' <=>
            \/ <<v, w>> \in edges
            \/ c.upstream /\ v = c.uri /\ <<v, w>> \in lineage
            \/ ~ c.upstream /\ w = c.uri /\ <<v, w>> \in lineage
      /\ \A e \in edges' : \E v, w : e = <<v, w>>
      /\ UNCHANGED <<lineage, graphOf, firstFailed, frozen, movedOn>>
  BY <1>1, AnswerGrows
<1>3. DOMAIN nodes' = DOMAIN nodes \cup more /\ nodes' \in [DOMAIN nodes' -> PlainNode]
  BY <1>1, AnswerGrows DEF GrownTo
<1> HIDE DEF more
<1>4. \A v, w : <<v, w>> \in edges' => v \in DOMAIN nodes' /\ w \in DOMAIN nodes' /\ <<v, w>> \in lineage
  <2>1. \A v, w : <<v, w>> \in edges => v \in DOMAIN nodes /\ w \in DOMAIN nodes /\ <<v, w>> \in lineage
    BY <1>1 DEF GraphTyped
  <2>2. c.uri \in DOMAIN nodes' /\ \A v \in DOMAIN nodes \cup more : v \in DOMAIN nodes'
    BY <1>2, <1>3
  <2>3. c.upstream => \A w : <<c.uri, w>> \in lineage => w \in more
    BY <1>2
  <2>4. ~ c.upstream => \A v : <<v, c.uri>> \in lineage => v \in more
    BY <1>2
  <2> SUFFICES ASSUME NEW v, NEW w, <<v, w>> \in edges'
               PROVE  v \in DOMAIN nodes' /\ w \in DOMAIN nodes' /\ <<v, w>> \in lineage
    OBVIOUS
  <2>5. CASE <<v, w>> \in edges
    BY <2>1, <2>2, <2>5
  <2>6. CASE c.upstream /\ v = c.uri /\ <<v, w>> \in lineage
    BY <2>2, <2>3, <2>6
  <2>7. CASE ~ c.upstream /\ w = c.uri /\ <<v, w>> \in lineage
    BY <2>2, <2>4, <2>7
  <2> QED
    BY <1>2, <2>5, <2>6, <2>7
<1>5. edges' \subseteq (DOMAIN nodes') \X (DOMAIN nodes') /\ edges' \subseteq lineage
  BY <1>2, <1>4
<1>6. \A d \in lineageCalls' : d \in LineageCall /\ d.uri \in DOMAIN nodes'
  <2> SUFFICES ASSUME NEW d \in lineageCalls' PROVE d \in LineageCall /\ d.uri \in DOMAIN nodes'
    OBVIOUS
  <2>1. d \in LineageCall /\ (d \in lineageCalls \/ d.uri = c.uri)
    BY <1>1, CallsAfterAnswer
  <2> QED
    BY <1>1, <1>2, <1>3, <2>1 DEF GraphTyped
<1>7. DOMAIN nodes' \subseteq LineageUris
  BY <1>1, <1>2, <1>3 DEF GraphTyped
<1> QED
  BY <1>1, <1>2, <1>3, <1>5, <1>6, <1>7 DEF GraphTyped

LEMMA AnswerKeepsComplete ==
    ASSUME LineageInv, NEW c \in lineageCalls, GetLineageData(c)
    PROVE  /\ Chained(nodes)' /\ CallsAreReady(nodes, edges, lineageCalls, lineage)'
           /\ LoadedIsFed(nodes, edges, lineage)'
<1> DEFINE more == Answered(c)
           D == DOMAIN nodes
           l == LevelOfAnswer(c)
           M == nodes'
<1>1. GraphTyped /\ Chained(nodes) /\ CallsAreReady(nodes, edges, lineageCalls, lineage) /\ LoadedIsFed(nodes, edges, lineage)
  BY DEF LineageInv
<1>2. /\ c.uri \in D /\ c \in LineageCall /\ lineage' = lineage
      /\ \A v, w : <<v, w>> \in edges => <<v, w>> \in edges'
      /\ ~ c.upstream => \A v : <<v, c.uri>> \in lineage => <<v, c.uri>> \in edges'
  BY <1>1, AnswerGrows
<1>3. /\ DOMAIN M = D \cup more
      /\ \A v \in D : M[v].level = nodes[v].level /\ (v # c.uri => M[v] = nodes[v])
      /\ \A v \in more \ D : M[v].level = l /\ ~ M[v].selected /\ ~ M[v].loaded
  BY <1>1, AnswerGrows DEF GrownTo
<1>4. /\ l = nodes[c.uri].level + (IF c.upstream THEN -1 ELSE 1) /\ \A v \in D : nodes[v].level \in Int
  BY <1>1 DEF LevelOfAnswer, GraphTyped, PlainNode
<1> HIDE DEF M, l, more
<1>5. Chained(M)
  <2> SUFFICES ASSUME NEW u \in DOMAIN M
               PROVE  /\ M[u].level > 0 => \E v \in DOMAIN M : M[v].level = M[u].level - 1
                      /\ M[u].level < 0 => \E v \in DOMAIN M : M[v].level = M[u].level + 1
    BY DEF Chained
  <2>1. CASE u \in D
    <3>1. M[u].level = nodes[u].level
      BY <1>3, <2>1
    <3>2. /\ nodes[u].level > 0 => \E v \in D : nodes[v].level = nodes[u].level - 1
          /\ nodes[u].level < 0 => \E v \in D : nodes[v].level = nodes[u].level + 1
      BY <1>1, <2>1 DEF Chained
    <3> QED
      BY <1>3, <3>1, <3>2
  <2>2. CASE u \notin D
    <3>1. M[u].level = l
      BY <1>3, <2>2
    <3>2. c.uri \in DOMAIN M /\ M[c.uri].level = nodes[c.uri].level /\ nodes[c.uri].level \in Int
      BY <1>2, <1>3, <1>4
    <3>3. CASE c.upstream
      <4>1. l = nodes[c.uri].level - 1
        BY <1>4, <3>2, <3>3
      <4>2. l < 0 => nodes[c.uri].level = l + 1
        BY <3>2, <4>1
      <4>3. l > 0 => nodes[c.uri].level > 0
        BY <3>2, <4>1
      <4>4. CASE l > 0
        <5> DEFINE k == nodes[c.uri].level
        <5>1. PICK v \in D : nodes[v].level = k - 1
          BY <1>1, <1>2, <4>3, <4>4 DEF Chained
        <5>2. PICK w \in D : nodes[w].level = (k - 1) - 1
          <6>1. nodes[v].level > 0
            BY <3>2, <4>1, <4>4, <5>1
          <6>2. PICK w \in D : nodes[w].level = nodes[v].level - 1
            BY <1>1, <6>1 DEF Chained
          <6> QED
            BY <5>1, <6>2
        <5>3. w \in DOMAIN M /\ M[w].level = l - 1
          BY <1>3, <4>1, <5>2
        <5> QED
          BY <1>4, <3>1, <3>2, <4>1, <4>4, <5>3
      <4>5. CASE ~ (l > 0)
        BY <3>1, <3>2, <4>2, <4>5
      <4> QED
        BY <4>4, <4>5
    <3>4. CASE ~ c.upstream
      <4>1. l = nodes[c.uri].level + 1
        BY <1>4, <3>2, <3>4
      <4>2. l > 0 => nodes[c.uri].level = l - 1
        BY <3>2, <4>1
      <4>3. CASE l < 0
        <5> DEFINE k == nodes[c.uri].level
        <5>1. PICK v \in D : nodes[v].level = k + 1
          BY <1>1, <1>2, <3>2, <4>1, <4>3 DEF Chained
        <5>2. PICK w \in D : nodes[w].level = (k + 1) + 1
          <6>1. nodes[v].level < 0
            BY <3>2, <4>1, <4>3, <5>1
          <6>2. PICK w \in D : nodes[w].level = nodes[v].level + 1
            BY <1>1, <6>1 DEF Chained
          <6> QED
            BY <5>1, <6>2
        <5>3. w \in DOMAIN M /\ M[w].level = l + 1
          BY <1>3, <4>1, <5>2
        <5> QED
          BY <1>4, <3>1, <3>2, <4>1, <4>3, <5>3
      <4>4. CASE ~ (l < 0)
        BY <3>1, <3>2, <4>2, <4>4
      <4> QED
        BY <4>3, <4>4
    <3> QED
      BY <3>3, <3>4
  <2> QED
    BY <2>1, <2>2
<1>6. \A u : FedIn(lineage, edges, u) => FedIn(lineage, edges', u)
  BY <1>2 DEF FedIn
<1>7. ~ c.upstream => FedIn(lineage, edges', c.uri)
  BY <1>2 DEF FedIn
<1>8. CallsAreReady(M, edges', lineageCalls', lineage)
  <2> SUFFICES ASSUME NEW d \in lineageCalls', d.upstream, M[d.uri].level >= 0
               PROVE  d.first /\ FedIn(lineage, edges', d.uri)
    BY DEF CallsAreReady
  <2>1. d \in lineageCalls \/ (c.first /\ ~ c.upstream /\ d.uri = c.uri /\ d.first)
    BY <1>1, CallsAfterAnswer
  <2>2. CASE d \in lineageCalls
    <3>1. d.uri \in D
      BY <1>1, <2>2 DEF GraphTyped
    <3>2. nodes[d.uri].level >= 0
      BY <1>3, <3>1
    <3> QED
      BY <1>1, <1>6, <2>2, <3>2 DEF CallsAreReady
  <2>3. CASE c.first /\ ~ c.upstream /\ d.uri = c.uri /\ d.first
    BY <1>7, <2>3
  <2> QED
    BY <2>1, <2>2, <2>3
<1>9. LoadedIsFed(M, edges', lineage)
  <2> SUFFICES ASSUME NEW u \in DOMAIN M, M[u].loaded, M[u].level >= 0
               PROVE  FedIn(lineage, edges', u)
    BY DEF LoadedIsFed
  <2>1. u \in D
    BY <1>3
  <2>2. CASE u # c.uri
    <3>1. M[u] = nodes[u]
      BY <1>3, <2>1, <2>2
    <3> QED
      BY <1>1, <1>6, <2>1, <3>1 DEF LoadedIsFed
  <2>3. CASE u = c.uri
    <3>1. nodes[c.uri].level >= 0
      BY <1>3, <2>1, <2>3
    <3>2. c.upstream => FedIn(lineage, edges, c.uri)
      BY <1>1, <3>1 DEF CallsAreReady
    <3> QED
      BY <1>2, <1>6, <1>7, <2>3, <3>2
  <2> QED
    BY <2>2, <2>3
<1> QED
  BY <1>2, <1>5, <1>8, <1>9 DEF M

(* A dataset that feeds one with a level below 0, or is fed by one above.  *)
LEMMA RelationsGoOn ==
    ASSUME NEW known, NEW N, NEW root \in LineageUris, DOMAIN N \subseteq LineageUris,
           RootIsAlone(N, root), NodesAreRelated(N, known, root),
           NEW u \in DOMAIN N, N[u].level \in Int, NEW v \in LineageUris
    PROVE  /\ <<v, u>> \in known /\ N[u].level >= 0 => v \in Reach(known, root)
           /\ <<u, v>> \in known /\ N[u].level <= 0 => root \in Reach(known, v)
<1>1. ASSUME <<v, u>> \in known, N[u].level >= 0 PROVE v \in Reach(known, root)
  <2>1. v \in FedBy(known, u)
    BY <1>1 DEF FedBy
  <2>2. CASE N[u].level = 0
    <3>1. u = root
      BY <2>2 DEF RootIsAlone
    <3> QED
      BY <2>1, <3>1, ReachFollows
  <2>3. CASE N[u].level > 0
    <3>1. u \in Reach(known, root)
      BY <2>3 DEF NodesAreRelated
    <3> QED
      BY <2>1, <3>1, ReachFollows
  <2> QED
    BY <1>1, <2>2, <2>3
<1>2. ASSUME <<u, v>> \in known, N[u].level <= 0 PROVE root \in Reach(known, v)
  <2>1. u \in FedBy(known, v)
    BY <1>2 DEF FedBy
  <2>2. u \in Reach(known, v) /\ Reach(known, u) \subseteq Reach(known, v)
    BY <2>1, ReachIsTransitive
  <2>3. CASE N[u].level = 0
    <3>1. u = root
      BY <2>3 DEF RootIsAlone
    <3> QED
      BY <2>2, <3>1
  <2>4. CASE N[u].level < 0
    <3>1. root \in Reach(known, u)
      BY <2>4 DEF NodesAreRelated
    <3> QED
      BY <2>2, <3>1
  <2> QED
    BY <1>2, <2>3, <2>4
<1> QED
  BY <1>1, <1>2

LEMMA AnswerKeepsPage ==
    ASSUME LineageInv, ~ movedOn, NEW c \in lineageCalls, GetLineageData(c)
    PROVE  IsOfOnePage(nodes, edges, lineageCalls, lineage, graphOf)'
<1> DEFINE more == Answered(c)
           D == DOMAIN nodes
           l == LevelOfAnswer(c)
           M == nodes'
           E == edges'
           root == graphOf
<1>1. /\ GraphTyped /\ RootIsAlone(nodes, root) /\ CallsHaveSides(nodes, lineageCalls, root)
      /\ LoadedFeeds(nodes, edges, lineage) /\ EdgesHaveSides(nodes, edges)
      /\ NodesAreRelated(nodes, lineage, root) /\ NodesAreJoined(nodes, edges)
  BY DEF LineageInv, IsOfOnePage
<1>2. /\ c.uri \in D /\ c \in LineageCall /\ more \subseteq LineageUris
      /\ \A v : v \in more <=> IF c.upstream THEN <<c.uri, v>> \in lineage ELSE <<v, c.uri>> \in lineage
      /\ \A v, w : <<v, w>> \in E <=>
            \/ <<v, w>> \in edges
            \/ c.upstream /\ v = c.uri /\ <<v, w>> \in lineage
            \/ ~ c.upstream /\ w = c.uri /\ <<v, w>> \in lineage
      /\ lineage' = lineage /\ graphOf' = graphOf
  BY <1>1, AnswerGrows
<1>3. /\ DOMAIN M = D \cup more
      /\ \A v \in D : M[v].level = nodes[v].level /\ (v # c.uri => M[v] = nodes[v])
      /\ \A v \in more \ D : M[v].level = l /\ ~ M[v].selected /\ ~ M[v].loaded
  BY <1>1, AnswerGrows DEF GrownTo
<1>4. /\ l = nodes[c.uri].level + (IF c.upstream THEN -1 ELSE 1)
      /\ \A v \in D : nodes[v].level \in Int
      /\ D \subseteq LineageUris /\ root \in LineageUris
  BY <1>1 DEF LevelOfAnswer, GraphTyped, PlainNode
<1>5. /\ IF c.upstream THEN nodes[c.uri].level <= 0 ELSE nodes[c.uri].level >= 0
      /\ c.first => c.uri = root
  BY <1>1 DEF CallsHaveSides
<1>6. l \in Int /\ IF c.upstream THEN l < 0 /\ l = nodes[c.uri].level - 1 ELSE l > 0 /\ l = nodes[c.uri].level + 1
  BY <1>2, <1>4, <1>5
<1> HIDE DEF M, l, more, E
<1>7. RootIsAlone(M, root)
  <2>1. root \in DOMAIN M
    BY <1>1, <1>3 DEF RootIsAlone
  <2>2. ASSUME NEW u \in DOMAIN M PROVE M[u].level = 0 <=> u = root
    <3>1. CASE u \in D
      BY <1>1, <1>3, <3>1 DEF RootIsAlone
    <3>2. CASE u \notin D
      <4>1. M[u].level = l /\ u # root
        BY <1>1, <1>3, <3>2 DEF RootIsAlone
      <4> QED
        BY <1>6, <4>1
    <3> QED
      BY <3>1, <3>2
  <2> QED
    BY <2>1, <2>2 DEF RootIsAlone
<1>8. CallsHaveSides(M, lineageCalls', root)
  <2> SUFFICES ASSUME NEW d \in lineageCalls'
               PROVE  /\ d.first => d.uri = root
                      /\ IF d.upstream THEN M[d.uri].level <= 0 ELSE M[d.uri].level >= 0
    BY DEF CallsHaveSides
  <2>1. d \in lineageCalls \/ (c.first /\ ~ c.upstream /\ d.uri = c.uri /\ d.first /\ d.upstream)
    BY <1>1, CallsAfterAnswer
  <2>2. CASE d \in lineageCalls
    <3>1. d.uri \in D
      BY <1>1, <2>2 DEF GraphTyped
    <3> QED
      BY <1>1, <1>3, <2>2, <3>1 DEF CallsHaveSides
  <2>3. CASE c.first /\ ~ c.upstream /\ d.uri = c.uri /\ d.first /\ d.upstream
    <3>1. d.uri = root /\ M[d.uri].level = 0
      BY <1>5, <1>7, <2>3 DEF RootIsAlone
    <3> QED
      BY <2>3, <3>1
  <2> QED
    BY <2>1, <2>2, <2>3
<1>9. LoadedFeeds(M, E, lineage)
  <2> SUFFICES ASSUME NEW u \in DOMAIN M, M[u].loaded, M[u].level < 0 PROVE FeedsIn(lineage, E, u)
    BY DEF LoadedFeeds
  <2>1. u \in D
    BY <1>3
  <2>2. CASE u # c.uri
    <3>1. M[u] = nodes[u]
      BY <1>3, <2>1, <2>2
    <3>2. FeedsIn(lineage, edges, u)
      BY <1>1, <2>1, <3>1 DEF LoadedFeeds
    <3> QED
      BY <1>2, <3>2 DEF FeedsIn
  <2>3. CASE u = c.uri
    <3>1. nodes[c.uri].level < 0
      BY <1>3, <2>1, <2>3
    <3>2. c.upstream
      BY <1>2, <1>4, <1>5, <3>1
    <3> QED
      BY <1>2, <2>3, <3>2 DEF FeedsIn
  <2> QED
    BY <2>2, <2>3
<1>10. M[c.uri].level = nodes[c.uri].level /\ c.uri \in DOMAIN M
  BY <1>2, <1>3
<1>11. EdgesHaveSides(M, E)
  <2> SUFFICES ASSUME NEW u \in DOMAIN M, NEW p \in DOMAIN M, <<u, p>> \in E
               PROVE  M[p].level >= 0 \/ M[u].level <= 0
    BY DEF EdgesHaveSides
  <2>1. CASE <<u, p>> \in edges
    <3>1. u \in D /\ p \in D
      BY <1>1, <2>1 DEF GraphTyped
    <3> QED
      BY <1>1, <1>3, <2>1, <3>1 DEF EdgesHaveSides
  <2>2. CASE c.upstream /\ u = c.uri
    BY <1>5, <1>10, <2>2
  <2>3. CASE ~ c.upstream /\ p = c.uri
    BY <1>5, <1>10, <2>3
  <2> QED
    BY <1>2, <2>1, <2>2, <2>3
<1>12. NodesAreRelated(M, lineage, root)
  <2> SUFFICES ASSUME NEW u \in DOMAIN M
               PROVE  /\ M[u].level > 0 => u \in Reach(lineage, root)
                      /\ M[u].level < 0 => root \in Reach(lineage, u)
    BY DEF NodesAreRelated
  <2>1. CASE u \in D
    BY <1>1, <1>3, <2>1 DEF NodesAreRelated
  <2>2. CASE u \notin D
    <3>1. M[u].level = l /\ u \in more /\ u \in LineageUris
      BY <1>2, <1>3, <2>2
    <3>2. /\ <<u, c.uri>> \in lineage /\ nodes[c.uri].level >= 0 => u \in Reach(lineage, root)
          /\ <<c.uri, u>> \in lineage /\ nodes[c.uri].level <= 0 => root \in Reach(lineage, u)
      BY <1>1, <1>2, <1>4, <3>1, RelationsGoOn
    <3>3. CASE c.upstream
      BY <1>2, <1>5, <1>6, <3>1, <3>2, <3>3
    <3>4. CASE ~ c.upstream
      BY <1>2, <1>5, <1>6, <3>1, <3>2, <3>4
    <3> QED
      BY <3>3, <3>4
  <2> QED
    BY <2>1, <2>2
<1>13. NodesAreJoined(M, E)
  <2> SUFFICES ASSUME NEW u \in DOMAIN M
               PROVE  /\ M[u].level > 0 => \E p \in DOMAIN M : <<u, p>> \in E
                      /\ M[u].level < 0 => \E d \in DOMAIN M : <<d, u>> \in E
    BY DEF NodesAreJoined
  <2>1. CASE u \in D
    <3>1. /\ nodes[u].level > 0 => \E p \in D : <<u, p>> \in edges
          /\ nodes[u].level < 0 => \E d \in D : <<d, u>> \in edges
      BY <1>1, <2>1 DEF NodesAreJoined
    <3> QED
      BY <1>2, <1>3, <2>1, <3>1
  <2>2. CASE u \notin D
    <3>1. M[u].level = l /\ u \in more
      BY <1>3, <2>2
    <3>2. CASE c.upstream
      <4>1. <<c.uri, u>> \in E
        BY <1>2, <3>1, <3>2
      <4> QED
        BY <1>6, <1>10, <3>1, <3>2, <4>1
    <3>3. CASE ~ c.upstream
      <4>1. <<u, c.uri>> \in E
        BY <1>2, <3>1, <3>3
      <4> QED
        BY <1>6, <1>10, <3>1, <3>3, <4>1
    <3> QED
      BY <3>2, <3>3
  <2> QED
    BY <2>1, <2>2
<1> QED
  BY <1>2, <1>7, <1>8, <1>9, <1>11, <1>12, <1>13 DEF IsOfOnePage, M, E

LEMMA AnswerKeepsSelection ==
    ASSUME LineageInv, ~ movedOn, SelectionLeadsBack(nodes, edges),
           NEW c \in lineageCalls, GetLineageData(c)
    PROVE  SelectionLeadsBack(nodes, edges)'
<1> DEFINE more == Answered(c)
           D == DOMAIN nodes
           M == nodes'
           E == edges'
<1>1. GraphTyped /\ CallsHaveSides(nodes, lineageCalls, graphOf) /\ RootIsAlone(nodes, graphOf)
  BY DEF LineageInv, IsOfOnePage
<1>2. c.uri \in D /\ \A v, w : <<v, w>> \in edges => <<v, w>> \in E
  BY <1>1, AnswerGrows
<1>3. /\ DOMAIN M = D \cup more
      /\ \A v \in D : M[v].level = nodes[v].level /\ (v # c.uri => M[v] = nodes[v])
      /\ (M[c.uri].selected <=> nodes[c.uri].selected \/ (c.first /\ c.upstream))
      /\ \A v \in more \ D : ~ M[v].selected
  BY <1>1, AnswerGrows DEF GrownTo
<1>4. c.first => nodes[c.uri].level = 0
  BY <1>1, <1>2 DEF CallsHaveSides, RootIsAlone
<1> HIDE DEF M, E, more
<1>5. \A v \in D : nodes[v].selected => M[v].selected
  <2> SUFFICES ASSUME NEW v \in D, nodes[v].selected PROVE M[v].selected
    OBVIOUS
  <2>1. CASE v = c.uri
    BY <1>3, <2>1
  <2>2. CASE v # c.uri
    BY <1>3, <2>2
  <2> QED
    BY <2>1, <2>2
<1>6. SelectionLeadsBack(M, E)
  <2> SUFFICES ASSUME NEW u \in DOMAIN M, M[u].selected
               PROVE  /\ M[u].level > 0 => \E p \in DOMAIN M : <<u, p>> \in E /\ M[p].selected
                      /\ M[u].level < 0 => \E d \in DOMAIN M : <<d, u>> \in E /\ M[d].selected
    BY DEF SelectionLeadsBack
  <2>1. u \in D /\ M[u].level = nodes[u].level
    BY <1>3
  <2>2. CASE nodes[u].selected
    <3>1. /\ nodes[u].level > 0 => \E p \in D : <<u, p>> \in edges /\ nodes[p].selected
          /\ nodes[u].level < 0 => \E d \in D : <<d, u>> \in edges /\ nodes[d].selected
      BY <2>1, <2>2 DEF SelectionLeadsBack
    <3> QED
      BY <1>2, <1>3, <1>5, <2>1, <3>1
  <2>3. CASE ~ nodes[u].selected
    <3>1. u = c.uri
      BY <1>3, <2>1, <2>3
    <3>2. c.first
      BY <1>3, <2>3, <3>1
    <3> QED
      BY <1>4, <2>1, <3>1, <3>2
  <2> QED
    BY <2>2, <2>3
<1> QED
  BY <1>6 DEF M, E

(* Steps that leave the levels and what is loaded: they may add a node at  *)
(* level 0, and requests that are ready.                                   *)
SameShape(N, M) ==
    /\ DOMAIN N \subseteq DOMAIN M
    /\ \A v \in DOMAIN N : M[v].level = N[v].level /\ M[v].loaded = N[v].loaded
    /\ \A v \in DOMAIN M \ DOMAIN N : M[v].level = 0 /\ ~ M[v].loaded

LEMMA ShapeKeepsComplete ==
    ASSUME NEW N, NEW M, NEW E, NEW C, NEW C2, NEW known,
           SameShape(N, M), \A c \in C : c.uri \in DOMAIN N,
           \A d \in C2 : d \in C \/ ~ d.upstream \/ M[d.uri].level < 0,
           \A v \in DOMAIN M : M[v].level \in Int, \A d \in C2 : d.uri \in DOMAIN M,
           Chained(N), CallsAreReady(N, E, C, known), LoadedIsFed(N, E, known)
    PROVE  Chained(M) /\ CallsAreReady(M, E, C2, known) /\ LoadedIsFed(M, E, known)
<1>1. Chained(M)
  <2> SUFFICES ASSUME NEW u \in DOMAIN M
               PROVE  /\ M[u].level > 0 => \E v \in DOMAIN M : M[v].level = M[u].level - 1
                      /\ M[u].level < 0 => \E v \in DOMAIN M : M[v].level = M[u].level + 1
    BY DEF Chained
  <2>1. CASE u \in DOMAIN N
    <3>1. /\ N[u].level > 0 => \E v \in DOMAIN N : N[v].level = N[u].level - 1
          /\ N[u].level < 0 => \E v \in DOMAIN N : N[v].level = N[u].level + 1
      BY <2>1 DEF Chained
    <3> QED
      BY <2>1, <3>1 DEF SameShape
  <2>2. CASE u \notin DOMAIN N
    BY <2>2 DEF SameShape
  <2> QED
    BY <2>1, <2>2
<1>2. CallsAreReady(M, E, C2, known)
  <2> SUFFICES ASSUME NEW d \in C2, d.upstream, M[d.uri].level >= 0
               PROVE  d.first /\ FedIn(known, E, d.uri)
    BY DEF CallsAreReady
  <2>1. d \in C
    <3>1. ~ (M[d.uri].level < 0)
      OBVIOUS
    <3> QED
      BY <3>1
  <2>2. N[d.uri].level >= 0
    BY <2>1 DEF SameShape
  <2> QED
    BY <2>1, <2>2 DEF CallsAreReady
<1>3. LoadedIsFed(M, E, known)
  BY DEF LoadedIsFed, SameShape
<1> QED
  BY <1>1, <1>2, <1>3

(* A click selects and unselects.                                          *)
SelectedAs(n, b) == [n EXCEPT !.selected = b]

LEMMA SelectionChanges ==
    ASSUME NEW n \in PlainNode, NEW b \in BOOLEAN
    PROVE  /\ SelectedAs(n, b) \in PlainNode /\ SelectedAs(n, b).selected = b
           /\ SelectedAs(n, b).level = n.level /\ SelectedAs(n, b).loaded = n.loaded
BY DEF PlainNode, SelectedAs

LEMMA SelectSelects ==
    ASSUME GraphTyped, NEW u \in DOMAIN nodes, NEW off, NEW on, Select(u, off, on)
    PROVE  /\ DOMAIN nodes' = DOMAIN nodes /\ nodes' \in [DOMAIN nodes -> PlainNode]
           /\ SameShape(nodes, nodes')
           /\ \A v \in DOMAIN nodes : nodes'[v].selected <=>
                 IF v = u THEN ~ nodes[v].selected ELSE v \in on \/ (nodes[v].selected /\ v \notin off)
<1> DEFINE chosen(v) == IF v = u THEN ~ nodes[v].selected ELSE v \in on \/ (nodes[v].selected /\ v \notin off)
<1>1. nodes' = [v \in DOMAIN nodes |-> SelectedAs(nodes[v], chosen(v))]
  BY DEF Select, SelectedAs
<1>2. \A v \in DOMAIN nodes : nodes[v] \in PlainNode
  BY DEF GraphTyped
<1>3. \A v \in DOMAIN nodes : chosen(v) \in BOOLEAN
  BY <1>2 DEF PlainNode
<1>4. ASSUME NEW v \in DOMAIN nodes
      PROVE  /\ SelectedAs(nodes[v], chosen(v)) \in PlainNode
             /\ SelectedAs(nodes[v], chosen(v)).selected = chosen(v)
             /\ SelectedAs(nodes[v], chosen(v)).level = nodes[v].level
             /\ SelectedAs(nodes[v], chosen(v)).loaded = nodes[v].loaded
  <2> HIDE DEF chosen
  <2> QED
    BY <1>2, <1>3, SelectionChanges
<1>5. DOMAIN nodes' = DOMAIN nodes /\ \A v \in DOMAIN nodes : nodes'[v] = SelectedAs(nodes[v], chosen(v))
  <2> HIDE DEF chosen
  <2> QED
    BY <1>1
<1>6. nodes' \in [DOMAIN nodes -> PlainNode]
  <2> HIDE DEF chosen
  <2> QED
    BY <1>1, <1>4
<1>7. \A v \in DOMAIN nodes : nodes'[v].selected = chosen(v) /\ nodes'[v].level = nodes[v].level
                              /\ nodes'[v].loaded = nodes[v].loaded
  <2> HIDE DEF chosen
  <2> QED
    BY <1>4, <1>5
<1>8. SameShape(nodes, nodes')
  BY <1>5, <1>7 DEF SameShape
<1> QED
  BY <1>5, <1>6, <1>7, <1>8

(* A page keeps its levels, edges and requests: so it stays that of one    *)
(* dataset.                                                                *)
LEMMA ShapeKeepsPage ==
    ASSUME NEW N, NEW M, NEW E, NEW C, NEW C2, NEW known, NEW root,
           SameShape(N, M), DOMAIN M = DOMAIN N,
           \A c \in C : c.uri \in DOMAIN N,
           \A d \in C2 : d \in C \/ (/\ d.uri \in DOMAIN N /\ (d.first => d.uri = root)
                                     /\ IF d.upstream THEN N[d.uri].level <= 0 ELSE N[d.uri].level >= 0),
           IsOfOnePage(N, E, C, known, root)
    PROVE  IsOfOnePage(M, E, C2, known, root)
<1>1. \A v \in DOMAIN N : M[v].level = N[v].level /\ M[v].loaded = N[v].loaded
  BY DEF SameShape
<1>2. RootIsAlone(M, root)
  BY <1>1 DEF IsOfOnePage, RootIsAlone
<1>3. CallsHaveSides(M, C2, root)
  BY <1>1 DEF IsOfOnePage, CallsHaveSides
<1>4. LoadedFeeds(M, E, known) /\ EdgesHaveSides(M, E)
  BY <1>1 DEF IsOfOnePage, LoadedFeeds, EdgesHaveSides
<1>5. NodesAreRelated(M, known, root)
  BY <1>1 DEF IsOfOnePage, NodesAreRelated
<1>6. NodesAreJoined(M, E)
  BY <1>1 DEF IsOfOnePage, NodesAreJoined
<1> QED
  BY <1>2, <1>3, <1>4, <1>5, <1>6 DEF IsOfOnePage

(* What is found from an unselected node lies on its side of the graph.    *)
LEMMA HierarchyHasSides ==
    ASSUME GraphTyped, EdgesHaveSides(nodes, edges), NEW u \in DOMAIN nodes, NEW v
    PROVE  /\ nodes[u].level >= 0 /\ v \in HierarchyNodes(u, TRUE) => nodes[v].level >= 0
           /\ nodes[u].level <= 0 /\ v \in HierarchyNodes(u, FALSE) => nodes[v].level <= 0
<1> DEFINE D == DOMAIN nodes
           Lower == {x \in D : nodes[x].level >= 0}
           Upper == {x \in D : nodes[x].level <= 0}
<1>1. \A x \in D : nodes[x].level \in Int
  BY DEF GraphTyped, PlainNode
<1>2. \A x \in Lower \cap D : NextHierarchy(x, TRUE) \subseteq Lower
  <2> SUFFICES ASSUME NEW x \in Lower, NEW p \in NextHierarchy(x, TRUE) PROVE p \in Lower
    OBVIOUS
  <2>1. nodes[x].level # 0 /\ p \in D /\ <<x, p>> \in edges
    BY DEF NextHierarchy, ParentsOf
  <2>2. nodes[p].level >= 0 \/ nodes[x].level <= 0
    BY <2>1 DEF EdgesHaveSides
  <2> QED
    BY <1>1, <2>1, <2>2
<1>3. \A x \in Upper \cap D : NextHierarchy(x, FALSE) \subseteq Upper
  <2> SUFFICES ASSUME NEW x \in Upper, NEW c \in NextHierarchy(x, FALSE) PROVE c \in Upper
    OBVIOUS
  <2>1. nodes[x].level # 0 /\ c \in D /\ <<c, x>> \in edges
    BY DEF NextHierarchy, ChildrenOf
  <2>2. nodes[x].level >= 0 \/ nodes[c].level <= 0
    BY <2>1 DEF EdgesHaveSides
  <2> QED
    BY <1>1, <2>1, <2>2
<1>4. ASSUME nodes[u].level >= 0 PROVE HierarchyNodes(u, TRUE) \subseteq Lower
  <2> u \in Lower
    BY <1>4
  <2> HIDE DEF Lower, D
  <2> QED
    BY <1>2, HierarchyIsClosed DEF D
<1>5. ASSUME nodes[u].level <= 0 PROVE HierarchyNodes(u, FALSE) \subseteq Upper
  <2> u \in Upper
    BY <1>5
  <2> HIDE DEF Upper, D
  <2> QED
    BY <1>3, HierarchyIsClosed DEF D
<1> QED
  BY <1>4, <1>5

(* What is found from a selected node is fed by it, or feeds it.           *)
LEMMA HierarchyIsRelated ==
    ASSUME GraphTyped, NEW u \in DOMAIN nodes, NEW v
    PROVE  /\ v \in HierarchyNodes(u, FALSE) => v = u \/ v \in Reach(lineage, u)
           /\ v \in HierarchyNodes(u, TRUE) => v = u \/ u \in Reach(lineage, v)
<1> DEFINE D == DOMAIN nodes
           Fed == {u} \cup Reach(lineage, u)
           Feeding == {x \in D : x = u \/ u \in Reach(lineage, x)}
<1>1. \A x \in Fed \cap D : NextHierarchy(x, FALSE) \subseteq Fed
  <2> SUFFICES ASSUME NEW x \in Fed, NEW c \in NextHierarchy(x, FALSE) PROVE c \in Fed
    OBVIOUS
  <2>1. c \in FedBy(lineage, x)
    <3>1. c \in ChildrenOf(x)
      BY DEF NextHierarchy
    <3> QED
      BY <3>1, EdgesAreLineage
  <2>2. c \in Reach(lineage, u)
    BY <2>1, ReachFollows
  <2> QED
    BY <2>2
<1>2. \A x \in Feeding \cap D : NextHierarchy(x, TRUE) \subseteq Feeding
  <2> SUFFICES ASSUME NEW x \in Feeding, NEW p \in NextHierarchy(x, TRUE) PROVE p \in Feeding
    OBVIOUS
  <2>1. x \in FedBy(lineage, p) /\ p \in D
    <3>1. p \in ParentsOf(x)
      BY DEF NextHierarchy
    <3> QED
      BY <3>1, EdgesAreLineage
  <2>2. x \in Reach(lineage, p) /\ Reach(lineage, x) \subseteq Reach(lineage, p)
    BY <2>1, ReachIsTransitive
  <2> QED
    BY <2>1, <2>2
<1>3. HierarchyNodes(u, FALSE) \subseteq Fed
  <2> u \in Fed
    OBVIOUS
  <2> HIDE DEF Fed, D
  <2> QED
    BY <1>1, HierarchyIsClosed DEF D
<1>4. HierarchyNodes(u, TRUE) \subseteq Feeding
  <2> u \in Feeding
    OBVIOUS
  <2> HIDE DEF Feeding, D
  <2> QED
    BY <1>2, HierarchyIsClosed DEF D
<1> QED
  BY <1>3, <1>4

(* A toggle keeps the selection together: what is unselected leaves nothing*)
(* behind it selected, and what is selected leads back to the root.        *)
LEMMA ToggleKeepsSelection ==
    ASSUME GraphTyped, IsOfOnePage(nodes, edges, lineageCalls, lineage, graphOf), ~ IsCyclic,
           SelectionLeadsBack(nodes, edges), NEW u \in DOMAIN nodes,
           WalksOnToggle(u) => HierarchyEnds(u, ToggleUp(u)), Toggle(u)
    PROVE  SelectionLeadsBack(nodes', edges)
<1> DEFINE D == DOMAIN nodes
           M == nodes'
           root == graphOf
           up == ToggleUp(u)
           H == HierarchyNodes(u, up)
<1>1. /\ RootIsAlone(nodes, root) /\ EdgesHaveSides(nodes, edges)
      /\ NodesAreRelated(nodes, lineage, root) /\ NodesAreJoined(nodes, edges)
  BY DEF IsOfOnePage
<1>2. /\ \A v \in D : nodes[v].level \in Int /\ nodes[v].selected \in BOOLEAN
      /\ root \in D /\ D \subseteq LineageUris
  BY <1>1 DEF GraphTyped, PlainNode, RootIsAlone
<1>3. root \notin Reach(lineage, root)
  BY <1>2 DEF IsCyclic
<1>4. \A v \in D : nodes[v].level = 0 <=> v = root
  BY <1>1 DEF RootIsAlone
<1>5. u \in H /\ H \subseteq D
  BY HierarchyIsClosed
<1>6. PICK off, on : Select(u, off, on)
  BY DEF Toggle
<1>7. DOMAIN M = D /\ \A v \in D : M[v].level = nodes[v].level
  BY <1>6, SelectSelects DEF SameShape
<1> SUFFICES ASSUME NEW v \in D, M[v].selected
             PROVE  /\ nodes[v].level > 0 => \E p \in D : <<v, p>> \in edges /\ M[p].selected
                    /\ nodes[v].level < 0 => \E c \in D : <<c, v>> \in edges /\ M[c].selected
  BY <1>7 DEF SelectionLeadsBack
<1> HIDE DEF M
<1>8. nodes[v].selected =>
        /\ nodes[v].level > 0 => \E p \in D : <<v, p>> \in edges /\ nodes[p].selected
        /\ nodes[v].level < 0 => \E c \in D : <<c, v>> \in edges /\ nodes[c].selected
  BY DEF SelectionLeadsBack
<1>9. CASE nodes[u].selected /\ nodes[u].level = 0
  <2>1. Select(u, D, {})
    BY <1>9 DEF Toggle
  <2>2. M[v].selected <=> IF v = u THEN ~ nodes[v].selected ELSE v \in {} \/ (nodes[v].selected /\ v \notin D)
    BY <2>1, SelectSelects DEF M
  <2> QED
    BY <1>9, <2>2
<1>10. ASSUME nodes[u].selected, nodes[u].level # 0
       PROVE  /\ \A x \in D : M[x].selected <=> nodes[x].selected /\ x \notin H
              /\ HierarchyEnds(u, up)
  <2>1. Select(u, H, {})
    BY <1>10 DEF Toggle
  <2>2. \A x \in D : M[x].selected <=> IF x = u THEN ~ nodes[x].selected ELSE x \in {} \/ (nodes[x].selected /\ x \notin H)
    BY <2>1, SelectSelects DEF M
  <2>3. HierarchyEnds(u, up)
    BY <1>10 DEF WalksOnToggle
  <2> HIDE DEF H
  <2> QED
    BY <1>5, <1>10, <2>2, <2>3
<1>11. CASE nodes[u].selected /\ nodes[u].level > 0
  <2>1. up = FALSE
    BY <1>2, <1>11 DEF ToggleUp, IsUpstream
  <2>2. u \in Reach(lineage, root)
    BY <1>1, <1>11 DEF NodesAreRelated
  <2>3. \A x \in H : x \in Reach(lineage, root)
    <3>1. \A x \in H : x = u \/ x \in Reach(lineage, u)
      BY <2>1, HierarchyIsRelated
    <3> QED
      BY <2>2, <3>1, ReachIsTransitive
  <2>4. root \notin H
    BY <1>3, <2>3
  <2>5. \A x \in D : M[x].selected <=> nodes[x].selected /\ x \notin H
    BY <1>2, <1>10, <1>11
  <2>6. \A p \in H : NextHierarchy(p, FALSE) \subseteq H
    <3>1. HierarchyEnds(u, up)
      <4>1. nodes[u].level # 0
        BY <1>2, <1>11
      <4> QED
        BY <1>10, <1>11, <4>1
    <3>2. \A x \in H : NextHierarchy(x, up) \subseteq H
      BY <3>1, HierarchyIsClosed
    <3> QED
      BY <2>1, <3>2
  <2> HIDE DEF H
  <2>7. \A x, p \in D : <<x, p>> \in edges /\ p \in H => x \in H
    <3> SUFFICES ASSUME NEW x \in D, NEW p \in D, <<x, p>> \in edges, p \in H PROVE x \in H
      OBVIOUS
    <3>1. nodes[p].level # 0
      BY <1>4, <2>4
    <3>2. x \in NextHierarchy(p, FALSE)
      BY <3>1 DEF NextHierarchy, ChildrenOf
    <3> QED
      BY <2>6, <3>2
  <2>8. \A c \in D : <<c, v>> \in edges /\ nodes[v].level < 0 => c \notin H
    <3> SUFFICES ASSUME NEW c \in D, <<c, v>> \in edges, nodes[v].level < 0, c \in H PROVE FALSE
      OBVIOUS
    <3>1. nodes[c].level <= 0
      BY <1>1, <1>2 DEF EdgesHaveSides
    <3>2. nodes[c].level # 0
      BY <1>4, <2>4
    <3>3. root \in Reach(lineage, c)
      BY <1>1, <1>2, <3>1, <3>2 DEF NodesAreRelated
    <3>4. Reach(lineage, c) \subseteq Reach(lineage, root)
      BY <2>3, ReachIsTransitive
    <3> QED
      BY <1>3, <3>3, <3>4
  <2> QED
    BY <1>8, <2>5, <2>7, <2>8
<1>12. CASE nodes[u].selected /\ nodes[u].level < 0
  <2>1. up = TRUE
    BY <1>2, <1>12 DEF ToggleUp, IsUpstream
  <2>2. root \in Reach(lineage, u)
    BY <1>1, <1>12 DEF NodesAreRelated
  <2>3. \A x \in H : root \in Reach(lineage, x)
    <3>1. \A x \in H : x = u \/ u \in Reach(lineage, x)
      BY <2>1, HierarchyIsRelated
    <3> QED
      BY <2>2, <3>1, ReachIsTransitive
  <2>4. root \notin H
    BY <1>3, <2>3
  <2>5. \A x \in D : M[x].selected <=> nodes[x].selected /\ x \notin H
    BY <1>2, <1>10, <1>12
  <2>6. \A c \in H : NextHierarchy(c, TRUE) \subseteq H
    <3>1. HierarchyEnds(u, up)
      <4>1. nodes[u].level # 0
        BY <1>2, <1>12
      <4> QED
        BY <1>10, <1>12, <4>1
    <3>2. \A x \in H : NextHierarchy(x, up) \subseteq H
      BY <3>1, HierarchyIsClosed
    <3> QED
      BY <2>1, <3>2
  <2> HIDE DEF H
  <2>7. \A c, p \in D : <<c, p>> \in edges /\ c \in H => p \in H
    <3> SUFFICES ASSUME NEW c \in D, NEW p \in D, <<c, p>> \in edges, c \in H PROVE p \in H
      OBVIOUS
    <3>1. nodes[c].level # 0
      BY <1>4, <2>4
    <3>2. p \in NextHierarchy(c, TRUE)
      BY <3>1 DEF NextHierarchy, ParentsOf
    <3> QED
      BY <2>6, <3>2
  <2>8. \A p \in D : <<v, p>> \in edges /\ nodes[v].level > 0 => p \notin H
    <3> SUFFICES ASSUME NEW p \in D, <<v, p>> \in edges, nodes[v].level > 0, p \in H PROVE FALSE
      OBVIOUS
    <3>1. nodes[p].level >= 0
      BY <1>1, <1>2 DEF EdgesHaveSides
    <3>2. nodes[p].level # 0
      BY <1>4, <2>4
    <3>3. p \in Reach(lineage, root)
      BY <1>1, <1>2, <3>1, <3>2 DEF NodesAreRelated
    <3>4. Reach(lineage, p) \subseteq Reach(lineage, root)
      BY <3>3, ReachIsTransitive
    <3> QED
      BY <1>3, <2>3, <3>4
  <2> QED
    BY <1>8, <2>5, <2>7, <2>8
<1>13. CASE ~ nodes[u].selected /\ ~ (nodes[u].level < 0)
  <2>1. up = TRUE /\ nodes[u].level >= 0
    BY <1>2, <1>13 DEF ToggleUp, IsUpstream
  <2>2. Select(u, DownstreamNodes, H)
    BY <1>13 DEF Toggle, IsUpstream
  <2>3. \A x \in D : M[x].selected <=>
          IF x = u THEN ~ nodes[x].selected ELSE x \in H \/ (nodes[x].selected /\ x \notin DownstreamNodes)
    BY <2>2, SelectSelects DEF M
  <2>4. \A x \in H : nodes[x].level >= 0
    BY <1>1, <2>1, HierarchyHasSides
  <2>5. \A c \in H : NextHierarchy(c, TRUE) \subseteq H
    <3>1. HierarchyEnds(u, TRUE)
      BY <1>13, <2>1 DEF WalksOnToggle
    <3> QED
      BY <2>1, <3>1, HierarchyIsClosed
  <2> HIDE DEF H
  <2>6. \A x \in D : M[x].selected <=> x \in H \/ (nodes[x].selected /\ ~ (nodes[x].level > 0))
    BY <1>5, <1>13, <2>3 DEF DownstreamNodes
  <2>7. CASE nodes[v].level > 0
    <3>1. v \in H
      BY <2>6, <2>7
    <3>2. PICK p \in D : <<v, p>> \in edges
      BY <1>1, <2>7 DEF NodesAreJoined
    <3>3. p \in NextHierarchy(v, TRUE)
      BY <1>2, <2>7, <3>2 DEF NextHierarchy, ParentsOf
    <3>4. p \in H
      BY <2>5, <3>1, <3>3
    <3>5. M[p].selected
      BY <2>6, <3>4
    <3>6. ~ (nodes[v].level < 0)
      BY <1>2, <2>7
    <3> QED
      BY <3>2, <3>5, <3>6
  <2>8. CASE nodes[v].level < 0
    <3>1. v \notin H
      BY <1>2, <2>4, <2>8
    <3>2. PICK c \in D : <<c, v>> \in edges /\ nodes[c].selected
      BY <1>8, <2>6, <2>8, <3>1
    <3>3. nodes[v].level >= 0 \/ nodes[c].level <= 0
      BY <1>1, <3>2 DEF EdgesHaveSides
    <3>4. ~ (nodes[c].level > 0) /\ ~ (nodes[v].level > 0)
      BY <1>2, <2>8, <3>3
    <3>5. M[c].selected
      BY <2>6, <3>2, <3>4
    <3> QED
      BY <3>2, <3>4, <3>5
  <2> QED
    BY <2>7, <2>8
<1>14. CASE ~ nodes[u].selected /\ nodes[u].level < 0
  <2>1. up = FALSE /\ nodes[u].level <= 0
    BY <1>2, <1>14 DEF ToggleUp, IsUpstream
  <2>2. Select(u, UpstreamNodes, H)
    BY <1>14 DEF Toggle, IsUpstream
  <2>3. \A x \in D : M[x].selected <=>
          IF x = u THEN ~ nodes[x].selected ELSE x \in H \/ (nodes[x].selected /\ x \notin UpstreamNodes)
    BY <2>2, SelectSelects DEF M
  <2>4. \A x \in H : nodes[x].level <= 0
    BY <1>1, <2>1, HierarchyHasSides
  <2>5. \A p \in H : NextHierarchy(p, FALSE) \subseteq H
    <3>1. HierarchyEnds(u, FALSE)
      BY <1>14, <2>1 DEF WalksOnToggle
    <3> QED
      BY <2>1, <3>1, HierarchyIsClosed
  <2> HIDE DEF H
  <2>6. \A x \in D : M[x].selected <=> x \in H \/ (nodes[x].selected /\ ~ (nodes[x].level < 0))
    BY <1>5, <1>14, <2>3 DEF UpstreamNodes
  <2>7. CASE nodes[v].level < 0
    <3>1. v \in H
      BY <2>6, <2>7
    <3>2. PICK c \in D : <<c, v>> \in edges
      BY <1>1, <2>7 DEF NodesAreJoined
    <3>3. c \in NextHierarchy(v, FALSE)
      BY <1>2, <2>7, <3>2 DEF NextHierarchy, ChildrenOf
    <3>4. c \in H
      BY <2>5, <3>1, <3>3
    <3>5. M[c].selected
      BY <2>6, <3>4
    <3>6. ~ (nodes[v].level > 0)
      BY <1>2, <2>7
    <3> QED
      BY <3>2, <3>5, <3>6
  <2>8. CASE nodes[v].level > 0
    <3>1. v \notin H
      BY <1>2, <2>4, <2>8
    <3>2. PICK p \in D : <<v, p>> \in edges /\ nodes[p].selected
      BY <1>8, <2>6, <2>8, <3>1
    <3>3. nodes[p].level >= 0 \/ nodes[v].level <= 0
      BY <1>1, <3>2 DEF EdgesHaveSides
    <3>4. ~ (nodes[p].level < 0) /\ ~ (nodes[v].level < 0)
      BY <1>2, <2>8, <3>3
    <3>5. M[p].selected
      BY <2>6, <3>2, <3>4
    <3> QED
      BY <3>2, <3>4, <3>5
  <2> QED
    BY <2>7, <2>8
<1> QED
  BY <1>2, <1>9, <1>11, <1>12, <1>13, <1>14

(***************************************************************************)
(* The steps keep the invariant.                                           *)
(***************************************************************************)

LEMMA CyclesStay == ASSUME lineage' = lineage PROVE IsCyclic' <=> IsCyclic
BY DEF IsCyclic

LEMMA AnswerKeepsLineage ==
    ASSUME LineageInv, NEW c \in lineageCalls, GetLineageData(c) PROVE LineageInv'
<1>1. UNCHANGED <<lineage, graphOf, firstFailed, frozen, movedOn>>
  BY DEF GetLineageData
<1>2. GraphTyped'
  BY AnswerKeepsTypes
<1>3. /\ Chained(nodes)' /\ CallsAreReady(nodes, edges, lineageCalls, lineage)'
      /\ LoadedIsFed(nodes, edges, lineage)'
  BY AnswerKeepsComplete
<1>4. IsCyclic' <=> IsCyclic
  BY <1>1, CyclesStay
<1>5. FreezesOnlyOnCycles'
  BY <1>1, <1>4 DEF LineageInv, FreezesOnlyOnCycles
<1>6. ~ movedOn' => IsOfOnePage(nodes, edges, lineageCalls, lineage, graphOf)'
  BY <1>1, AnswerKeepsPage
<1>7. ~ movedOn' /\ ~ IsCyclic' => SelectionLeadsBack(nodes, edges)'
  BY <1>1, <1>4, AnswerKeepsSelection DEF LineageInv
<1> QED
  BY <1>2, <1>3, <1>5, <1>6, <1>7 DEF LineageInv

(* A click: a loop that does not end changes nothing else.                 *)
LEMMA ToggleKeepsLineage ==
    ASSUME LineageInv, NEW u \in DOMAIN nodes, ToggleNode(u) PROVE LineageInv'
<1> DEFINE ends == WalksOnToggle(u) => HierarchyEnds(u, ToggleUp(u))
           call == [uri |-> u, upstream |-> IsUpstream(u), first |-> FALSE]
<1>1. /\ GraphTyped /\ Chained(nodes) /\ CallsAreReady(nodes, edges, lineageCalls, lineage)
      /\ LoadedIsFed(nodes, edges, lineage) /\ FreezesOnlyOnCycles
  BY DEF LineageInv
<1>2. UNCHANGED <<lineage, graphOf, edges, firstFailed, movedOn>>
  BY DEF ToggleNode
<1>3. IsCyclic' <=> IsCyclic
  BY <1>2, CyclesStay
<1>4. CASE ~ ends
  <2>1. frozen' = TRUE /\ UNCHANGED <<nodes, lineageCalls>>
    BY <1>4 DEF ToggleNode
  <2>2. IsCyclic
    <3>1. ToggleUp(u) \in BOOLEAN
      <4>1. (nodes[u].level < 0) \in BOOLEAN
        OBVIOUS
      <4> QED
        BY <4>1, Zenon DEF ToggleUp, IsUpstream
    <3> QED
      BY <1>1, <1>4, <3>1, SearchEnds
  <2>3. GraphTyped'
    BY <1>1, <1>2, <2>1 DEF GraphTyped
  <2>4. Chained(nodes)' /\ CallsAreReady(nodes, edges, lineageCalls, lineage)' /\ LoadedIsFed(nodes, edges, lineage)'
    BY <1>1, <1>2, <2>1
  <2>5. ~ movedOn' => IsOfOnePage(nodes, edges, lineageCalls, lineage, graphOf)'
    BY <1>2, <2>1 DEF LineageInv
  <2>6. FreezesOnlyOnCycles'
    BY <1>3, <2>2 DEF FreezesOnlyOnCycles
  <2>7. ~ movedOn' /\ ~ IsCyclic' => SelectionLeadsBack(nodes, edges)'
    BY <1>3, <2>2
  <2> QED
    BY <2>3, <2>4, <2>5, <2>6, <2>7 DEF LineageInv
<1>5. CASE ends
  <2>1. /\ Toggle(u) /\ frozen' = frozen
        /\ lineageCalls' = lineageCalls \cup (IF nodes[u].loaded THEN {} ELSE {call})
    BY <1>5 DEF ToggleNode
  <2>2. PICK off, on : Select(u, off, on)
    BY <2>1 DEF Toggle
  <2>3. DOMAIN nodes' = DOMAIN nodes /\ nodes' \in [DOMAIN nodes -> PlainNode] /\ SameShape(nodes, nodes')
    BY <1>1, <2>2, SelectSelects
  <2>4. /\ \A v \in DOMAIN nodes : nodes[v].level \in Int
        /\ DOMAIN nodes \subseteq LineageUris /\ \A c \in lineageCalls : c \in LineageCall /\ c.uri \in DOMAIN nodes
    BY <1>1 DEF GraphTyped, PlainNode
  <2>5. /\ call \in LineageCall /\ call.uri = u /\ ~ call.first
        /\ call.upstream <=> nodes[u].level < 0
    <3>1. IsUpstream(u) <=> nodes[u].level < 0
      BY DEF IsUpstream
    <3>2. IsUpstream(u) \in BOOLEAN
      <4>1. (nodes[u].level < 0) \in BOOLEAN
        OBVIOUS
      <4> QED
        BY <4>1, Zenon DEF IsUpstream
    <3>3. call.uri = u /\ ~ call.first /\ call.upstream = IsUpstream(u)
      OBVIOUS
    <3>4. call \in LineageCall
      BY <2>4, <3>2 DEF LineageCall
    <3> HIDE DEF call
    <3> QED
      BY <3>1, <3>3, <3>4
  <2>6. \A d \in lineageCalls' : d \in lineageCalls \/ d = call
    BY <2>1
  <2> HIDE DEF call, ends
  <2>7. GraphTyped'
    <3>1. lineageCalls' \subseteq LineageCall /\ \A d \in lineageCalls' : d.uri \in DOMAIN nodes'
      BY <2>3, <2>4, <2>5, <2>6
    <3> QED
      BY <1>1, <1>2, <2>1, <2>3, <3>1 DEF GraphTyped
  <2>8. \A v \in DOMAIN nodes : nodes'[v].level = nodes[v].level
    BY <2>3 DEF SameShape
  <2>9. Chained(nodes') /\ CallsAreReady(nodes', edges, lineageCalls', lineage) /\ LoadedIsFed(nodes', edges, lineage)
    <3>1. \A d \in lineageCalls' : d \in lineageCalls \/ ~ d.upstream \/ nodes'[d.uri].level < 0
      BY <2>5, <2>6, <2>8
    <3>2. (\A v \in DOMAIN nodes' : nodes'[v].level \in Int) /\ \A d \in lineageCalls' : d.uri \in DOMAIN nodes'
      BY <2>3, <2>4, <2>5, <2>6, <2>8
    <3> QED
      BY <1>1, <2>3, <2>4, <3>1, <3>2, ShapeKeepsComplete
  <2>10. ASSUME ~ movedOn PROVE IsOfOnePage(nodes', edges, lineageCalls', lineage, graphOf)
    <3>1. IsOfOnePage(nodes, edges, lineageCalls, lineage, graphOf)
      BY <2>10 DEF LineageInv
    <3>2. \A d \in lineageCalls' : d \in lineageCalls \/ (/\ d.uri \in DOMAIN nodes /\ (d.first => d.uri = graphOf)
                                     /\ IF d.upstream THEN nodes[d.uri].level <= 0 ELSE nodes[d.uri].level >= 0)
      BY <2>4, <2>5, <2>6
    <3> QED
      BY <2>3, <2>4, <3>1, <3>2, ShapeKeepsPage
  <2>11. ASSUME ~ movedOn, ~ IsCyclic PROVE SelectionLeadsBack(nodes', edges)
    <3>1. IsOfOnePage(nodes, edges, lineageCalls, lineage, graphOf) /\ SelectionLeadsBack(nodes, edges)
      BY <2>11 DEF LineageInv
    <3> QED
      BY <1>1, <1>5, <2>1, <2>11, <3>1, ToggleKeepsSelection DEF ends
  <2>12. FreezesOnlyOnCycles'
    BY <1>1, <1>3, <2>1 DEF FreezesOnlyOnCycles
  <2> QED
    BY <1>2, <1>3, <2>7, <2>9, <2>10, <2>11, <2>12 DEF LineageInv
<1> QED
  BY <1>4, <1>5

(* A first load: its dataset becomes a root of the graph, if it is no node.*)
LEMMA FirstLoadKeepsLineage ==
    ASSUME LineageInv, NEW u \in LineageUris, PerformFirstLoad(u),
           graphOf' = u, IF movedOn' THEN TRUE ELSE ~ movedOn /\ u = graphOf, movedOn' \in BOOLEAN
    PROVE  LineageInv'
<1> DEFINE D == DOMAIN nodes
           M == nodes'
<1>1. /\ GraphTyped /\ Chained(nodes) /\ CallsAreReady(nodes, edges, lineageCalls, lineage)
      /\ LoadedIsFed(nodes, edges, lineage) /\ FreezesOnlyOnCycles
  BY DEF LineageInv
<1>2. /\ UNCHANGED <<lineage, edges, frozen>> /\ firstFailed' = FALSE
      /\ lineageCalls' = lineageCalls \cup {FirstCall(u)}
  BY DEF PerformFirstLoad
<1>3. IsCyclic' <=> IsCyclic
  BY <1>2, CyclesStay
<1>4. M = [v \in D \cup {u} |-> IF v \in D THEN nodes[v] ELSE NewNode(0)]
  BY DEF PerformFirstLoad, AddRoot, NewNode
<1>5. \A v \in D : nodes[v] \in PlainNode /\ nodes[v].level \in Int
  BY <1>1 DEF GraphTyped, PlainNode
<1>6. NewNode(0) \in PlainNode /\ NewNode(0).level = 0 /\ ~ NewNode(0).loaded
  BY DEF NewNode, PlainNode
<1> HIDE DEF M
<1>7. /\ DOMAIN M = D \cup {u} /\ \A v \in D : M[v] = nodes[v]
      /\ \A v \in DOMAIN M \ D : M[v] = NewNode(0)
  BY <1>4
<1>8. M \in [D \cup {u} -> PlainNode]
  BY <1>4, <1>5, <1>6
<1>9. /\ FirstCall(u) \in LineageCall /\ FirstCall(u).uri = u /\ FirstCall(u).first /\ ~ FirstCall(u).upstream
  BY DEF FirstCall, LineageCall
<1>10. \A d \in lineageCalls' : d \in lineageCalls \/ d = FirstCall(u)
  BY <1>2
<1>11. GraphTyped'
  <2>1. lineageCalls' \subseteq LineageCall /\ \A d \in lineageCalls' : d.uri \in DOMAIN M
    BY <1>1, <1>7, <1>9, <1>10 DEF GraphTyped
  <2>2. edges' \subseteq (DOMAIN M) \X (DOMAIN M) /\ edges' \subseteq lineage'
    BY <1>1, <1>2, <1>7 DEF GraphTyped
  <2>3. DOMAIN M \subseteq LineageUris /\ M \in [DOMAIN M -> PlainNode]
    BY <1>1, <1>7, <1>8 DEF GraphTyped
  <2> QED
    BY <1>1, <1>2, <2>1, <2>2, <2>3 DEF GraphTyped, M
<1>12. SameShape(nodes, M)
  BY <1>6, <1>7 DEF SameShape
<1>13. Chained(M) /\ CallsAreReady(M, edges, lineageCalls', lineage) /\ LoadedIsFed(M, edges, lineage)
  <2>1. \A d \in lineageCalls' : d \in lineageCalls \/ ~ d.upstream \/ M[d.uri].level < 0
    BY <1>9, <1>10
  <2>2. \A c \in lineageCalls : c.uri \in D
    BY <1>1 DEF GraphTyped
  <2>3. \A v \in DOMAIN M : M[v].level \in Int
    BY <1>5, <1>6, <1>7
  <2>4. \A d \in lineageCalls' : d.uri \in DOMAIN M
    BY <1>7, <1>9, <1>10, <2>2
  <2> QED
    BY <1>1, <1>12, <2>1, <2>2, <2>3, <2>4, ShapeKeepsComplete
<1>14. ASSUME ~ movedOn'
       PROVE  /\ IsOfOnePage(M, edges, lineageCalls', lineage, u)
              /\ ~ IsCyclic => SelectionLeadsBack(M, edges)
  <2>1. u = graphOf /\ IsOfOnePage(nodes, edges, lineageCalls, lineage, u) /\ (~ IsCyclic => SelectionLeadsBack(nodes, edges))
    BY <1>14 DEF LineageInv
  <2>2. u \in D /\ nodes[u].level = 0
    BY <2>1 DEF IsOfOnePage, RootIsAlone
  <2>3. M = nodes
    <3>1. D \cup {u} = D
      BY <2>2
    <3>2. nodes = [v \in D |-> nodes[v]]
      BY <1>1 DEF GraphTyped
    <3>3. M = [v \in D |-> nodes[v]]
      BY <1>4, <3>1
    <3> QED
      BY <3>2, <3>3
  <2>4. \A c \in lineageCalls : c.uri \in D
    BY <1>1 DEF GraphTyped
  <2>5. \A d \in lineageCalls' : d \in lineageCalls \/ (/\ d.uri \in D /\ (d.first => d.uri = u)
                                     /\ IF d.upstream THEN nodes[d.uri].level <= 0 ELSE nodes[d.uri].level >= 0)
    BY <1>9, <1>10, <2>2
  <2>6. IsOfOnePage(M, edges, lineageCalls', lineage, u)
    BY <1>12, <2>1, <2>3, <2>4, <2>5, ShapeKeepsPage
  <2> QED
    BY <2>1, <2>3, <2>6
<1>15. FreezesOnlyOnCycles'
  BY <1>1, <1>2, <1>3 DEF FreezesOnlyOnCycles
<1> QED
  BY <1>2, <1>3, <1>11, <1>13, <1>14, <1>15 DEF LineageInv, M

LEMMA FailureKeepsLineage ==
    ASSUME LineageInv, NEW c \in lineageCalls, LineageDataFails(c) PROVE LineageInv'
<1>1. /\ GraphTyped /\ Chained(nodes) /\ CallsAreReady(nodes, edges, lineageCalls, lineage)
      /\ LoadedIsFed(nodes, edges, lineage) /\ FreezesOnlyOnCycles
  BY DEF LineageInv
<1>2. /\ UNCHANGED <<lineage, graphOf, nodes, edges, frozen, movedOn>> /\ lineageCalls' = lineageCalls \ {c}
      /\ firstFailed' = (firstFailed \/ (c.first /\ c.uri = graphOf))
  BY DEF LineageDataFails
<1>3. IsCyclic' <=> IsCyclic
  BY <1>2, CyclesStay
<1>4. firstFailed' \in BOOLEAN
  <2>1. c \in LineageCall
    BY <1>1 DEF GraphTyped
  <2>2. firstFailed \in BOOLEAN /\ c.first \in BOOLEAN
    BY <1>1, <2>1 DEF GraphTyped, LineageCall
  <2> QED
    BY <1>2, <2>2
<1>5. GraphTyped'
  BY <1>1, <1>2, <1>4 DEF GraphTyped
<1>6. Chained(nodes)' /\ LoadedIsFed(nodes, edges, lineage)'
  BY <1>1, <1>2
<1>7. CallsAreReady(nodes, edges, lineageCalls', lineage)
  BY <1>1, <1>2 DEF CallsAreReady
<1>8. ASSUME ~ movedOn PROVE IsOfOnePage(nodes, edges, lineageCalls', lineage, graphOf)
  <2>1. IsOfOnePage(nodes, edges, lineageCalls, lineage, graphOf)
    BY <1>8 DEF LineageInv
  <2>2. CallsHaveSides(nodes, lineageCalls', graphOf)
    BY <1>2, <2>1 DEF IsOfOnePage, CallsHaveSides
  <2> QED
    BY <2>1, <2>2 DEF IsOfOnePage
<1>9. FreezesOnlyOnCycles'
  BY <1>1, <1>2, <1>3 DEF FreezesOnlyOnCycles
<1>10. ~ movedOn /\ ~ IsCyclic => SelectionLeadsBack(nodes, edges)
  BY DEF LineageInv
<1> QED
  BY <1>2, <1>3, <1>5, <1>6, <1>7, <1>8, <1>9, <1>10 DEF LineageInv

(* A page that is loaded: its dataset alone, asked about.                  *)
LEMMA FreshGraphIsTrue ==
    ASSUME lineage \in Lineages, graphOf \in LineageUris,
           nodes = [v \in {graphOf} |-> [level |-> 0, selected |-> FALSE, loaded |-> FALSE]], edges = {},
           lineageCalls = {FirstCall(graphOf)}, firstFailed = FALSE, frozen = FALSE, movedOn = FALSE
    PROVE  LineageInv
<1>1. /\ nodes = [v \in {graphOf} |-> NewNode(0)]
      /\ NewNode(0) \in PlainNode /\ NewNode(0).level = 0 /\ ~ NewNode(0).loaded /\ ~ NewNode(0).selected
  BY DEF NewNode, PlainNode
<1>2. DOMAIN nodes = {graphOf} /\ nodes \in [{graphOf} -> PlainNode] /\ \A v \in DOMAIN nodes : nodes[v] = NewNode(0)
  BY <1>1
<1>3. /\ FirstCall(graphOf) \in LineageCall /\ FirstCall(graphOf).uri = graphOf
      /\ FirstCall(graphOf).first /\ ~ FirstCall(graphOf).upstream
  BY DEF FirstCall, LineageCall
<1>4. GraphTyped
  BY <1>2, <1>3 DEF GraphTyped
<1>5. \A v \in DOMAIN nodes : nodes[v].level = 0 /\ ~ nodes[v].loaded /\ ~ nodes[v].selected
  BY <1>1, <1>2
<1>6. Chained(nodes) /\ LoadedIsFed(nodes, edges, lineage) /\ SelectionLeadsBack(nodes, edges)
  BY <1>5 DEF Chained, LoadedIsFed, SelectionLeadsBack
<1>7. CallsAreReady(nodes, edges, lineageCalls, lineage)
  BY <1>3 DEF CallsAreReady
<1>8. RootIsAlone(nodes, graphOf) /\ CallsHaveSides(nodes, lineageCalls, graphOf)
  BY <1>2, <1>3, <1>5 DEF RootIsAlone, CallsHaveSides
<1>9. /\ LoadedFeeds(nodes, edges, lineage) /\ EdgesHaveSides(nodes, edges)
      /\ NodesAreRelated(nodes, lineage, graphOf) /\ NodesAreJoined(nodes, edges)
  BY <1>5 DEF LoadedFeeds, EdgesHaveSides, NodesAreRelated, NodesAreJoined
<1> QED
  BY <1>4, <1>6, <1>7, <1>8, <1>9 DEF LineageInv, IsOfOnePage, FreezesOnlyOnCycles

LEMMA ReloadKeepsLineage == ASSUME LineageInv, ReloadLineage PROVE LineageInv'
<1>1. lineage' \in Lineages /\ graphOf' \in LineageUris /\ graphOf' = graphOf
  BY DEF LineageInv, GraphTyped, ReloadLineage
<1>2. /\ nodes' = [v \in {graphOf'} |-> [level |-> 0, selected |-> FALSE, loaded |-> FALSE]] /\ edges' = {}
      /\ lineageCalls' = {FirstCall(graphOf')} /\ firstFailed' = FALSE /\ frozen' = FALSE /\ movedOn' = FALSE
  BY <1>1 DEF ReloadLineage
<1>3. /\ nodes' = [v \in {graphOf'} |-> NewNode(0)]
      /\ NewNode(0) \in PlainNode /\ NewNode(0).level = 0 /\ ~ NewNode(0).loaded /\ ~ NewNode(0).selected
  BY <1>2 DEF NewNode, PlainNode
<1>4. DOMAIN nodes' = {graphOf'} /\ nodes' \in [{graphOf'} -> PlainNode] /\ \A v \in DOMAIN nodes' : nodes'[v] = NewNode(0)
  BY <1>3
<1>5. /\ FirstCall(graphOf') \in LineageCall /\ FirstCall(graphOf').uri = graphOf'
      /\ FirstCall(graphOf').first /\ ~ FirstCall(graphOf').upstream
  BY <1>1 DEF FirstCall, LineageCall
<1>6. GraphTyped'
  BY <1>1, <1>2, <1>4, <1>5 DEF GraphTyped
<1>7. \A v \in DOMAIN nodes' : nodes'[v].level = 0 /\ ~ nodes'[v].loaded /\ ~ nodes'[v].selected
  BY <1>3, <1>4
<1>8. Chained(nodes') /\ LoadedIsFed(nodes', edges', lineage') /\ SelectionLeadsBack(nodes', edges')
  BY <1>7 DEF Chained, LoadedIsFed, SelectionLeadsBack
<1>9. CallsAreReady(nodes', edges', lineageCalls', lineage')
  BY <1>2, <1>5 DEF CallsAreReady
<1>10. RootIsAlone(nodes', graphOf') /\ CallsHaveSides(nodes', lineageCalls', graphOf')
  BY <1>2, <1>4, <1>5, <1>7 DEF RootIsAlone, CallsHaveSides
<1>11. /\ LoadedFeeds(nodes', edges', lineage') /\ EdgesHaveSides(nodes', edges')
       /\ NodesAreRelated(nodes', lineage', graphOf') /\ NodesAreJoined(nodes', edges')
  BY <1>7 DEF LoadedFeeds, EdgesHaveSides, NodesAreRelated, NodesAreJoined
<1> QED
  BY <1>2, <1>6, <1>8, <1>9, <1>10, <1>11 DEF LineageInv, IsOfOnePage, FreezesOnlyOnCycles

LEMMA LineageIsKept == ASSUME LineageInv, [LineageNext]_lineageVars PROVE LineageInv'
<1>1. ASSUME NEW u \in LineageUris, ShowDataset(u) PROVE LineageInv'
  <2>1. PerformFirstLoad(u) /\ graphOf' = u /\ movedOn' = TRUE
    BY <1>1 DEF ShowDataset
  <2> QED
    BY <2>1, FirstLoadKeepsLineage
<1>2. ASSUME RetryFirstLoad PROVE LineageInv'
  <2>1. PerformFirstLoad(graphOf) /\ graphOf' = graphOf /\ movedOn' = movedOn
    BY <1>2 DEF RetryFirstLoad
  <2>2. graphOf \in LineageUris /\ movedOn \in BOOLEAN
    BY DEF LineageInv, GraphTyped
  <2> QED
    BY <2>1, <2>2, FirstLoadKeepsLineage
<1>3. ASSUME ReloadLineage PROVE LineageInv'
  BY <1>3, ReloadKeepsLineage
<1>4. ASSUME NEW u \in DOMAIN nodes, ToggleNode(u) PROVE LineageInv'
  BY <1>4, ToggleKeepsLineage
<1>5. ASSUME NEW c \in lineageCalls, GetLineageData(c) PROVE LineageInv'
  BY <1>5, AnswerKeepsLineage
<1>6. ASSUME NEW c \in lineageCalls, LineageDataFails(c) PROVE LineageInv'
  BY <1>6, FailureKeepsLineage
<1>7. ASSUME UNCHANGED lineageVars PROVE LineageInv'
  <2>1. UNCHANGED <<lineage, graphOf, nodes, edges, lineageCalls, firstFailed, frozen, movedOn>>
    BY <1>7 DEF lineageVars
  <2>2. IsCyclic' <=> IsCyclic
    BY <2>1, CyclesStay
  <2>3. GraphTyped' /\ FreezesOnlyOnCycles'
    BY <2>1, <2>2 DEF LineageInv, GraphTyped, FreezesOnlyOnCycles
  <2> QED
    BY <2>1, <2>2, <2>3 DEF LineageInv
<1> QED
  BY <1>1, <1>2, <1>3, <1>4, <1>5, <1>6, <1>7 DEF LineageNext

(* What the invariant says of the page.                                    *)
LEMMA LineageIsTyped == ASSUME LineageInv PROVE LineageTypeOK
<1>1. GraphTyped /\ Chained(nodes)
  BY DEF LineageInv
<1>2. ASSUME NEW u \in DOMAIN nodes PROVE nodes[u] \in Node
  <2>1. nodes[u] \in PlainNode
    BY <1>1 DEF GraphTyped
  <2>2. nodes[u].level \in -Cardinality(LineageUris) .. Cardinality(LineageUris)
    BY <1>1, LevelsAreBounded DEF GraphTyped
  <2> QED
    BY <2>1, <2>2 DEF PlainNode, Node
<1> QED
  BY <1>1, <1>2 DEF GraphTyped, LineageTypeOK

LEMMA RelationsOf ==
    ASSUME GraphTyped, NEW u \in DOMAIN nodes
    PROVE  /\ Downstreams(u) = {v \in LineageUris : <<v, u>> \in lineage}
           /\ Upstreams(u) = {v \in LineageUris : <<u, v>> \in lineage}
           /\ ChildrenOf(u) = {v \in LineageUris : <<v, u>> \in edges}
           /\ ParentsOf(u) = {v \in LineageUris : <<u, v>> \in edges}
<1>1. lineage \subseteq LineageUris \X LineageUris /\ edges \subseteq (DOMAIN nodes) \X (DOMAIN nodes)
  BY LineageAssumption DEF GraphTyped
<1>2. DOMAIN nodes \subseteq LineageUris
  BY DEF GraphTyped
<1>3. \A q \in lineage : q = <<q[1], q[2]>> /\ q[1] \in LineageUris /\ q[2] \in LineageUris
  BY <1>1
<1>4. Downstreams(u) = {v \in LineageUris : <<v, u>> \in lineage}
  <2>1. \A v \in LineageUris : <<v, u>> \in lineage => v \in Downstreams(u)
    <3> SUFFICES ASSUME NEW v \in LineageUris, <<v, u>> \in lineage PROVE v \in Downstreams(u)
      OBVIOUS
    <3> DEFINE q == <<v, u>>
    <3>1. q \in lineage /\ q[1] = v /\ q[2] = u
      OBVIOUS
    <3> QED
      BY <3>1 DEF Downstreams
  <2>2. \A v \in Downstreams(u) : v \in LineageUris /\ <<v, u>> \in lineage
    BY <1>3 DEF Downstreams
  <2> QED
    BY <2>1, <2>2
<1>5. Upstreams(u) = {v \in LineageUris : <<u, v>> \in lineage}
  <2>1. \A v \in LineageUris : <<u, v>> \in lineage => v \in Upstreams(u)
    <3> SUFFICES ASSUME NEW v \in LineageUris, <<u, v>> \in lineage PROVE v \in Upstreams(u)
      OBVIOUS
    <3> DEFINE q == <<u, v>>
    <3>1. q \in lineage /\ q[1] = u /\ q[2] = v
      OBVIOUS
    <3> QED
      BY <3>1 DEF Upstreams
  <2>2. \A v \in Upstreams(u) : v \in LineageUris /\ <<u, v>> \in lineage
    BY <1>3 DEF Upstreams
  <2> QED
    BY <2>1, <2>2
<1> QED
  BY <1>1, <1>2, <1>4, <1>5 DEF ChildrenOf, ParentsOf

LEMMA LoadedMeansComplete == ASSUME LineageInv PROVE LoadedIsComplete
<1> SUFFICES ASSUME NEW u \in DOMAIN nodes, nodes[u].loaded
             PROVE  IF nodes[u].level < 0 THEN ~ movedOn => Upstreams(u) \subseteq ParentsOf(u)
                                          ELSE Downstreams(u) \subseteq ChildrenOf(u)
  BY DEF LoadedIsComplete
<1>1. GraphTyped /\ LoadedIsFed(nodes, edges, lineage)
      /\ (~ movedOn => LoadedFeeds(nodes, edges, lineage)) /\ nodes[u].level \in Int
  BY DEF LineageInv, IsOfOnePage, GraphTyped, PlainNode
<1>2. /\ Downstreams(u) = {v \in LineageUris : <<v, u>> \in lineage}
      /\ Upstreams(u) = {v \in LineageUris : <<u, v>> \in lineage}
      /\ ChildrenOf(u) = {v \in LineageUris : <<v, u>> \in edges}
      /\ ParentsOf(u) = {v \in LineageUris : <<u, v>> \in edges}
  BY <1>1, RelationsOf
<1>3. CASE nodes[u].level < 0
  <2>1. ASSUME ~ movedOn PROVE FeedsIn(lineage, edges, u)
    BY <1>1, <1>3, <2>1 DEF LoadedFeeds
  <2> QED
    BY <1>2, <1>3, <2>1 DEF FeedsIn
<1>4. CASE ~ (nodes[u].level < 0)
  <2>1. nodes[u].level >= 0
    BY <1>1, <1>4
  <2>2. FedIn(lineage, edges, u)
    BY <1>1, <2>1 DEF LoadedIsFed
  <2> QED
    BY <1>2, <1>4, <2>2 DEF FedIn
<1> QED
  BY <1>3, <1>4

LEMMA CountsMeanRelations == ASSUME LineageInv PROVE CountsAreTrue
<1> SUFFICES ASSUME NEW u \in DOMAIN nodes
             PROVE  /\ nodes[u].level >= 0 => NChildren(u) \in {-1, Cardinality(Downstreams(u))}
                    /\ nodes[u].level < 0 /\ ~ movedOn => NParents(u) \in {-1, Cardinality(Upstreams(u))}
  BY DEF CountsAreTrue
<1>1. GraphTyped /\ nodes[u].level \in Int /\ LoadedIsComplete
  BY LoadedMeansComplete DEF LineageInv, GraphTyped, PlainNode
<1>2. ChildrenOf(u) \subseteq Downstreams(u) /\ ParentsOf(u) \subseteq Upstreams(u)
  BY <1>1, RelationsOf DEF GraphTyped
<1>3. ASSUME nodes[u].level >= 0 PROVE NChildren(u) \in {-1, Cardinality(Downstreams(u))}
  <2>1. ~ (nodes[u].level < 0)
    BY <1>1, <1>3
  <2>2. nodes[u].loaded => ChildrenOf(u) = Downstreams(u)
    BY <1>1, <1>2, <2>1 DEF LoadedIsComplete
  <2> QED
    BY <2>1, <2>2 DEF NChildren
<1>4. ASSUME nodes[u].level < 0, ~ movedOn PROVE NParents(u) \in {-1, Cardinality(Upstreams(u))}
  <2>1. ~ (nodes[u].level > 0)
    BY <1>1, <1>4
  <2>2. nodes[u].loaded => ParentsOf(u) = Upstreams(u)
    BY <1>1, <1>2, <1>4 DEF LoadedIsComplete
  <2> QED
    BY <2>1, <2>2 DEF NParents
<1> QED
  BY <1>3, <1>4

LEMMA SelectionMeansListed == ASSUME LineageInv PROVE SelectedIsListed
<1> SUFFICES ASSUME NEW u \in DOMAIN nodes, nodes[u].selected, ~ movedOn, ~ IsCyclic PROVE IsListed(u)
  BY DEF SelectedIsListed
<1>1. SelectionLeadsBack(nodes, edges) /\ nodes[u].level \in Int
  BY DEF LineageInv, GraphTyped, PlainNode
<1>2. /\ nodes[u].level > 0 => \E p \in ParentsOf(u) : nodes[p].selected
      /\ nodes[u].level < 0 => \E c \in ChildrenOf(u) : nodes[c].selected
  BY <1>1 DEF SelectionLeadsBack, ParentsOf, ChildrenOf
<1>3. ShouldShow(u)
  BY <1>1, <1>2 DEF ShouldShow
<1> QED
  BY <1>3 DEF IsListed, LevelNodes

LEMMA LineageInvIsTrue == LineageInv => LineageIsTrue
<1> SUFFICES ASSUME LineageInv PROVE LineageIsTrue
  OBVIOUS
<1>1. FreezesOnlyOnCycles
  BY DEF LineageInv
<1>2. CurrentIsCurrent
  BY DEF LineageInv, IsOfOnePage, RootIsAlone, CurrentIsCurrent
<1> QED
  BY <1>1, <1>2, LineageIsTyped, LoadedMeansComplete, CountsMeanRelations, SelectionMeansListed DEF LineageIsTrue

(* The graph grows into the lineage in whatever order it is read, and      *)
(* however it is clicked on: what is said to be loaded is complete, the    *)
(* numbers are those of the lineage, the search of a toggle ends unless    *)
(* datasets feed each other in a cycle, and without one what is selected is*)
(* listed.                                                                 *)
THEOREM GraphIsOfLineage == LineageSpec => []LineageIsTrue
<1>1. LineageInit => LineageInv
  BY FreshGraphIsTrue DEF LineageInit
<1>2. LineageInv /\ [LineageNext]_lineageVars => LineageInv'
  BY LineageIsKept
<1>3. LineageInv => LineageIsTrue
  BY LineageInvIsTrue
<1> QED
  BY <1>1, <1>2, <1>3, PTL DEF LineageSpec

-----------------------------------------------------------------------------
(* The fabrics of a dataset and its urns.                                  *)
KnownFabrics == {f \in FabricTypes \cap DOMAIN UpperCase : UpperCase[f] = f}
LiUrns == {u \in FabUrns : IsLiUrn(u)}

(* As long as every read ended in its order, the last one that is out is   *)
(* for the dataset of the page, and when none is, the links are those of   *)
(* its fabrics.                                                            *)
ReadsAreInOrder(u, list, links) ==
    /\ list # <<>> => list[Len(list)] = u
    /\ list = <<>> => IsLiUrn(u) /\ links = FabricUrns(u, Origins[u])

LinksTyped(links) == \A i \in DOMAIN links : IsLiUrn(links[i].urn) /\ IsDatasetFabric(links[i].fabric)

FabInv ==
    /\ fabUrn \in FabUrns /\ fabrics \in Seq(KnownFabrics)
    /\ fabReads \in Seq(LiUrns) /\ Len(fabReads) <= MaxFabReads
    /\ fabFailed \in BOOLEAN /\ fabOver \in BOOLEAN /\ isExpandedFab \in BOOLEAN /\ fabricsOpen \in BOOLEAN
    /\ LinksTyped(fabLinks)
    /\ ~ fabFailed => ReadsAreInOrder(fabUrn, fabReads, fabLinks)
    /\ fabHides \in 0 .. 1 /\ (fabOver => fabHides = 0)
    /\ FabricsStayOpen

LEMMA LinksOfFabrics ==
    ASSUME NEW u, NEW list \in Seq(KnownFabrics)
    PROVE  LinksTyped(FabricUrns(u, list))
<1>1. CASE IsLiUrn(u)
  <2>1. FabricUrns(u, list) = [i \in DOMAIN list |-> [fabric |-> list[i], urn |-> BuildDatasetLiUrn(u.platform, u.path, list[i])]]
    BY <1>1 DEF FabricUrns
  <2>2. \A i \in DOMAIN list : list[i] \in KnownFabrics
    OBVIOUS
  <2>3. \A i \in DOMAIN list : IsDatasetFabric(list[i])
    BY <2>2 DEF KnownFabrics, IsDatasetFabric
  <2>4. \A i \in DOMAIN list : IsLiUrn(BuildDatasetLiUrn(u.platform, u.path, list[i]))
    BY DEF IsLiUrn, BuildDatasetLiUrn
  <2> QED
    BY <2>1, <2>3, <2>4 DEF LinksTyped
<1>2. CASE ~ IsLiUrn(u)
  <2>1. FabricUrns(u, list) = <<>> /\ DOMAIN <<>> = {}
    BY <1>2 DEF FabricUrns
  <2> QED
    BY <2>1 DEF LinksTyped
<1> QED
  BY <1>1, <1>2

(* A list without one of its entries.                                      *)
LEMMA OneReadLess ==
    ASSUME NEW T, NEW list \in Seq(T), NEW i \in 1 .. Len(list)
    PROVE  /\ RemoveAt(list, i) \in Seq(T) /\ Len(RemoveAt(list, i)) = Len(list) - 1
           /\ i < Len(list) => RemoveAt(list, i)[Len(list) - 1] = list[Len(list)]
           /\ Len(list) = 1 <=> RemoveAt(list, i) = <<>>
<1>1. RemoveAt(list, i) = Without(list, i)
  BY DEF RemoveAt, Without
<1>2. PICK w \in Seq(T) : w = RemoveAt(list, i)
  BY <1>1, WithoutEntry
<1>3. /\ Len(w) = Len(list) - 1
      /\ \A k \in 1 .. Len(list) - 1 : w[k] = IF k < i THEN list[k] ELSE list[k + 1]
  BY <1>1, <1>2, WithoutEntry
<1>4. i < Len(list) => w[Len(list) - 1] = list[Len(list)]
  BY <1>3
<1>5. Len(list) = 1 <=> w = <<>>
  BY <1>3
<1> QED
  BY <1>2, <1>3, <1>4, <1>5

LEMMA FabricsVisited ==
    ASSUME FabInv, NEW u \in FabUrns, VisitFabUrn(u)
    PROVE  FabInv'
<1>1. fabUrn' = u /\ fabrics' = fabrics /\ GetFabrics(u)
  BY DEF VisitFabUrn
<1>2. CASE IsLiUrn(u)
  <2>1. /\ Len(fabReads) < MaxFabReads /\ fabReads' = Append(fabReads, u) /\ fabLinks' = <<>>
        /\ isExpandedFab' = FALSE /\ fabricsOpen' = FALSE /\ fabHides' = 0 /\ fabOver' = FALSE
        /\ fabFailed' = (IF fabReads = <<>> THEN FALSE ELSE fabFailed)
    BY <1>1, <1>2 DEF GetFabrics, CloseSwitcher
  <2>2. PICK list \in Seq(LiUrns) : list = fabReads
    BY DEF FabInv
  <2>3. u \in LiUrns /\ MaxFabReads \in Nat
    BY <1>2, UrnsAssumption DEF LiUrns
  <2>4. Append(list, u) \in Seq(LiUrns) /\ Len(Append(list, u)) = Len(list) + 1 /\ Append(list, u)[Len(list) + 1] = u
        /\ Append(list, u) # <<>> /\ Len(list) \in Nat
    BY <2>3
  <2>5. LinksTyped(fabLinks')
    BY <2>1 DEF LinksTyped
  <2>6. ReadsAreInOrder(fabUrn', fabReads', fabLinks')
    BY <1>1, <2>1, <2>2, <2>4 DEF ReadsAreInOrder
  <2>7. Len(fabReads') <= MaxFabReads
    BY <2>1, <2>2, <2>3, <2>4
  <2>8. fabReads' \in Seq(LiUrns)
    BY <2>1, <2>2, <2>4
  <2>9. FabricsStayOpen'
    BY <2>1 DEF FabricsStayOpen
  <2>10. fabFailed' \in BOOLEAN
    BY <2>1 DEF FabInv
  <2>11. 0 \in 0 .. 1 /\ fabrics \in Seq(KnownFabrics)
    BY DEF FabInv
  <2> QED
    BY <1>1, <2>1, <2>5, <2>6, <2>7, <2>8, <2>9, <2>10, <2>11, Zenon DEF FabInv
<1>3. CASE ~ IsLiUrn(u)
  <2>1. fabFailed' = TRUE /\ UNCHANGED <<fabReads, fabLinks, isExpandedFab, fabricsOpen, fabHides, fabOver>>
    BY <1>1, <1>3 DEF GetFabrics
  <2> QED
    BY <1>1, <2>1 DEF FabInv, FabricsStayOpen
<1> QED
  BY <1>2, <1>3

LEMMA FabricsRead ==
    ASSUME FabInv, NEW i \in DOMAIN fabReads, FabReadEnds(i)
    PROVE  FabInv'
<1>1. PICK list \in Seq(LiUrns) : list = fabReads
  BY DEF FabInv
<1>2. /\ \/ fabrics' = Origins[list[i]] /\ fabFailed' = (fabFailed \/ i > 1)
         \/ fabrics' = fabrics /\ fabFailed' = TRUE
      /\ fabReads' = RemoveAt(list, i)
      /\ fabLinks' = (IF Len(list) = 1 THEN FabricUrns(fabUrn, fabrics') ELSE fabLinks)
      /\ UNCHANGED <<fabUrn, fabOver, isExpandedFab, fabricsOpen, fabHides>>
  BY <1>1 DEF FabReadEnds, SetFabrics
<1>3. i \in 1 .. Len(list) /\ list[i] \in LiUrns /\ Len(list) \in Nat /\ MaxFabReads \in Nat /\ Len(list) <= MaxFabReads
  BY <1>1, UrnsAssumption DEF FabInv
<1>4. fabrics' \in Seq(KnownFabrics)
  <2>1. Origins[list[i]] \in Seq(KnownFabrics)
    BY <1>3, UrnsAssumption DEF LiUrns, KnownFabrics
  <2> QED
    BY <1>2, <2>1 DEF FabInv
<1>5. /\ RemoveAt(list, i) \in Seq(LiUrns) /\ Len(RemoveAt(list, i)) = Len(list) - 1
      /\ i < Len(list) => RemoveAt(list, i)[Len(list) - 1] = list[Len(list)]
      /\ Len(list) = 1 <=> RemoveAt(list, i) = <<>>
  BY <1>3, OneReadLess
<1>6. LinksTyped(fabLinks')
  BY <1>2, <1>4, LinksOfFabrics DEF FabInv
<1>7. ASSUME ~ fabFailed' PROVE ReadsAreInOrder(fabUrn', fabReads', fabLinks')
  <2>0. i \in Nat /\ i >= 1
    BY <1>3
  <2>1. /\ ~ fabFailed /\ i = 1 /\ fabrics' = Origins[list[1]]
    <3>1. ~ fabFailed /\ ~ (i > 1) /\ fabrics' = Origins[list[i]]
      BY <1>2, <1>7, Zenon
    <3> QED
      BY <2>0, <3>1
  <2>2. list # <<>> /\ list[Len(list)] = fabUrn
    <3>1. list # <<>>
      BY <1>3
    <3> QED
      BY <1>1, <2>1, <3>1 DEF FabInv, ReadsAreInOrder
  <2>3. CASE Len(list) = 1
    <3>1. list[1] = fabUrn /\ IsLiUrn(fabUrn)
      BY <1>3, <2>2, <2>3 DEF LiUrns
    <3> QED
      BY <1>2, <1>5, <2>1, <2>3, <3>1 DEF ReadsAreInOrder
  <2>4. CASE Len(list) # 1
    <3>1. i < Len(list)
      <4>1. i = 1
        BY <2>1
      <4> QED
        BY <1>3, <2>4, <4>1
    <3> QED
      BY <1>2, <1>5, <2>2, <2>4, <3>1 DEF ReadsAreInOrder
  <2> QED
    BY <2>3, <2>4
<1>8. fabFailed' \in BOOLEAN
  BY <1>2
<1>9. Len(fabReads') <= MaxFabReads /\ fabReads' \in Seq(LiUrns)
  BY <1>2, <1>3, <1>5
<1> QED
  BY <1>2, <1>4, <1>6, <1>7, <1>8, <1>9 DEF FabInv, FabricsStayOpen

LEMMA SwitcherSteps ==
    ASSUME FabInv, ShowFabrics \/ HideFabrics \/ HideFabricsEnds
    PROVE  FabInv'
<1>1. UNCHANGED <<fabUrn, fabrics, fabReads, fabFailed, fabLinks>>
  BY DEF ShowFabrics, HideFabrics, HideFabricsEnds
<1>2. /\ fabOver \in BOOLEAN /\ isExpandedFab \in BOOLEAN /\ fabricsOpen \in BOOLEAN /\ fabHides \in {0, 1}
      /\ fabOver => fabHides = 0 /\ isExpandedFab /\ fabricsOpen
  <2>1. 0 .. 1 = {0, 1}
    OBVIOUS
  <2> QED
    BY <2>1, Zenon DEF FabInv, FabricsStayOpen
<1>3. /\ fabOver' \in BOOLEAN /\ isExpandedFab' \in BOOLEAN /\ fabricsOpen' \in BOOLEAN
      /\ fabHides' \in {0, 1} /\ (fabOver' => fabHides' = 0)
      /\ fabOver' => fabricsOpen' /\ isExpandedFab'
  <2>1. CASE ShowFabrics
    <3>1. fabHides' = 0
      BY <1>2, <2>1 DEF ShowFabrics
    <3>2. fabOver' = TRUE /\ isExpandedFab' = TRUE /\ fabricsOpen' = TRUE
      BY <2>1 DEF ShowFabrics
    <3> QED
      BY <3>1, <3>2, Zenon
  <2>2. CASE HideFabrics
    <3>1. fabOver' = FALSE /\ isExpandedFab' = FALSE /\ fabricsOpen' = fabricsOpen
      BY <2>2 DEF HideFabrics
    <3>2. fabHides' = 1
      BY <1>2, <2>2 DEF HideFabrics
    <3> QED
      BY <1>2, <3>1, <3>2, Zenon
  <2>3. CASE HideFabricsEnds
    <3>1. fabHides = 1 /\ fabHides' = 0
      BY <1>2, <2>3 DEF HideFabricsEnds
    <3>2. fabHides # 0
      BY <3>1
    <3>3. fabOver' = fabOver /\ isExpandedFab' = isExpandedFab /\ fabricsOpen' = FALSE
      BY <2>3 DEF HideFabricsEnds
    <3>4. fabOver = FALSE
      BY <1>2, <3>2, Zenon
    <3> QED
      BY <1>2, <3>1, <3>3, <3>4, Zenon
  <2> QED
    BY <2>1, <2>2, <2>3
<1>4. fabHides' \in 0 .. 1
  BY <1>3
<1> QED
  BY <1>1, <1>3, <1>4, Zenon DEF FabInv, FabricsStayOpen

LEMMA FabStarts == UrnsInit => FabInv
<1> SUFFICES ASSUME UrnsInit PROVE FabInv
  OBVIOUS
<1>1. /\ fabUrn \in FabUrns /\ fabrics = <<>> /\ fabReads = (IF IsLiUrn(fabUrn) THEN <<fabUrn>> ELSE <<>>)
      /\ fabFailed = ~ IsLiUrn(fabUrn) /\ fabLinks = <<>>
      /\ fabOver = FALSE /\ isExpandedFab = FALSE /\ fabricsOpen = FALSE /\ fabHides = 0
  BY DEF UrnsInit
<1>2. LinksTyped(<<>>) /\ <<>> \in Seq(KnownFabrics) /\ 0 \in 0 .. 1
  BY DEF LinksTyped
<1>3. FabricsStayOpen
  BY <1>1 DEF FabricsStayOpen
<1>a. MaxFabReads \in Nat /\ MaxFabReads >= 1
  <2>1. MaxFabReads \in Nat \ {0}
    BY Zenon, UrnsAssumption
  <2> QED
    BY <2>1
<1>4. CASE IsLiUrn(fabUrn)
  <2>1. <<fabUrn>> \in Seq(LiUrns) /\ Len(<<fabUrn>>) = 1 /\ <<fabUrn>>[1] = fabUrn /\ <<fabUrn>> # <<>>
    BY <1>1, <1>4 DEF LiUrns
  <2>2. fabReads = <<fabUrn>> /\ fabFailed = FALSE
    BY <1>1, <1>4
  <2>3. Len(fabReads) <= MaxFabReads /\ ReadsAreInOrder(fabUrn, fabReads, fabLinks)
    BY <1>a, <2>1, <2>2 DEF ReadsAreInOrder
  <2> QED
    BY <1>1, <1>2, <1>3, <2>1, <2>2, <2>3, Zenon DEF FabInv
<1>5. CASE ~ IsLiUrn(fabUrn)
  <2>1. <<>> \in Seq(LiUrns) /\ Len(<<>>) = 0
    OBVIOUS
  <2>2. fabReads = <<>> /\ fabFailed = TRUE
    BY <1>1, <1>5
  <2>3. Len(fabReads) <= MaxFabReads
    BY <1>a, <2>1, <2>2
  <2> QED
    BY <1>1, <1>2, <1>3, <2>1, <2>2, <2>3, Zenon DEF FabInv
<1> QED
  BY <1>4, <1>5

(* The path of a urn that was built is built as it is.                     *)
LEMMA BuiltPathStays ==
    ASSUME NEW platform, NEW path \in Seq(STRING)
    PROVE  ConvertWhDatasetPathToLiPath(platform, ConvertWhDatasetPathToLiPath(platform, path))
             = ConvertWhDatasetPathToLiPath(platform, path)
<1> DEFINE p == ConvertWhDatasetPathToLiPath(platform, path)
<1>1. CASE LowerCase[platform] \in PlatformsWithSlash
  <2>1. p = IF path # <<>> /\ Head(path) = "/" THEN path ELSE <<"/">> \o path
    BY <1>1 DEF ConvertWhDatasetPathToLiPath
  <2>2. p # <<>> /\ Head(p) = "/"
    <3>1. (<<"/">> \o path) # <<>> /\ Head(<<"/">> \o path) = "/"
      OBVIOUS
    <3> HIDE DEF p
    <3> QED
      BY <2>1, <3>1
  <2> HIDE DEF p
  <2>3. ConvertWhDatasetPathToLiPath(platform, p) = p
    BY <1>1, <2>2 DEF ConvertWhDatasetPathToLiPath
  <2> QED
    BY <2>3 DEF p
<1>2. CASE LowerCase[platform] \notin PlatformsWithSlash
  <2>1. p = [i \in DOMAIN path |-> IF path[i] = "/" THEN "." ELSE path[i]]
    BY <1>2 DEF ConvertWhDatasetPathToLiPath
  <2>2. DOMAIN p = DOMAIN path /\ \A i \in DOMAIN p : p[i] # "/"
    BY <2>1
  <2>3. p = [i \in DOMAIN p |-> p[i]]
    BY <2>1
  <2> HIDE DEF p
  <2>4. ConvertWhDatasetPathToLiPath(platform, p) = [i \in DOMAIN p |-> IF p[i] = "/" THEN "." ELSE p[i]]
    BY <1>2 DEF ConvertWhDatasetPathToLiPath
  <2>5. ConvertWhDatasetPathToLiPath(platform, p) = p
    BY <2>2, <2>3, <2>4
  <2> QED
    BY <2>5 DEF p
<1> QED
  BY <1>1, <1>2

LEMMA UrnsComeBack ==
    ASSUME fabUrn \in FabUrns PROVE UrnRoundTrip
<1> SUFFICES ASSUME IsUrn(fabUrn) PROVE UrnRoundTrip
  BY DEF UrnRoundTrip
<1>1. fabUrn.path \in Seq(STRING)
  BY UrnsAssumption
<1>2. ASSUME NEW f
      PROVE  LET li == BuildDatasetLiUrn(fabUrn.platform, fabUrn.path, f) IN
             /\ IsLiUrn(li) /\ GetDatasetUrnParts(li).prefix = li.path
             /\ BuildDatasetLiUrn(li.platform, li.path, li.fabric) = li
  <2> DEFINE p == ConvertWhDatasetPathToLiPath(fabUrn.platform, fabUrn.path)
             li == [kind |-> "li", platform |-> fabUrn.platform, path |-> p, fabric |-> f]
  <2>1. BuildDatasetLiUrn(fabUrn.platform, fabUrn.path, f) = li
    BY DEF BuildDatasetLiUrn
  <2>2. ConvertWhDatasetPathToLiPath(fabUrn.platform, p) = p
    BY <1>1, BuiltPathStays
  <2> HIDE DEF p
  <2>3. /\ li.kind = "li" /\ li.platform = fabUrn.platform /\ li.path = p /\ li.fabric = f
    OBVIOUS
  <2>4. BuildDatasetLiUrn(li.platform, li.path, li.fabric) = li
    BY <2>2, <2>3 DEF BuildDatasetLiUrn
  <2>5. IsLiUrn(li)
    BY DEF IsLiUrn
  <2> HIDE DEF li
  <2>6. GetDatasetUrnParts(li).prefix = li.path
    BY <2>5 DEF GetDatasetUrnParts
  <2> QED
    BY <2>1, <2>4, <2>5, <2>6
<1>3. CASE IsWhUrn(fabUrn)
  BY <1>2, <1>3 DEF UrnRoundTrip, ConvertWhUrnToLiUrn
<1>4. CASE ~ IsWhUrn(fabUrn)
  BY <1>2, <1>4 DEF UrnRoundTrip
<1> QED
  BY <1>3, <1>4

(* The links lead to the dataset, in their fabrics.                        *)
LEMMA LinksLeadToDataset == FabInv => FabricLinksOfDataset
<1> SUFFICES ASSUME FabInv, SwitcherShown, ~ fabFailed, IsCanonical(fabUrn) PROVE FabricLinksOfDataset
  BY DEF FabricLinksOfDataset
<1> DEFINE u == fabUrn  list == Origins[fabUrn]
<1>1. /\ IsLiUrn(u) /\ u.path = ConvertWhDatasetPathToLiPath(u.platform, u.path) /\ u \in FabUrns
  BY DEF FabInv, IsCanonical
<1>2. fabLinks = FabricUrns(u, list)
  BY DEF FabInv, ReadsAreInOrder, SwitcherShown
<1>3. list \in Seq(KnownFabrics)
  BY <1>1, UrnsAssumption DEF KnownFabrics
<1> HIDE DEF u, list
<1>4. fabLinks = [i \in DOMAIN list |-> [fabric |-> list[i], urn |-> BuildDatasetLiUrn(u.platform, u.path, list[i])]]
  BY <1>1, <1>2 DEF FabricUrns
<1>5. [i \in DOMAIN fabLinks |-> fabLinks[i].fabric] = list
  <2>1. DOMAIN fabLinks = DOMAIN list /\ \A i \in DOMAIN list : fabLinks[i].fabric = list[i]
    BY <1>4
  <2>2. list = [i \in DOMAIN list |-> list[i]]
    BY <1>3
  <2> QED
    BY <2>1, <2>2
<1>6. ASSUME NEW i \in DOMAIN fabLinks
      PROVE  GetDatasetUrnParts(fabLinks[i].urn) = [GetDatasetUrnParts(u) EXCEPT !.fabric = fabLinks[i].fabric]
  <2> DEFINE f == list[i]
             li == [kind |-> "li", platform |-> u.platform, path |-> u.path, fabric |-> f]
  <2>1. i \in DOMAIN list /\ fabLinks[i].fabric = f /\ fabLinks[i].urn = BuildDatasetLiUrn(u.platform, u.path, f)
    BY <1>4
  <2>2. f \in FabricTypes /\ UpperCase[f] = f
    <3>1. f \in KnownFabrics
      BY <1>3, <2>1
    <3> QED
      BY <3>1 DEF KnownFabrics
  <2>3. fabLinks[i].urn = li
    BY <1>1, <2>1 DEF BuildDatasetLiUrn
  <2> HIDE DEF f
  <2>4. IsLiUrn(li) /\ IsDatasetFabric(li.fabric) /\ UpperCase[li.fabric] = f
    BY <2>2 DEF IsLiUrn, IsDatasetFabric
  <2>5. li.platform = u.platform /\ li.path = u.path
    OBVIOUS
  <2> HIDE DEF li
  <2>6. GetDatasetUrnParts(li) = [platform |-> LowerCase[u.platform], prefix |-> u.path, fabric |-> f]
    BY <2>4, <2>5 DEF GetDatasetUrnParts
  <2>7. PICK g : GetDatasetUrnParts(u) = [platform |-> LowerCase[u.platform], prefix |-> u.path, fabric |-> g]
    BY <1>1 DEF GetDatasetUrnParts
  <2>8. [[platform |-> LowerCase[u.platform], prefix |-> u.path, fabric |-> g] EXCEPT !.fabric = f]
          = [platform |-> LowerCase[u.platform], prefix |-> u.path, fabric |-> f]
    OBVIOUS
  <2> QED
    BY <2>1, <2>3, <2>6, <2>7, <2>8
<1> QED
  BY <1>5, <1>6 DEF FabricLinksOfDataset, u, list
-----------------------------------------------------------------------------
(* Texts and the segments they are made of.                                *)
Segs == STRING \ {"/", "."}
LeadOf(d) == IF d = "/" THEN 1 ELSE 0

(* The segments of a list, each with the delimiter after it.               *)
IsDelimited(e, s, d) ==
    Len(e) = 2 * Len(s) /\ \A j \in 1 .. Len(s) : e[2 * j - 1] = s[j] /\ e[2 * j] = d

LEMMA DelimitedIs ==
    ASSUME NEW T, NEW d \in T, NEW s \in Seq(T)
    PROVE  Delimited(s, d) \in Seq(T) /\ IsDelimited(Delimited(s, d), s, d)
<1> DEFINE n == Len(s)
           f == [i \in 1 .. 2 * n |-> IF i % 2 = 1 THEN s[(i + 1) \div 2] ELSE d]
<1>1. n \in Nat
  OBVIOUS
<1>2. ASSUME NEW i \in 1 .. 2 * n PROVE (IF i % 2 = 1 THEN s[(i + 1) \div 2] ELSE d) \in T
  <2>1. CASE i % 2 = 1
    <3>1. (i + 1) \div 2 \in 1 .. n
      BY <1>1, <2>1
    <3> QED
      BY <2>1, <3>1
  <2> QED
    BY <2>1
<1>3. f \in [1 .. 2 * n -> T]
  BY <1>2
<1>4. ASSUME NEW j \in 1 .. n PROVE f[2 * j - 1] = s[j] /\ f[2 * j] = d
  <2>1. 2 * j - 1 \in 1 .. 2 * n /\ 2 * j \in 1 .. 2 * n
    BY <1>1
  <2>2. (2 * j - 1) % 2 = 1 /\ ((2 * j - 1) + 1) \div 2 = j /\ (2 * j) % 2 = 0
    BY <1>1
  <2> QED
    BY <2>1, <2>2
<1> HIDE DEF f
<1>5. f \in Seq(T) /\ Len(f) = 2 * n
  BY <1>1, <1>3
<1>6. Delimited(s, d) = f
  BY DEF f, Delimited
<1>7. IsDelimited(f, s, d)
  BY <1>4, <1>5 DEF IsDelimited
<1> QED
  BY <1>5, <1>6, <1>7

(* A list of segments written out, and what stands at each position.       *)
Written(s, d) == Leading(d) \o Delimited(s, d)

IsWritten(w, s, d) ==
    /\ Len(w) = LeadOf(d) + 2 * Len(s)
    /\ \A i \in 1 .. LeadOf(d) : w[i] = d
    /\ \A j \in 1 .. Len(s) : w[LeadOf(d) + 2 * j - 1] = s[j] /\ w[LeadOf(d) + 2 * j] = d

LEMMA WrittenIs ==
    ASSUME NEW T, NEW d \in T, NEW s \in Seq(T)
    PROVE  Written(s, d) \in Seq(T) /\ IsWritten(Written(s, d), s, d)
<1>1. PICK e \in Seq(T) : e = Delimited(s, d) /\ IsDelimited(e, s, d)
  BY DelimitedIs
<1>2. Len(e) = 2 * Len(s) /\ \A j \in 1 .. Len(s) : e[2 * j - 1] = s[j] /\ e[2 * j] = d
  BY <1>1 DEF IsDelimited
<1>3. CASE d = "/"
  <2>1. PICK l \in Seq(T) : l = <<"/">> /\ Len(l) = 1 /\ l[1] = "/"
    <3>1. <<"/">> \in Seq(T) /\ Len(<<"/">>) = 1 /\ <<"/">>[1] = "/"
      BY <1>3
    <3> QED
      BY <3>1
  <2>2. Written(s, d) = l \o e /\ LeadOf(d) = 1
    BY <1>1, <1>3, <2>1 DEF Written, Leading, LeadOf
  <2>3. l \o e \in Seq(T) /\ Len(l \o e) = 1 + 2 * Len(s) /\ (l \o e)[1] = d
    <3>1. l \o e \in Seq(T) /\ Len(l \o e) = Len(l) + Len(e)
      <4>1. l \in Seq(T) /\ e \in Seq(T)
        OBVIOUS
      <4> QED
        BY <4>1, ConcatProperties
    <3>2. (l \o e)[1] = l[1]
      BY <2>1
    <3> QED
      BY <1>2, <1>3, <2>1, <3>1, <3>2
  <2>4. ASSUME NEW j \in 1 .. Len(s) PROVE (l \o e)[1 + 2 * j - 1] = s[j] /\ (l \o e)[1 + 2 * j] = d
    <3>1. /\ 1 + 2 * j - 1 \in 1 .. 1 + 2 * Len(s) /\ 1 + 2 * j \in 1 .. 1 + 2 * Len(s)
          /\ (1 + 2 * j - 1) - 1 = 2 * j - 1 /\ (1 + 2 * j) - 1 = 2 * j
      OBVIOUS
    <3>2. (l \o e)[1 + 2 * j - 1] = e[2 * j - 1] /\ (l \o e)[1 + 2 * j] = e[2 * j]
      BY <1>2, <2>1, <3>1
    <3> QED
      BY <1>2, <3>2
  <2>5. \A i \in 1 .. LeadOf(d) : i = 1
    BY <2>2
  <2>6. IsWritten(l \o e, s, d)
    BY <2>2, <2>3, <2>4, <2>5 DEF IsWritten
  <2> QED
    BY <2>2, <2>3, <2>6
<1>4. CASE d # "/"
  <2>1. Written(s, d) = <<>> \o e /\ LeadOf(d) = 0
    BY <1>1, <1>4 DEF Written, Leading, LeadOf
  <2>2. <<>> \o e = e
    OBVIOUS
  <2>3. IsWritten(e, s, d)
    BY <1>2, <2>1 DEF IsWritten
  <2> QED
    BY <2>1, <2>2, <2>3
<1> QED
  BY <1>3, <1>4

LEMMA Positions ==
    ASSUME NEW L \in {0, 1}, NEW n \in Nat, NEW i \in 1 .. L + 2 * n
    PROVE  i \in 1 .. L \/ \E j \in 1 .. n : i = L + 2 * j - 1 \/ i = L + 2 * j
<1> SUFFICES ASSUME i > L PROVE \E j \in 1 .. n : i = L + 2 * j - 1 \/ i = L + 2 * j
  OBVIOUS
<1> DEFINE k == i - L
<1>1. k \in 1 .. 2 * n
  OBVIOUS
<1>2. CASE k % 2 = 1
  <2>1. (k + 1) \div 2 \in 1 .. n /\ k = 2 * ((k + 1) \div 2) - 1
    BY <1>1, <1>2
  <2> QED
    BY <2>1
<1>3. CASE k % 2 # 1
  <2>1. k \div 2 \in 1 .. n /\ k = 2 * (k \div 2)
    BY <1>1, <1>3
  <2> QED
    BY <2>1
<1> QED
  BY <1>2, <1>3

LEMMA LeadIs == ASSUME NEW d PROVE LeadOf(d) \in {0, 1}
BY DEF LeadOf

(* Two lists that are written alike as far as the first goes.              *)
LEMMA WrittenPart ==
    ASSUME NEW T, NEW d \in T, NEW s \in Seq(T), NEW p \in Seq(T), Len(s) <= Len(p),
           \A j \in 1 .. Len(s) : s[j] = p[j]
    PROVE  /\ Written(s, d) = SubSeq(Written(p, d), 1, LeadOf(d) + 2 * Len(s))
           /\ \A i \in 1 .. LeadOf(d) + 2 * Len(s) : Written(s, d)[i] = Written(p, d)[i]
<1> DEFINE L == LeadOf(d)  m == Len(s)  n == Len(p)
<1>1. L \in {0, 1} /\ m \in Nat /\ n \in Nat /\ m <= n
  BY LeadIs
<1>2. PICK w \in Seq(T) : w = Written(s, d) /\ IsWritten(w, s, d)
  BY WrittenIs
<1>3. PICK v \in Seq(T) : v = Written(p, d) /\ IsWritten(v, p, d)
  BY WrittenIs
<1>4. /\ Len(w) = L + 2 * m /\ (\A i \in 1 .. L : w[i] = d)
      /\ \A j \in 1 .. m : w[L + 2 * j - 1] = s[j] /\ w[L + 2 * j] = d
  BY <1>2 DEF IsWritten
<1>5. /\ Len(v) = L + 2 * n /\ (\A i \in 1 .. L : v[i] = d)
      /\ \A j \in 1 .. n : v[L + 2 * j - 1] = p[j] /\ v[L + 2 * j] = d
  BY <1>3 DEF IsWritten
<1> HIDE DEF L
<1>6. ASSUME NEW i \in 1 .. L + 2 * m PROVE w[i] = v[i]
  <2>1. i \in 1 .. L \/ \E j \in 1 .. m : i = L + 2 * j - 1 \/ i = L + 2 * j
    BY <1>1, Positions
  <2>2. CASE i \in 1 .. L
    BY <1>4, <1>5, <2>2
  <2>3. ASSUME NEW j \in 1 .. m, i = L + 2 * j - 1 \/ i = L + 2 * j PROVE w[i] = v[i]
    <3>1. j \in 1 .. n /\ s[j] = p[j]
      BY <1>1
    <3> QED
      BY <1>4, <1>5, <2>3, <3>1
  <2> QED
    BY <2>1, <2>2, <2>3
<1>7. w = SubSeq(v, 1, L + 2 * m)
  <2>1. L + 2 * m \in Nat /\ L + 2 * m <= Len(v)
    BY <1>1, <1>5
  <2> HIDE DEF m, n
  <2> QED
    BY <1>4, <1>6, <2>1
<1> QED
  BY <1>2, <1>3, <1>6, <1>7 DEF L

(* Lists that are written alike are alike.                                 *)
LEMMA WrittenAlike ==
    ASSUME NEW T, NEW d \in T, NEW s \in Seq(T), NEW p \in Seq(T), Len(s) <= Len(p),
           SubSeq(Written(p, d), 1, LeadOf(d) + 2 * Len(s)) = Written(s, d)
    PROVE  SubSeq(p, 1, Len(s)) = s
<1> DEFINE L == LeadOf(d)  m == Len(s)  n == Len(p)
<1>1. L \in {0, 1} /\ m \in Nat /\ n \in Nat /\ m <= n
  BY LeadIs
<1>2. PICK w \in Seq(T) : w = Written(s, d) /\ IsWritten(w, s, d)
  BY WrittenIs
<1>3. PICK v \in Seq(T) : v = Written(p, d) /\ IsWritten(v, p, d)
  BY WrittenIs
<1>4. Len(w) = L + 2 * m /\ \A j \in 1 .. m : w[L + 2 * j - 1] = s[j]
  BY <1>2 DEF IsWritten
<1>5. Len(v) = L + 2 * n /\ \A j \in 1 .. n : v[L + 2 * j - 1] = p[j]
  BY <1>3 DEF IsWritten
<1> HIDE DEF L
<1>6. \A i \in 1 .. L + 2 * m : w[i] = v[i]
  <2>1. w = SubSeq(v, 1, L + 2 * m) /\ L + 2 * m \in Nat /\ L + 2 * m <= Len(v)
    BY <1>1, <1>2, <1>3, <1>5 DEF L
  <2> HIDE DEF m, n
  <2> QED
    BY <2>1
<1>7. ASSUME NEW j \in 1 .. m PROVE s[j] = p[j]
  <2>1. L + 2 * j - 1 \in 1 .. L + 2 * m /\ j \in 1 .. n
    BY <1>1
  <2> QED
    BY <1>4, <1>5, <1>6, <2>1
<1> HIDE DEF m
<1>8. Len(s) = m
  BY DEF m
<1> QED
  BY <1>1, <1>7, <1>8

(* One more segment is written after the others, and its delimiter.        *)
LEMMA WrittenMore ==
    ASSUME NEW T, NEW d \in T, NEW s \in Seq(T), NEW x \in T
    PROVE  Written(Append(s, x), d) = Append(Append(Written(s, d), x), d)
<1> DEFINE L == LeadOf(d)  m == Len(s)
<1>1. L \in {0, 1} /\ m \in Nat
  BY LeadIs
<1>2. PICK p \in Seq(T) : p = Append(s, x) /\ Len(p) = m + 1 /\ p[m + 1] = x /\ \A j \in 1 .. m : s[j] = p[j]
  <2>1. Append(s, x) \in Seq(T) /\ Len(Append(s, x)) = m + 1 /\ Append(s, x)[m + 1] = x
        /\ \A j \in 1 .. m : s[j] = Append(s, x)[j]
    OBVIOUS
  <2> QED
    BY <2>1
<1>3. PICK w \in Seq(T) : w = Written(s, d) /\ Len(w) = L + 2 * m
  BY WrittenIs DEF IsWritten
<1>4. PICK v \in Seq(T) : v = Written(p, d) /\ IsWritten(v, p, d)
  BY WrittenIs
<1>a. Len(v) = L + 2 * (m + 1)
  BY <1>2, <1>4 DEF IsWritten
<1>5. v[L + 2 * (m + 1) - 1] = x /\ v[L + 2 * (m + 1)] = d
  <2>1. m + 1 \in 1 .. Len(p)
    BY <1>1, <1>2
  <2> QED
    BY <1>2, <1>4, <2>1 DEF IsWritten
<1>6. \A i \in 1 .. L + 2 * m : w[i] = v[i]
  <2>1. Len(s) <= Len(p) /\ \A j \in 1 .. Len(s) : s[j] = p[j]
    BY <1>1, <1>2
  <2>2. \A i \in 1 .. LeadOf(d) + 2 * Len(s) : Written(s, d)[i] = Written(p, d)[i]
    BY <2>1, WrittenPart
  <2> QED
    BY <1>3, <1>4, <2>2
<1>7. PICK y \in Seq(T) : /\ y = Append(Append(w, x), d) /\ Len(y) = L + 2 * m + 2
                          /\ y[L + 2 * m + 1] = x /\ y[L + 2 * m + 2] = d
                          /\ \A i \in 1 .. L + 2 * m : y[i] = w[i]
  <2> HIDE DEF L, m
  <2> DEFINE a == L + 2 * m
  <2>1. a \in Nat /\ Len(w) = a
    BY <1>1, <1>3
  <2> HIDE DEF a
  <2>2. PICK q \in Seq(T) : q = Append(w, x) /\ Len(q) = a + 1 /\ q[a + 1] = x /\ \A i \in 1 .. a : q[i] = w[i]
    <3>1. Append(w, x) \in Seq(T) /\ Len(Append(w, x)) = a + 1 /\ Append(w, x)[a + 1] = x
          /\ \A i \in 1 .. a : Append(w, x)[i] = w[i]
      BY <2>1
    <3> QED
      BY <3>1
  <2>3. Append(q, d) \in Seq(T) /\ Len(Append(q, d)) = a + 2 /\ Append(q, d)[a + 2] = d
        /\ \A i \in 1 .. a + 1 : Append(q, d)[i] = q[i]
    BY <2>1, <2>2
  <2>4. PICK y \in Seq(T) : y = Append(q, d)
    BY <2>3
  <2>5. /\ Len(y) = a + 2 /\ y[a + 2] = d /\ y[a + 1] = x /\ \A i \in 1 .. a : y[i] = w[i]
    BY <2>1, <2>2, <2>3, <2>4
  <2>6. y = Append(Append(w, x), d)
    BY <2>2, <2>4
  <2> QED
    BY <2>5, <2>6 DEF a
<1>8. v = y
  <2> DEFINE a == L + 2 * m
  <2>1. a \in Nat /\ Len(v) = a + 2 /\ Len(y) = a + 2 /\ v[a + 1] = y[a + 1] /\ v[a + 2] = y[a + 2]
        /\ \A i \in 1 .. a : v[i] = y[i]
    <3>1. L + 2 * (m + 1) - 1 = L + 2 * m + 1 /\ L + 2 * (m + 1) = L + 2 * m + 2 /\ L + 2 * m \in Nat
      BY <1>1
    <3> QED
      BY <1>a, <1>5, <1>6, <1>7, <3>1
  <2> HIDE DEF a, m, L
  <2> QED
    BY <2>1
<1> QED
  BY <1>2, <1>3, <1>4, <1>7, <1>8

(* A written list is split into the segments it was written from.          *)
LEMMA WrittenNothing ==
    ASSUME NEW d PROVE Written(<<>>, d) = IF d = "/" THEN <<d>> ELSE <<>>
<1>1. PICK s \in Seq({d}) : s = <<>> /\ Len(s) = 0
  <2>1. <<>> \in Seq({d}) /\ Len(<<>>) = 0
    OBVIOUS
  <2> QED
    BY <2>1
<1>2. PICK w \in Seq({d}) : w = Written(s, d) /\ IsWritten(w, s, d)
  BY WrittenIs
<1>3. Len(w) = LeadOf(d) /\ \A i \in 1 .. LeadOf(d) : w[i] = d
  BY <1>1, <1>2 DEF IsWritten, LeadOf
<1>4. CASE d = "/"
  <2>1. Len(w) = 1 /\ w[1] = d
    BY <1>3, <1>4 DEF LeadOf
  <2>2. w = <<d>>
    BY <2>1
  <2> QED
    BY <1>1, <1>2, <1>4, <2>2
<1>5. CASE d # "/"
  <2>1. w = <<>>
    BY <1>3, <1>5 DEF LeadOf
  <2> QED
    BY <1>1, <1>2, <1>5, <2>1
<1> QED
  BY <1>4, <1>5

LEMMA SegmentsOfWritten ==
    ASSUME NEW d \in {"/", "."}, NEW s \in Seq(Segs)
    PROVE  Only(Written(s, d), Segs) = s
<1> DEFINE n == Len(s)
           part(k) == SubSeq(s, 1, k)
           T == Segs \cup {d}
           Bad == {k \in 0 .. n : Only(Written(part(k), d), Segs) # part(k)}
<1>1. n \in Nat /\ d \in T /\ d \notin Segs /\ s \in Seq(T)
  <2>1. d \notin Segs
    BY DEF Segs
  <2>2. \A i \in 1 .. Len(s) : s[i] \in T
    OBVIOUS
  <2> HIDE DEF T
  <2>3. s \in Seq(T)
    BY <2>2
  <2> QED
    BY <2>1, <2>3 DEF T
<1>2. part(0) = <<>>
  OBVIOUS
<1>3. \A k \in 1 .. n : part(k - 1) \in Seq(T) /\ s[k] \in T /\ s[k] \in Segs /\ part(k) = Append(part(k - 1), s[k])
  <2> HIDE DEF T
  <2> SUFFICES ASSUME NEW k \in 1 .. n
               PROVE  part(k - 1) \in Seq(T) /\ s[k] \in T /\ s[k] \in Segs /\ part(k) = Append(part(k - 1), s[k])
    OBVIOUS
  <2>1. part(k - 1) \in Seq(T)
    BY <1>1
  <2>2. s[k] \in T /\ s[k] \in Segs
    BY <1>1
  <2>3. part(k) = Append(part(k - 1), s[k])
    BY <1>1
  <2> QED
    BY <2>1, <2>2, <2>3
<1> HIDE DEF T, part
<1>4. Bad = {}
  <2> SUFFICES ASSUME Bad # {} PROVE FALSE
    OBVIOUS
  <2>1. PICK k \in Bad : \A j \in Bad : k <= j
    <3>1. Bad \in SUBSET Nat
      BY <1>1
    <3> HIDE DEF Bad
    <3> QED
      BY <3>1, NatHasLeast
  <2>2. k # 0
    <3>1. Only(Written(<<>>, d), Segs) = <<>>
      BY <1>1, WrittenNothing, OnlyOfEmpty, OnlyOfOne
    <3> QED
      BY <1>2, <2>1, <3>1
  <2>3. k \in 1 .. n /\ k - 1 \in 0 .. n /\ k - 1 \notin Bad
    <3>1. k \in 0 .. n
      BY <2>1
    <3>2. k \in 1 .. n /\ k - 1 \in 0 .. n /\ ~ (k <= k - 1)
      BY <1>1, <2>2, <3>1
    <3> HIDE DEF Bad
    <3> QED
      BY <2>1, <3>2
  <2>4. PICK q \in Seq(T) : q = part(k - 1)
    BY <1>3, <2>3
  <2>5. PICK x \in T : x = s[k] /\ x \in Segs /\ part(k) = Append(q, x)
    BY <1>3, <2>3, <2>4
  <2>6. PICK w \in Seq(T) : w = Written(q, d)
    BY <1>1, WrittenIs
  <2>7. Only(w, Segs) = q
    BY <2>3, <2>4, <2>6
  <2>8. PICK v \in Seq(T) : v = Append(w, x)
    <3>1. Append(w, x) \in Seq(T)
      OBVIOUS
    <3> QED
      BY <3>1
  <2>9. Only(v, Segs) = Append(q, x)
    BY <2>5, <2>7, <2>8, OnlyAppend
  <2>10. Only(Append(v, d), Segs) = Only(v, Segs)
    BY <1>1, OnlyAppend
  <2>11. Written(part(k), d) = Append(v, d)
    <3>1. Written(Append(q, x), d) = Append(Append(Written(q, d), x), d)
      BY <1>1, WrittenMore, Zenon
    <3>2. part(k) = Append(q, x) /\ w = Written(q, d) /\ v = Append(w, x)
      BY <2>5, <2>6, <2>8, Zenon
    <3> QED
      BY <3>1, <3>2, Zenon
  <2>12. Only(Written(part(k), d), Segs) = part(k)
    BY <2>5, <2>9, <2>10, <2>11
  <2> QED
    BY <2>1, <2>12
<1>5. Only(Written(part(n), d), Segs) = part(n)
  BY <1>1, <1>4
<1>6. part(n) = s
  BY <1>1 DEF part
<1> QED
  BY <1>5, <1>6

LEMMA SplitOfWritten ==
    ASSUME NEW d \in {"/", "."}, NEW s \in Seq(Segs)
    PROVE  SplitAt(Written(s, d), d) = s
<1> DEFINE T == Segs \cup {d}
<1>1. s \in Seq(T) /\ d \in T /\ d \notin Segs
  <2>1. d \notin Segs
    BY DEF Segs
  <2>2. \A i \in 1 .. Len(s) : s[i] \in T
    OBVIOUS
  <2> HIDE DEF T
  <2>3. s \in Seq(T)
    BY <2>2
  <2> QED
    BY <2>1, <2>3 DEF T
<1> HIDE DEF T
<1>2. PICK w \in Seq(T) : w = Written(s, d)
  BY <1>1, WrittenIs
<1>3. \A i \in 1 .. Len(w) : w[i] \in T /\ w[i] \in ToSet(w)
  BY DEF ToSet
<1>4. \A i \in 1 .. Len(w) : w[i] \in ToSet(w) \ {d} <=> w[i] \in Segs
  BY <1>1, <1>3 DEF T
<1>5. Only(w, ToSet(w) \ {d}) = Only(w, Segs)
  BY <1>4, OnlyAgrees
<1> QED
  BY <1>2, <1>5, SegmentsOfWritten DEF SplitAt

(* A name the server gives out, without the delimiter that would follow    *)
(* it, is its parts written out.                                           *)
Parts(c, name) == SplitAt(name, GetDelimiter(c))
Texts == STRING \cup {"/", "."}

IsNamed(name, p, d) ==
    /\ Len(name) = LeadOf(d) + 2 * Len(p) - 1
    /\ \A i \in 1 .. Len(name) : name[i] = Written(p, d)[i]

LEMMA DelimiterIs == ASSUME NEW c PROVE GetDelimiter(c) \in {"/", "."}
BY UrnsAssumption DEF GetDelimiter

LEMMA ListUpTo ==
    ASSUME NEW T, NEW list \in Seq(T), NEW i \in 1 .. Len(list)
    PROVE  SubSeq(list, 1, i) = Append(SubSeq(list, 1, i - 1), list[i])
OBVIOUS

LEMMA WiderSeq ==
    ASSUME NEW A, NEW B, A \subseteq B, NEW s \in Seq(A) PROVE s \in Seq(B)
<1>1. \A i \in 1 .. Len(s) : s[i] \in B
  <2>1. \A i \in 1 .. Len(s) : s[i] \in A
    OBVIOUS
  <2> QED
    BY <2>1
<1> QED
  BY <1>1

LEMMA FrontLast ==
    ASSUME NEW T, NEW s \in Seq(T), s # <<>>
    PROVE  /\ Front(s) \in Seq(T) /\ Last(s) \in T /\ s = Append(Front(s), Last(s))
           /\ Last(s) = s[Len(s)] /\ Len(s) >= 1 /\ Len(Front(s)) = Len(s) - 1
           /\ Front(s) = SubSeq(s, 1, Len(s) - 1)
<1>1. Len(s) \in 1 .. Len(s)
  OBVIOUS
<1>2. /\ SubSeq(s, 1, Len(s)) = Append(SubSeq(s, 1, Len(s) - 1), s[Len(s)]) /\ SubSeq(s, 1, Len(s)) = s
  BY <1>1, ListUpTo, SubSeqFull
<1>3. SubSeq(s, 1, Len(s) - 1) \in Seq(T) /\ Len(SubSeq(s, 1, Len(s) - 1)) = Len(s) - 1
  BY <1>1
<1>4. s[Len(s)] \in T /\ Len(s) >= 1
  BY <1>1
<1> QED
  BY <1>2, <1>3, <1>4 DEF Front, Last

LEMMA NameIs ==
    ASSUME NEW c \in DOMAIN DatasetNames, NEW name \in DatasetNames[c]
    PROVE  /\ name \in Seq(Texts) /\ Parts(c, name) \in Seq(Segs) /\ Len(Parts(c, name)) >= 1
           /\ IsNamed(name, Parts(c, name), GetDelimiter(c))
           /\ ConvertWhDatasetPathToLiPath(c, name) = name
<1>1. PICK d \in {"/", "."} : d = GetDelimiter(c)
  BY DelimiterIs
<1>2. IsNameOf(c, name)
  BY UrnsAssumption
<1>3. PICK p : p = Parts(c, name)
  OBVIOUS
<1>4. /\ name \in Seq(STRING) /\ p \in Seq(Segs) /\ p # <<>>
      /\ name = Append(Written(Front(p), d), Last(p))
      /\ ConvertWhDatasetPathToLiPath(c, name) = name
  BY <1>1, <1>2, <1>3 DEF IsNameOf, Parts, Segs, Written
<1>5. name \in Seq(Texts)
  <2>1. STRING \subseteq Texts
    BY DEF Texts
  <2>2. name \in Seq(STRING)
    BY <1>4
  <2> QED
    BY <2>1, <2>2, WiderSeq
<1>6. p \in Seq(Texts) /\ d \in Texts
  <2>1. \A i \in 1 .. Len(p) : p[i] \in Texts
    <3>1. \A i \in 1 .. Len(p) : p[i] \in Segs
      BY <1>4
    <3> QED
      BY <3>1 DEF Texts, Segs
  <2>2. p \in Seq(Texts)
    BY <1>4, <2>1
  <2> QED
    BY <2>2 DEF Texts
<1>7. /\ Front(p) \in Seq(Texts) /\ Last(p) \in Texts /\ p = Append(Front(p), Last(p)) /\ Len(p) >= 1
  BY <1>4, <1>6, FrontLast
<1>8. Written(p, d) = Append(name, d)
  <2>1. Written(Append(Front(p), Last(p)), d) = Append(Append(Written(Front(p), d), Last(p)), d)
    BY <1>6, <1>7, WrittenMore
  <2> QED
    BY <1>4, <1>7, <2>1
<1>9. PICK w \in Seq(Texts) : w = Written(p, d) /\ IsWritten(w, p, d)
  BY <1>6, WrittenIs
<1>10. Len(w) = Len(name) + 1 /\ \A i \in 1 .. Len(name) : name[i] = w[i]
  BY <1>5, <1>6, <1>8, <1>9
<1>11. Len(w) = LeadOf(d) + 2 * Len(p)
  BY <1>9 DEF IsWritten
<1>12. IsNamed(name, p, d)
  <2>1. Len(name) \in Nat /\ Len(p) \in Nat /\ LeadOf(d) \in {0, 1}
    BY <1>4, LeadIs
  <2>2. Len(name) = LeadOf(d) + 2 * Len(p) - 1
    BY <1>10, <1>11, <2>1
  <2> QED
    BY <1>9, <1>10, <2>2 DEF IsNamed
<1> QED
  BY <1>1, <1>3, <1>4, <1>5, <1>7, <1>12

(* The names that a prefix leads to are those whose parts begin with its   *)
(* segments and go on.                                                     *)
BeginsWith(p, t) == Len(t) < Len(p) /\ SubSeq(p, 1, Len(t)) = t
Extends(name, prefix) == Len(name) > Len(prefix) /\ SubSeq(name, 1, Len(prefix)) = prefix

(* What is known of a name, its parts and what is written of them.         *)
LEMMA NameKnown ==
    ASSUME NEW d \in {"/", "."}, NEW name \in Seq(Texts), NEW p \in Seq(Segs), Len(p) >= 1, IsNamed(name, p, d)
    PROVE  \E w \in Seq(Texts) : /\ w = Written(p, d) /\ IsWritten(w, p, d) /\ Len(name) = Len(w) - 1
                                 /\ \A i \in 1 .. Len(name) : name[i] = w[i]
<1>1. p \in Seq(Texts) /\ d \in Texts
  <2>1. \A i \in 1 .. Len(p) : p[i] \in Texts
    <3>1. \A i \in 1 .. Len(p) : p[i] \in Segs
      OBVIOUS
    <3> QED
      BY <3>1 DEF Texts, Segs
  <2>2. p \in Seq(Texts)
    BY <2>1
  <2> QED
    BY <2>2 DEF Texts
<1>2. PICK w \in Seq(Texts) : w = Written(p, d) /\ IsWritten(w, p, d)
  BY <1>1, WrittenIs
<1>3. Len(name) = LeadOf(d) + 2 * Len(p) - 1 /\ \A i \in 1 .. Len(name) : name[i] = w[i]
  BY <1>2 DEF IsNamed
<1>4. Len(w) = LeadOf(d) + 2 * Len(p)
  BY <1>2 DEF IsWritten
<1>5. Len(name) = Len(w) - 1
  <2>1. LeadOf(d) \in {0, 1} /\ Len(p) \in Nat
    BY LeadIs
  <2> QED
    BY <1>3, <1>4, <2>1
<1> QED
  BY <1>2, <1>3, <1>5

LEMMA ExtendsIff ==
    ASSUME NEW c, NEW d \in {"/", "."}, d = GetDelimiter(c), NEW name \in Seq(Texts),
           NEW p \in Seq(Segs), Len(p) >= 1, IsNamed(name, p, d), NEW t \in Seq(Segs)
    PROVE  /\ Extends(name, GetPrefix(c, t)) <=> BeginsWith(p, t)
           /\ Len(GetPrefix(c, t)) = IF t = <<>> THEN 0 ELSE LeadOf(d) + 2 * Len(t)
<1> DEFINE L == LeadOf(d)  n == Len(p)  m == Len(t)
<1>1. L \in {0, 1} /\ n \in Nat /\ n >= 1 /\ m \in Nat
  BY LeadIs
<1>2. PICK w \in Seq(Texts) : /\ w = Written(p, d) /\ IsWritten(w, p, d) /\ Len(name) = Len(w) - 1
                              /\ \A i \in 1 .. Len(name) : name[i] = w[i]
  BY NameKnown
<1>3. Len(w) = L + 2 * n
  BY <1>2 DEF IsWritten
<1>4. CASE t = <<>>
  <2>1. GetPrefix(c, t) = <<>> /\ Len(<<>>) = 0 /\ m = 0
    BY <1>4 DEF GetPrefix
  <2>2. Len(name) > 0 /\ SubSeq(name, 1, 0) = <<>> /\ SubSeq(p, 1, 0) = <<>>
    BY <1>1, <1>2, <1>3
  <2>3. Extends(name, GetPrefix(c, t))
    BY <2>1, <2>2 DEF Extends
  <2>4. BeginsWith(p, t)
    BY <1>1, <1>4, <2>1, <2>2 DEF BeginsWith
  <2> QED
    BY <1>4, <2>1, <2>3, <2>4
<1>5. CASE t # <<>>
  <2>0. t \in Seq(Texts) /\ p \in Seq(Texts) /\ d \in Texts
    <3>1. Segs \subseteq Texts /\ d \in Texts
      BY DEF Texts, Segs
    <3> QED
      BY <3>1, WiderSeq
  <2>1. PICK v \in Seq(Texts) : v = Written(t, d) /\ Len(v) = L + 2 * m
    BY <2>0, WrittenIs DEF IsWritten
  <2>2. GetPrefix(c, t) = v
    BY <1>5, <2>1 DEF GetPrefix, Written
  <2>3. Len(name) > Len(v) <=> m < n
    BY <1>1, <1>2, <1>3, <2>1
  <2>4. ASSUME m < n PROVE SubSeq(name, 1, Len(v)) = v <=> SubSeq(p, 1, m) = t
    <3>1. Len(v) \in Nat /\ Len(v) <= Len(name) /\ Len(v) <= Len(w)
      BY <1>1, <1>2, <1>3, <2>1, <2>4
    <3>2. SubSeq(name, 1, Len(v)) = SubSeq(w, 1, Len(v))
      BY <1>2, <3>1
    <3>3. ASSUME SubSeq(p, 1, m) = t PROVE SubSeq(w, 1, Len(v)) = v
      <4>1. \A j \in 1 .. Len(t) : t[j] = p[j]
        BY <1>1, <2>4, <3>3
      <4>2. Len(t) <= Len(p)
        BY <1>1, <2>4
      <4>3. Written(t, d) = SubSeq(Written(p, d), 1, LeadOf(d) + 2 * Len(t))
        BY <2>0, <4>1, <4>2, WrittenPart
      <4> QED
        BY <1>2, <2>1, <4>3
    <3>4. ASSUME SubSeq(w, 1, Len(v)) = v PROVE SubSeq(p, 1, m) = t
      <4>1. Len(t) <= Len(p)
        BY <1>1, <2>4
      <4>2. SubSeq(Written(p, d), 1, LeadOf(d) + 2 * Len(t)) = Written(t, d)
        BY <1>2, <2>1, <3>4
      <4> QED
        BY <2>0, <4>1, <4>2, WrittenAlike
    <3> QED
      BY <3>2, <3>3, <3>4
  <2> QED
    BY <1>5, <2>1, <2>2, <2>3, <2>4 DEF Extends, BeginsWith
<1> QED
  BY <1>4, <1>5

(* What the platforms endpoint gives for a name: the name itself if one    *)
(* part of it is left, else its parts up to the next.                      *)
LEMMA NodeIs ==
    ASSUME NEW d \in {"/", "."}, NEW name \in Seq(Texts), NEW p \in Seq(Segs), Len(p) >= 1, IsNamed(name, p, d),
           NEW m \in Nat, m < Len(p), NEW k \in Nat, k = IF m = 0 THEN 0 ELSE LeadOf(d) + 2 * m
    PROVE  UpToDelimiter(name, k, d) = IF Len(p) = m + 1 THEN name ELSE Written(SubSeq(p, 1, m + 1), d)
<1> DEFINE L == LeadOf(d)  n == Len(p)  ends == {i \in k + 1 .. Len(name) : name[i] = d /\ i > 1}
<1>1. L \in {0, 1} /\ n \in Nat /\ n >= 1 /\ m < n /\ k \in Nat /\ k = IF m = 0 THEN 0 ELSE L + 2 * m
  BY LeadIs
<1>2. PICK w \in Seq(Texts) : /\ w = Written(p, d) /\ IsWritten(w, p, d) /\ Len(name) = Len(w) - 1
                              /\ \A i \in 1 .. Len(name) : name[i] = w[i]
  BY NameKnown
<1>3. /\ Len(w) = L + 2 * n /\ Len(name) = L + 2 * n - 1
      /\ \A j \in 1 .. n : w[L + 2 * j - 1] = p[j] /\ w[L + 2 * j] = d
  BY <1>1, <1>2 DEF IsWritten
<1>4. \A j \in 1 .. n : p[j] # d
  <2>1. \A j \in 1 .. n : p[j] \in Segs
    OBVIOUS
  <2> QED
    BY <2>1 DEF Segs
<1> HIDE DEF L, n
<1>5. ASSUME NEW i \in ends PROVE \E j \in m + 1 .. n - 1 : i = L + 2 * j
  <2>1. i \in k + 1 .. Len(name) /\ name[i] = d /\ i > 1
    OBVIOUS
  <2>2. i \in 1 .. L + 2 * n /\ i \notin 1 .. L /\ name[i] = w[i] /\ i <= L + 2 * n - 1 /\ i > k
    BY <1>1, <1>2, <1>3, <2>1
  <2>3. \E j \in 1 .. n : i = L + 2 * j - 1 \/ i = L + 2 * j
    BY <1>1, <2>2, Positions
  <2>4. PICK j \in 1 .. n : i = L + 2 * j - 1 \/ i = L + 2 * j
    BY <2>3
  <2>5. i = L + 2 * j
    BY <1>3, <1>4, <2>1, <2>2, <2>4
  <2>6. j \in m + 1 .. n - 1
    BY <1>1, <2>2, <2>5
  <2> QED
    BY <2>5, <2>6
<1>6. CASE n = m + 1
  <2>1. ends = {}
    <3> HIDE DEF ends
    <3>1. \A j : j \notin m + 1 .. n - 1
      BY <1>1, <1>6
    <3> QED
      BY <1>5, <3>1
  <2>2. UpToDelimiter(name, k, d) = name
    BY <2>1, Zenon DEF UpToDelimiter
  <2> QED
    BY <1>6, <2>2 DEF n
<1>7. CASE n # m + 1
  <2> DEFINE e == L + 2 * (m + 1)
  <2>1. e \in ends
    <3>1. m + 1 \in 1 .. n /\ e \in k + 1 .. Len(name) /\ e > 1 /\ e \in 1 .. Len(name)
      BY <1>1, <1>3, <1>7
    <3> QED
      BY <1>2, <1>3, <3>1
  <2>2. \A i \in ends : e <= i /\ (i <= e => i = e)
    <3> SUFFICES ASSUME NEW i \in ends PROVE e <= i /\ (i <= e => i = e)
      OBVIOUS
    <3>1. PICK j \in m + 1 .. n - 1 : i = L + 2 * j
      BY <1>5
    <3> HIDE DEF ends
    <3> QED
      BY <1>1, <3>1
  <2> DEFINE first == CHOOSE i \in ends : \A j \in ends : i <= j
  <2>3. first = e
    <3> HIDE DEF ends, e
    <3>1. first \in ends /\ \A j \in ends : first <= j
      BY <2>1, <2>2
    <3> HIDE DEF first
    <3> QED
      BY <2>1, <2>2, <3>1
  <2>4. UpToDelimiter(name, k, d) = SubSeq(name, 1, first)
    <3>1. ends # {}
      BY <2>1
    <3> QED
      BY <3>1, Zenon DEF UpToDelimiter
  <2> HIDE DEF first
  <2>5. e \in Nat /\ e <= Len(name) /\ e <= Len(w)
    BY <1>1, <1>3, <1>7
  <2>6. SubSeq(name, 1, e) = SubSeq(w, 1, e)
    <3> HIDE DEF e
    <3> QED
      BY <1>2, <2>5
  <2>7. PICK q \in Seq(Segs) : q = SubSeq(p, 1, m + 1) /\ Len(q) = m + 1 /\ \A j \in 1 .. m + 1 : q[j] = p[j]
    <3>1. m + 1 \in Nat /\ m + 1 <= Len(p)
      BY <1>1, <1>7 DEF n
    <3>2. SubSeq(p, 1, m + 1) \in Seq(Segs) /\ Len(SubSeq(p, 1, m + 1)) = m + 1
          /\ \A j \in 1 .. m + 1 : SubSeq(p, 1, m + 1)[j] = p[j]
      BY <3>1
    <3> QED
      BY <3>2
  <2>8. q \in Seq(Texts) /\ p \in Seq(Texts) /\ d \in Texts
    <3>1. Segs \subseteq Texts /\ d \in Texts
      BY DEF Texts, Segs
    <3> QED
      BY <3>1, WiderSeq
  <2>9. Len(q) <= Len(p) /\ \A j \in 1 .. Len(q) : q[j] = p[j]
    BY <1>1, <1>7, <2>7 DEF n
  <2>10. Written(q, d) = SubSeq(Written(p, d), 1, LeadOf(d) + 2 * Len(q))
    BY <2>8, <2>9, WrittenPart
  <2>11. Written(q, d) = SubSeq(w, 1, e)
    BY <1>2, <2>7, <2>10 DEF L
  <2> HIDE DEF e
  <2> QED
    BY <1>7, <2>3, <2>4, <2>6, <2>7, <2>11 DEF n
<1> QED
  BY <1>6, <1>7

(* What the page of a category lists.                                      *)
Below(c, t) == {name \in DatasetNames[c] : BeginsWith(Parts(c, name), t)}
NodeBelow(c, name, m) ==
    IF Len(Parts(c, name)) = m + 1 THEN name ELSE Written(SubSeq(Parts(c, name), 1, m + 1), GetDelimiter(c))

LEMMA NamesBelow ==
    ASSUME NEW c \in DOMAIN DatasetNames, NEW t \in Seq(Segs)
    PROVE  ReadPlatforms(c, GetPrefix(c, t)) = {NodeBelow(c, name, Len(t)) : name \in Below(c, t)}
<1>1. PICK d \in {"/", "."} : d = GetDelimiter(c)
  BY DelimiterIs
<1> DEFINE prefix == GetPrefix(c, t)
<1>2. ASSUME NEW name \in DatasetNames[c]
      PROVE  /\ Extends(name, prefix) <=> BeginsWith(Parts(c, name), t)
             /\ BeginsWith(Parts(c, name), t) => UpToDelimiter(name, Len(prefix), GetDelimiter(c)) = NodeBelow(c, name, Len(t))
  <2>1. PICK p \in Seq(Segs) : p = Parts(c, name) /\ Len(p) >= 1 /\ IsNamed(name, p, d)
    BY <1>1, NameIs
  <2>2. name \in Seq(Texts)
    BY NameIs
  <2>3. /\ Extends(name, prefix) <=> BeginsWith(p, t)
        /\ Len(prefix) = IF t = <<>> THEN 0 ELSE LeadOf(d) + 2 * Len(t)
    BY <1>1, <2>1, <2>2, ExtendsIff
  <2>4. ASSUME BeginsWith(p, t) PROVE UpToDelimiter(name, Len(prefix), d) = NodeBelow(c, name, Len(t))
    <3>1. PICK m \in Nat : m = Len(t) /\ m < Len(p) /\ (m = 0 <=> t = <<>>)
      <4>1. Len(t) < Len(p)
        BY <2>4 DEF BeginsWith
      <4>2. Len(t) \in Nat /\ (Len(t) = 0 <=> t = <<>>)
        OBVIOUS
      <4> QED
        BY <4>1, <4>2
    <3>2. PICK k \in Nat : k = Len(prefix) /\ k = IF m = 0 THEN 0 ELSE LeadOf(d) + 2 * m
      <4>1. LeadOf(d) \in {0, 1}
        BY LeadIs
      <4>2. (IF m = 0 THEN 0 ELSE LeadOf(d) + 2 * m) \in Nat
        BY <4>1
      <4>3. Len(prefix) = IF m = 0 THEN 0 ELSE LeadOf(d) + 2 * m
        BY <2>3, <3>1
      <4> QED
        BY <4>2, <4>3
    <3>3. UpToDelimiter(name, k, d) = IF Len(p) = m + 1 THEN name ELSE Written(SubSeq(p, 1, m + 1), d)
      <4>1. Len(p) >= 1 /\ IsNamed(name, p, d) /\ m < Len(p)
        BY <2>1, <3>1
      <4>2. k = IF m = 0 THEN 0 ELSE LeadOf(d) + 2 * m
        BY <3>2
      <4> QED
        BY <2>2, <4>1, <4>2, NodeIs
    <3> QED
      BY <1>1, <2>1, <3>1, <3>2, <3>3 DEF NodeBelow
  <2> QED
    BY <1>1, <2>1, <2>3, <2>4
<1>3. {x \in DatasetNames[c] : Len(x) > Len(prefix) /\ SubSeq(x, 1, Len(prefix)) = prefix} = Below(c, t)
  BY <1>2 DEF Extends, Below
<1>4. \A name \in Below(c, t) : UpToDelimiter(name, Len(prefix), GetDelimiter(c)) = NodeBelow(c, name, Len(t))
  BY <1>2 DEF Below
<1>5. ReadPlatforms(c, prefix) = {UpToDelimiter(name, Len(prefix), GetDelimiter(c)) : name \in Below(c, t)}
  BY <1>3, Zenon DEF ReadPlatforms
<1> HIDE DEF prefix
<1>6. ReadPlatforms(c, prefix) = {NodeBelow(c, name, Len(t)) : name \in Below(c, t)}
  BY <1>4, <1>5
<1> QED
  BY <1>6 DEF prefix

LEMMA NodesAre ==
    ASSUME NEW c \in DOMAIN DatasetNames, NEW name \in DatasetNames[c], NEW m \in Nat, m < Len(Parts(c, name))
    PROVE  /\ Len(Parts(c, name)) = m + 1 => NodeBelow(c, name, m) = name /\ ~ IsDatasetSegment(name)
           /\ Len(Parts(c, name)) # m + 1 =>
                /\ IsDatasetSegment(NodeBelow(c, name, m))
                /\ SplitAt(NodeBelow(c, name, m), GetDelimiter(c)) = SubSeq(Parts(c, name), 1, m + 1)
<1>1. PICK d \in {"/", "."} : d = GetDelimiter(c)
  BY DelimiterIs
<1>2. PICK p \in Seq(Segs) : p = Parts(c, name) /\ Len(p) >= 1 /\ IsNamed(name, p, d)
  BY <1>1, NameIs
<1>3. name \in Seq(Texts)
  BY NameIs
<1>4. CASE Len(p) = m + 1
  <2>1. PICK w \in Seq(Texts) : /\ w = Written(p, d) /\ IsWritten(w, p, d) /\ Len(name) = Len(w) - 1
                                /\ \A i \in 1 .. Len(name) : name[i] = w[i]
    BY <1>2, <1>3, NameKnown
  <2>2. PICK n \in Nat : n = Len(p) /\ n >= 1 /\ n \in 1 .. n
    BY <1>2
  <2>3. Len(name) = LeadOf(d) + 2 * n - 1 /\ w[LeadOf(d) + 2 * n - 1] = p[n]
    <3>1. PICK e \in {0, 1} : e = LeadOf(d)
      BY LeadIs
    <3>2. /\ Len(w) = e + 2 * Len(p)
          /\ \A j \in 1 .. Len(p) : w[e + 2 * j - 1] = p[j] /\ w[e + 2 * j] = d
      BY <2>1, <3>1 DEF IsWritten
    <3>3. w[e + 2 * n - 1] = p[n] /\ Len(w) = e + 2 * n
      BY <2>2, <3>2
    <3>4. Len(name) = Len(w) - 1
      BY <2>1
    <3> QED
      BY <3>1, <3>3, <3>4
  <2>4. Len(name) \in 1 .. Len(name) /\ name # <<>>
    BY <1>3, <2>2, <2>3, LeadIs
  <2>5. Last(name) = p[n]
    BY <2>1, <2>3, <2>4 DEF Last
  <2>6. p[n] \in Segs
    BY <2>2
  <2>7. ~ IsDatasetSegment(name)
    BY <2>5, <2>6 DEF IsDatasetSegment, Segs
  <2> QED
    BY <1>2, <1>4, <2>7 DEF NodeBelow
<1>5. CASE Len(p) # m + 1
  <2>1. m + 1 \in Nat /\ m + 1 <= Len(p)
    BY <1>2
  <2>2. PICK q \in Seq(Segs) : q = SubSeq(p, 1, m + 1) /\ Len(q) = m + 1
    <3>1. SubSeq(p, 1, m + 1) \in Seq(Segs) /\ Len(SubSeq(p, 1, m + 1)) = m + 1
      BY <2>1
    <3> QED
      BY <3>1
  <2>3. NodeBelow(c, name, m) = Written(q, d)
    BY <1>1, <1>2, <1>5, <2>2 DEF NodeBelow
  <2>4. q \in Seq(Texts) /\ d \in Texts
    <3>1. Segs \subseteq Texts /\ d \in Texts
      BY DEF Texts, Segs
    <3> QED
      BY <3>1, WiderSeq
  <2>5. PICK w \in Seq(Texts) : w = Written(q, d) /\ IsWritten(w, q, d)
    BY <2>4, WrittenIs
  <2>6. w[LeadOf(d) + 2 * (m + 1)] = d /\ Len(w) = LeadOf(d) + 2 * (m + 1)
    <3>1. m + 1 \in 1 .. Len(q)
      BY <2>2
    <3> QED
      BY <2>2, <2>5, <3>1 DEF IsWritten
  <2>7. Last(w) = d
    BY <2>6 DEF Last
  <2>8. IsDatasetSegment(w)
    BY <2>7 DEF IsDatasetSegment
  <2>9. SplitAt(Written(q, d), d) = q
    BY SplitOfWritten
  <2> QED
    BY <1>1, <1>2, <1>5, <2>2, <2>3, <2>5, <2>8, <2>9
<1> QED
  BY <1>2, <1>4, <1>5

LEMMA CategoryFirst ==
    ASSUME NEW T, NEW c \in T, NEW t \in Seq(T)
    PROVE  /\ <<c>> \o t \in Seq(T) /\ <<c>> \o t # <<>> /\ Len(<<c>> \o t) = Len(t) + 1
           /\ Head(<<c>> \o t) = c /\ Tail(<<c>> \o t) = t
OBVIOUS

(* A list without its last entry.                                          *)
LEMMA FrontOfCons ==
    ASSUME NEW T, NEW c \in T, NEW p \in Seq(T), NEW m \in Nat, m <= Len(p)
    PROVE  Front(<<c>> \o SubSeq(p, 1, m)) = IF m = 0 THEN <<>> ELSE <<c>> \o SubSeq(p, 1, m - 1)
<1>1. PICK t \in Seq(T) : t = SubSeq(p, 1, m) /\ Len(t) = m
  <2>1. SubSeq(p, 1, m) \in Seq(T) /\ Len(SubSeq(p, 1, m)) = m
    OBVIOUS
  <2> QED
    BY <2>1
<1>2. PICK s \in Seq(T) : s = <<c>> \o t /\ Len(s) = m + 1 /\ s # <<>>
  BY <1>1, CategoryFirst
<1>3. CASE m = 0
  <2>1. Front(s) = SubSeq(s, 1, Len(s) - 1) /\ Len(s) - 1 = 0
    <3>1. Len(s) - 1 = 0
      BY <1>2, <1>3
    <3> QED
      BY <3>1 DEF Front
  <2>2. SubSeq(s, 1, 0) = <<>>
    OBVIOUS
  <2> QED
    BY <1>1, <1>2, <1>3, <2>1, <2>2
<1>4. CASE m # 0
  <2>1. PICK q \in Seq(T) : q = SubSeq(p, 1, m - 1)
    <3>1. SubSeq(p, 1, m - 1) \in Seq(T)
      BY <1>4
    <3> QED
      BY <3>1
  <2>2. t = Append(q, p[m]) /\ p[m] \in T
    BY <1>1, <1>4, <2>1, ListUpTo
  <2>3. PICK l \in Seq(T) : l = <<c>>
    <3>1. <<c>> \in Seq(T)
      OBVIOUS
    <3> QED
      BY <3>1
  <2>4. PICK x \in T : x = p[m]
    BY <2>2
  <2>5. s = Append(l \o q, x)
    <3>1. s = l \o Append(q, x)
      BY <1>2, <2>2, <2>3, <2>4
    <3> QED
      BY <3>1
  <2>6. PICK f \in Seq(T) : f = l \o q
    <3>1. l \o q \in Seq(T)
      OBVIOUS
    <3> QED
      BY <3>1
  <2>7. Front(Append(f, x)) = f
    <3>1. PICK a \in Seq(T) : a = Append(f, x) /\ Len(a) = Len(f) + 1 /\ \A i \in 1 .. Len(f) : a[i] = f[i]
      <4>1. /\ Append(f, x) \in Seq(T) /\ Len(Append(f, x)) = Len(f) + 1
            /\ \A i \in 1 .. Len(f) : Append(f, x)[i] = f[i]
        OBVIOUS
      <4> QED
        BY <4>1
    <3>2. SubSeq(a, 1, Len(f)) = f /\ Len(a) - 1 = Len(f)
      BY <3>1
    <3> QED
      BY <3>1, <3>2 DEF Front
  <2> QED
    BY <1>1, <1>2, <1>4, <2>1, <2>3, <2>5, <2>6, <2>7
<1> QED
  BY <1>3, <1>4

(* The segments that are shown lead to a dataset: they are a platform and  *)
(* the first parts of one of its names, though not all of them.            *)
Trail(c, name, m) == <<c>> \o SubSeq(Parts(c, name), 1, m)

LeadsOn(segments) ==
    segments = <<>> \/ \E c \in DOMAIN DatasetNames : \E name \in DatasetNames[c] :
                          \E m \in Nat : m < Len(Parts(c, name)) /\ segments = Trail(c, name, m)

LEMMA TrailIsOf ==
    ASSUME NEW c \in DOMAIN DatasetNames, NEW name \in DatasetNames[c], NEW m \in Nat, m <= Len(Parts(c, name))
    PROVE  /\ Trail(c, name, m) # <<>> /\ Head(Trail(c, name, m)) = c
           /\ Tail(Trail(c, name, m)) = SubSeq(Parts(c, name), 1, m)
           /\ Front(Trail(c, name, m)) = IF m = 0 THEN <<>> ELSE Trail(c, name, m - 1)
<1> DEFINE T == Segs \cup {c}
<1>1. PICK p \in Seq(Segs) : p = Parts(c, name)
  BY NameIs
<1>2. p \in Seq(T) /\ c \in T
  <2>1. Segs \subseteq T /\ c \in T
    OBVIOUS
  <2> HIDE DEF T
  <2> QED
    BY <2>1, WiderSeq
<1> HIDE DEF T
<1>3. PICK t \in Seq(T) : t = SubSeq(p, 1, m)
  <2>1. SubSeq(p, 1, m) \in Seq(T)
    BY <1>1, <1>2
  <2> QED
    BY <2>1
<1>4. <<c>> \o t # <<>> /\ Head(<<c>> \o t) = c /\ Tail(<<c>> \o t) = t
  BY <1>2, CategoryFirst
<1>5. Front(<<c>> \o SubSeq(p, 1, m)) = IF m = 0 THEN <<>> ELSE <<c>> \o SubSeq(p, 1, m - 1)
  BY <1>1, <1>2, FrontOfCons
<1> QED
  BY <1>1, <1>3, <1>4, <1>5 DEF Trail

LEMMA BeginsWithItsPart ==
    ASSUME NEW c \in DOMAIN DatasetNames, NEW name \in DatasetNames[c], NEW m \in Nat, m < Len(Parts(c, name))
    PROVE  LET t == SubSeq(Parts(c, name), 1, m) IN
           t \in Seq(Segs) /\ Len(t) = m /\ BeginsWith(Parts(c, name), t)
<1>1. PICK p \in Seq(Segs) : p = Parts(c, name)
  BY NameIs
<1>2. SubSeq(p, 1, m) \in Seq(Segs) /\ Len(SubSeq(p, 1, m)) = m
  BY <1>1
<1> QED
  BY <1>1, <1>2 DEF BeginsWith

(* The page of a category: a group for each next part of a name, and the   *)
(* datasets whose names have one part more.                                *)
LEMMA PageIs ==
    ASSUME NEW c \in DOMAIN DatasetNames, NEW t \in Seq(Segs), NEW segments,
           segments # <<>>, Head(segments) = c, Tail(segments) = t
    PROVE  LET page == ReadDatasetCategories(segments)  m == Len(t) IN
           /\ \A s \in page.groups : \E name \in Below(c, t) : Len(Parts(c, name)) # m + 1 /\ s = Trail(c, name, m + 1)
           /\ \A name \in Below(c, t) : IF Len(Parts(c, name)) = m + 1
                                        THEN BuildDatasetLiUrn(c, name, "PROD") \in page.entities
                                        ELSE Trail(c, name, m + 1) \in page.groups
<1> DEFINE m == Len(t)
           readNodes == ReadPlatforms(c, GetPrefix(c, t))
           groups == {<<c>> \o SplitAt(node, GetDelimiter(c)) : node \in {x \in readNodes : IsDatasetSegment(x)}}
           entities == {BuildDatasetLiUrn(c, node, "PROD") : node \in {x \in readNodes : IsDatasetIdentifier(x)}}
<1>1. ReadDatasetCategories(segments) = [groups |-> groups, entities |-> entities]
  BY Zenon DEF ReadDatasetCategories
<1>2. readNodes = {NodeBelow(c, name, m) : name \in Below(c, t)}
  BY NamesBelow
<1>3. m \in Nat /\ \A name \in Below(c, t) : name \in DatasetNames[c] /\ m < Len(Parts(c, name))
  BY DEF Below, BeginsWith
<1> HIDE DEF readNodes, m
<1>4. ASSUME NEW s \in groups
      PROVE  \E name \in Below(c, t) : Len(Parts(c, name)) # m + 1 /\ s = Trail(c, name, m + 1)
  <2>1. PICK node \in readNodes : IsDatasetSegment(node) /\ s = <<c>> \o SplitAt(node, GetDelimiter(c))
    OBVIOUS
  <2>2. PICK name \in Below(c, t) : node = NodeBelow(c, name, m)
    BY <1>2
  <2>3. Len(Parts(c, name)) # m + 1
    BY <1>3, <2>1, <2>2, NodesAre
  <2>4. SplitAt(node, GetDelimiter(c)) = SubSeq(Parts(c, name), 1, m + 1)
    BY <1>3, <2>2, <2>3, NodesAre
  <2> QED
    BY <2>1, <2>3, <2>4 DEF Trail
<1>5. ASSUME NEW name \in Below(c, t), Len(Parts(c, name)) = m + 1
      PROVE  BuildDatasetLiUrn(c, name, "PROD") \in entities
  <2>1. NodeBelow(c, name, m) = name /\ ~ IsDatasetSegment(name)
    BY <1>3, <1>5, NodesAre
  <2>2. name \in readNodes /\ IsDatasetIdentifier(name)
    BY <1>2, <2>1 DEF IsDatasetIdentifier
  <2> QED
    BY <2>2
<1>6. ASSUME NEW name \in Below(c, t), Len(Parts(c, name)) # m + 1
      PROVE  Trail(c, name, m + 1) \in groups
  <2>1. PICK node : node = NodeBelow(c, name, m)
    OBVIOUS
  <2>2. /\ IsDatasetSegment(node)
        /\ SplitAt(node, GetDelimiter(c)) = SubSeq(Parts(c, name), 1, m + 1)
    BY <1>3, <1>6, <2>1, NodesAre
  <2>3. node \in readNodes
    BY <1>2, <2>1
  <2>4. <<c>> \o SplitAt(node, GetDelimiter(c)) \in groups
    BY <2>2, <2>3
  <2> QED
    BY <2>2, <2>4 DEF Trail
<1> HIDE DEF groups, entities
<1>7. ReadDatasetCategories(segments).groups = groups /\ ReadDatasetCategories(segments).entities = entities
  BY <1>1
<1> QED
  BY <1>4, <1>5, <1>6, <1>7, Zenon DEF m

(* The first page lists the platforms.                                     *)
LEMMA FirstPageIs ==
    ReadDatasetCategories(<<>>).groups = {<<p>> : p \in DOMAIN DatasetNames}
BY DEF ReadDatasetCategories

LEMMA OneSegment ==
    ASSUME NEW c \in DOMAIN DatasetNames, NEW name \in DatasetNames[c]
    PROVE  Trail(c, name, 0) = <<c>> /\ Front(<<c>>) = <<>> /\ 0 < Len(Parts(c, name))
<1>1. PICK p \in Seq(Segs) : p = Parts(c, name) /\ Len(p) >= 1
  BY NameIs
<1>2. Trail(c, name, 0) = <<c>>
  <2>1. SubSeq(p, 1, 0) = <<>> /\ <<c>> \o <<>> = <<c>>
    OBVIOUS
  <2> QED
    BY <1>1, <2>1 DEF Trail
<1>3. Front(Trail(c, name, 0)) = <<>>
  <2>1. 0 \in Nat /\ 0 <= Len(Parts(c, name))
    BY <1>1
  <2> QED
    BY <2>1, TrailIsOf
<1> QED
  BY <1>1, <1>2, <1>3

(* The groups of a page lead on, and one step further.                     *)
LEMMA GroupsLeadOn ==
    ASSUME NEW segments, LeadsOn(segments), NEW s \in ReadDatasetCategories(segments).groups
    PROVE  LeadsOn(s) /\ Front(s) = segments
<1>1. CASE segments = <<>>
  <2>1. PICK c \in DOMAIN DatasetNames : s = <<c>>
    BY <1>1, FirstPageIs
  <2>2. PICK name \in DatasetNames[c] : TRUE
    BY UrnsAssumption
  <2>3. s = Trail(c, name, 0) /\ 0 < Len(Parts(c, name)) /\ Front(s) = <<>>
    BY <2>1, OneSegment
  <2> QED
    BY <1>1, <2>3 DEF LeadsOn
<1>2. CASE segments # <<>>
  <2>a. PICK c \in DOMAIN DatasetNames : \E name \in DatasetNames[c] : \E m \in Nat :
           m < Len(Parts(c, name)) /\ segments = Trail(c, name, m)
    BY <1>2 DEF LeadsOn
  <2>b. PICK name \in DatasetNames[c] : \E m \in Nat : m < Len(Parts(c, name)) /\ segments = Trail(c, name, m)
    BY <2>a
  <2>1. PICK m \in Nat : m < Len(Parts(c, name)) /\ segments = Trail(c, name, m)
    BY <2>b
  <2>2. PICK t \in Seq(Segs) : t = SubSeq(Parts(c, name), 1, m) /\ Len(t) = m
    BY <2>1, BeginsWithItsPart
  <2>3. m <= Len(Parts(c, name))
    <3>1. Len(Parts(c, name)) \in Nat
      BY NameIs
    <3> QED
      BY <2>1, <3>1
  <2>4. Head(segments) = c /\ Tail(segments) = t
    BY <2>1, <2>2, <2>3, TrailIsOf
  <2>5. PICK x \in Below(c, t) : Len(Parts(c, x)) # m + 1 /\ s = Trail(c, x, m + 1)
    <3>1. \A r \in ReadDatasetCategories(segments).groups :
            \E x \in Below(c, t) : Len(Parts(c, x)) # Len(t) + 1 /\ r = Trail(c, x, Len(t) + 1)
      BY <1>2, <2>4, PageIs
    <3>2. \E x \in Below(c, t) : Len(Parts(c, x)) # Len(t) + 1 /\ s = Trail(c, x, Len(t) + 1)
      BY <3>1, Zenon
    <3>3. Len(t) = m
      BY <2>2
    <3> QED
      BY <3>2, <3>3, Zenon
  <2>6. x \in DatasetNames[c] /\ m < Len(Parts(c, x)) /\ SubSeq(Parts(c, x), 1, m) = t
    BY <2>2 DEF Below, BeginsWith
  <2>7. m + 1 \in Nat /\ m + 1 <= Len(Parts(c, x)) /\ m + 1 < Len(Parts(c, x))
    <3>1. Len(Parts(c, x)) \in Nat
      BY <2>6, NameIs
    <3> QED
      BY <2>5, <2>6, <3>1
  <2>8. LeadsOn(s)
    BY <2>5, <2>6, <2>7 DEF LeadsOn
  <2>9. Front(s) = Trail(c, x, (m + 1) - 1)
    <3>1. m + 1 # 0
      OBVIOUS
    <3> QED
      BY <2>5, <2>6, <2>7, <3>1, TrailIsOf
  <2>10. Front(s) = segments
    <3>1. (m + 1) - 1 = m
      OBVIOUS
    <3> QED
      BY <2>1, <2>2, <2>6, <2>9, <3>1 DEF Trail
  <2> QED
    BY <2>8, <2>10
<1> QED
  BY <1>1, <1>2

LEMMA BackLeadsOn ==
    ASSUME NEW segments, LeadsOn(segments), segments # <<>>
    PROVE  LeadsOn(Front(segments))
<1>a. PICK c \in DOMAIN DatasetNames : \E name \in DatasetNames[c] : \E m \in Nat :
         m < Len(Parts(c, name)) /\ segments = Trail(c, name, m)
  BY DEF LeadsOn
<1>b. PICK name \in DatasetNames[c] : \E m \in Nat : m < Len(Parts(c, name)) /\ segments = Trail(c, name, m)
  BY <1>a
<1>1. PICK m \in Nat : m < Len(Parts(c, name)) /\ segments = Trail(c, name, m)
  BY <1>b
<1>2. Len(Parts(c, name)) \in Nat
  BY NameIs
<1>3. m <= Len(Parts(c, name))
  BY <1>1, <1>2
<1>4. Front(segments) = IF m = 0 THEN <<>> ELSE Trail(c, name, m - 1)
  BY <1>1, <1>3, TrailIsOf
<1>5. CASE m = 0
  BY <1>4, <1>5 DEF LeadsOn
<1>6. CASE m # 0
  <2>1. m - 1 \in Nat /\ m - 1 < Len(Parts(c, name))
    BY <1>1, <1>2, <1>6
  <2> QED
    BY <1>4, <1>6, <2>1 DEF LeadsOn
<1> QED
  BY <1>5, <1>6

LEMMA PagesLead ==
    ASSUME LeadsOn(segmentsShown) PROVE CategoriesLeadToDatasets
<1> DEFINE page == ReadDatasetCategories(segmentsShown)
<1>1. \A s \in page.groups : Front(s) = segmentsShown
  BY GroupsLeadOn
<1>2. CASE segmentsShown = <<>>
  <2>1. page.groups # {}
    <3>1. PICK p \in DOMAIN DatasetNames : TRUE
      BY UrnsAssumption
    <3>2. <<p>> \in page.groups
      BY <1>2, FirstPageIs
    <3> QED
      BY <3>2
  <2> HIDE DEF page
  <2>2. CategoriesLeadToDatasets <=>
          LET page_1 == page IN
          page_1.groups # {} \/ page_1.entities # {}
    BY <1>1, <1>2 DEF CategoriesLeadToDatasets, page
  <2> QED
    BY <2>1, <2>2
<1>3. CASE segmentsShown # <<>>
  <2>a. PICK c \in DOMAIN DatasetNames : \E name \in DatasetNames[c] : \E m \in Nat :
           m < Len(Parts(c, name)) /\ segmentsShown = Trail(c, name, m)
    BY <1>3 DEF LeadsOn
  <2>b. PICK name \in DatasetNames[c] : \E m \in Nat : m < Len(Parts(c, name)) /\ segmentsShown = Trail(c, name, m)
    BY <2>a
  <2>1. PICK m \in Nat : m < Len(Parts(c, name)) /\ segmentsShown = Trail(c, name, m)
    BY <2>b
  <2>2. PICK t \in Seq(Segs) : t = SubSeq(Parts(c, name), 1, m) /\ Len(t) = m /\ BeginsWith(Parts(c, name), t)
    BY <2>1, BeginsWithItsPart
  <2>3. m <= Len(Parts(c, name))
    <3>1. Len(Parts(c, name)) \in Nat
      BY NameIs
    <3> QED
      BY <2>1, <3>1
  <2>4. Head(segmentsShown) = c /\ Tail(segmentsShown) = t
    BY <2>1, <2>2, <2>3, TrailIsOf
  <2>5. \A x \in Below(c, t) : IF Len(Parts(c, x)) = m + 1 THEN BuildDatasetLiUrn(c, x, "PROD") \in page.entities
                               ELSE Trail(c, x, m + 1) \in page.groups
    BY <1>3, <2>2, <2>4, PageIs
  <2>6. page.groups # {} \/ page.entities # {}
    <3>1. name \in Below(c, t)
      BY <2>2 DEF Below
    <3> HIDE DEF page
    <3> QED
      BY <2>5, <3>1
  <2>7. ASSUME NEW x \in DatasetNames[c], Front(SplitAt(x, GetDelimiter(c))) = t
        PROVE  \E u \in page.entities : /\ u.path = x
                                        /\ GetDisplayName(u.path, GetDelimiter(u.platform)) = Last(SplitAt(x, GetDelimiter(c)))
    <3>1. PICK p \in Seq(Segs) : p = Parts(c, x) /\ Len(p) >= 1 /\ ConvertWhDatasetPathToLiPath(c, x) = x
      BY NameIs
    <3>2. p # <<>>
      BY <3>1
    <3>3. Front(p) = SubSeq(p, 1, Len(p) - 1) /\ Len(Front(p)) = Len(p) - 1 /\ Front(p) = t
      BY <2>7, <3>1, <3>2, FrontLast DEF Parts
    <3>4. Len(p) = m + 1 /\ Len(p) - 1 = m
      BY <2>2, <3>1, <3>3
    <3>5. x \in Below(c, t)
      <4>1. m < Len(p) /\ SubSeq(p, 1, m) = t
        BY <3>1, <3>3, <3>4
      <4> QED
        BY <2>2, <3>1, <4>1 DEF Below, BeginsWith
    <3>6. BuildDatasetLiUrn(c, x, "PROD") \in page.entities
      BY <2>5, <3>1, <3>4, <3>5
    <3>7. PICK u : u = BuildDatasetLiUrn(c, x, "PROD") /\ u.path = x /\ u.platform = c
      <4>1. BuildDatasetLiUrn(c, x, "PROD") = [kind |-> "li", platform |-> c, path |-> x, fabric |-> "PROD"]
        BY <3>1 DEF BuildDatasetLiUrn
      <4> QED
        BY <4>1
    <3>8. GetDisplayName(u.path, GetDelimiter(u.platform)) = Last(SplitAt(x, GetDelimiter(c)))
      BY <3>7 DEF GetDisplayName
    <3> QED
      BY <3>6, <3>7, <3>8
  <2> HIDE DEF page
  <2>8. CategoriesLeadToDatasets <=>
          /\ page.groups # {} \/ page.entities # {}
          /\ \A s \in page.groups : Front(s) = segmentsShown
          /\ segmentsShown # <<>> =>
               \A x \in DatasetNames[Head(segmentsShown)] :
                 Front(SplitAt(x, GetDelimiter(Head(segmentsShown)))) = Tail(segmentsShown)
                   => \E u \in page.entities :
                        /\ u.path = x
                        /\ GetDisplayName(u.path, GetDelimiter(u.platform)) = Last(SplitAt(x, GetDelimiter(Head(segmentsShown))))
    BY Zenon DEF CategoriesLeadToDatasets, page
  <2> QED
    BY <1>1, <2>4, <2>6, <2>7, <2>8, Zenon DEF page
<1> QED
  BY <1>2, <1>3

(* Every step keeps the fabrics in order and the segments on their way.    *)
UrnsInv == FabInv /\ LeadsOn(segmentsShown)

LEMMA UrnsStart == UrnsInit => UrnsInv
BY FabStarts DEF UrnsInit, UrnsInv, LeadsOn

LEMMA UrnsSteps ==
    ASSUME UrnsInv, [UrnsNext]_urnVars
    PROVE  UrnsInv'
<1>1. CASE UNCHANGED urnVars
  BY <1>1 DEF urnVars, UrnsInv, FabInv, FabricsStayOpen
<1>2. ASSUME NEW u \in FabUrns, VisitFabUrn(u) PROVE UrnsInv'
  <2>1. segmentsShown' = segmentsShown
    BY <1>2 DEF VisitFabUrn
  <2> QED
    BY <1>2, <2>1, FabricsVisited DEF UrnsInv
<1>3. ASSUME NEW i \in DOMAIN fabReads, FabReadEnds(i) PROVE UrnsInv'
  <2>1. segmentsShown' = segmentsShown
    BY <1>3 DEF FabReadEnds
  <2> QED
    BY <1>3, <2>1, FabricsRead DEF UrnsInv
<1>4. CASE ShowFabrics \/ HideFabrics \/ HideFabricsEnds
  <2>1. segmentsShown' = segmentsShown
    BY <1>4 DEF ShowFabrics, HideFabrics, HideFabricsEnds
  <2> QED
    BY <1>4, <2>1, SwitcherSteps DEF UrnsInv
<1>5. CASE OpenCategory
  <2>1. UNCHANGED fabricVars /\ LeadsOn(segmentsShown')
    BY <1>5, GroupsLeadOn DEF OpenCategory, UrnsInv
  <2> QED
    BY <2>1 DEF fabricVars, UrnsInv, FabInv, FabricsStayOpen
<1>6. CASE LeaveCategory
  <2>1. UNCHANGED fabricVars /\ LeadsOn(segmentsShown')
    BY <1>6, BackLeadsOn DEF LeaveCategory, UrnsInv
  <2> QED
    BY <2>1 DEF fabricVars, UrnsInv, FabInv, FabricsStayOpen
<1> QED
  BY <1>1, <1>2, <1>3, <1>4, <1>5, <1>6 DEF UrnsNext

LEMMA UrnsTyped == UrnsInv => UrnsTypeOK
<1> SUFFICES ASSUME UrnsInv PROVE UrnsTypeOK
  OBVIOUS
<1>1. fabUrn \in FabUrns /\ Len(fabReads) <= MaxFabReads
  BY DEF UrnsInv, FabInv
<1>2. ToSet(fabrics) \subseteq FabricTypes
  <2>1. PICK list \in Seq(KnownFabrics) : list = fabrics
    BY DEF UrnsInv, FabInv
  <2>2. \A i \in DOMAIN list : list[i] \in KnownFabrics
    OBVIOUS
  <2> QED
    BY <2>1, <2>2 DEF ToSet, KnownFabrics
<1>3. ToSet(fabReads) \subseteq FabUrns
  <2>1. PICK list \in Seq(LiUrns) : list = fabReads
    BY DEF UrnsInv, FabInv
  <2>2. \A i \in DOMAIN list : list[i] \in LiUrns
    OBVIOUS
  <2> QED
    BY <2>1, <2>2 DEF ToSet, LiUrns
<1>4. fabHides \in 0 .. 2
  BY DEF UrnsInv, FabInv
<1>5. {fabFailed, fabOver, isExpandedFab, fabricsOpen} \subseteq BOOLEAN
  BY Zenon DEF UrnsInv, FabInv
<1>6. \A i \in DOMAIN fabLinks : IsLiUrn(fabLinks[i].urn) /\ IsDatasetFabric(fabLinks[i].fabric)
  BY DEF UrnsInv, FabInv, LinksTyped
<1>7. ASSUME segmentsShown # <<>> PROVE Head(segmentsShown) \in DOMAIN DatasetNames
  <2>a. PICK c \in DOMAIN DatasetNames : \E name \in DatasetNames[c] : \E m \in Nat :
           m < Len(Parts(c, name)) /\ segmentsShown = Trail(c, name, m)
    BY <1>7 DEF UrnsInv, LeadsOn
  <2>b. PICK name \in DatasetNames[c] : \E m \in Nat : m < Len(Parts(c, name)) /\ segmentsShown = Trail(c, name, m)
    BY <2>a
  <2>1. PICK m \in Nat : m < Len(Parts(c, name)) /\ segmentsShown = Trail(c, name, m)
    BY <2>b
  <2>2. m <= Len(Parts(c, name))
    <3>1. Len(Parts(c, name)) \in Nat
      BY NameIs
    <3> QED
      BY <2>1, <3>1
  <2> QED
    BY <2>1, <2>2, TrailIsOf
<1> QED
  BY <1>1, <1>2, <1>3, <1>4, <1>5, <1>6, <1>7 DEF UrnsTypeOK

(* Links of the fabric switcher lead to the dataset of the page in each of *)
(* its fabrics, unless a read failed or overtook another; urns come back   *)
(* as what they were built from; and every dataset of a platform is found  *)
(* by following the categories its name is made of, one at a time.         *)
THEOREM FabricsAndCategoriesLead == UrnsSpec => []UrnsLeadBack
<1>1. UrnsInv => UrnsLeadBack
  <2> SUFFICES ASSUME UrnsInv PROVE UrnsLeadBack
    OBVIOUS
  <2>1. FabricsStayOpen /\ fabUrn \in FabUrns
    BY DEF UrnsInv, FabInv
  <2> QED
    BY <2>1, UrnsTyped, LinksLeadToDataset, UrnsComeBack, PagesLead DEF UrnsInv, UrnsLeadBack
<1>2. UrnsSpec => []UrnsInv
  BY UrnsStart, UrnsSteps, PTL DEF UrnsSpec
<1> QED
  BY <1>1, <1>2, PTL

-----------------------------------------------------------------------------
(* The page with all its parts keeps its promises whichever of them moves: *)
(* owners are safe, containers and graph are of the dataset, links lead    *)
(* back, and edits stay with the dataset they are for.                     *)
THEOREM DatasetKeepsPromises ==
    ASSUME KeysUniqueAtFirst, DeprecatedAtFirst
    PROVE  WebSpec => /\ [](OwnershipIsSafe /\ PageIsOfOneDataset /\ LineageIsTrue /\ UrnsLeadBack)
                      /\ EditsStayWithDataset
<1>1. WebInit => OwnInit /\ PageInit /\ LineageInit /\ UrnsInit
  BY DEF WebInit
<1>2. WebSpec => OwnSpec /\ PageSpec /\ LineageSpec /\ UrnsSpec
  BY <1>1, WebStepIsStep, PTL DEF WebSpec, OwnSpec, PageSpec, LineageSpec, UrnsSpec
<1> QED
  BY <1>2, OwnershipStaysSafe, PageStaysOfDataset, GraphIsOfLineage, FabricsAndCategoriesLead, EditsStay, PTL
=============================================================================
