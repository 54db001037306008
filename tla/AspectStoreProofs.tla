------------------------- MODULE AspectStoreProofs --------------------------
(***************************************************************************)
(* Theorems about LocalDAO and about AspectStore, which keeps the promises *)
(* of AspectHistory: for any writers, values, retention policies, limits,  *)
(* faults and bounds.                                                      *)
(***************************************************************************)
EXTENDS AspectStore, Foundations

-----------------------------------------------------------------------------
(* A bounded non-empty set of naturals has a largest element: getNextVersion *)
(* finds one whenever there is a row.                                      *)
LEMMA LargestIsIn ==
    ASSUME NEW S \in SUBSET Nat, S # {}, NEW n \in Nat, \A s \in S : s < n
    PROVE  Largest(S) \in S /\ \A s \in S : s <= Largest(S)
<1>1. \E v \in S : \A w \in S : w <= v
  BY BoundedHasGreatest
<1> QED
  BY <1>1 DEF Largest

-----------------------------------------------------------------------------
(* The inductive invariant behind the types.  A row can only be archived   *)
(* or announced if the value read was a stored one, and every version in   *)
(* use is below the number of changes committed, which is what makes the   *)
(* next version well defined.                                              *)
Busy == {"getNextVersion", "saveOld", "saveLatest", "applyRetention", "commit", "produce"}

ReadOK ==
    \A p \in Writers :
        /\ call[p].old \in StoredRow \cup {NoRow}
        /\ pc[p] \in Busy => call[p].new \in Valid
        /\ pc[p] \in {"getNextVersion", "saveOld"} => call[p].old \in StoredRow

BelowChanges ==
    /\ \A v \in Versions : v < Len(commits)
    /\ \A p \in Writers :
         /\ call[p].next <= Len(commits)
         /\ \A v \in DOMAIN dirty[p] : v <= Len(commits)

TypeInv == TypeOK /\ ReadOK /\ BelowChanges

USE DEF LATEST_VERSION

LEMMA NoRowType == NoRow \in Row /\ NoRow \notin StoredRow /\ StoredRow \subseteq Row
BY ValueAssumption DEF NoRow, Row, StoredRow, Valid

LEMMA NoWritesDomain == DOMAIN NoWrites = {}
BY DEF NoWrites

LEMMA LatestType ==
    ASSUME TypeOK
    PROVE  Latest \in StoredRow \cup {NoRow}
BY DEF TypeOK, Latest, Versions

LEMMA RowsType ==
    ASSUME TypeOK, NEW p \in Writers
    PROVE  /\ DOMAIN Rows(p) \subseteq Versions \cup DOMAIN dirty[p]
           /\ \A v \in DOMAIN Rows(p) : Rows(p)[v] \in StoredRow
BY DEF TypeOK, Rows, Versions

LEMMA IdleCallType == IdleCall \in Call /\ IdleCall.old = NoRow /\ IdleCall.next = 0
BY ValueAssumption, NoRowType DEF IdleCall, Call, Lambda, Outcome

LEMMA InitType == Init => TypeInv
BY NoWritesDomain, IdleCallType
   DEF Init, TypeInv, TypeOK, ReadOK, BelowChanges, Versions, Label, Busy, Event, Change

-----------------------------------------------------------------------------
(* One lemma per action.                                                   *)
USE DEF Versions

LEMMA BeginType ==
    ASSUME TypeInv, NEW p \in Writers, Begin(p)
    PROVE  TypeInv'
<1> USE DEF TypeInv, TypeOK, ReadOK, BelowChanges
<1>1. PICK f \in Lambdas :
        call' = [call EXCEPT ![p] =
            [IdleCall EXCEPT !.id = used.adds + 1, !.lambda = f, !.stamp = now,
                             !.since = Len(commits)]]
  BY DEF Begin
<1> DEFINE c == [IdleCall EXCEPT !.id = used.adds + 1, !.lambda = f, !.stamp = now,
                                 !.since = Len(commits)]
<1>2. c \in Call /\ c.old = NoRow /\ c.next = 0
  <2>1. f \in Lambda /\ Len(commits) \in Nat /\ used.adds + 1 \in Nat /\ now \in Nat
    BY ValueAssumption DEF Lambda
  <2>2. c \in Call
    BY <2>1, IdleCallType DEF Call
  <2>3. c.old = IdleCall.old /\ c.next = IdleCall.next
    BY IdleCallType DEF Call
  <2> QED
    BY <2>2, <2>3, IdleCallType
<1>3. call' = [call EXCEPT ![p] = c]
  BY <1>1
<1> HIDE DEF c
<1>4. call' \in [Writers -> Call]
  BY <1>2, <1>3
<1>5. UNCHANGED <<table, dirty, topic, now, commits>>
  BY DEF Begin
<1>6. pc' = [pc EXCEPT ![p] = "getLatest"]
  BY DEF Begin, Goto
<1>7. TypeOK'
  BY <1>4, <1>5, <1>6 DEF Begin, Label
<1>8. ReadOK' /\ BelowChanges'
  BY <1>2, <1>3, <1>5, <1>6 DEF Busy
<1> QED
  BY <1>7, <1>8

LEMMA GetLatestType ==
    ASSUME TypeInv, NEW p \in Writers, GetLatest(p)
    PROVE  TypeInv'
<1> USE DEF TypeInv, TypeOK, ReadOK, BelowChanges
<1> DEFINE new == Apply(call[p].lambda, Latest.value)
<1>1. Latest \in StoredRow \cup {NoRow} /\ Latest \in Row
  BY LatestType, NoRowType
<1>2. new \in Values
  BY <1>1, ValueAssumption DEF Apply, Call, Lambda, StoredRow, NoRow, Valid
<1>3. /\ UNCHANGED <<table, dirty, topic, now, commits, used>>
      /\ pc' \in [Writers -> Label]
      /\ \A q \in Writers \ {p} : pc'[q] = pc[q]
      /\ pc'[p] \in {"idle", "commit", "getNextVersion", "saveLatest"}
      /\ pc'[p] # "idle" => new # Invalid
      /\ pc'[p] = "getNextVersion" => Latest # NoRow
  BY DEF GetLatest, Goto, Label
<1>4. PICK o \in Outcome : call' = [call EXCEPT
         ![p] = [@ EXCEPT !.old = Latest, !.new = new, !.rank = Len(commits), !.outcome = o]]
  BY DEF GetLatest, Call, Outcome
<1> HIDE DEF new
<1>5. call' \in [Writers -> Call]
  <2>1. call[p] \in Call /\ Len(commits) \in Nat
    OBVIOUS
  <2>2. [call[p] EXCEPT !.old = Latest, !.new = new, !.rank = Len(commits),
                        !.outcome = o] \in Call
    BY <2>1, <1>1, <1>2 DEF Call
  <2> QED
    BY <1>4, <2>2
<1>6. call'[p].old = Latest /\ call'[p].new = new /\ call'[p].next = call[p].next
  BY <1>4 DEF Call
<1>7. \A q \in Writers \ {p} : call'[q] = call[q]
  BY <1>4
<1>8. TypeOK'
  BY <1>3, <1>5
<1>9. ReadOK' /\ BelowChanges'
  BY <1>1, <1>2, <1>3, <1>6, <1>7 DEF Busy, Valid
<1> QED
  BY <1>8, <1>9

LEMMA GetNextVersionType ==
    ASSUME TypeInv, NEW p \in Writers, GetNextVersion(p)
    PROVE  TypeInv'
<1> USE DEF TypeInv, TypeOK, ReadOK, BelowChanges
<1> DEFINE next == IF Versions = {} THEN 0 ELSE Largest(Versions) + 1
<1>1. next \in Nat /\ next <= Len(commits)
  <2>1. CASE Versions = {}
    BY <2>1
  <2>2. CASE Versions # {}
    <3>1. Versions \in SUBSET Nat /\ Len(commits) \in Nat
      OBVIOUS
    <3>2. Largest(Versions) \in Versions
      BY <2>2, <3>1, LargestIsIn
    <3> QED
      BY <2>2, <3>1, <3>2
  <2> QED
    BY <2>1, <2>2
<1>2. /\ UNCHANGED <<table, dirty, topic, now, commits, used>>
      /\ pc' = [pc EXCEPT ![p] = "saveOld"]
      /\ call' = [call EXCEPT ![p].next = next]
      /\ pc[p] = "getNextVersion"
  BY DEF GetNextVersion, Goto
<1> HIDE DEF next
<1>3. [call[p] EXCEPT !.next = next] \in Call
  BY <1>1 DEF Call
<1>4. TypeOK'
  BY <1>2, <1>3 DEF Label
<1>5. ReadOK' /\ BelowChanges'
  BY <1>1, <1>2 DEF Busy, Call
<1> QED
  BY <1>4, <1>5

(* What the building blocks of the later actions do to the variables.      *)
LEMMA RetryEffect ==
    ASSUME TypeInv, NEW p \in Writers, Retry(p)
    PROVE  /\ dirty' = [dirty EXCEPT ![p] = NoWrites]
           /\ pc' \in [Writers -> Label]
           /\ pc'[p] \in {"getLatest", "idle"}
           /\ \A q \in Writers \ {p} : pc'[q] = pc[q]
           /\ call' \in [Writers -> Call]
           /\ \A q \in Writers : /\ call'[q].old = call[q].old
                                 /\ call'[q].new = call[q].new
                                 /\ call'[q].next = call[q].next
<1> USE DEF TypeInv, TypeOK
<1>1. call[p] \in Call /\ call[p].retry + 1 \in Nat
  BY DEF Call
<1>2. CASE /\ call' = [call EXCEPT ![p].retry = @ + 1]
           /\ Goto(p, "getLatest")
  <2>1. [call[p] EXCEPT !.retry = @ + 1] \in Call
    BY <1>1 DEF Call
  <2> QED
    BY <1>2, <2>1 DEF Retry, Goto, Label, Call
<1>3. CASE /\ call' = [call EXCEPT ![p].retry = @ + 1, ![p].outcome = "retryLimit"]
           /\ Goto(p, "idle")
  <2>1. [call[p] EXCEPT !.retry = @ + 1, !.outcome = "retryLimit"] \in Call
    BY <1>1 DEF Call, Outcome
  <2> QED
    BY <1>3, <2>1 DEF Retry, Goto, Label, Call
<1> QED
  BY <1>2, <1>3 DEF Retry

LEMMA WriteEffect ==
    ASSUME TypeInv, NEW p \in Writers, NEW v \in Nat, NEW row \in StoredRow, Write(p, v, row)
    PROVE  /\ DOMAIN dirty' = Writers
           /\ DOMAIN dirty'[p] = DOMAIN dirty[p] \cup {v}
           /\ \A w \in DOMAIN dirty'[p] : dirty'[p][w] \in StoredRow \cup {Deleted}
           /\ \A q \in Writers \ {p} : dirty'[q] = dirty[q]
BY DEF TypeInv, TypeOK, Write

LEMMA PublishEffect ==
    ASSUME TypeInv, NEW p \in Writers, pc[p] = "commit", Publish(p)
    PROVE  /\ Versions' \subseteq Nat
           /\ \A v \in Versions' : table'[v] \in StoredRow
           /\ commits' \in Seq(Change)
           /\ Len(commits) <= Len(commits')
           /\ \A v \in Versions' : v < Len(commits')
<1> USE DEF TypeInv, TypeOK, ReadOK, BelowChanges
<1>1. /\ DOMAIN Rows(p) \subseteq Versions \cup DOMAIN dirty[p]
      /\ \A v \in DOMAIN Rows(p) : Rows(p)[v] \in StoredRow
  BY RowsType
<1>2. table' = Rows(p)
  BY DEF Publish
<1>3. Len(commits) \in Nat
  OBVIOUS
<1>4. CASE dirty[p] = NoWrites
  <2>1. commits' = commits
    BY <1>4 DEF Publish
  <2>2. DOMAIN dirty[p] = {}
    BY <1>4, NoWritesDomain
  <2> QED
    BY <1>1, <1>2, <1>3, <2>1, <2>2
<1>5. CASE dirty[p] # NoWrites
  <2> DEFINE change == [id |-> call[p].id, kind |-> call[p].lambda.kind,
                        old |-> call[p].old.value, new |-> call[p].new,
                        version |-> LargestVersion(p)]
  <2>1. commits' = Append(commits, change)
    BY <1>5 DEF Publish
  <2>2. LargestVersion(p) \in Nat /\ call[p].old.value \in Valid \cup {None}
    BY DEF LargestVersion, Call, StoredRow, NoRow
  <2>3. call[p].new \in Valid
    BY DEF Busy
  <2>4. change \in Change
    BY <2>2, <2>3 DEF Change, Call, Lambda
  <2> HIDE DEF change
  <2>5. commits' \in Seq(Change) /\ Len(commits') = Len(commits) + 1
    BY <2>1, <2>4
  <2> QED
    BY <1>1, <1>2, <1>3, <2>5
<1> QED
  BY <1>4, <1>5

-----------------------------------------------------------------------------
LEMMA InsertType ==
    ASSUME TypeInv, NEW p \in Writers, NEW v \in Nat, v <= Len(commits),
           NEW row \in StoredRow, NEW label \in {"saveLatest", "applyRetention"},
           pc[p] \in {"saveOld", "saveLatest"},
           Insert(p, v, row, label),
           UNCHANGED <<table, topic, now, commits, used>>
    PROVE  TypeInv'
<1> USE DEF TypeInv, TypeOK, ReadOK, BelowChanges
<1>1. CASE Retry(p)
  <2>1. TypeOK'
    BY <1>1, RetryEffect, NoWritesDomain
  <2>2. ReadOK' /\ BelowChanges'
    BY <1>1, RetryEffect, NoWritesDomain DEF Busy
  <2> QED
    BY <2>1, <2>2
<1>2. CASE Write(p, v, row) /\ Goto(p, label) /\ UNCHANGED call
  <2>1. pc' = [pc EXCEPT ![p] = label]
    BY <1>2 DEF Goto
  <2>2. TypeOK'
    BY <1>2, <2>1, WriteEffect DEF Label
  <2>3. ReadOK' /\ BelowChanges'
    BY <1>2, <2>1, WriteEffect DEF Busy
  <2> QED
    BY <2>2, <2>3
<1> QED
  BY <1>1, <1>2 DEF Insert

LEMMA NotFoundEffect ==
    ASSUME TypeInv, NEW p \in Writers,
           call' = [call EXCEPT ![p].outcome = "notFound"]
    PROVE  /\ call' \in [Writers -> Call]
           /\ \A q \in Writers : /\ call'[q].old = call[q].old
                                 /\ call'[q].new = call[q].new
                                 /\ call'[q].next = call[q].next
<1>1. call \in [Writers -> Call]
  BY DEF TypeInv, TypeOK
<1>2. [call[p] EXCEPT !.outcome = "notFound"] \in Call
  BY <1>1 DEF Call, Outcome
<1> QED
  BY <1>1, <1>2 DEF Call

LEMMA UpdateType ==
    ASSUME TypeInv, NEW p \in Writers, NEW v \in Nat, v <= Len(commits),
           NEW row \in StoredRow, NEW label \in {"saveLatest", "applyRetention"},
           pc[p] \in {"saveOld", "saveLatest"},
           Update(p, v, row, label),
           UNCHANGED <<table, topic, now, commits, used>>
    PROVE  TypeInv'
<1> USE DEF TypeInv, TypeOK, ReadOK, BelowChanges
<1>1. CASE Write(p, v, row) /\ Goto(p, label) /\ UNCHANGED call
  <2>1. pc' = [pc EXCEPT ![p] = label]
    BY <1>1 DEF Goto
  <2>2. TypeOK'
    BY <1>1, <2>1, WriteEffect DEF Label
  <2>3. ReadOK' /\ BelowChanges'
    BY <1>1, <2>1, WriteEffect DEF Busy
  <2> QED
    BY <2>2, <2>3
<1>2. CASE /\ dirty' = [dirty EXCEPT ![p] = NoWrites]
           /\ call' = [call EXCEPT ![p].outcome = "notFound"]
           /\ Goto(p, "idle")
  BY <1>2, NotFoundEffect, NoWritesDomain DEF Busy, Goto, Label
<1> QED
  BY <1>1, <1>2 DEF Update

LEMMA SaveOldType ==
    ASSUME TypeInv, NEW p \in Writers, SaveOld(p)
    PROVE  TypeInv'
<1>1. call[p].next \in Nat /\ call[p].next <= Len(commits) /\ call[p].old \in StoredRow
  BY DEF SaveOld, TypeInv, TypeOK, ReadOK, BelowChanges, Call
<1> QED
  BY <1>1, InsertType DEF SaveOld

LEMMA SaveLatestType ==
    ASSUME TypeInv, NEW p \in Writers, SaveLatest(p)
    PROVE  TypeInv'
<1> DEFINE row == [value |-> call[p].new, time |-> call[p].stamp]
<1>1. call[p].new \in Valid /\ call[p].stamp \in Nat /\ 0 \in Nat /\ 0 <= Len(commits)
  BY DEF SaveLatest, TypeInv, TypeOK, ReadOK, Busy, Call
<1>2. row \in StoredRow
  BY <1>1 DEF StoredRow
<1>3. pc[p] = "saveLatest" /\ UNCHANGED <<table, topic, now, commits, used>>
  BY DEF SaveLatest
<1>4. Insert(p, 0, row, "applyRetention") \/ Update(p, 0, row, "applyRetention")
  BY DEF SaveLatest
<1> HIDE DEF row
<1> QED
  BY <1>1, <1>2, <1>3, <1>4, InsertType, UpdateType

LEMMA ApplyRetentionType ==
    ASSUME TypeInv, NEW p \in Writers, ApplyRetention(p)
    PROVE  TypeInv'
<1> USE DEF TypeInv, TypeOK, ReadOK, BelowChanges
<1>1. Purged(p) \subseteq DOMAIN Rows(p)
  BY RetentionAssumption DEF Purged
<1>2. Purged(p) \subseteq Versions \cup DOMAIN dirty[p]
  BY <1>1, RowsType
<1>3. /\ UNCHANGED <<table, call, topic, now, commits, used>>
      /\ pc' = [pc EXCEPT ![p] = "commit"]
      /\ pc[p] = "applyRetention"
  BY DEF ApplyRetention, Goto
<1>4. /\ DOMAIN dirty' = Writers
      /\ \A q \in Writers \ {p} : dirty'[q] = dirty[q]
      /\ DOMAIN dirty'[p] = DOMAIN dirty[p] \cup Purged(p)
      /\ \A v \in DOMAIN dirty'[p] : dirty'[p][v] \in StoredRow \cup {Deleted}
  BY DEF ApplyRetention
<1>5. Len(commits) \in Nat
  OBVIOUS
<1>6. TypeOK'
  BY <1>2, <1>3, <1>4 DEF Label
<1>7. ReadOK' /\ BelowChanges'
  BY <1>2, <1>3, <1>4, <1>5 DEF Busy
<1> QED
  BY <1>6, <1>7

LEMMA CommitType ==
    ASSUME TypeInv, NEW p \in Writers, Commit(p)
    PROVE  TypeInv'
<1> USE DEF TypeInv, TypeOK, ReadOK, BelowChanges
<1>1. /\ pc[p] = "commit"
      /\ Publish(p)
      /\ dirty' = [dirty EXCEPT ![p] = NoWrites]
      /\ pc' = [pc EXCEPT ![p] = "produce"]
      /\ UNCHANGED <<topic, now, used>>
  BY DEF Commit, Goto
<1> DEFINE r == IF dirty[p] = NoWrites THEN call[p].rank ELSE Len(commits) + 1
<1>2. r \in Nat /\ call' = [call EXCEPT ![p].rank = r]
  BY DEF Commit, Call
<1> HIDE DEF r
<1>3. [call[p] EXCEPT !.rank = r] \in Call
  BY <1>2 DEF Call
<1>4. /\ call' \in [Writers -> Call]
      /\ \A q \in Writers : /\ call'[q].old = call[q].old
                            /\ call'[q].new = call[q].new
                            /\ call'[q].next = call[q].next
  BY <1>2, <1>3 DEF Call
<1>5. TypeOK'
  BY <1>1, <1>4, PublishEffect, NoWritesDomain DEF Label
<1>6. ReadOK'
  BY <1>1, <1>4 DEF Busy
<1>7. BelowChanges'
  <2>1. Len(commits) \in Nat /\ Len(commits') \in Nat /\ Len(commits) <= Len(commits')
    BY <1>1, PublishEffect
  <2>2. \A q \in Writers : call'[q].next \in Nat /\ call'[q].next <= Len(commits)
    BY <1>4 DEF Call
  <2>3. \A q \in Writers : \A v \in DOMAIN dirty'[q] : v \in Nat /\ v <= Len(commits)
    BY <1>1, NoWritesDomain
  <2> QED
    BY <1>1, <2>1, <2>2, <2>3, PublishEffect
<1> QED
  BY <1>5, <1>6, <1>7

LEMMA OutcomeOkEffect ==
    ASSUME TypeInv, NEW p \in Writers,
           call' = [call EXCEPT ![p].outcome = "ok"]
    PROVE  /\ call' \in [Writers -> Call]
           /\ \A q \in Writers : /\ call'[q].old = call[q].old
                                 /\ call'[q].new = call[q].new
                                 /\ call'[q].next = call[q].next
<1>1. call \in [Writers -> Call]
  BY DEF TypeInv, TypeOK
<1>2. [call[p] EXCEPT !.outcome = "ok"] \in Call
  BY <1>1 DEF Call, Outcome
<1> QED
  BY <1>1, <1>2 DEF Call

LEMMA ProduceType ==
    ASSUME TypeInv, NEW p \in Writers, Produce(p)
    PROVE  TypeInv'
<1> USE DEF TypeInv, TypeOK, ReadOK, BelowChanges
<1> DEFINE event == [old |-> call[p].old.value, new |-> call[p].new, rank |-> call[p].rank]
<1>1. event \in Event
  BY DEF Produce, Event, Busy, Call, StoredRow, NoRow
<1>2. /\ topic' = Append(topic, event)
      /\ call' = [call EXCEPT ![p].outcome = "ok"]
      /\ pc' = [pc EXCEPT ![p] = "idle"]
      /\ UNCHANGED <<table, dirty, now, commits, used>>
  BY DEF Produce, Goto
<1> HIDE DEF event
<1>3. TypeOK'
  <2>1. topic' \in Seq(Event)
    BY <1>1, <1>2
  <2>2. call' \in [Writers -> Call]
    BY <1>2, OutcomeOkEffect
  <2> QED
    BY <1>2, <2>1, <2>2 DEF Label
<1>4. ReadOK' /\ BelowChanges'
  BY <1>2, OutcomeOkEffect DEF Busy
<1> QED
  BY <1>3, <1>4

LEMMA UsedEffect ==
    ASSUME TypeInv
    PROVE  /\ [used EXCEPT !.faults = @ + 1] \in [adds : Nat, backfills : Nat, faults : Nat]
           /\ [used EXCEPT !.backfills = @ + 1] \in [adds : Nat, backfills : Nat, faults : Nat]
BY DEF TypeInv, TypeOK

LEMMA SendLostType ==
    ASSUME TypeInv, NEW p \in Writers, SendLost(p)
    PROVE  TypeInv'
<1> USE DEF TypeInv, TypeOK, ReadOK, BelowChanges
<1>1. /\ call' = [call EXCEPT ![p].outcome = "ok"]
      /\ pc' = [pc EXCEPT ![p] = "idle"]
      /\ used' = [used EXCEPT !.faults = @ + 1]
      /\ UNCHANGED <<table, dirty, topic, now, commits>>
  BY DEF SendLost, Inject, Goto
<1>2. TypeOK'
  BY <1>1, OutcomeOkEffect, UsedEffect DEF Label
<1>3. ReadOK' /\ BelowChanges'
  BY <1>1, OutcomeOkEffect DEF Busy
<1> QED
  BY <1>2, <1>3

LEMMA BackfillType ==
    ASSUME TypeInv, NEW p \in Writers, Backfill(p)
    PROVE  TypeInv'
<1> USE DEF TypeInv, TypeOK, ReadOK, BelowChanges
<1> DEFINE c == [IdleCall EXCEPT !.old = Latest, !.new = Latest.value, !.rank = Len(commits),
                                 !.since = Len(commits)]
<1>1. Latest \in StoredRow
  BY LatestType DEF Backfill
<1>2. c \in Call /\ c.old = Latest /\ c.next = 0 /\ c.new \in Valid
  <2>1. /\ Latest \in Row /\ Latest.value \in Values /\ Latest.value \in Valid
        /\ Len(commits) \in Nat
    BY <1>1, NoRowType DEF StoredRow, Valid
  <2>2. c \in Call
    BY <2>1, IdleCallType DEF Call
  <2>3. c.old = Latest /\ c.new = Latest.value /\ c.next = IdleCall.next
    BY IdleCallType DEF Call
  <2> QED
    BY <2>1, <2>2, <2>3, IdleCallType
<1>3. /\ call' = [call EXCEPT ![p] = c]
      /\ pc' = [pc EXCEPT ![p] = "produce"]
      /\ used' = [used EXCEPT !.backfills = @ + 1]
      /\ UNCHANGED <<table, dirty, topic, now, commits>>
  BY DEF Backfill, Goto
<1> HIDE DEF c
<1>4. TypeOK'
  BY <1>2, <1>3, UsedEffect DEF Label
<1>5. ReadOK' /\ BelowChanges'
  BY <1>1, <1>2, <1>3 DEF Busy
<1> QED
  BY <1>4, <1>5

LEMMA CommitFailsType ==
    ASSUME TypeInv, NEW p \in Writers, CommitFails(p)
    PROVE  TypeInv'
<1> USE DEF TypeInv, TypeOK, ReadOK, BelowChanges
<1>1. /\ Retry(p)
      /\ used' = [used EXCEPT !.faults = @ + 1]
      /\ UNCHANGED <<table, topic, now, commits>>
  BY DEF CommitFails, Inject
<1>2. TypeOK'
  <2>1. pc' \in [Writers -> Label] /\ call' \in [Writers -> Call]
    BY <1>1, RetryEffect
  <2>2. /\ DOMAIN dirty' = Writers
        /\ \A q \in Writers : /\ DOMAIN dirty'[q] \subseteq Nat
                              /\ \A v \in DOMAIN dirty'[q] :
                                    dirty'[q][v] \in StoredRow \cup {Deleted}
    <3>1. dirty' = [dirty EXCEPT ![p] = NoWrites]
      BY <1>1, RetryEffect
    <3> QED
      BY <3>1, NoWritesDomain
  <2>3. used' \in [adds : Nat, backfills : Nat, faults : Nat]
    BY <1>1, UsedEffect
  <2> QED
    BY <1>1, <2>1, <2>2, <2>3
<1>3. ReadOK' /\ BelowChanges'
  BY <1>1, RetryEffect, NoWritesDomain DEF Busy
<1> QED
  BY <1>2, <1>3

LEMMA CommitAckLostType ==
    ASSUME TypeInv, NEW p \in Writers, CommitAckLost(p)
    PROVE  TypeInv'
<1> USE DEF TypeInv, TypeOK, ReadOK, BelowChanges
<1>1. /\ pc[p] = "commit"
      /\ Publish(p)
      /\ Retry(p)
      /\ used' = [used EXCEPT !.faults = @ + 1]
      /\ UNCHANGED <<topic, now>>
  BY DEF CommitAckLost, Inject
<1>2. TypeOK'
  <2>1. pc' \in [Writers -> Label] /\ call' \in [Writers -> Call]
    BY <1>1, RetryEffect
  <2>2. /\ DOMAIN dirty' = Writers
        /\ \A q \in Writers : /\ DOMAIN dirty'[q] \subseteq Nat
                              /\ \A v \in DOMAIN dirty'[q] :
                                    dirty'[q][v] \in StoredRow \cup {Deleted}
    <3>1. dirty' = [dirty EXCEPT ![p] = NoWrites]
      BY <1>1, RetryEffect
    <3> QED
      BY <3>1, NoWritesDomain
  <2>3. used' \in [adds : Nat, backfills : Nat, faults : Nat]
    BY <1>1, UsedEffect
  <2> QED
    BY <1>1, <2>1, <2>2, <2>3, PublishEffect
<1>3. ReadOK'
  BY <1>1, RetryEffect DEF Busy
<1>4. BelowChanges'
  <2>1. Len(commits) \in Nat /\ Len(commits') \in Nat /\ Len(commits) <= Len(commits')
    BY <1>1, PublishEffect
  <2>2. \A q \in Writers : call'[q].next \in Nat /\ call'[q].next <= Len(commits)
    BY <1>1, RetryEffect DEF Call
  <2>3. \A q \in Writers : \A v \in DOMAIN dirty'[q] : v \in Nat /\ v <= Len(commits)
    BY <1>1, RetryEffect, NoWritesDomain
  <2> QED
    BY <1>1, <2>1, <2>2, <2>3, PublishEffect
<1> QED
  BY <1>2, <1>3, <1>4

LEMMA CrashType ==
    ASSUME TypeInv, Crash
    PROVE  TypeInv'
<1> USE DEF TypeInv, TypeOK, ReadOK, BelowChanges
<1>1. /\ dirty' = [p \in Writers |-> NoWrites]
      /\ pc' = [p \in Writers |-> "idle"]
      /\ call' = [p \in Writers |-> IdleCall]
      /\ used' = [used EXCEPT !.faults = @ + 1]
      /\ UNCHANGED <<table, topic, now, commits>>
  BY DEF Crash, Inject
<1>2. Len(commits) \in Nat
  OBVIOUS
<1>3. TypeOK'
  BY <1>1, NoWritesDomain, IdleCallType, UsedEffect DEF Label
<1>4. ReadOK' /\ BelowChanges'
  BY <1>1, <1>2, NoWritesDomain, IdleCallType DEF Busy
<1> QED
  BY <1>3, <1>4

LEMMA TickType ==
    ASSUME TypeInv, Tick \/ UNCHANGED vars
    PROVE  TypeInv'
BY DEF TypeInv, TypeOK, ReadOK, BelowChanges, Tick, vars, Busy

LEMMA StepType == TypeInv /\ [Next]_vars => TypeInv'
<1> SUFFICES ASSUME TypeInv, [Next]_vars PROVE TypeInv'
  OBVIOUS
<1>1. ASSUME NEW p \in Writers, Begin(p) PROVE TypeInv'
  BY <1>1, BeginType
<1>2. ASSUME NEW p \in Writers, Backfill(p) PROVE TypeInv'
  BY <1>2, BackfillType
<1>3. ASSUME NEW p \in Writers, Step(p) PROVE TypeInv'
  BY <1>3, GetLatestType, GetNextVersionType, SaveOldType, SaveLatestType,
     ApplyRetentionType, CommitType, ProduceType DEF Step
<1>4. ASSUME NEW p \in Writers, CommitFails(p) \/ CommitAckLost(p) \/ SendLost(p)
      PROVE  TypeInv'
  BY <1>4, CommitFailsType, CommitAckLostType, SendLostType
<1>5. CASE Crash
  BY <1>5, CrashType
<1>6. CASE Tick \/ Wait \/ UNCHANGED vars
  BY <1>6, TickType DEF Wait
<1> QED
  BY <1>1, <1>2, <1>3, <1>4, <1>5, <1>6 DEF Next

(* Whatever the retention policy and the faults, everything stored and     *)
(* announced is a valid aspect (see TypeOK): a transaction never archives  *)
(* a missing value and never saves one that validation rejects.            *)
THEOREM TypeCorrect == Spec => []TypeOK
<1>1. Init => TypeInv
  BY InitType
<1>2. TypeInv /\ [Next]_vars => TypeInv'
  BY StepType
<1>3. TypeInv => TypeOK
  BY DEF TypeInv
<1> QED
  BY <1>1, <1>2, <1>3, PTL DEF Spec

THEOREM TypeInvariant == Spec => []TypeInv
BY InitType, StepType, PTL DEF Spec

-----------------------------------------------------------------------------
(***************************************************************************)
(* Without a retention limit, for any number of writers and any faults:    *)
(* one row per change, increasing version numbers, an immutable history,   *)
(* and retries that only rivals or the database can cause.                 *)
(*                                                                         *)
(* The argument: a transaction that has written anything holds the key of  *)
(* the NEXT version (or of version 0 of an empty table), so at most one    *)
(* transaction holds writes at a time, and its commit appends exactly the  *)
(* version after the largest.                                              *)
(***************************************************************************)

Holding == {"saveLatest", "applyRetention", "commit"}

WriterInv(p) ==
    /\ DOMAIN dirty[p] = {} => dirty[p] = NoWrites
    /\ \A v \in DOMAIN dirty[p] : dirty[p][v] \in StoredRow
    /\ DOMAIN dirty[p] # {} =>
         /\ pc[p] \in Holding
         /\ Len(commits) \in DOMAIN dirty[p]
         /\ DOMAIN dirty[p] \subseteq {0, Len(commits)}
         /\ LargestVersion(p) = Len(commits)
    /\ pc[p] = "saveLatest" => (call[p].old = NoRow <=> DOMAIN dirty[p] = {})
    /\ pc[p] = "applyRetention" => DOMAIN dirty[p] # {}

Exclusive ==
    \A p, q \in Writers : p # q => DOMAIN dirty[p] \cap DOMAIN dirty[q] = {}

ChangeInv ==
    retention = "indefinite" =>
        /\ Versions = 0 .. Len(commits) - 1
        /\ \A i \in DOMAIN commits : commits[i].version = i - 1
        /\ Exclusive
        /\ \A p \in Writers : WriterInv(p)

USE DEF TypeInv, ChangeInv, Versions, LATEST_VERSION

LEMMA LenType == TypeInv => Len(commits) \in Nat
BY DEF TypeOK

LEMMA InitChange == Init => ChangeInv
<1> SUFFICES ASSUME Init PROVE ChangeInv
  OBVIOUS
<1>1. /\ DOMAIN table = {} /\ commits = <<>> /\ Len(commits) = 0
      /\ \A p \in Writers : dirty[p] = NoWrites /\ pc[p] = "idle"
  BY NoWritesDomain DEF Init
<1>2. Versions = 0 .. Len(commits) - 1 /\ DOMAIN commits = {}
  BY <1>1
<1>3. \A p \in Writers : WriterInv(p)
  BY <1>1, NoWritesDomain DEF WriterInv
<1>4. Exclusive
  BY <1>1, NoWritesDomain DEF Exclusive
<1> QED
  BY <1>2, <1>3, <1>4

(* Steps of one writer that touch neither the table nor any write.         *)
LEMMA QuietStep ==
    ASSUME TypeInv, ChangeInv, NEW p \in Writers,
           UNCHANGED <<table, dirty, commits>>,
           pc[p] \notin Holding \/ DOMAIN dirty[p] = {},
           \A q \in Writers \ {p} : pc'[q] = pc[q] /\ call'[q] = call[q],
           pc'[p] # "applyRetention",
           pc'[p] = "saveLatest" => call'[p].old = NoRow,
           UNCHANGED retention
    PROVE  ChangeInv'
<1> SUFFICES ASSUME retention = "indefinite" PROVE ChangeInv'
  OBVIOUS
<1>1. DOMAIN dirty[p] = {}
  BY DEF WriterInv
<1>2. WriterInv(p)'
  BY <1>1 DEF WriterInv
<1>3. ASSUME NEW q \in Writers \ {p} PROVE WriterInv(q)'
  BY <1>3 DEF WriterInv, LargestVersion
<1>4. \A q \in Writers : WriterInv(q)'
  BY <1>2, <1>3
<1>5. Exclusive'
  BY DEF Exclusive
<1>6. /\ (Versions = 0 .. Len(commits) - 1)'
      /\ (\A i \in DOMAIN commits : commits[i].version = i - 1)'
  OBVIOUS
<1> QED
  BY <1>4, <1>5, <1>6

(* A transaction that is rolled back gives up its writes.                  *)
LEMMA RollbackStep ==
    ASSUME TypeInv, ChangeInv, NEW p \in Writers,
           UNCHANGED <<table, commits>>,
           dirty' = [dirty EXCEPT ![p] = NoWrites],
           pc'[p] \in {"getLatest", "idle"},
           \A q \in Writers \ {p} : pc'[q] = pc[q],
           \A q \in Writers : call'[q].old = call[q].old /\ call'[q].next = call[q].next,
           UNCHANGED retention
    PROVE  ChangeInv'
<1> SUFFICES ASSUME retention = "indefinite" PROVE ChangeInv'
  OBVIOUS
<1>1. /\ dirty'[p] = NoWrites
      /\ \A q \in Writers \ {p} : dirty'[q] = dirty[q]
  BY DEF TypeOK
<1>2. WriterInv(p)'
  BY <1>1, NoWritesDomain DEF WriterInv
<1>3. ASSUME NEW q \in Writers \ {p} PROVE WriterInv(q)'
  BY <1>1, <1>3 DEF WriterInv, LargestVersion
<1>4. Exclusive'
  BY <1>1, NoWritesDomain DEF Exclusive
<1>5. \A q \in Writers : WriterInv(q)'
  BY <1>2, <1>3
<1>6. /\ (Versions = 0 .. Len(commits) - 1)'
      /\ (\A i \in DOMAIN commits : commits[i].version = i - 1)'
  OBVIOUS
<1> QED
  BY <1>4, <1>5, <1>6

(* A write of version 0 or of the version after the largest, by a writer   *)
(* no other writer competes with for that row.                             *)
LEMMA WriteStep ==
    ASSUME TypeInv, ChangeInv, retention = "indefinite",
           NEW p \in Writers, NEW v \in {0, Len(commits)}, NEW row \in StoredRow,
           NEW label \in {"saveLatest", "applyRetention"},
           ~ Locked(p, v), Write(p, v, row), pc' = [pc EXCEPT ![p] = label],
           UNCHANGED <<table, call, commits>>,
           Len(commits) \in DOMAIN dirty[p] \cup {v},
           LargestVersion(p) = Len(commits),
           label = "saveLatest" => call[p].old # NoRow,
           UNCHANGED retention
    PROVE  ChangeInv'
<1>0. v \in Nat
  BY LenType
<1>1. /\ DOMAIN dirty'[p] = DOMAIN dirty[p] \cup {v}
      /\ \A q \in Writers \ {p} : dirty'[q] = dirty[q]
  BY <1>0, WriteEffect
<1>2. \A w \in DOMAIN dirty'[p] : dirty'[p][w] \in StoredRow
  BY <1>1 DEF Write, WriterInv, TypeOK
<1>3. DOMAIN dirty[p] \subseteq {0, Len(commits)}
  BY DEF WriterInv
<1>4. WriterInv(p)'
  BY <1>1, <1>2, <1>3 DEF WriterInv, LargestVersion, Holding, TypeOK
<1>5. ASSUME NEW q \in Writers \ {p} PROVE WriterInv(q)'
  BY <1>1, <1>5 DEF WriterInv, LargestVersion, TypeOK
<1>6. Exclusive'
  BY <1>1 DEF Exclusive, Locked
<1>7. \A q \in Writers : WriterInv(q)'
  BY <1>4, <1>5
<1>8. /\ (Versions = 0 .. Len(commits) - 1)'
      /\ (\A i \in DOMAIN commits : commits[i].version = i - 1)'
  OBVIOUS
<1> QED
  BY <1>6, <1>7, <1>8

LEMMA RowsDomain ==
    ASSUME TypeInv, ChangeInv, retention = "indefinite", NEW p \in Writers
    PROVE  /\ DOMAIN Rows(p) = Versions \cup DOMAIN dirty[p]
           /\ \A v \in Versions \ DOMAIN dirty[p] : Rows(p)[v] = table[v]
<1>1. \A v \in DOMAIN dirty[p] : dirty[p][v] # Deleted
  BY ValueAssumption DEF WriterInv, StoredRow, Valid
<1> QED
  BY <1>1 DEF Rows

LEMMA NextVersion ==
    ASSUME TypeInv, ChangeInv, retention = "indefinite"
    PROVE  (IF Versions = {} THEN 0 ELSE Largest(Versions) + 1) = Len(commits)
<1> DEFINE n == Len(commits)
<1>1. n \in Nat /\ Versions = 0 .. n - 1
  BY LenType
<1> HIDE DEF n
<1>2. CASE Versions = {}
  <2>1. 0 \notin 0 .. n - 1
    BY <1>1, <1>2
  <2>2. n = 0
    BY <1>1, <2>1
  <2> QED
    BY <1>2, <2>2 DEF n
<1>3. CASE Versions # {}
  <2> DEFINE m == Largest(Versions)
  <2>1. m \in Versions /\ \A v \in Versions : v <= m
    <3>1. Versions \in SUBSET Nat /\ \A v \in Versions : v < n
      BY <1>1
    <3> QED
      BY <1>1, <1>3, <3>1, LargestIsIn
  <2> HIDE DEF m
  <2>2. m \in 0 .. n - 1
    BY <1>1, <2>1
  <2>3. n - 1 \in Versions
    BY <1>1, <2>2
  <2>4. n - 1 <= m
    BY <2>1, <2>3
  <2>5. m + 1 = n
    BY <1>1, <2>2, <2>4
  <2> QED
    BY <1>3, <2>5 DEF m, n
<1> QED
  BY <1>2, <1>3

-----------------------------------------------------------------------------
(* The statements of the transaction, one lemma each.                      *)
LEMMA RetryStep ==
    ASSUME TypeInv, ChangeInv, NEW p \in Writers, Retry(p), UNCHANGED <<table, commits>>,
           UNCHANGED retention
    PROVE  ChangeInv'
<1>1. /\ dirty' = [dirty EXCEPT ![p] = NoWrites]
      /\ pc'[p] \in {"getLatest", "idle"}
      /\ \A q \in Writers \ {p} : pc'[q] = pc[q]
      /\ \A q \in Writers : call'[q].old = call[q].old /\ call'[q].next = call[q].next
  BY RetryEffect
<1> QED
  BY <1>1, RollbackStep

LEMMA SaveOldStep ==
    ASSUME TypeInv, ChangeInv, NEW p \in Writers, SaveOld(p),
           UNCHANGED retention
    PROVE  ChangeInv'
<1> SUFFICES ASSUME retention = "indefinite" PROVE ChangeInv'
  OBVIOUS
<1>1. /\ pc[p] = "saveOld"
      /\ Insert(p, call[p].next, call[p].old, "saveLatest")
      /\ UNCHANGED <<table, commits>>
  BY DEF SaveOld
<1>2. CASE Retry(p)
  BY <1>1, <1>2, RetryStep
<1>3. CASE /\ call[p].next \notin DOMAIN Rows(p)
           /\ Write(p, call[p].next, call[p].old)
           /\ Goto(p, "saveLatest")
           /\ UNCHANGED call
  <2>1. DOMAIN dirty[p] = {} /\ Versions = 0 .. Len(commits) - 1
    BY <1>1 DEF WriterInv, Holding
  <2>2. /\ call[p].next \in Nat /\ call[p].next <= Len(commits)
        /\ call[p].old \in StoredRow /\ call[p].old # NoRow
    BY <1>1, NoRowType DEF TypeOK, ReadOK, BelowChanges, Call
  <2>3. call[p].next = Len(commits)
    <3>1. DOMAIN Rows(p) = 0 .. Len(commits) - 1
      BY <2>1, RowsDomain
    <3>2. call[p].next \notin 0 .. Len(commits) - 1
      BY <1>3, <3>1
    <3> QED
      BY <2>2, <3>2, LenType
  <2>4. LargestVersion(p) = Len(commits)
    BY <2>2, <2>3 DEF LargestVersion
  <2>5. ~ Locked(p, call[p].next) /\ pc' = [pc EXCEPT ![p] = "saveLatest"]
    BY <1>1, <1>3 DEF Insert, Goto
  <2> QED
    BY <1>1, <1>3, <2>2, <2>3, <2>4, <2>5, WriteStep
<1> QED
  BY <1>1, <1>2, <1>3 DEF Insert

LEMMA SaveLatestStep ==
    ASSUME TypeInv, ChangeInv, NEW p \in Writers, SaveLatest(p),
           UNCHANGED retention
    PROVE  ChangeInv'
<1> SUFFICES ASSUME retention = "indefinite" PROVE ChangeInv'
  OBVIOUS
<1> DEFINE row == [value |-> call[p].new, time |-> call[p].stamp]
<1>1. row \in StoredRow
  BY DEF SaveLatest, TypeOK, ReadOK, Busy, Call, StoredRow
<1>2. /\ pc[p] = "saveLatest"
      /\ \/ call[p].old = NoRow /\ Insert(p, 0, row, "applyRetention")
         \/ call[p].old # NoRow /\ Update(p, 0, row, "applyRetention")
      /\ UNCHANGED <<table, commits>>
  BY DEF SaveLatest
<1> HIDE DEF row
<1>3. CASE call[p].old = NoRow
  <2>1. CASE Retry(p)
    BY <1>2, <2>1, RetryStep
  <2>2. CASE /\ 0 \notin DOMAIN Rows(p)
             /\ Write(p, 0, row)
             /\ Goto(p, "applyRetention")
             /\ UNCHANGED call
    <3>1. 0 \notin Versions
      BY <2>2, RowsDomain
    <3>2. Len(commits) = 0
      BY <3>1, LenType
    <3>3. LargestVersion(p) = Len(commits)
      BY <1>3, <3>2 DEF LargestVersion
    <3>4. ~ Locked(p, 0) /\ pc' = [pc EXCEPT ![p] = "applyRetention"]
      BY <1>2, <1>3, <2>2 DEF Insert, Goto
    <3> QED
      BY <1>1, <1>2, <2>2, <3>2, <3>3, <3>4, WriteStep
  <2> QED
    BY <1>2, <1>3, <2>1, <2>2 DEF Insert
<1>4. CASE call[p].old # NoRow
  <2>1. CASE /\ ~ Locked(p, 0)
             /\ Write(p, 0, row)
             /\ Goto(p, "applyRetention")
             /\ UNCHANGED call
    <3>1. Len(commits) \in DOMAIN dirty[p] /\ LargestVersion(p) = Len(commits)
      BY <1>2, <1>4 DEF WriterInv
    <3>2. pc' = [pc EXCEPT ![p] = "applyRetention"]
      BY <2>1 DEF Goto
    <3> QED
      BY <1>1, <1>2, <2>1, <3>1, <3>2, WriteStep
  <2>2. CASE /\ dirty' = [dirty EXCEPT ![p] = NoWrites]
             /\ call' = [call EXCEPT ![p].outcome = "notFound"]
             /\ Goto(p, "idle")
    <3>1. pc'[p] = "idle" /\ \A q \in Writers \ {p} : pc'[q] = pc[q]
      BY <2>2 DEF Goto, TypeOK
    <3>2. \A q \in Writers : call'[q].old = call[q].old /\ call'[q].next = call[q].next
      BY <2>2, NotFoundEffect
    <3> QED
      BY <1>2, <2>2, <3>1, <3>2, RollbackStep
  <2> QED
    BY <1>2, <1>4, <2>1, <2>2 DEF Update
<1> QED
  BY <1>3, <1>4

LEMMA ApplyRetentionStep ==
    ASSUME TypeInv, ChangeInv, NEW p \in Writers, ApplyRetention(p),
           UNCHANGED retention
    PROVE  ChangeInv'
<1> SUFFICES ASSUME retention = "indefinite" PROVE ChangeInv'
  OBVIOUS
<1>1. Purged(p) = {}
  BY DEF Purged
<1>2. /\ pc' = [pc EXCEPT ![p] = "commit"]
      /\ pc[p] = "applyRetention"
      /\ UNCHANGED <<table, call, commits>>
  BY DEF ApplyRetention, Goto
<1>3. /\ \A q \in Writers : DOMAIN dirty'[q] = DOMAIN dirty[q]
      /\ \A v \in DOMAIN dirty[p] : dirty'[p][v] = dirty[p][v]
      /\ \A q \in Writers \ {p} : dirty'[q] = dirty[q]
  BY <1>1 DEF ApplyRetention, TypeOK
<1>4. WriterInv(p)'
  BY <1>2, <1>3 DEF WriterInv, LargestVersion, Holding, TypeOK
<1>5. ASSUME NEW q \in Writers \ {p} PROVE WriterInv(q)'
  BY <1>2, <1>3, <1>5 DEF WriterInv, LargestVersion, TypeOK
<1>6. \A q \in Writers : WriterInv(q)'
  BY <1>4, <1>5
<1>7. Exclusive'
  BY <1>3 DEF Exclusive
<1>8. /\ (Versions = 0 .. Len(commits) - 1)'
      /\ (\A i \in DOMAIN commits : commits[i].version = i - 1)'
  BY <1>2
<1> QED
  BY <1>6, <1>7, <1>8

(* What a commit appends: exactly the version after the largest.           *)
LEMMA PublishStep ==
    ASSUME TypeInv, ChangeInv, NEW p \in Writers, pc[p] = "commit", Publish(p),
           dirty' = [dirty EXCEPT ![p] = NoWrites],
           pc'[p] \in {"produce", "getLatest", "idle"},
           \A q \in Writers \ {p} : pc'[q] = pc[q],
           \A q \in Writers : call'[q].old = call[q].old /\ call'[q].next = call[q].next,
           UNCHANGED retention
    PROVE  ChangeInv'
<1> SUFFICES ASSUME retention = "indefinite" PROVE ChangeInv'
  OBVIOUS
<1>1. /\ dirty'[p] = NoWrites
      /\ \A q \in Writers \ {p} : dirty'[q] = dirty[q]
  BY DEF TypeOK
<1>2. Exclusive'
  BY <1>1, NoWritesDomain DEF Exclusive
<1>3. CASE DOMAIN dirty[p] = {}
  <2>1. dirty[p] = NoWrites
    BY <1>3 DEF WriterInv
  <2>2. table' = Rows(p) /\ commits' = commits
    BY <2>1 DEF Publish
  <2>3. Versions' = Versions
    BY <1>3, <2>2, RowsDomain
  <2>4. /\ (Versions = 0 .. Len(commits) - 1)'
        /\ (\A i \in DOMAIN commits : commits[i].version = i - 1)'
    BY <2>2, <2>3
  <2>5. WriterInv(p)'
    BY <1>1, NoWritesDomain DEF WriterInv
  <2>6. ASSUME NEW q \in Writers \ {p} PROVE WriterInv(q)'
    BY <1>1, <2>2, <2>6 DEF WriterInv, LargestVersion
  <2>7. \A q \in Writers : WriterInv(q)'
    BY <2>5, <2>6
  <2> QED
    BY <1>2, <2>4, <2>7
<1>4. CASE DOMAIN dirty[p] # {}
  <2> DEFINE n == Len(commits)
             change == [id |-> call[p].id, kind |-> call[p].lambda.kind,
                        old |-> call[p].old.value, new |-> call[p].new,
                        version |-> LargestVersion(p)]
  <2>1. /\ n \in DOMAIN dirty[p]
        /\ DOMAIN dirty[p] \subseteq {0, n}
        /\ LargestVersion(p) = n
        /\ n \in Nat
    BY <1>4, LenType DEF WriterInv
  <2>2. table' = Rows(p) /\ commits' = Append(commits, change)
    BY <1>4, NoWritesDomain DEF Publish
  <2>3. change.version = n
    BY <2>1
  <2> HIDE DEF change
  <2>4. /\ Len(commits') = n + 1
        /\ DOMAIN commits' = 1 .. n + 1
        /\ \A i \in 1 .. n : commits'[i] = commits[i]
        /\ commits'[n + 1] = change
        /\ DOMAIN commits = 1 .. n
    BY <2>2 DEF TypeOK
  <2> HIDE DEF n
  <2>5. Versions = 0 .. n - 1 /\ Versions' = Versions \cup DOMAIN dirty[p]
    BY <2>2, RowsDomain DEF n
  <2>6. Versions' = 0 .. n
    BY <2>1, <2>5
  <2>7. (Versions = 0 .. Len(commits) - 1)'
    BY <2>1, <2>4, <2>6
  <2>8. ASSUME NEW i \in 1 .. n + 1 PROVE commits'[i].version = i - 1
    <3>1. CASE i = n + 1
      BY <2>1, <2>3, <2>4, <3>1
    <3>2. CASE i \in 1 .. n
      BY <2>4, <3>2
    <3> QED
      BY <2>1, <3>1, <3>2
  <2>9. (\A i \in DOMAIN commits : commits[i].version = i - 1)'
    BY <2>4, <2>8
  <2>10. WriterInv(p)'
    BY <1>1, NoWritesDomain DEF WriterInv
  <2>11. ASSUME NEW q \in Writers \ {p} PROVE WriterInv(q)'
    <3>1. DOMAIN dirty[q] = {}
      BY <2>1, <2>11 DEF Exclusive, WriterInv, n
    <3> QED
      BY <1>1, <2>11, <3>1 DEF WriterInv
  <2>12. \A q \in Writers : WriterInv(q)'
    BY <2>10, <2>11
  <2> QED
    BY <1>2, <2>7, <2>9, <2>12
<1> QED
  BY <1>3, <1>4

(* Reading: a missing latest row sends the writer straight to saveLatest.  *)
LEMMA GetLatestEffect ==
    ASSUME TypeInv, NEW p \in Writers, GetLatest(p)
    PROVE  /\ pc[p] = "getLatest"
           /\ UNCHANGED <<table, dirty, commits, used>>
           /\ \A q \in Writers \ {p} : pc'[q] = pc[q] /\ call'[q] = call[q]
           /\ pc'[p] \in {"idle", "commit", "getNextVersion", "saveLatest"}
           /\ pc'[p] = "saveLatest" => Latest = NoRow
           /\ call'[p].old = Latest
           /\ call'[p].retry = call[p].retry /\ call'[p].since = call[p].since
<1> USE DEF TypeOK
<1>1. /\ pc[p] = "getLatest"
      /\ UNCHANGED <<table, dirty, commits, used>>
      /\ \A q \in Writers \ {p} : pc'[q] = pc[q]
      /\ pc'[p] \in {"idle", "commit", "getNextVersion", "saveLatest"}
      /\ pc'[p] = "saveLatest" => Latest = NoRow
  BY DEF GetLatest, Goto
<1>2. \E new, o : call' = [call EXCEPT
         ![p] = [@ EXCEPT !.old = Latest, !.new = new, !.rank = Len(commits), !.outcome = o]]
  BY DEF GetLatest, Call
<1>3. PICK new, o : call' = [call EXCEPT
         ![p] = [@ EXCEPT !.old = Latest, !.new = new, !.rank = Len(commits), !.outcome = o]]
  BY <1>2
<1>4. /\ call'[p].old = Latest
      /\ call'[p].retry = call[p].retry /\ call'[p].since = call[p].since
      /\ \A q \in Writers \ {p} : call'[q] = call[q]
  BY <1>3 DEF Call
<1> QED
  BY <1>1, <1>4

LEMMA CrashStep ==
    ASSUME TypeInv, ChangeInv, Crash,
           UNCHANGED retention
    PROVE  ChangeInv'
<1> SUFFICES ASSUME retention = "indefinite" PROVE ChangeInv'
  OBVIOUS
<1>1. /\ \A q \in Writers : dirty'[q] = NoWrites /\ pc'[q] = "idle"
      /\ UNCHANGED <<table, commits>>
  BY DEF Crash
<1>2. \A q \in Writers : WriterInv(q)'
  BY <1>1, NoWritesDomain DEF WriterInv
<1>3. Exclusive'
  BY <1>1, NoWritesDomain DEF Exclusive
<1>4. /\ (Versions = 0 .. Len(commits) - 1)'
      /\ (\A i \in DOMAIN commits : commits[i].version = i - 1)'
  BY <1>1
<1> QED
  BY <1>2, <1>3, <1>4

LEMMA StatementStep ==
    ASSUME TypeInv, ChangeInv, NEW p \in Writers, Step(p),
           UNCHANGED retention
    PROVE  ChangeInv'
<1>1. CASE GetLatest(p)
  BY <1>1, GetLatestEffect, QuietStep DEF Holding
<1>2. CASE GetNextVersion(p)
  <2>1. /\ pc[p] = "getNextVersion" /\ pc'[p] = "saveOld"
        /\ \A q \in Writers \ {p} : pc'[q] = pc[q] /\ call'[q] = call[q]
        /\ UNCHANGED <<table, dirty, commits>>
    BY <1>2 DEF GetNextVersion, Goto, TypeOK
  <2> QED
    BY <2>1, QuietStep DEF Holding
<1>3. CASE SaveOld(p)
  BY <1>3, SaveOldStep
<1>4. CASE SaveLatest(p)
  BY <1>4, SaveLatestStep
<1>5. CASE ApplyRetention(p)
  BY <1>5, ApplyRetentionStep
<1>6. CASE Commit(p)
  <2>1. /\ pc[p] = "commit" /\ Publish(p) /\ dirty' = [dirty EXCEPT ![p] = NoWrites]
        /\ pc'[p] = "produce" /\ \A q \in Writers \ {p} : pc'[q] = pc[q]
    BY <1>6 DEF Commit, Goto, TypeOK
  <2>2. PICK r : call' = [call EXCEPT ![p].rank = r]
    BY <1>6 DEF Commit
  <2>3. \A q \in Writers : call'[q].old = call[q].old /\ call'[q].next = call[q].next
    BY <2>2 DEF TypeOK, Call
  <2> QED
    BY <2>1, <2>3, PublishStep
<1>7. CASE Produce(p)
  <2>1. /\ pc[p] = "produce" /\ pc'[p] = "idle"
        /\ \A q \in Writers \ {p} : pc'[q] = pc[q] /\ call'[q] = call[q]
        /\ UNCHANGED <<table, dirty, commits>>
    BY <1>7 DEF Produce, Goto, TypeOK
  <2> QED
    BY <2>1, QuietStep DEF Holding
<1> QED
  BY <1>1, <1>2, <1>3, <1>4, <1>5, <1>6, <1>7 DEF Step

LEMMA ChangeStep == TypeInv /\ ChangeInv /\ [Next]_vars => ChangeInv'
<1> SUFFICES ASSUME TypeInv, ChangeInv, [Next]_vars, UNCHANGED retention
             PROVE  ChangeInv'
  BY DEF Next, vars
<1>1. ASSUME NEW p \in Writers, Begin(p) \/ Backfill(p) \/ SendLost(p) PROVE ChangeInv'
  <2>1. /\ pc[p] \in {"idle", "produce"} /\ pc'[p] \in {"getLatest", "produce", "idle"}
        /\ \A q \in Writers \ {p} : pc'[q] = pc[q]
        /\ UNCHANGED <<table, dirty, commits>>
    BY <1>1 DEF Begin, Backfill, SendLost, Goto, TypeOK
  <2>2. \E c : call' = [call EXCEPT ![p] = c]
    BY <1>1 DEF Begin, Backfill, SendLost
  <2>3. \A q \in Writers \ {p} : call'[q] = call[q]
    BY <2>2 DEF TypeOK
  <2> QED
    BY <2>1, <2>3, QuietStep DEF Holding
<1>2. ASSUME NEW p \in Writers, CommitFails(p) PROVE ChangeInv'
  BY <1>2, RetryStep DEF CommitFails
<1>3. ASSUME NEW p \in Writers, CommitAckLost(p) PROVE ChangeInv'
  <2>1. pc[p] = "commit" /\ Publish(p) /\ Retry(p)
    BY <1>3 DEF CommitAckLost
  <2>2. /\ dirty' = [dirty EXCEPT ![p] = NoWrites]
        /\ pc'[p] \in {"getLatest", "idle"}
        /\ \A q \in Writers \ {p} : pc'[q] = pc[q]
        /\ \A q \in Writers : call'[q].old = call[q].old /\ call'[q].next = call[q].next
    BY <2>1, RetryEffect
  <2> QED
    BY <2>1, <2>2, PublishStep
<1>4. CASE Crash
  BY <1>4, CrashStep
<1>5. CASE Tick \/ Wait \/ UNCHANGED vars
  BY <1>5 DEF Tick, Wait, vars, WriterInv, Exclusive, LargestVersion
<1> QED
  BY <1>1, <1>2, <1>3, <1>4, <1>5, StatementStep DEF Next

(* Without a retention limit the table holds exactly one row per committed *)
(* change, numbered without gaps from 0: the version the primary key lets  *)
(* saveLatest insert is always the one after the largest.                  *)
THEOREM OneRow == Spec => []OneRowPerChange
<1>1. ChangeInv => OneRowPerChange
  BY DEF OneRowPerChange
<1> QED
  BY <1>1, TypeInvariant, InitChange, ChangeStep, PTL DEF Spec

(* Without a retention limit the number add returns grows with every       *)
(* change, as the javadoc of saveLatest promises.                          *)
THEOREM Increasing == Spec => []VersionsIncrease
<1>1. TypeInv /\ ChangeInv => VersionsIncrease
  BY LenType DEF VersionsIncrease, TypeOK
<1> QED
  BY <1>1, TypeInvariant, InitChange, ChangeStep, PTL DEF Spec

-----------------------------------------------------------------------------
(* Why an add can only fail under contention.  A failed attempt read a     *)
(* latest row (or none) that was overtaken: the version it then tried to   *)
(* insert was the next one when it was computed and is taken now.          *)
Paid(retry, since, n, faults) == retry <= (n - since) + faults

RetryInv(p) ==
    /\ call[p].since <= Len(commits)
    /\ Paid(call[p].retry, call[p].since, Len(commits), used.faults)
    /\ pc[p] = "saveOld" => Paid(call[p].retry, call[p].since, call[p].next, used.faults)
    /\ pc[p] = "saveLatest" /\ call[p].old = NoRow
            => Paid(call[p].retry, call[p].since, 0, used.faults)

RivalInv == retention = "indefinite" => \A p \in Writers : RetryInv(p)

LEMMA NumberType ==
    ASSUME TypeInv, NEW p \in Writers
    PROVE  /\ call[p].retry \in Nat /\ call[p].since \in Nat /\ call[p].next \in Nat
           /\ used.faults \in Nat
BY DEF TypeOK, Call

(* Steps that fail no attempt, for every writer they leave alone.          *)
LEMMA RivalKeep ==
    ASSUME TypeInv, TypeInv', NEW q \in Writers, RetryInv(q),
           Len(commits) <= Len(commits'), used.faults <= used'.faults,
           call'[q].retry = call[q].retry, call'[q].since = call[q].since,
           call'[q].next = call[q].next, call'[q].old = call[q].old,
           pc'[q] = "saveLatest" => pc[q] = "saveLatest" \/ call'[q].old # NoRow,
           pc'[q] = "saveOld" => pc[q] = "saveOld",
           UNCHANGED retention
    PROVE  RetryInv(q)'
<1> DEFINE r == call[q].retry
           s == call[q].since
           n == call[q].next
<1>1. /\ r \in Nat /\ s \in Nat /\ n \in Nat /\ used.faults \in Nat /\ used'.faults \in Nat
      /\ Len(commits) \in Nat /\ Len(commits') \in Nat
  <2>1. used'.faults \in Nat /\ Len(commits') \in Nat
    BY DEF TypeOK
  <2> QED
    BY <2>1, NumberType, LenType
<1>2. s <= Len(commits) /\ Paid(r, s, Len(commits), used.faults)
  BY DEF RetryInv
<1> HIDE DEF r, s, n
<1>3. s <= Len(commits')
  BY <1>1, <1>2
<1>4. Paid(r, s, Len(commits'), used'.faults)
  BY <1>1, <1>2 DEF Paid
<1>5. ASSUME NEW m \in Nat, Paid(r, s, m, used.faults) PROVE Paid(r, s, m, used'.faults)
  BY <1>1, <1>5 DEF Paid
<1>6. pc[q] = "saveOld" => Paid(r, s, n, used'.faults)
  BY <1>1, <1>5 DEF RetryInv, r, s, n
<1>7. pc[q] = "saveLatest" /\ call[q].old = NoRow => Paid(r, s, 0, used'.faults)
  BY <1>5 DEF RetryInv, r, s
<1> QED
  BY <1>3, <1>4, <1>6, <1>7 DEF RetryInv, r, s, n

(* An attempt that fails is paid for by a rival's commit or by a fault.    *)
LEMMA RivalRetry ==
    ASSUME TypeInv, TypeInv', NEW p \in Writers, RetryInv(p), Retry(p),
           Len(commits) <= Len(commits'),
           NEW n \in Nat, Paid(call[p].retry, call[p].since, n, used.faults),
           \/ n < Len(commits') /\ used.faults <= used'.faults
           \/ n <= Len(commits') /\ used.faults < used'.faults,
           UNCHANGED retention
    PROVE  RetryInv(p)'
<1> DEFINE r == call[p].retry
           s == call[p].since
<1>1. call'[p].retry = r + 1 /\ call'[p].since = s
  <2>1. call \in [Writers -> Call]
    BY DEF TypeOK
  <2>2. CASE call' = [call EXCEPT ![p].retry = @ + 1]
    BY <2>1, <2>2 DEF Call
  <2>3. CASE call' = [call EXCEPT ![p].retry = @ + 1, ![p].outcome = "retryLimit"]
    BY <2>1, <2>3 DEF Call
  <2> QED
    BY <2>2, <2>3 DEF Retry
<1>2. pc'[p] \in {"getLatest", "idle"}
  BY RetryEffect
<1>3. /\ r \in Nat /\ s \in Nat /\ used.faults \in Nat /\ used'.faults \in Nat
      /\ Len(commits) \in Nat /\ Len(commits') \in Nat /\ s <= Len(commits)
  <2>1. used'.faults \in Nat /\ Len(commits') \in Nat
    BY DEF TypeOK
  <2> QED
    BY <2>1, NumberType, LenType DEF RetryInv
<1> HIDE DEF r, s
<1>4. s <= Len(commits')
  BY <1>3
<1>5. Paid(r + 1, s, Len(commits'), used'.faults)
  <2>1. Paid(r, s, n, used.faults)
    BY DEF r, s
  <2> QED
    BY <1>3, <2>1 DEF Paid
<1> QED
  BY <1>1, <1>2, <1>4, <1>5 DEF RetryInv

(* What each action does to the retry counters and their bounds.           *)
LEMMA CallKeep ==
    ASSUME TypeInv, TypeInv', NEW p \in Writers, \A q \in Writers : RetryInv(q),
           \A q \in Writers \ {p} : pc'[q] = pc[q] /\ call'[q] = call[q],
           Len(commits) <= Len(commits'), used.faults <= used'.faults,
           RetryInv(p)',
           UNCHANGED retention
    PROVE  \A q \in Writers : RetryInv(q)'
<1>1. ASSUME NEW q \in Writers \ {p} PROVE RetryInv(q)'
  BY <1>1, RivalKeep
<1> QED
  BY <1>1

LEMMA LengthGrows ==
    ASSUME TypeInv, NEW p \in Writers, pc[p] = "commit", Publish(p)
    PROVE  Len(commits) <= Len(commits')
BY PublishEffect

LEMMA InjectEffect ==
    ASSUME TypeInv, NEW fault, Inject(fault)
    PROVE  used.faults < used'.faults
BY DEF Inject, TypeOK

LEMMA RetryOthers ==
    ASSUME TypeInv, NEW p \in Writers, Retry(p)
    PROVE  \A q \in Writers \ {p} : pc'[q] = pc[q] /\ call'[q] = call[q]
BY DEF Retry, Goto, TypeOK

LEMMA InsertRivals ==
    ASSUME TypeInv, TypeInv', ChangeInv, retention = "indefinite", NEW p \in Writers,
           \A q \in Writers : RetryInv(q),
           NEW v \in Nat, NEW row, NEW label \in {"saveLatest", "applyRetention"},
           Insert(p, v, row, label),
           UNCHANGED <<commits, used>>, DOMAIN dirty[p] = {},
           Paid(call[p].retry, call[p].since, v, used.faults),
           label = "saveLatest" => call[p].old # NoRow,
           UNCHANGED retention
    PROVE  \A q \in Writers : RetryInv(q)'
<1>1. Len(commits) \in Nat /\ Len(commits') = Len(commits) /\ used.faults \in Nat
  BY LenType, NumberType
<1>2. CASE v \in DOMAIN Rows(p) /\ Retry(p)
  <2>1. v < Len(commits)
    <3>1. v \in 0 .. Len(commits) - 1
      BY <1>2, RowsDomain
    <3> QED
      BY <1>1, <3>1
  <2>2. RetryInv(p)'
    BY <1>1, <1>2, <2>1, RivalRetry
  <2> QED
    BY <1>1, <1>2, <2>2, RetryOthers, CallKeep
<1>3. CASE Goto(p, label) /\ UNCHANGED call
  <2>1. /\ \A q \in Writers \ {p} : pc'[q] = pc[q]
        /\ pc'[p] = label
    BY <1>3 DEF Goto, TypeOK
  <2>2. RetryInv(p)'
    BY <1>1, <1>3, <2>1, RivalKeep
  <2> QED
    BY <1>1, <1>3, <2>1, <2>2, CallKeep
<1> QED
  BY <1>2, <1>3 DEF Insert

LEMMA UpdateRivals ==
    ASSUME TypeInv, TypeInv', NEW p \in Writers, \A q \in Writers : RetryInv(q),
           NEW v \in Nat, NEW row, Update(p, v, row, "applyRetention"),
           UNCHANGED <<commits, used>>,
           UNCHANGED retention
    PROVE  \A q \in Writers : RetryInv(q)'
<1>1. Len(commits) \in Nat /\ Len(commits') = Len(commits) /\ used.faults \in Nat
  BY LenType, NumberType
<1>2. /\ \A q \in Writers \ {p} : pc'[q] = pc[q] /\ call'[q] = call[q]
      /\ pc'[p] \in {"applyRetention", "idle"}
  BY DEF Update, Goto, TypeOK
<1>3. /\ call'[p].retry = call[p].retry /\ call'[p].since = call[p].since
      /\ call'[p].next = call[p].next /\ call'[p].old = call[p].old
  <2>1. call \in [Writers -> Call]
    BY DEF TypeOK
  <2>2. CASE call' = [call EXCEPT ![p].outcome = "notFound"]
    BY <2>1, <2>2 DEF Call
  <2>3. CASE UNCHANGED call
    BY <2>3
  <2> QED
    BY <2>2, <2>3 DEF Update
<1>4. RetryInv(p)'
  BY <1>1, <1>2, <1>3, RivalKeep
<1> QED
  BY <1>1, <1>2, <1>4, CallKeep

LEMMA GetLatestRivals ==
    ASSUME TypeInv, TypeInv', ChangeInv, retention = "indefinite", NEW p \in Writers,
           \A q \in Writers : RetryInv(q), GetLatest(p),
           UNCHANGED retention
    PROVE  \A q \in Writers : RetryInv(q)'
<1>1. /\ UNCHANGED <<commits, used>>
      /\ \A q \in Writers \ {p} : pc'[q] = pc[q] /\ call'[q] = call[q]
      /\ pc'[p] \in {"idle", "commit", "getNextVersion", "saveLatest"}
      /\ pc'[p] = "saveLatest" => Latest = NoRow
      /\ call'[p].retry = call[p].retry /\ call'[p].since = call[p].since
  BY GetLatestEffect
<1>2. Len(commits) \in Nat /\ Len(commits') = Len(commits) /\ used.faults \in Nat
  BY <1>1, LenType, NumberType
<1>3. Latest = NoRow => Len(commits) = 0
  <2>1. Latest = NoRow => 0 \notin Versions
    BY NoRowType DEF Latest, TypeOK
  <2> QED
    BY <1>2, <2>1
<1>4. RetryInv(p)'
  BY <1>1, <1>2, <1>3 DEF RetryInv
<1> QED
  BY <1>1, <1>2, <1>4, CallKeep

LEMMA GetNextVersionRivals ==
    ASSUME TypeInv, TypeInv', ChangeInv, retention = "indefinite", NEW p \in Writers,
           \A q \in Writers : RetryInv(q), GetNextVersion(p),
           UNCHANGED retention
    PROVE  \A q \in Writers : RetryInv(q)'
<1>1. /\ UNCHANGED <<commits, used>>
      /\ \A q \in Writers \ {p} : pc'[q] = pc[q] /\ call'[q] = call[q]
      /\ pc'[p] = "saveOld"
      /\ call' = [call EXCEPT ![p].next = Len(commits)]
  BY NextVersion DEF GetNextVersion, Goto, TypeOK
<1>2. Len(commits) \in Nat /\ Len(commits') = Len(commits) /\ used.faults \in Nat
  BY <1>1, LenType, NumberType
<1>3. /\ call'[p].retry = call[p].retry /\ call'[p].since = call[p].since
      /\ call'[p].next = Len(commits)
  BY <1>1 DEF TypeOK, Call
<1>4. RetryInv(p)'
  BY <1>1, <1>2, <1>3 DEF RetryInv
<1> QED
  BY <1>1, <1>2, <1>4, CallKeep

(* A request that starts has been overtaken by nothing.                    *)
LEMMA FreshRivals ==
    ASSUME TypeInv, TypeInv', NEW p \in Writers, \A q \in Writers : RetryInv(q),
           \A q \in Writers \ {p} : pc'[q] = pc[q] /\ call'[q] = call[q],
           UNCHANGED commits, used'.faults = used.faults,
           call'[p].retry = 0, call'[p].since = Len(commits),
           pc'[p] \in {"getLatest", "produce"},
           UNCHANGED retention
    PROVE  \A q \in Writers : RetryInv(q)'
<1>1. Len(commits) \in Nat /\ Len(commits') = Len(commits) /\ used.faults \in Nat
  BY LenType, NumberType
<1>2. RetryInv(p)'
  BY <1>1 DEF RetryInv, Paid
<1> QED
  BY <1>1, <1>2, CallKeep

LEMMA BeginRivals ==
    ASSUME TypeInv, TypeInv', NEW p \in Writers, \A q \in Writers : RetryInv(q), Begin(p),
           UNCHANGED retention
    PROVE  \A q \in Writers : RetryInv(q)'
<1>1. PICK f \in Lambdas :
        call' = [call EXCEPT ![p] =
            [IdleCall EXCEPT !.id = used.adds + 1, !.lambda = f, !.stamp = now,
                             !.since = Len(commits)]]
  BY DEF Begin
<1>2. call'[p].retry = 0 /\ call'[p].since = Len(commits)
  BY <1>1 DEF TypeOK, IdleCall
<1>3. /\ UNCHANGED commits /\ used' = [used EXCEPT !.adds = @ + 1]
      /\ pc'[p] = "getLatest"
      /\ \A q \in Writers \ {p} : pc'[q] = pc[q] /\ call'[q] = call[q]
  BY <1>1 DEF Begin, Goto, TypeOK
<1>4. used'.faults = used.faults
  BY <1>3 DEF TypeOK
<1> QED
  BY <1>2, <1>3, <1>4, FreshRivals

LEMMA BackfillRivals ==
    ASSUME TypeInv, TypeInv', NEW p \in Writers, \A q \in Writers : RetryInv(q), Backfill(p),
           UNCHANGED retention
    PROVE  \A q \in Writers : RetryInv(q)'
<1>1. call' = [call EXCEPT ![p] =
            [IdleCall EXCEPT !.old = Latest, !.new = Latest.value, !.rank = Len(commits),
                             !.since = Len(commits)]]
  BY DEF Backfill
<1>2. call'[p].retry = 0 /\ call'[p].since = Len(commits)
  BY <1>1 DEF TypeOK, IdleCall
<1>3. /\ UNCHANGED commits /\ used' = [used EXCEPT !.backfills = @ + 1]
      /\ pc'[p] = "produce"
      /\ \A q \in Writers \ {p} : pc'[q] = pc[q] /\ call'[q] = call[q]
  BY <1>1 DEF Backfill, Goto, TypeOK
<1>4. used'.faults = used.faults
  BY <1>3 DEF TypeOK
<1> QED
  BY <1>2, <1>3, <1>4, FreshRivals

(* Steps after the writes: nothing they do can fail.                       *)
LEMMA LateRivals ==
    ASSUME TypeInv, TypeInv', NEW p \in Writers, \A q \in Writers : RetryInv(q),
           \A q \in Writers \ {p} : pc'[q] = pc[q] /\ call'[q] = call[q],
           Len(commits) <= Len(commits'), used.faults <= used'.faults,
           pc'[p] \in {"commit", "produce", "idle"},
           call'[p].retry = call[p].retry, call'[p].since = call[p].since,
           call'[p].next = call[p].next, call'[p].old = call[p].old,
           UNCHANGED retention
    PROVE  \A q \in Writers : RetryInv(q)'
<1>1. RetryInv(p)'
  BY RivalKeep
<1> QED
  BY <1>1, CallKeep

LEMMA StatementRivals ==
    ASSUME TypeInv, TypeInv', ChangeInv, retention = "indefinite", NEW p \in Writers,
           \A q \in Writers : RetryInv(q), Step(p),
           UNCHANGED retention
    PROVE  \A q \in Writers : RetryInv(q)'
<1>1. /\ Len(commits) \in Nat /\ used.faults \in Nat
      /\ call \in [Writers -> Call] /\ pc \in [Writers -> Label]
  BY LenType, NumberType DEF TypeOK
<1>2. CASE GetLatest(p)
  BY <1>2, GetLatestRivals
<1>3. CASE GetNextVersion(p)
  BY <1>3, GetNextVersionRivals
<1>4. CASE SaveOld(p)
  <2>1. /\ pc[p] = "saveOld" /\ UNCHANGED <<commits, used>>
        /\ Insert(p, call[p].next, call[p].old, "saveLatest")
    BY <1>4 DEF SaveOld
  <2>2. /\ DOMAIN dirty[p] = {} /\ call[p].old # NoRow /\ call[p].next \in Nat
        /\ Paid(call[p].retry, call[p].since, call[p].next, used.faults)
    BY <2>1, NoRowType, NumberType DEF WriterInv, Holding, ReadOK, RetryInv
  <2> QED
    BY <2>1, <2>2, InsertRivals
<1>5. CASE SaveLatest(p)
  <2> DEFINE row == [value |-> call[p].new, time |-> call[p].stamp]
  <2>1. /\ pc[p] = "saveLatest" /\ UNCHANGED <<commits, used>>
        /\ \/ call[p].old = NoRow /\ Insert(p, 0, row, "applyRetention")
           \/ call[p].old # NoRow /\ Update(p, 0, row, "applyRetention")
    BY <1>5 DEF SaveLatest
  <2> HIDE DEF row
  <2>2. CASE call[p].old = NoRow
    <3>1. DOMAIN dirty[p] = {} /\ Paid(call[p].retry, call[p].since, 0, used.faults)
      BY <2>1, <2>2 DEF WriterInv, RetryInv
    <3> QED
      BY <2>1, <2>2, <3>1, InsertRivals
  <2>3. CASE call[p].old # NoRow
    BY <2>1, <2>3, UpdateRivals
  <2> QED
    BY <2>2, <2>3
<1>6. CASE ApplyRetention(p)
  <2>1. /\ UNCHANGED <<call, commits, used>> /\ pc' = [pc EXCEPT ![p] = "commit"]
    BY <1>6 DEF ApplyRetention, Goto
  <2> QED
    BY <1>1, <2>1, LateRivals
<1>7. CASE Commit(p)
  <2>1. PICK r : call' = [call EXCEPT ![p].rank = r]
    BY <1>7 DEF Commit
  <2>2. /\ pc[p] = "commit" /\ Publish(p) /\ UNCHANGED used
        /\ pc' = [pc EXCEPT ![p] = "produce"]
    BY <1>7 DEF Commit, Goto
  <2>3. Len(commits) <= Len(commits')
    BY <2>2, LengthGrows
  <2>4. /\ call'[p].retry = call[p].retry /\ call'[p].since = call[p].since
        /\ call'[p].next = call[p].next /\ call'[p].old = call[p].old
        /\ \A q \in Writers \ {p} : call'[q] = call[q]
    BY <1>1, <2>1 DEF Call
  <2> QED
    BY <1>1, <2>2, <2>3, <2>4, LateRivals
<1>8. CASE Produce(p)
  <2>1. /\ call' = [call EXCEPT ![p].outcome = "ok"] /\ pc' = [pc EXCEPT ![p] = "idle"]
        /\ UNCHANGED <<commits, used>>
    BY <1>8 DEF Produce, Goto
  <2>2. /\ call'[p].retry = call[p].retry /\ call'[p].since = call[p].since
        /\ call'[p].next = call[p].next /\ call'[p].old = call[p].old
        /\ \A q \in Writers \ {p} : call'[q] = call[q]
    BY <1>1, <2>1 DEF Call
  <2> QED
    BY <1>1, <2>1, <2>2, LateRivals
<1> QED
  BY <1>2, <1>3, <1>4, <1>5, <1>6, <1>7, <1>8 DEF Step

LEMMA RivalStep == TypeInv /\ TypeInv' /\ ChangeInv /\ RivalInv /\ [Next]_vars => RivalInv'
<1> SUFFICES ASSUME TypeInv, TypeInv', ChangeInv, RivalInv, [Next]_vars,
                    retention = "indefinite", UNCHANGED retention
             PROVE  \A q \in Writers : RetryInv(q)'
  BY DEF RivalInv, Next, vars
<1>1. /\ Len(commits) \in Nat /\ call \in [Writers -> Call] /\ pc \in [Writers -> Label]
      /\ used.faults \in Nat /\ \A q \in Writers : RetryInv(q)
  BY LenType DEF TypeOK, RivalInv
<1>2. ASSUME NEW p \in Writers, Begin(p) PROVE \A q \in Writers : RetryInv(q)'
  BY <1>1, <1>2, BeginRivals
<1>3. ASSUME NEW p \in Writers, Backfill(p) PROVE \A q \in Writers : RetryInv(q)'
  BY <1>1, <1>3, BackfillRivals
<1>4. ASSUME NEW p \in Writers, Step(p) PROVE \A q \in Writers : RetryInv(q)'
  BY <1>1, <1>4, StatementRivals
<1>5. ASSUME NEW p \in Writers, CommitFails(p) \/ CommitAckLost(p)
      PROVE  \A q \in Writers : RetryInv(q)'
  <2>1. used.faults < used'.faults /\ Retry(p) /\ used'.faults \in Nat
    BY <1>5, InjectEffect DEF CommitFails, CommitAckLost, TypeOK
  <2>2. Len(commits) <= Len(commits')
    BY <1>1, <1>5, LengthGrows DEF CommitFails, CommitAckLost
  <2>3. Paid(call[p].retry, call[p].since, Len(commits), used.faults)
    BY <1>1 DEF RetryInv
  <2>4. RetryInv(p)'
    BY <1>1, <2>1, <2>2, <2>3, RivalRetry
  <2> QED
    BY <1>1, <2>1, <2>2, <2>4, RetryOthers, CallKeep
<1>6. ASSUME NEW p \in Writers, SendLost(p) PROVE \A q \in Writers : RetryInv(q)'
  <2>1. /\ call' = [call EXCEPT ![p].outcome = "ok"] /\ pc' = [pc EXCEPT ![p] = "idle"]
        /\ UNCHANGED commits /\ used.faults < used'.faults /\ used'.faults \in Nat
    BY <1>6, InjectEffect DEF SendLost, Goto, TypeOK
  <2>2. /\ call'[p].retry = call[p].retry /\ call'[p].since = call[p].since
        /\ call'[p].next = call[p].next /\ call'[p].old = call[p].old
        /\ \A q \in Writers \ {p} : call'[q] = call[q]
    BY <1>1, <2>1 DEF Call
  <2> QED
    BY <1>1, <2>1, <2>2, LateRivals
<1>7. CASE Crash
  <2>1. /\ UNCHANGED commits /\ used'.faults \in Nat
        /\ \A q \in Writers : pc'[q] = "idle" /\ call'[q].retry = 0 /\ call'[q].since = 0
    BY <1>7 DEF Crash, IdleCall, TypeOK
  <2> QED
    BY <1>1, <2>1 DEF RetryInv, Paid
<1>8. CASE Tick \/ Wait \/ UNCHANGED vars
  BY <1>1, <1>8 DEF Tick, Wait, vars, RetryInv
<1> QED
  BY <1>2, <1>3, <1>4, <1>5, <1>6, <1>7, <1>8 DEF Next

LEMMA InitRivals == Init => RivalInv
BY DEF Init, RivalInv, RetryInv, Paid, IdleCall

(* Without a retention limit an add has failed at most once for each change *)
(* committed since it began and each fault of the database: its own reads  *)
(* and inserts never fail it, so RetryLimitReached always means contention. *)
THEOREM RivalsOnly == Spec => []FailureNeedsRivals
<1>1. TypeInv /\ RivalInv => FailureNeedsRivals
  BY DEF RivalInv, RetryInv, Paid, FailureNeedsRivals
<1>2. Spec => []ChangeInv
  BY TypeInvariant, InitChange, ChangeStep, PTL DEF Spec
<1> QED
  BY <1>1, <1>2, TypeInvariant, InitRivals, RivalStep, PTL DEF Spec

-----------------------------------------------------------------------------
(***************************************************************************)
(* History: what may happen to a row once it is committed.                 *)
(*                                                                         *)
(* The argument: the only row a transaction ever writes over is version 0. *)
(* Any other row it holds is either new, because the insert checked that   *)
(* the key was free and nobody else can take it while the transaction      *)
(* holds it, or one the retention policy removes.                          *)
(***************************************************************************)

(* A row p deletes is one its retention policy let it delete.              *)
Expired(v) ==
    /\ retention # "indefinite"
    /\ retention = "time" => table[v].time < now - Limit

OwnRows(p) ==
    /\ pc[p] \notin Holding => DOMAIN dirty[p] = {}
    /\ pc[p] = "saveLatest" => \A v \in DOMAIN dirty[p] : dirty[p][v] # Deleted
    /\ \A v \in DOMAIN dirty[p] \ {0} :
         \/ v \notin Versions
         \/ dirty[p][v] = Deleted /\ Expired(v)

HistoryInv == Exclusive /\ \A p \in Writers : OwnRows(p)

HIDE DEF ChangeInv

LEMMA InitHistory == Init => HistoryInv
BY NoWritesDomain DEF Init, HistoryInv, OwnRows, Exclusive

(* Rows other than 0 are not rewritten by a commit, and the rows it drops  *)
(* have expired.                                                           *)
LEMMA PublishKeeps ==
    ASSUME TypeInv, HistoryInv, NEW p \in Writers, Publish(p), NEW v \in Versions \ {0}
    PROVE  /\ v \in Versions' => table'[v] = table[v]
           /\ v \notin Versions' => Expired(v)
<1>1. table' = Rows(p)
  BY DEF Publish
<1>2. CASE v \in DOMAIN dirty[p]
  <2>1. dirty[p][v] = Deleted /\ Expired(v)
    BY <1>2 DEF HistoryInv, OwnRows
  <2>2. v \notin DOMAIN Rows(p)
    BY <1>2, <2>1 DEF Rows
  <2> QED
    BY <1>1, <2>1, <2>2
<1>3. CASE v \notin DOMAIN dirty[p]
  <2>1. v \in DOMAIN Rows(p) /\ Rows(p)[v] = table[v]
    BY <1>3 DEF Rows
  <2> QED
    BY <1>1, <2>1
<1> QED
  BY <1>2, <1>3

(* What a commit changes for the other writers: nothing they hold.         *)
LEMMA PublishHistory ==
    ASSUME TypeInv, HistoryInv, NEW p \in Writers, Publish(p),
           dirty' = [dirty EXCEPT ![p] = NoWrites], UNCHANGED now,
           \A q \in Writers \ {p} : pc'[q] = pc[q],
           UNCHANGED retention
    PROVE  HistoryInv'
<1>1. /\ dirty'[p] = NoWrites
      /\ \A q \in Writers \ {p} : dirty'[q] = dirty[q]
  BY DEF TypeOK
<1>2. Exclusive'
  BY <1>1, NoWritesDomain DEF Exclusive, HistoryInv
<1>3. OwnRows(p)'
  BY <1>1, NoWritesDomain DEF OwnRows
<1>4. ASSUME NEW q \in Writers \ {p} PROVE OwnRows(q)'
  <2>1. \A v \in DOMAIN dirty[q] : v \notin DOMAIN dirty[p]
    BY <1>4 DEF HistoryInv, Exclusive
  <2>2. table' = Rows(p)
    BY DEF Publish
  <2>3. ASSUME NEW v \in DOMAIN dirty[q]
        PROVE  (v \in Versions' <=> v \in Versions) /\ (v \in Versions => table'[v] = table[v])
    BY <2>1, <2>2, <2>3 DEF Rows
  <2>4. OwnRows(q)
    BY DEF HistoryInv
  <2> QED
    BY <1>1, <1>4, <2>3, <2>4 DEF OwnRows, Expired
<1>5. \A q \in Writers : OwnRows(q)'
  BY <1>3, <1>4
<1> QED
  BY <1>2, <1>5 DEF HistoryInv

LEMMA RollbackHistory ==
    ASSUME TypeInv, HistoryInv, NEW p \in Writers,
           dirty' = [dirty EXCEPT ![p] = NoWrites], UNCHANGED <<table, now>>,
           \A q \in Writers \ {p} : pc'[q] = pc[q],
           UNCHANGED retention
    PROVE  HistoryInv'
<1>1. /\ dirty'[p] = NoWrites
      /\ \A q \in Writers \ {p} : dirty'[q] = dirty[q]
  BY DEF TypeOK
<1>2. Exclusive'
  BY <1>1, NoWritesDomain DEF Exclusive, HistoryInv
<1>3. OwnRows(p)'
  BY <1>1, NoWritesDomain DEF OwnRows
<1>4. ASSUME NEW q \in Writers \ {p} PROVE OwnRows(q)'
  BY <1>1, <1>4 DEF HistoryInv, OwnRows, Expired
<1>5. \A q \in Writers : OwnRows(q)'
  BY <1>3, <1>4
<1> QED
  BY <1>2, <1>5 DEF HistoryInv

LEMMA QuietHistory ==
    ASSUME TypeInv, HistoryInv, NEW p \in Writers,
           UNCHANGED <<table, dirty, now>>,
           \A q \in Writers \ {p} : pc'[q] = pc[q],
           pc[p] \notin Holding,
           UNCHANGED retention
    PROVE  HistoryInv'
<1>1. Exclusive'
  BY DEF Exclusive, HistoryInv
<1>2. OwnRows(p)'
  BY DEF HistoryInv, OwnRows
<1>3. ASSUME NEW q \in Writers \ {p} PROVE OwnRows(q)'
  BY <1>3 DEF HistoryInv, OwnRows, Expired
<1>4. \A q \in Writers : OwnRows(q)'
  BY <1>2, <1>3
<1> QED
  BY <1>1, <1>4 DEF HistoryInv

LEMMA WriteHistory ==
    ASSUME TypeInv, HistoryInv, NEW p \in Writers, NEW v \in Nat, NEW row \in StoredRow,
           NEW label \in {"saveLatest", "applyRetention"},
           ~ Locked(p, v), Write(p, v, row), Goto(p, label), UNCHANGED <<table, now>>,
           pc[p] \in {"saveOld", "saveLatest"},
           v # 0 => v \notin Versions,
           UNCHANGED retention
    PROVE  HistoryInv'
<1>1. /\ DOMAIN dirty'[p] = DOMAIN dirty[p] \cup {v}
      /\ dirty'[p][v] = row
      /\ \A w \in DOMAIN dirty[p] \ {v} : dirty'[p][w] = dirty[p][w]
      /\ \A q \in Writers \ {p} : dirty'[q] = dirty[q] /\ pc'[q] = pc[q]
      /\ pc'[p] = label
  BY DEF Write, Goto, TypeOK
<1>2. row # Deleted
  BY ValueAssumption DEF StoredRow, Valid
<1>3. \A w \in DOMAIN dirty[p] : dirty[p][w] # Deleted
  BY DEF HistoryInv, OwnRows, Holding
<1>4. Exclusive'
  BY <1>1 DEF HistoryInv, Exclusive, Locked
<1>5. OwnRows(p)'
  BY <1>1, <1>2, <1>3 DEF HistoryInv, OwnRows, Holding
<1>6. ASSUME NEW q \in Writers \ {p} PROVE OwnRows(q)'
  BY <1>1, <1>6 DEF HistoryInv, OwnRows, Expired
<1>7. \A q \in Writers : OwnRows(q)'
  BY <1>5, <1>6
<1> QED
  BY <1>4, <1>7 DEF HistoryInv

-----------------------------------------------------------------------------
(* The statements of the transaction.                                      *)
LEMMA RetryHistory ==
    ASSUME TypeInv, HistoryInv, NEW p \in Writers, Retry(p), UNCHANGED <<table, now>>,
           UNCHANGED retention
    PROVE  HistoryInv'
BY RetryEffect, RollbackHistory

LEMMA InsertHistory ==
    ASSUME TypeInv, HistoryInv, NEW p \in Writers, NEW v \in Nat, NEW row \in StoredRow,
           NEW label \in {"saveLatest", "applyRetention"}, Insert(p, v, row, label),
           pc[p] \in {"saveOld", "saveLatest"}, UNCHANGED <<table, now>>,
           UNCHANGED retention
    PROVE  HistoryInv'
<1>1. CASE Retry(p)
  BY <1>1, RetryHistory
<1>2. CASE v \notin DOMAIN Rows(p) /\ Write(p, v, row) /\ Goto(p, label)
  <2>1. \A w \in DOMAIN dirty[p] : dirty[p][w] # Deleted
    BY DEF HistoryInv, OwnRows, Holding
  <2>2. v \notin Versions
    BY <1>2, <2>1 DEF Rows
  <2> QED
    BY <1>2, <2>2, WriteHistory DEF Insert
<1> QED
  BY <1>1, <1>2 DEF Insert

LEMMA SaveOldHistory ==
    ASSUME TypeInv, HistoryInv, NEW p \in Writers, SaveOld(p),
           UNCHANGED retention
    PROVE  HistoryInv'
<1>1. /\ pc[p] = "saveOld" /\ UNCHANGED <<table, now>>
      /\ Insert(p, call[p].next, call[p].old, "saveLatest")
  BY DEF SaveOld
<1>2. call[p].next \in Nat /\ call[p].old \in StoredRow
  BY <1>1 DEF TypeOK, ReadOK, Call
<1> QED
  BY <1>1, <1>2, InsertHistory

LEMMA SaveLatestHistory ==
    ASSUME TypeInv, HistoryInv, NEW p \in Writers, SaveLatest(p),
           UNCHANGED retention
    PROVE  HistoryInv'
<1> DEFINE row == [value |-> call[p].new, time |-> call[p].stamp]
<1>1. row \in StoredRow
  BY DEF SaveLatest, TypeOK, ReadOK, Busy, Call, StoredRow
<1>2. /\ pc[p] = "saveLatest" /\ UNCHANGED <<table, now>>
      /\ \/ Insert(p, 0, row, "applyRetention")
         \/ Update(p, 0, row, "applyRetention")
  BY DEF SaveLatest
<1> HIDE DEF row
<1>3. CASE Insert(p, 0, row, "applyRetention")
  BY <1>1, <1>2, <1>3, InsertHistory
<1>4. CASE Update(p, 0, row, "applyRetention")
  <2>1. CASE ~ Locked(p, 0) /\ Write(p, 0, row) /\ Goto(p, "applyRetention")
    BY <1>1, <1>2, <2>1, WriteHistory
  <2>2. CASE dirty' = [dirty EXCEPT ![p] = NoWrites] /\ Goto(p, "idle")
    <3>1. \A q \in Writers \ {p} : pc'[q] = pc[q]
      BY <2>2 DEF Goto, TypeOK
    <3> QED
      BY <1>2, <2>2, <3>1, RollbackHistory
  <2> QED
    BY <1>4, <2>1, <2>2 DEF Update
<1> QED
  BY <1>2, <1>3, <1>4

(* The retention policy removes an archived row only when it has expired.  *)
LEMMA PurgedExpired ==
    ASSUME TypeInv, HistoryInv, NEW p \in Writers, NEW v \in Purged(p), v # 0, v \in Versions
    PROVE  Expired(v)
<1>1. CASE v \in DOMAIN dirty[p]
  BY <1>1 DEF HistoryInv, OwnRows
<1>2. CASE v \notin DOMAIN dirty[p]
  <2>1. v \in DOMAIN Rows(p) => Rows(p)[v] = table[v]
    BY <1>2 DEF Rows
  <2> QED
    BY <2>1, RetentionAssumption DEF Purged, Expired
<1> QED
  BY <1>1, <1>2

LEMMA ApplyRetentionHistory ==
    ASSUME TypeInv, HistoryInv, NEW p \in Writers, ApplyRetention(p),
           UNCHANGED retention
    PROVE  HistoryInv'
<1> DEFINE gone == Purged(p)
<1>1. /\ \A v \in gone : ~ Locked(p, v)
      /\ dirty' = [dirty EXCEPT ![p] = [v \in DOMAIN dirty[p] \cup gone |->
                        IF v \in gone THEN Deleted ELSE dirty[p][v]]]
      /\ pc' = [pc EXCEPT ![p] = "commit"]
      /\ UNCHANGED <<table, now>>
  BY DEF ApplyRetention, Goto
<1>2. \A v \in gone : v # 0 /\ v \in Versions => Expired(v)
  BY PurgedExpired
<1> HIDE DEF gone
<1>3. /\ DOMAIN dirty'[p] = DOMAIN dirty[p] \cup gone
      /\ \A v \in gone : dirty'[p][v] = Deleted
      /\ \A v \in DOMAIN dirty[p] \ gone : dirty'[p][v] = dirty[p][v]
      /\ \A q \in Writers \ {p} : dirty'[q] = dirty[q] /\ pc'[q] = pc[q]
      /\ pc'[p] = "commit"
  BY <1>1 DEF TypeOK
<1>4. Exclusive'
  BY <1>1, <1>3 DEF HistoryInv, Exclusive, Locked
<1>5. OwnRows(p)'
  BY <1>1, <1>2, <1>3 DEF HistoryInv, OwnRows, Holding, Expired
<1>6. ASSUME NEW q \in Writers \ {p} PROVE OwnRows(q)'
  BY <1>1, <1>3, <1>6 DEF HistoryInv, OwnRows, Expired
<1>7. \A q \in Writers : OwnRows(q)'
  BY <1>5, <1>6
<1> QED
  BY <1>4, <1>7 DEF HistoryInv

(* Time passes, and what has expired stays expired.                        *)
LEMMA TickHistory ==
    ASSUME TypeInv, HistoryInv, Tick,
           UNCHANGED retention
    PROVE  HistoryInv'
<1>1. now \in Nat /\ now' = now + 1 /\ UNCHANGED <<table, dirty, pc>> /\ Limit \in Nat
  BY RetentionAssumption DEF Tick, TypeOK
<1>2. ASSUME NEW v \in Versions, Expired(v) PROVE Expired(v)'
  <2>1. table[v].time \in Nat
    BY DEF TypeOK, StoredRow
  <2> DEFINE t == table[v].time
  <2>2. t \in Nat /\ table'[v].time = t
    BY <1>1, <2>1
  <2>3. retention = "time" => t < now - Limit
    BY <1>2 DEF Expired
  <2> HIDE DEF t
  <2>4. retention = "time" => t < now' - Limit
    BY <1>1, <2>2, <2>3
  <2> QED
    BY <1>2, <2>2, <2>4 DEF Expired
<1>3. \A q \in Writers : OwnRows(q)'
  BY <1>1, <1>2 DEF HistoryInv, OwnRows
<1>4. Exclusive'
  BY <1>1 DEF HistoryInv, Exclusive
<1> QED
  BY <1>3, <1>4 DEF HistoryInv

LEMMA HistoryStep == TypeInv /\ HistoryInv /\ [Next]_vars => HistoryInv'
<1> SUFFICES ASSUME TypeInv, HistoryInv, [Next]_vars, UNCHANGED retention
             PROVE  HistoryInv'
  BY DEF Next, vars
<1>1. pc \in [Writers -> Label]
  BY DEF TypeOK
<1>2. ASSUME NEW p \in Writers,
             \/ Begin(p) \/ Backfill(p) \/ GetLatest(p) \/ GetNextVersion(p)
             \/ Produce(p) \/ SendLost(p)
      PROVE  HistoryInv'
  <2>1. /\ pc[p] \notin Holding
        /\ \A q \in Writers \ {p} : pc'[q] = pc[q]
        /\ UNCHANGED <<table, dirty, now>>
    BY <1>1, <1>2 DEF Begin, Backfill, GetLatest, GetNextVersion, Produce, SendLost,
                      Goto, Holding
  <2> QED
    BY <2>1, QuietHistory
<1>3. ASSUME NEW p \in Writers, SaveOld(p) \/ SaveLatest(p) \/ ApplyRetention(p)
      PROVE  HistoryInv'
  BY <1>3, SaveOldHistory, SaveLatestHistory, ApplyRetentionHistory
<1>4. ASSUME NEW p \in Writers, Commit(p) \/ CommitAckLost(p) PROVE HistoryInv'
  <2>1. CASE Commit(p)
    BY <1>1, <2>1, PublishHistory DEF Commit, Goto
  <2>2. CASE CommitAckLost(p)
    BY <2>2, RetryEffect, PublishHistory DEF CommitAckLost
  <2> QED
    BY <1>4, <2>1, <2>2
<1>5. ASSUME NEW p \in Writers, CommitFails(p) PROVE HistoryInv'
  BY <1>5, RetryHistory DEF CommitFails
<1>6. CASE Crash
  BY <1>6, NoWritesDomain DEF Crash, HistoryInv, OwnRows, Exclusive
<1>7. CASE Tick
  BY <1>7, TickHistory
<1>8. CASE Wait \/ UNCHANGED vars
  BY <1>8 DEF Wait, vars, HistoryInv, OwnRows, Exclusive, Expired
<1> QED
  BY <1>2, <1>3, <1>4, <1>5, <1>6, <1>7, <1>8 DEF Next, Step

LEMMA HistoryInvariant == Spec => [](TypeInv /\ HistoryInv)
BY TypeInvariant, InitHistory, HistoryStep, PTL DEF Spec

-----------------------------------------------------------------------------
(* A step that is not a commit leaves every row alone.                     *)
LEMMA RowsKept ==
    ASSUME TypeInv, HistoryInv, [Next]_vars, NEW v \in Versions \ {0}
    PROVE  /\ v \in Versions' => table'[v] = table[v]
           /\ v \notin Versions' => Expired(v)
<1>1. ASSUME NEW p \in Writers, Publish(p)
      PROVE  /\ v \in Versions' => table'[v] = table[v]
             /\ v \notin Versions' => Expired(v)
  BY <1>1, PublishKeeps
<1>2. UNCHANGED table \/ \E p \in Writers : Publish(p)
  BY DEF Next, Step, Begin, Backfill, GetLatest, GetNextVersion, SaveOld, SaveLatest,
         ApplyRetention, Commit, Produce, CommitFails, CommitAckLost, SendLost, Crash,
         Tick, Wait, vars
<1> QED
  BY <1>1, <1>2

(* Whatever the retention policy, the interleaving and the faults, a       *)
(* committed version other than 0 is never rewritten, and without a        *)
(* retention limit it is never removed.                                    *)
THEOREM ImmutableHistory == Spec => HistoryIsImmutable
<1>1. TypeInv /\ HistoryInv /\ [Next]_vars =>
        [\A v \in Versions \ {LATEST_VERSION} :
            /\ retention = "indefinite" => v \in Versions'
            /\ v \in Versions' => table'[v] = table[v]]_vars
  BY RowsKept DEF Expired
<1> QED
  BY <1>1, HistoryInvariant, PTL DEF Spec, HistoryIsImmutable

(* Time-based retention removes an archived row only when it is older than *)
(* the limit, whichever writers' transactions purge at the same time.      *)
THEOREM FreshRowsStay == Spec => FreshHistorySurvives
<1>1. TypeInv /\ HistoryInv /\ [Next]_vars =>
        [retention = "time" =>
            \A v \in Versions \ Versions' :
                v = LATEST_VERSION \/ table[v].time < now - Limit]_vars
  BY RowsKept DEF Expired
<1> QED
  BY <1>1, HistoryInvariant, PTL DEF Spec, FreshHistorySurvives

-----------------------------------------------------------------------------
(***************************************************************************)
(* What readers and the audit topic see: version 0 and the events agree    *)
(* with the changes committed, for any writers, policies and faults.       *)
(*                                                                         *)
(* The argument: a transaction that changes anything carries version 0     *)
(* with it, either its new value or, under time-based retention, its       *)
(* deletion; so the row a reader finds is that of the last commit.  A      *)
(* writer announces its own commit, or the row it has read, which is then  *)
(* the last commit's.                                                      *)
(***************************************************************************)

(* What p would commit makes version 0 its new value, or removes it.       *)
Ready(p) ==
    /\ DOMAIN dirty[p] = {} => dirty[p] = NoWrites
    /\ pc[p] = "applyRetention" => 0 \in DOMAIN dirty[p] /\ dirty[p][0] # Deleted
    /\ pc[p] \in {"applyRetention", "commit"} /\ DOMAIN dirty[p] # {} =>
         /\ 0 \in DOMAIN dirty[p]
         /\ dirty[p][0] = Deleted => retention = "time"
         /\ dirty[p][0] # Deleted => dirty[p][0].value = call[p].new

(* What p is about to announce has been committed.                         *)
Known(p) ==
    pc[p] = "produce" \/ (pc[p] = "commit" /\ DOMAIN dirty[p] = {}) =>
        /\ call[p].rank \in DOMAIN commits
        /\ commits[call[p].rank].new = call[p].new

(* createIfAbsent goes on to write only where it has read nothing.         *)
Absent(p) ==
    /\ \/ pc[p] \in {"getNextVersion", "saveOld", "saveLatest", "applyRetention"}
       \/ DOMAIN dirty[p] # {}
    /\ call[p].lambda.kind = "ifAbsent"
    => call[p].old = NoRow

(* Without faults a change not yet announced has its writer to do it.      *)
Announced ==
    used.faults = 0 =>
        \A r \in DOMAIN commits :
            \/ \E i \in DOMAIN topic : topic[i].rank = r
            \/ \E p \in Writers : pc[p] = "produce" /\ call[p].rank = r

WriterTells(p) == Ready(p) /\ Known(p) /\ Absent(p)

TellInv ==
    /\ LatestIsLastChange /\ IfAbsentNeverOverwrites
    /\ AuditOnlyCommitted /\ Announced
    /\ \A p \in Writers : WriterTells(p)

LEMMA InitTell == Init => TellInv
BY NoWritesDomain
   DEF Init, TellInv, LatestIsLastChange, IfAbsentNeverOverwrites, AuditOnlyCommitted,
       Announced, WriterTells, Ready, Known, Absent

-----------------------------------------------------------------------------
(* Building blocks.                                                        *)

(* The step of a writer leaves the others' transactions alone.             *)
LEMMA OthersUntouched ==
    ASSUME TypeInv, NEW p \in Writers,
           \/ Begin(p) \/ Backfill(p) \/ Step(p)
           \/ CommitFails(p) \/ CommitAckLost(p) \/ SendLost(p),
           NEW q \in Writers \ {p}
    PROVE  dirty'[q] = dirty[q] /\ pc'[q] = pc[q] /\ call'[q] = call[q]
<1> USE DEF TypeOK, Goto
<1>1. ASSUME Retry(p) PROVE dirty'[q] = dirty[q] /\ pc'[q] = pc[q] /\ call'[q] = call[q]
  BY <1>1 DEF Retry
<1>2. ASSUME NEW v, NEW row, NEW label, Insert(p, v, row, label) \/ Update(p, v, row, label)
      PROVE dirty'[q] = dirty[q] /\ pc'[q] = pc[q] /\ call'[q] = call[q]
  BY <1>1, <1>2 DEF Insert, Update, Write
<1>3. CASE Begin(p) \/ Backfill(p) \/ SendLost(p)
  BY <1>3 DEF Begin, Backfill, SendLost
<1>4. CASE GetLatest(p) \/ GetNextVersion(p) \/ ApplyRetention(p) \/ Commit(p) \/ Produce(p)
  BY <1>4 DEF GetLatest, GetNextVersion, ApplyRetention, Commit, Produce
<1>5. CASE SaveOld(p) \/ SaveLatest(p)
  BY <1>2, <1>5 DEF SaveOld, SaveLatest
<1>6. CASE CommitFails(p) \/ CommitAckLost(p)
  BY <1>1, <1>6 DEF CommitFails, CommitAckLost
<1> QED
  BY <1>3, <1>4, <1>5, <1>6 DEF Step

(* A writer whose transaction is left alone keeps its promise while the    *)
(* list of changes only grows.                                             *)
LEMMA OtherTells ==
    ASSUME TypeInv, TellInv, NEW q \in Writers,
           dirty'[q] = dirty[q], pc'[q] = pc[q], call'[q] = call[q],
           \A r \in DOMAIN commits : r \in DOMAIN commits' /\ commits'[r] = commits[r],
           UNCHANGED retention
    PROVE  WriterTells(q)'
BY DEF TellInv, WriterTells, Ready, Known, Absent

(* What a commit does to the list of changes.                              *)
LEMMA CommitsGrow ==
    ASSUME TypeInv, NEW p \in Writers, Publish(p)
    PROVE  /\ \A r \in DOMAIN commits : r \in DOMAIN commits' /\ commits'[r] = commits[r]
           /\ dirty[p] = NoWrites => commits' = commits
           /\ dirty[p] # NoWrites =>
                /\ Len(commits) \in Nat /\ DOMAIN commits = 1 .. Len(commits)
                /\ Len(commits') = Len(commits) + 1
                /\ DOMAIN commits' = 1 .. Len(commits) + 1
                /\ commits'[Len(commits) + 1].new = call[p].new
                /\ commits'[Len(commits) + 1].kind = call[p].lambda.kind
<1> DEFINE change == [id |-> call[p].id, kind |-> call[p].lambda.kind,
                      old |-> call[p].old.value, new |-> call[p].new,
                      version |-> LargestVersion(p)]
<1>1. commits' = IF dirty[p] = NoWrites THEN commits ELSE Append(commits, change)
  BY DEF Publish
<1>2. change.new = call[p].new /\ change.kind = call[p].lambda.kind
  OBVIOUS
<1> HIDE DEF change
<1>3. commits \in Seq(Change)
  BY DEF TypeOK
<1> QED
  BY <1>1, <1>2, <1>3

(* The row a reader finds belongs to a change, and holds its value.        *)
LEMMA LatestIsCommitted ==
    ASSUME TypeInv, TellInv, Latest # NoRow
    PROVE  /\ Len(commits) \in DOMAIN commits
           /\ commits[Len(commits)].new = Latest.value
<1>1. 0 \in Versions /\ Latest = table[0]
  BY DEF Latest
<1>2. commits \in Seq(Change) /\ Len(commits) \in Nat
  BY DEF TypeOK
<1>3. 0 < Len(commits)
  BY <1>1 DEF BelowChanges
<1>4. commits # <<>>
  BY <1>2, <1>3
<1> QED
  BY <1>1, <1>2, <1>3, <1>4 DEF TellInv, LatestIsLastChange

(* The latest row after a commit.                                          *)
LEMMA PublishLatest ==
    ASSUME TypeInv, TellInv, NEW p \in Writers, pc[p] = "commit", Publish(p),
           UNCHANGED retention
    PROVE  LatestIsLastChange'
<1>1. table' = Rows(p)
  BY DEF Publish
<1>2. CASE dirty[p] = NoWrites
  <2>1. 0 \in Versions <=> 0 \in Versions'
    BY <1>1, <1>2, NoWritesDomain DEF Rows
  <2>2. 0 \in Versions' => table'[0] = table[0]
    BY <1>1, <1>2, NoWritesDomain DEF Rows
  <2>3. commits' = commits
    BY <1>2, CommitsGrow
  <2> QED
    BY <2>1, <2>2, <2>3 DEF TellInv, LatestIsLastChange
<1>3. CASE dirty[p] # NoWrites
  <2>1. Ready(p) /\ DOMAIN dirty[p] # {}
    BY <1>3 DEF TellInv, WriterTells, Ready
  <2>2. 0 \in DOMAIN dirty[p]
    BY <2>1 DEF Ready
  <2>3. CASE dirty[p][0] = Deleted
    BY <1>1, <2>1, <2>2, <2>3 DEF Ready, Rows, LatestIsLastChange
  <2>4. CASE dirty[p][0] # Deleted
    <3>1. 0 \in Versions' /\ table'[0] = dirty[p][0]
      BY <1>1, <2>2, <2>4 DEF Rows
    <3>2. table'[0].value = call[p].new
      BY <2>1, <2>4, <3>1 DEF Ready
    <3>3. commits'[Len(commits')].new = call[p].new
      BY <1>3, CommitsGrow
    <3> QED
      BY <3>1, <3>2, <3>3 DEF LatestIsLastChange
  <2> QED
    BY <2>3, <2>4
<1> QED
  BY <1>2, <1>3

(* A change of createIfAbsent is the first.                                *)
LEMMA PublishIfAbsent ==
    ASSUME TypeInv, ChangeInv, TellInv, NEW p \in Writers, Publish(p),
           UNCHANGED retention
    PROVE  IfAbsentNeverOverwrites'
<1> SUFFICES ASSUME retention = "indefinite" PROVE IfAbsentNeverOverwrites'
  BY DEF IfAbsentNeverOverwrites
<1>1. IfAbsentNeverOverwrites
  BY DEF TellInv
<1>2. CASE dirty[p] = NoWrites
  BY <1>1, <1>2, CommitsGrow DEF IfAbsentNeverOverwrites
<1>3. CASE dirty[p] # NoWrites
  <2>1. DOMAIN dirty[p] # {} /\ LargestVersion(p) = Len(commits)
    BY <1>3 DEF ChangeInv, WriterInv
  <2>2. call[p].lambda.kind = "ifAbsent" => Len(commits) = 0
    BY <2>1 DEF TellInv, WriterTells, Absent, LargestVersion
  <2>3. ASSUME NEW i \in DOMAIN commits', commits'[i].kind = "ifAbsent" PROVE i = 1
    <3>1. CASE i \in DOMAIN commits
      BY <1>1, <2>3, <3>1, CommitsGrow DEF IfAbsentNeverOverwrites
    <3>2. CASE i = Len(commits) + 1
      BY <1>3, <2>2, <2>3, <3>2, CommitsGrow
    <3> QED
      BY <1>3, <2>3, <3>1, <3>2, CommitsGrow
  <2> QED
    BY <2>3 DEF IfAbsentNeverOverwrites
<1> QED
  BY <1>2, <1>3

-----------------------------------------------------------------------------
(* The writer that takes the step.                                         *)

(* After a rollback it has nothing to write, nor to announce.              *)
LEMMA RetryTells ==
    ASSUME TypeInv, NEW p \in Writers, Retry(p)
    PROVE  WriterTells(p)'
<1>1. dirty'[p] = NoWrites /\ pc'[p] \in {"getLatest", "idle"}
  BY RetryEffect DEF TypeOK
<1> QED
  BY <1>1, NoWritesDomain DEF WriterTells, Ready, Known, Absent

LEMMA BeginTells ==
    ASSUME TypeInv, HistoryInv, TellInv, NEW p \in Writers, Begin(p)
    PROVE  WriterTells(p)'
<1>1. pc[p] = "idle" /\ pc'[p] = "getLatest" /\ dirty' = dirty
  BY DEF Begin, Goto, TypeOK
<1>2. DOMAIN dirty[p] = {}
  BY <1>1 DEF HistoryInv, OwnRows, Holding
<1> QED
  BY <1>1, <1>2 DEF TellInv, WriterTells, Ready, Known, Absent

LEMMA BackfillTells ==
    ASSUME TypeInv, HistoryInv, TellInv, NEW p \in Writers, Backfill(p)
    PROVE  WriterTells(p)'
<1>1. /\ pc[p] = "idle" /\ pc'[p] = "produce" /\ dirty' = dirty /\ Latest # NoRow
      /\ commits' = commits
  BY DEF Backfill, Goto, TypeOK
<1>2. DOMAIN dirty[p] = {}
  BY <1>1 DEF HistoryInv, OwnRows, Holding
<1>3. call'[p].new = Latest.value /\ call'[p].rank = Len(commits)
  BY IdleCallType DEF Backfill, TypeOK, Call
<1> QED
  BY <1>1, <1>2, <1>3, LatestIsCommitted DEF TellInv, WriterTells, Ready, Known, Absent

LEMMA GetLatestTells ==
    ASSUME TypeInv, HistoryInv, TellInv, NEW p \in Writers, GetLatest(p)
    PROVE  WriterTells(p)'
<1> DEFINE new == Apply(call[p].lambda, Latest.value)
<1>1. pc[p] = "getLatest" /\ UNCHANGED <<dirty, commits>>
  BY DEF GetLatest
<1>2. DOMAIN dirty[p] = {}
  BY <1>1 DEF HistoryInv, OwnRows, Holding
<1>3. PICK o : call' = [call EXCEPT
         ![p] = [@ EXCEPT !.old = Latest, !.new = new, !.rank = Len(commits), !.outcome = o]]
  BY DEF GetLatest, Call
<1>4. \/ pc'[p] = "idle"
      \/ pc'[p] = "commit" /\ new # Invalid /\ new = Latest.value
      \/ pc'[p] = "getNextVersion" /\ new # Latest.value /\ Latest # NoRow
      \/ pc'[p] = "saveLatest" /\ Latest = NoRow
  BY DEF GetLatest, Goto, TypeOK
<1>5. new = Latest.value => Latest # NoRow
  BY ValueAssumption DEF Apply, NoRow, TypeOK, Call, Lambda
<1>6. call[p].lambda.kind = "ifAbsent" /\ Latest # NoRow => new = Latest.value
  BY LatestType, ValueAssumption DEF Apply, StoredRow, Valid
<1> HIDE DEF new
<1>7. /\ call'[p].old = Latest /\ call'[p].new = new /\ call'[p].rank = Len(commits)
      /\ call'[p].lambda = call[p].lambda
  BY <1>3 DEF TypeOK, Call
<1>8. Ready(p)'
  BY <1>1, <1>2, <1>4 DEF TellInv, WriterTells, Ready
<1>9. Known(p)'
  BY <1>1, <1>4, <1>5, <1>7, LatestIsCommitted DEF Known
<1>10. Absent(p)'
  BY <1>1, <1>2, <1>4, <1>6, <1>7 DEF Absent
<1> QED
  BY <1>8, <1>9, <1>10 DEF WriterTells

LEMMA GetNextVersionTells ==
    ASSUME TypeInv, HistoryInv, TellInv, NEW p \in Writers, GetNextVersion(p)
    PROVE  WriterTells(p)'
<1>1. /\ pc[p] = "getNextVersion" /\ pc'[p] = "saveOld" /\ UNCHANGED <<dirty, commits>>
      /\ call'[p].old = call[p].old /\ call'[p].lambda = call[p].lambda
  BY DEF GetNextVersion, Goto, TypeOK, Call
<1> QED
  BY <1>1 DEF TellInv, WriterTells, Ready, Known, Absent

LEMMA SaveOldTells ==
    ASSUME TypeInv, HistoryInv, TellInv, NEW p \in Writers, SaveOld(p)
    PROVE  WriterTells(p)'
<1>1. CASE Retry(p)
  BY <1>1, RetryTells
<1>2. CASE /\ Write(p, call[p].next, call[p].old)
           /\ Goto(p, "saveLatest")
           /\ UNCHANGED call
  <2>1. call[p].next \in DOMAIN dirty'[p] /\ pc'[p] = "saveLatest" /\ pc[p] = "saveOld"
    BY <1>2 DEF Write, Goto, TypeOK, SaveOld
  <2> QED
    BY <1>2, <2>1 DEF TellInv, WriterTells, Ready, Known, Absent
<1> QED
  BY <1>1, <1>2 DEF SaveOld, Insert

LEMMA SaveLatestTells ==
    ASSUME TypeInv, HistoryInv, TellInv, NEW p \in Writers, SaveLatest(p)
    PROVE  WriterTells(p)'
<1> DEFINE row == [value |-> call[p].new, time |-> call[p].stamp]
<1>1. row.value = call[p].new /\ row \in StoredRow
  BY DEF SaveLatest, TypeOK, ReadOK, Busy, Call, StoredRow
<1>2. pc[p] = "saveLatest"
  BY DEF SaveLatest
<1>3. \/ Retry(p)
      \/ Write(p, 0, row) /\ Goto(p, "applyRetention") /\ UNCHANGED call
      \/ dirty' = [dirty EXCEPT ![p] = NoWrites] /\ Goto(p, "idle")
  BY DEF SaveLatest, Insert, Update
<1> HIDE DEF row
<1>4. CASE Retry(p)
  BY <1>4, RetryTells
<1>5. CASE Write(p, 0, row) /\ Goto(p, "applyRetention") /\ UNCHANGED call
  <2>1. 0 \in DOMAIN dirty'[p] /\ dirty'[p][0] = row /\ pc'[p] = "applyRetention"
    BY <1>5 DEF Write, Goto, TypeOK
  <2>2. row # Deleted
    BY <1>1, ValueAssumption DEF StoredRow, Valid
  <2> QED
    BY <1>1, <1>2, <1>5, <2>1, <2>2 DEF TellInv, WriterTells, Ready, Known, Absent
<1>6. CASE dirty' = [dirty EXCEPT ![p] = NoWrites] /\ Goto(p, "idle")
  BY <1>6, NoWritesDomain DEF WriterTells, Ready, Known, Absent, Goto, TypeOK
<1> QED
  BY <1>3, <1>4, <1>5, <1>6

LEMMA ApplyRetentionTells ==
    ASSUME TypeInv, HistoryInv, TellInv, NEW p \in Writers, ApplyRetention(p),
           UNCHANGED retention
    PROVE  WriterTells(p)'
<1> DEFINE gone == Purged(p)
<1>1. 0 \in gone => retention = "time"
  BY DEF Purged
<1> HIDE DEF gone
<1>2. /\ pc[p] = "applyRetention" /\ pc'[p] = "commit" /\ call' = call
      /\ DOMAIN dirty'[p] = DOMAIN dirty[p] \cup gone
      /\ \A v \in DOMAIN dirty'[p] :
            dirty'[p][v] = IF v \in gone THEN Deleted ELSE dirty[p][v]
  BY DEF ApplyRetention, Goto, TypeOK, gone
<1>3. Ready(p) /\ Absent(p)
  BY DEF TellInv, WriterTells
<1>4. Ready(p)'
  BY <1>1, <1>2, <1>3 DEF Ready
<1>5. Known(p)' /\ Absent(p)'
  BY <1>2, <1>3 DEF Ready, Known, Absent
<1> QED
  BY <1>4, <1>5 DEF WriterTells

LEMMA CommitTells ==
    ASSUME TypeInv, HistoryInv, TellInv, NEW p \in Writers, Commit(p)
    PROVE  WriterTells(p)'
<1>1. /\ pc[p] = "commit" /\ Publish(p) /\ pc'[p] = "produce" /\ dirty'[p] = NoWrites
  BY DEF Commit, Goto, TypeOK
<1>2. /\ call'[p].new = call[p].new
      /\ call'[p].rank = IF dirty[p] = NoWrites THEN call[p].rank ELSE Len(commits) + 1
  BY DEF Commit, TypeOK, Call
<1>3. Known(p)'
  <2>1. CASE dirty[p] = NoWrites
    BY <1>1, <1>2, <2>1, CommitsGrow, NoWritesDomain DEF TellInv, WriterTells, Known
  <2>2. CASE dirty[p] # NoWrites
    BY <1>1, <1>2, <2>2, CommitsGrow DEF Known
  <2> QED
    BY <2>1, <2>2
<1> QED
  BY <1>1, <1>3, NoWritesDomain DEF WriterTells, Ready, Absent

(* The end of a request.                                                   *)
LEMMA EndTells ==
    ASSUME TypeInv, HistoryInv, TellInv, NEW p \in Writers, Produce(p) \/ SendLost(p)
    PROVE  WriterTells(p)'
<1>1. pc[p] = "produce" /\ pc'[p] = "idle" /\ dirty' = dirty
  BY DEF Produce, SendLost, Goto, TypeOK
<1>2. DOMAIN dirty[p] = {}
  BY <1>1 DEF HistoryInv, OwnRows, Holding
<1> QED
  BY <1>1, <1>2 DEF TellInv, WriterTells, Ready, Known, Absent

LEMMA OwnStepTells ==
    ASSUME TypeInv, HistoryInv, TellInv, NEW p \in Writers, UNCHANGED retention,
           \/ Begin(p) \/ Backfill(p) \/ Step(p)
           \/ CommitFails(p) \/ CommitAckLost(p) \/ SendLost(p)
    PROVE  WriterTells(p)'
BY BeginTells, BackfillTells, GetLatestTells, GetNextVersionTells, SaveOldTells,
   SaveLatestTells, ApplyRetentionTells, CommitTells, EndTells, RetryTells
   DEF Step, CommitFails, CommitAckLost

-----------------------------------------------------------------------------
(* What all writers share.                                                 *)

LEMMA ChangesKept ==
    ASSUME TypeInv, [Next]_vars, NEW r \in DOMAIN commits
    PROVE  r \in DOMAIN commits' /\ commits'[r] = commits[r]
<1>1. ASSUME NEW p \in Writers, Publish(p)
      PROVE  r \in DOMAIN commits' /\ commits'[r] = commits[r]
  BY <1>1, CommitsGrow
<1>2. UNCHANGED commits \/ \E p \in Writers : Publish(p)
  BY DEF Next, Step, Begin, Backfill, GetLatest, GetNextVersion, SaveOld, SaveLatest,
         ApplyRetention, Commit, Produce, CommitFails, CommitAckLost, SendLost, Crash,
         Tick, Wait, vars
<1> QED
  BY <1>1, <1>2

LEMMA LatestStep ==
    ASSUME TypeInv, ChangeInv, TellInv, [Next]_vars, UNCHANGED retention
    PROVE  LatestIsLastChange' /\ IfAbsentNeverOverwrites'
<1>1. ASSUME NEW p \in Writers, pc[p] = "commit", Publish(p)
      PROVE  LatestIsLastChange' /\ IfAbsentNeverOverwrites'
  BY <1>1, PublishLatest, PublishIfAbsent
<1>2. CASE UNCHANGED <<table, commits>>
  BY <1>2 DEF TellInv, LatestIsLastChange, IfAbsentNeverOverwrites
<1>3. UNCHANGED <<table, commits>> \/ \E p \in Writers : pc[p] = "commit" /\ Publish(p)
  BY DEF Next, Step, Begin, Backfill, GetLatest, GetNextVersion, SaveOld, SaveLatest,
         ApplyRetention, Commit, Produce, CommitFails, CommitAckLost, SendLost, Crash,
         Tick, Wait, vars
<1> QED
  BY <1>1, <1>2, <1>3

(* Each event tells a committed change.                                    *)
LEMMA EventsStep ==
    ASSUME TypeInv, TellInv, [Next]_vars
    PROVE  AuditOnlyCommitted'
<1>1. ASSUME NEW p \in Writers, Produce(p) PROVE AuditOnlyCommitted'
  <2> DEFINE event == [old |-> call[p].old.value, new |-> call[p].new, rank |-> call[p].rank]
  <2>1. topic' = Append(topic, event) /\ commits' = commits /\ pc[p] = "produce"
    BY <1>1 DEF Produce
  <2>2. event.rank \in DOMAIN commits /\ event.new = commits[event.rank].new
    BY <2>1 DEF TellInv, WriterTells, Known
  <2> HIDE DEF event
  <2>3. topic \in Seq(Event)
    BY DEF TypeOK
  <2>4. ASSUME NEW i \in DOMAIN topic'
        PROVE  topic'[i] = event \/ (i \in DOMAIN topic /\ topic'[i] = topic[i])
    BY <2>1, <2>3, <2>4
  <2> QED
    BY <2>1, <2>2, <2>4 DEF TellInv, AuditOnlyCommitted
<1>2. CASE UNCHANGED topic
  BY <1>2, ChangesKept DEF TellInv, AuditOnlyCommitted
<1>3. UNCHANGED topic \/ \E p \in Writers : Produce(p)
  BY DEF Next, Step, Begin, Backfill, GetLatest, GetNextVersion, SaveOld, SaveLatest,
         ApplyRetention, Commit, Produce, CommitFails, CommitAckLost, SendLost, Crash,
         Tick, Wait, vars
<1> QED
  BY <1>1, <1>2, <1>3

(* Each change is announced or about to be.                                *)
LEMMA AnnouncedStep ==
    ASSUME TypeInv, TellInv, NEW p \in Writers, used.faults = 0, Step(p), UNCHANGED used
    PROVE  Announced'
<1>0. Announced /\ topic \in Seq(Event)
  BY DEF TellInv, TypeOK
<1>1. CASE Commit(p)
  <2>1. /\ pc[p] = "commit" /\ Publish(p) /\ pc'[p] = "produce" /\ topic' = topic
    BY <1>1 DEF Commit, Goto, TypeOK
  <2>2. dirty[p] # NoWrites => call'[p].rank = Len(commits) + 1
    BY <1>1 DEF Commit, TypeOK, Call
  <2>3. \A q \in Writers : pc[q] = "produce" => pc'[q] = "produce" /\ call'[q] = call[q]
    BY <1>1, <2>1, OthersUntouched
  <2>4. ASSUME NEW r \in DOMAIN commits', r \notin DOMAIN commits
        PROVE  call'[p].rank = r
    BY <2>1, <2>2, <2>4, CommitsGrow
  <2> QED
    BY <1>0, <2>1, <2>3, <2>4 DEF Announced
<1>2. CASE Produce(p)
  <2> DEFINE event == [old |-> call[p].old.value, new |-> call[p].new, rank |-> call[p].rank]
  <2>1. topic' = Append(topic, event) /\ commits' = commits /\ event.rank = call[p].rank
    BY <1>2 DEF Produce
  <2> HIDE DEF event
  <2>2. /\ \A i \in DOMAIN topic : i \in DOMAIN topic' /\ topic'[i] = topic[i]
        /\ \E i \in DOMAIN topic' : topic'[i] = event
    <3>1. Len(topic) + 1 \in DOMAIN topic' /\ topic'[Len(topic) + 1] = event
      BY <1>0, <2>1
    <3> QED
      BY <1>0, <2>1, <3>1
  <2>3. \A q \in Writers \ {p} : pc'[q] = pc[q] /\ call'[q] = call[q]
    BY OthersUntouched
  <2>4. ASSUME NEW r \in DOMAIN commits
        PROVE  \/ \E i \in DOMAIN topic' : topic'[i].rank = r
               \/ \E q \in Writers : pc'[q] = "produce" /\ call'[q].rank = r
    <3>1. CASE \E i \in DOMAIN topic : topic[i].rank = r
      BY <2>2, <3>1
    <3>2. CASE \E q \in Writers : pc[q] = "produce" /\ call[q].rank = r
      BY <2>1, <2>2, <2>3, <3>2
    <3> QED
      BY <1>0, <3>1, <3>2 DEF Announced
  <2> QED
    BY <2>1, <2>4 DEF Announced
<1>3. CASE ~ Commit(p) /\ ~ Produce(p)
  <2>1. UNCHANGED <<commits, topic>> /\ pc[p] # "produce"
    BY <1>3 DEF Step, GetLatest, GetNextVersion, SaveOld, SaveLatest, ApplyRetention
  <2>2. \A q \in Writers : pc[q] = "produce" => pc'[q] = "produce" /\ call'[q] = call[q]
    BY <2>1, OthersUntouched
  <2> QED
    BY <1>0, <2>1, <2>2 DEF Announced
<1> QED
  BY <1>1, <1>2, <1>3

LEMMA AnnouncedNext ==
    ASSUME TypeInv, TellInv, [Next]_vars
    PROVE  Announced'
<1>0. used.faults \in Nat /\ Announced
  BY DEF TypeOK, TellInv
<1>1. ASSUME NEW p \in Writers, Step(p) PROVE Announced'
  <2>1. UNCHANGED used
    BY <1>1 DEF Step, GetLatest, GetNextVersion, SaveOld, SaveLatest, ApplyRetention,
                Commit, Produce
  <2> QED
    BY <1>1, <2>1, AnnouncedStep DEF Announced
<1>2. ASSUME NEW p \in Writers, Begin(p) \/ Backfill(p) PROVE Announced'
  <2>1. /\ UNCHANGED <<commits, topic>> /\ pc[p] # "produce"
        /\ used'.faults = used.faults
    BY <1>2 DEF Begin, Backfill, TypeOK
  <2>2. \A q \in Writers : pc[q] = "produce" => pc'[q] = "produce" /\ call'[q] = call[q]
    BY <1>2, <2>1, OthersUntouched
  <2> QED
    BY <1>0, <2>1, <2>2 DEF Announced
<1>3. CASE \E f : Inject(f)
  <2>1. used'.faults = used.faults + 1
    BY <1>3 DEF Inject, TypeOK
  <2> QED
    BY <1>0, <2>1 DEF Announced
<1>4. CASE UNCHANGED <<commits, topic, pc, call, used>>
  BY <1>0, <1>4 DEF Announced
<1>5. \/ \E p \in Writers : Step(p) \/ Begin(p) \/ Backfill(p)
      \/ \E f : Inject(f)
      \/ UNCHANGED <<commits, topic, pc, call, used>>
  BY DEF Next, CommitFails, CommitAckLost, SendLost, Crash, Tick, Wait, vars
<1> QED
  BY <1>1, <1>2, <1>3, <1>4, <1>5

LEMMA WritersStep ==
    ASSUME TypeInv, HistoryInv, TellInv, [Next]_vars, UNCHANGED retention, NEW q \in Writers
    PROVE  WriterTells(q)'
<1>1. \A r \in DOMAIN commits : r \in DOMAIN commits' /\ commits'[r] = commits[r]
  BY ChangesKept
<1>2. ASSUME NEW p \in Writers,
             \/ Begin(p) \/ Backfill(p) \/ Step(p)
             \/ CommitFails(p) \/ CommitAckLost(p) \/ SendLost(p)
      PROVE  WriterTells(q)'
  <2>1. CASE q = p
    BY <1>2, <2>1, OwnStepTells
  <2>2. CASE q # p
    <3>1. dirty'[q] = dirty[q] /\ pc'[q] = pc[q] /\ call'[q] = call[q]
      BY <1>2, <2>2, OthersUntouched
    <3> QED
      BY <1>1, <3>1, OtherTells
  <2> QED
    BY <2>1, <2>2
<1>3. CASE Crash
  BY <1>3, NoWritesDomain DEF Crash, WriterTells, Ready, Known, Absent
<1>4. CASE Tick \/ Wait \/ UNCHANGED vars
  <2>1. dirty'[q] = dirty[q] /\ pc'[q] = pc[q] /\ call'[q] = call[q]
    BY <1>4 DEF Tick, Wait, vars
  <2> QED
    BY <1>1, <2>1, OtherTells
<1> QED
  BY <1>2, <1>3, <1>4 DEF Next

LEMMA TellStep == TypeInv /\ HistoryInv /\ ChangeInv /\ TellInv /\ [Next]_vars => TellInv'
<1> SUFFICES ASSUME TypeInv, HistoryInv, ChangeInv, TellInv, [Next]_vars,
                    UNCHANGED retention
             PROVE  TellInv'
  BY DEF Next, vars
<1> QED
  BY LatestStep, EventsStep, AnnouncedNext, WritersStep DEF TellInv

LEMMA TellInvariant == Spec => []TellInv
<1>1. Spec => []ChangeInv
  BY TypeInvariant, InitChange, ChangeStep, PTL DEF Spec
<1> QED
  BY <1>1, HistoryInvariant, InitTell, TellStep, PTL DEF Spec

-----------------------------------------------------------------------------
(* For any writers, policies and faults a reader finds the value of the    *)
(* change that committed last, and createIfAbsent never overwrites.        *)
THEOREM LatestRight == Spec => []LatestIsRight
<1>1. TellInv => LatestIsRight
  BY DEF TellInv, LatestIsRight
<1> QED
  BY <1>1, TellInvariant, PTL

(* Every audit event tells a committed change, and where no fault loses it *)
(* every change has its event once its writer is done.                     *)
THEOREM EventsTell == Spec => []EventsTellCommits
<1>1. TellInv => EventsTellCommits
  BY DEF TellInv, EventsTellCommits, EveryChangeAudited, Announced, Quiescent
<1> QED
  BY <1>1, TellInvariant, PTL

-----------------------------------------------------------------------------
(***************************************************************************)
(* AspectStore.  What a transaction archives is the row it has read, which *)
(* was the latest at the time, and version 0 is the only row it writes     *)
(* over.  When no two requests overlap nobody commits between its read and *)
(* its own commit, so that row is still the latest one, and the numbers it *)
(* computes are those of the window that the policy keeps.                 *)
(***************************************************************************)

Shown(x) == \E i \in DOMAIN commits : commits[i].new = x

(* What p archives it has read, and it goes for version 0 only.            *)
Archives(p) ==
    retention # "time" =>
        /\ \A v \in DOMAIN dirty[p] \ {0} :
             dirty[p][v] # Deleted => call[p].old # NoRow /\ dirty[p][v] = call[p].old
        /\ call[p].old # NoRow => 0 \in Versions /\ Shown(call[p].old.value)
        /\ call[p].old = NoRow => DOMAIN dirty[p] \subseteq {0}
        /\ call[p].old = NoRow /\ 0 \in DOMAIN dirty[p] => 0 \notin Versions

ArchiveInv == \A p \in Writers : Archives(p)

(* What other theorems have shown.                                         *)
DAOInv == TypeInv /\ ChangeInv /\ HistoryInv /\ TellInv

LEMMA DAOInvariant == Spec => []DAOInv
<1>1. Spec => []ChangeInv
  BY TypeInvariant, InitChange, ChangeStep, PTL DEF Spec
<1> QED
  BY <1>1, HistoryInvariant, TellInvariant, PTL DEF DAOInv

(* The only steps that touch the table or the list of changes.             *)
LEMMA StepsThatPublish ==
    ASSUME [Next]_vars
    PROVE  \/ UNCHANGED <<table, commits>>
           \/ \E p \in Writers : pc[p] = "commit" /\ Publish(p)
BY DEF Next, Step, Begin, Backfill, GetLatest, GetNextVersion, SaveOld, SaveLatest,
       ApplyRetention, Commit, Produce, CommitFails, CommitAckLost, SendLost, Crash,
       Tick, Wait, vars

(* Only time-based retention ever removes version 0.                       *)
LEMMA ZeroStays ==
    ASSUME DAOInv, [Next]_vars, retention # "time", 0 \in Versions
    PROVE  0 \in Versions'
<1>1. ASSUME NEW p \in Writers, pc[p] = "commit", Publish(p) PROVE 0 \in Versions'
  <2>1. table' = Rows(p) /\ Ready(p)
    BY <1>1 DEF Publish, DAOInv, TellInv, WriterTells
  <2>2. 0 \in DOMAIN dirty[p] => dirty[p][0] # Deleted
    BY <1>1, <2>1 DEF Ready
  <2> QED
    BY <2>1, <2>2 DEF Rows
<1> QED
  BY <1>1, StepsThatPublish

LEMMA ShownStays ==
    ASSUME DAOInv, [Next]_vars, NEW x, Shown(x)
    PROVE  Shown(x)'
BY ChangesKept DEF DAOInv, Shown

(* A writer whose transaction another writer's step leaves alone.          *)
LEMMA OtherArchives ==
    ASSUME DAOInv, ArchiveInv, [Next]_vars, UNCHANGED retention,
           NEW q \in Writers, dirty'[q] = dirty[q], call'[q] = call[q],
           NEW p \in Writers \ {q}, UNCHANGED table \/ Publish(p)
    PROVE  Archives(q)'
<1> SUFFICES ASSUME retention # "time" PROVE Archives(q)'
  BY DEF Archives
<1>1. Archives(q)
  BY DEF ArchiveInv
<1>2. call[q].old # NoRow => 0 \in Versions' /\ Shown(call[q].old.value)'
  <2>1. ASSUME NEW x, Shown(x) PROVE Shown(x)'
    BY <2>1, ShownStays
  <2> QED
    BY <1>1, <2>1, ZeroStays DEF Archives, Shown
<1>3. 0 \in DOMAIN dirty[q] /\ 0 \notin Versions => 0 \notin Versions'
  <2>1. 0 \in DOMAIN dirty[q] => 0 \notin DOMAIN dirty[p]
    BY DEF DAOInv, HistoryInv, Exclusive
  <2> QED
    BY <2>1 DEF Publish, Rows
<1> QED
  BY <1>1, <1>2, <1>3 DEF Archives, Shown

-----------------------------------------------------------------------------
(* The writer that takes the step.                                         *)

(* It has nothing to write and reads no row, or keeps the one it has read. *)
LEMMA EmptyArchives ==
    ASSUME DAOInv, ArchiveInv, [Next]_vars, UNCHANGED retention, NEW p \in Writers,
           DOMAIN dirty'[p] = {}, NEW old \in {NoRow, Latest, call[p].old},
           call'[p].old = old
    PROVE  Archives(p)'
<1> SUFFICES ASSUME retention # "time", old # NoRow
             PROVE  0 \in Versions' /\ \E i \in DOMAIN commits' : commits'[i].new = old.value
  BY DEF Archives, Shown
<1>1. 0 \in Versions /\ \E i \in DOMAIN commits : commits[i].new = old.value
  <2>1. CASE old = Latest
    BY <2>1, LatestIsCommitted DEF Latest, DAOInv
  <2>2. CASE old = call[p].old
    BY <2>2 DEF ArchiveInv, Archives, Shown
  <2> QED
    BY <2>1, <2>2
<1>2. 0 \in Versions'
  BY <1>1, ZeroStays
<1> QED
  BY <1>1, <1>2, ChangesKept DEF DAOInv

LEMMA SaveOldArchives ==
    ASSUME DAOInv, ArchiveInv, UNCHANGED retention, NEW p \in Writers, SaveOld(p), ~ Retry(p)
    PROVE  Archives(p)'
<1>1. /\ Write(p, call[p].next, call[p].old) /\ UNCHANGED <<call, table, commits>>
      /\ pc[p] = "saveOld"
  BY DEF SaveOld, Insert
<1>2. DOMAIN dirty[p] = {} /\ call[p].old # NoRow
  BY <1>1, NoRowType DEF DAOInv, HistoryInv, OwnRows, Holding, ReadOK
<1>3. DOMAIN dirty'[p] = {call[p].next} /\ dirty'[p][call[p].next] = call[p].old
  BY <1>1, <1>2 DEF Write, DAOInv, TypeOK
<1> QED
  BY <1>1, <1>2, <1>3 DEF ArchiveInv, Archives, Shown

LEMMA SaveLatestArchives ==
    ASSUME DAOInv, ArchiveInv, UNCHANGED retention, NEW p \in Writers, SaveLatest(p),
           DOMAIN dirty'[p] # {}
    PROVE  Archives(p)'
<1> DEFINE row == [value |-> call[p].new, time |-> call[p].stamp]
<1>0. Retry(p) \/ dirty' = [dirty EXCEPT ![p] = NoWrites] => DOMAIN dirty'[p] = {}
  BY RetryEffect, NoWritesDomain DEF DAOInv, TypeOK
<1>1. /\ Write(p, 0, row) /\ UNCHANGED <<call, table, commits>>
      /\ call[p].old = NoRow => 0 \notin DOMAIN Rows(p)
  BY <1>0 DEF SaveLatest, Insert, Update
<1> HIDE DEF row
<1>2. /\ DOMAIN dirty'[p] = DOMAIN dirty[p] \cup {0}
      /\ \A v \in DOMAIN dirty[p] \ {0} : dirty'[p][v] = dirty[p][v]
  BY <1>1 DEF Write, DAOInv, TypeOK
<1>3. pc[p] = "saveLatest" /\ \A v \in DOMAIN dirty[p] : dirty[p][v] # Deleted
  BY DEF SaveLatest, DAOInv, HistoryInv, OwnRows
<1>4. call[p].old = NoRow => 0 \notin Versions
  BY <1>1, <1>3 DEF Rows
<1> QED
  BY <1>1, <1>2, <1>4 DEF ArchiveInv, Archives, Shown

(* The first version is never purged.                                      *)
LEMMA ApplyRetentionArchives ==
    ASSUME DAOInv, ArchiveInv, UNCHANGED retention, NEW p \in Writers, ApplyRetention(p)
    PROVE  Archives(p)'
<1> SUFFICES ASSUME retention # "time" PROVE Archives(p)'
  BY DEF Archives
<1> DEFINE gone == Purged(p)
<1>1. /\ 0 \notin gone
      /\ call[p].old = NoRow => gone = {}
  <2>1. 0 \notin gone
    BY DEF Purged
  <2>2. ASSUME call[p].old = NoRow, NEW v \in gone PROVE FALSE
    <3>1. v \in Nat \ {0} /\ v <= 0 - Limit + 1 /\ Limit \in Nat \ {0}
      BY <2>2, RetentionAssumption, RowsType DEF Purged, LargestVersion, DAOInv, TypeOK
    <3> QED
      BY <3>1
  <2> QED
    BY <2>1, <2>2
<1> HIDE DEF gone
<1>2. /\ DOMAIN dirty'[p] = DOMAIN dirty[p] \cup gone
      /\ \A v \in gone : dirty'[p][v] = Deleted
      /\ \A v \in DOMAIN dirty[p] \ gone : dirty'[p][v] = dirty[p][v]
      /\ UNCHANGED <<call, table, commits>>
  BY DEF ApplyRetention, DAOInv, TypeOK, gone
<1> QED
  BY <1>1, <1>2 DEF ArchiveInv, Archives, Shown

LEMMA OwnArchives ==
    ASSUME DAOInv, ArchiveInv, [Next]_vars, UNCHANGED retention, NEW p \in Writers,
           \/ Begin(p) \/ Backfill(p) \/ Step(p)
           \/ CommitFails(p) \/ CommitAckLost(p) \/ SendLost(p)
    PROVE  Archives(p)'
<1> USE DEF DAOInv
<1>0. /\ DOMAIN dirty = Writers /\ call[p] \in Call /\ call \in [Writers -> Call]
      /\ pc \in [Writers -> Label]
      /\ pc[p] \notin Holding => DOMAIN dirty[p] = {}
  BY DEF TypeOK, HistoryInv, OwnRows
<1>1. CASE Begin(p) \/ Backfill(p) \/ GetLatest(p) \/ GetNextVersion(p) \/ Produce(p) \/ SendLost(p)
  <2>1. pc[p] \notin Holding /\ dirty' = dirty
    BY <1>1 DEF Begin, Backfill, GetLatest, GetNextVersion, Produce, SendLost, Holding
  <2>2. call'[p].old \in {NoRow, Latest, call[p].old}
    <3>1. CASE Begin(p) \/ Backfill(p)
      <4>1. IdleCall \in Call /\ IdleCall.old = NoRow
        BY IdleCallType
      <4>2. CASE Begin(p)
        <5>1. PICK f \in Lambdas : call' = [call EXCEPT ![p] =
                 [IdleCall EXCEPT !.id = used.adds + 1, !.lambda = f, !.stamp = now,
                                  !.since = Len(commits)]]
          BY <4>2 DEF Begin
        <5> QED
          BY <1>0, <4>1, <5>1 DEF Call
      <4>3. CASE Backfill(p)
        BY <1>0, <4>1, <4>3 DEF Backfill, Call
      <4> QED
        BY <3>1, <4>2, <4>3
    <3>2. CASE GetLatest(p)
      BY <1>0, <3>2 DEF GetLatest, Call
    <3>3. CASE GetNextVersion(p) \/ Produce(p) \/ SendLost(p)
      BY <1>0, <3>3 DEF GetNextVersion, Produce, SendLost, Call
    <3> QED
      BY <1>1, <3>1, <3>2, <3>3
  <2> QED
    BY <1>0, <2>1, <2>2, EmptyArchives
<1>2. CASE Retry(p)
  BY <1>0, <1>2, RetryEffect, NoWritesDomain, EmptyArchives
<1>3. CASE SaveOld(p) /\ ~ Retry(p)
  BY <1>3, SaveOldArchives
<1>4. CASE SaveLatest(p)
  <2>1. CASE DOMAIN dirty'[p] # {}
    BY <1>4, <2>1, SaveLatestArchives
  <2>2. CASE DOMAIN dirty'[p] = {}
    <3>1. call'[p].old = call[p].old
      <4>1. CASE Retry(p)
        BY <4>1, RetryEffect
      <4>2. CASE ~ Retry(p)
        BY <1>0, <1>4, <4>2 DEF SaveLatest, Insert, Update, Call
      <4> QED
        BY <4>1, <4>2
    <3> QED
      BY <2>2, <3>1, EmptyArchives
  <2> QED
    BY <2>1, <2>2
<1>5. CASE ApplyRetention(p)
  BY <1>5, ApplyRetentionArchives
<1>6. CASE Commit(p)
  <2>1. dirty'[p] = NoWrites /\ call'[p].old = call[p].old
    BY <1>0, <1>6 DEF Commit, Call
  <2> QED
    BY <2>1, NoWritesDomain, EmptyArchives
<1> QED
  BY <1>1, <1>2, <1>3, <1>4, <1>5, <1>6 DEF Step, CommitFails, CommitAckLost

LEMMA ArchiveStep == DAOInv /\ ArchiveInv /\ [Next]_vars => ArchiveInv'
<1> SUFFICES ASSUME DAOInv, ArchiveInv, [Next]_vars, UNCHANGED retention, NEW q \in Writers
             PROVE  Archives(q)'
  BY DEF Next, vars, ArchiveInv
<1>1. ASSUME NEW p \in Writers,
             \/ Begin(p) \/ Backfill(p) \/ Step(p)
             \/ CommitFails(p) \/ CommitAckLost(p) \/ SendLost(p)
      PROVE  Archives(q)'
  <2>1. CASE q = p
    BY <1>1, <2>1, OwnArchives
  <2>2. CASE q # p
    <3>1. dirty'[q] = dirty[q] /\ pc'[q] = pc[q] /\ call'[q] = call[q]
      BY <1>1, <2>2, OthersUntouched DEF DAOInv
    <3>2. UNCHANGED table \/ Publish(p)
      BY <1>1 DEF Step, Begin, Backfill, GetLatest, GetNextVersion, SaveOld, SaveLatest,
             ApplyRetention, Commit, Produce, CommitFails, CommitAckLost, SendLost
    <3> QED
      BY <2>2, <3>1, <3>2, OtherArchives
  <2> QED
    BY <2>1, <2>2
<1>2. CASE Crash
  <2>1. DOMAIN dirty'[q] = {} /\ call'[q].old = NoRow
    BY <1>2, NoWritesDomain, IdleCallType DEF Crash
  <2> QED
    BY <2>1, EmptyArchives
<1>3. CASE Tick \/ Wait \/ UNCHANGED vars
  <2>1. UNCHANGED <<table, dirty, call, commits>>
    BY <1>3 DEF Tick, Wait, vars
  <2> QED
    BY <2>1 DEF ArchiveInv, Archives, Shown
<1> QED
  BY <1>1, <1>2, <1>3 DEF Next

LEMMA InitArchive == Init => ArchiveInv
BY NoWritesDomain, IdleCallType DEF Init, ArchiveInv, Archives

LEMMA ArchiveInvariant == Spec => [](DAOInv /\ ArchiveInv)
BY DAOInvariant, InitArchive, ArchiveStep, PTL DEF Spec

-----------------------------------------------------------------------------
(* What clients see of a commit.                                           *)

(* The rows a transaction leaves.                                          *)
LEMMA PublishRows ==
    ASSUME DAOInv, ArchiveInv, retention # "time",
           NEW p \in Writers, pc[p] = "commit", Publish(p), dirty[p] # NoWrites
    PROVE  /\ 0 \in Versions' /\ table'[0].value = call[p].new
           /\ call[p].old = NoRow => 0 \notin Versions /\ Versions' \ {0} = Versions \ {0}
           /\ call[p].old # NoRow => 0 \in Versions /\ Shown(call[p].old.value)
           /\ \A v \in Versions' \ {0} :
                table'[v] = IF v \in Versions THEN table[v] ELSE call[p].old
<1>1. table' = Rows(p) /\ Ready(p) /\ Archives(p) /\ DOMAIN dirty[p] # {}
  BY DEF Publish, DAOInv, TellInv, WriterTells, Ready, ArchiveInv
<1>2. 0 \in DOMAIN dirty[p] /\ dirty[p][0] # Deleted /\ dirty[p][0].value = call[p].new
  BY <1>1 DEF Ready
<1>3. /\ Versions' = {v \in Versions \cup DOMAIN dirty[p] :
                         v \in DOMAIN dirty[p] => dirty[p][v] # Deleted}
      /\ \A v \in Versions' :
            table'[v] = IF v \in DOMAIN dirty[p] THEN dirty[p][v] ELSE table[v]
  BY <1>1 DEF Rows
<1>4. \A v \in Versions' \ {0} : v \in Versions => table'[v] = table[v]
  BY PublishKeeps DEF DAOInv
<1>5. \A v \in Versions' \ {0} : v \notin Versions => table'[v] = call[p].old
  BY <1>1, <1>3 DEF Archives
<1>6. 0 \in Versions' /\ table'[0].value = call[p].new
  BY <1>2, <1>3
<1>7. call[p].old = NoRow => 0 \notin Versions /\ Versions' \ {0} = Versions \ {0}
  BY <1>1, <1>2, <1>3 DEF Archives
<1>8. call[p].old # NoRow => 0 \in Versions /\ Shown(call[p].old.value)
  BY <1>1 DEF Archives
<1> QED
  BY <1>4, <1>5, <1>6, <1>7, <1>8

(* The history is a sequence when nothing is forgotten.                    *)
LEMMA HistoryAppended ==
    ASSUME NEW n \in Nat \ {0}, NEW h, NEW k, NEW x,
           DOMAIN h = 1 .. n - 1, h = [v \in 1 .. n - 1 |-> h[v]],
           k = [v \in 1 .. n |-> IF v = n THEN x ELSE h[v]]
    PROVE  k = Append(h, x)
<1> DEFINE S == {h[v] : v \in 1 .. n - 1} \cup {x}
           m == n - 1
<1>1. m \in Nat /\ \A v \in 1 .. m : h[v] \in S
  OBVIOUS
<1>2. h \in Seq(S) /\ Len(h) = m
  <2>1. h \in [1 .. m -> S]
    BY <1>1
  <2> HIDE DEF S, m
  <2> QED
    BY <1>1, <2>1
<1>3. k \in Seq(S) /\ Len(k) = n
  <2>1. \A v \in 1 .. n : (IF v = n THEN x ELSE h[v]) \in S
    <3>1. \A v \in 1 .. n : v = n \/ v \in 1 .. m
      OBVIOUS
    <3>2. x \in S
      OBVIOUS
    <3> HIDE DEF S, m
    <3> QED
      BY <1>1, <3>1, <3>2
  <2> HIDE DEF S
  <2>2. k \in [1 .. n -> S]
    BY <2>1
  <2> QED
    BY <2>2
<1>4. x \in S
  OBVIOUS
<1> HIDE DEF S, m
<1>5. Append(h, x) \in Seq(S) /\ Len(Append(h, x)) = m + 1
      /\ \A i \in 1 .. m + 1 : Append(h, x)[i] = IF i = m + 1 THEN x ELSE h[i]
  BY <1>1, <1>2, <1>4
<1>6. m + 1 = n
  BY DEF m
<1>7. \A i \in 1 .. n : Append(h, x)[i] = k[i]
  BY <1>5, <1>6
<1> QED
  BY <1>3, <1>5, <1>6, <1>7, SeqEqual

(* A commit that wrote something, for the clients of the store.            *)
LEMMA PublishShows ==
    ASSUME DAOInv, ArchiveInv, retention # "time", UNCHANGED retention,
           NEW p \in Writers, pc[p] = "commit", Publish(p), dirty[p] # NoWrites
    PROVE  /\ call[p].new \in Values /\ LatestValue' = call[p].new
           /\ Seen' = Seen \cup {call[p].new}
           /\ call[p].old = NoRow => LatestValue = None /\ History' = History
           /\ call[p].old # NoRow =>
                /\ LatestValue # None /\ call[p].old.value \in Seen
                /\ retention = "indefinite" => History' = Append(History, call[p].old.value)
                /\ \A n \in DOMAIN History' :
                     History'[n] = IF n \in DOMAIN History THEN History[n] ELSE call[p].old.value
<1>1. call[p].new \in Values
  BY DEF DAOInv, TypeOK, Call
<1>2. LatestValue' = call[p].new
  BY PublishRows DEF LatestValue, Kept, Latest
<1>3. Seen' = Seen \cup {call[p].new}
  <2>1. /\ Len(commits) \in Nat /\ DOMAIN commits = 1 .. Len(commits)
        /\ DOMAIN commits' = 1 .. Len(commits) + 1
        /\ \A r \in 1 .. Len(commits) : commits'[r] = commits[r]
        /\ commits'[Len(commits) + 1].new = call[p].new
    BY CommitsGrow DEF DAOInv
  <2> QED
    BY <2>1 DEF Seen, Kept
<1>4. /\ History = [v \in Versions \ {0} |-> table[v].value]
      /\ History' = [v \in Versions' \ {0} |-> table'[v].value]
  BY DEF History, Kept
<1>5. CASE call[p].old = NoRow
  <2>1. 0 \notin Versions
    BY <1>5, PublishRows
  <2>2. LatestValue = None
    BY <2>1 DEF LatestValue, Latest, NoRow
  <2>3. Versions' \ {0} = Versions \ {0} /\ \A v \in Versions \ {0} : table'[v] = table[v]
    BY <1>5, PublishRows
  <2>4. History' = History
    BY <1>4, <2>3
  <2> QED
    BY <1>1, <1>2, <1>3, <1>5, <2>2, <2>4
<1>6. CASE call[p].old # NoRow
  <2>1. 0 \in Versions /\ Shown(call[p].old.value)
    BY <1>6, PublishRows
  <2>2. LatestValue # None /\ call[p].old.value \in Seen
    BY <2>1, ValueAssumption DEF LatestValue, Kept, Latest, Seen, Shown, DAOInv, TypeOK,
                                 StoredRow, Valid
  <2>3. \A n \in DOMAIN History' :
           History'[n] = IF n \in DOMAIN History THEN History[n] ELSE call[p].old.value
    BY <1>4, PublishRows
  <2>4. ASSUME retention = "indefinite" PROVE History' = Append(History, call[p].old.value)
    <3> DEFINE n == Len(commits)
               x == call[p].old.value
    <3>1. n \in Nat /\ Len(commits') = n + 1 /\ Versions = 0 .. n - 1
      BY <2>4, CommitsGrow DEF DAOInv, ChangeInv
    <3>2. Versions' = 0 .. n
      <4>1. WriterInv(p) /\ table' = Rows(p)
        BY <2>4 DEF DAOInv, ChangeInv, Publish
      <4>2. DOMAIN dirty[p] \subseteq {0, n} /\ n \in DOMAIN dirty[p]
        BY <4>1 DEF WriterInv
      <4>3. Versions' = Versions \cup DOMAIN dirty[p]
        BY <2>4, <4>1, RowsDomain DEF DAOInv
      <4> QED
        BY <2>1, <3>1, <4>2, <4>3
    <3>3. n # 0
      BY <2>1, <3>1
    <3> HIDE DEF n
    <3>4. Versions \ {0} = 1 .. n - 1 /\ Versions' \ {0} = 1 .. n
      BY <3>1, <3>2
    <3>5. PICK h : h = History
      OBVIOUS
    <3>6. PICK k : k = History'
      OBVIOUS
    <3>7. DOMAIN h = 1 .. n - 1 /\ h = [v \in 1 .. n - 1 |-> h[v]]
      BY <1>4, <3>4, <3>5
    <3>8. k = [v \in 1 .. n |-> k[v]] /\ DOMAIN k = 1 .. n
      BY <1>4, <3>4, <3>6
    <3>9. \A v \in 1 .. n : k[v] = IF v = n THEN x ELSE h[v]
      BY <2>3, <3>1, <3>3, <3>5, <3>6, <3>7, <3>8
    <3> HIDE DEF x
    <3>10. k = [v \in 1 .. n |-> IF v = n THEN x ELSE h[v]]
      BY <3>8, <3>9
    <3>11. k = Append(h, x)
      BY <3>1, <3>3, <3>7, <3>10, HistoryAppended
    <3> QED
      BY <3>5, <3>6, <3>11 DEF x
  <2> QED
    BY <1>1, <1>2, <1>3, <1>6, <2>2, <2>3, <2>4
<1> QED
  BY <1>5, <1>6

(* Any other step shows clients nothing.                                   *)
LEMMA OtherStepsHidden ==
    ASSUME DAOInv, [Next]_vars
    PROVE  /\ UNCHANGED retention
           /\ \/ UNCHANGED <<LatestValue, History, Seen>>
              \/ /\ retention # "time"
                 /\ \E p \in Writers : pc[p] = "commit" /\ Publish(p) /\ dirty[p] # NoWrites
<1>1. UNCHANGED retention
  BY DEF Next, vars
<1>2. CASE UNCHANGED <<table, commits>>
  BY <1>1, <1>2 DEF LatestValue, History, Seen, Kept, Latest
<1>3. ASSUME NEW p \in Writers, Publish(p), dirty[p] = NoWrites
      PROVE  UNCHANGED <<LatestValue, History, Seen>>
  <2>1. Versions' = Versions /\ \A v \in Versions : table'[v] = table[v]
    BY <1>3, NoWritesDomain DEF Publish, Rows
  <2>2. commits' = commits
    BY <1>3 DEF Publish
  <2>3. LatestValue' = LatestValue /\ Seen' = Seen
    BY <1>1, <2>1, <2>2 DEF LatestValue, Seen, Kept, Latest
  <2>4. History' = History
    BY <1>1, <2>1 DEF History, Kept
  <2> QED
    BY <2>3, <2>4
<1>4. CASE retention = "time"
  <2>1. LatestValue' = LatestValue /\ Seen' = Seen
    BY <1>1, <1>4 DEF LatestValue, Seen, Kept
  <2>2. History' = History
    BY <1>1, <1>4 DEF History, Kept
  <2> QED
    BY <1>1, <2>1, <2>2
<1> QED
  BY <1>1, <1>2, <1>3, <1>4, StepsThatPublish

-----------------------------------------------------------------------------
LEMMA InitShows ==
    ASSUME Init
    PROVE  LatestValue = None /\ History = <<>> /\ Seen = {}
<1>1. Versions = {} /\ DOMAIN commits = {}
  BY NoWritesDomain DEF Init
<1>2. LatestValue = None /\ Seen = {}
  BY <1>1 DEF LatestValue, Latest, NoRow, Seen
<1>3. History = [v \in {} |-> table[v].value]
  BY <1>1 DEF History
<1>4. History \in [1 .. 0 -> {}]
  BY <1>3
<1>5. History \in Seq({}) /\ Len(History) = 0
  BY <1>4
<1>6. History = <<>>
  BY <1>5, EmptySeq
<1> QED
  BY <1>2, <1>6

(* However many writers overlap and whatever fails, the history holds only *)
(* values that were once the latest, and no entry of it ever changes: the  *)
(* DAO implements AspectHistory without the serial promise.                *)
THEOREM OnlySeenValues == Spec => KeepsOnlySeenValues
<1>1. Init => Weaker!Init
  BY InitShows DEF Weaker!Init
<1>2. DAOInv /\ ArchiveInv /\ [Next]_vars => [Weaker!Next]_(Weaker!vars)
  <2> SUFFICES ASSUME DAOInv, ArchiveInv, [Next]_vars PROVE [Weaker!Next]_(Weaker!vars)
    OBVIOUS
  <2>1. UNCHANGED retention
    BY OtherStepsHidden
  <2>2. CASE UNCHANGED <<LatestValue, History, Seen>>
    BY <2>1, <2>2 DEF Weaker!vars
  <2>3. ASSUME NEW p \in Writers, retention # "time", pc[p] = "commit", Publish(p),
               dirty[p] # NoWrites
        PROVE  Weaker!Next
    <3> DEFINE v == call[p].new
               old == call[p].old.value
    <3>1. /\ v \in Values /\ LatestValue' = v /\ Seen' = Seen \cup {v}
          /\ call[p].old = NoRow => LatestValue = None /\ History' = History
          /\ call[p].old # NoRow =>
               /\ LatestValue # None /\ old \in Seen
               /\ retention = "indefinite" => History' = Append(History, old)
               /\ \A n \in DOMAIN History' :
                    History'[n] = IF n \in DOMAIN History THEN History[n] ELSE old
      BY <2>1, <2>3, PublishShows
    <3> HIDE DEF v, old
    <3>2. CASE call[p].old = NoRow
      BY <2>1, <3>1, <3>2 DEF Weaker!Next, Weaker!Add, Weaker!First
    <3>3. CASE call[p].old # NoRow
      <4>1. Weaker!Replace(v)
        BY <3>1, <3>3 DEF Weaker!Replace
      <4> QED
        BY <2>1, <3>1, <4>1 DEF Weaker!Next, Weaker!Add
    <3> QED
      BY <3>2, <3>3
  <2> QED
    BY <2>2, <2>3, OtherStepsHidden
<1> QED
  BY <1>1, <1>2, ArchiveInvariant, PTL DEF Spec, Weaker!Spec, KeepsOnlySeenValues

-----------------------------------------------------------------------------
(***************************************************************************)
(* When no two requests overlap.                                           *)
(***************************************************************************)

SingleRunner == serial => \A p, q \in Running : p = q

(* A request that is going to write something works on the latest row.     *)
Writing(p) ==
    \/ pc[p] \in {"getNextVersion", "saveOld", "saveLatest", "applyRetention"}
    \/ DOMAIN dirty[p] # {}
Fresh(p) == Writing(p) => call[p].old = Latest /\ call[p].new # call[p].old.value
FreshInv == serial => \A p \in Writers : Fresh(p)

(* The versions left after n changes, and the number of the next one.      *)
Window(n) == {v \in 0 .. n - 1 : v = 0 \/ v > n - Limit}
NextNumber == IF Limit > 1 THEN Len(commits) ELSE 1

(* The rows a transaction holds at each of its statements, and those it is *)
(* going to leave.                                                         *)
Archived(p) == IF call[p].old = NoRow THEN {} ELSE {call[p].next}
Planned(p) ==
    /\ Writing(p) /\ pc[p] # "getNextVersion" /\ call[p].old # NoRow
         => call[p].next = NextNumber
    /\ pc[p] = "saveLatest" => DOMAIN dirty[p] = Archived(p)
    /\ pc[p] = "applyRetention" =>
         /\ DOMAIN dirty[p] = {0} \cup Archived(p)
         /\ \A v \in DOMAIN dirty[p] : dirty[p][v] # Deleted
    /\ pc[p] = "commit" /\ DOMAIN dirty[p] # {}
         => DOMAIN Rows(p) = Window(Len(commits) + 1)

WindowInv ==
    serial /\ retention = "version" => RetentionWindow /\ \A p \in Writers : Planned(p)

SerialInv == SingleRunner /\ FreshInv /\ WindowInv

Acts(p) ==
    \/ Begin(p) \/ Backfill(p) \/ Step(p)
    \/ CommitFails(p) \/ CommitAckLost(p) \/ SendLost(p)

LEMMA InitSerial == StoreInit => SerialInv
<1> SUFFICES ASSUME StoreInit PROVE SerialInv
  OBVIOUS
<1>1. /\ \A p \in Writers : pc[p] = "idle" /\ DOMAIN dirty[p] = {}
      /\ commits = <<>>
  BY NoWritesDomain DEF StoreInit, Init
<1> QED
  BY <1>1 DEF SerialInv, SingleRunner, Running, FreshInv, Fresh, Writing, WindowInv,
              RetentionWindow, Planned

(* A request that holds no row and is not on its way to one.               *)
LEMMA Quiet ==
    ASSUME NEW p \in Writers, DOMAIN dirty'[p] = {},
           pc'[p] \in {"idle", "getLatest", "produce", "commit"}
    PROVE  Fresh(p)' /\ Planned(p)'
BY DEF Fresh, Writing, Planned

(* What each action but the statements of a change leaves its writer.      *)
LEMMA QuietActions ==
    ASSUME DAOInv, NEW p \in Writers,
           \/ Begin(p) \/ Backfill(p) \/ Commit(p) \/ Produce(p) \/ Retry(p)
           \/ CommitFails(p) \/ CommitAckLost(p) \/ SendLost(p)
    PROVE  Fresh(p)' /\ Planned(p)'
<1>0. /\ DOMAIN dirty = Writers /\ pc \in [Writers -> Label]
      /\ pc[p] \notin Holding => DOMAIN dirty[p] = {}
  BY DEF DAOInv, TypeOK, HistoryInv, OwnRows
<1>1. CASE Begin(p) \/ Backfill(p) \/ Produce(p) \/ SendLost(p)
  <2>1. dirty' = dirty /\ pc[p] \notin Holding
        /\ pc'[p] \in {"idle", "getLatest", "produce"}
    BY <1>0, <1>1 DEF Begin, Backfill, Produce, SendLost, Goto, Holding
  <2> QED
    BY <1>0, <2>1, Quiet
<1>2. CASE Retry(p) \/ Commit(p)
  <2>1. dirty'[p] = NoWrites /\ pc'[p] \in {"idle", "getLatest", "produce"}
    BY <1>0, <1>2, RetryEffect DEF Commit, Goto, DAOInv
  <2> QED
    BY <2>1, NoWritesDomain, Quiet
<1> QED
  BY <1>1, <1>2 DEF CommitFails, CommitAckLost

LEMMA GetLatestSerial ==
    ASSUME DAOInv, NEW p \in Writers, GetLatest(p)
    PROVE  Fresh(p)' /\ Planned(p)'
<1> DEFINE new == Apply(call[p].lambda, Latest.value)
<1>1. pc[p] = "getLatest" /\ UNCHANGED <<dirty, table>>
  BY DEF GetLatest
<1>2. DOMAIN dirty'[p] = {}
  BY <1>1 DEF DAOInv, HistoryInv, OwnRows, Holding
<1>3. \/ pc'[p] = "idle" \/ pc'[p] = "commit"
      \/ pc'[p] = "getNextVersion" /\ new # Latest.value
      \/ pc'[p] = "saveLatest" /\ Latest = NoRow /\ new # Invalid
  BY DEF GetLatest, Goto, DAOInv, TypeOK
<1>4. new \in Values \/ new = Latest.value
  BY ValueAssumption DEF Apply, DAOInv, TypeOK, Call, Lambda
<1>5. Latest = NoRow => new \in Values /\ new # Latest.value
  BY ValueAssumption DEF Apply, NoRow, DAOInv, TypeOK, Call, Lambda
<1> HIDE DEF new
<1>6. call'[p].old = Latest /\ call'[p].new = new
  BY DEF GetLatest, DAOInv, TypeOK, Call, new
<1>7. Latest' = Latest
  BY <1>1 DEF Latest
<1> QED
  BY <1>2, <1>3, <1>5, <1>6, <1>7, Quiet DEF Fresh, Planned, Writing, Archived

-----------------------------------------------------------------------------
(* The statements of a change.                                             *)

(* The number after the largest of a window.                               *)
LEMMA AfterWindow ==
    ASSUME NEW n \in Nat \ {0}
    PROVE  Largest(Window(n)) + 1 = IF Limit > 1 THEN n ELSE 1
<1> DEFINE W == Window(n)
           g == IF Limit > 1 THEN n - 1 ELSE 0
           m == Largest(W)
<1>0. Limit \in Nat \ {0}
  BY RetentionAssumption
<1>1. g \in W /\ \A v \in W : v <= g
  BY <1>0 DEF Window
<1>2. W \in SUBSET Nat /\ (\A v \in W : v < n) /\ g \in Nat
  BY <1>0 DEF Window
<1> HIDE DEF W, g
<1>3. m \in W /\ \A v \in W : v <= m
  BY <1>1, <1>2, LargestIsIn
<1>4. m <= g /\ g <= m /\ m \in Nat
  BY <1>1, <1>2, <1>3
<1>5. m = g
  BY <1>2, <1>4
<1> QED
  BY <1>0, <1>5 DEF g, W

LEMMA GetNextVersionSerial ==
    ASSUME DAOInv, SerialInv, serial, NEW p \in Writers, GetNextVersion(p)
    PROVE  /\ Fresh(p)'
           /\ retention = "version" /\ retention' = retention => Planned(p)'
<1>1. /\ pc[p] = "getNextVersion" /\ pc'[p] = "saveOld" /\ UNCHANGED <<table, dirty, commits>>
      /\ call'[p].old = call[p].old /\ call'[p].new = call[p].new
      /\ call'[p].next = IF Versions = {} THEN 0 ELSE Largest(Versions) + 1
  BY DEF GetNextVersion, Goto, DAOInv, TypeOK, Call
<1>2. Fresh(p) /\ Writing(p)
  BY <1>1 DEF SerialInv, FreshInv, Writing
<1>3. Fresh(p)'
  BY <1>1, <1>2 DEF Fresh, Latest
<1>4. ASSUME retention = "version" PROVE call'[p].next = NextNumber
  <2>1. call[p].old # NoRow /\ call[p].old = Latest
    BY <1>1, <1>2, NoRowType DEF Fresh, DAOInv, ReadOK
  <2>2. 0 \in Versions
    BY <2>1 DEF Latest
  <2>3. Len(commits) \in Nat \ {0} /\ commits # <<>>
    BY <2>2 DEF DAOInv, BelowChanges, TypeOK
  <2>4. Versions = Window(Len(commits))
    BY <1>4, <2>3 DEF SerialInv, WindowInv, RetentionWindow, Window
  <2> QED
    BY <1>1, <2>2, <2>3, <2>4, AfterWindow DEF NextNumber
<1>5. DOMAIN dirty'[p] = {}
  BY <1>1 DEF DAOInv, HistoryInv, OwnRows, Holding
<1> QED
  BY <1>1, <1>3, <1>4, <1>5 DEF Planned, NextNumber

LEMMA SaveOldSerial ==
    ASSUME DAOInv, SerialInv, serial, NEW p \in Writers, SaveOld(p)
    PROVE  /\ Fresh(p)'
           /\ retention = "version" /\ retention' = retention => Planned(p)'
<1>1. CASE Retry(p)
  BY <1>1, QuietActions
<1>2. CASE ~ Retry(p)
  <2>1. /\ Write(p, call[p].next, call[p].old) /\ Goto(p, "saveLatest")
        /\ UNCHANGED <<call, table, commits>> /\ pc[p] = "saveOld"
    BY <1>2 DEF SaveOld, Insert
  <2>2. DOMAIN dirty[p] = {} /\ call[p].old # NoRow
    BY <2>1, NoRowType DEF DAOInv, HistoryInv, OwnRows, Holding, ReadOK
  <2>3. DOMAIN dirty'[p] = {call[p].next} /\ pc'[p] = "saveLatest"
    BY <2>1, <2>2 DEF Write, Goto, DAOInv, TypeOK
  <2>4. Writing(p) /\ Fresh(p)
    BY <2>1 DEF Writing, SerialInv, FreshInv
  <2>5. Fresh(p)'
    BY <2>1, <2>4 DEF Fresh, Latest
  <2>6. ASSUME retention = "version" PROVE call[p].next = NextNumber
    BY <2>1, <2>2, <2>4, <2>6 DEF SerialInv, WindowInv, Planned
  <2> QED
    BY <2>1, <2>2, <2>3, <2>5, <2>6 DEF Planned, Archived, NextNumber
<1> QED
  BY <1>1, <1>2

LEMMA SaveLatestSerial ==
    ASSUME DAOInv, SerialInv, serial, NEW p \in Writers, SaveLatest(p)
    PROVE  /\ Fresh(p)'
           /\ retention = "version" /\ retention' = retention => Planned(p)'
<1> DEFINE row == [value |-> call[p].new, time |-> call[p].stamp]
<1>1. CASE Retry(p)
  BY <1>1, QuietActions
<1>2. CASE dirty' = [dirty EXCEPT ![p] = NoWrites] /\ Goto(p, "idle")
  <2>1. DOMAIN dirty'[p] = {} /\ pc'[p] = "idle"
    BY <1>2, NoWritesDomain DEF DAOInv, TypeOK, Goto
  <2> QED
    BY <2>1, Quiet
<1>3. CASE /\ Write(p, 0, row) /\ Goto(p, "applyRetention")
           /\ UNCHANGED <<call, table, commits>> /\ pc[p] = "saveLatest"
  <2>0. row \in StoredRow
    BY <1>3 DEF DAOInv, ReadOK, Busy, TypeOK, Call, StoredRow
  <2> HIDE DEF row
  <2>1. /\ DOMAIN dirty'[p] = DOMAIN dirty[p] \cup {0} /\ pc'[p] = "applyRetention"
        /\ dirty'[p][0] = row
        /\ \A v \in DOMAIN dirty[p] \ {0} : dirty'[p][v] = dirty[p][v]
    BY <1>3 DEF Write, Goto, DAOInv, TypeOK
  <2>2. \A v \in DOMAIN dirty'[p] : dirty'[p][v] # Deleted
    BY <1>3, <2>0, <2>1, ValueAssumption
       DEF DAOInv, HistoryInv, OwnRows, StoredRow, Valid
  <2>3. Writing(p) /\ Fresh(p)
    BY <1>3 DEF Writing, SerialInv, FreshInv
  <2>4. Fresh(p)'
    BY <1>3, <2>3 DEF Fresh, Latest
  <2>5. ASSUME retention = "version"
        PROVE  /\ DOMAIN dirty[p] = Archived(p)
               /\ call[p].old # NoRow => call[p].next = NextNumber
    BY <1>3, <2>3, <2>5 DEF SerialInv, WindowInv, Planned
  <2> QED
    BY <1>3, <2>1, <2>2, <2>4, <2>5 DEF Planned, Archived, NextNumber
<1> HIDE DEF row
<1>4. \/ Retry(p)
      \/ dirty' = [dirty EXCEPT ![p] = NoWrites] /\ Goto(p, "idle")
      \/ /\ Write(p, 0, row) /\ Goto(p, "applyRetention")
         /\ UNCHANGED <<call, table, commits>> /\ pc[p] = "saveLatest"
  BY DEF SaveLatest, Insert, Update, row
<1> QED
  BY <1>1, <1>2, <1>3, <1>4

(* The purge turns the window before the change and the archived row into  *)
(* the window after it.                                                    *)
LEMMA PurgeWindow ==
    ASSUME NEW n \in Nat, NEW number, NEW isFirst \in BOOLEAN,
           isFirst => n = 0,
           ~isFirst => n # 0 /\ number = IF Limit > 1 THEN n ELSE 1,
           NEW rows, rows = (IF n = 0 THEN {} ELSE Window(n)) \cup {0}
                               \cup (IF isFirst THEN {} ELSE {number})
    PROVE  {v \in rows : v = 0 \/ ~ (v <= (IF isFirst THEN 0 ELSE number) - Limit + 1)}
             = Window(n + 1)
<1>1. Limit \in Nat \ {0}
  BY RetentionAssumption
<1>2. CASE isFirst
  BY <1>1, <1>2 DEF Window
<1>3. CASE ~isFirst /\ Limit = 1
  BY <1>1, <1>3 DEF Window
<1>4. CASE ~isFirst /\ Limit > 1
  BY <1>1, <1>4 DEF Window
<1> QED
  BY <1>1, <1>2, <1>3, <1>4

LEMMA ApplyRetentionSerial ==
    ASSUME DAOInv, SerialInv, serial, NEW p \in Writers, ApplyRetention(p)
    PROVE  /\ Fresh(p)'
           /\ retention = "version" /\ retention' = retention => Planned(p)'
<1> DEFINE gone == Purged(p)
           n == Len(commits)
           isFirst == call[p].old = NoRow
           number == call[p].next
<1>1. /\ pc[p] = "applyRetention" /\ pc'[p] = "commit" /\ UNCHANGED <<call, table, commits>>
      /\ DOMAIN dirty'[p] = DOMAIN dirty[p] \cup gone
      /\ \A v \in DOMAIN dirty'[p] :
            dirty'[p][v] = IF v \in gone THEN Deleted ELSE dirty[p][v]
  BY DEF ApplyRetention, Goto, DAOInv, TypeOK
<1>2. Writing(p) /\ Fresh(p)
  BY <1>1 DEF Writing, SerialInv, FreshInv
<1>3. Fresh(p)'
  BY <1>1, <1>2 DEF Fresh, Latest
<1>4. ASSUME retention = "version" PROVE DOMAIN Rows(p)' = Window(n + 1)
  <2>1. /\ DOMAIN dirty[p] = {0} \cup Archived(p)
        /\ \A v \in DOMAIN dirty[p] : dirty[p][v] # Deleted
        /\ ~isFirst => number = NextNumber
    BY <1>1, <1>2, <1>4 DEF SerialInv, WindowInv, Planned
  <2>2. n \in Nat /\ (n # 0 <=> commits # <<>>)
    BY DEF DAOInv, TypeOK
  <2>3. n = 0 => Versions = {}
    BY DEF DAOInv, BelowChanges
  <2>4. n # 0 => Versions = Window(n) /\ 0 \in Versions
    BY <1>4, <2>2 DEF SerialInv, WindowInv, RetentionWindow, Window
  <2>5. isFirst <=> n = 0
    <3>1. isFirst <=> 0 \notin Versions
      BY <1>2, NoRowType DEF Fresh, Latest, DAOInv, TypeOK
    <3> QED
      BY <2>3, <2>4, <3>1
  <2>6. DOMAIN Rows(p) = Versions \cup {0} \cup (IF isFirst THEN {} ELSE {number})
    BY <2>1 DEF Rows, Archived
  <2>7. gone = {v \in DOMAIN Rows(p) :
                   v # 0 /\ v <= (IF isFirst THEN 0 ELSE number) - Limit + 1}
    BY <1>4 DEF Purged, LargestVersion
  <2>8. DOMAIN Rows(p)' = DOMAIN Rows(p) \ gone
    <3>1. gone \subseteq DOMAIN Rows(p)
      BY <2>7
    <3>2. DOMAIN Rows(p)' = {v \in DOMAIN table \cup DOMAIN dirty'[p] :
                                v \in DOMAIN dirty'[p] => dirty'[p][v] # Deleted}
      BY <1>1 DEF Rows
    <3>3. DOMAIN Rows(p) = DOMAIN table \cup DOMAIN dirty[p]
      BY <2>1 DEF Rows
    <3> HIDE DEF gone
    <3> QED
      BY <1>1, <2>1, <3>1, <3>2, <3>3
  <2> DEFINE rows == DOMAIN Rows(p)
  <2>9. {v \in rows : v = 0 \/ ~ (v <= (IF isFirst THEN 0 ELSE number) - Limit + 1)}
          = Window(n + 1)
    <3>1. rows = (IF n = 0 THEN {} ELSE Window(n)) \cup {0}
                    \cup (IF isFirst THEN {} ELSE {number})
      BY <2>3, <2>4, <2>6
    <3>2. ~isFirst => number = IF Limit > 1 THEN n ELSE 1
      BY <2>1 DEF NextNumber
    <3>3. PICK m \in Nat : m = n
      BY <2>2
    <3>6. PICK f \in BOOLEAN : f = isFirst
      OBVIOUS
    <3>7. PICK k : k = number
      OBVIOUS
    <3>8. PICK r : r = rows
      OBVIOUS
    <3> HIDE DEF rows, n, isFirst, number
    <3>4. r = (IF m = 0 THEN {} ELSE Window(m)) \cup {0} \cup (IF f THEN {} ELSE {k})
      BY <3>1, <3>3, <3>6, <3>7, <3>8
    <3>9. (f => m = 0) /\ (~f => m # 0 /\ k = IF Limit > 1 THEN m ELSE 1)
      BY <2>5, <3>2, <3>3, <3>6, <3>7
    <3>5. {v \in r : v = 0 \/ ~ (v <= (IF f THEN 0 ELSE k) - Limit + 1)} = Window(m + 1)
      BY <3>4, <3>9, PurgeWindow
    <3> QED
      BY <3>3, <3>5, <3>6, <3>7, <3>8
  <2> HIDE DEF isFirst, n, number
  <2> QED
    BY <2>7, <2>8, <2>9
<1>5. ASSUME retention = "version" PROVE ~isFirst => number = NextNumber
  BY <1>1, <1>2, <1>5 DEF SerialInv, WindowInv, Planned
<1> QED
  BY <1>1, <1>3, <1>4, <1>5 DEF Planned, NextNumber

LEMMA OwnSerial ==
    ASSUME DAOInv, SerialInv, serial, UNCHANGED retention, NEW p \in Writers, Acts(p)
    PROVE  Fresh(p)' /\ (retention = "version" => Planned(p)')
BY QuietActions, GetLatestSerial, GetNextVersionSerial, SaveOldSerial, SaveLatestSerial,
   ApplyRetentionSerial DEF Acts, Step

-----------------------------------------------------------------------------
(* A request that waits is left alone: nobody else is there to commit.     *)
LEMMA OtherSerial ==
    ASSUME DAOInv, SerialInv, serial, UNCHANGED retention,
           NEW q \in Writers, dirty'[q] = dirty[q], pc'[q] = pc[q], call'[q] = call[q],
           \/ UNCHANGED <<table, commits>>
           \/ \E p \in Writers \ {q} : pc[p] = "commit"
    PROVE  Fresh(q)' /\ (retention = "version" => Planned(q)')
<1>1. CASE UNCHANGED <<table, commits>>
  <2>1. Latest' = Latest /\ NextNumber' = NextNumber /\ Rows(q)' = Rows(q)
    BY <1>1 DEF Latest, NextNumber, Rows
  <2>2. Fresh(q)'
    BY <2>1 DEF SerialInv, FreshInv, Fresh, Writing
  <2>3. ASSUME retention = "version" PROVE Planned(q)'
    <3>1. Planned(q)
      BY <2>3 DEF SerialInv, WindowInv
    <3>2. Writing(q)' = Writing(q) /\ Archived(q)' = Archived(q) /\ commits' = commits
      BY <1>1 DEF Writing, Archived
    <3> QED
      BY <2>1, <3>1, <3>2 DEF Planned
  <2> QED
    BY <2>2, <2>3
<1>2. CASE \E p \in Writers \ {q} : pc[p] = "commit"
  <2>1. pc[q] = "idle"
    BY <1>2 DEF SerialInv, SingleRunner, Running
  <2>2. DOMAIN dirty'[q] = {} /\ pc'[q] = "idle"
    BY <2>1 DEF DAOInv, HistoryInv, OwnRows, Holding
  <2> QED
    BY <2>2, Quiet
<1> QED
  BY <1>1, <1>2

(* A commit moves the window on by one.                                    *)
LEMMA PublishWindow ==
    ASSUME DAOInv, SerialInv, serial, retention = "version",
           NEW p \in Writers, pc[p] = "commit", Publish(p)
    PROVE  RetentionWindow'
<1> DEFINE n == Len(commits)
<1>0. RetentionWindow /\ Planned(p) /\ Fresh(p) /\ Ready(p)
  BY DEF SerialInv, WindowInv, FreshInv, DAOInv, TellInv, WriterTells
<1>1. CASE dirty[p] = NoWrites
  <2>1. commits' = commits /\ Versions' = Versions
    BY <1>1, NoWritesDomain DEF Publish, Rows
  <2>2. RetentionWindow'
    <3>1. retention' = "version" => retention = "version"
      OBVIOUS
    <3> QED
      BY <1>0, <2>1 DEF RetentionWindow
  <2> QED
    BY <2>2
<1>2. CASE dirty[p] # NoWrites
  <2> DEFINE change == [id |-> call[p].id, kind |-> call[p].lambda.kind,
                        old |-> call[p].old.value, new |-> call[p].new,
                        version |-> LargestVersion(p)]
  <2>1. /\ n \in Nat /\ DOMAIN commits = 1 .. n /\ commits' = Append(commits, change)
        /\ change.version = LargestVersion(p) /\ commits \in Seq(Change)
    BY <1>2 DEF Publish, DAOInv, TypeOK
  <2> HIDE DEF change
  <2>2. /\ Len(commits') = n + 1 /\ DOMAIN commits' = 1 .. n + 1 /\ commits' # <<>>
        /\ commits'[n + 1].version = LargestVersion(p)
        /\ \A r \in 1 .. n : commits'[r] = commits[r]
    BY <2>1
  <2>3. DOMAIN dirty[p] # {} /\ Writing(p)
    BY <1>0, <1>2 DEF Ready, Writing
  <2>4. Versions' = Window(n + 1)
    BY <1>0, <2>3 DEF Planned, Publish
  <2>5. ASSUME Limit > 1 PROVE LargestVersion(p) = n
    <3>1. CASE call[p].old = NoRow
      <4>1. 0 \notin Versions
        BY <1>0, <2>3, <3>1, NoRowType DEF Fresh, Latest, DAOInv, TypeOK
      <4>2. commits = <<>>
        BY <1>0, <2>1, <4>1 DEF RetentionWindow
      <4> QED
        BY <3>1, <4>2 DEF LargestVersion
    <3>2. CASE call[p].old # NoRow
      BY <1>0, <2>3, <2>5, <3>2 DEF Planned, LargestVersion, NextNumber
    <3> QED
      BY <3>1, <3>2
  <2>6. ASSUME Limit > 1, NEW i \in DOMAIN commits' PROVE commits'[i].version = i - 1
    <3>1. CASE i = n + 1
      BY <2>1, <2>2, <2>5, <2>6, <3>1
    <3>2. CASE i \in 1 .. n
      <4>1. commits # <<>>
        BY <2>1, <3>2
      <4> QED
        BY <1>0, <2>1, <2>2, <2>6, <3>2, <4>1 DEF RetentionWindow
    <3> QED
      BY <2>1, <2>2, <2>6, <3>1, <3>2
  <2> QED
    BY <2>2, <2>4, <2>6 DEF RetentionWindow, Window
<1> QED
  BY <1>1, <1>2

LEMMA SerialStep == DAOInv /\ SerialInv /\ [StoreNext]_<<serial, vars>> => SerialInv'
<1> SUFFICES ASSUME DAOInv, SerialInv, [StoreNext]_<<serial, vars>>, [Next]_vars,
                    UNCHANGED <<serial, retention>>
             PROVE  SerialInv'
  BY DEF StoreNext, Next, vars
<1>1. SingleRunner'
  BY DEF StoreNext, SerialInv, SingleRunner, Running, vars
<1>2. ASSUME serial, NEW q \in Writers
      PROVE  Fresh(q)' /\ (retention = "version" => Planned(q)')
  <2>1. ASSUME NEW p \in Writers, Acts(p)
        PROVE  Fresh(q)' /\ (retention = "version" => Planned(q)')
    <3>1. CASE q = p
      BY <1>2, <2>1, <3>1, OwnSerial
    <3>2. CASE q # p
      <4>1. dirty'[q] = dirty[q] /\ pc'[q] = pc[q] /\ call'[q] = call[q]
        BY <2>1, <3>2, OthersUntouched DEF Acts, DAOInv
      <4>2. UNCHANGED <<table, commits>> \/ pc[p] = "commit"
        BY <2>1 DEF Acts, Step, Begin, Backfill, GetLatest, GetNextVersion, SaveOld, SaveLatest,
             ApplyRetention, Commit, Produce, CommitFails, CommitAckLost, SendLost
      <4> QED
        BY <1>2, <3>2, <4>1, <4>2, OtherSerial
    <3> QED
      BY <3>1, <3>2
  <2>2. CASE Crash
    <3>1. DOMAIN dirty'[q] = {} /\ pc'[q] = "idle"
      BY <2>2, NoWritesDomain DEF Crash
    <3> QED
      BY <3>1, Quiet
  <2>3. CASE Tick \/ Wait \/ UNCHANGED vars
    <3>1. UNCHANGED <<table, commits, dirty, pc, call>>
      BY <2>3 DEF Tick, Wait, vars
    <3> QED
      BY <1>2, <3>1, OtherSerial
  <2> QED
    BY <2>1, <2>2, <2>3 DEF Next, Acts
<1>3. ASSUME serial, retention = "version" PROVE RetentionWindow'
  <2>1. ASSUME NEW p \in Writers, pc[p] = "commit", Publish(p) PROVE RetentionWindow'
    BY <1>3, <2>1, PublishWindow
  <2>2. CASE UNCHANGED <<table, commits>>
    BY <1>3, <2>2 DEF SerialInv, WindowInv, RetentionWindow
  <2> QED
    BY <2>1, <2>2, StepsThatPublish
<1>4. FreshInv' /\ WindowInv'
  BY <1>2, <1>3 DEF FreshInv, WindowInv
<1> QED
  BY <1>1, <1>4 DEF SerialInv

LEMMA StoreIsDAO == StoreSpec => Spec
<1>1. StoreInit => Init
  BY DEF StoreInit
<1>2. [StoreNext]_<<serial, vars>> => [Next]_vars
  BY DEF StoreNext, vars
<1> QED
  BY <1>1, <1>2, PTL DEF StoreSpec, Spec

LEMMA SerialInvariant == StoreSpec => [](DAOInv /\ ArchiveInv /\ SerialInv)
BY StoreIsDAO, ArchiveInvariant, InitSerial, SerialStep, PTL DEF StoreSpec

-----------------------------------------------------------------------------
(* When no two requests overlap, version-based retention keeps exactly the *)
(* latest value and the newest Limit - 1 archived ones, and for any limit  *)
(* but 1 no number is given out twice: whatever fails, and after every     *)
(* crash.                                                                  *)
THEOREM WindowKept == StoreSpec => []WindowOfOneWriter
<1>1. SerialInv => WindowOfOneWriter
  BY DEF SerialInv, WindowInv, WindowOfOneWriter, RetentionWindow
<1> QED
  BY <1>1, SerialInvariant, PTL

(* When no two requests overlap the DAO implements the documented store:   *)
(* each change archives the value it replaces, no change equals the value  *)
(* before it, and without a limit no value is ever lost.                   *)
THEOREM EveryValueKept == StoreSpec => KeepsEveryValue
<1>1. StoreInit => Documented!Init
  BY InitShows DEF StoreInit, Documented!Init
<1>2. DAOInv /\ ArchiveInv /\ SerialInv /\ [StoreNext]_<<serial, vars>>
        => [Documented!Next]_(Documented!vars)
  <2> SUFFICES ASSUME DAOInv, ArchiveInv, SerialInv, [StoreNext]_<<serial, vars>>,
                      [Next]_vars, UNCHANGED serial
               PROVE  [Documented!Next]_(Documented!vars)
    BY DEF StoreNext, vars
  <2>1. UNCHANGED retention
    BY OtherStepsHidden
  <2>2. CASE ~serial \/ UNCHANGED <<LatestValue, History, Seen>>
    BY <2>1, <2>2 DEF Documented!vars
  <2>3. ASSUME serial, NEW p \in Writers, retention # "time", pc[p] = "commit", Publish(p),
               dirty[p] # NoWrites
        PROVE  Documented!Next
    <3> DEFINE v == call[p].new
               old == call[p].old.value
    <3>1. /\ v \in Values /\ LatestValue' = v /\ Seen' = Seen \cup {v}
          /\ call[p].old = NoRow => LatestValue = None /\ History' = History
          /\ call[p].old # NoRow =>
               /\ LatestValue # None /\ old \in Seen
               /\ retention = "indefinite" => History' = Append(History, old)
               /\ \A n \in DOMAIN History' :
                    History'[n] = IF n \in DOMAIN History THEN History[n] ELSE old
      BY <2>1, <2>3, PublishShows
    <3>2. v # old /\ old = LatestValue
      <4>1. Writing(p)
        BY <2>3 DEF Writing, DAOInv, TellInv, WriterTells, Ready
      <4>2. call[p].old = Latest /\ call[p].new # call[p].old.value
        BY <2>3, <4>1 DEF SerialInv, FreshInv, Fresh
      <4> QED
        BY <2>3, <4>2 DEF LatestValue, Kept
    <3> HIDE DEF v, old
    <3>3. CASE call[p].old = NoRow
      BY <2>1, <2>3, <3>1, <3>3 DEF Documented!Next, Documented!Add, Documented!First
    <3>4. CASE call[p].old # NoRow
      <4>1. Documented!Replace(v)
        BY <2>3, <3>1, <3>2, <3>4 DEF Documented!Replace
      <4> QED
        BY <2>1, <2>3, <3>1, <4>1 DEF Documented!Next, Documented!Add
    <3> QED
      BY <3>3, <3>4
  <2> QED
    BY <2>2, <2>3, OtherStepsHidden
<1> QED
  BY <1>1, <1>2, SerialInvariant, PTL DEF StoreSpec, Documented!Spec, KeepsEveryValue

(* Both promises at once, as the run of the store checks them.             *)
THEOREM StoreIsReal == StoreSpec => HistoryIsReal
BY StoreIsDAO, OnlySeenValues, EveryValueKept, PTL DEF HistoryIsReal
=============================================================================
