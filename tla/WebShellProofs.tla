--------------------------- MODULE WebShellProofs ---------------------------
(***************************************************************************)
(* Proofs about the parts of the web client that stay while its pages      *)
(* change, about browsing, drawing and the functions on lists and objects, *)
(* and about all of them as they run together.                             *)
(***************************************************************************)
EXTENDS MCWebShell, FiniteSetTheorems, Foundations

(***************************************************************************)
(* Notifications.  What waits in the queue is newer than all that was      *)
(* shown, the newest first; while something waits, or the loop over the    *)
(* queue runs, one is on the screen whose end the loop awaits.             *)
(***************************************************************************)
Note == [id : Nat, kind : {"modal", "sticky", "toast"}]

\* A queue whose notifications were made after low and until high.
MadeBetween(q, low, high) ==
    /\ q \in Seq(Note)
    /\ \A i \in 1 .. Len(q) : low < q[i].id /\ q[i].id <= high
    /\ \A i, j \in 1 .. Len(q) : i < j => q[j].id < q[i].id

Ended == /\ activeNotification = {} \/ \E n \in Note : activeNotification = {n}
         /\ isShowingNotification => activeNotification # {} /\ activeNotification \subseteq awaiting

NoteInv ==
    /\ notified \in Nat /\ lastShown \in 0 .. notified
    /\ MadeBetween(queue, lastShown, notified)
    /\ {isShowingNotification, isBuffering} \subseteq BOOLEAN
    /\ Ended /\ QueueIsServed /\ TimerIsOwn
    /\ isBuffering => isShowingNotification

LEMMA EnqueueKeepsOrder ==
    ASSUME NEW q, NEW low \in Nat, NEW high \in Nat, low <= high, MadeBetween(q, low, high),
           NEW n \in Note, n.id = high + 1
    PROVE  MadeBetween(Enqueue(n, q), low, high + 1) /\ Enqueue(n, q) # <<>>
<1> DEFINE e == <<n>> \o q
<1>1. q \in Seq(Note)
  BY DEF MadeBetween
<1>2. /\ e \in Seq(Note) /\ Len(e) = 1 + Len(q) /\ e[1] = n
      /\ \A i \in 2 .. Len(e) : e[i] = q[i - 1]
  BY <1>1
<1> HIDE DEF e
<1>3. \A i \in 1 .. Len(e) : i = 1 \/ (i \in 2 .. Len(e) /\ i - 1 \in 1 .. Len(q))
  BY <1>1, <1>2
<1>a. \A i \in 1 .. Len(q) : q[i] \in Note
  BY <1>1
<1>4. \A i \in 1 .. Len(q) : q[i].id \in Nat /\ low < q[i].id /\ q[i].id <= high
  BY <1>a DEF Note, MadeBetween
<1>b. \A i, j \in 1 .. Len(q) : i < j => q[j].id < q[i].id
  BY DEF MadeBetween
<1>5. \A i \in 1 .. Len(e) : low < e[i].id /\ e[i].id <= high + 1
  <2> SUFFICES ASSUME NEW i \in 1 .. Len(e) PROVE low < e[i].id /\ e[i].id <= high + 1
    OBVIOUS
  <2>1. CASE i = 1
    BY <1>2, <2>1
  <2>2. CASE i # 1
    <3>1. PICK k \in 1 .. Len(q) : k = i - 1 /\ e[i] = q[k]
      BY <1>2, <1>3, <2>2
    <3> QED
      BY <1>4, <3>1
  <2> QED
    BY <2>1, <2>2
<1>6. \A i, j \in 1 .. Len(e) : i < j => e[j].id < e[i].id
  <2> SUFFICES ASSUME NEW i \in 1 .. Len(e), NEW j \in 1 .. Len(e), i < j PROVE e[j].id < e[i].id
    OBVIOUS
  <2>0. i \in Nat /\ j \in Nat /\ i >= 1
    BY <1>2
  <2>1. PICK l \in 1 .. Len(q) : l = j - 1 /\ e[j] = q[l] /\ q[l].id <= high /\ q[l].id \in Nat
    BY <1>2, <1>3, <1>4, <2>0
  <2>2. CASE i = 1
    BY <1>2, <2>1, <2>2
  <2>3. CASE i # 1
    <3>1. PICK k \in 1 .. Len(q) : k = i - 1 /\ e[i] = q[k] /\ k < l
      BY <1>2, <1>3, <2>0, <2>1, <2>3
    <3> QED
      BY <1>b, <2>1, <3>1
  <2> QED
    BY <2>2, <2>3
<1> QED
  BY <1>1, <1>2, <1>5, <1>6 DEF MadeBetween, Enqueue, e

LEMMA FrontKeepsOrder ==
    ASSUME NEW q, NEW low \in Nat, NEW high \in Nat, MadeBetween(q, low, high), q # <<>>
    PROVE  /\ Last(q) \in Note /\ low < Last(q).id /\ Last(q).id <= high
           /\ MadeBetween(Front(q), Last(q).id, high)
<1> DEFINE f == SubSeq(q, 1, Len(q) - 1)
<1>1. q \in Seq(Note) /\ Len(q) \in Nat /\ Len(q) >= 1 /\ Len(q) \in 1 .. Len(q)
  BY DEF MadeBetween
<1>2. f \in Seq(Note) /\ Len(f) = Len(q) - 1 /\ \A i \in 1 .. Len(f) : f[i] = q[i]
  <2>1. Len(q) - 1 \in Nat /\ 1 .. Len(q) - 1 \subseteq 1 .. Len(q)
    BY <1>1
  <2>2. /\ f \in Seq(Note)
        /\ Len(f) = IF 1 <= Len(q) - 1 THEN (Len(q) - 1) - 1 + 1 ELSE 0
        /\ \A i \in 1 .. (Len(q) - 1) - 1 + 1 : f[i] = q[1 + i - 1]
    BY <1>1, <2>1, SubSeqProperties
  <2> HIDE DEF f
  <2>3. PICK m \in Nat : m = Len(q) - 1
    BY <2>1
  <2>4. Len(f) = m /\ \A i \in 1 .. m : 1 + i - 1 = i
    BY <2>2, <2>3
  <2> QED
    BY <2>2, <2>3, <2>4
<1> HIDE DEF f
<1>3. q[Len(q)] \in Note /\ low < q[Len(q)].id /\ q[Len(q)].id <= high
  BY <1>1 DEF MadeBetween
<1>4. \A i \in 1 .. Len(f) : i \in 1 .. Len(q) /\ i < Len(q)
  BY <1>1, <1>2
<1>5. MadeBetween(f, q[Len(q)].id, high)
  BY <1>1, <1>2, <1>4 DEF MadeBetween
<1> QED
  BY <1>3, <1>5 DEF Last, Front, f

(* What the loop shows next was made after all it has shown.               *)
LEMMA FlushKeepsNotes ==
    ASSUME NoteInv, NEW q, NEW rest, NEW b \in BOOLEAN, FlushBuffer(q, rest, b),
           notified' \in Nat, notified <= notified', MadeBetween(q, lastShown, notified')
    PROVE  NoteInv' /\ lastShown' >= lastShown
<1>1. CASE q = <<>>
  <2>1. /\ queue' = q /\ isBuffering' = FALSE /\ UNCHANGED <<activeNotification, lastShown>>
        /\ isShowingNotification' = FALSE /\ toastTimers' = {}
    BY <1>1 DEF FlushBuffer
  <2>2. lastShown' \in 0 .. notified' /\ lastShown' >= lastShown
    BY <2>1 DEF NoteInv
  <2>3. Ended' /\ QueueIsServed' /\ TimerIsOwn'
    BY <1>1, <2>1 DEF NoteInv, Ended, QueueIsServed, TimerIsOwn
  <2> QED
    BY <2>1, <2>2, <2>3 DEF NoteInv
<1>2. CASE q # <<>>
  <2>1. lastShown \in Nat
    BY DEF NoteInv
  <2>2. PICK n \in Note : n = Last(q) /\ lastShown < n.id /\ n.id <= notified'
                            /\ MadeBetween(Front(q), n.id, notified')
    BY <1>2, <2>1, FrontKeepsOrder
  <2>3. /\ activeNotification' = {n} /\ isShowingNotification' = TRUE
        /\ toastTimers' = (IF n.kind = "toast" THEN {n} ELSE {})
        /\ lastShown' = n.id /\ queue' = Front(q) /\ awaiting' = rest \cup {n} /\ isBuffering' = b
    BY <1>2, <2>2 DEF FlushBuffer, SetCurrentNotification, RestartTimer
  <2>4. lastShown' \in 0 .. notified' /\ lastShown' >= lastShown
    BY <2>1, <2>2, <2>3 DEF Note
  <2>5. MadeBetween(queue', lastShown', notified')
    BY <2>2, <2>3
  <2>6. Ended' /\ QueueIsServed'
    BY <2>3 DEF Ended, QueueIsServed
  <2>7. TimerIsOwn'
    BY <2>3 DEF TimerIsOwn
  <2> QED
    BY <2>3, <2>4, <2>5, <2>6, <2>7 DEF NoteInv
<1> QED
  BY <1>1, <1>2

LEMMA CompleteKeepsNotes ==
    ASSUME NoteInv, NEW n, Complete(n, queue), UNCHANGED notified
    PROVE  NoteInv' /\ lastShown' >= lastShown
<1>1. notified \in Nat /\ MadeBetween(queue, lastShown, notified)
  BY DEF NoteInv
<1>2. notified' \in Nat /\ notified <= notified' /\ MadeBetween(queue, lastShown, notified')
  BY <1>1
<1>3. FlushBuffer(queue, awaiting \ {n}, FALSE)
  BY DEF Complete
<1> QED
  BY <1>2, <1>3, FlushKeepsNotes

\* What happens to notifications, of the steps of both.
NotifyStep ==
    \/ \E event \in DOMAIN NotificationHandlers : Notify(event)
    \/ DismissToast \/ ToastTimeout \/ ShowContentDetail \/ PerformModal

LEMMA NoteSteps == NoteInv /\ (NotifyStep \/ UNCHANGED notifyVars) => NoteInv' /\ lastShown' >= lastShown
<1> SUFFICES ASSUME NoteInv, NotifyStep \/ UNCHANGED notifyVars
             PROVE  NoteInv' /\ lastShown' >= lastShown
  OBVIOUS
<1>a. notified \in Nat /\ lastShown \in Nat /\ lastShown <= notified /\ MadeBetween(queue, lastShown, notified)
  BY DEF NoteInv
<1>b. ASSUME NEW n \in Note, n.id = notified + 1, notified' = notified + 1
      PROVE  /\ MadeBetween(Enqueue(n, queue), lastShown, notified') /\ Enqueue(n, queue) # <<>>
             /\ notified' \in Nat /\ notified <= notified'
  BY <1>a, <1>b, EnqueueKeepsOrder
<1>1. ASSUME NEW event \in DOMAIN NotificationHandlers, Notify(event)
      PROVE  NoteInv' /\ lastShown' >= lastShown
  <2> DEFINE n == [id |-> notified + 1, kind |-> NotificationHandlers[event]]
  <2>1. n \in Note /\ n.id = notified + 1
    BY <1>a DEF Note, NotificationHandlers
  <2>2. /\ notified' = notified + 1
        /\ IF isBuffering
           THEN /\ queue' = Enqueue(n, queue)
                /\ UNCHANGED <<activeNotification, isShowingNotification, toastTimers, isBuffering, awaiting,
                               lastShown>>
           ELSE FlushBuffer(Enqueue(n, queue), awaiting, TRUE)
    BY <1>1, Zenon DEF Notify
  <2> HIDE DEF n
  <2>3. /\ MadeBetween(Enqueue(n, queue), lastShown, notified') /\ Enqueue(n, queue) # <<>>
        /\ notified' \in Nat /\ notified <= notified'
    BY <1>b, <2>1, <2>2
  <2>4. CASE isBuffering
    <3>1. /\ queue' = Enqueue(n, queue)
          /\ UNCHANGED <<activeNotification, isShowingNotification, toastTimers, isBuffering, awaiting, lastShown>>
      BY <2>2, <2>4
    <3>2. lastShown' \in 0 .. notified' /\ lastShown' >= lastShown /\ MadeBetween(queue', lastShown', notified')
      BY <1>a, <2>3, <3>1
    <3>3. Ended' /\ QueueIsServed' /\ TimerIsOwn'
      BY <2>4, <3>1 DEF NoteInv, Ended, QueueIsServed, TimerIsOwn
    <3> QED
      BY <2>3, <3>1, <3>2, <3>3 DEF NoteInv
  <2>5. CASE ~ isBuffering
    <3>1. FlushBuffer(Enqueue(n, queue), awaiting, TRUE)
      BY <2>2, <2>5
    <3> QED
      BY <2>3, <3>1, FlushKeepsNotes
  <2> QED
    BY <2>4, <2>5
<1>2. ASSUME DismissToast \/ ToastTimeout \/ PerformModal PROVE NoteInv' /\ lastShown' >= lastShown
  <2>1. \E n : Complete(n, queue) /\ UNCHANGED notified
    BY <1>2 DEF DismissToast, ToastTimeout, PerformModal, Dismiss
  <2> QED
    BY <2>1, CompleteKeepsNotes
<1>3. ASSUME ShowContentDetail PROVE NoteInv' /\ lastShown' >= lastShown
  <2> DEFINE d == [id |-> notified + 1, kind |-> "modal"]
             q == Enqueue(d, queue)
  <2>1. d \in Note /\ d.id = notified + 1
    BY <1>a DEF Note
  <2>2. PICK n \in activeNotification :
          /\ notified' = notified + 1
          /\ IF isBuffering \/ Len(q) = 1
             THEN Complete(n, q)
             ELSE FlushBuffer(Front(q), (awaiting \ {n}) \cup {Last(q)}, FALSE)
    BY <1>3, Zenon DEF ShowContentDetail
  <2>3. MadeBetween(q, lastShown, notified') /\ q # <<>> /\ notified' \in Nat /\ notified <= notified'
    BY <1>b, <2>1, <2>2
  <2> HIDE DEF q
  <2>4. CASE isBuffering \/ Len(q) = 1
    <3>1. FlushBuffer(q, awaiting \ {n}, FALSE)
      BY <2>2, <2>4 DEF Complete
    <3> QED
      BY <2>3, <3>1, FlushKeepsNotes
  <2>5. CASE ~ (isBuffering \/ Len(q) = 1)
    <3>1. FlushBuffer(Front(q), (awaiting \ {n}) \cup {Last(q)}, FALSE)
      BY <2>2, <2>5
    <3>2. MadeBetween(Front(q), Last(q).id, notified') /\ lastShown < Last(q).id /\ Last(q) \in Note
      BY <1>a, <2>3, FrontKeepsOrder
    <3>3. MadeBetween(Front(q), lastShown, notified')
      <4>1. Last(q).id \in Nat
        BY <3>2 DEF Note
      <4>2. PICK f \in Seq(Note) : f = Front(q)
        BY <3>2 DEF MadeBetween
      <4>3. \A i \in 1 .. Len(f) : f[i] \in Note
        OBVIOUS
      <4>4. \A i \in 1 .. Len(f) : f[i].id \in Nat
        BY <4>3 DEF Note
      <4> QED
        BY <1>a, <3>2, <4>1, <4>2, <4>4 DEF MadeBetween
    <3> QED
      BY <2>3, <3>1, <3>3, FlushKeepsNotes
  <2> QED
    BY <2>4, <2>5
<1>4. ASSUME UNCHANGED notifyVars PROVE NoteInv' /\ lastShown' >= lastShown
  BY <1>4, <1>a DEF notifyVars, NoteInv, Ended, QueueIsServed, TimerIsOwn
<1> QED
  BY <1>1, <1>2, <1>3, <1>4 DEF NotifyStep

(***************************************************************************)
(* Banners.  As long as only the first was ever dismissed, and the banners *)
(* stayed the same during its animation, the one that leaves on the screen *)
(* is the first, exactly while an animation runs.                          *)
(***************************************************************************)
Banner == [id : Nat, isExiting : BOOLEAN, isDismissable : BOOLEAN]

FirstIsLeaving ==
    ~ crossed =>
        /\ dequeues \in 0 .. 1
        /\ \A i \in 1 .. Len(banners) : banners[i].isExiting <=> i = 1 /\ dequeues = 1
        /\ dequeues = 1 => banners # <<>>

BannerInv ==
    /\ banners \in Seq(Banner) /\ Len(banners) <= bannersAdded
    /\ bannersAdded \in Nat /\ dequeues \in 0 .. MaxBanners
    /\ FirstIsLeaving

\* What happens to banners, of the steps of both.
BannerStep ==
    \/ \E type \in DOMAIN IsDismissable : AddBanner(type)
    \/ Dequeue
    \/ \E i \in DOMAIN banners : OnDismissBanner(i) \/ RemoveBanner(i)

\* A list of banners after one was added in front, or one was taken away.
OneInFront(list, b, more) ==
    /\ more = <<b>> \o list /\ more \in Seq(Banner) /\ Len(more) = Len(list) + 1 /\ more[1] = b
    /\ \A i \in 1 .. Len(more) : i # 1 => i - 1 \in 1 .. Len(list) /\ more[i] = list[i - 1]

LEMMA AddedInFront ==
    ASSUME NEW list \in Seq(Banner), NEW b \in Banner PROVE \E more : OneInFront(list, b, more)
<1> DEFINE more == <<b>> \o list
<1>1. /\ more \in Seq(Banner) /\ Len(more) = Len(list) + 1 /\ more[1] = b
      /\ \A i \in 1 .. Len(more) : i # 1 => i - 1 \in 1 .. Len(list) /\ more[i] = list[i - 1]
  OBVIOUS
<1>2. OneInFront(list, b, more)
  BY <1>1 DEF OneInFront
<1> QED
  BY <1>2

FewerBanners(list, i, rest) ==
    /\ rest = RemoveAt(list, i) /\ rest \in Seq(Banner) /\ Len(rest) = Len(list) - 1
    /\ \A k \in 1 .. Len(rest) : rest[k] = IF k < i THEN list[k] ELSE list[k + 1]
    /\ \A k \in 1 .. Len(rest) : k \in 1 .. Len(list) /\ k + 1 \in 1 .. Len(list)

LEMMA OneIsRemoved ==
    ASSUME NEW list \in Seq(Banner), NEW i \in DOMAIN list PROVE \E rest : FewerBanners(list, i, rest)
<1> DEFINE n == Len(list)  rest == Without(list, i)
<1>1. n \in Nat /\ i \in 1 .. n
  OBVIOUS
<1>2. /\ rest \in Seq(Banner) /\ Len(rest) = n - 1
      /\ \A k \in 1 .. n - 1 : rest[k] = IF k < i THEN list[k] ELSE list[k + 1]
  BY <1>1, WithoutEntry
<1>3. RemoveAt(list, i) = rest
  BY Zenon DEF RemoveAt, Without
<1> HIDE DEF rest
<1>4. FewerBanners(list, i, rest)
  BY <1>1, <1>2, <1>3 DEF FewerBanners
<1> QED
  BY <1>4

LEMMA BannerExitIs ==
    ASSUME NEW b \in Banner, NEW x \in BOOLEAN
    PROVE  [b EXCEPT !.isExiting = x] \in Banner /\ [b EXCEPT !.isExiting = x].isExiting = x
<1>1. [b EXCEPT !.isExiting = x] \in Banner
  BY DEF Banner
<1>2. [b EXCEPT !.isExiting = x].isExiting = x
  BY DEF Banner
<1> QED
  BY <1>1, <1>2

LEMMA BannerExits ==
    ASSUME NEW b \in Banner
    PROVE  [b EXCEPT !.isExiting = TRUE] \in Banner /\ [b EXCEPT !.isExiting = TRUE].isExiting
BY BannerExitIs

LEMMA BannerSteps == BannerInv /\ (BannerStep \/ UNCHANGED bannerVars) => BannerInv'
<1> SUFFICES ASSUME BannerInv, BannerStep \/ UNCHANGED bannerVars PROVE BannerInv'
  OBVIOUS
<1>a. /\ banners \in Seq(Banner) /\ Len(banners) \in Nat /\ Len(banners) <= bannersAdded
      /\ bannersAdded \in Nat /\ dequeues \in 0 .. MaxBanners /\ DOMAIN banners = 1 .. Len(banners)
      /\ MaxBanners \in Nat
  BY NotificationsAssumption DEF BannerInv
<1>b. \A i \in 1 .. Len(banners) : banners[i] \in Banner
  BY <1>a
<1>1. ASSUME NEW type \in DOMAIN IsDismissable, AddBanner(type) PROVE BannerInv'
  <2>1. PICK b \in Banner : ~ b.isExiting /\ banners' = <<b>> \o banners
    <3>a. IsDismissable[type] \in BOOLEAN
      <4>1. type = "info" \/ type = "confirm" \/ type = "error"
        BY DEF IsDismissable
      <4>2. IsDismissable["info"] = TRUE /\ IsDismissable["confirm"] = TRUE /\ IsDismissable["error"] = FALSE
        BY DEF IsDismissable
      <4> QED
        BY <4>1, <4>2
    <3>1. [id |-> bannersAdded + 1, isExiting |-> FALSE, isDismissable |-> IsDismissable[type]] \in Banner
      BY <1>a, <3>a DEF Banner
    <3> QED
      BY <1>1, <3>1 DEF AddBanner
  <2>2. PICK more : OneInFront(banners, b, more)
    BY <1>a, AddedInFront
  <2>3. banners' = more
    BY <2>1, <2>2 DEF OneInFront
  <2>4. /\ bannersAdded' = bannersAdded + 1 /\ dequeues' = dequeues
        /\ crossed' = (crossed \/ dequeues > 0)
    BY <1>1 DEF AddBanner
  <2>5. FirstIsLeaving'
    <3> SUFFICES ASSUME ~ crossed' PROVE dequeues = 0 /\ \A i \in 1 .. Len(more) : ~ more[i].isExiting
      BY <2>3, <2>4 DEF FirstIsLeaving
    <3>a. ~ crossed /\ ~ (dequeues > 0)
      BY Zenon, <2>4
    <3>1. ~ crossed /\ dequeues = 0
      BY <1>a, <3>a
    <3>2. \A i \in 1 .. Len(banners) : ~ banners[i].isExiting
      BY <3>1 DEF BannerInv, FirstIsLeaving
    <3> QED
      BY <2>1, <2>2, <3>1, <3>2 DEF OneInFront
  <2>6. banners' \in Seq(Banner) /\ Len(banners') <= bannersAdded'
    BY <1>a, <2>2, <2>3, <2>4 DEF OneInFront
  <2> QED
    BY <1>a, <2>4, <2>5, <2>6 DEF BannerInv
<1>2. ASSUME Dequeue PROVE BannerInv'
  <2>1. /\ dequeues > 0 /\ dequeues' = dequeues - 1 /\ UNCHANGED <<bannersAdded, crossed>>
        /\ banners' = IF banners = <<>> THEN banners ELSE Tail(banners)
    BY <1>2 DEF Dequeue
  <2>2. CASE banners = <<>>
    <3>1. banners' = banners /\ Len(banners) = 0
      BY <2>1, <2>2
    <3> QED
      BY <1>a, <2>1, <2>2, <3>1 DEF BannerInv, FirstIsLeaving
  <2>3. CASE banners # <<>>
    <3>1. /\ banners' \in Seq(Banner) /\ Len(banners') = Len(banners) - 1
          /\ \A i \in 1 .. Len(banners') : banners'[i] = banners[i + 1] /\ i + 1 \in 1 .. Len(banners)
      BY <1>a, <2>1, <2>3
    <3>2. FirstIsLeaving'
      <4>a. ASSUME ~ crossed, dequeues = 1, \A i \in 1 .. Len(banners') : ~ banners'[i].isExiting
            PROVE  FirstIsLeaving'
        <5>1. dequeues' = 0
          BY <2>1, <4>a
        <5> QED
          BY <4>a, <5>1 DEF FirstIsLeaving
      <4>b. crossed' = crossed
        BY <2>1
      <4>c. CASE crossed
        BY Zenon, <4>b, <4>c DEF FirstIsLeaving
      <4> SUFFICES ASSUME ~ crossed
                   PROVE  dequeues = 1 /\ \A i \in 1 .. Len(banners') : ~ banners'[i].isExiting
        BY <4>a, <4>c
      <4>1. dequeues = 1
        BY <2>1 DEF BannerInv, FirstIsLeaving
      <4>2. ASSUME NEW i \in 1 .. Len(banners') PROVE ~ banners'[i].isExiting
        <5>1. PICK k \in 1 .. Len(banners) : k # 1 /\ banners'[i] = banners[k]
          BY <3>1
        <5> QED
          BY <5>1 DEF BannerInv, FirstIsLeaving
      <4> QED
        BY <4>1, <4>2
    <3>a. dequeues \in Int /\ dequeues <= MaxBanners
      BY <1>a
    <3>3. dequeues' \in 0 .. MaxBanners
      BY <1>a, <2>1, <3>a
    <3>b. PICK n \in Nat, more \in Seq(Banner) : n = Len(banners) /\ more = banners'
      BY <1>a, <3>1
    <3>c. Len(more) = n - 1 /\ bannersAdded' = bannersAdded /\ n <= bannersAdded
      BY <1>a, <2>1, <3>1, <3>b
    <3>4. Len(banners') <= bannersAdded'
      BY <1>a, <3>b, <3>c
    <3> QED
      BY <1>a, <2>1, <3>1, <3>2, <3>3, <3>4 DEF BannerInv
  <2> QED
    BY <2>2, <2>3
<1>3. ASSUME NEW i \in DOMAIN banners, OnDismissBanner(i) PROVE BannerInv'
  <2>1. /\ dequeues < MaxBanners /\ dequeues' = dequeues + 1 /\ UNCHANGED bannersAdded
        /\ banners' = [banners EXCEPT ![i].isExiting = TRUE]
        /\ crossed' = (crossed \/ i # 1 \/ banners[i].isExiting)
    BY <1>3 DEF OnDismissBanner
  <2>2. i \in 1 .. Len(banners) /\ banners[i] \in Banner
    BY <1>a, <1>b
  <2>3. PICK b \in Banner : b = [banners[i] EXCEPT !.isExiting = TRUE] /\ b.isExiting
    <3> DEFINE b == [banners[i] EXCEPT !.isExiting = TRUE]
    <3>1. b \in Banner /\ b.isExiting
      BY <2>2, BannerExits
    <3> HIDE DEF b
    <3>2. b = [banners[i] EXCEPT !.isExiting = TRUE]
      BY DEF b
    <3> QED
      BY <3>1, <3>2
  <2>4. banners' = [banners EXCEPT ![i] = b]
    BY <2>1, <2>3
  <2>5. /\ banners' \in Seq(Banner) /\ Len(banners') = Len(banners) /\ banners'[i] = b
        /\ \A k \in 1 .. Len(banners) : k # i => banners'[k] = banners[k]
    BY <1>a, <2>2, <2>4
  <2>6. FirstIsLeaving'
    <3> SUFFICES ASSUME ~ crossed' PROVE FirstIsLeaving'
      BY DEF FirstIsLeaving
    <3>1. ~ crossed /\ i = 1 /\ ~ banners[i].isExiting
      BY <2>1
    <3>2. dequeues = 0 /\ \A k \in 1 .. Len(banners) : ~ banners[k].isExiting
      BY <2>2, <3>1 DEF BannerInv, FirstIsLeaving
    <3>3. dequeues' = 1 /\ banners' # <<>>
      BY <2>1, <2>2, <2>5, <3>2
    <3>4. \A k \in 1 .. Len(banners') : banners'[k].isExiting <=> k = 1
      BY <2>3, <2>5, <3>1, <3>2
    <3> QED
      BY <3>3, <3>4 DEF FirstIsLeaving
  <2> QED
    BY <1>a, <2>1, <2>5, <2>6 DEF BannerInv
<1>4. ASSUME NEW i \in DOMAIN banners, RemoveBanner(i) PROVE BannerInv'
  <2>1. /\ banners' = RemoveAt(banners, i) /\ crossed' = (crossed \/ dequeues > 0)
        /\ UNCHANGED <<dequeues, bannersAdded>>
    BY <1>4 DEF RemoveBanner
  <2>2. PICK rest : FewerBanners(banners, i, rest)
    BY <1>a, OneIsRemoved
  <2>3. banners' = rest
    BY <2>1, <2>2 DEF FewerBanners
  <2>4. FirstIsLeaving'
    <3> SUFFICES ASSUME ~ crossed' PROVE dequeues = 0 /\ \A k \in 1 .. Len(rest) : ~ rest[k].isExiting
      BY <2>1, <2>3 DEF FirstIsLeaving
    <3>a. ~ crossed /\ ~ (dequeues > 0)
      BY Zenon, <2>1
    <3>1. ~ crossed /\ dequeues = 0
      BY <1>a, <3>a
    <3>2. \A k \in 1 .. Len(banners) : ~ banners[k].isExiting
      BY <3>1 DEF BannerInv, FirstIsLeaving
    <3> QED
      BY <2>2, <3>1, <3>2 DEF FewerBanners
  <2>5. banners' \in Seq(Banner) /\ Len(banners') <= bannersAdded'
    BY <1>a, <2>1, <2>2, <2>3 DEF FewerBanners
  <2> QED
    BY <1>a, <2>1, <2>4, <2>5 DEF BannerInv
<1>5. ASSUME UNCHANGED bannerVars PROVE BannerInv'
  BY <1>5 DEF bannerVars, BannerInv, FirstIsLeaving
<1> QED
  BY <1>1, <1>2, <1>3, <1>4, <1>5 DEF BannerStep

LEMMA NotifyStarts == NotifyInit => NoteInv /\ BannerInv
<1> SUFFICES ASSUME NotifyInit PROVE NoteInv /\ BannerInv
  OBVIOUS
<1>1. NoteInv
  <2>1. << >> \in Seq(Note) /\ Len(<< >>) = 0
    OBVIOUS
  <2>2. /\ queue = << >> /\ activeNotification = {} /\ isShowingNotification = FALSE
        /\ toastTimers = {} /\ isBuffering = FALSE /\ awaiting = {} /\ notified = 0 /\ lastShown = 0
    BY DEF NotifyInit
  <2>3. MadeBetween(queue, lastShown, notified)
    BY <2>1, <2>2 DEF MadeBetween
  <2>4. Ended /\ QueueIsServed /\ TimerIsOwn
    BY <2>2 DEF Ended, QueueIsServed, TimerIsOwn
  <2>5. lastShown \in 0 .. notified
    BY <2>2
  <2> QED
    BY <2>2, <2>3, <2>4, <2>5 DEF NoteInv
<1>2. BannerInv
  <2>1. PICK n \in Nat : n = bannersAdded
    BY NotificationsAssumption DEF NotifyInit
  <2>2. banners = [i \in 1 .. n |-> [id |-> n + 1 - i, isExiting |-> FALSE, isDismissable |-> TRUE]]
    BY <2>1 DEF NotifyInit, AppInitialBanners
  <2>3. \A i \in 1 .. n : [id |-> n + 1 - i, isExiting |-> FALSE, isDismissable |-> TRUE] \in Banner
    BY DEF Banner
  <2>4. banners \in Seq(Banner) /\ Len(banners) = n
    BY <2>2, <2>3
  <2>5. \A i \in 1 .. n : ~ banners[i].isExiting
    BY <2>2
  <2> QED
    BY <2>1, <2>4, <2>5, NotificationsAssumption DEF NotifyInit, BannerInv, FirstIsLeaving
<1> QED
  BY <1>1, <1>2

LEMMA NotifyGives ==
    NoteInv /\ BannerInv =>
        NotifyTypeOK /\ QueueIsServed /\ TimerIsOwn /\ DismissedBannerLeaves /\ OffsetWhileBanners
<1> SUFFICES ASSUME NoteInv, BannerInv
             PROVE  NotifyTypeOK /\ QueueIsServed /\ TimerIsOwn /\ DismissedBannerLeaves /\ OffsetWhileBanners
  OBVIOUS
<1>1. NotifyTypeOK
  <2>1. \A i \in DOMAIN queue : queue[i].id \in 1..notified /\ queue[i].kind \in {"modal", "sticky", "toast"}
    <3>1. PICK q \in Seq(Note) : q = queue
      BY DEF NoteInv, MadeBetween
    <3>2. \A i \in DOMAIN q : i \in 1 .. Len(q) /\ q[i] \in Note
      OBVIOUS
    <3>3. \A i \in DOMAIN q : q[i].id \in Nat /\ q[i].kind \in {"modal", "sticky", "toast"}
      BY <3>2 DEF Note
    <3>4. \A i \in DOMAIN q : lastShown < q[i].id /\ q[i].id <= notified
      BY <3>1, <3>2 DEF NoteInv, MadeBetween
    <3> QED
      BY <3>1, <3>3, <3>4 DEF NoteInv
  <2>2. Cardinality(activeNotification) <= 1
    <3>1. CASE activeNotification = {}
      BY <3>1, FS_EmptySet
    <3>2. ASSUME NEW n \in Note, activeNotification = {n} PROVE Cardinality(activeNotification) <= 1
      <4>1. Cardinality({n}) = 1
        BY FS_Singleton
      <4> QED
        BY <3>2, <4>1
    <3> QED
      BY <3>1, <3>2 DEF NoteInv, Ended
  <2> QED
    BY <2>1, <2>2 DEF NotifyTypeOK, NoteInv, Ended, BannerInv
<1>2. DismissedBannerLeaves
  <2>1. DOMAIN banners = 1 .. Len(banners)
    BY DEF BannerInv
  <2> QED
    BY <2>1 DEF DismissedBannerLeaves, BannerInv, FirstIsLeaving
<1>3. OffsetWhileBanners
  <2> SUFFICES ASSUME ~ crossed
               PROVE  IsShowingBanners <=> \E i \in DOMAIN banners : ~ banners[i].isExiting
    BY DEF OffsetWhileBanners
  <2>1. DOMAIN banners = 1 .. Len(banners) /\ Len(banners) \in Nat /\ (banners = <<>> <=> Len(banners) = 0)
    BY DEF BannerInv
  <2>2. \A i \in 1 .. Len(banners) : banners[i].isExiting <=> i = 1 /\ dequeues = 1
    BY DEF BannerInv, FirstIsLeaving
  <2>3. ASSUME IsShowingBanners PROVE \E i \in DOMAIN banners : ~ banners[i].isExiting
    <3>1. CASE Len(banners) > 1
      <4>1. 2 \in 1 .. Len(banners)
        BY <2>1, <3>1
      <4> QED
        BY <2>1, <2>2, <4>1
    <3>2. CASE ~ (Len(banners) > 1)
      <4>1. 1 \in 1 .. Len(banners) /\ ~ banners[1].isExiting
        BY <2>1, <2>3, <3>2 DEF IsShowingBanners
      <4> QED
        BY <2>1, <4>1
    <3> QED
      BY <3>1, <3>2
  <2>4. ASSUME NEW i \in DOMAIN banners, ~ banners[i].isExiting PROVE IsShowingBanners
    <3>1. CASE i = 1
      BY <2>1, <2>4, <3>1 DEF IsShowingBanners
    <3>2. CASE i # 1
      BY <2>1, <3>2 DEF IsShowingBanners
    <3> QED
      BY <3>1, <3>2
  <2> QED
    BY <2>3, <2>4
<1> QED
  BY <1>1, <1>2, <1>3 DEF NoteInv

(* Nothing notified is forgotten: what waits waits for what is on the      *)
(* screen, and is shown in the order in which it was made; a toast is      *)
(* taken away by its own timer; and a dismissed banner is the one that     *)
(* leaves, for any number of notifications and banners.                    *)
THEOREM NotifiedAreServed == NotifySpec => NotificationsAreServed
<1> DEFINE Next == [NotifyNext]_<<notifyVars, bannerVars>>
           Later == lastShown' >= lastShown
<1>1. Next => (NotifyStep \/ UNCHANGED notifyVars) /\ (BannerStep \/ UNCHANGED bannerVars)
  BY Zenon DEF NotifyNext, NotifyStep, BannerStep
<1>2. NoteInv /\ BannerInv /\ Next => NoteInv' /\ BannerInv' /\ Later
  <2> HIDE DEF Next, Later
  <2>1. NoteInv /\ Next => NoteInv' /\ Later
    BY <1>1, NoteSteps DEF Later
  <2>2. BannerInv /\ Next => BannerInv'
    BY <1>1, BannerSteps
  <2> QED
    BY <2>1, <2>2
<1>3. NoteInv /\ BannerInv /\ Next => [Later]_lastShown
  BY <1>2
<1>4. NotifySpec => [](NoteInv /\ BannerInv)
  BY <1>2, NotifyStarts, PTL DEF NotifySpec, Next
<1>5. NotifySpec => [](NotifyTypeOK /\ QueueIsServed /\ TimerIsOwn
                        /\ DismissedBannerLeaves /\ OffsetWhileBanners)
  BY <1>4, NotifyGives, PTL
<1>6. NotifySpec => [][Later]_lastShown
  BY <1>3, <1>4, PTL DEF NotifySpec, Next
<1>7. NotifySpec => ShownInOrder
  BY <1>6, PTL DEF ShownInOrder, Later
<1> QED
  BY <1>5, <1>7, PTL DEF NotificationsAreServed

(***************************************************************************)
(* The session.  The analytics were told the user exactly when the client  *)
(* remembers it.  Every satisfying click, and the one still measured, is a *)
(* click of its own; and while the user has not strayed, who measures it   *)
(* is on the search page or on the page of the result that was clicked.    *)
(***************************************************************************)
UserInv ==
    /\ SessTypeOK
    /\ identified = (IF hasUserBeenTracked THEN 1 ELSE 0)
    /\ hasUserBeenTracked => currentUser
    /\ authenticating => appPhase = "ready"

DwellInv ==
    /\ clicks \in Nat /\ satClicks \in Nat
    /\ satClicks + (IF startTime = 0 THEN 0 ELSE 1) <= clicks
    /\ startTime # 0 /\ ~ strayed =>
         clickedSearchResultUrn \in Results /\ page \in {"search", clickedSearchResultUrn}

SessInv == UserInv /\ DwellInv

\* What a step may count.
CountsOwnResult == satClicks' > satClicks /\ ~ strayed' => page = clickedSearchResultUrn

LEMMA RouteKeepsDwell ==
    ASSUME SessTypeOK, DwellInv, NEW to, RouteDidChange(to)
    PROVE  DwellInv' /\ CountsOwnResult /\ startTime' \in 0 .. now
<1> DEFINE sat == startTime # 0 /\ IsSATClick(now - startTime, page, to)
<1>1. /\ page' = to /\ UNCHANGED <<now, clickedSearchResultUrn, clicks>>
      /\ satClicks' = IF sat THEN satClicks + 1 ELSE satClicks
      /\ startTime' = IF sat THEN 0 ELSE startTime
  BY DEF RouteDidChange, Record, ResetDwellTimeTracking
<1>2. /\ strayed => strayed'
      /\ startTime # 0 /\ page = "search" /\ to # clickedSearchResultUrn => strayed'
      /\ startTime # 0 /\ page # "search" /\ startTime' # 0 => strayed'
  BY Zenon DEF RouteDidChange
<1>3. sat => startTime # 0 /\ (to # "search" => page \in Results)
  BY Zenon DEF IsSATClick, IsRouteEntityPageRoute
<1>4. PICK m \in Nat : now = m /\ startTime \in 0 .. m
  BY SessionAssumption DEF SessTypeOK
<1> HIDE DEF sat
<1>5. startTime' \in 0 .. now
  BY <1>1, <1>4
<1>6. clicks' \in Nat /\ satClicks' \in Nat /\ satClicks' + (IF startTime' = 0 THEN 0 ELSE 1) <= clicks'
  <2>1. CASE sat
    BY <1>1, <1>3, <2>1 DEF DwellInv
  <2>2. CASE ~ sat
    BY <1>1, <2>2 DEF DwellInv
  <2> QED
    BY <2>1, <2>2
<1>7. ASSUME startTime' # 0, ~ strayed'
      PROVE  clickedSearchResultUrn' \in Results /\ page' \in {"search", clickedSearchResultUrn'}
  <2>1. ~ sat /\ startTime # 0 /\ ~ strayed
    BY <1>1, <1>2, <1>7
  <2>2. page = "search" /\ to = clickedSearchResultUrn
    BY <1>2, <1>7, <2>1
  <2> QED
    BY <1>1, <2>1, <2>2 DEF DwellInv
<1>8. CountsOwnResult
  <2> SUFFICES ASSUME satClicks' > satClicks, ~ strayed' PROVE page = clickedSearchResultUrn
    BY DEF CountsOwnResult
  <2>1. sat
    BY <1>1 DEF DwellInv
  <2>2. startTime # 0 /\ ~ strayed
    BY <1>2, <1>3, <2>1
  <2>3. clickedSearchResultUrn \in Results /\ page \in {"search", clickedSearchResultUrn}
    BY <2>2 DEF DwellInv
  <2>4. ASSUME page = "search" PROVE FALSE
    <3>1. to = clickedSearchResultUrn
      BY <1>2, <2>2, <2>4
    <3>2. "search" \in Results
      BY <1>3, <2>1, <2>3, <2>4, <3>1
    <3> QED
      BY <3>2, SessionAssumption
  <2> QED
    BY <2>3, <2>4
<1>9. DwellInv'
  BY <1>6, <1>7 DEF DwellInv
<1> QED
  BY <1>5, <1>8, <1>9

LEMMA TrackedOnce ==
    ASSUME UserInv, UNCHANGED currentUser, TrackCurrentUser(currentUser)
    PROVE  /\ hasUserBeenTracked' \in BOOLEAN
           /\ identified' = (IF hasUserBeenTracked' THEN 1 ELSE 0)
           /\ hasUserBeenTracked' => currentUser'
<1>1. hasUserBeenTracked \in BOOLEAN /\ currentUser \in BOOLEAN /\ (hasUserBeenTracked => currentUser)
  BY DEF UserInv, SessTypeOK
<1>2. hasUserBeenTracked' = currentUser
  <2>1. hasUserBeenTracked' = (hasUserBeenTracked \/ currentUser)
    BY DEF TrackCurrentUser
  <2> QED
    BY Zenon, <1>1, <2>1
<1>3. CASE currentUser /\ ~ hasUserBeenTracked
  <2>1. identified' = identified + 1 /\ identified = 0
    BY <1>3 DEF UserInv, TrackCurrentUser
  <2>2. hasUserBeenTracked' = TRUE /\ currentUser' = TRUE
    BY <1>1, <1>2, <1>3
  <2>3. identified' = (IF hasUserBeenTracked' THEN 1 ELSE 0)
    BY <2>1, <2>2
  <2> QED
    BY <2>2, <2>3
<1>4. CASE ~ (currentUser /\ ~ hasUserBeenTracked)
  <2>1. identified' = identified
    BY <1>4 DEF TrackCurrentUser
  <2>2. currentUser = hasUserBeenTracked
    BY Zenon, <1>1, <1>4
  <2>3. hasUserBeenTracked' = hasUserBeenTracked
    BY <1>2, <2>2
  <2>4. identified' = (IF hasUserBeenTracked' THEN 1 ELSE 0)
    BY <2>1, <2>3 DEF UserInv
  <2> QED
    BY <1>1, <2>2, <2>3, <2>4
<1> QED
  BY <1>3, <1>4

LEMMA RestartIsFresh ==
    ASSUME NEW session \in BOOLEAN, Restart(session) PROVE SessInv' /\ satClicks' = 0
<1>1. /\ isAuthenticated' = session /\ userTask' = session /\ appPhase' = "beforeModel"
      /\ currentUser' = FALSE /\ configLoaded' = FALSE /\ avatarOfUser' = FALSE
      /\ hasUserBeenTracked' = FALSE /\ identified' = 0 /\ authenticating' = FALSE /\ errorMessage' = FALSE
      /\ page' = "none" /\ now' = 1 /\ startTime' = 0 /\ clickedSearchResultUrn' = "none"
      /\ clicks' = 0 /\ satClicks' = 0 /\ strayed' = FALSE
  BY DEF Restart
<1>2. SessTypeOK'
  <2>1. now' \in 1 .. MaxTime /\ startTime' \in 0 .. now'
    BY <1>1, SessionAssumption
  <2>2. {isAuthenticated', userTask', currentUser', configLoaded', avatarOfUser', hasUserBeenTracked',
         authenticating', errorMessage', strayed'} \subseteq BOOLEAN
    BY <1>1
  <2> QED
    BY <1>1, <2>1, <2>2 DEF SessTypeOK
<1>3. UserInv'
  BY <1>1, <1>2 DEF UserInv
<1>4. DwellInv'
  BY <1>1 DEF DwellInv
<1> QED
  BY <1>1, <1>3, <1>4 DEF SessInv

(* A step of the session keeps what is known, and counts only a result     *)
(* that is left.                                                           *)
LEMMA SessSteps == SessInv /\ [SessNext]_sessVars => SessInv' /\ CountsOwnResult
<1> SUFFICES ASSUME SessInv, [SessNext]_sessVars PROVE SessInv' /\ CountsOwnResult
  OBVIOUS
<1>a. UserInv /\ DwellInv /\ SessTypeOK
  BY DEF SessInv, UserInv
<1>b. /\ {isAuthenticated, userTask, currentUser, configLoaded, avatarOfUser, hasUserBeenTracked,
          authenticating, errorMessage, strayed} \subseteq BOOLEAN
      /\ appPhase \in {"beforeModel", "ready", "failed"}
      /\ page \in Pages \cup {"login", "none"} /\ (page # "none" <=> appPhase = "ready")
      /\ appPhase = "ready" => configLoaded
      /\ now \in 1 .. MaxTime /\ startTime \in 0 .. now /\ clickedSearchResultUrn \in Results \cup {"none"}
      /\ "none" \notin Pages /\ "login" # "none"
  BY <1>a, SessionAssumption DEF SessTypeOK, Pages
\* Who stays on the page and measures nothing else.
<1>c. ASSUME UNCHANGED dwellVars, page' = page \/ page = "none" PROVE DwellInv' /\ CountsOwnResult
  <2>1. UNCHANGED <<clicks, satClicks, startTime, strayed, clickedSearchResultUrn>>
    BY <1>c DEF dwellVars
  <2>2. page = "none" => ~ (startTime # 0 /\ ~ strayed)
    BY <1>a, SessionAssumption DEF DwellInv
  <2>3. DwellInv'
    BY <1>a, <1>c, <2>1, <2>2 DEF DwellInv
  <2>4. CountsOwnResult
    BY <1>a, <2>1 DEF CountsOwnResult, DwellInv
  <2> QED
    BY <2>3, <2>4
<1>d. ASSUME NEW session \in BOOLEAN, Restart(session) PROVE SessInv' /\ CountsOwnResult
  BY <1>a, <1>d, RestartIsFresh DEF CountsOwnResult, DwellInv
<1>1. ASSUME NEW ok \in BOOLEAN, Load(ok) PROVE SessInv' /\ CountsOwnResult
  <2>1. CASE ok
    <3>1. /\ userTask' = FALSE /\ currentUser' = TRUE
          /\ UNCHANGED <<appPhase, isAuthenticated, configLoaded, avatarOfUser, hasUserBeenTracked,
                         identified, authenticating, errorMessage, page, dwellVars>>
      BY <1>1, <2>1 DEF Load
    <3>2. SessTypeOK'
      BY <1>b, <3>1 DEF SessTypeOK, dwellVars
    <3>3. UserInv'
      BY <1>a, <3>1, <3>2 DEF UserInv
    <3> QED
      BY <1>c, <3>1, <3>3 DEF SessInv
  <2>2. CASE ~ ok
    BY <1>1, <1>d, <2>2 DEF Load, InvalidateSession
  <2> QED
    BY <2>1, <2>2
<1>2. ASSUME NEW ok \in BOOLEAN, LoadConfig(ok) PROVE SessInv' /\ CountsOwnResult
  <2>1. /\ appPhase = "beforeModel" /\ configLoaded' = ok /\ appPhase' \in {"beforeModel", "failed"}
        /\ UNCHANGED <<isAuthenticated, userTask, currentUser, avatarOfUser, hasUserBeenTracked, identified,
                       authenticating, errorMessage, page, dwellVars>>
    BY <1>2 DEF LoadConfig
  <2>2. SessTypeOK'
    BY <1>b, <2>1 DEF SessTypeOK, dwellVars
  <2>3. UserInv'
    BY <1>a, <2>1, <2>2 DEF UserInv
  <2> QED
    BY <1>c, <2>1, <2>3 DEF SessInv
<1>3. ASSUME AfterModel PROVE SessInv' /\ CountsOwnResult
  <2>1. /\ appPhase = "beforeModel" /\ configLoaded /\ appPhase' = "ready" /\ avatarOfUser' = currentUser
        /\ page' \in Pages \cup {"login"}
        /\ UNCHANGED <<isAuthenticated, userTask, currentUser, configLoaded, authenticating, errorMessage,
                       dwellVars>>
    BY <1>3 DEF AfterModel
  <2>2. /\ hasUserBeenTracked' \in BOOLEAN
        /\ identified' = (IF hasUserBeenTracked' THEN 1 ELSE 0)
        /\ hasUserBeenTracked' => currentUser'
    BY <1>3, <1>a, <2>1, TrackedOnce DEF AfterModel
  <2>3. SessTypeOK'
    BY <1>b, <2>1, <2>2 DEF SessTypeOK, dwellVars
  <2>4. UserInv'
    BY <2>1, <2>2, <2>3 DEF UserInv
  <2>5. page = "none"
    BY <1>b, <2>1
  <2> QED
    BY <1>c, <2>1, <2>4, <2>5 DEF SessInv
<1>4. ASSUME AuthenticateUser \/ BadCredentials PROVE SessInv' /\ CountsOwnResult
  <2>1. /\ appPhase = "ready" /\ authenticating' \in BOOLEAN /\ errorMessage' \in BOOLEAN
        /\ UNCHANGED <<appPhase, isAuthenticated, userTask, currentUser, configLoaded, avatarOfUser,
                       hasUserBeenTracked, identified, page, dwellVars>>
    <3>1. CASE AuthenticateUser
      BY <1>b, <3>1 DEF AuthenticateUser
    <3>2. CASE BadCredentials
      BY <1>a, <3>2 DEF BadCredentials, UserInv
    <3> QED
      BY <1>4, <3>1, <3>2
  <2>2. SessTypeOK'
    BY <1>b, <2>1 DEF SessTypeOK, dwellVars
  <2>3. UserInv'
    BY <1>a, <2>1, <2>2 DEF UserInv
  <2> QED
    BY <1>c, <2>1, <2>3 DEF SessInv
\* A route that changes in an application that is ready.
<1>e. ASSUME NEW to \in Pages, RouteDidChange(to), appPhase = "ready",
             UNCHANGED <<appPhase, currentUser, configLoaded, avatarOfUser>>,
             {isAuthenticated', userTask', authenticating', errorMessage', hasUserBeenTracked'} \subseteq BOOLEAN,
             identified' = (IF hasUserBeenTracked' THEN 1 ELSE 0),
             hasUserBeenTracked' => currentUser'
      PROVE  SessInv' /\ CountsOwnResult
  <2>1. page' = to /\ UNCHANGED <<now, clickedSearchResultUrn>> /\ strayed' \in BOOLEAN
    BY <1>e DEF RouteDidChange
  <2>2. DwellInv' /\ CountsOwnResult /\ startTime' \in 0 .. now
    BY <1>a, <1>e, RouteKeepsDwell
  <2>3. SessTypeOK'
    BY <1>b, <1>e, <2>1, <2>2 DEF SessTypeOK
  <2>4. UserInv'
    BY <1>e, <2>3 DEF UserInv
  <2> QED
    BY <2>2, <2>4 DEF SessInv
<1>5. ASSUME SessionAuthenticated PROVE SessInv' /\ CountsOwnResult
  <2>1. /\ authenticating /\ authenticating' = FALSE /\ isAuthenticated' = TRUE /\ userTask' = TRUE
        /\ TrackCurrentUser(currentUser) /\ RouteDidChange("browse")
        /\ UNCHANGED <<appPhase, currentUser, configLoaded, avatarOfUser, errorMessage>>
    BY <1>5 DEF SessionAuthenticated
  <2>2. appPhase = "ready" /\ "browse" \in Pages
    BY <1>a, <2>1 DEF UserInv, Pages
  <2>3. /\ hasUserBeenTracked' \in BOOLEAN
        /\ identified' = (IF hasUserBeenTracked' THEN 1 ELSE 0)
        /\ hasUserBeenTracked' => currentUser'
    BY <1>a, <2>1, TrackedOnce
  <2> QED
    BY <1>b, <1>e, <2>1, <2>2, <2>3
<1>6. ASSUME NEW to \in Pages, Visit(to) PROVE SessInv' /\ CountsOwnResult
  <2>1. page \in Pages /\ RouteDidChange(to) /\ UNCHANGED userVars
    BY <1>6 DEF Visit
  <2>2. appPhase = "ready"
    BY <1>b, <2>1
  <2> QED
    BY <1>a, <1>b, <1>e, <2>1, <2>2 DEF userVars, UserInv
<1>7. ASSUME VisitIndex PROVE SessInv' /\ CountsOwnResult
  <2>1. /\ page \in Pages /\ TrackCurrentUser(currentUser) /\ RouteDidChange("browse")
        /\ UNCHANGED <<appPhase, isAuthenticated, userTask, currentUser, configLoaded, avatarOfUser,
                       authenticating, errorMessage>>
    BY <1>7 DEF VisitIndex
  <2>2. appPhase = "ready" /\ "browse" \in Pages
    BY <1>b, <2>1 DEF Pages
  <2>3. /\ hasUserBeenTracked' \in BOOLEAN
        /\ identified' = (IF hasUserBeenTracked' THEN 1 ELSE 0)
        /\ hasUserBeenTracked' => currentUser'
    BY <1>a, <2>1, TrackedOnce
  <2> QED
    BY <1>b, <1>e, <2>1, <2>2, <2>3
<1>8. ASSUME Logout \/ Reload PROVE SessInv' /\ CountsOwnResult
  BY <1>8, <1>b, <1>d DEF Logout, Reload, InvalidateSession
<1>9. ASSUME NEW u \in Results, DidClickSearchResult(u) PROVE SessInv' /\ CountsOwnResult
  <2>1. /\ page = "search" /\ startTime' = now /\ clickedSearchResultUrn' = u /\ clicks' = clicks + 1
        /\ strayed' = FALSE /\ UNCHANGED <<userVars, page, now, satClicks>>
    BY <1>9 DEF DidClickSearchResult, BeginTracking
  <2>2. /\ UNCHANGED <<appPhase, isAuthenticated, userTask, currentUser, configLoaded, avatarOfUser,
                       hasUserBeenTracked, identified, authenticating, errorMessage>>
    BY <2>1 DEF userVars
  <2>3. startTime' \in 0 .. now'
    BY <1>b, <2>1, SessionAssumption
  <2>4. SessTypeOK'
    BY <1>b, <2>1, <2>2, <2>3 DEF SessTypeOK
  <2>5. UserInv'
    BY <1>a, <2>2, <2>4 DEF UserInv
  <2>6. DwellInv'
    <3>1. satClicks + 0 <= clicks
      BY <1>a DEF DwellInv
    <3> QED
      BY <1>a, <2>1, <3>1 DEF DwellInv
  <2>7. CountsOwnResult
    BY <1>a, <2>1 DEF DwellInv, CountsOwnResult
  <2> QED
    BY <2>5, <2>6, <2>7 DEF SessInv
<1>10. ASSUME Tick PROVE SessInv' /\ CountsOwnResult
  <2>1. /\ now < MaxTime /\ now' = now + 1
        /\ UNCHANGED <<userVars, page, startTime, clickedSearchResultUrn, clicks, satClicks, strayed>>
    BY <1>10 DEF Tick
  <2>2. /\ UNCHANGED <<appPhase, isAuthenticated, userTask, currentUser, configLoaded, avatarOfUser,
                       hasUserBeenTracked, identified, authenticating, errorMessage>>
    BY <2>1 DEF userVars
  <2>3. now' \in 1 .. MaxTime /\ startTime' \in 0 .. now'
    BY <1>b, <2>1, SessionAssumption
  <2>4. SessTypeOK'
    BY <1>b, <2>1, <2>2, <2>3 DEF SessTypeOK
  <2>5. UserInv'
    BY <1>a, <2>2, <2>4 DEF UserInv
  <2>6. DwellInv'
    BY <1>a, <2>1 DEF DwellInv
  <2>7. CountsOwnResult
    BY <1>a, <2>1 DEF DwellInv, CountsOwnResult
  <2> QED
    BY <2>5, <2>6, <2>7 DEF SessInv
<1>11. ASSUME UNCHANGED sessVars PROVE SessInv' /\ CountsOwnResult
  <2>1. UNCHANGED <<userVars, page, dwellVars>>
    BY <1>11 DEF sessVars
  <2>2. SessTypeOK'
    BY <1>b, <2>1 DEF SessTypeOK, userVars, dwellVars
  <2>3. UserInv'
    BY <1>a, <2>1, <2>2 DEF UserInv, userVars
  <2> QED
    BY <1>c, <2>1, <2>3 DEF SessInv
<1> QED
  BY <1>1, <1>2, <1>3, <1>4, <1>5, <1>6, <1>7, <1>8, <1>9, <1>10, <1>11 DEF SessNext

LEMMA SessStarts == SessInit => SessInv
<1> SUFFICES ASSUME SessInit PROVE SessInv
  OBVIOUS
<1>1. /\ isAuthenticated \in BOOLEAN /\ userTask = isAuthenticated /\ appPhase = "beforeModel"
      /\ currentUser = FALSE /\ configLoaded = FALSE /\ avatarOfUser = FALSE
      /\ hasUserBeenTracked = FALSE /\ identified = 0 /\ authenticating = FALSE /\ errorMessage = FALSE
      /\ page = "none" /\ now = 1 /\ startTime = 0 /\ clickedSearchResultUrn = "none"
      /\ clicks = 0 /\ satClicks = 0 /\ strayed = FALSE
  BY DEF SessInit
<1>2. now \in 1 .. MaxTime /\ startTime \in 0 .. now
  BY <1>1, SessionAssumption
<1>3. {isAuthenticated, userTask, currentUser, configLoaded, avatarOfUser, hasUserBeenTracked,
       authenticating, errorMessage, strayed} \subseteq BOOLEAN
  BY <1>1
<1>4. SessTypeOK
  BY <1>1, <1>2, <1>3 DEF SessTypeOK
<1>5. UserInv
  BY <1>1, <1>4 DEF UserInv
<1>6. DwellInv
  BY <1>1 DEF DwellInv
<1> QED
  BY <1>5, <1>6 DEF SessInv

LEMMA SessGives == SessInv => SessTypeOK /\ IdentifiedOnce /\ SatisfiedOncePerClick
<1> SUFFICES ASSUME SessInv PROVE SessTypeOK /\ IdentifiedOnce /\ SatisfiedOncePerClick
  OBVIOUS
<1>1. SessTypeOK
  BY DEF SessInv, UserInv
<1>2. IdentifiedOnce
  <2>1. CASE hasUserBeenTracked
    BY <2>1 DEF SessInv, UserInv, IdentifiedOnce
  <2>2. CASE ~ hasUserBeenTracked
    BY <2>2 DEF SessInv, UserInv, IdentifiedOnce
  <2> QED
    BY <2>1, <2>2
<1>3. SatisfiedOncePerClick
  BY DEF SessInv, DwellInv, SatisfiedOncePerClick
<1> QED
  BY <1>1, <1>2, <1>3

(* The analytics are told the user once and only when known, and a click   *)
(* counts as satisfying at most once and for the result it was on, however *)
(* the user moves, logs in, out, and reloads.                              *)
THEOREM SessionIsKnown == SessSpec => SessionIsTracked
<1>1. SessInv /\ [SessNext]_sessVars => SessInv'
  BY SessSteps
<1>2. SessInv /\ [SessNext]_sessVars => [CountsOwnResult]_<<satClicks, page>>
  BY SessSteps
<1>3. SessSpec => []SessInv
  BY <1>1, SessStarts, PTL DEF SessSpec
<1>4. SessSpec => [](SessTypeOK /\ IdentifiedOnce /\ SatisfiedOncePerClick)
  BY <1>3, SessGives, PTL
<1>5. SessSpec => [][CountsOwnResult]_<<satClicks, page>>
  BY <1>2, <1>3, PTL DEF SessSpec
<1>6. SessSpec => SatisfiedByResult
  BY <1>5, PTL DEF SatisfiedByResult, CountsOwnResult
<1> QED
  BY <1>4, <1>6, PTL DEF SessionIsTracked

(***************************************************************************)
(* The drop downs.  At most one hide task waits, the last one, and none    *)
(* while the mouse is over the trigger or the content; the caret is up     *)
(* exactly then.                                                           *)
(***************************************************************************)
DropdownInv ==
    /\ DropdownTypeOK
    /\ hideTasks \subseteq {mostRecentHideTask}
    /\ mouseOver # "outside" => dropdownOpen /\ hideTasks = {}
    /\ isExpanded <=> mouseOver # "outside"

LEMMA DropdownSteps == DropdownInv /\ [DropdownNext]_dropdownVars => DropdownInv'
<1> SUFFICES ASSUME DropdownInv, [DropdownNext]_dropdownVars PROVE DropdownInv'
  OBVIOUS
<1> USE DEF DropdownInv
<1>1. ASSUME NEW part \in {"trigger", "content"}, MouseEnter(part) PROVE DropdownInv'
  <2>1. /\ mouseOver' = part /\ hideTasks' = hideTasks \ {mostRecentHideTask}
        /\ isExpanded' = TRUE /\ dropdownOpen' = TRUE
        /\ UNCHANGED <<dropdownCode, mostRecentHideTask, selectedDropDown, onSelected>>
    BY <1>1 DEF MouseEnter, ShowDropDown, ShowHoverDropDown, ShowFabrics, Show
  <2>2. hideTasks' = {}
    BY <2>1
  <2>3. DropdownTypeOK'
    BY <2>1, <2>2 DEF DropdownTypeOK
  <2> QED
    BY <2>1, <2>2, <2>3
<1>2. ASSUME MouseLeave PROVE DropdownInv'
  <2>1. PICK id \in HideIds : /\ hideTasks' = hideTasks \cup {id} /\ mostRecentHideTask' = id
                              /\ isExpanded' = FALSE
    BY <1>2 DEF MouseLeave, HideDropDown, HideHoverDropDown, HideFabrics, Hide
  <2>2. /\ mouseOver # "outside" /\ mouseOver' = "outside"
        /\ UNCHANGED <<dropdownCode, dropdownOpen, selectedDropDown, onSelected>>
    BY <1>2 DEF MouseLeave
  <2>3. hideTasks' = {id}
    BY <2>1, <2>2
  <2>4. DropdownTypeOK'
    BY <2>1, <2>2, <2>3 DEF DropdownTypeOK
  <2> QED
    BY <2>1, <2>2, <2>3, <2>4
<1>3. ASSUME ClickOutside PROVE DropdownInv'
  BY <1>3 DEF ClickOutside, DropdownTypeOK
<1>4. ASSUME NEW id \in HideIds, HideTaskEnds(id) PROVE DropdownInv'
  BY <1>4 DEF HideTaskEnds, DropdownTypeOK
<1>5. ASSUME NEW item \in DropDownItems, SelectItem(item) PROVE DropdownInv'
  <2>1. /\ onSelected' = item /\ selectedDropDown' \in {selectedDropDown, item}
        /\ (dropdownCode # "portal" => selectedDropDown' = selectedDropDown)
        /\ UNCHANGED <<dropdownCode, mouseOver, dropdownOpen, isExpanded, hideTasks, mostRecentHideTask>>
    BY <1>5 DEF SelectItem, OnDropDownSelect, OnHoverDropDownSelect
  <2> QED
    BY <2>1 DEF DropdownTypeOK
<1>6. ASSUME UNCHANGED dropdownVars PROVE DropdownInv'
  BY <1>6 DEF dropdownVars, DropdownTypeOK
<1> QED
  BY <1>1, <1>2, <1>3, <1>4, <1>5, <1>6 DEF DropdownNext

(* The content is open as long as the mouse is over it or its trigger, and *)
(* the caret never says so when it is not, whatever came and went before.  *)
THEOREM DropdownIsOpenWhileOver ==
    DropdownSpec => [](DropdownTypeOK /\ OpenWhileOver /\ CaretTellsOpen)
<1>1. DropdownInit => DropdownInv
  BY DEF DropdownInit, DropdownInv, DropdownTypeOK
<1>2. DropdownInv => DropdownTypeOK /\ OpenWhileOver /\ CaretTellsOpen
  BY DEF DropdownInv, OpenWhileOver, CaretTellsOpen
<1> QED
  BY <1>1, <1>2, DropdownSteps, PTL DEF DropdownSpec

(***************************************************************************)
(* The lists of entities.  A read that is under way, and the page once it  *)
(* is over, has the urns of the list unless the list moved on; and what is *)
(* selected is on the page, and nothing is while a read is under way,      *)
(* unless it was picked before the page changed.                           *)
(***************************************************************************)
PageUrns == {u \in ListUrns : KindOf[u] = PageKind}

HasUrns(list) == \A i, j \in 1 .. Len(list) : list[i] = list[j] => i = j

\* The last read; before it has the snapshots it goes for all that is listed.
ReadIs(step, urns) ==
    /\ step \in {"snapshots", "entities"} /\ urns \in Seq(ListUrns)
    /\ hydrateTask = {[step |-> step, urns |-> urns]}
    /\ step = "snapshots" => urns # <<>>
    /\ ~ movedOn => urns = (IF step = "snapshots" THEN PageList ELSE KnownOf(PageList))

ReadsItsList ==
    \/ hydrateTask = {} /\ (~ movedOn => instances = KnownOf(PageList))
    \/ \E step, urns : ReadIs(step, urns)

PickedFromPage ==
    ~ pickedOld => /\ selectedEntities \subseteq ToSet(instances)
                   /\ hydrateTask # {} => selectedEntities = {}

ListInv ==
    /\ storedList \in Seq(ListUrns) /\ instances \in Seq(ListUrns) /\ selectedEntities \subseteq ListUrns
    /\ {movedOn, pickedOld} \subseteq BOOLEAN
    /\ HasUrns(storedList)
    /\ ReadsItsList /\ PickedFromPage

LEMMA PageListIs == PageList = Only(storedList, PageUrns) /\ PageUrns \subseteq ListUrns
BY ListsAssumption DEF PageList, ListedEntities, PageUrns

(* Removing entities from the list takes them from the list of the page,   *)
(* and leaves it alone when none of them is of the type of the page.       *)
LEMMA RemovedFromList ==
    ASSUME storedList \in Seq(ListUrns), HasUrns(storedList), NEW us \in SUBSET ListUrns, RemoveFromList(us)
    PROVE  /\ storedList' \in Seq(ListUrns) /\ HasUrns(storedList')
           /\ PageList' = Only(PageList, ListUrns \ us)
           /\ us \cap PageUrns = {} => PageList' = PageList
<1>1. PICK list \in Seq(ListUrns) : list = storedList
  OBVIOUS
<1>2. storedList' = Only(list, ListUrns \ us)
  BY <1>1 DEF RemoveFromList
<1>3. storedList' \in Seq(ListUrns) /\ PartOf(storedList', list, ListUrns \ us)
  BY <1>1, <1>2, OnlyEntries
<1>4. HasUrns(storedList')
  BY <1>1, <1>3 DEF HasUrns, PartOf
<1>5. PageList' = Only(storedList', PageUrns)
  BY ListsAssumption DEF PageList, ListedEntities, PageUrns
<1>6. PageList' = Only(list, (ListUrns \ us) \cap PageUrns)
  BY <1>1, <1>2, <1>5, OnlyOfOnly
<1>7. Only(PageList, ListUrns \ us) = Only(list, PageUrns \cap (ListUrns \ us))
  BY <1>1, PageListIs, OnlyOfOnly
<1>8. (ListUrns \ us) \cap PageUrns = PageUrns \cap (ListUrns \ us)
  OBVIOUS
<1>9. us \cap PageUrns = {} => (ListUrns \ us) \cap PageUrns = PageUrns
  BY PageListIs
<1> QED
  BY <1>1, <1>3, <1>4, <1>6, <1>7, <1>8, <1>9, PageListIs

(* An entity is added behind the list, unless it is there.                 *)
LEMMA AddedToList ==
    ASSUME storedList \in Seq(ListUrns), HasUrns(storedList), NEW u \in ListUrns, AddToList(<<u>>)
    PROVE  /\ storedList' \in Seq(ListUrns) /\ HasUrns(storedList')
           /\ u \notin PageUrns => PageList' = PageList
<1>1. PICK list \in Seq(ListUrns) : list = storedList
  OBVIOUS
<1>2. PICK one \in Seq(ListUrns) : one = <<u>> /\ Len(one) = 1 /\ one[1] = u
  <2>1. <<u>> \in Seq(ListUrns) /\ Len(<<u>>) = 1 /\ <<u>>[1] = u
    OBVIOUS
  <2> QED
    BY <2>1
<1> DEFINE free == ListUrns \ ToSet(list)  more == Only(one, free)
<1>3. storedList' = list \o more
  BY <1>1, <1>2 DEF AddToList
<1>4. more \in Seq(ListUrns) /\ Len(more) <= 1 /\ PartOf(more, one, free)
  BY <1>2, OnlyShortens, OnlyEntries
<1>5. \A k \in 1 .. Len(more) : more[k] = u /\ u \notin ToSet(list)
  <2> HIDE DEF more
  <2> SUFFICES ASSUME NEW k \in 1 .. Len(more) PROVE more[k] = u /\ u \notin ToSet(list)
    OBVIOUS
  <2>1. PICK i \in 1 .. Len(one) : more[k] = one[i] /\ more[k] \in free
    BY <1>4 DEF PartOf
  <2>2. i = 1
    BY <1>2, <2>1
  <2> QED
    BY <1>2, <2>1, <2>2
<1>6. PageList' = Only(list \o more, PageUrns)
  BY <1>3, ListsAssumption DEF PageList, ListedEntities, PageUrns
<1>7. PageList = Only(list, PageUrns)
  BY <1>1, PageListIs
<1> HIDE DEF free, more
<1>8. \A i \in 1 .. Len(list) : list[i] \in ToSet(list)
  BY DEF ToSet
<1>9. PICK joined : joined = list \o more
  OBVIOUS
<1>10. /\ joined \in Seq(ListUrns) /\ Len(joined) = Len(list) + Len(more)
       /\ \A i \in 1 .. Len(joined) :
            \/ i <= Len(list) /\ i \in 1 .. Len(list) /\ joined[i] = list[i]
            \/ i > Len(list) /\ i - Len(list) \in 1 .. Len(more) /\ joined[i] = more[i - Len(list)]
  BY <1>4, <1>9
<1>11. HasUrns(joined)
  <2> SUFFICES ASSUME NEW i \in 1 .. Len(joined), NEW j \in 1 .. Len(joined), joined[i] = joined[j] PROVE i = j
    BY DEF HasUrns
  <2>1. CASE i <= Len(list) /\ j <= Len(list)
    <3>1. joined[i] = list[i] /\ joined[j] = list[j] /\ i \in 1 .. Len(list) /\ j \in 1 .. Len(list)
      BY <1>10, <2>1
    <3> QED
      BY <1>1, <3>1 DEF HasUrns
  <2>2. CASE i > Len(list) /\ j > Len(list)
    <3>1. i - Len(list) \in 1 .. Len(more) /\ j - Len(list) \in 1 .. Len(more) /\ Len(list) \in Nat
      BY <1>10, <2>2
    <3>2. PICK n \in Nat : n = Len(more) /\ n <= 1
      BY <1>4
    <3> QED
      BY <3>1, <3>2
  <2>3. \A a, b \in 1 .. Len(joined) : a <= Len(list) /\ b > Len(list) => joined[a] # joined[b]
    <3> SUFFICES ASSUME NEW a \in 1 .. Len(joined), NEW b \in 1 .. Len(joined), a <= Len(list), b > Len(list)
                 PROVE  joined[a] # joined[b]
      OBVIOUS
    <3>1. a \in 1 .. Len(list) /\ joined[a] = list[a]
      BY <1>10
    <3>2. b - Len(list) \in 1 .. Len(more) /\ joined[b] = more[b - Len(list)]
      BY <1>10
    <3>3. joined[a] \in ToSet(list)
      BY <1>8, <3>1
    <3>4. joined[b] \notin ToSet(list)
      BY <1>5, <3>2
    <3> QED
      BY <3>3, <3>4
  <2> QED
    BY <1>10, <2>1, <2>2, <2>3
<1>12. ASSUME u \notin PageUrns PROVE PageList' = PageList
  <2>1. Only(list \o more, PageUrns) = Only(list, PageUrns) \o Only(more, PageUrns)
    BY <1>4, OnlyConcat
  <2>2. PICK rest \in Seq(ListUrns) : rest = Only(more, PageUrns)
    BY <1>4, OnlyEntries
  <2>3. PartOf(rest, more, PageUrns)
    BY <1>4, <2>2, OnlyEntries
  <2>4. Len(rest) = 0
    <3>1. \A k \in 1 .. Len(rest) : FALSE
      <4> SUFFICES ASSUME NEW k \in 1 .. Len(rest) PROVE FALSE
        OBVIOUS
      <4>1. rest[k] \in PageUrns /\ \E i \in 1 .. Len(more) : rest[k] = more[i]
        BY <2>3 DEF PartOf
      <4> QED
        BY <1>5, <1>12, <4>1
    <3>2. 1 \notin 1 .. Len(rest)
      BY <3>1
    <3> QED
      BY <2>2, <3>2
  <2>5. PICK l \in Seq(ListUrns) : l = Only(list, PageUrns)
    BY OnlyEntries
  <2>6. l \o rest = l
    BY <2>4
  <2> QED
    BY <1>6, <1>7, <2>1, <2>2, <2>5, <2>6
<1> QED
  BY <1>3, <1>9, <1>10, <1>11, <1>12

(* The steps that leave the list of the page alone, and those that do not. *)
LEMMA ListSteps == ListInv /\ [ListsNext]_listVars => ListInv'
<1> SUFFICES ASSUME ListInv, [ListsNext]_listVars PROVE ListInv'
  OBVIOUS
<1>a. /\ storedList \in Seq(ListUrns) /\ instances \in Seq(ListUrns) /\ selectedEntities \subseteq ListUrns
      /\ {movedOn, pickedOld} \subseteq BOOLEAN
      /\ HasUrns(storedList) /\ ReadsItsList /\ PickedFromPage
  BY DEF ListInv
<1>b. PageList \in Seq(ListUrns)
  BY <1>a, PageListIs, OnlyEntries
<1>c. ASSUME UNCHANGED storedList PROVE UNCHANGED PageList
  BY <1>c DEF PageList, ListedEntities
<1>d. KnownOf(<<>>) = <<>>
  BY OnlyOfEmpty DEF KnownOf
<1>e. <<>> \in Seq(ListUrns) /\ ToSet(<<>>) = {}
  BY DEF ToSet
\* A read that begins, or an empty list that needs none.
<1>f. ASSUME NEW list \in Seq(ListUrns), PageList' = list, PerformHydrate(list), movedOn' = FALSE
      PROVE  ReadsItsList' /\ instances' \in Seq(ListUrns) /\ (hydrateTask' # {} => UNCHANGED instances)
  <2>1. CASE list = <<>>
    <3>1. hydrateTask' = {} /\ instances' = <<>>
      BY <1>f, <2>1 DEF PerformHydrate
    <3>2. KnownOf(PageList)' = <<>>
      BY <1>d, <1>f, <2>1 DEF KnownOf
    <3> QED
      BY <1>e, <3>1, <3>2 DEF ReadsItsList
  <2>2. CASE list # <<>>
    <3>1. hydrateTask' = {[step |-> "snapshots", urns |-> list]} /\ UNCHANGED instances
      BY <1>f, <2>2 DEF PerformHydrate
    <3>2. ReadIs("snapshots", list)'
      BY <1>f, <2>2, <3>1 DEF ReadIs
    <3> QED
      BY <1>a, <3>1, <3>2 DEF ReadsItsList
  <2> QED
    BY <2>1, <2>2
<1>1. ASSUME OpenList PROVE ListInv'
  <2>1. /\ instances' = <<>> /\ selectedEntities' = {} /\ movedOn' = FALSE /\ pickedOld' = FALSE
        /\ storedList' = storedList
        /\ hydrateTask' = IF PageList = <<>> THEN {} ELSE {[step |-> "snapshots", urns |-> PageList]}
    BY <1>1 DEF OpenList
  <2>2. PageList' = PageList
    BY <1>c, <2>1
  <2>3. ReadsItsList'
    <3>1. CASE PageList = <<>>
      <4>1. KnownOf(PageList)' = <<>> /\ hydrateTask' = {}
        BY <1>d, <2>1, <2>2, <3>1 DEF KnownOf
      <4> QED
        BY <2>1, <4>1 DEF ReadsItsList
    <3>2. CASE PageList # <<>>
      <4>1. ReadIs("snapshots", PageList)'
        BY <1>b, <2>1, <2>2, <3>2 DEF ReadIs
      <4> QED
        BY <4>1 DEF ReadsItsList
    <3> QED
      BY <3>1, <3>2
  <2> QED
    BY <1>a, <1>e, <2>1, <2>3 DEF ListInv, PickedFromPage, HasUrns
<1>2. ASSUME NEW u \in ListUrns, ToggleOnList(u) PROVE ListInv'
  <2>1. /\ movedOn' = (movedOn \/ KindOf[u] = PageKind)
        /\ UNCHANGED <<instances, selectedEntities, hydrateTask, pickedOld>>
        /\ RemoveFromList({u}) \/ AddToList(<<u>>)
    BY <1>2 DEF ToggleOnList
  <2>2. /\ storedList' \in Seq(ListUrns) /\ HasUrns(storedList')
        /\ u \notin PageUrns => PageList' = PageList
    <3>1. CASE RemoveFromList({u})
      <4>1. u \notin PageUrns => {u} \cap PageUrns = {}
        OBVIOUS
      <4> QED
        BY <1>a, <3>1, <4>1, RemovedFromList
    <3>2. CASE AddToList(<<u>>)
      BY <1>a, <3>2, AddedToList
    <3> QED
      BY <2>1, <3>1, <3>2
  <2>3. u \in PageUrns => movedOn'
    BY <2>1 DEF PageUrns
  <2>4. ~ movedOn' => ~ movedOn
    BY Zenon, <2>1
  <2>5. movedOn' \in BOOLEAN
    BY <2>1
  <2>6. ~ movedOn' => PageList' = PageList /\ KnownOf(PageList)' = KnownOf(PageList)
    BY <2>2, <2>3 DEF KnownOf
  <2>7. ReadsItsList'
    <3>1. CASE hydrateTask = {}
      BY <1>a, <2>1, <2>4, <2>6, <3>1 DEF ReadsItsList, ReadIs
    <3>2. ASSUME NEW step, NEW urns, ReadIs(step, urns) PROVE ReadsItsList'
      <4>1. ReadIs(step, urns)'
        BY <2>1, <2>4, <2>6, <3>2 DEF ReadIs
      <4> QED
        BY <4>1 DEF ReadsItsList
    <3> QED
      BY <1>a, <3>1, <3>2 DEF ReadsItsList
  <2>8. PickedFromPage'
    BY <1>a, <2>1 DEF PickedFromPage, ToSet
  <2> QED
    BY <1>a, <2>1, <2>2, <2>5, <2>7, <2>8 DEF ListInv
<1>3. ASSUME NEW u \in ListUrns, OnSelectEntity(u) PROVE ListInv'
  <2>1. /\ u \in ToSet(instances) /\ pickedOld' = (pickedOld \/ hydrateTask # {})
        /\ selectedEntities' \subseteq selectedEntities \cup {u}
        /\ UNCHANGED <<storedList, instances, hydrateTask, movedOn>>
    BY <1>3 DEF OnSelectEntity
  <2>2. pickedOld' \in BOOLEAN /\ (~ pickedOld' => ~ pickedOld /\ hydrateTask = {})
    BY Zenon, <2>1
  <2>3. PickedFromPage'
    BY <1>a, <2>1, <2>2 DEF PickedFromPage, ToSet
  <2>4. ReadsItsList'
    BY <1>a, <1>c, <2>1 DEF ReadsItsList, ReadIs, KnownOf
  <2> QED
    BY <1>a, <2>1, <2>2, <2>3, <2>4 DEF ListInv
<1>4. ASSUME OnSelectEntityList PROVE ListInv'
  <2>1. /\ pickedOld' = (pickedOld \/ hydrateTask # {})
        /\ selectedEntities' \in {{}, ToSet(instances), selectedEntities}
        /\ UNCHANGED <<storedList, instances, hydrateTask, movedOn>>
    BY <1>4 DEF OnSelectEntityList
  <2>2. pickedOld' \in BOOLEAN /\ (~ pickedOld' => ~ pickedOld /\ hydrateTask = {})
    BY Zenon, <2>1
  <2>3. ToSet(instances) \subseteq ListUrns
    BY <1>a DEF ToSet
  <2>4. PickedFromPage'
    BY <1>a, <2>1, <2>2 DEF PickedFromPage, ToSet
  <2>5. ReadsItsList'
    BY <1>a, <1>c, <2>1 DEF ReadsItsList, ReadIs, KnownOf
  <2> QED
    BY <1>a, <2>1, <2>2, <2>3, <2>4, <2>5 DEF ListInv
<1>5. ASSUME ReadSnapshots PROVE ListInv'
  <2>1. PICK step, urns : ReadIs(step, urns)
    BY <1>5, <1>a DEF ReadSnapshots, ReadsItsList
  <2>2. /\ step = "snapshots" /\ hydrateTask' = {[step |-> "entities", urns |-> KnownOf(urns)]}
        /\ UNCHANGED <<storedList, instances, selectedEntities, movedOn, pickedOld>>
    BY <1>5, <2>1 DEF ReadSnapshots, ReadIs
  <2>3. KnownOf(urns) \in Seq(ListUrns)
    BY <2>1, OnlyEntries DEF ReadIs, KnownOf
  <2>4. PageList' = PageList /\ KnownOf(PageList)' = KnownOf(PageList)
    BY <1>c, <2>2 DEF KnownOf
  <2>5. ReadIs("entities", KnownOf(urns))'
    BY <2>1, <2>2, <2>3, <2>4 DEF ReadIs
  <2>6. hydrateTask # {}
    BY <2>1 DEF ReadIs
  <2> QED
    BY <1>a, <2>2, <2>5, <2>6 DEF ListInv, ReadsItsList, PickedFromPage, ToSet
<1>6. ASSUME ReadEntities PROVE ListInv'
  <2>1. PICK step, urns : ReadIs(step, urns)
    BY <1>6, <1>a DEF ReadEntities, ReadsItsList
  <2>2. /\ step = "entities" /\ hydrateTask' = {} /\ instances' = urns
        /\ UNCHANGED <<storedList, selectedEntities, movedOn, pickedOld>>
    BY <1>6, <2>1 DEF ReadEntities, ReadIs
  <2>3. PageList' = PageList /\ KnownOf(PageList)' = KnownOf(PageList)
    BY <1>c, <2>2 DEF KnownOf
  <2>4. ReadsItsList'
    BY <2>1, <2>2, <2>3 DEF ReadsItsList, ReadIs
  <2>5. ~ pickedOld => selectedEntities = {}
    BY <1>a, <2>1 DEF PickedFromPage, ReadIs
  <2> QED
    BY <1>a, <2>1, <2>2, <2>4, <2>5 DEF ListInv, PickedFromPage, ReadIs
<1>7. ASSUME HydrateFails PROVE ListInv'
  <2>1. /\ hydrateTask # {} /\ hydrateTask' = {} /\ movedOn' = TRUE
        /\ UNCHANGED <<storedList, instances, selectedEntities, pickedOld>>
    BY <1>7 DEF HydrateFails
  <2> QED
    BY <1>a, <2>1 DEF ListInv, ReadsItsList, PickedFromPage, ToSet
<1>8. ASSUME RemoveAllSelected PROVE ListInv'
  <2>1. /\ RemoveFromList(selectedEntities) /\ selectedEntities' = {} /\ movedOn' = FALSE
        /\ pickedOld' = pickedOld /\ PerformHydrate(Only(PageList, ListUrns \ selectedEntities))
    BY <1>8 DEF RemoveAllSelected
  <2>2. /\ storedList' \in Seq(ListUrns) /\ HasUrns(storedList')
        /\ PageList' = Only(PageList, ListUrns \ selectedEntities)
    BY <1>a, <2>1, RemovedFromList
  <2>3. Only(PageList, ListUrns \ selectedEntities) \in Seq(ListUrns)
    BY <1>b, OnlyEntries
  <2>4. ReadsItsList' /\ instances' \in Seq(ListUrns)
    BY <1>f, <2>1, <2>2, <2>3
  <2> QED
    BY <1>a, <2>1, <2>2, <2>4 DEF ListInv, PickedFromPage
<1>9. ASSUME UNCHANGED listVars PROVE ListInv'
  <2>1. UNCHANGED <<storedList, instances, selectedEntities, hydrateTask, movedOn, pickedOld>>
    BY <1>9 DEF listVars
  <2>2. ReadsItsList'
    BY <1>a, <1>c, <2>1 DEF ReadsItsList, ReadIs, KnownOf
  <2>3. PickedFromPage'
    BY <1>a, <2>1 DEF PickedFromPage, ToSet
  <2> QED
    BY <1>a, <2>1, <2>2, <2>3 DEF ListInv
<1> QED
  BY <1>1, <1>2, <1>3, <1>4, <1>5, <1>6, <1>7, <1>8, <1>9 DEF ListsNext

(* As many as the page shows is all of them.                               *)
LEMMA AsManyIsAll ==
    ASSUME NEW T, NEW list \in Seq(T), NEW some \in SUBSET ToSet(list), Cardinality(some) = Len(list)
    PROVE  some = ToSet(list)
<1> DEFINE n == Len(list)  all == ToSet(list)
<1>1. n \in Nat /\ DOMAIN list = 1 .. n
  OBVIOUS
<1>2. list \in Surjection(1 .. n, all)
  <2>1. \A i \in 1 .. n : list[i] \in all
    BY <1>1 DEF ToSet
  <2>2. list = [i \in 1 .. n |-> list[i]]
    BY <1>1
  <2>3. list \in [1 .. n -> all]
    <3> HIDE DEF n, all
    <3> QED
      BY <2>1, <2>2
  <2>4. \A t \in all : \E i \in 1 .. n : list[i] = t
    BY <1>1 DEF ToSet
  <2> HIDE DEF n, all
  <2> QED
    BY <2>3, <2>4 DEF Surjection
<1>3. IsFiniteSet(1 .. n) /\ Cardinality(1 .. n) = n
  <2>1. PICK m \in Nat : m = n
    BY <1>1
  <2>2. 1 \in Int /\ m \in Int
    BY <2>1
  <2>3. IsFiniteSet(1 .. m) /\ Cardinality(1 .. m) = IF 1 > m THEN 0 ELSE m - 1 + 1
    BY <2>2, FS_Interval
  <2>4. Cardinality(1 .. m) = m
    BY <2>1, <2>3
  <2> QED
    BY <2>1, <2>3, <2>4
<1> HIDE DEF n, all
<1>4. IsFiniteSet(all) /\ Cardinality(all) <= n
  BY <1>2, <1>3, FS_Surjection
<1>5. /\ Cardinality(some) <= Cardinality(all)
      /\ Cardinality(all) = Cardinality(some) => all = some
  BY <1>4, FS_Subset DEF all
<1>6. Cardinality(all) \in Nat
  BY <1>4, FS_CardinalityType
<1>7. Cardinality(all) = Cardinality(some)
  BY <1>1, <1>4, <1>5, <1>6 DEF n
<1> QED
  BY <1>5, <1>7 DEF all

LEMMA ListsGive == ListInv => ListsAgree
<1> SUFFICES ASSUME ListInv PROVE ListsAgree
  OBVIOUS
<1>a. /\ storedList \in Seq(ListUrns) /\ instances \in Seq(ListUrns) /\ selectedEntities \subseteq ListUrns
      /\ {movedOn, pickedOld} \subseteq BOOLEAN
      /\ HasUrns(storedList) /\ ReadsItsList /\ PickedFromPage
  BY DEF ListInv
<1>1. ListsTypeOK
  <2>1. ToSet(storedList) \subseteq ListUrns /\ ToSet(instances) \subseteq ListUrns
    BY <1>a DEF ToSet
  <2>2. /\ Cardinality(hydrateTask) <= 1
        /\ \A h \in hydrateTask : h.step \in {"snapshots", "entities"} /\ (h.step = "snapshots" => h.urns # <<>>)
    <3>1. CASE hydrateTask = {}
      BY <3>1, FS_EmptySet
    <3>2. ASSUME NEW step, NEW urns, ReadIs(step, urns) PROVE <2>2
      <4>1. PICK h : h = [step |-> step, urns |-> urns]
        OBVIOUS
      <4>2. hydrateTask = {h} /\ h.step = step /\ h.urns = urns
        BY <3>2, <4>1 DEF ReadIs
      <4>3. Cardinality({h}) = 1
        BY FS_Singleton
      <4>4. Cardinality(hydrateTask) <= 1
        BY <4>2, <4>3
      <4>5. \A g \in hydrateTask : g = h
        BY <4>2
      <4>6. step \in {"snapshots", "entities"} /\ (step = "snapshots" => urns # <<>>)
        BY <3>2 DEF ReadIs
      <4> QED
        BY <4>2, <4>4, <4>5, <4>6
    <3> QED
      BY <1>a, <3>1, <3>2 DEF ReadsItsList
  <2> QED
    BY <1>a, <2>1, <2>2 DEF ListsTypeOK
<1>2. ListedOnce
  <2>1. DOMAIN storedList = 1 .. Len(storedList)
    BY <1>a
  <2> QED
    BY <1>a, <2>1 DEF ListedOnce, IsInjective, HasUrns
<1>3. PageShowsList
  BY <1>a DEF PageShowsList, ReadsItsList, ReadIs
<1>4. AllSelectedIsAll
  <2> SUFFICES ASSUME SelectedAll, ~ pickedOld PROVE selectedEntities = ToSet(instances)
    BY DEF AllSelectedIsAll
  <2>1. selectedEntities \in SUBSET ToSet(instances) /\ Cardinality(selectedEntities) = Len(instances)
    BY <1>a DEF PickedFromPage, SelectedAll, ListCount
  <2> QED
    BY <1>a, <2>1, AsManyIsAll
<1> QED
  BY <1>1, <1>2, <1>3, <1>4 DEF ListsAgree

(* An entity is on its list once, the page shows its list unless the list  *)
(* changed under it, and "all selected" says so of all of them, for any    *)
(* lists, types and entities the backend has forgotten.                    *)
THEOREM ListsAreInAgreement == ListsSpec => []ListsAgree
<1>1. ListsInit => ListInv
  <2> SUFFICES ASSUME ListsInit PROVE ListInv
    OBVIOUS
  <2>1. <<>> \in Seq(ListUrns) /\ Len(<<>>) = 0
    OBVIOUS
  <2>2. Only(<<>>, PageUrns) = <<>> /\ KnownOf(<<>>) = <<>>
    BY OnlyOfEmpty DEF KnownOf
  <2>3. PageList = <<>>
    BY <2>2, PageListIs DEF ListsInit
  <2>4. /\ storedList = <<>> /\ instances = <<>> /\ selectedEntities = {} /\ hydrateTask = {}
        /\ movedOn = FALSE /\ pickedOld = FALSE
    BY DEF ListsInit
  <2>5. HasUrns(storedList)
    BY <2>1, <2>4 DEF HasUrns
  <2>6. ReadsItsList
    BY <2>2, <2>3, <2>4 DEF ReadsItsList
  <2>7. PickedFromPage
    BY <2>4 DEF PickedFromPage
  <2> QED
    BY <2>1, <2>4, <2>5, <2>6, <2>7 DEF ListInv
<1> QED
  BY <1>1, ListSteps, ListsGive, PTL DEF ListsSpec

(***************************************************************************)
(* Looking up users.  While the names are fetched, the lookups that wait   *)
(* are those made so far, in order: the users sought are the names in      *)
(* them, and the last keyword is the last of theirs.                       *)
(***************************************************************************)
Lookups == Resolving \cup Finding

LastIs(list, x) == list # <<>> /\ Last(list) = x

LookupInv ==
    /\ {inFocus, showPlaceholder} \subseteq BOOLEAN
    /\ {lookupEntity, suggestedText} \subseteq Names \cup {"", "undefined"}
    /\ highlighted \in Names \cup {"undefined"}
    /\ suggestionOptions \in Seq(Names) /\ Len(suggestionOptions) <= SuggestionLimit
    /\ partyRequest \in {"none", "inflight", "failed", "cached"}
    /\ waiting \in Seq(Lookups) /\ didFindUser \in Seq(Names) /\ sought \in Seq(Names)
    /\ lookupKeyword \in LookupKeywords \cup {""}
    /\ partyRequest # "inflight" => waiting = <<>>
    /\ partyRequest = "none" => sought = <<>> /\ lookupKeyword = ""
    /\ partyRequest \in {"none", "inflight"} => didFindUser = <<>>
    /\ partyRequest = "inflight" =>
         sought = NamesSought(waiting) /\ (lookupKeyword # "" => LastIs(Asked(waiting), lookupKeyword))
    /\ OptionsOfKeyword /\ SuggestedIsHighlighted /\ FoundAsSought

(* What lookups ask for and whom they seek, with one lookup more.          *)
LEMMA SecondsOf ==
    ASSUME NEW T, NEW list \in Seq(Lookups), \A i \in 1 .. Len(list) : list[i][2] \in T, NEW x \in Lookups, x[2] \in T
    PROVE  /\ [i \in 1 .. Len(list) |-> list[i][2]] \in Seq(T)
           /\ [i \in 1 .. Len(Append(list, x)) |-> Append(list, x)[i][2]]
                = Append([i \in 1 .. Len(list) |-> list[i][2]], x[2])
<1> DEFINE s == [i \in 1 .. Len(list) |-> list[i][2]]
           more == Append(list, x)
           t == [i \in 1 .. Len(more) |-> more[i][2]]
<1>1. s \in Seq(T) /\ Len(s) = Len(list)
  OBVIOUS
<1>2. /\ more \in Seq(Lookups) /\ Len(more) = Len(list) + 1 /\ more[Len(list) + 1] = x
      /\ \A i \in 1 .. Len(list) : more[i] = list[i]
  OBVIOUS
<1> HIDE DEF more
<1>3. \A i \in 1 .. Len(more) : more[i][2] \in T
  BY <1>2
<1>4. t \in Seq(T) /\ Len(t) = Len(more) /\ \A i \in 1 .. Len(more) : t[i] = more[i][2]
  BY <1>2, <1>3
<1>5. Append(s, x[2]) \in Seq(T) /\ Len(Append(s, x[2])) = Len(list) + 1
      /\ \A i \in 1 .. Len(list) + 1 : Append(s, x[2])[i] = IF i = Len(list) + 1 THEN x[2] ELSE s[i]
  BY <1>1
<1>6. \A i \in 1 .. Len(list) : s[i] = list[i][2]
  OBVIOUS
<1>7. PICK a, b : a = t /\ b = Append(s, x[2])
  OBVIOUS
<1> HIDE DEF s, t
<1>8. \A i \in 1 .. Len(list) + 1 : a[i] = b[i]
  BY <1>2, <1>4, <1>5, <1>6, <1>7
<1>9. a \in Seq(T) /\ b \in Seq(T) /\ Len(a) = Len(b) /\ Len(a) = Len(list) + 1
  BY <1>2, <1>4, <1>5, <1>7
<1>10. a = b
  BY <1>8, <1>9, SeqEqual
<1> QED
  BY <1>1, <1>7, <1>10 DEF more, s, t

LEMMA LookupTypes == (\A l \in Resolving : l[2] \in LookupKeywords) /\ (\A l \in Finding : l[2] \in Names)
BY DEF Resolving, Finding

LEMMA NobodyWaits == Asked(<<>>) = <<>> /\ NamesSought(<<>>) = <<>>
<1>1. Only(<<>>, Resolving) = <<>> /\ Only(<<>>, Finding) = <<>> /\ Len(<<>>) = 0
  BY OnlyOfEmpty
<1>2. [i \in 1 .. Len(<<>>) |-> <<>>[i][2]] = <<>>
  BY <1>1
<1> QED
  BY <1>1, <1>2 DEF Asked, NamesSought

LEMMA AskedOnce ==
    ASSUME NEW w \in Seq(Lookups), NEW k \in LookupKeywords
    PROVE  /\ Append(w, <<"resolve", k>>) \in Seq(Lookups)
           /\ LastIs(Asked(Append(w, <<"resolve", k>>)), k)
           /\ NamesSought(Append(w, <<"resolve", k>>)) = NamesSought(w)
<1>1. PICK x : x = <<"resolve", k>> /\ x \in Resolving /\ x \in Lookups /\ x \notin Finding /\ x[2] = k
  <2>1. <<"resolve", k>> \in Resolving /\ <<"resolve", k>> \notin Finding
    BY DEF Resolving, Finding
  <2> QED
    BY <2>1 DEF Lookups
<1>2. PICK found \in Seq(Lookups) : found = Only(w, Resolving)
  BY OnlyEntries
<1>3. PartOf(found, w, Resolving)
  BY <1>2, OnlyEntries
<1>4. \A i \in 1 .. Len(found) : found[i][2] \in LookupKeywords
  BY <1>3, LookupTypes DEF PartOf
<1>5. Only(Append(w, x), Resolving) = Append(found, x) /\ Only(Append(w, x), Finding) = Only(w, Finding)
  <2>1. \A S : Only(Append(w, x), S) = IF x \in S THEN Append(Only(w, S), x) ELSE Only(w, S)
    BY <1>1, OnlyAppend
  <2> QED
    BY Zenon, <1>1, <1>2, <2>1
<1>6. PICK s \in Seq(LookupKeywords) : s = [i \in 1 .. Len(found) |-> found[i][2]]
  BY <1>1, <1>4, SecondsOf
<1>7. [i \in 1 .. Len(Append(found, x)) |-> Append(found, x)[i][2]] = Append(s, k)
  BY <1>1, <1>4, <1>6, SecondsOf
<1>8. Asked(Append(w, x)) = Append(s, k)
  BY Zenon, <1>5, <1>7 DEF Asked
<1>9. LastIs(Append(s, k), k)
  BY DEF LastIs, Last
<1>10. NamesSought(Append(w, x)) = NamesSought(w)
  BY Zenon, <1>5 DEF NamesSought
<1>11. Append(w, x) \in Seq(Lookups)
  BY <1>1
<1> QED
  BY <1>1, <1>8, <1>9, <1>10, <1>11

LEMMA SoughtOnce ==
    ASSUME NEW w \in Seq(Lookups), NEW n \in Names
    PROVE  /\ Append(w, <<"find", n>>) \in Seq(Lookups)
           /\ NamesSought(w) \in Seq(Names)
           /\ NamesSought(Append(w, <<"find", n>>)) = Append(NamesSought(w), n)
           /\ Asked(Append(w, <<"find", n>>)) = Asked(w)
<1>1. PICK x : x = <<"find", n>> /\ x \in Finding /\ x \in Lookups /\ x \notin Resolving /\ x[2] = n
  <2>1. <<"find", n>> \in Finding /\ <<"find", n>> \notin Resolving
    BY DEF Resolving, Finding
  <2> QED
    BY <2>1 DEF Lookups
<1>2. PICK found \in Seq(Lookups) : found = Only(w, Finding)
  BY OnlyEntries
<1>3. PartOf(found, w, Finding)
  BY <1>2, OnlyEntries
<1>4. \A i \in 1 .. Len(found) : found[i][2] \in Names
  BY <1>3, LookupTypes DEF PartOf
<1>5. Only(Append(w, x), Finding) = Append(found, x) /\ Only(Append(w, x), Resolving) = Only(w, Resolving)
  <2>1. \A S : Only(Append(w, x), S) = IF x \in S THEN Append(Only(w, S), x) ELSE Only(w, S)
    BY <1>1, OnlyAppend
  <2> QED
    BY Zenon, <1>1, <1>2, <2>1
<1>6. PICK s \in Seq(Names) : s = [i \in 1 .. Len(found) |-> found[i][2]]
  BY <1>1, <1>4, SecondsOf
<1>7. [i \in 1 .. Len(Append(found, x)) |-> Append(found, x)[i][2]] = Append(s, n)
  BY <1>1, <1>4, <1>6, SecondsOf
<1>8. NamesSought(Append(w, x)) = Append(s, n) /\ NamesSought(w) = s
  BY Zenon, <1>2, <1>5, <1>6, <1>7 DEF NamesSought
<1>9. Asked(Append(w, x)) = Asked(w)
  BY Zenon, <1>5 DEF Asked
<1>10. Append(w, x) \in Seq(Lookups)
  BY <1>1
<1> QED
  BY <1>1, <1>8, <1>9, <1>10

LEMMA SuggestionsType ==
    ASSUME NEW k
    PROVE  NewSuggestions(k) \in Seq(Names) /\ Len(NewSuggestions(k)) <= SuggestionLimit
<1>1. PICK m \in Seq(Names) : m = Matching(k)
  BY LookupAssumption, OnlyEntries DEF Matching, Names
<1>2. PICK n \in Nat : n = SuggestionLimit /\ n # 0
  BY LookupAssumption
<1>3. CASE Len(m) > n
  <2>1. SubSeq(m, 1, n) \in Seq(Names) /\ Len(SubSeq(m, 1, n)) = n
    BY <1>3
  <2> QED
    BY <1>1, <1>2, <1>3, <2>1 DEF NewSuggestions
<1>4. CASE ~ (Len(m) > n)
  BY <1>1, <1>2, <1>4 DEF NewSuggestions
<1> QED
  BY <1>3, <1>4

LEMMA FirstOfType ==
    ASSUME NEW options \in Seq(Names) PROVE FirstOf(options) \in Names \cup {"undefined"}
BY DEF FirstOf

(* Lists with nothing, or one entry, added.                                *)
LEMMA OneMore ==
    ASSUME NEW T, NEW list \in Seq(T), NEW x \in T
    PROVE  /\ Append(list, x) \in Seq(T) /\ list \o <<x>> = Append(list, x)
           /\ list \o <<>> = list /\ <<>> \o list = list
           /\ <<>> \in Seq(T) /\ Append(<<>>, x) = <<x>>
           /\ \A i \in 1 .. Len(list) : list[i] \in T
<1>1. Append(list, x) \in Seq(T) /\ list \o <<x>> = Append(list, x)
  OBVIOUS
<1>2. list \o <<>> = list /\ <<>> \o list = list
  OBVIOUS
<1>3. <<>> \in Seq(T) /\ Append(<<>>, x) = <<x>>
  OBVIOUS
<1>4. \A i \in 1 .. Len(list) : list[i] \in T
  OBVIOUS
<1> QED
  BY <1>1, <1>2, <1>3, <1>4

(* The suggestions after the answer to a keyword, or without one.          *)
LEMMA SuggestedFor ==
    ASSUME NEW lookups, SuggestNames(lookups)
    PROVE  /\ Asked(lookups) = <<>> => UNCHANGED <<suggestionOptions, suggestedText, highlighted>>
           /\ \A k : LastIs(Asked(lookups), k) =>
                /\ suggestionOptions' = NewSuggestions(k)
                /\ suggestedText' = FirstOf(NewSuggestions(k)) /\ highlighted' = FirstOf(NewSuggestions(k))
BY Zenon DEF SuggestNames, LastIs

\* What else a step keeps of the suggestions.
SuggestionsOK ==
    /\ suggestedText \in Names \cup {"", "undefined"} /\ highlighted \in Names \cup {"undefined"}
    /\ suggestionOptions \in Seq(Names) /\ Len(suggestionOptions) <= SuggestionLimit
    /\ SuggestedIsHighlighted

LEMMA SuggestionsStayOK ==
    ASSUME SuggestionsOK, NEW lookups, SuggestNames(lookups),
           Asked(lookups) = <<>> \/ \E k : LastIs(Asked(lookups), k)
    PROVE  SuggestionsOK'
<1>1. CASE Asked(lookups) = <<>>
  <2>1. UNCHANGED <<suggestionOptions, suggestedText, highlighted>>
    BY <1>1, SuggestedFor
  <2> QED
    BY <2>1 DEF SuggestionsOK, SuggestedIsHighlighted
<1>2. ASSUME NEW k, LastIs(Asked(lookups), k) PROVE SuggestionsOK'
  <2>1. /\ suggestionOptions' = NewSuggestions(k)
        /\ suggestedText' = FirstOf(NewSuggestions(k)) /\ highlighted' = FirstOf(NewSuggestions(k))
    BY <1>2, SuggestedFor
  <2>2. PICK options \in Seq(Names) : options = NewSuggestions(k) /\ Len(options) <= SuggestionLimit
    BY SuggestionsType
  <2>3. FirstOf(options) \in Names \cup {"undefined"}
    BY FirstOfType
  <2> QED
    BY <2>1, <2>2, <2>3 DEF SuggestionsOK, SuggestedIsHighlighted
<1> QED
  BY <1>1, <1>2

LEMMA MembershipType == ASSUME NEW S, NEW e, NEW b, b = (e \in S) PROVE b \in BOOLEAN
OBVIOUS

LEMMA LookupSteps == LookupInv /\ [LookupNext]_lookupVars => LookupInv'
<1> SUFFICES ASSUME LookupInv, [LookupNext]_lookupVars PROVE LookupInv'
  OBVIOUS
<1>a. /\ inFocus \in BOOLEAN /\ showPlaceholder \in BOOLEAN
      /\ lookupEntity \in Names \cup {"", "undefined"}
      /\ SuggestionsOK
      /\ partyRequest \in {"none", "inflight", "failed", "cached"}
      /\ waiting \in Seq(Lookups) /\ didFindUser \in Seq(Names) /\ sought \in Seq(Names)
      /\ lookupKeyword \in LookupKeywords \cup {""}
  BY DEF LookupInv, SuggestionsOK
<1>b. /\ partyRequest # "inflight" => waiting = <<>>
      /\ partyRequest = "none" => sought = <<>> /\ lookupKeyword = ""
      /\ partyRequest \in {"none", "inflight"} => didFindUser = <<>>
      /\ partyRequest = "inflight" =>
           sought = NamesSought(waiting) /\ (lookupKeyword # "" => LastIs(Asked(waiting), lookupKeyword))
      /\ OptionsOfKeyword /\ FoundAsSought
  BY DEF LookupInv
\* What the names wait for, seen alone.
<1> DEFINE WaitsOK ==
             /\ partyRequest \in {"none", "inflight", "failed", "cached"}
             /\ waiting \in Seq(Lookups) /\ didFindUser \in Seq(Names) /\ sought \in Seq(Names)
             /\ lookupKeyword \in LookupKeywords \cup {""}
             /\ partyRequest # "inflight" => waiting = <<>>
             /\ partyRequest = "none" => sought = <<>> /\ lookupKeyword = ""
             /\ partyRequest \in {"none", "inflight"} => didFindUser = <<>>
             /\ partyRequest = "inflight" =>
                  sought = NamesSought(waiting) /\ (lookupKeyword # "" => LastIs(Asked(waiting), lookupKeyword))
             /\ OptionsOfKeyword /\ FoundAsSought
           FieldOK ==
             /\ inFocus \in BOOLEAN /\ showPlaceholder \in BOOLEAN
             /\ lookupEntity \in Names \cup {"", "undefined"}
<1>c. WaitsOK' /\ FieldOK' /\ SuggestionsOK' => LookupInv'
  BY Zenon DEF LookupInv, SuggestionsOK
<1>d. ASSUME UNCHANGED <<partyRequest, waiting, didFindUser, sought, lookupKeyword>>,
             partyRequest = "cached" => UNCHANGED suggestionOptions
      PROVE  WaitsOK'
  <2>1. NamesSought(waiting)' = NamesSought(waiting) /\ Asked(waiting)' = Asked(waiting)
    BY <1>d
  <2>2. OptionsOfKeyword' /\ FoundAsSought'
    BY <1>b, <1>d DEF OptionsOfKeyword, FoundAsSought
  <2> QED
    BY <1>a, <1>b, <1>d, <2>1, <2>2
<1>1. ASSUME FocusIn \/ FocusOut PROVE LookupInv'
  <2>1. /\ inFocus' \in BOOLEAN /\ showPlaceholder' \in BOOLEAN
        /\ suggestedText' \in {"", suggestedText}
        /\ UNCHANGED <<lookupEntity, suggestionOptions, highlighted, partyRequest, waiting, didFindUser,
                       lookupKeyword, sought>>
    <3>1. CASE FocusIn
      BY <3>1 DEF FocusIn
    <3>2. CASE FocusOut
      <4>1. /\ inFocus' = FALSE /\ suggestedText' = ""
            /\ showPlaceholder' = (lookupEntity \in {"", "undefined"})
            /\ UNCHANGED <<lookupEntity, suggestionOptions, highlighted, partyRequest, waiting, didFindUser,
                           lookupKeyword, sought>>
        BY <3>2 DEF FocusOut
      <4>2. showPlaceholder' \in BOOLEAN
        BY Zenon, <4>1, MembershipType
      <4> QED
        BY <4>1, <4>2
    <3> QED
      BY <1>1, <3>1, <3>2
  <2>2. SuggestionsOK'
    BY <1>a, <2>1 DEF SuggestionsOK, SuggestedIsHighlighted
  <2>3. WaitsOK'
    BY <1>d, <2>1
  <2> QED
    BY <1>a, <1>c, <2>1, <2>2, <2>3
<1>2. ASSUME PressTab PROVE LookupInv'
  <2>1. /\ lookupEntity' = suggestedText
        /\ UNCHANGED <<inFocus, showPlaceholder, suggestedText, suggestionOptions, highlighted, partyRequest,
                       waiting, didFindUser, lookupKeyword, sought>>
    BY <1>2 DEF PressTab
  <2>2. SuggestionsOK' /\ suggestedText \in Names \cup {"", "undefined"}
    BY <1>a, <2>1 DEF SuggestionsOK, SuggestedIsHighlighted
  <2>3. WaitsOK'
    BY <1>d, <2>1
  <2> QED
    BY <1>a, <1>c, <2>1, <2>2, <2>3
<1>3. ASSUME NEW step \in {-1, 1}, PressArrow(step) PROVE LookupInv'
  <2>1. /\ suggestedText' = NextSuggestion(step) /\ highlighted' = NextSuggestion(step)
        /\ UNCHANGED <<inFocus, showPlaceholder, lookupEntity, suggestionOptions, partyRequest, waiting,
                       didFindUser, lookupKeyword, sought>>
    BY <1>3 DEF PressArrow
  <2>2. NextSuggestion(step) \in Names \cup {"undefined"}
    <3>1. PICK options \in Seq(Names) : options = suggestionOptions
      BY <1>a DEF SuggestionsOK
    <3>2. \A i \in DOMAIN options : options[i] \in Names
      OBVIOUS
    <3> DEFINE current == CHOOSE i \in DOMAIN options : options[i] = highlighted
    <3>3. NextSuggestion(step) = IF current + step \in DOMAIN options THEN options[current + step] ELSE highlighted
      BY <3>1 DEF NextSuggestion
    <3> HIDE DEF current
    <3> QED
      BY <1>a, <3>2, <3>3 DEF SuggestionsOK
  <2>3. SuggestionsOK'
    BY <1>a, <2>1, <2>2 DEF SuggestionsOK, SuggestedIsHighlighted
  <2>4. WaitsOK'
    BY <1>d, <2>1
  <2> QED
    BY <1>a, <1>c, <2>1, <2>3, <2>4
<1>4. ASSUME NEW k \in LookupKeywords, LookUp(k) PROVE LookupInv'
  <2>1. /\ lookupKeyword' = k /\ UNCHANGED <<inFocus, showPlaceholder, lookupEntity, didFindUser, sought>>
        /\ GetUserEntities(<<"resolve", k>>) /\ SuggestNames(Resumed(<<"resolve", k>>))
    BY <1>4 DEF LookUp
  <2> DEFINE w == Append(waiting, <<"resolve", k>>)
  <2>2. /\ partyRequest' = IF partyRequest = "none" THEN "inflight" ELSE partyRequest
        /\ waiting' = IF partyRequest \in {"none", "inflight"} THEN w ELSE waiting
    BY <2>1 DEF GetUserEntities
  <2>3. w \in Seq(Lookups) /\ LastIs(Asked(w), k) /\ NamesSought(w) = NamesSought(waiting)
    BY <1>a, AskedOnce
  <2> HIDE DEF w
  <2>4. CASE partyRequest \in {"none", "inflight"}
    <3>1. Resumed(<<"resolve", k>>) = <<>> /\ partyRequest' = "inflight" /\ waiting' = w
      BY <2>2, <2>4 DEF Resumed
    <3>2. SuggestionsOK'
      BY <1>a, <2>1, <3>1, NobodyWaits, SuggestionsStayOK
    <3>3. sought = NamesSought(waiting)
      BY <1>b, <2>4, NobodyWaits
    <3>4. OptionsOfKeyword' /\ FoundAsSought'
      BY <3>1 DEF OptionsOfKeyword, FoundAsSought
    <3>5. WaitsOK'
      BY <1>a, <1>b, <2>1, <2>3, <2>4, <3>1, <3>3, <3>4
    <3> QED
      BY <1>a, <1>c, <2>1, <3>2, <3>5
  <2>5. CASE partyRequest = "cached"
    <3>1. Resumed(<<"resolve", k>>) = <<<<"resolve", k>>>> /\ partyRequest' = "cached" /\ waiting' = <<>>
      BY <1>b, <2>2, <2>5 DEF Resumed
    <3>2. <<>> \in Seq(Lookups) /\ Append(<<>>, <<"resolve", k>>) = <<<<"resolve", k>>>>
      OBVIOUS
    <3>3. LastIs(Asked(<<<<"resolve", k>>>>), k)
      BY <3>2, AskedOnce
    <3>4. SuggestionsOK' /\ suggestionOptions' = NewSuggestions(k)
      BY <1>a, <2>1, <3>1, <3>3, SuggestionsStayOK, SuggestedFor
    <3>5. OptionsOfKeyword' /\ FoundAsSought'
      BY <1>b, <2>1, <2>5, <3>4 DEF OptionsOfKeyword, FoundAsSought
    <3>6. WaitsOK'
      BY <1>a, <2>1, <3>1, <3>2, <3>5
    <3> QED
      BY <1>a, <1>c, <2>1, <3>4, <3>6
  <2>6. CASE partyRequest = "failed"
    <3>1. Resumed(<<"resolve", k>>) = <<>> /\ partyRequest' = "failed" /\ waiting' = waiting
      BY <2>2, <2>6 DEF Resumed
    <3>2. SuggestionsOK'
      BY <1>a, <2>1, <3>1, NobodyWaits, SuggestionsStayOK
    <3>3. OptionsOfKeyword' /\ FoundAsSought'
      BY <3>1 DEF OptionsOfKeyword, FoundAsSought
    <3>4. WaitsOK'
      BY <1>a, <1>b, <2>1, <2>6, <3>1, <3>3
    <3> QED
      BY <1>a, <1>c, <2>1, <3>2, <3>4
  <2> QED
    BY <1>a, <2>4, <2>5, <2>6
\* A user is looked for.
<1>5. ASSUME NEW selection \in Names \cup {"", "undefined"}, OnChangeSelection(selection) PROVE LookupInv'
  <2>1. /\ selection # "undefined" /\ lookupEntity' = "" /\ suggestedText' = ""
        /\ UNCHANGED <<inFocus, showPlaceholder, suggestionOptions, highlighted, lookupKeyword>>
    BY <1>5 DEF OnChangeSelection
  <2>2. SuggestionsOK'
    BY <1>a, <2>1 DEF SuggestionsOK, SuggestedIsHighlighted
  <2>3. CASE selection = ""
    <3>1. UNCHANGED <<partyRequest, waiting, didFindUser, sought>>
      BY <1>5, <2>3 DEF OnChangeSelection
    <3>2. WaitsOK'
      BY <1>d, <2>1, <3>1
    <3> QED
      BY <1>a, <1>c, <2>1, <2>2, <3>2
  <2>4. CASE selection # ""
    <3>a. selection \in Names
      BY <2>1, <2>4
    <3>b. /\ sought' = Append(sought, selection)
          /\ GetUserEntities(<<"find", selection>>) /\ FindUser(Resumed(<<"find", selection>>))
      BY <1>5, <2>4 DEF OnChangeSelection
    <3> DEFINE w == Append(waiting, <<"find", selection>>)
    <3>c. /\ partyRequest' = IF partyRequest = "none" THEN "inflight" ELSE partyRequest
          /\ waiting' = IF partyRequest \in {"none", "inflight"} THEN w ELSE waiting
      BY <3>b DEF GetUserEntities
    <3>d. w \in Seq(Lookups) /\ NamesSought(w) = Append(NamesSought(waiting), selection) /\ Asked(w) = Asked(waiting)
      BY <1>a, <3>a, SoughtOnce
    <3>e. Append(sought, selection) \in Seq(Names)
      BY <1>a, <3>a, OneMore
    <3>f. didFindUser' = didFindUser \o Only(NamesSought(Resumed(<<"find", selection>>)), Names)
      BY <3>b DEF FindUser
    <3>g. didFindUser \o <<>> = didFindUser
      BY <1>a, <3>a, OneMore
    <3> HIDE DEF w
    <3>h. Only(NamesSought(<<>>), Names) = <<>>
      BY NobodyWaits, OnlyOfEmpty
    <3>1. CASE partyRequest \in {"none", "inflight"}
      <4>1. Resumed(<<"find", selection>>) = <<>> /\ partyRequest' = "inflight" /\ waiting' = w
        BY <3>1, <3>c DEF Resumed
      <4>2. didFindUser' = didFindUser /\ didFindUser = <<>>
        BY <1>b, <3>1, <3>f, <3>g, <3>h, <4>1
      <4>3. sought = NamesSought(waiting)
        BY <1>b, <3>1, NobodyWaits
      <4>4. lookupKeyword # "" => LastIs(Asked(w), lookupKeyword)
        BY <1>b, <3>1, <3>d
      <4>5. OptionsOfKeyword' /\ FoundAsSought'
        BY <4>1 DEF OptionsOfKeyword, FoundAsSought
      <4>6. WaitsOK'
        BY <1>a, <2>1, <3>b, <3>d, <3>e, <4>1, <4>2, <4>3, <4>4, <4>5
      <4> QED
        BY <1>a, <1>c, <2>1, <2>2, <4>6
    <3>2. CASE partyRequest = "cached"
      <4>1. Resumed(<<"find", selection>>) = <<<<"find", selection>>>> /\ partyRequest' = "cached" /\ waiting' = <<>>
        BY <1>b, <3>2, <3>c DEF Resumed
      <4>a. <<"find", selection>> \in Lookups
        BY <3>a DEF Lookups, Finding
      <4>2. <<>> \in Seq(Lookups) /\ Append(<<>>, <<"find", selection>>) = <<<<"find", selection>>>>
        BY <1>a, <4>a, OneMore
      <4>3. NamesSought(<<<<"find", selection>>>>) = Append(<<>>, selection)
        BY <3>a, <4>2, SoughtOnce, NobodyWaits
      <4>4. Only(Append(<<>>, selection), Names) = <<selection>>
        <5>1. PICK e \in Seq(Names) : e = <<>>
          BY <1>a, <3>a, OneMore
        <5>a. \A S : Only(Append(e, selection), S) = IF selection \in S THEN Append(Only(e, S), selection) ELSE Only(e, S)
          BY <3>a, OnlyAppend
        <5>2. Only(Append(e, selection), Names) = Append(Only(e, Names), selection)
          BY Zenon, <3>a, <5>a
        <5>3. Only(e, Names) = <<>>
          BY <5>1, OnlyOfEmpty
        <5>4. Append(<<>>, selection) = <<selection>>
          BY <1>a, <3>a, OneMore
        <5> QED
          BY <5>1, <5>2, <5>3, <5>4
      <4>5. didFindUser' = didFindUser \o <<selection>>
        BY <3>f, <4>1, <4>3, <4>4
      <4>6. didFindUser \o <<selection>> = Append(didFindUser, selection)
        <5>1. \A list \in Seq(Names) : list \o <<selection>> = Append(list, selection)
          BY <3>a, OneMore
        <5> QED
          BY Zenon, <1>a, <5>1
      <4>7. didFindUser = sought
        BY <1>b, <3>2 DEF FoundAsSought
      <4>8. OptionsOfKeyword' /\ FoundAsSought'
        BY <1>b, <2>1, <3>2, <3>b, <4>5, <4>6, <4>7 DEF OptionsOfKeyword, FoundAsSought
      <4>9. WaitsOK'
        BY <1>a, <2>1, <3>b, <3>e, <4>1, <4>2, <4>5, <4>6, <4>7, <4>8
      <4> QED
        BY <1>a, <1>c, <2>1, <2>2, <4>9
    <3>3. CASE partyRequest = "failed"
      <4>1. Resumed(<<"find", selection>>) = <<>> /\ partyRequest' = "failed" /\ waiting' = waiting
        BY <3>3, <3>c DEF Resumed
      <4>2. didFindUser' = didFindUser
        BY <3>f, <3>g, <3>h, <4>1
      <4>3. OptionsOfKeyword' /\ FoundAsSought'
        BY <4>1 DEF OptionsOfKeyword, FoundAsSought
      <4>4. WaitsOK'
        BY <1>a, <1>b, <2>1, <3>3, <3>b, <3>e, <4>1, <4>2, <4>3
      <4> QED
        BY <1>a, <1>c, <2>1, <2>2, <4>4
    <3> QED
      BY <1>a, <3>1, <3>2, <3>3
  <2> QED
    BY <2>3, <2>4
<1>6. ASSUME PressEnter PROVE LookupInv'
  BY <1>5, <1>6, <1>a DEF PressEnter
<1>7. ASSUME NEW name \in Names, ClickOption(name) PROVE LookupInv'
  BY <1>5, <1>7 DEF ClickOption
<1>8. ASSUME PartyAnswer PROVE LookupInv'
  <2>1. /\ partyRequest = "inflight" /\ partyRequest' = "cached" /\ waiting' = <<>>
        /\ SuggestNames(waiting) /\ FindUser(waiting)
        /\ UNCHANGED <<inFocus, showPlaceholder, lookupEntity, lookupKeyword, sought>>
    BY <1>8 DEF PartyAnswer
  <2>2. SuggestionsOK'
    <3>1. Asked(waiting) # <<>> => LastIs(Asked(waiting), Last(Asked(waiting)))
      BY DEF LastIs
    <3> QED
      BY <1>a, <2>1, <3>1, SuggestionsStayOK
  <2>3. lookupKeyword # "" => suggestionOptions' = NewSuggestions(lookupKeyword)
    BY <1>b, <2>1, SuggestedFor
  <2>4. didFindUser' = sought
    <3>1. didFindUser' = <<>> \o Only(sought, Names)
      BY <1>b, <2>1 DEF FindUser
    <3>a. PICK list \in Seq(Names) : list = sought
      BY <1>a
    <3>2. /\ \A i \in 1 .. Len(list) : list[i] \in Names
          /\ <<>> \o list = list
      OBVIOUS
    <3>3. Only(sought, Names) = sought
      BY <3>a, <3>2, OnlyOfAll
    <3> QED
      BY <3>1, <3>2, <3>3, <3>a
  <2>5. OptionsOfKeyword' /\ FoundAsSought'
    BY <2>1, <2>3, <2>4 DEF OptionsOfKeyword, FoundAsSought
  <2>6. <<>> \in Seq(Lookups)
    OBVIOUS
  <2>7. WaitsOK'
    BY <1>a, <2>1, <2>4, <2>5, <2>6
  <2> QED
    BY <1>a, <1>c, <2>1, <2>2, <2>7
<1>9. ASSUME PartyFails PROVE LookupInv'
  <2>1. /\ partyRequest' = "failed" /\ waiting' = <<>>
        /\ UNCHANGED <<inFocus, showPlaceholder, lookupEntity, suggestedText, suggestionOptions, highlighted,
                       didFindUser, lookupKeyword, sought>>
    BY <1>9 DEF PartyFails
  <2>2. SuggestionsOK'
    BY <1>a, <2>1 DEF SuggestionsOK, SuggestedIsHighlighted
  <2>3. OptionsOfKeyword' /\ FoundAsSought'
    BY <2>1 DEF OptionsOfKeyword, FoundAsSought
  <2>4. <<>> \in Seq(Lookups)
    OBVIOUS
  <2>5. WaitsOK'
    BY <1>a, <2>1, <2>3, <2>4
  <2> QED
    BY <1>a, <1>c, <2>1, <2>2, <2>5
<1>10. ASSUME UNCHANGED lookupVars PROVE LookupInv'
  <2>1. UNCHANGED <<inFocus, showPlaceholder, lookupEntity, suggestedText, suggestionOptions, highlighted,
                    partyRequest, waiting, didFindUser, lookupKeyword, sought>>
    BY <1>10 DEF lookupVars
  <2>2. SuggestionsOK'
    BY <1>a, <2>1 DEF SuggestionsOK, SuggestedIsHighlighted
  <2>3. WaitsOK'
    BY <1>d, <2>1
  <2> QED
    BY <1>a, <1>c, <2>1, <2>2, <2>3
<1> QED
  BY <1>1, <1>2, <1>3, <1>4, <1>6, <1>7, <1>8, <1>9, <1>10 DEF LookupNext

(* What is offered and found is for what was typed, and the owners get the *)
(* users sought, in order, however late the names come.                    *)
THEOREM UsersAreFound == LookupSpec => []LookupFindsUsers
<1>1. LookupInit => LookupInv
  <2> SUFFICES ASSUME LookupInit PROVE LookupInv
    OBVIOUS
  <2>1. /\ inFocus = FALSE /\ showPlaceholder = TRUE
        /\ lookupEntity = "undefined" /\ suggestedText = "undefined"
        /\ suggestionOptions = <<>> /\ highlighted = "undefined"
        /\ partyRequest = "none" /\ waiting = <<>> /\ didFindUser = <<>>
        /\ lookupKeyword = "" /\ sought = <<>>
    BY DEF LookupInit
  <2>2. <<>> \in Seq(Names) /\ <<>> \in Seq(Lookups) /\ Len(<<>>) = 0 /\ 0 <= SuggestionLimit
    BY LookupAssumption
  <2>3. OptionsOfKeyword /\ SuggestedIsHighlighted /\ FoundAsSought
    BY <2>1 DEF OptionsOfKeyword, SuggestedIsHighlighted, FoundAsSought
  <2> QED
    BY <2>1, <2>2, <2>3 DEF LookupInv
<1>2. LookupInv => LookupFindsUsers
  <2> SUFFICES ASSUME LookupInv PROVE LookupFindsUsers
    OBVIOUS
  <2>1. ToSet(suggestionOptions) \subseteq Names /\ ToSet(waiting) \subseteq Resolving \cup Finding
    <3>1. PICK options \in Seq(Names), w \in Seq(Lookups) : options = suggestionOptions /\ w = waiting
      BY DEF LookupInv
    <3>2. ToSet(options) \subseteq Names /\ ToSet(w) \subseteq Lookups
      BY DEF ToSet
    <3> QED
      BY <3>1, <3>2 DEF Lookups
  <2>2. waiting # <<>> => partyRequest = "inflight"
    BY DEF LookupInv
  <2>3. LookupTypeOK
    BY <2>1, <2>2 DEF LookupInv, LookupTypeOK
  <2> QED
    BY <2>3 DEF LookupInv, LookupFindsUsers
<1> QED
  BY <1>1, <1>2, LookupSteps, PTL DEF LookupSpec

-----------------------------------------------------------------------------
(* Browsing.                                                               *)

(* The segments of a path that has no empty one, and the path that has     *)
(* them.                                                                   *)
LEMMA SplitOfSegments ==
    ASSUME NEW s \in Seq(Segments) PROVE Split(s) = s /\ Split(Join(s)) = s
<1>1. Split(s) = s
  <2> DEFINE R == ToSet(s) \ {""}
  <2>1. ASSUME NEW i \in 1 .. Len(s) PROVE s[i] \in R
    <3>1. s[i] \in Segments /\ i \in DOMAIN s
      OBVIOUS
    <3>2. s[i] # ""
      BY <3>1 DEF Segments
    <3> QED
      BY <3>1, <3>2 DEF ToSet
  <2> HIDE DEF R
  <2>2. Only(s, R) = s
    BY <2>1, OnlyOfAll
  <2> QED
    BY <2>2 DEF Split, R
<1>2. CASE s = <<>>
  <2>1. Join(s) = <<"">>
    BY <1>2 DEF Join
  <2>2. "" \notin ToSet(<<"">>) \ {""}
    OBVIOUS
  <2>3. "" \in {""}
    OBVIOUS
  <2>5. Split(<<"">>) = <<>>
    BY <2>2, <2>3, OnlyOfOne DEF Split
  <2> QED
    BY <1>1, <1>2, <2>1, <2>5
<1>3. CASE s # <<>>
  BY <1>1, <1>3 DEF Join
<1> QED
  BY <1>2, <1>3

(* The crumbs of a trail: each has the path up to it.                      *)
Crumb == [label : Segments, path : Seq(Segments)]
TrailOf(s) == [i \in 1 .. Len(s) |-> [label |-> s[i], path |-> SubSeq(s, 1, i)]]

LEMMA TrailEntries ==
    ASSUME NEW s \in Seq(Segments)
    PROVE  /\ TrailOf(s) \in Seq(Crumb) /\ Len(TrailOf(s)) = Len(s)
           /\ \A i \in 1 .. Len(s) : TrailOf(s)[i] = [label |-> s[i], path |-> SubSeq(s, 1, i)]
<1>1. \A i \in 1 .. Len(s) : [label |-> s[i], path |-> SubSeq(s, 1, i)] \in Crumb
  BY DEF Crumb
<1>2. Len(s) \in Nat
  OBVIOUS
<1>3. /\ TrailOf(s) \in [1 .. Len(s) -> Crumb]
      /\ \A i \in 1 .. Len(s) : TrailOf(s)[i] = [label |-> s[i], path |-> SubSeq(s, 1, i)]
  BY <1>1 DEF TrailOf
<1> HIDE DEF TrailOf
<1> QED
  BY <1>2, <1>3

(* A list up to an entry is the list up to the one before, and the entry.  *)
LEMMA PrefixAppend ==
    ASSUME NEW T, NEW list \in Seq(T), NEW i \in 1 .. Len(list)
    PROVE  /\ SubSeq(list, 1, i) = Append(SubSeq(list, 1, i - 1), list[i])
           /\ SubSeq(list, 1, i) = SubSeq(list, 1, i - 1) \o <<list[i]>>
           /\ SubSeq(list, 1, i) \in Seq(T) /\ Len(SubSeq(list, 1, i)) = i
OBVIOUS

LEMMA TrailIs ==
    ASSUME NEW s \in Seq(Segments) PROVE BakeBreadcrumbs(s) = TrailOf(s)
<1> DEFINE n == Len(s)
           trail == TrailOf(s)
           part(i) == SubSeq(trail, 1, i)
           step(f, i) == IF i = 0 THEN <<>>
                         ELSE Append(f[i - 1],
                                     [label |-> s[i],
                                      path  |-> Join((IF i = 1 THEN <<>> ELSE Last(f[i - 1]).path) \o <<s[i]>>)])
           rec(f) == [i \in 0 .. n |-> step(f, i)]
           crumbs == CHOOSE f : f = rec(f)
           g == [i \in 0 .. n |-> part(i)]
<1>1. /\ n \in Nat /\ trail \in Seq(Crumb) /\ Len(trail) = n
      /\ \A i \in 1 .. n : trail[i] = [label |-> s[i], path |-> SubSeq(s, 1, i)]
  BY TrailEntries
<1> HIDE DEF trail
<1>2. part(0) = <<>> /\ \A i \in 0 .. n : g[i] = part(i)
  BY <1>1
<1>3. ASSUME NEW i \in 1 .. n
      PROVE  part(i) = Append(part(i - 1),
                              [label |-> s[i],
                               path  |-> Join((IF i = 1 THEN <<>> ELSE Last(part(i - 1)).path) \o <<s[i]>>)])
  <2>1. part(i) = Append(part(i - 1), trail[i])
    BY <1>1, PrefixAppend
  <2>2. SubSeq(s, 1, i) = SubSeq(s, 1, i - 1) \o <<s[i]>> /\ SubSeq(s, 1, i) # <<>>
    <3>1. Len(SubSeq(s, 1, i)) = i /\ i # 0 /\ Len(<<>>) = 0
      BY PrefixAppend
    <3> QED
      BY <3>1, PrefixAppend
  <2>3. (IF i = 1 THEN <<>> ELSE Last(part(i - 1)).path) = SubSeq(s, 1, i - 1)
    <3>1. CASE i = 1
      BY <3>1
    <3>2. CASE i # 1
      <4>1. i - 1 \in 1 .. n
        BY <1>1, <3>2
      <4>2. Len(part(i - 1)) = i - 1
        BY <1>1, <4>1, PrefixAppend
      <4>3. Last(part(i - 1)) = trail[i - 1]
        BY <1>1, <4>1, <4>2 DEF Last
      <4>4. trail[i - 1].path = SubSeq(s, 1, i - 1)
        <5>1. trail[i - 1] = [label |-> s[i - 1], path |-> SubSeq(s, 1, i - 1)]
          BY <1>1, <4>1
        <5> QED
          BY <5>1
      <4> QED
        BY <3>2, <4>3, <4>4
    <3> QED
      BY <3>1, <3>2
  <2>4. Join(SubSeq(s, 1, i - 1) \o <<s[i]>>) = SubSeq(s, 1, i)
    BY <2>2 DEF Join
  <2> HIDE DEF part
  <2> QED
    BY <1>1, <2>1, <2>3, <2>4
<1>4. g = rec(g)
  <2>1. ASSUME NEW i \in 0 .. n PROVE part(i) = step(g, i)
    <3>1. CASE i = 0
      BY <1>2, <3>1
    <3>2. CASE i # 0
      <4>1. i \in 1 .. n /\ g[i - 1] = part(i - 1)
        BY <1>1, <1>2, <3>2
      <4> HIDE DEF part, g
      <4> QED
        BY <1>3, <3>2, <4>1
    <3> QED
      BY <3>1, <3>2
  <2> HIDE DEF part, step
  <2> QED
    BY <2>1
<1>5. crumbs = rec(crumbs)
  <2> HIDE DEF rec, g
  <2> QED
    BY <1>4
<1>6. BakeBreadcrumbs(s) = crumbs[n]
  BY Zenon DEF BakeBreadcrumbs
<1> HIDE DEF crumbs, g, part, n
<1>7. \A i \in 0 .. n : crumbs[i] = step(crumbs, i)
  <2> HIDE DEF step
  <2> QED
    BY <1>5
<1> DEFINE Bad == {i \in 0 .. n : crumbs[i] # part(i)}
<1>8. Bad = {}
  <2> SUFFICES ASSUME Bad # {} PROVE FALSE
    OBVIOUS
  <2>1. PICK i \in Bad : \A k \in Bad : i <= k
    <3>1. Bad \in SUBSET Nat
      BY <1>1
    <3> HIDE DEF Bad
    <3> QED
      BY <3>1, NatHasLeast
  <2>2. i # 0
    <3>1. 0 \in 0 .. n
      BY <1>1
    <3> QED
      BY <1>2, <1>7, <2>1, <3>1
  <2>3. i \in 1 .. n /\ i \in 0 .. n /\ i - 1 \in 0 .. n /\ i - 1 \notin Bad
    <3>1. i \in 0 .. n
      OBVIOUS
    <3>2. i \in 1 .. n /\ i - 1 \in 0 .. n /\ ~ (i <= i - 1)
      BY <1>1, <2>2, <3>1
    <3> HIDE DEF Bad
    <3> QED
      BY <2>1, <3>1, <3>2
  <2>4. crumbs[i - 1] = part(i - 1) /\ crumbs[i] # part(i)
    BY <2>1, <2>3
  <2>5. crumbs[i] = step(crumbs, i)
    BY <1>7, <2>3
  <2>6. crumbs[i] = part(i)
    <3> HIDE DEF Bad
    <3> QED
      BY <1>3, <2>2, <2>3, <2>4, <2>5
  <2> QED
    BY <2>4, <2>6
<1>9. crumbs[n] = part(n)
  BY <1>1, <1>8
<1>10. part(n) = trail
  BY <1>1 DEF part
<1> QED
  BY <1>6, <1>9, <1>10 DEF trail

(* A crumb leads to the prefix of the trail that ends with it.             *)
LEMMA CrumbsLead ==
    ASSUME NEW s \in Seq(Segments), NEW i \in 1 .. Len(s)
    PROVE  BakeBreadcrumbs(s)[i].path = SubSeq(s, 1, i)
<1>1. BakeBreadcrumbs(s)[i] = [label |-> s[i], path |-> SubSeq(s, 1, i)]
  BY TrailIs, TrailEntries, Zenon
<1> QED
  BY <1>1

(* A trail that is folded keeps its crumbs.                                *)
LEMMA CutList ==
    ASSUME NEW T, NEW list \in Seq(T), NEW a \in Nat, NEW b \in Nat, a <= b, b <= Len(list)
    PROVE  /\ SubSeq(list, 1, a) \o SubSeq(list, a + 1, b) \o SubSeq(list, b + 1, Len(list)) = list
           /\ Len(SubSeq(list, 1, a) \o SubSeq(list, b + 1, Len(list))) = a + (Len(list) - b)
<1> DEFINE n == Len(list)
<1>1. SubSeq(list, 1, a) \o SubSeq(list, a + 1, b) = SubSeq(list, 1, b)
  <2>1. 1 \in 1 .. n + 1 /\ a \in 1 - 1 .. n /\ b \in a .. n
    OBVIOUS
  <2> QED
    BY <2>1, ConcatAdjacentSubSeq
<1>2. SubSeq(list, 1, b) \o SubSeq(list, b + 1, n) = list
  <2>1. 1 \in 1 .. n + 1 /\ b \in 1 - 1 .. n /\ n \in b .. n
    OBVIOUS
  <2> QED
    BY <2>1, ConcatAdjacentSubSeq, SubSeqFull
<1>3. SubSeq(list, 1, a) \in Seq(T) /\ Len(SubSeq(list, 1, a)) = a
  OBVIOUS
<1>4. SubSeq(list, b + 1, n) \in Seq(T) /\ Len(SubSeq(list, b + 1, n)) = n - b
  <2>1. b + 1 \in Int /\ n \in Int /\ \A i \in b + 1 .. n : list[i] \in T
    OBVIOUS
  <2>2. (IF b + 1 <= n THEN n - (b + 1) + 1 ELSE 0) = n - b
    OBVIOUS
  <2> QED
    BY <2>1, <2>2, SubSeqProperties
<1>5. ASSUME NEW w \in Seq(T), NEW y \in Seq(T) PROVE Len(w \o y) = Len(w) + Len(y)
  OBVIOUS
<1> QED
  BY <1>1, <1>2, <1>3, <1>4, <1>5

LEMMA FoldedTrail ==
    ASSUME NEW T, NEW list \in Seq(T)
    PROVE  LET a == Affix(list) IN
           a.prefix \o a.infix \o a.suffix = list /\ Len(a.prefix \o a.suffix) <= MaxTrailLength
<1> DEFINE n == Len(list)  h == MaxTrailLength \div 2
<1>1. n \in Nat /\ MaxTrailLength \in Nat
  <2>1. MaxTrailLength \in Nat \ {0, 1}
    BY Zenon, BrowseAssumption
  <2> QED
    BY <2>1
<1>2. CASE n <= MaxTrailLength
  <2>1. Affix(list) = [prefix |-> list, infix |-> <<>>, suffix |-> <<>>]
    BY <1>2, Zenon DEF Affix
  <2>2. list \o <<>> = list /\ Len(list) <= MaxTrailLength
    BY <1>2
  <2> QED
    BY <2>1, <2>2
<1>3. CASE ~ (n <= MaxTrailLength)
  <2>1. h \in Nat /\ h + h <= MaxTrailLength
    BY <1>1
  <2>2. PICK a \in Nat : a = h
    BY <2>1
  <2>3. PICK b \in Nat : b = n - h /\ a <= b /\ b <= n
    BY <1>1, <1>3, <2>1, <2>2
  <2>4. Affix(list) = [prefix |-> SubSeq(list, 1, a), infix |-> SubSeq(list, a + 1, b),
                       suffix |-> SubSeq(list, b + 1, n)]
    BY <1>3, <2>2, <2>3, Zenon DEF Affix
  <2>5. /\ SubSeq(list, 1, a) \o SubSeq(list, a + 1, b) \o SubSeq(list, b + 1, n) = list
        /\ Len(SubSeq(list, 1, a) \o SubSeq(list, b + 1, n)) = a + (n - b)
    BY <2>3, CutList
  <2>6. a + (n - b) <= MaxTrailLength
    BY <1>1, <2>1, <2>2, <2>3
  <2>7. /\ Affix(list).prefix = SubSeq(list, 1, a) /\ Affix(list).infix = SubSeq(list, a + 1, b)
        /\ Affix(list).suffix = SubSeq(list, b + 1, n)
    BY <2>4
  <2>8. Len(SubSeq(list, 1, a) \o SubSeq(list, b + 1, n)) <= MaxTrailLength
    BY <2>5, <2>6
  <2> HIDE DEF n, h
  <2> QED
    BY <2>5, <2>7, <2>8, Zenon
<1> QED
  BY <1>2, <1>3

LEMMA TrailIsAlwaysWhole == BrowseTypeOK => TrailIsWhole
<1> SUFFICES ASSUME BrowseTypeOK PROVE TrailIsWhole
  OBVIOUS
<1>1. browseParams[2] \in Seq(Segments)
  BY BrowseAssumption DEF BrowseTypeOK, Keys
<1>2. PICK c \in Seq(Crumb) : c = BakeBreadcrumbs(browseParams[2])
  BY <1>1, TrailIs, TrailEntries
<1> QED
  BY <1>2, FoldedTrail DEF TrailIsWhole

(* The page.  Nothing is rendered but the category the url names, and each *)
(* of its lists has either a frame to come, and then its spinner, or all   *)
(* its elements.                                                           *)
ListIn(path, l) == IF l = "entities" THEN path.entities ELSE path.groups
ListsIf(tiles) == IF tiles THEN {"tiles"} ELSE {"groups", "entities"}
IsTiled(k) == k[2] = <<>> /\ k[1] = TiledEntity
SpinnersOf(l) == IF l = "tiles" THEN Flags ELSE {l}

RenderedOrSpinning(path, flags, shown, on) ==
    \A l \in DOMAIN shown : IF l \in on THEN SpinnersOf(l) \subseteq flags ELSE shown[l] = Len(ListIn(path, l))

ShowsCategory(k, path, tiles, flags, shown, on) ==
    /\ path = ReadCategories(k) /\ tiles = IsTiled(k) /\ DOMAIN shown = ListsIf(tiles)
    /\ RenderedOrSpinning(path, flags, shown, on)

PageTyped(nodesDo, path, tiles, flags, shown, on) ==
    /\ nodesDo \in {"running", "idle", "error"} /\ tiles \in BOOLEAN /\ flags \subseteq Flags
    /\ path = NoBrowsePath \/ \E k \in Keys : path = ReadCategories(k)
    /\ on \subseteq DOMAIN shown /\ DOMAIN shown \subseteq {"tiles", "groups", "entities"}
    /\ \A l \in DOMAIN shown : shown[l] \in 0 .. Len(ListIn(path, l))

PageOK(at, k, nodesDo, path, tiles, flags, shown, on) ==
    /\ PageTyped(nodesDo, path, tiles, flags, shown, on)
    /\ at # "browse" => nodesDo = "idle"
    /\ at = "browse" /\ nodesDo = "idle" => ShowsCategory(k, path, tiles, flags, shown, on)
    /\ ~ (at = "browse" /\ nodesDo = "idle") => shown = << >> /\ on = {}

PageAgrees == PageOK(browseRoute, browseParams, nodesTask, browsePath, showAsTiles, loading, renderedTo, frames)

RoutesTyped ==
    /\ browseRoute \in {"index", "browse", "away"} /\ browseParams \in Keys
    /\ browseEntity \in BrowseEntities \cup {"none"}
    /\ DOMAIN promises \subseteq Keys /\ \A k \in DOMAIN promises : promises[k] \in {"pending", "cached", "failed"}

BrowseInv == RoutesTyped /\ PageAgrees

(* What a category is made into: as many links as it has names and urns.   *)
LEMMA CategoryLists ==
    ASSUME NEW k \in Keys
    PROVE  LET path == ReadCategories(k) IN
           /\ path # NoBrowsePath /\ path.key = k
           /\ Len(path.groups) = Len(Groups[k]) /\ Len(path.entities) = Len(Elements[k])
           /\ DOMAIN path.groups = 1 .. Len(Groups[k])
           /\ Len(path.groups) \in Nat /\ Len(path.entities) \in Nat
           /\ \A l : Len(ListIn(path, l)) \in Nat
<1> DEFINE path == ReadCategories(k)
<1>1. Groups[k] \in Seq(Segments) /\ Elements[k] \in Seq(STRING)
  BY BrowseAssumption DEF Keys
<1>2. /\ "key" \in DOMAIN path /\ path.key = k
      /\ path.groups = [i \in DOMAIN Groups[k] |-> LinkForCategory(k[1], Append(k[2], Groups[k][i]))]
      /\ path.entities = [i \in DOMAIN Elements[k] |-> LinkForEntity(k[1], Elements[k][i])]
  BY DEF ReadCategories
<1>3. "key" \notin DOMAIN NoBrowsePath
  BY DEF NoBrowsePath
<1>4. DOMAIN path.groups = 1 .. Len(Groups[k]) /\ DOMAIN path.entities = 1 .. Len(Elements[k])
  BY <1>1, <1>2
<1>5. Len(path.groups) = Len(Groups[k]) /\ Len(path.entities) = Len(Elements[k])
  BY <1>1, <1>2
<1>6. Len(path.groups) \in Nat /\ Len(path.entities) \in Nat
  BY <1>1, <1>5
<1> HIDE DEF path
<1>7. \A l : Len(ListIn(path, l)) \in Nat
  BY <1>6 DEF ListIn
<1>8. path # NoBrowsePath
  BY <1>2, <1>3
<1> QED
  BY <1>2, <1>4, <1>5, <1>6, <1>7, <1>8 DEF path

LEMMA PageListsAre == Lists = ListsIf(showAsTiles) /\ \A l : ListOf(l) = ListIn(browsePath, l)
BY DEF Lists, ListsIf, ListOf, ListIn

(* An answer that is shown, and a failure.                                 *)
LEMMA FinishedAgrees ==
    ASSUME NEW k \in Keys, Finish(k), browseRoute' = "browse", browseParams' = k
    PROVE  PageAgrees'
<1>1. /\ browsePath' = ReadCategories(k) /\ showAsTiles' = IsTiled(k) /\ loading' = Flags /\ nodesTask' = "idle"
      /\ renderedTo' = [l \in Lists' |-> 0] /\ frames' = Lists'
  BY DEF Finish, Finally, ShowLists, IsTiled
<1>2. Lists' = ListsIf(showAsTiles')
  BY DEF Lists, ListsIf
<1>3. IsTiled(k) \in BOOLEAN
  BY DEF IsTiled
<1>4. \A l \in Lists' : SpinnersOf(l) \subseteq Flags /\ l \in {"tiles", "groups", "entities"}
  BY <1>2 DEF ListsIf, SpinnersOf, Flags
<1>5. \A l : Len(ListIn(browsePath', l)) \in Nat
  BY <1>1, CategoryLists
<1>6. \A l : 0 \in 0 .. Len(ListIn(browsePath', l))
  BY <1>5
<1>7. PageTyped(nodesTask', browsePath', showAsTiles', loading', renderedTo', frames')
  BY <1>1, <1>3, <1>4, <1>6 DEF PageTyped
<1>8. RenderedOrSpinning(browsePath', loading', renderedTo', frames')
  BY <1>1, <1>4 DEF RenderedOrSpinning
<1>9. ShowsCategory(browseParams', browsePath', showAsTiles', loading', renderedTo', frames')
  BY <1>1, <1>2, <1>8 DEF ShowsCategory
<1> QED
  BY <1>1, <1>7, <1>9 DEF PageAgrees, PageOK

(* A page with nothing on it.                                              *)
LEMMA HiddenAgrees ==
    ASSUME HideLists, nodesTask' \in {"running", "idle", "error"},
           browseRoute' = "browse" <=> nodesTask' # "idle",
           showAsTiles' \in BOOLEAN, loading' \subseteq Flags,
           browsePath' = NoBrowsePath \/ \E k \in Keys : browsePath' = ReadCategories(k)
    PROVE  PageAgrees'
<1>1. renderedTo' = << >> /\ frames' = {} /\ DOMAIN << >> = {}
  BY DEF HideLists
<1>2. PageTyped(nodesTask', browsePath', showAsTiles', loading', renderedTo', frames')
  BY <1>1 DEF PageTyped
<1> QED
  BY <1>1, <1>2 DEF PageAgrees, PageOK

LEMMA FailedAgrees ==
    ASSUME NEW k \in Keys, Fail(k), browseRoute' = "browse" PROVE PageAgrees'
<1>1. /\ nodesTask' = "error" /\ browsePath' = NoBrowsePath /\ HideLists
      /\ showAsTiles' = IsTiled(k) /\ loading' = Flags
  BY DEF Fail, Finally, IsTiled
<1>2. IsTiled(k) \in BOOLEAN
  BY DEF IsTiled
<1> QED
  BY <1>1, <1>2, HiddenAgrees

LEMMA UnchangedAgrees ==
    ASSUME PageAgrees, UNCHANGED <<browseRoute, browseParams, nodesTask, browsePath, showAsTiles, loading, renderedTo, frames>>
    PROVE  PageAgrees'
BY DEF PageAgrees

(* The task that reads a category.                                         *)
LEMMA PromiseTyped ==
    ASSUME RoutesTyped, NEW k \in Keys, ReadBrowse(k)
    PROVE  /\ DOMAIN promises' \subseteq Keys
           /\ \A p \in DOMAIN promises' : promises'[p] \in {"pending", "cached", "failed"}
<1>1. CASE k \in DOMAIN promises
  BY <1>1 DEF ReadBrowse, RoutesTyped
<1>2. CASE k \notin DOMAIN promises
  <2>1. promises' = [p \in DOMAIN promises \cup {k} |-> IF p = k THEN "pending" ELSE promises[p]]
    BY <1>2 DEF ReadBrowse
  <2> QED
    BY <2>1 DEF RoutesTyped
<1> QED
  BY <1>1, <1>2

LEMMA PerformedAgrees ==
    ASSUME RoutesTyped, PageAgrees, NEW k \in Keys, PerformNodes(k), browseRoute' = "browse", browseParams' = k
    PROVE  PageAgrees'
<1>1. CASE promises'[k] = "cached"
  BY <1>1, FinishedAgrees DEF PerformNodes
<1>2. CASE promises'[k] = "failed"
  <2>1. Fail(k)
    BY <1>2 DEF PerformNodes
  <2> QED
    BY <2>1, FailedAgrees
<1>3. CASE promises'[k] # "cached" /\ promises'[k] # "failed"
  <2>1. /\ nodesTask' = "running" /\ HideLists
        /\ IF nodesTask = "running" THEN Finally(browseParams, NoBrowsePath)
           ELSE UNCHANGED <<browsePath, showAsTiles, loading>>
    BY <1>3 DEF PerformNodes
  <2>2. PageTyped(nodesTask, browsePath, showAsTiles, loading, renderedTo, frames)
    BY DEF PageAgrees, PageOK
  <2>3. CASE nodesTask = "running"
    <3>1. browsePath' = NoBrowsePath /\ showAsTiles' = IsTiled(browseParams) /\ loading' = Flags
      BY <2>1, <2>3 DEF Finally, IsTiled
    <3>2. IsTiled(browseParams) \in BOOLEAN
      BY DEF IsTiled
    <3> QED
      BY <2>1, <3>1, <3>2, HiddenAgrees
  <2>4. CASE nodesTask # "running"
    <3>1. browsePath' = browsePath /\ showAsTiles' = showAsTiles /\ loading' = loading
      BY <2>1, <2>4
    <3>2. /\ showAsTiles' \in BOOLEAN /\ loading' \subseteq Flags
          /\ browsePath' = NoBrowsePath \/ \E p \in Keys : browsePath' = ReadCategories(p)
      BY <2>2, <3>1 DEF PageTyped
    <3> QED
      BY <2>1, <3>2, HiddenAgrees
  <2> QED
    BY <2>3, <2>4
<1> QED
  BY <1>1, <1>2, <1>3

LEMMA OpenedAgrees ==
    ASSUME BrowseInv, NEW e, NEW path, OpenBrowse(e, path)
    PROVE  BrowseInv'
<1> DEFINE k == <<e, Split(path)>>
<1>1. /\ k \in Keys /\ browseEntity' = e /\ browseRoute' = "browse" /\ browseParams' = k
      /\ ContainerDataSource(k)
  BY DEF OpenBrowse
<1>2. e \in BrowseEntities
  BY <1>1, BrowseAssumption DEF Keys
<1> HIDE DEF k
<1>3. CASE browseRoute = "browse" /\ k = browseParams
  <2>1. UNCHANGED <<promises, nodesTask, browsePath, showAsTiles, loading, renderedTo, frames>>
    BY <1>1, <1>3 DEF ContainerDataSource
  <2>2. RoutesTyped'
    BY <1>1, <1>2, <2>1 DEF BrowseInv, RoutesTyped
  <2>3. PageAgrees'
    BY <1>1, <1>3, <2>1, UnchangedAgrees DEF BrowseInv
  <2> QED
    BY <2>2, <2>3 DEF BrowseInv
<1>4. CASE ~ (browseRoute = "browse" /\ k = browseParams)
  <2>1. PerformNodes(k)
    BY <1>1, <1>4 DEF ContainerDataSource
  <2>2. PageAgrees'
    BY <1>1, <2>1, PerformedAgrees DEF BrowseInv
  <2>3. ReadBrowse(k)
    BY <2>1 DEF PerformNodes
  <2>4. RoutesTyped'
    BY <1>1, <1>2, <2>3, PromiseTyped DEF BrowseInv, RoutesTyped
  <2> QED
    BY <2>2, <2>4 DEF BrowseInv
<1> QED
  BY <1>3, <1>4

LEMMA LeftAgrees ==
    ASSUME BrowseInv, NEW to \in {"index", "away"}, LeaveBrowse(to), browseEntity' \in BrowseEntities \cup {"none"}
    PROVE  BrowseInv'
<1>1. /\ browseRoute' = to /\ nodesTask' = "idle" /\ browsePath' = NoBrowsePath
      /\ showAsTiles' = FALSE /\ loading' = {} /\ HideLists
      /\ UNCHANGED <<browseParams, promises>>
  BY DEF LeaveBrowse
<1>2. PageAgrees'
  BY <1>1, HiddenAgrees
<1>3. RoutesTyped'
  BY <1>1 DEF BrowseInv, RoutesTyped
<1> QED
  BY <1>2, <1>3 DEF BrowseInv

LEMMA AnsweredAgrees ==
    ASSUME BrowseInv, NEW k \in Keys, BrowseAnswers(k) \/ BrowseFails(k)
    PROVE  BrowseInv'
<1>1. PICK how \in {"cached", "failed"} : promises' = [promises EXCEPT ![k] = how]
  BY DEF BrowseAnswers, BrowseFails
<1>2. UNCHANGED <<browseRoute, browseParams, browseEntity>>
  BY DEF BrowseAnswers, BrowseFails
<1>3. DOMAIN promises' = DOMAIN promises /\ \A p \in DOMAIN promises : promises'[p] \in {promises[p], how}
  BY <1>1
<1>4. RoutesTyped'
  BY <1>2, <1>3 DEF BrowseInv, RoutesTyped
<1>5. PageAgrees'
  <2>1. CASE Awaited(k)
    <3>1. nodesTask = "running" /\ k = browseParams
      BY <2>1 DEF Awaited
    <3>2. browseRoute' = "browse" /\ browseParams' = k
      BY <1>2, <3>1 DEF BrowseInv, PageAgrees, PageOK
    <3>3. Finish(k) \/ Fail(k)
      BY <2>1 DEF BrowseAnswers, BrowseFails
    <3> QED
      BY <3>2, <3>3, FinishedAgrees, FailedAgrees
  <2>2. CASE ~ Awaited(k)
    <3>1. UNCHANGED <<nodesTask, browsePath, showAsTiles, loading, renderedTo, frames>>
      BY <2>2 DEF BrowseAnswers, BrowseFails
    <3> QED
      BY <1>2, <3>1, UnchangedAgrees DEF BrowseInv
  <2> QED
    BY <2>1, <2>2
<1> QED
  BY <1>4, <1>5 DEF BrowseInv

(* A frame: one list goes on, or is done.                                  *)
LEMMA FrameAgrees ==
    ASSUME BrowseInv, NEW l \in {"tiles", "groups", "entities"}, NextChunk(l)
    PROVE  BrowseInv'
<1>1. l \in frames /\ UNCHANGED <<browseRoute, browseParams, browseEntity, promises, nodesTask, browsePath, showAsTiles>>
  BY DEF NextChunk
<1>2. RoutesTyped'
  BY <1>1 DEF BrowseInv, RoutesTyped
<1>3. /\ PageTyped(nodesTask, browsePath, showAsTiles, loading, renderedTo, frames)
      /\ browseRoute = "browse" /\ nodesTask = "idle"
      /\ ShowsCategory(browseParams, browsePath, showAsTiles, loading, renderedTo, frames)
  BY <1>1 DEF BrowseInv, PageAgrees, PageOK
<1>4. /\ l \in DOMAIN renderedTo /\ browsePath = ReadCategories(browseParams) /\ browseParams \in Keys
      /\ RenderedOrSpinning(browsePath, loading, renderedTo, frames)
  BY <1>1, <1>3 DEF PageTyped, ShowsCategory, BrowseInv, RoutesTyped
<1> DEFINE n == Len(ListIn(browsePath, l))
<1>5. n \in Nat /\ renderedTo[l] \in 0 .. n /\ ListOf(l) = ListIn(browsePath, l)
  BY <1>3, <1>4, CategoryLists, PageListsAre DEF PageTyped
<1>6. CASE renderedTo[l] < Len(ListOf(l))
  <2> DEFINE more == IF renderedTo[l] + ChunkSize < Len(ListOf(l)) THEN renderedTo[l] + ChunkSize ELSE Len(ListOf(l))
  <2>1. renderedTo' = [renderedTo EXCEPT ![l] = more] /\ frames' = frames /\ loading' = loading
    BY <1>6 DEF NextChunk
  <2>2. more \in 0 .. n
    <3>1. ChunkSize \in Nat
      BY BrowseAssumption
    <3> HIDE DEF n
    <3> QED
      BY <1>5, <3>1 DEF n
  <2> HIDE DEF more
  <2>3. DOMAIN renderedTo' = DOMAIN renderedTo /\ renderedTo'[l] = more
        /\ \A m \in DOMAIN renderedTo : m # l => renderedTo'[m] = renderedTo[m]
    BY <1>4, <2>1
  <2>4. PageTyped(nodesTask', browsePath', showAsTiles', loading', renderedTo', frames')
    BY <1>1, <1>3, <2>1, <2>2, <2>3 DEF PageTyped
  <2>5. RenderedOrSpinning(browsePath', loading', renderedTo', frames')
    BY <1>1, <1>4, <2>1, <2>3 DEF RenderedOrSpinning
  <2>6. ShowsCategory(browseParams', browsePath', showAsTiles', loading', renderedTo', frames')
    BY <1>1, <1>3, <2>3, <2>5 DEF ShowsCategory
  <2>7. PageAgrees'
    BY <1>1, <1>3, <2>4, <2>6 DEF PageAgrees, PageOK
  <2> QED
    BY <1>2, <2>7 DEF BrowseInv
<1>7. CASE ~ (renderedTo[l] < Len(ListOf(l)))
  <2>1. frames' = frames \ {l} /\ loading' = loading \ SpinnersOf(l) /\ renderedTo' = renderedTo
    BY <1>7 DEF NextChunk, OnFinished, SpinnersOf
  <2>2. renderedTo[l] = n
    BY <1>5, <1>7
  <2>3. PageTyped(nodesTask', browsePath', showAsTiles', loading', renderedTo', frames')
    BY <1>1, <1>3, <2>1 DEF PageTyped
  <2>4. DOMAIN renderedTo = ListsIf(showAsTiles)
    BY <1>3 DEF ShowsCategory
  <2>5. \A m \in DOMAIN renderedTo : m # l => SpinnersOf(m) \cap SpinnersOf(l) = {}
    BY <1>4, <2>4 DEF ListsIf, SpinnersOf
  <2>6. RenderedOrSpinning(browsePath', loading', renderedTo', frames')
    <3> SUFFICES ASSUME NEW m \in DOMAIN renderedTo
                 PROVE  IF m \in frames \ {l} THEN SpinnersOf(m) \subseteq loading \ SpinnersOf(l)
                        ELSE renderedTo[m] = Len(ListIn(browsePath, m))
      BY <1>1, <2>1 DEF RenderedOrSpinning
    <3>1. CASE m = l
      BY <2>2, <3>1
    <3>2. CASE m # l
      BY <1>4, <2>5, <3>2 DEF RenderedOrSpinning
    <3> QED
      BY <3>1, <3>2
  <2>7. ShowsCategory(browseParams', browsePath', showAsTiles', loading', renderedTo', frames')
    BY <1>1, <1>3, <2>1, <2>6 DEF ShowsCategory
  <2>8. PageAgrees'
    BY <1>1, <1>3, <2>3, <2>7 DEF PageAgrees, PageOK
  <2> QED
    BY <1>2, <2>8 DEF BrowseInv
<1> QED
  BY <1>6, <1>7

LEMMA BrowseSteps == BrowseInv /\ [BrowseNext]_browseVars => BrowseInv'
<1> SUFFICES ASSUME BrowseInv, [BrowseNext]_browseVars PROVE BrowseInv'
  OBVIOUS
<1>1. ASSUME NEW k \in Keys, OpenBrowse(k[1], <<"">> \o k[2]) PROVE BrowseInv'
  BY <1>1, OpenedAgrees
<1>2. ASSUME NEW k \in Keys, OpenBrowse(k[1], ReadPath(<<k[2]>>)) PROVE BrowseInv'
  BY <1>2, OpenedAgrees
<1>3. ASSUME NEW k \in Keys, BrowseAnswers(k) \/ BrowseFails(k) PROVE BrowseInv'
  BY <1>3, AnsweredAgrees
<1>4. ASSUME NEW i \in DOMAIN browsePath.groups, FollowLink(browsePath.groups[i]) PROVE BrowseInv'
  BY <1>4, OpenedAgrees DEF FollowLink
<1>5. CASE OpenIndex
  BY <1>5, LeftAgrees DEF OpenIndex
<1>6. CASE OpenEntityPage
  <2>1. LeaveBrowse("away") /\ browseEntity' \in BrowseEntities \cup {"none"}
    BY <1>6 DEF OpenEntityPage, BrowseInv, RoutesTyped
  <2> QED
    BY <2>1, LeftAgrees
<1>7. CASE RetryNodes
  <2>1. PerformNodes(browseParams) /\ browseParams \in Keys /\ UNCHANGED <<browseRoute, browseParams, browseEntity>>
    BY <1>7 DEF RetryNodes, BrowseInv, RoutesTyped
  <2>2. browseRoute' = "browse"
    BY <1>7, <2>1 DEF RetryNodes, BrowseInv, PageAgrees, PageOK
  <2>3. PageAgrees'
    BY <2>1, <2>2, PerformedAgrees DEF BrowseInv
  <2>4. ReadBrowse(browseParams)
    BY <2>1 DEF PerformNodes
  <2>5. RoutesTyped'
    BY <2>1, <2>4, PromiseTyped DEF BrowseInv, RoutesTyped
  <2> QED
    BY <2>3, <2>5 DEF BrowseInv
<1>8. ASSUME NEW l \in {"tiles", "groups", "entities"}, NextChunk(l) PROVE BrowseInv'
  BY <1>8, FrameAgrees
<1>9. CASE UNCHANGED browseVars
  <2>1. UNCHANGED <<browseRoute, browseParams, nodesTask, browsePath, showAsTiles, loading, renderedTo, frames>>
        /\ UNCHANGED <<browseEntity, promises>>
    BY <1>9 DEF browseVars
  <2>2. PageAgrees'
    BY <2>1, UnchangedAgrees DEF BrowseInv
  <2>3. RoutesTyped'
    BY <2>1 DEF BrowseInv, RoutesTyped
  <2> QED
    BY <2>2, <2>3 DEF BrowseInv
<1> QED
  BY <1>1, <1>2, <1>3, <1>4, <1>5, <1>6, <1>7, <1>8, <1>9 DEF BrowseNext

LEMMA BrowseStarts == BrowseInit => BrowseInv
<1> SUFFICES ASSUME BrowseInit PROVE BrowseInv
  OBVIOUS
<1>1. /\ browseRoute = "index" /\ browseParams = <<TiledEntity, <<>>>> /\ browseEntity = "none"
      /\ promises = << >> /\ nodesTask = "idle" /\ browsePath = NoBrowsePath
      /\ showAsTiles = FALSE /\ loading = {} /\ renderedTo = << >> /\ frames = {}
  BY DEF BrowseInit
<1>2. DOMAIN << >> = {}
  OBVIOUS
<1>3. browseParams \in Keys
  BY <1>1, BrowseAssumption DEF Keys
<1>4. RoutesTyped
  BY <1>1, <1>2, <1>3 DEF RoutesTyped
<1>5. PageTyped(nodesTask, browsePath, showAsTiles, loading, renderedTo, frames)
  BY <1>1, <1>2 DEF PageTyped
<1>6. PageAgrees
  BY <1>1, <1>5 DEF PageAgrees, PageOK
<1> QED
  BY <1>4, <1>6 DEF BrowseInv

LEMMA LinksAlwaysKeepTheWay ==
    ASSUME BrowseInv PROVE LinksKeepTheWay
<1> SUFFICES ASSUME BrowseVisible PROVE LinksKeepTheWay
  BY DEF LinksKeepTheWay
<1>1. PICK k : k = browseParams
  OBVIOUS
<1>2. k \in Keys /\ browsePath = ReadCategories(k)
  BY <1>1 DEF BrowseInv, RoutesTyped, PageAgrees, PageOK, ShowsCategory, BrowseVisible
<1>3. k[2] \in Seq(Segments) /\ Groups[k] \in Seq(Segments)
  BY <1>2, BrowseAssumption DEF Keys
<1>4. ASSUME NEW i \in DOMAIN browsePath.groups
      PROVE  Split(browsePath.groups[i].path) = Append(k[2], Groups[k][i])
  <2>1. i \in DOMAIN Groups[k] /\ browsePath.groups[i] = LinkForCategory(k[1], Append(k[2], Groups[k][i]))
    BY <1>2, <1>4 DEF ReadCategories
  <2>2. Append(k[2], Groups[k][i]) \in Seq(Segments)
    BY <1>3, <2>1
  <2>3. PICK p \in Seq(Segments) : p = Append(k[2], Groups[k][i])
    BY <2>2
  <2>4. Split(p) = p /\ Split(Join(p)) = p
    BY SplitOfSegments
  <2>5. LinkForCategory(k[1], p).path = Join(Split(p))
    BY DEF LinkForCategory
  <2> QED
    BY <2>1, <2>3, <2>4, <2>5
<1>5. ASSUME NEW i \in DOMAIN k[2]
      PROVE  Split(BakeBreadcrumbs(k[2])[i].path) = SubSeq(k[2], 1, i)
  <2>1. i \in 1 .. Len(k[2])
    BY <1>3
  <2>2. BakeBreadcrumbs(k[2])[i].path = SubSeq(k[2], 1, i)
    BY <1>3, <2>1, CrumbsLead
  <2>3. SubSeq(k[2], 1, i) \in Seq(Segments)
    BY <1>3, <2>1, PrefixAppend
  <2> QED
    BY <2>2, <2>3, SplitOfSegments
<1>6. Split(SearchWithinLink(k[1], k[2]).path) = k[2]
  BY <1>3, SplitOfSegments DEF SearchWithinLink
<1> QED
  BY <1>1, <1>4, <1>5, <1>6 DEF LinksKeepTheWay

LEMMA BrowseGives == BrowseInv => BrowsingAgrees
<1> SUFFICES ASSUME BrowseInv PROVE BrowsingAgrees
  OBVIOUS
<1>1. BrowseTypeOK
  <2>1. browsePath # NoBrowsePath => browsePath.key \in Keys
    BY CategoryLists DEF BrowseInv, PageAgrees, PageOK, PageTyped
  <2> QED
    BY <2>1, PageListsAre DEF BrowseInv, RoutesTyped, PageAgrees, PageOK, PageTyped, BrowseTypeOK
<1>2. BrowseVisible => ShowsCategory(browseParams, browsePath, showAsTiles, loading, renderedTo, frames)
  BY DEF BrowseInv, PageAgrees, PageOK, BrowseVisible
<1>3. BrowseShowsParams
  BY <1>2 DEF BrowseShowsParams, ShowsCategory
<1>4. RenderedWhenLoaded
  <2> SUFFICES ASSUME BrowseVisible, loading = {}
               PROVE  /\ \A l \in DOMAIN renderedTo : renderedTo[l] = Len(ListOf(l))
                      /\ "groups" \in DOMAIN renderedTo \/ browsePath.entities = <<>>
    BY DEF RenderedWhenLoaded
  <2>1. ShowsCategory(browseParams, browsePath, showAsTiles, loading, renderedTo, frames)
    BY <1>2
  <2>2. \A l \in DOMAIN renderedTo : l \notin frames
    BY <2>1 DEF ShowsCategory, RenderedOrSpinning, SpinnersOf, Flags
  <2>3. \A l \in DOMAIN renderedTo : renderedTo[l] = Len(ListOf(l))
    BY <2>1, <2>2, PageListsAre DEF ShowsCategory, RenderedOrSpinning
  <2>4. CASE showAsTiles
    <3>1. browseParams = <<TiledEntity, <<>>>>
      <4>1. browseParams[1] = TiledEntity /\ browseParams[2] = <<>>
        BY <2>1, <2>4 DEF ShowsCategory, IsTiled
      <4>2. browseParams \in BrowseEntities \X Seq(Segments)
        BY BrowseAssumption DEF BrowseInv, RoutesTyped, Keys
      <4> QED
        BY <4>1, <4>2
    <3>2. Elements[browseParams] = <<>>
      BY <3>1, BrowseAssumption
    <3>3. browsePath.entities = [i \in DOMAIN <<>> |-> LinkForEntity(browseParams[1], Elements[browseParams][i])]
      BY <2>1, <3>2 DEF ShowsCategory, ReadCategories
    <3>4. browsePath.entities = <<>>
      BY <3>3
    <3> QED
      BY <2>3, <3>4
  <2>5. CASE ~ showAsTiles
    <3>1. "groups" \in DOMAIN renderedTo
      BY <2>1, <2>5 DEF ShowsCategory, ListsIf
    <3> QED
      BY <2>3, <3>1
  <2> QED
    BY <2>4, <2>5 DEF BrowseInv, PageAgrees, PageOK, PageTyped
<1> QED
  BY <1>1, <1>3, <1>4, LinksAlwaysKeepTheWay, TrailIsAlwaysWhole DEF BrowsingAgrees

(* The page shows the category its url names, whatever answers came in     *)
(* which order; when its spinner goes, all of it is rendered; and links,   *)
(* breadcrumbs and the folded trail lead where they say.                   *)
THEOREM BrowsedIsShown == BrowseSpec => []BrowsingAgrees
<1>1. BrowseSpec => []BrowseInv
  BY BrowseStarts, BrowseSteps, PTL DEF BrowseSpec
<1> QED
  BY <1>1, BrowseGives, PTL
-----------------------------------------------------------------------------
(***************************************************************************)
(* The charts.  Types and the gauge are inductive; that bars fit and do    *)
(* not overlap is arithmetic: a greatest value, products and quotients.    *)
(***************************************************************************)

(* A series of bounded length is a list of values.                         *)
LEMMA BoundedSeries ==
    ASSUME NEW S, NEW n \in Nat, NEW s \in BoundedSeq(S, n)
    PROVE  s \in Seq(S) /\ Len(s) \in 0 .. n
<1>1. PICK m \in 0 .. n : s \in [1 .. m -> S]
  BY DEF BoundedSeq, SeqOf
<1> QED
  BY <1>1

(* A list of naturals is bounded.                                          *)
LEMMA ListIsBounded ==
    ASSUME NEW s \in Seq(Nat) PROVE \E b \in Nat : \A i \in 1 .. Len(s) : s[i] < b
<1> DEFINE Bounded(k) == \E b \in Nat : \A i \in 1 .. k : s[i] < b
           Bad == {k \in 0 .. Len(s) : ~ Bounded(k)}
<1> HIDE DEF Bounded
<1>1. Bounded(0)
  BY DEF Bounded
<1>2. ASSUME NEW k \in 1 .. Len(s), Bounded(k - 1) PROVE Bounded(k)
  <2>1. PICK b \in Nat : \A i \in 1 .. k - 1 : s[i] < b
    BY <1>2 DEF Bounded
  <2>2. s[k] \in Nat
    OBVIOUS
  <2>3. CASE s[k] < b
    <3>1. \A i \in 1 .. k : i = k \/ i \in 1 .. k - 1
      OBVIOUS
    <3>2. \A i \in 1 .. k : s[i] < b
      BY <2>1, <2>3, <3>1
    <3> QED
      BY <3>2 DEF Bounded
  <2>4. CASE s[k] >= b
    <3>1. s[k] + 1 \in Nat /\ \A i \in 1 .. k : s[i] < s[k] + 1
      <4> SUFFICES ASSUME NEW i \in 1 .. k PROVE s[i] < s[k] + 1
        BY <2>2
      <4>1. CASE i = k
        BY <2>2, <4>1
      <4>2. CASE i < k
        <5>1. i \in 1 .. k - 1 /\ s[i] \in Nat
          BY <4>2
        <5>2. s[i] < b
          BY <5>1, <2>1
        <5> QED
          BY <5>1, <5>2, <2>2, <2>4
      <4> QED
        BY <4>1, <4>2
    <3> QED
      BY <3>1 DEF Bounded
  <2> QED
    BY <2>2, <2>3, <2>4
<1>3. Bad = {}
  <2> SUFFICES ASSUME Bad # {} PROVE FALSE
    OBVIOUS
  <2>1. Bad \in SUBSET Nat
    OBVIOUS
  <2>2. PICK k \in Bad : \A j \in Bad : k <= j
    BY <2>1, NatHasLeast
  <2>3. k # 0 /\ k \in 0 .. Len(s)
    BY <1>1
  <2>4. k \in 1 .. Len(s) /\ k - 1 \in 0 .. Len(s) /\ k - 1 \notin Bad
    BY <2>2, <2>3
  <2> QED
    BY <2>4, <1>2
<1>4. Len(s) \in 0 .. Len(s)
  OBVIOUS
<1>5. Bounded(Len(s))
  BY <1>3, <1>4
<1> QED
  BY <1>5 DEF Bounded

(* The greatest value of a series is not less than any of them.            *)
LEMMA MaxYIsGreatest ==
    ASSUME NEW s \in Seq(Nat)
    PROVE  MaxY(s) \in Nat /\ \A i \in 1 .. Len(s) : s[i] <= MaxY(s)
<1> DEFINE S == ToSet(s) \cup {0}
<1>1. PICK b \in Nat : \A i \in 1 .. Len(s) : s[i] < b
  BY ListIsBounded
<1>2. ToSet(s) = {s[i] : i \in 1 .. Len(s)}
  BY DEF ToSet
<1>3. S \in SUBSET Nat /\ S # {} /\ b + 1 \in Nat /\ \A x \in S : x < b + 1
  BY <1>1, <1>2
<1>4. PICK v \in S : \A w \in S : w <= v
  <2> HIDE DEF S
  <2> QED
    BY <1>3, BoundedHasGreatest
<1>5. MaxY(s) \in S /\ \A w \in S : MaxY(s) >= w
  <2>1. MaxY(s) = CHOOSE x \in S : \A y \in S : x >= y
    BY DEF MaxY, Max
  <2>2. \A y \in S : v >= y
    BY <1>3, <1>4
  <2> HIDE DEF S
  <2> QED
    BY <1>4, <2>1, <2>2
<1> QED
  BY <1>2, <1>3, <1>5

(* Products and quotients grow with their first argument.                  *)
LEMMA TimesGrows ==
    ASSUME NEW a \in Nat, NEW b \in Nat, NEW n \in Nat, a <= b
    PROVE  a * n \in Nat /\ b * n \in Nat /\ a * n <= b * n
OBVIOUS

(* So does a quotient with its dividend.                                   *)
LEMMA DivGrows ==
    ASSUME NEW a \in Nat, NEW b \in Nat, NEW m \in Nat \ {0}, a <= b
    PROVE  a \div m \in Nat /\ b \div m \in Nat /\ a \div m <= b \div m
<1>1. a \div m \in Nat /\ b \div m \in Nat
  OBVIOUS
<1>2. a \div m <= b \div m
  OBVIOUS
<1> QED
  BY <1>1, <1>2

(* The length of a bar.                                                    *)
LEMMA BarLengths ==
    ASSUME NEW s \in Seq(Nat), NEW i \in 1 .. Len(s), NEW j \in 1 .. Len(s), size \in Nat
    PROVE  /\ BarLength(s[i], s) \in Nat /\ BarLength(s[i], s) >= 1
           /\ BarLength(s[i], s) <= (IF size > 1 THEN size ELSE 1)
           /\ s[i] >= s[j] => BarLength(s[i], s) >= BarLength(s[j], s)
<1> DEFINE m == MaxY(s)
           length(v) == IF m = 0 THEN 0 ELSE (v * size) \div m
<1>1. m \in Nat /\ s[i] \in Nat /\ s[j] \in Nat /\ s[i] <= m /\ s[j] <= m
  BY MaxYIsGreatest
<1>2. \A v : BarLength(v, s) = IF length(v) > 1 THEN length(v) ELSE 1
  BY DEF BarLength
<1> HIDE DEF m
<1>3. \A v \in Nat : v <= m => length(v) \in Nat /\ length(v) <= size
  <2> SUFFICES ASSUME NEW v \in Nat, v <= m PROVE length(v) \in Nat /\ length(v) <= size
    OBVIOUS
  <2>1. CASE m = 0
    BY <2>1
  <2>2. CASE m # 0
    <3>1. v * size \in Nat /\ m \in Nat \ {0}
      BY <1>1, <2>2
    <3>2. (v * size) \div m \in Nat
      BY <3>1
    <3>3. (v * size) \div m <= size
      BY <3>1
    <3> QED
      BY <2>2, <3>2, <3>3
  <2> QED
    BY <2>1, <2>2
<1>4. s[i] >= s[j] => length(s[i]) >= length(s[j])
  <2> SUFFICES ASSUME s[i] >= s[j] PROVE length(s[i]) >= length(s[j])
    OBVIOUS
  <2>1. CASE m = 0
    BY <2>1
  <2>2. CASE m # 0
    <3>1. s[j] * size \in Nat /\ s[i] * size \in Nat /\ s[j] * size <= s[i] * size
      BY <1>1, TimesGrows
    <3>2. /\ (s[j] * size) \div m \in Nat /\ (s[i] * size) \div m \in Nat
          /\ (s[j] * size) \div m <= (s[i] * size) \div m
      BY <1>1, <2>2, <3>1, DivGrows
    <3> QED
      BY <2>2, <3>2
  <2> QED
    BY <2>1, <2>2
<1>5. length(s[i]) \in Nat /\ length(s[j]) \in Nat /\ length(s[i]) <= size
  BY <1>1, <1>3
<1>6. PICK a \in Nat : a = length(s[i])
  BY <1>5
<1>7. PICK b \in Nat : b = length(s[j])
  BY <1>5
<1>8. BarLength(s[i], s) = (IF a > 1 THEN a ELSE 1) /\ BarLength(s[j], s) = (IF b > 1 THEN b ELSE 1)
  BY <1>2, <1>6, <1>7
<1> QED
  BY <1>4, <1>5, <1>6, <1>7, <1>8

(* The wider of a pixel and the measured width.                            *)
LEMMA AtLeastOne ==
    ASSUME NEW n \in Nat PROVE Max({1, n}) = IF n > 1 THEN n ELSE 1
<1> DEFINE v == IF n > 1 THEN n ELSE 1
<1>1. v \in {1, n} /\ \A y \in {1, n} : v >= y
  OBVIOUS
<1>2. \A x \in {1, n} : (\A y \in {1, n} : x >= y) => x = v
  OBVIOUS
<1> HIDE DEF v
<1>3. Max({1, n}) = v
  BY <1>1, <1>2 DEF Max
<1> QED
  BY <1>3 DEF v

(* What the bars of the chart are made of.                                 *)
LEMMA BarsOfSeries ==
    ASSUME NEW i \in DOMAIN series
    PROVE  /\ SeriesData[i].barLength = BarLength(series[i], series)
           /\ SeriesData[i].yOffset = YOffset(i) /\ SeriesData[i].labelOffset = LabelOffset(i)
<1>1. SeriesData[i] = Bar(i)
  BY DEF SeriesData
<1>2. /\ Bar(i).barLength = BarLength(series[i], series)
      /\ Bar(i).yOffset = YOffset(i) /\ Bar(i).labelOffset = LabelOffset(i)
  BY DEF Bar
<1> QED
  BY <1>1, <1>2

(* The charts, as they are read from the state.                            *)
LEMMA ChartIsDrawn ==
    ASSUME ChartsTypeOK PROVE BarsFit /\ BarsDoNotOverlap
<1> USE ChartsAssumption
<1>1. series \in Seq(Values) /\ Len(series) \in 0 .. MaxSeries
  BY BoundedSeries DEF ChartsTypeOK
<1>2. series \in Seq(Nat) /\ DOMAIN series = 1 .. Len(series) /\ Len(series) \in Nat
  <2>1. \A i \in 1 .. Len(series) : series[i] \in Values
    BY <1>1
  <2>2. Values \subseteq Nat
    BY ChartsAssumption
  <2>3. \A i \in 1 .. Len(series) : series[i] \in Nat
    BY <2>1, <2>2
  <2> QED
    BY <1>1, <2>3, SeqDef
<1>3. size \in Nat /\ height \in Nat
  BY DEF ChartsTypeOK, HeightModifier, BAR_HEIGHT, BAR_MARGIN_BOTTOM, LABEL_HEIGHT, LABEL_MARGIN_BOTTOM
<1>4. \A i \in 1 .. Len(series) :
          /\ SeriesData[i].barLength = BarLength(series[i], series)
          /\ SeriesData[i].yOffset = YOffset(i) /\ SeriesData[i].labelOffset = LabelOffset(i)
  BY <1>2, BarsOfSeries
<1>5. BarsFit
  <2> SUFFICES ASSUME NEW i \in 1 .. Len(series), NEW j \in 1 .. Len(series)
               PROVE  /\ SeriesData[i].barLength >= 1 /\ SeriesData[i].barLength <= Max({1, size})
                      /\ series[i] >= series[j] => SeriesData[i].barLength >= SeriesData[j].barLength
    BY <1>2 DEF BarsFit
  <2>1. SeriesData[i].barLength = BarLength(series[i], series) /\ SeriesData[j].barLength = BarLength(series[j], series)
    BY <1>4
  <2>2. Max({1, size}) = IF size > 1 THEN size ELSE 1
    BY <1>3, AtLeastOne
  <2> QED
    BY <1>2, <1>3, <2>1, <2>2, BarLengths
<1>6. BarsDoNotOverlap
  <2> SUFFICES ASSUME NEW i \in 1 .. Len(series)
               PROVE  /\ i > 1 => SeriesData[i].yOffset > SeriesData[i - 1].labelOffset
                      /\ height >= Height(series) => SeriesData[i].labelOffset <= height
    BY <1>2 DEF BarsDoNotOverlap
  <2>1. SeriesData[i].yOffset = YOffset(i) /\ SeriesData[i].labelOffset = LabelOffset(i)
    BY <1>4
  <2>2. i > 1 => SeriesData[i - 1].labelOffset = LabelOffset(i - 1)
    <3> SUFFICES ASSUME i > 1 PROVE SeriesData[i - 1].labelOffset = LabelOffset(i - 1)
      OBVIOUS
    <3>1. i - 1 \in 1 .. Len(series)
      OBVIOUS
    <3> QED
      BY <3>1, <1>4
  <2>3. YOffset(i) = 1 + (i - 1) * 55 /\ LabelOffset(i) = 40 + (i - 1) * 55 /\ Height(series) = Len(series) * 55
    BY <1>2 DEF YOffset, LabelOffset, Height, HeightModifier, BAR_HEIGHT, BAR_MARGIN_BOTTOM, LABEL_HEIGHT, LABEL_MARGIN_BOTTOM
  <2>4. LabelOffset(i - 1) = 40 + (i - 2) * 55
    BY DEF YOffset, LabelOffset, HeightModifier, BAR_HEIGHT, BAR_MARGIN_BOTTOM, LABEL_HEIGHT, LABEL_MARGIN_BOTTOM
  <2> QED
    BY <1>2, <1>3, <2>1, <2>2, <2>3, <2>4
<1> QED
  BY <1>5, <1>6

(* What the gauge computes.                                                *)
LEMMA PercentageIsNat ==
    ASSUME NEW s \in Scores, NEW m \in MaxScores PROVE Percentage(s, m) \in Nat
<1>1. s \in Nat /\ m \in Nat \ {0}
  BY ChartsAssumption
<1>2. 200 * s + m \in Nat /\ 2 * m \in Nat \ {0}
  BY <1>1
<1> QED
  BY <1>2 DEF Percentage

(* The state of the gauge is one of three.                                 *)
LEMMA ChartStates ==
    ASSUME NEW p \in Nat PROVE ChartState(p) \in {"good", "warning", "critical"}
BY DEF ChartState

(* Types, and that the gauge is drawn as it is computed.                   *)
ChartsInv == ChartsTypeOK /\ GaugeAgrees

(* At first the gauge is drawn as it is computed.                          *)
LEMMA ChartsStart == ChartsInit => ChartsInv
<1> SUFFICES ASSUME ChartsInit PROVE ChartsInv
  OBVIOUS
<1> USE ChartsAssumption
<1>1. Len(series) \in 0 .. MaxSeries
  BY BoundedSeries DEF ChartsInit
<1>2. height \in {n * HeightModifier : n \in 0..MaxSeries}
  BY <1>1 DEF ChartsInit, Height
<1>3. scoreAsPercentage \in Nat /\ chartState \in {"good", "warning", "critical"}
  BY PercentageIsNat, ChartStates DEF ChartsInit
<1>4. ChartsTypeOK
  BY <1>2, <1>3 DEF ChartsInit, ChartsTypeOK
<1>5. GaugeAgrees
  BY DEF ChartsInit, GaugeAgrees
<1> QED
  BY <1>4, <1>5 DEF ChartsInv

(* A new score is computed, said and drawn; another maximum is only drawn. *)
LEMMA ChartsStep == ChartsInv /\ [ChartsNext]_chartVars => ChartsInv'
<1> SUFFICES ASSUME ChartsTypeOK, GaugeAgrees, [ChartsNext]_chartVars PROVE ChartsTypeOK' /\ GaugeAgrees'
  BY DEF ChartsInv
<1>1. CASE UNCHANGED chartVars
  BY <1>1 DEF chartVars, ChartsTypeOK, GaugeAgrees
<1>2. CASE DidInsertElement
  BY <1>2 DEF DidInsertElement, gaugeVars, ChartsTypeOK, GaugeAgrees
<1>3. ASSUME NEW width \in Widths, Resize(width) PROVE ChartsTypeOK' /\ GaugeAgrees'
  BY <1>3 DEF Resize, gaugeVars, ChartsTypeOK, GaugeAgrees
<1>4. ASSUME NEW s \in BoundedSeq(Values, MaxSeries), SetSeries(s) PROVE ChartsTypeOK' /\ GaugeAgrees'
  BY <1>4 DEF SetSeries, gaugeVars, ChartsTypeOK, GaugeAgrees
<1>5. ASSUME NEW s \in Scores, SetScore(s) PROVE ChartsTypeOK' /\ GaugeAgrees'
  <2>1. /\ score' = s /\ maxMoved' = FALSE /\ maxScore' = maxScore /\ chartMax' = maxScore /\ chartScore' = s
        /\ scoreAsPercentage' = Percentage(s, maxScore) /\ chartState' = ChartState(scoreAsPercentage')
        /\ UNCHANGED <<series, elementWidth, size, height>>
    BY <1>5 DEF SetScore, UpdateChart
  <2>2. scoreAsPercentage' \in Nat
    BY <2>1, PercentageIsNat DEF ChartsTypeOK
  <2>3. chartState' \in {"good", "warning", "critical"}
    BY <2>1, <2>2, ChartStates
  <2>4. ChartsTypeOK'
    BY <2>1, <2>2, <2>3 DEF ChartsTypeOK
  <2>5. GaugeAgrees'
    BY <2>1 DEF GaugeAgrees
  <2> QED
    BY <2>4, <2>5
<1>6. ASSUME NEW m \in MaxScores, SetMaxScore(m) PROVE ChartsTypeOK' /\ GaugeAgrees'
  BY <1>6 DEF SetMaxScore, UpdateChart, ChartsTypeOK, GaugeAgrees
<1> QED
  BY <1>1, <1>2, <1>3, <1>4, <1>5, <1>6 DEF ChartsNext

(* The charts fit, their bars are ordered as the values, and the gauge     *)
(* says the same in words, in a number and in its drawing.                 *)
THEOREM ChartsAreWhole == ChartsSpec => [](ChartsTypeOK /\ BarsFit /\ BarsDoNotOverlap /\ GaugeAgrees)
<1>1. ChartsInv => ChartsTypeOK /\ BarsFit /\ BarsDoNotOverlap /\ GaugeAgrees
  BY ChartIsDrawn DEF ChartsInv
<1> QED
  BY <1>1, ChartsStart, ChartsStep, PTL DEF ChartsSpec

-----------------------------------------------------------------------------
(* The helpers on lists.                                                   *)

(* A list of members of a set is one of members of a wider set.            *)
LEMMA WiderSeq ==
    ASSUME NEW A, NEW B, A \subseteq B, NEW s \in Seq(A) PROVE s \in Seq(B)
<1>1. \A i \in 1 .. Len(s) : s[i] \in A
  OBVIOUS
<1>2. \A i \in 1 .. Len(s) : s[i] \in B
  BY <1>1
<1> QED
  BY <1>2, SeqDef

(* A list no longer than n is one of the lists of that bound.              *)
LEMMA SeriesBounded ==
    ASSUME NEW S, NEW n \in Nat, NEW s \in Seq(S), Len(s) <= n PROVE s \in BoundedSeq(S, n)
<1>1. Len(s) \in 0 .. n /\ s \in [1 .. Len(s) -> S]
  OBVIOUS
<1> QED
  BY <1>1 DEF BoundedSeq, SeqOf

(* What holds at 0, and at a position if at the one before it, holds at    *)
(* every position.                                                         *)
LEMMA EveryPosition ==
    ASSUME NEW n \in Nat, NEW P, 0 \in P, \A i \in 1 .. n : i - 1 \in P => i \in P
    PROVE  \A i \in 0 .. n : i \in P
<1> DEFINE Bad == {i \in 0 .. n : i \notin P}
<1> SUFFICES ASSUME Bad # {} PROVE FALSE
  OBVIOUS
<1>1. Bad \in SUBSET Nat
  OBVIOUS
<1>2. PICK k \in Bad : \A j \in Bad : k <= j
  <2> HIDE DEF Bad
  <2> QED
    BY <1>1, NatHasLeast
<1>3. k # 0 /\ k \in 0 .. n /\ k \notin P
  OBVIOUS
<1>4. k \in 1 .. n /\ k - 1 \in 0 .. n /\ k - 1 \notin Bad
  BY <1>2, <1>3
<1> QED
  BY <1>3, <1>4

(* The entries of a list, of two lists and of a list with one more.        *)
LEMMA EntriesOf ==
    ASSUME NEW T, NEW s \in Seq(T)
    PROVE  /\ ToSet(s) = {s[i] : i \in 1 .. Len(s)} /\ ToSet(s) \subseteq T
           /\ \A t \in Seq(T) : ToSet(s \o t) = ToSet(s) \cup ToSet(t)
           /\ \A x \in T : ToSet(Append(s, x)) = ToSet(s) \cup {x}
<1>1. \A t \in Seq(T) : ToSet(t) = {t[i] : i \in 1 .. Len(t)}
  BY DEF ToSet
<1>2. ToSet(s) \subseteq T
  BY <1>1
<1>3. ASSUME NEW t \in Seq(T) PROVE ToSet(s \o t) = ToSet(s) \cup ToSet(t)
  <2> DEFINE u == s \o t
  <2>1. /\ u \in Seq(T) /\ Len(u) = Len(s) + Len(t)
        /\ \A i \in 1 .. Len(s) + Len(t) : u[i] = IF i <= Len(s) THEN s[i] ELSE t[i - Len(s)]
    BY ConcatProperties
  <2> HIDE DEF u
  <2>2. Len(s) \in Nat /\ Len(t) \in Nat
    OBVIOUS
  <2>3. ToSet(u) \subseteq ToSet(s) \cup ToSet(t)
    <3> SUFFICES ASSUME NEW i \in 1 .. Len(s) + Len(t) PROVE u[i] \in ToSet(s) \cup ToSet(t)
      BY <1>1, <2>1
    <3>1. CASE i <= Len(s)
      <4>1. i \in 1 .. Len(s) /\ u[i] = s[i]
        BY <2>1, <2>2, <3>1
      <4> QED
        BY <1>1, <4>1
    <3>2. CASE ~ (i <= Len(s))
      <4>1. i - Len(s) \in 1 .. Len(t) /\ u[i] = t[i - Len(s)]
        BY <2>1, <2>2, <3>2
      <4> QED
        BY <1>1, <4>1
    <3> QED
      BY <3>1, <3>2
  <2>4. ToSet(s) \subseteq ToSet(u)
    <3> SUFFICES ASSUME NEW i \in 1 .. Len(s) PROVE s[i] \in ToSet(u)
      BY <1>1
    <3>1. i \in 1 .. Len(u) /\ u[i] = s[i]
      BY <2>1, <2>2
    <3> QED
      BY <1>1, <2>1, <3>1
  <2>5. ToSet(t) \subseteq ToSet(u)
    <3> SUFFICES ASSUME NEW i \in 1 .. Len(t) PROVE t[i] \in ToSet(u)
      BY <1>1
    <3>1. i + Len(s) \in 1 .. Len(u) /\ ~ (i + Len(s) <= Len(s)) /\ (i + Len(s)) - Len(s) = i
      BY <2>1, <2>2
    <3>2. u[i + Len(s)] = t[i]
      BY <2>1, <3>1
    <3> QED
      BY <1>1, <2>1, <3>1, <3>2
  <2> QED
    BY <2>3, <2>4, <2>5 DEF u
<1>4. ASSUME NEW x \in T PROVE ToSet(Append(s, x)) = ToSet(s) \cup {x}
  <2> DEFINE u == Append(s, x)
  <2>1. /\ u \in Seq(T) /\ Len(u) = Len(s) + 1 /\ u[Len(s) + 1] = x
        /\ \A i \in 1 .. Len(s) : u[i] = s[i]
    OBVIOUS
  <2> HIDE DEF u
  <2>2. ToSet(u) = {u[i] : i \in 1 .. Len(s) + 1}
    BY <1>1, <2>1
  <2>3. \A i \in 1 .. Len(s) + 1 : i \in 1 .. Len(s) \/ i = Len(s) + 1
    OBVIOUS
  <2>4. 1 .. Len(s) \subseteq 1 .. Len(s) + 1 /\ Len(s) + 1 \in 1 .. Len(s) + 1
    OBVIOUS
  <2>5. ToSet(u) = ToSet(s) \cup {x}
    BY <1>1, <2>1, <2>2, <2>3, <2>4
  <2> QED
    BY <2>5 DEF u
<1> QED
  BY <1>1, <1>2, <1>3, <1>4

(* The first elements of a list.                                           *)
LEMMA TakenFirst ==
    ASSUME NEW T, NEW list \in Seq(T), NEW n \in Int
    PROVE  /\ Take(n, list) \in Seq(T) /\ Len(Take(n, list)) \in 0 .. Len(list)
           /\ n >= 0 => Len(Take(n, list)) <= n
           /\ n > 0 /\ list # <<>> => Len(Take(n, list)) > 0
           /\ list = Take(n, list) \o SubSeq(list, Len(Take(n, list)) + 1, Len(list))
<1> DEFINE k == IF n < 0 THEN 0 ELSE IF n > Len(list) THEN Len(list) ELSE n
<1>1. k \in 0 .. Len(list) /\ (n >= 0 => k <= n) /\ (n > 0 /\ Len(list) > 0 => k > 0)
  OBVIOUS
<1>2. Take(n, list) = SubSeq(list, 1, k)
  BY DEF Take
<1> HIDE DEF k
<1>3. SubSeq(list, 1, k) \in Seq(T) /\ Len(SubSeq(list, 1, k)) = k
  BY <1>1, SubSeqProperties
<1>4. list # <<>> => Len(list) > 0
  OBVIOUS
<1>5. SubSeq(list, 1, k) \o SubSeq(list, k + 1, Len(list)) = SubSeq(list, 1, Len(list))
  <2>1. 1 \in 1 .. Len(list) + 1 /\ k \in 1 - 1 .. Len(list) /\ Len(list) \in k .. Len(list)
    BY <1>1
  <2> QED
    BY <2>1, ConcatAdjacentSubSeq
<1>6. SubSeq(list, 1, Len(list)) = list
  BY SubSeqFull
<1> QED
  BY <1>1, <1>2, <1>3, <1>4, <1>5, <1>6

(* The two parts of a partition have all the elements of the list.         *)
LEMMA PartsOfPartition ==
    ASSUME NEW T, NEW list \in Seq(T), NEW S, NEW R,
           \A i \in 1 .. Len(list) : list[i] \in R <=> list[i] \notin S
    PROVE  Len(Only(list, S)) + Len(Only(list, R)) = Len(list)
<1> DEFINE n == Len(list)
           part(k) == SubSeq(list, 1, k)
           Whole == {k \in 0 .. n : Len(Only(part(k), S)) + Len(Only(part(k), R)) = k}
<1>1. n \in Nat /\ \A k \in 0 .. n : part(k) \in Seq(T)
  BY SubSeqProperties
<1>2. 0 \in Whole
  <2>1. part(0) = <<>>
    BY SubSeqEmpty
  <2> HIDE DEF part
  <2>2. Len(Only(part(0), S)) = 0 /\ Len(Only(part(0), R)) = 0
    BY <2>1, OnlyOfEmpty
  <2> QED
    BY <1>1, <2>2
<1>3. ASSUME NEW k \in 1 .. n, k - 1 \in Whole PROVE k \in Whole
  <2>1. /\ k - 1 \in 0 .. n /\ k \in 0 .. n /\ list[k] \in T
        /\ Len(Only(part(k - 1), S)) + Len(Only(part(k - 1), R)) = k - 1
    BY <1>1, <1>3
  <2>2. part(k) = Append(part(k - 1), list[k])
    BY <1>1, <2>1
  <2>3. PICK p \in Seq(T) : p = part(k - 1)
    BY <1>1, <2>1
  <2> HIDE DEF part, n
  <2>a. part(k) = Append(p, list[k])
    BY <2>2, <2>3
  <2>b. PICK x \in T : x = list[k]
    BY <2>1
  <2>4. Only(Append(p, x), S) = IF x \in S THEN Append(Only(p, S), x) ELSE Only(p, S)
    BY OnlyAppend
  <2>5. Only(Append(p, x), R) = IF x \in R THEN Append(Only(p, R), x) ELSE Only(p, R)
    BY OnlyAppend
  <2>6. PICK a \in Seq(T) : a = Only(p, S)
    BY OnlyKeeps
  <2>7. PICK b \in Seq(T) : b = Only(p, R)
    BY OnlyKeeps
  <2>8. x \in R <=> x \notin S
    BY <2>b DEF n
  <2>9. Len(a) + Len(b) = k - 1
    BY <2>1, <2>3, <2>6, <2>7
  <2>10. Len(Append(a, x)) = Len(a) + 1 /\ Len(Append(b, x)) = Len(b) + 1 /\ Len(a) \in Nat /\ Len(b) \in Nat
    OBVIOUS
  <2>11. Len(Only(Append(p, x), S)) + Len(Only(Append(p, x), R)) = k
    <3>a. k \in Nat
      BY <1>1
    <3>1. CASE x \in S
      <4>1. Only(Append(p, x), S) = Append(a, x) /\ Only(Append(p, x), R) = b
        BY <2>4, <2>5, <2>6, <2>7, <2>8, <3>1
      <4>2. Len(a) + 1 + Len(b) = k
        BY <2>9, <2>10, <3>a
      <4> QED
        BY <2>10, <4>1, <4>2
    <3>2. CASE x \notin S
      <4>1. Only(Append(p, x), S) = a /\ Only(Append(p, x), R) = Append(b, x)
        BY <2>4, <2>5, <2>6, <2>7, <2>8, <3>2
      <4>2. Len(a) + (Len(b) + 1) = k
        BY <2>9, <2>10, <3>a
      <4> QED
        BY <2>10, <4>1, <4>2
    <3> QED
      BY <3>1, <3>2
  <2>12. Len(Only(part(k), S)) + Len(Only(part(k), R)) = k
    BY <2>11, <2>a, <2>b
  <2> QED
    BY <2>1, <2>12
<1>4. n \in Whole
  <2> HIDE DEF Whole
  <2>1. \A i \in 0 .. n : i \in Whole
    BY <1>1, <1>2, <1>3, EveryPosition
  <2> QED
    BY <1>1, <2>1
<1>5. part(n) = list
  BY SubSeqFull
<1> QED
  BY <1>4, <1>5

(* A list whose elements are as many as its positions.                     *)
Unique(list) == IsFiniteSet(ToSet(list)) /\ IsListUnique(list)

(* One key assigned to an object that has the keys of list.                *)
Assign(list, x) == IF x \in ToSet(list) THEN list ELSE Append(list, x)

(* It is added to the keys, and no key is there twice.                     *)
LEMMA AssignAdds ==
    ASSUME NEW T, NEW list \in Seq(T), NEW x \in T
    PROVE  /\ Assign(list, x) \in Seq(T) /\ Len(Assign(list, x)) <= Len(list) + 1
           /\ ToSet(Assign(list, x)) = ToSet(list) \cup {x}
           /\ Unique(list) => Unique(Assign(list, x))
<1>1. CASE x \in ToSet(list)
  <2>1. Assign(list, x) = list /\ ToSet(list) = ToSet(list) \cup {x}
    BY <1>1 DEF Assign
  <2> QED
    BY <2>1
<1>2. CASE x \notin ToSet(list)
  <2> DEFINE u == Append(list, x)
  <2>1. Assign(list, x) = u
    BY <1>2 DEF Assign
  <2>2. u \in Seq(T) /\ Len(u) = Len(list) + 1 /\ Len(list) \in Nat
    OBVIOUS
  <2>3. ToSet(u) = ToSet(list) \cup {x}
    BY EntriesOf
  <2> HIDE DEF u
  <2>4. Unique(list) => Unique(u)
    <3> SUFFICES ASSUME IsFiniteSet(ToSet(list)), Cardinality(ToSet(list)) = Len(list)
                 PROVE  IsFiniteSet(ToSet(u)) /\ Cardinality(ToSet(u)) = Len(u)
      BY DEF Unique, IsListUnique
    <3>1. IsFiniteSet(ToSet(list) \cup {x}) /\ Cardinality(ToSet(list) \cup {x}) = Cardinality(ToSet(list)) + 1
      BY <1>2, FS_AddElement
    <3> QED
      BY <2>2, <2>3, <3>1
  <2> QED
    BY <2>1, <2>2, <2>3, <2>4
<1> QED
  BY <1>1, <1>2

(* A chunk that is reduced adds its keys to those that are there.          *)
LEMMA ReducedChunk ==
    ASSUME NEW acc \in Seq(Items), NEW chunk \in Seq(Items)
    PROVE  /\ ReduceArrayAsync(acc, chunk) \in Seq(Items)
           /\ Len(ReduceArrayAsync(acc, chunk)) <= Len(acc) + Len(chunk)
           /\ ToSet(ReduceArrayAsync(acc, chunk)) = ToSet(acc) \cup ToSet(Compact(chunk))
           /\ Unique(acc) => Unique(ReduceArrayAsync(acc, chunk))
<1> DEFINE keys == Compact(chunk)
           n == Len(keys)
           rec(f) == [i \in 0 .. n |->
                        IF i = 0 THEN acc
                        ELSE IF keys[i] \in ToSet(f[i - 1]) THEN f[i - 1] ELSE Append(f[i - 1], keys[i])]
           assigned == CHOOSE f : f = rec(f)
           step == [i \in 1 .. n |-> [list \in Seq(Items) |-> Assign(list, keys[i])]]
<1>1. keys \in Seq(Items) /\ Len(keys) <= Len(chunk)
  BY OnlyKeeps, OnlyShortens DEF Compact, ArrayFilter
<1>2. ReduceArrayAsync(acc, chunk) = assigned[n]
  BY Zenon DEF ReduceArrayAsync
<1> HIDE DEF keys
<1>3. n \in Nat /\ \A i \in 1 .. n : keys[i] \in Items
  BY <1>1
<1>4. step \in [1 .. n -> [Seq(Items) -> Seq(Items)]]
  BY <1>3, AssignAdds
<1>5. PICK f \in [0 .. n -> Seq(Items)] : f[0] = acc /\ \A i \in 1 .. n : f[i] = step[i][f[i - 1]]
  <2> DEFINE X == Seq(Items)
  <2>1. n \in Nat /\ acc \in X /\ step \in [1 .. n -> [X -> X]]
    BY <1>3, <1>4
  <2> HIDE DEF step, n, X
  <2>2. Recursions(n, X, acc, step) # {}
    BY <2>1, FiniteRecursion
  <2> QED
    BY <2>2 DEF X, Recursions
<1>6. f = rec(f)
  <2>0. \A i \in 1 .. n : i - 1 \in 0 .. n
    BY <1>3
  <2>1. \A i \in 1 .. n : f[i - 1] \in Seq(Items)
    <3> HIDE DEF step, n
    <3> QED
      BY <2>0
  <2>2. \A i \in 1 .. n : f[i] = Assign(f[i - 1], keys[i])
    BY <1>5, <2>1
  <2> DEFINE F(i) == IF i = 0 THEN acc
                     ELSE IF keys[i] \in ToSet(f[i - 1]) THEN f[i - 1] ELSE Append(f[i - 1], keys[i])
  <2>3. \A i \in 0 .. n : f[i] = F(i)
    <3>1. \A i \in 0 .. n : i = 0 \/ (i # 0 /\ i \in 1 .. n)
      BY <1>3
    <3> HIDE DEF step, n
    <3> QED
      BY <1>5, <2>2, <3>1 DEF Assign
  <2>4. f = [i \in 0 .. n |-> f[i]]
    OBVIOUS
  <2> HIDE DEF step, n, F
  <2>5. f = [i \in 0 .. n |-> F(i)]
    BY <2>3, <2>4
  <2> QED
    BY <2>5 DEF F
<1>7. assigned = rec(assigned)
  <2> HIDE DEF rec
  <2> QED
    BY <1>6
<1> HIDE DEF step, assigned
<1>8. assigned[0] = acc /\ \A i \in 1 .. n : assigned[i] = Assign(assigned[i - 1], keys[i])
  <2>1. \A i \in 0 .. n : assigned[i] = rec(assigned)[i]
    BY <1>7
  <2>2. 0 \in 0 .. n /\ \A i \in 1 .. n : i \in 0 .. n /\ i # 0
    BY <1>3
  <2> QED
    BY <2>1, <2>2 DEF Assign
<1> DEFINE OK(i) == /\ assigned[i] \in Seq(Items) /\ Len(assigned[i]) <= Len(acc) + i
                    /\ ToSet(assigned[i]) = ToSet(acc) \cup {keys[j] : j \in 1 .. i}
                    /\ Unique(acc) => Unique(assigned[i])
           P == {i \in 0 .. n : OK(i)}
<1> HIDE DEF rec
<1>9. 0 \in P
  <2>1. {keys[j] : j \in 1 .. 0} = {}
    OBVIOUS
  <2>2. OK(0)
    BY <1>8, <2>1
  <2> QED
    BY <1>3, <2>2
<1>10. ASSUME NEW i \in 1 .. n, i - 1 \in P PROVE i \in P
  <2>1. PICK list \in Seq(Items) : list = assigned[i - 1]
    BY <1>10
  <2>2. PICK x \in Items : x = keys[i]
    BY <1>3
  <2>3. /\ Assign(list, x) \in Seq(Items) /\ Len(Assign(list, x)) <= Len(list) + 1
        /\ ToSet(Assign(list, x)) = ToSet(list) \cup {x}
        /\ Unique(list) => Unique(Assign(list, x))
    BY AssignAdds
  <2>4. assigned[i] = Assign(list, x)
    BY <1>8, <2>1, <2>2
  <2>5. /\ Len(list) <= Len(acc) + (i - 1) /\ ToSet(list) = ToSet(acc) \cup {keys[j] : j \in 1 .. i - 1}
        /\ Unique(acc) => Unique(list)
    BY <1>10, <2>1
  <2>6. {keys[j] : j \in 1 .. i} = {keys[j] : j \in 1 .. i - 1} \cup {x}
    <3>1. i \in Nat
      BY <1>3
    <3>2. \A j : j \in 1 .. i <=> j \in 1 .. i - 1 \/ j = i
      BY <1>3, <3>1
    <3> HIDE DEF n
    <3> QED
      BY <2>2, <3>2
  <2>7. i \in 0 .. n /\ i \in Nat /\ Len(list) \in Nat /\ Len(acc) \in Nat /\ Len(Assign(list, x)) \in Nat
    BY <1>3, <2>3
  <2>8. Len(assigned[i]) <= Len(acc) + i
    BY <2>3, <2>4, <2>5, <2>7
  <2>9. ToSet(assigned[i]) = ToSet(acc) \cup {keys[j] : j \in 1 .. i}
    BY <2>3, <2>4, <2>5, <2>6
  <2>10. OK(i)
    BY <2>3, <2>4, <2>5, <2>8, <2>9
  <2> QED
    BY <2>7, <2>10
<1>11. n \in P
  <2> HIDE DEF P
  <2>1. \A i \in 0 .. n : i \in P
    BY <1>3, <1>9, <1>10, EveryPosition
  <2> QED
    BY <1>3, <2>1
<1>12. ToSet(keys) = {keys[j] : j \in 1 .. n}
  BY <1>1, EntriesOf
<1>13. OK(n)
  BY <1>11
<1>14. Len(assigned[n]) <= Len(acc) + Len(chunk)
  <2>1. Len(assigned[n]) \in Nat /\ Len(acc) \in Nat /\ Len(chunk) \in Nat /\ Len(assigned[n]) <= Len(acc) + n
    BY <1>13
  <2> QED
    BY <1>1, <1>3, <2>1
<1> QED
  BY <1>2, <1>12, <1>13, <1>14 DEF keys

-----------------------------------------------------------------------------
(* Pipes of functions.                                                     *)

(* Lists of one function each, flattened.                                  *)
LEMMA FlatOfSingles ==
    ASSUME NEW T, NEW s \in Seq(Seq(T)), \A i \in 1 .. Len(s) : Len(s[i]) = 1
    PROVE  /\ FlattenSeq(s) \in Seq(T) /\ Len(FlattenSeq(s)) = Len(s)
           /\ \A i \in 1 .. Len(s) : FlattenSeq(s)[i] = s[i][1]
<1> DEFINE n == Len(s)
           rec(f) == [i \in 1 .. n |-> IF i = 1 THEN s[i] ELSE f[i - 1] \o s[i]]
           flat == CHOOSE f : f = rec(f)
           g == [i \in 1 .. n |-> [j \in 1 .. i |-> s[j][1]]]
<1>0. n \in Nat /\ \A i \in 1 .. n : s[i] \in Seq(T) /\ Len(s[i]) = 1 /\ s[i][1] \in T
  OBVIOUS
<1>1. CASE n = 0
  <2>1. s = <<>> /\ FlattenSeq(s) = s
    BY <1>1 DEF FlattenSeq
  <2>2. FlattenSeq(s) = <<>>
    BY <2>1
  <2>3. PICK e \in Seq(T) : e = <<>> /\ Len(e) = 0
    BY EmptySeq
  <2>4. \A i \in 1 .. n : FALSE
    BY <1>1
  <2> HIDE DEF n
  <2>5. Len(FlattenSeq(s)) = n /\ FlattenSeq(s) \in Seq(T)
    BY <1>1, <2>2, <2>3
  <2> QED
    BY <2>4, <2>5 DEF n
<1>2. CASE n # 0
  <2>1. FlattenSeq(s) = flat[n]
    BY <1>2, Zenon DEF FlattenSeq
  <2>2. ASSUME NEW i \in 1 .. n
        PROVE  /\ [j \in 1 .. i |-> s[j][1]] \in Seq(T) /\ Len([j \in 1 .. i |-> s[j][1]]) = i
               /\ i = 1 => [j \in 1 .. i |-> s[j][1]] = s[i]
               /\ i # 1 => [j \in 1 .. i |-> s[j][1]] = [j \in 1 .. i - 1 |-> s[j][1]] \o s[i]
    <3> DEFINE t == [j \in 1 .. i |-> s[j][1]]
    <3>1. i \in Nat /\ \A j \in 1 .. i : j \in 1 .. n /\ s[j][1] \in T
      BY <1>0
    <3>2. t \in Seq(T) /\ Len(t) = i
      BY <3>1
    <3>3. ASSUME i = 1 PROVE t = s[i]
      <4>1. t \in Seq(T) /\ s[i] \in Seq(T) /\ Len(t) = 1 /\ Len(s[i]) = 1 /\ t[1] = s[i][1]
        BY <1>0, <3>2, <3>3
      <4> HIDE DEF t
      <4>2. PICK a \in Seq(T) : a = s[i]
        BY <4>1
      <4>3. Len(t) = Len(a) /\ \A j \in 1 .. Len(t) : t[j] = a[j]
        BY <4>1, <4>2
      <4>4. t = a
        BY <4>1, <4>3, SeqEqual
      <4> QED
        BY <4>2, <4>4
    <3>4. ASSUME i # 1 PROVE t = [j \in 1 .. i - 1 |-> s[j][1]] \o s[i]
      <4> DEFINE u == [j \in 1 .. i - 1 |-> s[j][1]]
      <4>1. i - 1 \in Nat /\ \A j \in 1 .. i - 1 : j \in 1 .. i /\ s[j][1] \in T
        BY <3>1, <3>4
      <4>2. u \in Seq(T) /\ Len(u) = i - 1 /\ \A j \in 1 .. i - 1 : u[j] = s[j][1]
        BY <4>1
      <4>3. \A j \in 1 .. i : t[j] = s[j][1]
        OBVIOUS
      <4> HIDE DEF t, u
      <4>4. PICK a \in Seq(T) : a = s[i] /\ Len(a) = 1 /\ a[1] = s[i][1]
        BY <1>0
      <4>5. /\ u \o a \in Seq(T) /\ Len(u \o a) = (i - 1) + 1
            /\ \A j \in 1 .. (i - 1) + 1 : (u \o a)[j] = IF j <= i - 1 THEN u[j] ELSE a[j - (i - 1)]
        <5>1. Len(u) = i - 1 /\ Len(a) = 1
          BY <4>2, <4>4
        <5>2. /\ u \o a \in Seq(T) /\ Len(u \o a) = Len(u) + Len(a)
              /\ \A j \in 1 .. Len(u) + Len(a) : (u \o a)[j] = IF j <= Len(u) THEN u[j] ELSE a[j - Len(u)]
          BY <4>2, ConcatProperties
        <5> QED
          BY <5>1, <5>2
      <4>6. \A j \in 1 .. i : (u \o a)[j] = t[j]
        <5> SUFFICES ASSUME NEW j \in 1 .. i PROVE (u \o a)[j] = t[j]
          OBVIOUS
        <5>1. j \in 1 .. (i - 1) + 1
          BY <3>1
        <5>2. CASE j <= i - 1
          <6>1. j \in 1 .. i - 1
            BY <3>1, <5>2
          <6>2. (u \o a)[j] = u[j]
            BY <4>5, <5>1, <5>2
          <6>3. u[j] = s[j][1] /\ t[j] = s[j][1]
            BY <4>2, <4>3, <6>1
          <6> QED
            BY <6>2, <6>3
        <5>3. CASE j = i
          <6>1. ~ (i <= i - 1) /\ i - (i - 1) = 1
            BY <3>1
          <6>2. (u \o a)[j] = a[1]
            BY <4>5, <5>1, <5>3, <6>1
          <6> QED
            BY <4>3, <4>4, <5>3, <6>2
        <5>4. j <= i - 1 \/ j = i
          BY <3>1
        <5> QED
          BY <5>2, <5>3, <5>4
      <4>7. Len(u \o a) = i
        BY <3>1, <4>5
      <4>8. u \o a = t
        BY <3>2, <4>5, <4>6, <4>7, SeqEqual
      <4> QED
        BY <4>4, <4>8 DEF u
    <3> QED
      BY <3>2, <3>3, <3>4
  <2>3. g = rec(g)
    <3>1. \A i \in 1 .. n : i # 1 => i - 1 \in 1 .. n
      BY <1>0
    <3>2. \A i \in 1 .. n : g[i] = [j \in 1 .. i |-> s[j][1]]
      OBVIOUS
    <3>3. \A i \in 1 .. n : g[i] = IF i = 1 THEN s[i] ELSE g[i - 1] \o s[i]
      <4> HIDE DEF g, n
      <4> QED
        BY <2>2, <3>1, <3>2
    <3>4. g = [i \in 1 .. n |-> g[i]]
      OBVIOUS
    <3> DEFINE F(i) == IF i = 1 THEN s[i] ELSE g[i - 1] \o s[i]
    <3> HIDE DEF g, n
    <3>5. \A i \in 1 .. n : g[i] = F(i)
      BY <3>3
    <3> HIDE DEF F
    <3>6. g = [i \in 1 .. n |-> F(i)]
      BY <3>4, <3>5
    <3> QED
      BY <3>6 DEF F
  <2>4. flat = rec(flat)
    <3> HIDE DEF rec, g
    <3> QED
      BY <2>3
  <2> DEFINE P == {i \in 0 .. n : i = 0 \/ flat[i] = [j \in 1 .. i |-> s[j][1]]}
  <2>5. \A i \in 1 .. n : flat[i] = IF i = 1 THEN s[i] ELSE flat[i - 1] \o s[i]
    <3>1. \A i \in 1 .. n : flat[i] = rec(flat)[i]
      BY <2>4
    <3> HIDE DEF flat
    <3> QED
      BY <3>1
  <2> HIDE DEF flat, rec, g
  <2>6. 0 \in P
    BY <1>0
  <2>7. ASSUME NEW i \in 1 .. n, i - 1 \in P PROVE i \in P
    <3>1. i \in 0 .. n /\ (i # 1 => i - 1 # 0) /\ (i # 1 => flat[i - 1] = [j \in 1 .. i - 1 |-> s[j][1]])
      BY <1>0, <2>7
    <3>2. flat[i] = [j \in 1 .. i |-> s[j][1]]
      <4> HIDE DEF P, n
      <4> QED
        BY <2>2, <2>5, <3>1
    <3> QED
      BY <3>1, <3>2
  <2>8. n \in P
    <3> HIDE DEF P
    <3>1. \A i \in 0 .. n : i \in P
      BY <1>0, <2>6, <2>7, EveryPosition
    <3> QED
      BY <1>0, <3>1
  <2>9. flat[n] = [j \in 1 .. n |-> s[j][1]] /\ n \in 1 .. n
    BY <1>0, <1>2, <2>8
  <2> HIDE DEF n
  <2>10. flat[n] \in Seq(T) /\ Len(flat[n]) = n
    BY <2>2, <2>9
  <2> QED
    BY <2>1, <2>9, <2>10 DEF n
<1> QED
  BY <1>1, <1>2

(* What a list of functions reduced to one is: the functions composed so   *)
(* far run after the next one.                                             *)
Compositions(list) ==
    {f \in [0 .. Len(list) -> [Items -> Items]] :
        /\ \A y \in Items : f[0][y] = y
        /\ \A i \in 1 .. Len(list) : \A y \in Items : f[i][y] = f[i - 1][ApplyStep[list[i]][y]]}

(* The reduced list is such a composition.                                 *)
LEMMA ComposedIs ==
    ASSUME NEW list \in Seq(Steps)
    PROVE  \E f \in Compositions(list) : Composed(list) = f[Len(list)]
<1> DEFINE n == Len(list)
           X == [Items -> Items]
           first == [y \in Items |-> y]
           rec(f) == [i \in 0 .. n |->
                        IF i = 0 THEN [y \in Items |-> y]
                        ELSE [y \in Items |-> f[i - 1][ApplyStep[list[i]][y]]]]
           composed == CHOOSE f : f = rec(f)
           step == [i \in 1 .. n |-> [h \in X |-> [y \in Items |-> h[ApplyStep[list[i]][y]]]]]
<1>1. Composed(list) = composed[n]
  BY Zenon DEF Composed
<1>2. n \in Nat /\ \A i \in 1 .. n : list[i] \in Steps
  OBVIOUS
<1>3. \A i \in 1 .. n : \A y \in Items : ApplyStep[list[i]][y] \in Items
  BY <1>2, CollectionsAssumption
<1>4. first \in X /\ step \in [1 .. n -> [X -> X]]
  <2>1. ASSUME NEW i \in 1 .. n, NEW h \in X PROVE [y \in Items |-> h[ApplyStep[list[i]][y]]] \in X
    BY <1>3
  <2>2. first \in X
    OBVIOUS
  <2> HIDE DEF X
  <2> QED
    BY <2>1, <2>2
<1>5. PICK f \in [0 .. n -> X] : f[0] = first /\ \A i \in 1 .. n : f[i] = step[i][f[i - 1]]
  <2> HIDE DEF step, n, X, first
  <2>1. n \in Nat
    BY <1>2
  <2>2. Recursions(n, X, first, step) # {}
    BY <1>4, <2>1, FiniteRecursion
  <2> QED
    BY <2>2 DEF Recursions
<1>6. f = rec(f)
  <2>1. \A i \in 1 .. n : i - 1 \in 0 .. n /\ i \in 0 .. n
    BY <1>2
  <2>2. \A i \in 1 .. n : f[i - 1] \in X
    <3> HIDE DEF X, n, step, first
    <3> QED
      BY <2>1
  <2>3. \A i \in 1 .. n : f[i] = [y \in Items |-> f[i - 1][ApplyStep[list[i]][y]]]
    <3> HIDE DEF X, n, first
    <3> QED
      BY <1>5, <2>2
  <2> DEFINE F(i) == IF i = 0 THEN [y \in Items |-> y]
                     ELSE [y \in Items |-> f[i - 1][ApplyStep[list[i]][y]]]
  <2>4. \A i \in 0 .. n : f[i] = F(i)
    <3>1. \A i \in 0 .. n : i = 0 \/ (i # 0 /\ i \in 1 .. n)
      BY <1>2
    <3> HIDE DEF step, n
    <3> QED
      BY <1>5, <2>3, <3>1
  <2>5. f = [i \in 0 .. n |-> f[i]]
    OBVIOUS
  <2> HIDE DEF step, n, F
  <2>6. f = [i \in 0 .. n |-> F(i)]
    BY <2>4, <2>5
  <2> QED
    BY <2>6 DEF F
<1>7. composed = rec(composed)
  <2> HIDE DEF rec
  <2> QED
    BY <1>6
<1> HIDE DEF step, composed
<1>8. /\ composed = [i \in 0 .. n |-> composed[i]]
      /\ composed[0] = first
      /\ \A i \in 1 .. n : composed[i] = [y \in Items |-> composed[i - 1][ApplyStep[list[i]][y]]]
  <2>1. \A i \in 0 .. n : composed[i] = rec(composed)[i]
    BY <1>7
  <2>2. 0 \in 0 .. n /\ \A i \in 1 .. n : i \in 0 .. n /\ i # 0
    BY <1>2
  <2>3. \A g : rec(g) = [i \in 0 .. n |-> rec(g)[i]]
    OBVIOUS
  <2>4. composed = [i \in 0 .. n |-> composed[i]]
    <3> HIDE DEF rec
    <3> QED
      BY <1>7, <2>3
  <2> QED
    BY <2>1, <2>2, <2>4
<1> HIDE DEF rec
<1> DEFINE P == {i \in 0 .. n : composed[i] \in X}
<1>9. \A i \in 0 .. n : composed[i] \in X
  <2>1. 0 \in P
    BY <1>2, <1>8
  <2>2. ASSUME NEW i \in 1 .. n, i - 1 \in P PROVE i \in P
    <3>1. i \in 0 .. n /\ composed[i - 1] \in X
      BY <1>2, <2>2
    <3>2. PICK h \in X : h = composed[i - 1]
      BY <3>1
    <3>3. [y \in Items |-> h[ApplyStep[list[i]][y]]] \in X
      BY <1>3
    <3>4. composed[i] \in X
      <4> HIDE DEF X, n
      <4> QED
        BY <1>8, <3>2, <3>3
    <3> QED
      BY <3>1, <3>4
  <2> HIDE DEF P
  <2>3. \A i \in 0 .. n : i \in P
    BY <1>2, <2>1, <2>2, EveryPosition
  <2> QED
    BY <2>3 DEF P
<1>10. composed \in [0 .. n -> X]
  BY <1>8, <1>9
<1>11. composed \in Compositions(list)
  <2>1. \A y \in Items : composed[0][y] = y
    BY <1>8
  <2>2. \A i \in 1 .. n : \A y \in Items : composed[i][y] = composed[i - 1][ApplyStep[list[i]][y]]
    <3> HIDE DEF X, n
    <3> SUFFICES ASSUME NEW i \in 1 .. n, NEW y \in Items
                 PROVE  composed[i][y] = composed[i - 1][ApplyStep[list[i]][y]]
      OBVIOUS
    <3>1. composed[i] = [z \in Items |-> composed[i - 1][ApplyStep[list[i]][z]]]
      BY <1>8
    <3> QED
      BY <3>1
  <2> QED
    BY <1>10, <2>1, <2>2 DEF Compositions
<1> QED
  BY <1>1, <1>11

(* What running a list of functions in order gives.                        *)
Runs(list, x) ==
    {f \in [0 .. Len(list) -> Items] : f[0] = x /\ \A i \in 1 .. Len(list) : f[i] = ApplyStep[list[i]][f[i - 1]]}

(* The run of the model is such a run.                                     *)
LEMMA RunIs ==
    ASSUME NEW list \in Seq(Steps), NEW x \in Items
    PROVE  \E f \in Runs(list, x) : RunInOrder(list, x) = f[Len(list)]
<1> DEFINE n == Len(list)
           rec(f) == [i \in 0 .. n |-> IF i = 0 THEN x ELSE ApplyStep[list[i]][f[i - 1]]]
           run == CHOOSE f : f = rec(f)
           step == [i \in 1 .. n |-> ApplyStep[list[i]]]
<1>1. RunInOrder(list, x) = run[n]
  BY Zenon DEF RunInOrder
<1>2. n \in Nat /\ \A i \in 1 .. n : list[i] \in Steps
  OBVIOUS
<1>3. step \in [1 .. n -> [Items -> Items]]
  BY <1>2, CollectionsAssumption
<1>4. PICK f \in [0 .. n -> Items] : f[0] = x /\ \A i \in 1 .. n : f[i] = step[i][f[i - 1]]
  <2> HIDE DEF step, n
  <2>1. n \in Nat
    BY <1>2
  <2>2. Recursions(n, Items, x, step) # {}
    BY <1>3, <2>1, FiniteRecursion
  <2> QED
    BY <2>2 DEF Recursions
<1>5. f = rec(f)
  <2> DEFINE F(i) == IF i = 0 THEN x ELSE ApplyStep[list[i]][f[i - 1]]
  <2>1. \A i \in 0 .. n : f[i] = F(i)
    <3>1. \A i \in 0 .. n : i = 0 \/ (i # 0 /\ i \in 1 .. n)
      BY <1>2
    <3>2. \A i \in 1 .. n : step[i] = ApplyStep[list[i]]
      OBVIOUS
    <3> HIDE DEF step, n
    <3> QED
      BY <1>4, <3>1, <3>2
  <2>2. f = [i \in 0 .. n |-> f[i]]
    OBVIOUS
  <2> HIDE DEF step, n, F
  <2>3. f = [i \in 0 .. n |-> F(i)]
    BY <2>1, <2>2
  <2> QED
    BY <2>3 DEF F
<1>6. run = rec(run)
  <2> HIDE DEF rec
  <2> QED
    BY <1>5
<1> HIDE DEF step, run
<1>7. /\ run = [i \in 0 .. n |-> run[i]] /\ run[0] = x
      /\ \A i \in 1 .. n : run[i] = ApplyStep[list[i]][run[i - 1]]
  <2>1. \A i \in 0 .. n : run[i] = rec(run)[i]
    BY <1>6
  <2>2. 0 \in 0 .. n /\ \A i \in 1 .. n : i \in 0 .. n /\ i # 0
    BY <1>2
  <2>3. \A g : rec(g) = [i \in 0 .. n |-> rec(g)[i]]
    OBVIOUS
  <2>4. run = [i \in 0 .. n |-> run[i]]
    <3> HIDE DEF rec
    <3> QED
      BY <1>6, <2>3
  <2> QED
    BY <2>1, <2>2, <2>4
<1> HIDE DEF rec
<1> DEFINE P == {i \in 0 .. n : run[i] \in Items}
<1>8. \A i \in 0 .. n : run[i] \in Items
  <2>1. 0 \in P
    BY <1>2, <1>7
  <2>2. ASSUME NEW i \in 1 .. n, i - 1 \in P PROVE i \in P
    <3>1. i \in 0 .. n /\ run[i - 1] \in Items
      BY <1>2, <2>2
    <3>2. PICK y \in Items : y = run[i - 1]
      BY <3>1
    <3>3. ApplyStep[list[i]][y] \in Items
      BY <1>2, CollectionsAssumption
    <3> QED
      BY <1>7, <3>1, <3>2, <3>3
  <2> HIDE DEF P
  <2>3. \A i \in 0 .. n : i \in P
    BY <1>2, <2>1, <2>2, EveryPosition
  <2> QED
    BY <2>3 DEF P
<1>9. run \in [0 .. n -> Items]
  BY <1>7, <1>8
<1>10. run \in Runs(list, x)
  BY <1>7, <1>9 DEF Runs
<1> QED
  BY <1>1, <1>10

(* Functions composed from the last one are run in order.                  *)
LEMMA ComposedRunsBackwards ==
    ASSUME NEW list \in Seq(Steps), NEW order \in Seq(Steps), Len(order) = Len(list),
           \A i \in 1 .. Len(list) : list[i] = order[Len(list) + 1 - i], NEW x \in Items
    PROVE  Composed(list)[x] = RunInOrder(order, x)
<1> DEFINE n == Len(list)
<1>1. n \in Nat /\ \A i \in 1 .. n : list[i] \in Steps
  OBVIOUS
<1>2. PICK c \in Compositions(list) : Composed(list) = c[n]
  BY ComposedIs
<1>3. PICK r \in Runs(order, x) : RunInOrder(order, x) = r[n]
  BY RunIs
<1>4. /\ c \in [0 .. n -> [Items -> Items]] /\ \A y \in Items : c[0][y] = y
      /\ \A i \in 1 .. n : \A y \in Items : c[i][y] = c[i - 1][ApplyStep[list[i]][y]]
  BY DEF Compositions
<1>5. r \in [0 .. n -> Items] /\ r[0] = x /\ \A i \in 1 .. n : r[i] = ApplyStep[order[i]][r[i - 1]]
  BY DEF Runs
<1>6. \A i \in 1 .. n : list[i] = order[n + 1 - i]
  OBVIOUS
<1> HIDE DEF n
<1> DEFINE P == {k \in 0 .. n : c[k][r[n - k]] = r[n]}
<1>7. 0 \in P
  <2>1. n - 0 = n /\ 0 \in 0 .. n /\ n \in 0 .. n
    BY <1>1
  <2>2. r[n] \in Items
    BY <1>5, <2>1
  <2> QED
    BY <1>4, <2>1, <2>2
<1>8. ASSUME NEW k \in 1 .. n, k - 1 \in P PROVE k \in P
  <2>1. /\ k \in Nat /\ k \in 0 .. n /\ n - k \in 0 .. n /\ n + 1 - k \in 1 .. n /\ (n + 1 - k) - 1 = n - k
        /\ n - (k - 1) = n + 1 - k
    BY <1>1
  <2>2. PICK y \in Items : y = r[n - k]
    BY <1>5, <2>1
  <2>3. c[k][y] = c[k - 1][ApplyStep[list[k]][y]]
    BY <1>4
  <2>4. r[n + 1 - k] = ApplyStep[order[n + 1 - k]][y]
    BY <1>5, <2>1, <2>2
  <2>5. ApplyStep[list[k]][y] = r[n - (k - 1)]
    BY <1>6, <2>1, <2>4
  <2>6. c[k - 1][r[n - (k - 1)]] = r[n]
    BY <1>8
  <2>7. c[k][y] = r[n]
    BY <2>3, <2>5, <2>6
  <2> QED
    BY <2>1, <2>2, <2>7
<1>9. n \in P
  <2> HIDE DEF P
  <2>1. \A k \in 0 .. n : k \in P
    BY <1>1, <1>7, <1>8, EveryPosition
  <2> QED
    BY <1>1, <2>1
<1>10. n - n = 0
  BY <1>1
<1> QED
  BY <1>2, <1>3, <1>5, <1>9, <1>10

(* A pipe of single functions runs them in the order in which they are     *)
(* given: they are reversed first, and composed last to first.             *)
LEMMA PipeInOrder ==
    ASSUME NEW fns \in Seq(Seq(Steps)), NEW x \in Items, \A i \in 1 .. Len(fns) : Len(fns[i]) = 1
    PROVE  ArrayPipe(fns, x) = RunInOrder(FlattenSeq(fns), x)
<1> DEFINE n == Len(fns)
<1>1. PICK back \in Seq(Seq(Steps)) : back = Reverse(fns) /\ Len(back) = n /\ \A i \in 1 .. n : back[i] = fns[(n - i) + 1]
  <2>1. \A i \in 1 .. n : (n - i) + 1 \in 1 .. n
    OBVIOUS
  <2>2. \A i \in 1 .. n : fns[(n - i) + 1] \in Seq(Steps)
    BY <2>1
  <2>3. Reverse(fns) \in [1 .. n -> Seq(Steps)] /\ \A i \in 1 .. n : Reverse(fns)[i] = fns[(n - i) + 1]
    BY <2>2 DEF Reverse
  <2>4. n \in Nat
    OBVIOUS
  <2> HIDE DEF n
  <2>5. Reverse(fns) \in Seq(Seq(Steps)) /\ Len(Reverse(fns)) = n
    BY <2>3, <2>4
  <2> QED
    BY <2>3, <2>5
<1>2. \A i \in 1 .. n : (n - i) + 1 \in 1 .. n /\ n + 1 - i = (n - i) + 1
  OBVIOUS
<1>3. \A i \in 1 .. Len(back) : Len(back[i]) = 1
  <2>1. \A j \in 1 .. n : Len(fns[j]) = 1
    OBVIOUS
  <2> HIDE DEF n
  <2> SUFFICES ASSUME NEW i \in 1 .. n PROVE Len(back[i]) = 1
    BY <1>1
  <2>2. back[i] = fns[(n - i) + 1] /\ (n - i) + 1 \in 1 .. n
    BY <1>1, <1>2
  <2> QED
    BY <2>1, <2>2
<1>4. /\ FlattenSeq(back) \in Seq(Steps) /\ Len(FlattenSeq(back)) = n
      /\ \A i \in 1 .. n : FlattenSeq(back)[i] = back[i][1]
  BY <1>1, <1>3, FlatOfSingles
<1>5. /\ FlattenSeq(fns) \in Seq(Steps) /\ Len(FlattenSeq(fns)) = n
      /\ \A i \in 1 .. n : FlattenSeq(fns)[i] = fns[i][1]
  BY FlatOfSingles
<1>6. PICK list \in Seq(Steps) : list = FlattenSeq(back)
  BY <1>4
<1>7. PICK order \in Seq(Steps) : order = FlattenSeq(fns)
  BY <1>5
<1>8. Len(order) = Len(list) /\ Len(list) = n
  BY <1>4, <1>5, <1>6, <1>7
<1> HIDE DEF n
<1>9. \A i \in 1 .. Len(list) : list[i] = order[Len(list) + 1 - i]
  <2> SUFFICES ASSUME NEW i \in 1 .. n PROVE list[i] = order[n + 1 - i]
    BY <1>8
  <2>1. list[i] = back[i][1]
    BY <1>4, <1>6
  <2>2. back[i] = fns[(n - i) + 1]
    BY <1>1
  <2>3. (n - i) + 1 \in 1 .. n /\ n + 1 - i = (n - i) + 1
    BY <1>2
  <2>4. order[(n - i) + 1] = fns[(n - i) + 1][1]
    BY <1>5, <1>7, <2>3
  <2> QED
    BY <2>1, <2>2, <2>3, <2>4
<1>10. Composed(list)[x] = RunInOrder(order, x)
  BY <1>8, <1>9, ComposedRunsBackwards
<1> QED
  BY <1>1, <1>6, <1>7, <1>10 DEF ArrayPipe

-----------------------------------------------------------------------------
(* Traversals in chunks.                                                   *)
(* The function a traversal maps with.                                     *)
Traverser == CHOOSE f \in Steps : TRUE

(* Mapping a list.                                                         *)
LEMMA Mapped ==
    ASSUME NEW f \in Steps, NEW l \in Seq(Items)
    PROVE  /\ ArrayMap(f, l) \in Seq(Items) /\ Len(ArrayMap(f, l)) = Len(l)
           /\ \A i \in 1 .. Len(l) : ArrayMap(f, l)[i] = ApplyStep[f][l[i]]
<1>1. \A i \in 1 .. Len(l) : ApplyStep[f][l[i]] \in Items
  <2>1. ApplyStep[f] \in [Items -> Items]
    BY CollectionsAssumption
  <2>2. \A i \in 1 .. Len(l) : l[i] \in Items
    OBVIOUS
  <2> QED
    BY <2>1, <2>2
<1>2. ArrayMap(f, l) = [i \in 1 .. Len(l) |-> ApplyStep[f][l[i]]]
  BY DEF ArrayMap
<1> QED
  BY <1>1, <1>2

(* What one list after the other is, position by position.                 *)
IsJoined(ab, a, b) ==
    /\ Len(ab) = Len(a) + Len(b)
    /\ \A i \in 1 .. Len(a) + Len(b) : ab[i] = IF i <= Len(a) THEN a[i] ELSE b[i - Len(a)]

(* Two lists, one after the other.                                         *)
LEMMA Joined ==
    ASSUME NEW T, NEW a \in Seq(T), NEW b \in Seq(T)
    PROVE  a \o b \in Seq(T) /\ IsJoined(a \o b, a, b)
BY ConcatProperties DEF IsJoined

(* Mapping two lists, one after the other.                                 *)
LEMMA MappedConcat ==
    ASSUME NEW f \in Steps, NEW a \in Seq(Items), NEW b \in Seq(Items)
    PROVE  ArrayMap(f, a \o b) = ArrayMap(f, a) \o ArrayMap(f, b)
<1>a. a \o b \in Seq(Items) /\ IsJoined(a \o b, a, b)
  BY Joined
<1>b. PICK ab \in Seq(Items) : ab = a \o b /\ IsJoined(ab, a, b)
  BY <1>a
<1>1. /\ ab = a \o b /\ Len(ab) = Len(a) + Len(b)
      /\ \A i \in 1 .. Len(a) + Len(b) : ab[i] = IF i <= Len(a) THEN a[i] ELSE b[i - Len(a)]
  BY <1>b DEF IsJoined
<1>2. PICK u \in Seq(Items) : u = ArrayMap(f, ab) /\ Len(u) = Len(ab) /\ \A i \in 1 .. Len(ab) : u[i] = ApplyStep[f][ab[i]]
  BY Mapped
<1>3. PICK v \in Seq(Items) : v = ArrayMap(f, a) /\ Len(v) = Len(a) /\ \A i \in 1 .. Len(a) : v[i] = ApplyStep[f][a[i]]
  BY Mapped
<1>4. PICK w \in Seq(Items) : w = ArrayMap(f, b) /\ Len(w) = Len(b) /\ \A i \in 1 .. Len(b) : w[i] = ApplyStep[f][b[i]]
  BY Mapped
<1>c. v \o w \in Seq(Items) /\ IsJoined(v \o w, v, w)
  BY Joined
<1>d. PICK vw \in Seq(Items) : vw = v \o w /\ IsJoined(vw, v, w)
  BY <1>c
<1>5. /\ vw = v \o w /\ Len(vw) = Len(v) + Len(w)
      /\ \A i \in 1 .. Len(v) + Len(w) : vw[i] = IF i <= Len(v) THEN v[i] ELSE w[i - Len(v)]
  BY <1>d DEF IsJoined
<1>6. Len(u) = Len(vw) /\ Len(u) = Len(a) + Len(b) /\ Len(a) \in Nat /\ Len(b) \in Nat
  BY <1>1, <1>2, <1>3, <1>4, <1>5
<1>7. \A i \in 1 .. Len(u) : u[i] = vw[i]
  <2> SUFFICES ASSUME NEW i \in 1 .. Len(a) + Len(b) PROVE u[i] = vw[i]
    BY <1>6
  <2>1. CASE i <= Len(a)
    <3>1. i \in 1 .. Len(a) /\ i \in 1 .. Len(ab) /\ i \in 1 .. Len(v) + Len(w) /\ i <= Len(v)
      BY <1>1, <1>3, <1>4, <1>6, <2>1
    <3>2. u[i] = ApplyStep[f][a[i]]
      BY <1>1, <1>2, <2>1, <3>1
    <3>3. vw[i] = ApplyStep[f][a[i]]
      BY <1>3, <1>5, <3>1
    <3> QED
      BY <3>2, <3>3
  <2>2. CASE ~ (i <= Len(a))
    <3>1. i - Len(a) \in 1 .. Len(b) /\ i \in 1 .. Len(ab) /\ i \in 1 .. Len(v) + Len(w) /\ ~ (i <= Len(v)) /\ i - Len(v) = i - Len(a)
      BY <1>1, <1>3, <1>4, <1>6, <2>2
    <3>2. u[i] = ApplyStep[f][b[i - Len(a)]]
      BY <1>1, <1>2, <2>2, <3>1
    <3>3. vw[i] = ApplyStep[f][b[i - Len(a)]]
      <4>1. vw[i] = w[i - Len(v)]
        BY <1>5, <3>1
      <4> QED
        BY <1>4, <3>1, <4>1
    <3> QED
      BY <3>2, <3>3
  <2> QED
    BY <2>1, <2>2
<1>8. u = vw
  BY <1>6, <1>7, SeqEqual
<1> QED
  BY <1>1, <1>2, <1>3, <1>4, <1>5, <1>8

(* What is left and what is accumulated make up the list that was given.   *)
CallOK(list, how, left, acc, state) ==
    /\ list \in Seq(Items) /\ Len(list) <= MaxList /\ left \in Seq(Items) /\ acc \in Seq(Items)
    /\ how \in {"iterate", "reduce"} /\ state \in {"none", "running", "resolved"}
    /\ Len(acc) + Len(left) <= Len(list)
    /\ how = "iterate" => acc \o ArrayMap(Traverser, left) = ArrayMap(Traverser, list)
    /\ how = "reduce" => ToSet(acc) \cup ToSet(Compact(left)) = ToSet(Compact(list)) /\ Unique(acc)
    /\ state = "resolved" => left = <<>>

(* At first all of the list is left.                                       *)
LEMMA CallStarts ==
    ASSUME NEW list \in Seq(Items), Len(list) <= MaxList, NEW how \in {"iterate", "reduce"}, NEW state \in {"none", "running"}
    PROVE  CallOK(list, how, list, <<>>, state)
<1>1. PICK e \in Seq(Items) : e = <<>> /\ Len(e) = 0
  BY EmptySeq
<1>2. Traverser \in Steps
  BY CollectionsAssumption DEF Traverser
<1>3. e \o ArrayMap(Traverser, list) = ArrayMap(Traverser, list)
  <2>1. PICK m \in Seq(Items) : m = ArrayMap(Traverser, list)
    BY <1>2, Mapped
  <2> QED
    BY <1>1, <2>1, ConcatEmptySeq
<1>4. ToSet(e) = {}
  BY <1>1 DEF ToSet
<1>5. Unique(e)
  BY <1>1, <1>4, FS_EmptySet DEF Unique, IsListUnique
<1>6. Len(e) + Len(list) <= Len(list)
  BY <1>1
<1>7. CallOK(list, how, list, e, state)
  BY <1>3, <1>4, <1>5, <1>6 DEF CallOK
<1> QED
  BY <1>1, <1>7

(* What is kept of two lists, one after the other.                         *)
LEMMA KeptOfBoth ==
    ASSUME NEW chunk \in Seq(Items), NEW rest \in Seq(Items)
    PROVE  ToSet(Compact(chunk \o rest)) = ToSet(Compact(chunk)) \cup ToSet(Compact(rest))
<1>3. Only(chunk \o rest, Items \ {0}) = Only(chunk, Items \ {0}) \o Only(rest, Items \ {0})
  BY OnlyConcat
<1>1. PICK a \in Seq(Items) : a = Compact(chunk)
  BY OnlyKeeps DEF Compact, ArrayFilter
<1>2. PICK b \in Seq(Items) : b = Compact(rest)
  BY OnlyKeeps DEF Compact, ArrayFilter
<1>4. Compact(chunk \o rest) = a \o b
  BY <1>1, <1>2, <1>3 DEF Compact, ArrayFilter
<1>5. ToSet(a \o b) = ToSet(a) \cup ToSet(b)
  BY EntriesOf
<1> QED
  BY <1>1, <1>2, <1>4, <1>5

(* Three lists are joined in either order.                                 *)
LEMMA Regrouped ==
    ASSUME NEW T, NEW a \in Seq(T), NEW b \in Seq(T), NEW c \in Seq(T), NEW ab, ab = a \o b
    PROVE  ab \o c = a \o (b \o c)
<1>1. (a \o b) \o c = a \o (b \o c)
  BY ConcatAssociative
<1> QED
  BY <1>1

(* A call whose list is traversed is done with it.                         *)
Ends(state, left) == state = "resolved" => left = <<>>

(* A chunk that is appended.                                               *)
LEMMA ChunkAppended ==
    ASSUME NEW list, NEW acc, NEW chunk \in Seq(Items), NEW rest \in Seq(Items),
           CallOK(list, "iterate", chunk \o rest, acc, "running"), NEW state \in {"running", "resolved"},
           Ends(state, rest)
    PROVE  CallOK(list, "iterate", rest, IterateArrayAsync(acc, chunk), state)
<1>1. /\ list \in Seq(Items) /\ Len(list) <= MaxList /\ acc \in Seq(Items)
      /\ Len(acc) + Len(chunk \o rest) <= Len(list)
      /\ acc \o ArrayMap(Traverser, chunk \o rest) = ArrayMap(Traverser, list)
  BY DEF CallOK
<1>2. Traverser \in Steps
  BY CollectionsAssumption DEF Traverser
<1>3. PICK a \in Seq(Items) : a = ArrayMap(Traverser, chunk) /\ Len(a) = Len(chunk)
  BY <1>2, Mapped
<1>4. PICK b \in Seq(Items) : b = ArrayMap(Traverser, rest)
  BY <1>2, Mapped
<1>5. ArrayMap(Traverser, chunk \o rest) = a \o b
  BY <1>2, <1>3, <1>4, MappedConcat
<1>6. acc \o a \in Seq(Items) /\ IsJoined(acc \o a, acc, a)
  BY <1>1, Joined
<1>7. PICK more \in Seq(Items) : more = acc \o a /\ IsJoined(more, acc, a)
  BY <1>6
<1>8. IterateArrayAsync(acc, chunk) = more
  BY <1>3, <1>7 DEF IterateArrayAsync, Traverser
<1>9. more \o b = ArrayMap(Traverser, list)
  <2>a. acc \in Seq(Items) /\ more = acc \o a
    BY <1>1, <1>7
  <2>1. more \o b = acc \o (a \o b)
    BY <2>a, Regrouped
  <2> QED
    BY <1>1, <1>5, <1>7, <2>1
<1>10. Len(more) + Len(rest) <= Len(list)
  <2>1. Len(more) = Len(acc) + Len(chunk)
    BY <1>3, <1>7 DEF IsJoined
  <2>2. Len(chunk \o rest) = Len(chunk) + Len(rest)
    BY Joined DEF IsJoined
  <2>3. Len(acc) \in Nat /\ Len(chunk) \in Nat /\ Len(rest) \in Nat /\ Len(list) \in Nat
    BY <1>1
  <2> QED
    BY <1>1, <2>1, <2>2, <2>3
<1>11. CallOK(list, "iterate", rest, more, state)
  BY <1>1, <1>4, <1>9, <1>10 DEF CallOK, Ends
<1> QED
  BY <1>8, <1>11

(* A chunk whose keys are assigned.                                        *)
LEMMA ChunkAssigned ==
    ASSUME NEW list, NEW acc, NEW chunk \in Seq(Items), NEW rest \in Seq(Items),
           CallOK(list, "reduce", chunk \o rest, acc, "running"), NEW state \in {"running", "resolved"},
           Ends(state, rest)
    PROVE  CallOK(list, "reduce", rest, ReduceArrayAsync(acc, chunk), state)
<1>1. /\ list \in Seq(Items) /\ Len(list) <= MaxList /\ acc \in Seq(Items)
      /\ Len(acc) + Len(chunk \o rest) <= Len(list)
      /\ ToSet(acc) \cup ToSet(Compact(chunk \o rest)) = ToSet(Compact(list)) /\ Unique(acc)
  BY DEF CallOK
<1>2. PICK more : more = ReduceArrayAsync(acc, chunk)
  OBVIOUS
<1>3. /\ more \in Seq(Items) /\ Len(more) <= Len(acc) + Len(chunk)
      /\ ToSet(more) = ToSet(acc) \cup ToSet(Compact(chunk)) /\ Unique(more)
  BY <1>1, <1>2, ReducedChunk
<1>4. ToSet(Compact(chunk \o rest)) = ToSet(Compact(chunk)) \cup ToSet(Compact(rest))
  BY KeptOfBoth
<1>5. ToSet(more) \cup ToSet(Compact(rest)) = ToSet(Compact(list))
  BY <1>1, <1>3, <1>4
<1>6. Len(more) + Len(rest) <= Len(list)
  <2>1. Len(chunk \o rest) = Len(chunk) + Len(rest)
    BY Joined DEF IsJoined
  <2>2. Len(acc) \in Nat /\ Len(chunk) \in Nat /\ Len(rest) \in Nat /\ Len(list) \in Nat /\ Len(more) \in Nat
    BY <1>1, <1>3
  <2> QED
    BY <1>1, <1>3, <2>1, <2>2
<1>7. CallOK(list, "reduce", rest, more, state)
  BY <1>1, <1>3, <1>5, <1>6 DEF CallOK, Ends
<1> QED
  BY <1>2, <1>7

(* A chunk is taken from what is left and added to what is accumulated.    *)
LEMMA CallGoesOn ==
    ASSUME NEW list, NEW how, NEW left, NEW acc, CallOK(list, how, left, acc, "running")
    PROVE  LET chunk == Take(MaxChunk, left)
               rest == SubSeq(left, Len(chunk) + 1, Len(left))
           IN  CallOK(list, how, rest,
                      IF how = "iterate" THEN IterateArrayAsync(acc, chunk) ELSE ReduceArrayAsync(acc, chunk),
                      IF rest = <<>> THEN "resolved" ELSE "running")
<1> DEFINE chunk == Take(MaxChunk, left)
           rest == SubSeq(left, Len(chunk) + 1, Len(left))
           state == IF rest = <<>> THEN "resolved" ELSE "running"
<1>1. left \in Seq(Items) /\ how \in {"iterate", "reduce"}
  BY DEF CallOK
<1>2. chunk \in Seq(Items) /\ Len(chunk) \in 0 .. Len(left) /\ left = chunk \o rest
  <2>1. MaxChunk \in Int
    BY CollectionsAssumption
  <2> QED
    BY <1>1, <2>1, TakenFirst
<1>3. rest \in Seq(Items)
  <2> HIDE DEF chunk
  <2> QED
    BY <1>1, <1>2, SubSeqProperties
<1>4. state \in {"running", "resolved"} /\ Ends(state, rest)
  BY DEF Ends
<1> HIDE DEF chunk, rest, state
<1>5. CASE how = "iterate"
  <2>1. CallOK(list, "iterate", chunk \o rest, acc, "running")
    BY <1>2, <1>5
  <2>2. CallOK(list, how, rest, IterateArrayAsync(acc, chunk), state)
    BY <1>2, <1>3, <1>4, <1>5, <2>1, ChunkAppended
  <2> QED
    BY <1>5, <2>2 DEF chunk, rest, state
<1>6. CASE how = "reduce"
  <2>1. CallOK(list, "reduce", chunk \o rest, acc, "running")
    BY <1>2, <1>6
  <2>2. CallOK(list, how, rest, ReduceArrayAsync(acc, chunk), state)
    BY <1>2, <1>3, <1>4, <1>6, <2>1, ChunkAssigned
  <2> QED
    BY <1>6, <2>2 DEF chunk, rest, state
<1> QED
  BY <1>1, <1>5, <1>6

(* Every call has worked off what it was given, as far as it got.          *)
CollectionsInv ==
    /\ pipe \in Seq(Seq(Steps)) /\ argument \in Items
    /\ given \in [Calls -> Seq(Items)] /\ queueLeft \in [Calls -> Seq(Items)] /\ base \in [Calls -> Seq(Items)]
    /\ kind \in [Calls -> {"iterate", "reduce"}] /\ traversal \in [Calls -> {"none", "running", "resolved"}]
    /\ \A c \in Calls : CallOK(given[c], kind[c], queueLeft[c], base[c], traversal[c])

(* At first nothing is traversed.                                          *)
LEMMA CollectionsStart == CollectionsInit => CollectionsInv
<1> SUFFICES ASSUME CollectionsInit PROVE CollectionsInv
  OBVIOUS
<1>1. PICK e \in Seq(Items) : e = <<>> /\ Len(e) = 0
  BY EmptySeq
<1>2. pipe \in Seq(Seq(Steps)) /\ argument \in Items
  BY CollectionsAssumption DEF CollectionsInit
<1>3. /\ given \in [Calls -> Seq(Items)] /\ queueLeft \in [Calls -> Seq(Items)] /\ base \in [Calls -> Seq(Items)]
      /\ kind \in [Calls -> {"iterate", "reduce"}] /\ traversal \in [Calls -> {"none", "running", "resolved"}]
  BY <1>1 DEF CollectionsInit
<1>4. ASSUME NEW c \in Calls PROVE CallOK(given[c], kind[c], queueLeft[c], base[c], traversal[c])
  <2>1. given[c] = e /\ kind[c] = "iterate" /\ queueLeft[c] = e /\ base[c] = <<>> /\ traversal[c] = "none"
    BY <1>1 DEF CollectionsInit
  <2>2. Len(e) <= MaxList
    BY <1>1, CollectionsAssumption
  <2>3. CallOK(e, "iterate", e, <<>>, "none")
    BY <2>2, CallStarts
  <2> QED
    BY <2>1, <2>3
<1> QED
  BY <1>2, <1>3, <1>4 DEF CollectionsInv

(* A call goes on; the others keep what they have.                         *)
LEMMA CollectionsStep == CollectionsInv /\ [CollectionsNext]_collectionVars => CollectionsInv'
<1> SUFFICES ASSUME CollectionsInv, [CollectionsNext]_collectionVars PROVE CollectionsInv'
  OBVIOUS
<1>1. CASE UNCHANGED collectionVars
  BY <1>1 DEF collectionVars, CollectionsInv
<1>2. ASSUME NEW fns \in Pipes, NEW x \in Items, BuildPipe(fns, x)
      PROVE  CollectionsInv'
  <2>1. PipeArguments \subseteq Seq(Steps)
    <3> SUFFICES ASSUME NEW a \in PipeArguments PROVE a \in Seq(Steps)
      OBVIOUS
    <3>1. CASE a \in {<<f>> : f \in Steps}
      <4>1. PICK f \in Steps : a = <<f>>
        BY <3>1
      <4>2. <<f>> \in Seq(Steps)
        OBVIOUS
      <4> QED
        BY <4>1, <4>2
    <3>2. CASE a \in {<<f, g>> : f, g \in Steps}
      <4>1. PICK f \in Steps, g \in Steps : a = <<f, g>>
        BY <3>2
      <4>2. <<f, g>> \in Seq(Steps)
        OBVIOUS
      <4> QED
        BY <4>1, <4>2
    <3> QED
      BY <3>1, <3>2 DEF PipeArguments
  <2>2. fns \in Seq(PipeArguments)
    BY BoundedSeries DEF Pipes
  <2>3. fns \in Seq(Seq(Steps))
    BY <2>1, <2>2, WiderSeq
  <2> QED
    BY <1>2, <2>3 DEF BuildPipe, CollectionsInv
<1>3. ASSUME NEW c \in Calls, NEW list \in ItemLists, NEW k \in {"iterate", "reduce"}, ChunkArrayAsync(c, list, k)
      PROVE  CollectionsInv'
  <2>1. list \in Seq(Items) /\ Len(list) <= MaxList
    <3>1. Len(list) \in 0 .. MaxList /\ list \in Seq(Items) /\ MaxList \in Nat
      BY BoundedSeries, CollectionsAssumption DEF ItemLists
    <3> QED
      BY <3>1
  <2>2. PICK e \in Seq(Items) : e = <<>>
    BY EmptySeq
  <2>3. /\ given' = [given EXCEPT ![c] = list] /\ queueLeft' = [queueLeft EXCEPT ![c] = list]
        /\ kind' = [kind EXCEPT ![c] = k] /\ base' = [base EXCEPT ![c] = e]
        /\ traversal' = [traversal EXCEPT ![c] = "running"] /\ UNCHANGED <<pipe, argument>>
    BY <1>3, <2>2 DEF ChunkArrayAsync, Accumulator
  <2>4. /\ given' \in [Calls -> Seq(Items)] /\ queueLeft' \in [Calls -> Seq(Items)] /\ base' \in [Calls -> Seq(Items)]
        /\ kind' \in [Calls -> {"iterate", "reduce"}] /\ traversal' \in [Calls -> {"none", "running", "resolved"}]
    BY <2>1, <2>3 DEF CollectionsInv
  <2>5. ASSUME NEW d \in Calls PROVE CallOK(given'[d], kind'[d], queueLeft'[d], base'[d], traversal'[d])
    <3>1. CASE d = c
      <4>1. given'[d] = list /\ kind'[d] = k /\ queueLeft'[d] = list /\ base'[d] = <<>> /\ traversal'[d] = "running"
        BY <2>2, <2>3, <3>1 DEF CollectionsInv
      <4>2. CallOK(list, k, list, <<>>, "running")
        BY <2>1, CallStarts
      <4> QED
        BY <4>1, <4>2
    <3>2. CASE d # c
      <4>1. /\ given'[d] = given[d] /\ kind'[d] = kind[d] /\ queueLeft'[d] = queueLeft[d] /\ base'[d] = base[d]
            /\ traversal'[d] = traversal[d]
        BY <2>3, <3>2 DEF CollectionsInv
      <4>2. CallOK(given[d], kind[d], queueLeft[d], base[d], traversal[d])
        BY DEF CollectionsInv
      <4> QED
        BY <4>1, <4>2
    <3> QED
      BY <3>1, <3>2
  <2>6. pipe' \in Seq(Seq(Steps)) /\ argument' \in Items
    BY <2>3 DEF CollectionsInv
  <2> QED
    BY <2>4, <2>5, <2>6 DEF CollectionsInv
<1>4. ASSUME NEW c \in Calls, Chunk(c) PROVE CollectionsInv'
  <2> DEFINE chunk == Take(MaxChunk, queueLeft[c])
             rest == SubSeq(queueLeft[c], Len(chunk) + 1, Len(queueLeft[c]))
             more == IF kind[c] = "iterate" THEN IterateArrayAsync(base[c], chunk) ELSE ReduceArrayAsync(base[c], chunk)
             state == IF rest = <<>> THEN "resolved" ELSE "running"
  <2>1. /\ traversal[c] = "running" /\ base' = [base EXCEPT ![c] = more] /\ queueLeft' = [queueLeft EXCEPT ![c] = rest]
        /\ traversal' = [traversal EXCEPT ![c] = state] /\ UNCHANGED <<pipe, argument, given, kind>>
    BY <1>4 DEF Chunk
  <2>2. CallOK(given[c], kind[c], queueLeft[c], base[c], "running")
    BY <2>1 DEF CollectionsInv
  <2>3. CallOK(given[c], kind[c], rest, more, state)
    BY <2>2, CallGoesOn
  <2> HIDE DEF chunk, rest, more, state
  <2>4. rest \in Seq(Items) /\ more \in Seq(Items) /\ state \in {"none", "running", "resolved"}
    BY <2>3 DEF CallOK
  <2>5. /\ given' \in [Calls -> Seq(Items)] /\ queueLeft' \in [Calls -> Seq(Items)] /\ base' \in [Calls -> Seq(Items)]
        /\ kind' \in [Calls -> {"iterate", "reduce"}] /\ traversal' \in [Calls -> {"none", "running", "resolved"}]
    BY <2>1, <2>4 DEF CollectionsInv
  <2>6. ASSUME NEW d \in Calls PROVE CallOK(given'[d], kind'[d], queueLeft'[d], base'[d], traversal'[d])
    <3>1. CASE d = c
      <4>1. given'[d] = given[c] /\ kind'[d] = kind[c] /\ queueLeft'[d] = rest /\ base'[d] = more /\ traversal'[d] = state
        BY <2>1, <3>1 DEF CollectionsInv
      <4> QED
        BY <2>3, <4>1
    <3>2. CASE d # c
      <4>1. /\ given'[d] = given[d] /\ kind'[d] = kind[d] /\ queueLeft'[d] = queueLeft[d] /\ base'[d] = base[d]
            /\ traversal'[d] = traversal[d]
        BY <2>1, <3>2 DEF CollectionsInv
      <4>2. CallOK(given[d], kind[d], queueLeft[d], base[d], traversal[d])
        BY DEF CollectionsInv
      <4> QED
        BY <4>1, <4>2
    <3> QED
      BY <3>1, <3>2
  <2>7. pipe' \in Seq(Seq(Steps)) /\ argument' \in Items
    BY <2>1 DEF CollectionsInv
  <2> QED
    BY <2>5, <2>6, <2>7 DEF CollectionsInv
<1>5. CASE CollectionsNext
  <2>1. \/ \E fns \in Pipes, x \in Items : BuildPipe(fns, x)
        \/ \E c \in Calls, list \in ItemLists, k \in {"iterate", "reduce"} : ChunkArrayAsync(c, list, k)
        \/ \E c \in Calls : Chunk(c)
    BY <1>5, Zenon DEF CollectionsNext
  <2> QED
    BY <1>2, <1>3, <1>4, <2>1, Zenon
<1> QED
  BY <1>1, <1>5

(* What a call gives in the end, and its bounds.                           *)
LEMMA TraversedWhole == CollectionsInv => CollectionsTypeOK /\ TraversalIsWhole
<1> SUFFICES ASSUME CollectionsInv PROVE CollectionsTypeOK /\ TraversalIsWhole
  OBVIOUS
<1>1. ASSUME NEW c \in Calls
      PROVE  /\ given[c] \in ItemLists /\ queueLeft[c] \in ItemLists
             /\ ToSet(base[c]) \subseteq Items /\ Len(base[c]) <= MaxList
  <2>1. /\ given[c] \in Seq(Items) /\ queueLeft[c] \in Seq(Items) /\ base[c] \in Seq(Items)
        /\ Len(given[c]) <= MaxList /\ Len(base[c]) + Len(queueLeft[c]) <= Len(given[c])
    BY DEF CollectionsInv, CallOK
  <2>2. Len(given[c]) \in Nat /\ Len(queueLeft[c]) \in Nat /\ Len(base[c]) \in Nat /\ MaxList \in Nat
    BY <2>1, CollectionsAssumption
  <2>a. Len(given[c]) <= MaxList /\ Len(base[c]) + Len(queueLeft[c]) <= Len(given[c])
    BY <2>1
  <2>3. Len(queueLeft[c]) <= MaxList /\ Len(base[c]) <= MaxList
    <3>1. \A l, m, n, b \in Nat : l <= b /\ m + n <= l => n <= b /\ m <= b
      OBVIOUS
    <3> QED
      BY <2>2, <2>a, <3>1
  <2>4. given[c] \in ItemLists /\ queueLeft[c] \in ItemLists
    BY <2>1, <2>2, <2>3, SeriesBounded DEF ItemLists
  <2> QED
    BY <2>1, <2>3, <2>4, EntriesOf
<1>2. CollectionsTypeOK
  <2>1. given \in [Calls -> ItemLists] /\ queueLeft \in [Calls -> ItemLists]
    BY <1>1 DEF CollectionsInv
  <2> QED
    BY <1>1, <2>1 DEF CollectionsInv, CollectionsTypeOK
<1>3. ASSUME NEW c \in Calls, traversal[c] = "resolved"
      PROVE  IF kind[c] = "iterate" THEN base[c] = ArrayMap(CHOOSE f \in Steps : TRUE, given[c])
             ELSE ToSet(base[c]) = ToSet(Compact(given[c])) /\ IsListUnique(base[c])
  <2>1. /\ base[c] \in Seq(Items) /\ queueLeft[c] = <<>> /\ kind[c] \in {"iterate", "reduce"}
        /\ kind[c] = "iterate" => base[c] \o ArrayMap(Traverser, queueLeft[c]) = ArrayMap(Traverser, given[c])
        /\ kind[c] = "reduce" => ToSet(base[c]) \cup ToSet(Compact(queueLeft[c])) = ToSet(Compact(given[c])) /\ Unique(base[c])
    BY <1>3 DEF CollectionsInv, CallOK
  <2>2. PICK e \in Seq(Items) : e = <<>> /\ Len(e) = 0
    BY EmptySeq
  <2>3. CASE kind[c] = "iterate"
    <3>1. PICK m \in Seq(Items) : m = ArrayMap(Traverser, e) /\ Len(m) = 0
      <4>1. Traverser \in Steps
        BY CollectionsAssumption DEF Traverser
      <4> QED
        BY <2>2, <4>1, Mapped
    <3>2. m = <<>>
      BY <3>1, EmptySeq
    <3>3. base[c] \o <<>> = base[c]
      BY <2>1, ConcatEmptySeq
    <3>4. base[c] = ArrayMap(Traverser, given[c])
      BY <2>1, <2>2, <2>3, <3>1, <3>2, <3>3
    <3> QED
      BY <2>3, <3>4 DEF Traverser
  <2>4. CASE kind[c] = "reduce"
    <3>1. Compact(<<>>) = <<>>
      BY OnlyOfEmpty DEF Compact, ArrayFilter
    <3>2. ToSet(<<>>) = {}
      BY DEF ToSet
    <3>3. ToSet(base[c]) = ToSet(Compact(given[c])) /\ Unique(base[c])
      BY <2>1, <2>4, <3>1, <3>2
    <3> QED
      BY <2>4, <3>3 DEF Unique
  <2> QED
    BY <2>1, <2>3, <2>4
<1>4. TraversalIsWhole
  BY <1>3 DEF TraversalIsWhole
<1> QED
  BY <1>2, <1>4

(* A partition divides the list, and taking from it takes no more.         *)
LEMMA PartitionWhole == CollectionsInv => PartitionIsWhole
<1> SUFFICES ASSUME CollectionsInv, NEW c \in Calls, NEW S \in SUBSET Items
             PROVE  LET parts == ArrayPartition(S, given[c]) IN
                    /\ Len(parts[1]) + Len(parts[2]) = Len(given[c])
                    /\ ArrayEvery(S, parts[1]) /\ ~ArraySome(S, parts[2])
                    /\ \A n \in -1..MaxList : Len(Take(n, given[c])) <= Len(given[c]) /\ (n >= 0 => Len(Take(n, given[c])) <= n)
  BY DEF PartitionIsWhole
<1>1. PICK list \in Seq(Items) : list = given[c]
  BY DEF CollectionsInv
<1> DEFINE R == ToSet(list) \ S
<1>2. ArrayPartition(S, list)[1] = Only(list, S) /\ ArrayPartition(S, list)[2] = Only(list, R)
  BY DEF ArrayPartition, ArrayFilter
<1>3. \A i \in 1 .. Len(list) : list[i] \in R <=> list[i] \notin S
  <2>1. \A i \in 1 .. Len(list) : list[i] \in ToSet(list)
    BY EntriesOf
  <2> QED
    BY <2>1
<1> HIDE DEF R
<1>4. Len(Only(list, S)) + Len(Only(list, R)) = Len(list)
  BY <1>3, PartsOfPartition
<1>5. PICK p \in Seq(Items) : p = Only(list, S) /\ \A k \in 1 .. Len(p) : p[k] \in S
  BY OnlyEntries DEF PartOf
<1>6. PICK q \in Seq(Items) : q = Only(list, R) /\ \A k \in 1 .. Len(q) : q[k] \in R
  BY OnlyEntries DEF PartOf
<1>7. ArrayEvery(S, p) /\ ~ArraySome(S, q)
  <2>1. \A k \in 1 .. Len(q) : q[k] \notin S
    BY <1>6 DEF R
  <2> QED
    BY <1>5, <2>1 DEF ArrayEvery, ArraySome
<1>8. ASSUME NEW n \in -1 .. MaxList
      PROVE  Len(Take(n, list)) <= Len(list) /\ (n >= 0 => Len(Take(n, list)) <= n)
  <2>1. n \in Int
    OBVIOUS
  <2>2. Len(Take(n, list)) \in 0 .. Len(list) /\ (n >= 0 => Len(Take(n, list)) <= n)
    BY <2>1, TakenFirst
  <2> QED
    BY <2>2
<1> QED
  BY <1>1, <1>2, <1>4, <1>5, <1>6, <1>7, <1>8

(* Picking and omitting keys.                                              *)
LEMMA PickedOrOmitted == PickAndOmit
<1> SUFFICES ASSUME NEW c \in Calls, NEW keys \in SUBSET Items
             PROVE  LET o == [x \in ToSet(given[c]) |-> x] IN
                    /\ keys \subseteq DOMAIN o => \A x \in DOMAIN o : x \in DOMAIN PickKeys(o, keys) <=> x \notin DOMAIN Omit(o, keys)
                    /\ HasEnumerableKeys(o) <=> HasEnumerableKeys(Nullify(o))
  BY DEF PickAndOmit
<1> DEFINE o == [x \in ToSet(given[c]) |-> x]
<1>1. PICK D : D = ToSet(given[c])
  OBVIOUS
<1>2. DOMAIN o = D /\ DOMAIN Nullify(o) = D
  BY <1>1 DEF Nullify
<1>3. DOMAIN PickKeys(o, keys) = keys
  BY DEF PickKeys
<1>4. DOMAIN Omit(o, keys) = D \ keys
  BY <1>2 DEF Omit
<1> HIDE DEF o
<1>5. keys \subseteq DOMAIN o => \A x \in DOMAIN o : x \in DOMAIN PickKeys(o, keys) <=> x \notin DOMAIN Omit(o, keys)
  BY <1>2, <1>3, <1>4
<1>6. HasEnumerableKeys(o) <=> HasEnumerableKeys(Nullify(o))
  BY <1>2 DEF HasEnumerableKeys
<1> QED
  BY <1>5, <1>6 DEF o

(* Pipes run in order.                                                     *)
LEMMA PipesInOrder == CollectionsInv => PipeRunsInOrder
<1> SUFFICES ASSUME CollectionsInv, \A i \in DOMAIN pipe : Len(pipe[i]) = 1
             PROVE  ArrayPipe(pipe, argument) = RunInOrder(FlattenSeq(pipe), argument)
  BY DEF PipeRunsInOrder
<1>1. pipe \in Seq(Seq(Steps)) /\ argument \in Items
  BY DEF CollectionsInv
<1>2. \A i \in 1 .. Len(pipe) : Len(pipe[i]) = 1
  BY <1>1
<1> QED
  BY <1>1, <1>2, PipeInOrder

(* What is computed from a list, in chunks while other lists are, or at    *)
(* once, is computed from all of it and in its order.                      *)
THEOREM ComputedWhole ==
    CollectionsSpec =>
        [](CollectionsTypeOK /\ TraversalIsWhole /\ PartitionIsWhole /\ PickAndOmit /\ PipeRunsInOrder)
<1>1. CollectionsInv =>
        CollectionsTypeOK /\ TraversalIsWhole /\ PartitionIsWhole /\ PickAndOmit /\ PipeRunsInOrder
  BY TraversedWhole, PartitionWhole, PickedOrOmitted, PipesInOrder
<1> QED
  BY <1>1, CollectionsStart, CollectionsStep, PTL DEF CollectionsSpec

-----------------------------------------------------------------------------
(* The shell: every component moves by itself.                             *)

(* What is drawn fits and agrees with what is written beside it, and what  *)
(* is computed from a list is computed from all of it, in its order.       *)
THEOREM DrawnAndComputedHolds == WebSpec => []DrawnAndComputedWhole
<1>1. WebInit => ChartsInit /\ CollectionsInit
  BY DEF WebInit
<1>2. [WebNext]_webVars => [ChartsNext]_chartVars
  BY DEF WebNext, webVars
<1>3. [WebNext]_webVars => [CollectionsNext]_collectionVars
  BY DEF WebNext, webVars
<1>4. WebSpec => ChartsSpec /\ CollectionsSpec
  BY <1>1, <1>2, <1>3, PTL DEF WebSpec, ChartsSpec, CollectionsSpec
<1>5. (ChartsTypeOK /\ BarsFit /\ BarsDoNotOverlap /\ GaugeAgrees)
      /\ (CollectionsTypeOK /\ TraversalIsWhole /\ PartitionIsWhole /\ PickAndOmit /\ PipeRunsInOrder)
        => DrawnAndComputedWhole
  BY DEF DrawnAndComputedWhole
<1> QED
  BY <1>4, <1>5, ChartsAreWhole, ComputedWhole, PTL

(* A step of the shell is one of each part, or leaves it alone.            *)
LEMMA ShellStep ==
    [WebNext]_webVars => /\ [BrowseNext]_browseVars /\ [ListsNext]_listVars
                         /\ [NotifyNext]_<<notifyVars, bannerVars>> /\ [SessNext]_sessVars
                         /\ [LookupNext]_lookupVars /\ [DropdownNext]_dropdownVars
BY DEF WebNext, webVars

(* The shell keeps its promises whichever of its parts moves: category and *)
(* url, lists and storage, notifications and their callers, session and    *)
(* analytics, lookups and names, drop downs and mouse agree.               *)
THEOREM ShellKeepsPromises ==
    WebSpec => /\ [](BrowsingAgrees /\ ListsAgree /\ LookupFindsUsers /\ DrawnAndComputedWhole)
               /\ [](DropdownTypeOK /\ OpenWhileOver /\ CaretTellsOpen)
               /\ NotificationsAreServed /\ SessionIsTracked
<1>1. WebInit => BrowseInit /\ ListsInit /\ NotifyInit /\ SessInit /\ LookupInit /\ DropdownInit
  BY DEF WebInit
<1>2. WebSpec => BrowseSpec /\ ListsSpec /\ NotifySpec /\ SessSpec /\ LookupSpec /\ DropdownSpec
  BY <1>1, ShellStep, PTL DEF WebSpec, BrowseSpec, ListsSpec, NotifySpec, SessSpec, LookupSpec, DropdownSpec
<1> QED
  BY <1>2, BrowsedIsShown, ListsAreInAgreement, NotifiedAreServed, SessionIsKnown, UsersAreFound,
     DropdownIsOpenWhileOver, DrawnAndComputedHolds, PTL
=============================================================================
