---------------------------- MODULE Notifications ----------------------------
(***************************************************************************)
(* What the web client tells its user: a service that shows queued         *)
(* notifications one after the other, toasts that go away by themselves,   *)
(* sticky ones and dialogs that wait for an answer; and the banners at the *)
(* top of the page, which leave after an animation.                        *)
(*                                                                         *)
(* A step is an event of the page with everything that runs before the     *)
(* next one: the loop over the queue goes on in a promise, which is        *)
(* settled before any other event.                                         *)
(***************************************************************************)
EXTENDS Integers, Sequences, FiniteSets, SequencesExt

CONSTANTS
  MaxNotified,  \* bound: notifications in a behaviour
  MaxBanners    \* bound: banners in a behaviour

ASSUME NotificationsAssumption == {MaxNotified, MaxBanners} \subseteq Nat

VARIABLES
  queue,                 \* the newest first; the last is shown next
  activeNotification,    \* the last one shown, {} or a singleton
  isShowingNotification,
  toastTimers,           \* setCurrentNotificationTask: the toasts it waits for
  isBuffering,
  awaiting,              \* those whose handling the loop over the queue awaits
  notified, lastShown,   \* history: how many there were; the last one shown
  banners,               \* the newest first
  dequeues,              \* banners waiting for the end of their animation
  bannersAdded,          \* history
  crossed                \* history: a banner that was not the first was dismissed,
                         \* or others came and went during an animation

notifyVars == <<queue, activeNotification, isShowingNotification, toastTimers, isBuffering, awaiting,
                notified, lastShown>>
bannerVars == <<banners, dequeues, bannersAdded, crossed>>

(***************************************************************************)
(* Notifications.                                                          *)
(***************************************************************************)

\* Successes are like information.  An error stays until it is dismissed.
NotificationHandlers == [confirm |-> "modal", error |-> "sticky", info |-> "toast"]

IsAConfirmationModal(n) == n.kind = "modal"

IsShowingToast == isShowingNotification /\ \E n \in activeNotification : ~IsAConfirmationModal(n)

\* Mutant: the toast shown before goes on waiting.
LeaveTimers(n) == toastTimers' = toastTimers \cup {n}

\* The task is restarted: a toast waits for its time, the others do not.
RestartTimer(n) == toastTimers' = IF n.kind = "toast" THEN {n} ELSE {}

SetCurrentNotification(n) ==
  /\ activeNotification' = {n} /\ isShowingNotification' = TRUE
  /\ RestartTimer(n)
  /\ lastShown' = n.id

\* The loop takes the front of the queue; rest is what it awaits already.
FlushBuffer(q, rest, buffering) ==
  IF q = <<>>
  THEN /\ queue' = q /\ awaiting' = rest /\ isBuffering' = FALSE
       /\ UNCHANGED <<activeNotification, lastShown>>
       /\ isShowingNotification' = FALSE /\ toastTimers' = {}
  ELSE /\ SetCurrentNotification(Last(q))
       /\ queue' = Front(q) /\ awaiting' = rest \cup {Last(q)} /\ isBuffering' = buffering

Enqueue(n, q) == <<n>> \o q

Notify(event) ==
  LET n == [id |-> notified + 1, kind |-> NotificationHandlers[event]]
  IN  /\ notified < MaxNotified /\ notified' = notified + 1
      /\ IF isBuffering
         THEN /\ queue' = Enqueue(n, queue)
              /\ UNCHANGED <<activeNotification, isShowingNotification, toastTimers, isBuffering, awaiting,
                             lastShown>>
         ELSE FlushBuffer(Enqueue(n, queue), awaiting, TRUE)

\* The handling of n is complete: the next one is shown, and when the loop has
\* started that it says that nothing is being shown.
Complete(n, q) == FlushBuffer(q, awaiting \ {n}, FALSE)

Dismiss(n) == ~IsAConfirmationModal(n) /\ Complete(n, queue) /\ UNCHANGED notified

DismissToast == isShowingNotification /\ \E n \in activeNotification : Dismiss(n)

\* The time of one toast is over: the active one is dismissed.
ToastTimeout == toastTimers # {} /\ \E n \in activeNotification : Dismiss(n)

\* The toast goes and a dialog with its text is notified; then the loop goes on,
\* over what another loop has just started to show if that does not know of it.
ShowContentDetail ==
  LET d == [id |-> notified + 1, kind |-> "modal"]
      q == Enqueue(d, queue)
  IN  \E n \in activeNotification :
        /\ IsShowingToast /\ notified < MaxNotified /\ notified' = notified + 1
        /\ IF isBuffering \/ Len(q) = 1
           THEN Complete(n, q)
           ELSE FlushBuffer(Front(q), (awaiting \ {n}) \cup {Last(q)}, FALSE)

\* Confirmed or dismissed: either way the dialog is done.
PerformModal ==
  \E n \in activeNotification :
    /\ IsAConfirmationModal(n) /\ isShowingNotification
    /\ Complete(n, queue) /\ UNCHANGED notified

(***************************************************************************)
(* Banners.                                                                *)
(***************************************************************************)

IsShowingBanners == banners # <<>> /\ (Len(banners) > 1 \/ ~banners[1].isExiting)

\* An error stays.
IsDismissable == [info |-> TRUE, confirm |-> TRUE, error |-> FALSE]

\* Up to three banners, for the flags of the configuration, once the first page is rendered.
AppInitialBanners(n) == [i \in 1..n |-> [id |-> n + 1 - i, isExiting |-> FALSE, isDismissable |-> TRUE]]

AddBanner(type) ==
  /\ bannersAdded < MaxBanners /\ bannersAdded' = bannersAdded + 1
  /\ banners' = <<[id |-> bannersAdded + 1, isExiting |-> FALSE, isDismissable |-> IsDismissable[type]]>> \o banners
  /\ crossed' = (crossed \/ dequeues > 0)
  /\ UNCHANGED dequeues

OnDismissBanner(i) ==
  /\ banners[i].isDismissable /\ dequeues < MaxBanners
  /\ banners' = [banners EXCEPT ![i].isExiting = TRUE]
  /\ dequeues' = dequeues + 1
  /\ crossed' = (crossed \/ i # 1 \/ banners[i].isExiting)
  /\ UNCHANGED bannersAdded

\* When the animation is over the first banner leaves, whichever was dismissed.
Dequeue ==
  /\ dequeues > 0 /\ dequeues' = dequeues - 1
  /\ banners' = IF banners = <<>> THEN banners ELSE Tail(banners)
  /\ UNCHANGED <<bannersAdded, crossed>>

RemoveBanner(i) ==
  /\ banners' = RemoveAt(banners, i)
  /\ crossed' = (crossed \/ dequeues > 0)
  /\ UNCHANGED <<dequeues, bannersAdded>>

-----------------------------------------------------------------------------
NotifyInit ==
  /\ queue = <<>> /\ activeNotification = {} /\ isShowingNotification = FALSE
  /\ toastTimers = {} /\ isBuffering = FALSE /\ awaiting = {}
  /\ notified = 0 /\ lastShown = 0
  /\ bannersAdded \in 0..MaxBanners /\ bannersAdded <= 3 /\ banners = AppInitialBanners(bannersAdded)
  /\ dequeues = 0 /\ crossed = FALSE

NotifyNext ==
  \/ /\ \/ \E event \in DOMAIN NotificationHandlers : Notify(event)
        \/ DismissToast \/ ToastTimeout \/ ShowContentDetail \/ PerformModal
     /\ UNCHANGED bannerVars
  \/ /\ \/ \E type \in DOMAIN IsDismissable : AddBanner(type)
        \/ Dequeue
        \/ \E i \in DOMAIN banners : OnDismissBanner(i) \/ RemoveBanner(i)
     /\ UNCHANGED notifyVars

NotifySpec == NotifyInit /\ [][NotifyNext]_<<notifyVars, bannerVars>>

-----------------------------------------------------------------------------
NotifyTypeOK ==
  /\ \A i \in DOMAIN queue : queue[i].id \in 1..notified /\ queue[i].kind \in {"modal", "sticky", "toast"}
  /\ Cardinality(activeNotification) <= 1
  /\ {isShowingNotification, isBuffering} \subseteq BOOLEAN
  /\ isShowingNotification => activeNotification # {} /\ activeNotification \subseteq awaiting
  /\ lastShown \in 0..notified
  /\ dequeues \in 0..MaxBanners /\ Len(banners) <= bannersAdded

\* Notifications are shown in the order they were made, also when one is made
\* while another is shown or replaces it.
ShownInOrder == [][lastShown' >= lastShown]_lastShown

\* Nothing waits in the queue unless something is shown whose end the loop
\* awaits: no notification is forgotten there.
QueueIsServed == queue # <<>> => isShowingNotification /\ activeNotification \subseteq awaiting

\* A toast on the screen has a timer of its own; a dialog or an error is never
\* taken away by the timer of an earlier toast.
TimerIsOwn == toastTimers = {n \in activeNotification : isShowingNotification /\ n.kind = "toast"}

\* A banner the user dismissed is gone when its animation is, as long as it was
\* the first and the banners stayed the same meanwhile.
DismissedBannerLeaves == dequeues = 0 /\ ~crossed => \A i \in DOMAIN banners : ~banners[i].isExiting

\* The page makes room for banners exactly while one stays.
OffsetWhileBanners == ~crossed => (IsShowingBanners <=> \E i \in DOMAIN banners : ~banners[i].isExiting)

\* Every notification gets its turn, in order, with a timer of its own; a dismissed
\* banner is the one that leaves.
NotificationsAreServed ==
  /\ [](NotifyTypeOK /\ QueueIsServed /\ TimerIsOwn
         /\ DismissedBannerLeaves /\ OffsetWhileBanners)
  /\ ShownInOrder
=============================================================================
