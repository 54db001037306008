---------------------------- MODULE AspectStore -----------------------------
(***************************************************************************)
(* LocalDAO as its clients see it, and the two promises of AspectHistory   *)
(* it keeps: one when changes overlap, and the documented one when they    *)
(* do not.  serial, which never changes, says that no two requests run at  *)
(* a time.                                                                 *)
(***************************************************************************)
EXTENDS LocalDAO

VARIABLE serial

Running == {p \in Writers : pc[p] # "idle"}

StoreInit == Init /\ serial \in BOOLEAN
StoreNext ==
    /\ Next /\ UNCHANGED serial
    /\ serial => \A p, q \in Running' : p = q

StoreSpec == StoreInit /\ [][StoreNext]_<<serial, vars>>
-----------------------------------------------------------------------------
(* Version 0 is the latest value, the other versions are the history.      *)
(* With time-based retention, which may remove the latest value too, the   *)
(* store shows nothing of this.                                            *)
Kept == retention # "time"
LatestValue == IF Kept THEN Latest.value ELSE None
History == [v \in IF Kept THEN Versions \ {LATEST_VERSION} ELSE {} |-> table[v].value]
Seen == IF Kept THEN {commits[i].new : i \in DOMAIN commits} ELSE {}

Weaker == INSTANCE AspectHistory WITH
    Serial <- FALSE, endless <- retention = "indefinite",
    latest <- LatestValue, history <- History, seen <- Seen

(* With several writers the store keeps the weaker promise: what is        *)
(* archived is at least a value that was the latest once.                  *)
KeepsOnlySeenValues == Weaker!Spec

Documented == INSTANCE AspectHistory WITH
    Serial <- TRUE, endless <- retention = "indefinite",
    latest <- IF serial THEN LatestValue ELSE None,
    history <- IF serial THEN History ELSE <<>>,
    seen <- IF serial THEN Seen ELSE {}

(* When no two requests overlap it keeps the documented one, under every   *)
(* fault and whether or not the versions are limited: each change archives *)
(* the value it replaces.                                                  *)
KeepsEveryValue == Documented!Spec

(* The history holds only values that were once the latest, and without    *)
(* overlapping requests every one of them.                                 *)
HistoryIsReal == KeepsOnlySeenValues /\ KeepsEveryValue

(* One request at a time: with version-based retention the table holds the *)
(* latest value and the newest Limit - 1 archived ones, nothing else, and, *)
(* unless the limit is 1, no version number is given out twice.            *)
WindowOfOneWriter == serial => RetentionWindow
=============================================================================
