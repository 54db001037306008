--------------------------- MODULE AspectHistory ---------------------------
(***************************************************************************)
(* What a versioned aspect store promises its clients, without a word on   *)
(* rows, statements or transactions: a latest value, and a history that    *)
(* only grows, or forgets what a retention policy allows.  Each change     *)
(* moves one value into the history.                                       *)
(*                                                                         *)
(* Serial = TRUE is the documented promise: the value moved is the one the *)
(* change replaces, so that no value is ever lost.  Serial = FALSE is what *)
(* is left when changes overlap under READ COMMITTED: the value moved was  *)
(* the latest at some time, perhaps not at the end.                        *)
(***************************************************************************)
EXTENDS Sequences

CONSTANTS Values, None, Serial

VARIABLES
    endless,  \* nothing is ever forgotten
    latest,   \* the current value, or None
    history,  \* the values of versions 1, 2, ...
    seen      \* every value that has been the latest

vars == <<endless, latest, history, seen>>

Init == endless \in BOOLEAN /\ latest = None /\ history = <<>> /\ seen = {}

First(v) == latest = None /\ history' = history

(* What is remembered stays as it was, and only the old value is new.      *)
Replace(v) ==
    /\ latest # None
    /\ Serial => v # latest
    /\ \E old \in IF Serial THEN {latest} ELSE seen :
         /\ endless => history' = Append(history, old)
         /\ \A n \in DOMAIN history' :
              history'[n] = IF n \in DOMAIN history THEN history[n] ELSE old

Add(v) ==
    /\ First(v) \/ Replace(v)
    /\ latest' = v
    /\ seen' = seen \cup {v}
    /\ UNCHANGED endless

Next == \E v \in Values : Add(v)

Spec == Init /\ [][Next]_vars
=============================================================================
