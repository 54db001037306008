---------------------------- MODULE ReplayedView ----------------------------
(***************************************************************************)
(* What the derived stores promise (docs/what/graph.md): a view of a log   *)
(* that maps every key to the value of the entry that was read last for    *)
(* it.  The reader may go back and read again what it has read.            *)
(***************************************************************************)
EXTENDS Integers, Sequences

CONSTANTS
    Keys,
    Unset     \* the value of a key nothing was read for

VARIABLES
    log,    \* sequence of entries [key, keep, value]
    read,   \* entries read so far
    view,
    lossy   \* an entry was skipped

Init == log = <<>> /\ read = 0 /\ lossy = FALSE /\ view = [k \in Keys |-> Unset]

Write ==
    /\ Len(log') = Len(log) + 1
    /\ SubSeq(log', 1, Len(log)) = log
    /\ UNCHANGED <<read, view, lossy>>

(* An entry that says "keep" leaves the view as it is.                     *)
Read ==
    /\ read < Len(log)
    /\ read' = read + 1
    /\ LET entry == log[read + 1] IN
         view' = IF entry.keep THEN view ELSE [view EXCEPT ![entry.key] = entry.value]
    /\ UNCHANGED <<log, lossy>>

Skip == read < Len(log) /\ read' = read + 1 /\ lossy' = TRUE /\ UNCHANGED <<log, view>>

GoBack == read' \in 0 .. read /\ UNCHANGED <<log, view, lossy>>

Next == Write \/ Read \/ Skip \/ GoBack

Spec == Init /\ [][Next]_<<log, read, view, lossy>>
=============================================================================
