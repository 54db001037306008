------------------------------- MODULE Lists --------------------------------
(* Filtering a list, as a stream filter of Java or Array.filter does.      *)
EXTENDS Integers, Sequences

(* The entries of a list that are in a set, in their order.                *)
Only(list, S) ==
    LET kept[i \in 0 .. Len(list)] ==
            IF i = 0 THEN <<>>
            ELSE IF list[i] \in S THEN Append(kept[i - 1], list[i]) ELSE kept[i - 1]
    IN  kept[Len(list)]
=============================================================================
