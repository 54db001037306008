------------------------------ MODULE NumericId -----------------------------
(***************************************************************************)
(* EbeanLocalDAO.newNumericId: request threads draw ids from the rows of   *)
(* metadata_id of one namespace.  A call reads the largest id, inserts a   *)
(* row with the next one and commits; the unique constraint on             *)
(* (namespace, id) is all that keeps two calls apart.                      *)
(***************************************************************************)
EXTENDS Integers, Sequences

CONSTANTS
    Threads,              \* request threads of the server
    MaxRetry,             \* maxTransactionRetry
    IdFaults,               \* the faults the environment may inject
    MaxIdFaults, MaxCalls   \* bounds of the model

ASSUME NumericIdAssumption ==
    /\ IdFaults \subseteq {"rollback", "ackLost"}
    /\ {MaxRetry, MaxIdFaults, MaxCalls} \subseteq Nat

VARIABLES
    ids,       \* committed ids
    held,      \* the id a thread has inserted and not committed, or 0
    pc,        \* the next statement of each thread
    call,      \* local variables of each call
    returned,  \* ghost: ids in the order they were returned
    used       \* ghost: calls and faults so far

idVars == <<ids, held, pc, call, returned, used>>

Greatest(S) == IF S = {} THEN 0 ELSE CHOOSE n \in S : \A m \in S : m <= n

IdleCall == [id |-> 0, retry |-> 0, above |-> 0, stored |-> 0, failed |-> FALSE]
Goto(t, label) == pc' = [pc EXCEPT ![t] = label]

IdInit ==
    /\ ids = {}
    /\ held = [t \in Threads |-> 0]
    /\ pc = [t \in Threads |-> "idle"]
    /\ call = [t \in Threads |-> IdleCall]
    /\ returned = <<>>
    /\ used = [calls |-> 0, faults |-> 0]

ReturnedIds == {returned[i].id : i \in DOMAIN returned}

(* "above" and "stored" are ghosts: the largest id returned, and the       *)
(* largest id stored, when the call began.                                 *)
Begin(t) ==
    /\ pc[t] = "idle" /\ used.calls < MaxCalls
    /\ call' = [call EXCEPT ![t] =
          [IdleCall EXCEPT !.above = Greatest(ReturnedIds), !.stored = Greatest(ids)]]
    /\ used' = [used EXCEPT !.calls = @ + 1]
    /\ Goto(t, "find")
    /\ UNCHANGED <<ids, held, returned>>

(* find: the largest committed id, plus one.                               *)
Find(t) ==
    /\ pc[t] = "find"
    /\ call' = [call EXCEPT ![t].id = Greatest(ids) + 1]
    /\ Goto(t, "insert")
    /\ UNCHANGED <<ids, held, returned, used>>

(* A rolled back transaction starts again from the find, MaxRetry times.   *)
Retry(t) ==
    /\ held' = [held EXCEPT ![t] = 0]
    /\ call' = [call EXCEPT ![t].retry = @ + 1, ![t].failed = call[t].retry + 1 > MaxRetry]
    /\ Goto(t, IF call[t].retry + 1 > MaxRetry THEN "idle" ELSE "find")

\* Mutant: no unique constraint.
InsertAlways(t) ==
    /\ pc[t] = "insert"
    /\ held' = [held EXCEPT ![t] = call[t].id] /\ Goto(t, "commit") /\ UNCHANGED call
    /\ UNCHANGED <<ids, returned, used>>

(* insert waits for a transaction that holds the same key; then the key is *)
(* taken (DuplicateKeyException) or free.                                  *)
Insert(t) ==
    /\ pc[t] = "insert"
    /\ \A s \in Threads \ {t} : held[s] # call[t].id
    /\ \/ call[t].id \in ids /\ Retry(t)
       \/ /\ call[t].id \notin ids
          /\ held' = [held EXCEPT ![t] = call[t].id]
          /\ Goto(t, "commit")
          /\ UNCHANGED call
    /\ UNCHANGED <<ids, returned, used>>

Commit(t) ==
    /\ pc[t] = "commit"
    /\ ids' = ids \cup {held[t]}
    /\ held' = [held EXCEPT ![t] = 0]
    /\ returned' = Append(returned, [id |-> held[t], above |-> call[t].above])
    /\ Goto(t, "idle")
    /\ UNCHANGED <<call, used>>

IdFault(kind) ==
    /\ kind \in IdFaults /\ used.faults < MaxIdFaults
    /\ used' = [used EXCEPT !.faults = @ + 1]

(* The database refuses the commit (RollbackException).                    *)
CommitFails(t) ==
    /\ IdFault("rollback")
    /\ pc[t] = "commit"
    /\ Retry(t)
    /\ UNCHANGED <<ids, returned>>

(* The commit succeeds and its answer is lost: the call tries again.       *)
CommitAckLost(t) ==
    /\ IdFault("ackLost")
    /\ pc[t] = "commit"
    /\ ids' = ids \cup {held[t]}
    /\ Retry(t)
    /\ UNCHANGED returned

IdNext == \E t \in Threads :
    Begin(t) \/ Find(t) \/ Insert(t) \/ Commit(t) \/ CommitFails(t) \/ CommitAckLost(t)

IdSpec == IdInit /\ [][IdNext]_idVars
-----------------------------------------------------------------------------
Call == [id : Nat, retry : Nat, above : Nat, stored : Nat, failed : BOOLEAN]
Labels == {"idle", "find", "insert", "commit"}

(* Local variables and ghosts have their types.                            *)
IdTypeOK ==
    /\ ids \in SUBSET (Nat \ {0})
    /\ held \in [Threads -> Nat]
    /\ pc \in [Threads -> Labels]
    /\ call \in [Threads -> Call]
    /\ returned \in Seq([id : Nat, above : Nat])
    /\ used \in [calls : Nat, faults : Nat]

(* No id is given out twice, although two calls may read the same largest  *)
(* id, wait for each other and try again.                                  *)
IdsAreUnique ==
    \A i, j \in DOMAIN returned : returned[i].id = returned[j].id => i = j

(* "guaranteed to increase monotonically within the given namespace": an   *)
(* id is larger than every id that was returned before its call began.     *)
IdsIncrease == \A i \in DOMAIN returned : returned[i].id > returned[i].above

(* The table has no gap: its ids are 1 to the largest one, also when an    *)
(* answer was lost and its id was never returned.                          *)
IdsAreDense == \A n \in ids : \A m \in 1 .. n : m \in ids

(* A call gives up only when every one of its attempts met a committed     *)
(* rival or a database error.                                              *)
FailureNeedsRivals ==
    \A t \in Threads : call[t].failed =>
        Greatest(ids) - call[t].stored + used.faults > MaxRetry

(* The contract of newNumericId as a whole: ids never repeat, never go     *)
(* down and leave no gap, and only rivals and faults make a call fail.     *)
IdsAreInOrder == IdsAreUnique /\ IdsIncrease /\ IdsAreDense /\ FailureNeedsRivals
=============================================================================
