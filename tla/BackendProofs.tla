---------------------------- MODULE BackendProofs ---------------------------
(***************************************************************************)
(* Proofs about three parts of the backend, for any values of their        *)
(* constants: the ids of newNumericId, the graph writer, the MCE consumer  *)
(* with GMS, and that each keeps its types while the others rest.          *)
(***************************************************************************)
EXTENDS MCBackend, Foundations, SequenceTheorems

-----------------------------------------------------------------------------
(***************************************************************************)
(* The ids of newNumericId are unique, increasing and without a gap, for   *)
(* any set of threads and any number of calls, retries and faults.  The    *)
(* table always holds 1 .. Top, and only one transaction can hold the next *)
(* id, Top + 1.                                                            *)
(***************************************************************************)

Top == Greatest(ids)

TableInv == Top \in Nat /\ ids = 1 .. Top

ThreadInv(t) ==
    /\ call[t].above <= Top
    /\ call[t].stored <= Top
    /\ call[t].retry <= Top - call[t].stored + used.faults
    /\ call[t].failed => call[t].retry > MaxRetry
    /\ pc[t] = "insert" =>
          /\ call[t].id \in 1 .. Top + 1
          /\ call[t].retry <= call[t].id - 1 - call[t].stored + used.faults
    /\ held[t] = IF pc[t] = "commit" THEN Top + 1 ELSE 0

OneHolder == \A s, t \in Threads : pc[s] = "commit" /\ pc[t] = "commit" => s = t

ReturnedInv ==
    /\ \A i \in DOMAIN returned : returned[i].id \in ids
    /\ IdsAreUnique
    /\ IdsIncrease

IdInv ==
    /\ IdTypeOK
    /\ TableInv
    /\ \A t \in Threads : ThreadInv(t)
    /\ OneHolder
    /\ ReturnedInv

(* Greatest finds the greatest element of a bounded set.                   *)
LEMMA GreatestIsIn ==
    ASSUME NEW n \in Nat, NEW S \in SUBSET (1 .. n)
    PROVE  Greatest(S) \in 0 .. n
<1>1. CASE S = {}
  BY <1>1 DEF Greatest
<1>2. CASE S # {}
  <2>1. \E i \in S : \A j \in S : j <= i
    BY <1>2, LastPosition
  <2>2. Greatest(S) \in S
    BY <1>2, <2>1 DEF Greatest
  <2>3. Greatest(S) \in 1 .. n
    BY <2>2
  <2> QED
    BY <2>3
<1> QED
  BY <1>1, <1>2

(* The greatest element of 1 .. n is n.                                    *)
LEMMA GreatestOfInterval == ASSUME NEW n \in Nat PROVE Greatest(1 .. n) = n
<1>1. CASE n = 0
  BY <1>1 DEF Greatest
<1>2. CASE n # 0
  <2>1. n \in 1 .. n /\ \A m \in 1 .. n : m <= n
    BY <1>2
  <2>2. \E k \in 1 .. n : \A m \in 1 .. n : m <= k
    BY <2>1
  <2>3. 1 .. n # {} /\ Greatest(1 .. n) \in 1 .. n
          /\ \A m \in 1 .. n : m <= Greatest(1 .. n)
    BY <2>1, <2>2 DEF Greatest
  <2> QED
    BY <2>1, <2>3
<1> QED
  BY <1>1, <1>2

(* A commit of the next id makes it the greatest.                          *)
LEMMA TopGrows ==
    ASSUME TableInv, ids' = ids \cup {Top + 1}
    PROVE  TableInv' /\ Top' = Top + 1
<1> DEFINE n == Top + 1
<1>1. n \in Nat /\ ids' = 1 .. n
  BY DEF TableInv
<1> HIDE DEF n
<1>2. Greatest(ids') = n
  BY <1>1, GreatestOfInterval
<1> QED
  BY <1>1, <1>2 DEF TableInv, Top, n

(* The numbers an invariant state is made of.                              *)
LEMMA Numbers ==
    ASSUME IdInv
    PROVE  /\ Top \in Nat /\ ids = 1 .. Top
           /\ used \in [calls : Nat, faults : Nat]
           /\ used.faults \in Nat /\ used.calls \in Nat /\ MaxRetry \in Nat
           /\ \A t \in Threads :
                /\ call[t] \in Call /\ call[t].id \in Nat /\ call[t].retry \in Nat
                /\ call[t].above \in Nat /\ call[t].stored \in Nat
                /\ call[t].failed \in BOOLEAN /\ held[t] \in Nat
<1>1. used \in [calls : Nat, faults : Nat]
  BY DEF IdInv, IdTypeOK
<1>2. \A t \in Threads : call[t] \in Call /\ held[t] \in Nat
  BY DEF IdInv, IdTypeOK
<1>3. \A c \in Call : /\ c.id \in Nat /\ c.retry \in Nat /\ c.above \in Nat
                      /\ c.stored \in Nat /\ c.failed \in BOOLEAN
  BY DEF Call
<1>4. MaxRetry \in Nat
  BY NumericIdAssumption
<1>5. used.faults \in Nat /\ used.calls \in Nat
  BY <1>1
<1> QED
  BY <1>1, <1>2, <1>3, <1>4, <1>5 DEF IdInv, TableInv

(* A thread that makes no step keeps its invariant while the table and the *)
(* faults grow, as long as the table stays while it holds an id.           *)
LEMMA OthersKeep ==
    ASSUME IdInv, IdTypeOK', NEW s \in Threads,
           call'[s] = call[s], pc'[s] = pc[s], held'[s] = held[s],
           Top' \in Nat, Top <= Top', used.faults <= used'.faults,
           pc[s] = "commit" => Top' = Top
    PROVE  ThreadInv(s)'
<1> DEFINE c == call[s]
           f == used.faults
           g == used'.faults
<1>1. /\ c.above \in Nat /\ c.stored \in Nat /\ c.retry \in Nat /\ c.id \in Nat
      /\ f \in Nat /\ g \in Nat /\ Top \in Nat /\ ThreadInv(s)
  <2>1. used' \in [calls : Nat, faults : Nat]
    BY DEF IdTypeOK
  <2>2. g \in Nat
    BY <2>1
  <2> QED
    BY <2>2, Numbers DEF IdInv
<1> DEFINE a == c.above
           b == c.stored
           r == c.retry
           i == c.id
           m == Top
           n == Top'
<1>2. a <= m /\ b <= m /\ r <= m - b + f
  BY <1>1 DEF ThreadInv
<1>3. pc[s] = "insert" => i \in 1 .. m + 1 /\ r <= i - 1 - b + f
  BY <1>1 DEF ThreadInv
<1>4. m <= n /\ f <= g /\ n \in Nat
  OBVIOUS
<1> HIDE DEF a, b, r, i, m, n, f, g
<1>5. a <= n /\ b <= n /\ r <= n - b + g
  BY <1>1, <1>2, <1>4 DEF a, b, r, i, m
<1>6. pc[s] = "insert" => i \in 1 .. n + 1 /\ r <= i - 1 - b + g
  BY <1>1, <1>3, <1>4 DEF a, b, r, i, m
<1>7. held[s] = IF pc[s] = "commit" THEN n + 1 ELSE 0
  BY <1>1 DEF ThreadInv, m, n
<1>8. c.failed => c.retry > MaxRetry
  BY <1>1 DEF ThreadInv
<1> QED
  BY <1>5, <1>6, <1>7, <1>8 DEF ThreadInv, a, b, r, i, n, g

-----------------------------------------------------------------------------
(* What a retry does to the types and to the thread that retries.          *)
LEMMA RetryStep ==
    ASSUME IdInv, NEW t \in Threads, pc[t] \in {"insert", "commit"}, Retry(t),
           NEW top \in Nat, Top <= top, NEW f \in Nat, used.faults <= f,
           call[t].retry + 1 <= top - call[t].stored + f
    PROVE  /\ held' \in [Threads -> Nat]
           /\ pc' \in [Threads -> Labels]
           /\ call' \in [Threads -> Call]
           /\ held'[t] = 0 /\ pc'[t] \in {"idle", "find"}
           /\ call'[t].above <= top /\ call'[t].stored <= top
           /\ call'[t].retry <= top - call'[t].stored + f
           /\ call'[t].failed => call'[t].retry > MaxRetry
           /\ \A s \in Threads \ {t} :
                held'[s] = held[s] /\ pc'[s] = pc[s] /\ call'[s] = call[s]
<1> DEFINE c == call[t]
           r == c.retry + 1
           d == [c EXCEPT !.retry = r, !.failed = r > MaxRetry]
<1>1. c \in Call /\ MaxRetry \in Nat /\ c.above \in Nat /\ c.stored \in Nat /\ c.retry \in Nat
  BY Numbers
<1>2. d \in Call /\ d.above = c.above /\ d.stored = c.stored /\ d.retry = r
      /\ (d.failed => r > MaxRetry)
  <2> DEFINE over == r > MaxRetry
  <2>1. r \in Nat /\ over \in BOOLEAN
    BY <1>1 DEF Call
  <2> HIDE DEF r, over, c
  <2>2. d \in Call /\ d.above = c.above /\ d.stored = c.stored /\ d.retry = r
        /\ (d.failed => over)
    BY <1>1, <2>1 DEF Call, over
  <2> QED
    BY <2>2 DEF over
<1>3. call' = [call EXCEPT ![t] = d]
  BY DEF Retry
<1>4. c.above <= Top /\ c.stored <= Top /\ Top \in Nat
  BY DEF IdInv, ThreadInv, TableInv
<1>5. c.above <= top /\ c.stored <= top
  <2> DEFINE a == c.above
             b == c.stored
             m == Top
  <2>1. a \in Nat /\ b \in Nat /\ m \in Nat /\ a <= m /\ b <= m /\ m <= top
    BY <1>1, <1>4
  <2> HIDE DEF a, b, m
  <2>2. a <= top /\ b <= top
    BY <2>1
  <2> QED
    BY <2>2 DEF a, b
<1>6. call \in [Threads -> Call] /\ held \in [Threads -> Nat]
      /\ pc \in [Threads -> Labels]
  BY DEF IdInv, IdTypeOK
<1>7. r <= top - c.stored + f
  OBVIOUS
<1> HIDE DEF d, r, c
<1>8. call' \in [Threads -> Call] /\ call'[t] = d
      /\ \A s \in Threads \ {t} : call'[s] = call[s]
  BY <1>2, <1>3, <1>6
<1>9. /\ held' \in [Threads -> Nat] /\ held'[t] = 0
      /\ pc' \in [Threads -> Labels]
      /\ pc'[t] \in {"idle", "find"}
      /\ \A s \in Threads \ {t} : held'[s] = held[s] /\ pc'[s] = pc[s]
  <2> DEFINE label == IF call[t].retry + 1 > MaxRetry THEN "idle" ELSE "find"
  <2>1. label \in {"idle", "find"}
    OBVIOUS
  <2>2. held' = [held EXCEPT ![t] = 0] /\ pc' = [pc EXCEPT ![t] = label]
    BY DEF Retry, Goto
  <2> HIDE DEF label
  <2> QED
    BY <1>6, <2>1, <2>2 DEF Labels
<1> QED
  BY <1>2, <1>5, <1>7, <1>8, <1>9

(* An action of one thread that keeps the table: what is left to show is   *)
(* the thread itself.                                                      *)
LEMMA OneThread ==
    ASSUME IdInv, IdTypeOK', NEW t \in Threads, ThreadInv(t)',
           UNCHANGED <<ids, returned>>, used.faults <= used'.faults,
           pc'[t] = "commit" => \A s \in Threads \ {t} : pc[s] # "commit",
           \A s \in Threads \ {t} :
              held'[s] = held[s] /\ pc'[s] = pc[s] /\ call'[s] = call[s]
    PROVE  IdInv'
<1>1. Top' = Top /\ TableInv'
  BY DEF Top, TableInv, IdInv
<1>2. \A s \in Threads \ {t} : ThreadInv(s)'
  BY <1>1, OthersKeep DEF TableInv, IdInv
<1>3. OneHolder'
  BY DEF IdInv, OneHolder
<1>4. ReturnedInv'
  BY DEF IdInv, ReturnedInv, IdsAreUnique, IdsIncrease
<1> QED
  BY <1>1, <1>2, <1>3, <1>4 DEF IdInv

(* A step of one thread that commits the id it holds, without or with its  *)
(* answer.                                                                 *)
LEMMA OneCommit ==
    ASSUME IdInv, IdTypeOK', NEW t \in Threads, ThreadInv(t)', ReturnedInv',
           pc[t] = "commit", pc'[t] # "commit", ids' = ids \cup {held[t]},
           used.faults <= used'.faults,
           \A s \in Threads \ {t} :
              held'[s] = held[s] /\ pc'[s] = pc[s] /\ call'[s] = call[s]
    PROVE  IdInv'
<1>1. held[t] = Top + 1
  BY DEF IdInv, ThreadInv
<1>2. TableInv' /\ Top' = Top + 1
  BY <1>1, TopGrows DEF IdInv
<1>3. \A s \in Threads \ {t} : pc[s] # "commit"
  BY DEF IdInv, OneHolder
<1>4. Top' \in Nat /\ Top <= Top'
  BY <1>2 DEF TableInv, IdInv
<1>5. \A s \in Threads \ {t} : ThreadInv(s)'
  BY <1>3, <1>4, OthersKeep
<1>6. OneHolder'
  BY <1>3 DEF OneHolder
<1> QED
  BY <1>2, <1>5, <1>6 DEF IdInv

LEMMA BeginStep == ASSUME IdInv, NEW t \in Threads, Begin(t) PROVE IdInv'
<1> DEFINE a == Greatest(ReturnedIds)
           c == [IdleCall EXCEPT !.above = a, !.stored = Top]
<1>1. Top \in Nat /\ used.faults \in Nat /\ used.calls \in Nat
      /\ used \in [calls : Nat, faults : Nat]
  BY Numbers
<1>2. ReturnedIds \in SUBSET (1 .. Top)
  BY DEF IdInv, ReturnedInv, TableInv, ReturnedIds
<1>3. a \in 0 .. Top
  BY <1>1, <1>2, GreatestIsIn
<1> HIDE DEF a
<1>4. c \in Call /\ c.above = a /\ c.stored = Top /\ c.retry = 0 /\ c.failed = FALSE
  <2> DEFINE m == Top
  <2>1. a \in Nat /\ m \in Nat
    BY <1>1, <1>3
  <2> HIDE DEF m
  <2>2. /\ IdleCall \in Call /\ IdleCall.retry = 0 /\ IdleCall.failed = FALSE
    BY DEF IdleCall, Call
  <2>3. c = [IdleCall EXCEPT !.above = a, !.stored = m]
    BY DEF m
  <2> HIDE DEF c
  <2>4. c \in Call /\ c.above = a /\ c.stored = m /\ c.retry = 0 /\ c.failed = FALSE
    BY <2>1, <2>2, <2>3 DEF Call
  <2> QED
    BY <2>4 DEF m
<1>5. call' = [call EXCEPT ![t] = c]
  BY DEF Begin, Top, a
<1> HIDE DEF c
<1>6. IdTypeOK'
  <2>1. call' \in [Threads -> Call]
    BY <1>4, <1>5 DEF IdInv, IdTypeOK
  <2>2. pc' \in [Threads -> Labels]
    BY DEF IdInv, IdTypeOK, Begin, Goto, Labels
  <2>3. used' \in [calls : Nat, faults : Nat]
    BY <1>1 DEF Begin
  <2> QED
    BY <2>1, <2>2, <2>3 DEF IdInv, IdTypeOK, Begin
<1>7. call'[t] = c /\ pc'[t] = "find" /\ held'[t] = held[t] /\ Top' = Top
      /\ used'.faults = used.faults
  BY <1>5 DEF IdInv, IdTypeOK, Begin, Goto, Top
<1>8. ThreadInv(t)'
  <2>1. held[t] = 0
    BY DEF IdInv, ThreadInv, Begin
  <2> QED
    BY <1>1, <1>3, <1>4, <1>7, <2>1 DEF ThreadInv
<1>9. \A s \in Threads \ {t} : held'[s] = held[s] /\ pc'[s] = pc[s] /\ call'[s] = call[s]
  BY DEF IdInv, IdTypeOK, Begin, Goto
<1> QED
  BY <1>1, <1>6, <1>7, <1>8, <1>9, OneThread DEF Begin

LEMMA FindStep == ASSUME IdInv, NEW t \in Threads, Find(t) PROVE IdInv'
<1> DEFINE n == Top + 1
           c == [call[t] EXCEPT !.id = n]
<1>1. Top \in Nat /\ used.faults \in Nat /\ call[t] \in Call /\ n \in Nat
  BY Numbers
<1>2. c \in Call /\ c.above = call[t].above /\ c.stored = call[t].stored /\ c.id = n
      /\ c.retry = call[t].retry /\ c.failed = call[t].failed
  <2> HIDE DEF n
  <2> QED
    BY <1>1 DEF Call
<1>3. call' = [call EXCEPT ![t] = c]
  BY DEF Find, Top
<1> HIDE DEF c
<1>4. IdTypeOK'
  <2>1. call' \in [Threads -> Call]
    BY <1>2, <1>3 DEF IdInv, IdTypeOK
  <2>2. pc' \in [Threads -> Labels]
    BY DEF IdInv, IdTypeOK, Find, Goto, Labels
  <2> QED
    BY <2>1, <2>2 DEF IdInv, IdTypeOK, Find
<1>5. call'[t] = c /\ pc'[t] = "insert" /\ held'[t] = held[t] /\ Top' = Top
      /\ used'.faults = used.faults
  BY <1>3 DEF IdInv, IdTypeOK, Find, Goto, Top
<1>6. ThreadInv(t)'
  <2>1. held[t] = 0 /\ ThreadInv(t)
    BY DEF IdInv, ThreadInv, Find
  <2>2. n - 1 = Top /\ n \in 1 .. Top + 1
    BY <1>1
  <2> HIDE DEF n
  <2> QED
    BY <1>1, <1>2, <1>5, <2>1, <2>2 DEF ThreadInv
<1>7. \A s \in Threads \ {t} : held'[s] = held[s] /\ pc'[s] = pc[s] /\ call'[s] = call[s]
  BY DEF IdInv, IdTypeOK, Find, Goto
<1> QED
  BY <1>1, <1>4, <1>5, <1>6, <1>7, OneThread DEF Find

LEMMA InsertStep == ASSUME IdInv, NEW t \in Threads, Insert(t) PROVE IdInv'
<1> DEFINE c == call[t]
<1>1. Top \in Nat /\ ids = 1 .. Top /\ used.faults \in Nat /\ c.retry \in Nat
      /\ c.stored \in Nat /\ c.id \in Nat
  BY Numbers
<1>2. pc[t] = "insert" /\ UNCHANGED <<ids, returned, used>>
  BY DEF Insert
<1>3. c.id \in 1 .. Top + 1 /\ c.retry <= c.id - 1 - c.stored + used.faults
  BY <1>2 DEF IdInv, ThreadInv
<1>4. Top' = Top
  BY <1>2 DEF Top
<1>5. CASE c.id \in ids /\ Retry(t)
  <2>1. c.retry + 1 <= Top - c.stored + used.faults
    <3> DEFINE a == c.id
               b == c.stored
               r == c.retry
               f == used.faults
               m == Top
    <3>1. a \in 1 .. m /\ r <= a - 1 - b + f /\ b \in Nat /\ r \in Nat /\ f \in Nat /\ m \in Nat
      BY <1>1, <1>3, <1>5
    <3> HIDE DEF a, b, r, f, m
    <3>2. r + 1 <= m - b + f
      BY <3>1
    <3> QED
      BY <3>2 DEF b, r, f, m
  <2>2. /\ held' \in [Threads -> Nat]
        /\ pc' \in [Threads -> Labels]
        /\ call' \in [Threads -> Call]
        /\ held'[t] = 0 /\ pc'[t] \in {"idle", "find"}
        /\ call'[t].above <= Top /\ call'[t].stored <= Top
        /\ call'[t].retry <= Top - call'[t].stored + used.faults
        /\ call'[t].failed => call'[t].retry > MaxRetry
        /\ \A s \in Threads \ {t} :
             held'[s] = held[s] /\ pc'[s] = pc[s] /\ call'[s] = call[s]
    <3> DEFINE m == Top
               f == used.faults
    <3>1. m \in Nat /\ Top <= m /\ f \in Nat /\ used.faults <= f
          /\ call[t].retry + 1 <= m - call[t].stored + f
      BY <1>1, <2>1
    <3>2. pc[t] \in {"insert", "commit"} /\ Retry(t)
      BY <1>2, <1>5
    <3> HIDE DEF m, f
    <3>3. /\ held' \in [Threads -> Nat]
          /\ pc' \in [Threads -> Labels]
          /\ call' \in [Threads -> Call]
          /\ held'[t] = 0 /\ pc'[t] \in {"idle", "find"}
          /\ call'[t].above <= m /\ call'[t].stored <= m
          /\ call'[t].retry <= m - call'[t].stored + f
          /\ call'[t].failed => call'[t].retry > MaxRetry
          /\ \A s \in Threads \ {t} :
               held'[s] = held[s] /\ pc'[s] = pc[s] /\ call'[s] = call[s]
      BY <3>1, <3>2, RetryStep
    <3> QED
      BY <3>3 DEF m, f
  <2>3. IdTypeOK'
    BY <1>2, <2>2 DEF IdInv, IdTypeOK
  <2>4. ThreadInv(t)'
    BY <1>2, <1>4, <2>2 DEF ThreadInv
  <2> QED
    BY <1>1, <1>2, <2>2, <2>3, <2>4, OneThread
<1>6. CASE /\ c.id \notin ids
           /\ held' = [held EXCEPT ![t] = c.id]
           /\ Goto(t, "commit")
           /\ UNCHANGED call
  <2>1. c.id = Top + 1
    BY <1>1, <1>3, <1>6
  <2>2. IdTypeOK'
    <3>1. held' \in [Threads -> Nat] /\ pc' \in [Threads -> Labels]
      BY <1>1, <1>6 DEF IdInv, IdTypeOK, Goto, Labels
    <3> QED
      BY <1>2, <1>6, <3>1 DEF IdInv, IdTypeOK
  <2>3. pc'[t] = "commit" /\ held'[t] = Top + 1 /\ call'[t] = call[t]
    BY <1>6, <2>1 DEF IdInv, IdTypeOK, Goto
  <2>4. ThreadInv(t)'
    BY <1>2, <1>4, <2>3 DEF ThreadInv, IdInv
  <2>5. \A s \in Threads \ {t} : pc[s] # "commit"
    BY <2>1 DEF IdInv, ThreadInv, Insert
  <2>6. \A s \in Threads \ {t} : held'[s] = held[s] /\ pc'[s] = pc[s] /\ call'[s] = call[s]
    BY <1>6 DEF IdInv, IdTypeOK, Goto
  <2> QED
    BY <1>1, <1>2, <2>2, <2>4, <2>5, <2>6, OneThread
<1> QED
  BY <1>5, <1>6 DEF Insert

LEMMA CommitStep == ASSUME IdInv, NEW t \in Threads, Commit(t) PROVE IdInv'
<1> DEFINE entry == [id |-> held[t], above |-> call[t].above]
<1>1. /\ Top \in Nat /\ ids = 1 .. Top /\ used.faults \in Nat
      /\ call[t].above \in Nat /\ held[t] \in Nat /\ call[t].stored \in Nat /\ call[t].retry \in Nat
      /\ returned \in Seq([id : Nat, above : Nat])
  BY Numbers DEF IdInv, IdTypeOK
<1>2. held[t] = Top + 1 /\ call[t].above <= Top
  BY DEF Commit, IdInv, ThreadInv
<1>3. ids' = ids \cup {Top + 1} /\ returned' = Append(returned, entry)
      /\ UNCHANGED <<call, used>>
  BY <1>2 DEF Commit
<1>4. TableInv' /\ Top' = Top + 1
  BY <1>3, TopGrows DEF IdInv
<1>5. entry \in [id : Nat, above : Nat] /\ entry.id = Top + 1 /\ entry.above <= Top
  BY <1>1, <1>2
<1> HIDE DEF entry
<1>6. returned' \in Seq([id : Nat, above : Nat])
  BY <1>1, <1>3, <1>5
<1>7. IdTypeOK'
  <2>1. ids' \in SUBSET (Nat \ {0})
    BY <1>1, <1>3
  <2>2. held' \in [Threads -> Nat] /\ pc' \in [Threads -> Labels]
    BY DEF IdInv, IdTypeOK, Commit, Goto, Labels
  <2> QED
    BY <1>3, <1>6, <2>1, <2>2 DEF IdInv, IdTypeOK
<1>8. ThreadInv(t)'
  <2>1. pc'[t] = "idle" /\ held'[t] = 0
    BY DEF IdInv, IdTypeOK, Commit, Goto
  <2>2. ThreadInv(t)
    BY DEF IdInv
  <2> DEFINE a == call[t].above
             b == call[t].stored
             r == call[t].retry
             f == used.faults
             m == Top
  <2>3. a <= m /\ b <= m /\ r <= m - b + f
    BY <2>2 DEF ThreadInv
  <2>4. a \in Nat /\ b \in Nat /\ r \in Nat /\ f \in Nat /\ m \in Nat
    BY <1>1
  <2> HIDE DEF a, b, r, f, m
  <2>5. a <= m + 1 /\ b <= m + 1 /\ r <= m + 1 - b + f
    BY <2>3, <2>4
  <2>6. call[t].failed => call[t].retry > MaxRetry
    BY <2>2 DEF ThreadInv
  <2>7. /\ call'[t].above <= Top' /\ call'[t].stored <= Top'
        /\ call'[t].retry <= Top' - call'[t].stored + used'.faults
    <3>1. call' = call /\ Top' = m + 1 /\ used'.faults = f
      BY <1>3, <1>4 DEF m, f
    <3>2. call'[t].above = a /\ call'[t].stored = b /\ call'[t].retry = r
      BY <3>1 DEF a, b, r
    <3> DEFINE n == Top'
               a2 == call'[t].above
               b2 == call'[t].stored
               r2 == call'[t].retry
               f2 == used'.faults
    <3>3. n = m + 1 /\ a2 = a /\ b2 = b /\ r2 = r /\ f2 = f
      BY <3>1, <3>2
    <3> HIDE DEF n, a2, b2, r2, f2
    <3>4. a2 <= n /\ b2 <= n /\ r2 <= n - b2 + f2
      BY <2>4, <2>5, <3>3
    <3> QED
      BY <3>4 DEF n, a2, b2, r2, f2
  <2> QED
    BY <1>3, <2>1, <2>6, <2>7 DEF ThreadInv
<1>9. ReturnedInv'
  <2>1. \A i \in DOMAIN returned : returned[i].id \in 1 .. Top
    BY <1>1 DEF IdInv, ReturnedInv
  <2>2. /\ DOMAIN returned' = DOMAIN returned \cup {Len(returned) + 1}
        /\ \A i \in DOMAIN returned : returned'[i] = returned[i]
        /\ returned'[Len(returned) + 1] = entry
        /\ Len(returned) + 1 \notin DOMAIN returned
    BY <1>1, <1>3
  <2>3. \A i \in DOMAIN returned : returned[i].id # entry.id
    BY <1>1, <1>5, <2>1
  <2>4. IdsAreUnique'
    BY <2>2, <2>3 DEF IdsAreUnique, IdInv, ReturnedInv
  <2>5. entry.id > entry.above
    <3>1. entry.above \in Nat
      BY <1>5
    <3> QED
      BY <1>1, <1>5, <3>1
  <2>6. IdsIncrease'
    BY <2>2, <2>5 DEF IdsIncrease, IdInv, ReturnedInv
  <2>7. \A i \in DOMAIN returned' : returned'[i].id \in ids'
    BY <1>1, <1>3, <1>5, <2>1, <2>2
  <2> QED
    BY <2>4, <2>6, <2>7 DEF ReturnedInv
<1>10. /\ pc[t] = "commit" /\ pc'[t] # "commit" /\ ids' = ids \cup {held[t]}
       /\ \A s \in Threads \ {t} : held'[s] = held[s] /\ pc'[s] = pc[s] /\ call'[s] = call[s]
  BY DEF IdInv, IdTypeOK, Commit, Goto
<1>11. used.faults <= used'.faults
  <2>1. used' = used
    BY <1>3
  <2> QED
    BY <1>1, <2>1
<1> QED
  BY <1>7, <1>8, <1>9, <1>10, <1>11, OneCommit

(* Both faults: the transaction is tried again, and a fault is counted.    *)
LEMMA FaultStep ==
    ASSUME IdInv, NEW t \in Threads, CommitFails(t) \/ CommitAckLost(t)
    PROVE  IdInv'
<1> DEFINE f == used.faults + 1
           top == IF CommitAckLost(t) THEN Top + 1 ELSE Top
<1>1. /\ Top \in Nat /\ ids = 1 .. Top /\ used.faults \in Nat /\ used.calls \in Nat
      /\ call[t].stored \in Nat /\ call[t].retry \in Nat
      /\ used \in [calls : Nat, faults : Nat]
  BY Numbers
<1>2. /\ pc[t] = "commit" /\ Retry(t) /\ UNCHANGED returned
      /\ used' = [used EXCEPT !.faults = @ + 1]
  BY DEF CommitFails, CommitAckLost, IdFault
<1>3. used'.faults = f /\ used' \in [calls : Nat, faults : Nat] /\ f \in Nat /\ used.faults <= f
  <2>1. f \in Nat /\ used.faults <= f
    BY <1>1
  <2>2. used' = [used EXCEPT !.faults = f]
    BY <1>2
  <2> HIDE DEF f
  <2> QED
    BY <1>1, <2>1, <2>2
<1>4. held[t] = Top + 1
  BY <1>2 DEF IdInv, ThreadInv
<1>5. TableInv' /\ Top' = top /\ (ids' = ids \/ ids' = ids \cup {held[t]}) /\ ids \subseteq ids'
  <2>1. CASE CommitAckLost(t)
    <3>1. ids' = ids \cup {Top + 1}
      BY <1>4, <2>1 DEF CommitAckLost
    <3> QED
      BY <1>4, <2>1, <3>1, TopGrows DEF IdInv
  <2>2. CASE ~CommitAckLost(t)
    <3>1. ids' = ids
      BY <2>2 DEF CommitFails
    <3> QED
      BY <2>2, <3>1 DEF Top, TableInv, IdInv
  <2> QED
    BY <2>1, <2>2
<1>6. top \in Nat /\ Top <= top
  BY <1>1
<1>7. call[t].retry + 1 <= top - call[t].stored + f
  <2>1. call[t].retry <= Top - call[t].stored + used.faults
    BY DEF IdInv, ThreadInv
  <2> DEFINE b == call[t].stored
             r == call[t].retry
             m == Top
             g == used.faults
  <2>2. /\ b \in Nat /\ r \in Nat /\ m \in Nat /\ g \in Nat
        /\ r <= m - b + g /\ f = g + 1 /\ m <= top /\ top \in Nat
    BY <1>1, <1>6, <2>1
  <2> HIDE DEF b, r, m, g, f, top
  <2>3. r + 1 <= top - b + f
    BY <2>2
  <2> QED
    BY <2>3 DEF b, r
<1> HIDE DEF f, top
<1>8. /\ held' \in [Threads -> Nat]
      /\ pc' \in [Threads -> Labels]
      /\ call' \in [Threads -> Call]
      /\ held'[t] = 0 /\ pc'[t] \in {"idle", "find"}
      /\ call'[t].above <= top /\ call'[t].stored <= top
      /\ call'[t].retry <= top - call'[t].stored + f
      /\ call'[t].failed => call'[t].retry > MaxRetry
      /\ \A s \in Threads \ {t} :
           held'[s] = held[s] /\ pc'[s] = pc[s] /\ call'[s] = call[s]
  BY <1>2, <1>3, <1>6, <1>7, RetryStep
<1>9. IdTypeOK'
  <2>1. ids' \in SUBSET (Nat \ {0})
    BY <1>5 DEF TableInv
  <2> QED
    BY <1>2, <1>3, <1>8, <2>1 DEF IdInv, IdTypeOK
<1>10. ThreadInv(t)'
  BY <1>3, <1>5, <1>8 DEF ThreadInv
<1>11. ReturnedInv'
  BY <1>2, <1>5 DEF IdInv, ReturnedInv, IdsAreUnique, IdsIncrease
<1>12. CASE ids' = ids
  BY <1>2, <1>3, <1>8, <1>9, <1>10, <1>12, OneThread
<1>13. CASE ids' = ids \cup {held[t]}
  BY <1>2, <1>3, <1>8, <1>9, <1>10, <1>11, <1>13, OneCommit
<1> QED
  BY <1>5, <1>12, <1>13

LEMMA IdInitInv == IdInit => IdInv
<1> SUFFICES ASSUME IdInit PROVE IdInv
  OBVIOUS
<1>1. ids = 1 .. 0 /\ Greatest(ids) = 0
  BY GreatestOfInterval DEF IdInit
<1>2. IdTypeOK
  <2>1. IdleCall \in Call /\ "idle" \in Labels
    BY DEF IdleCall, Call, Labels
  <2>2. returned \in Seq([id : Nat, above : Nat])
    BY DEF IdInit
  <2>3. used \in [calls : Nat, faults : Nat]
    BY DEF IdInit
  <2> QED
    BY <2>1, <2>2, <2>3 DEF IdInit, IdTypeOK
<1>3. \A t \in Threads : ThreadInv(t)
  <2> TAKE t \in Threads
  <2>1. call[t] = IdleCall /\ pc[t] = "idle" /\ held[t] = 0 /\ Top = 0 /\ used.faults = 0
    BY <1>1 DEF IdInit, Top
  <2>2. /\ IdleCall.above = 0 /\ IdleCall.stored = 0 /\ IdleCall.retry = 0
        /\ IdleCall.failed = FALSE
    BY DEF IdleCall
  <2> QED
    BY <2>1, <2>2 DEF ThreadInv
<1>4. OneHolder /\ ReturnedInv
  BY DEF IdInit, OneHolder, ReturnedInv, IdsAreUnique, IdsIncrease
<1> QED
  BY <1>1, <1>2, <1>3, <1>4 DEF IdInv, TableInv, Top

LEMMA IdInvStep == IdInv /\ [IdNext]_idVars => IdInv'
<1> SUFFICES ASSUME IdInv, [IdNext]_idVars PROVE IdInv'
  OBVIOUS
<1>1. CASE IdNext
  BY <1>1, BeginStep, FindStep, InsertStep, CommitStep, FaultStep DEF IdNext
<1>2. CASE UNCHANGED idVars
  BY <1>2 DEF idVars, IdInv, IdTypeOK, TableInv, Top, ThreadInv, OneHolder, ReturnedInv,
              IdsAreUnique, IdsIncrease
<1> QED
  BY <1>1, <1>2


-----------------------------------------------------------------------------
(* The ids of newNumericId are unique, larger than every id returned       *)
(* before the call, without a gap in the table, and a call gives up only   *)
(* after a rival or a fault for each attempt.                              *)
THEOREM NumericIds ==
    IdSpec => [](IdTypeOK /\ IdsAreInOrder)
<1>1. IdInv => IdTypeOK /\ IdsAreInOrder
  <2> SUFFICES ASSUME IdInv PROVE IdsAreDense /\ FailureNeedsRivals
    BY DEF IdInv, ReturnedInv, IdsAreInOrder
  <2>1. IdsAreDense
    BY DEF IdInv, TableInv, IdsAreDense
  <2>2. FailureNeedsRivals
    <3> SUFFICES ASSUME NEW t \in Threads, call[t].failed
                 PROVE  Top - call[t].stored + used.faults > MaxRetry
      BY DEF FailureNeedsRivals, Top
    <3>1. /\ call[t].retry > MaxRetry
          /\ call[t].retry <= Top - call[t].stored + used.faults
      BY DEF IdInv, ThreadInv
    <3>2. /\ Top \in Nat /\ call[t].stored \in Nat /\ call[t].retry \in Nat
          /\ used.faults \in Nat /\ MaxRetry \in Nat
      BY Numbers
    <3> QED
      BY <3>1, <3>2
  <2> QED
    BY <2>1, <2>2
<1> QED
  BY <1>1, IdInitInv, IdInvStep, PTL DEF IdSpec

-----------------------------------------------------------------------------
(***************************************************************************)
(* The graph writer keeps the graph well formed, for any urns, any         *)
(* relationship classes and any lists of arguments.  The lemmas say it of  *)
(* one operator of GraphStore each; the invariant is the conjunction.      *)
(***************************************************************************)

WellFormed(g) ==
    /\ g \in Graph
    /\ \A e \in g.edges : Exists(g, e.source) /\ Exists(g, e.destination)
    /\ \A e, f \in g.edges : SamePair(e, f) => e = f

(* addNode keeps the graph well formed: it makes nodes and removes none.   *)
LEMMA AddNodesWellFormed ==
    ASSUME NEW g, WellFormed(g), NEW entities \in Seq(Entity)
    PROVE  WellFormed(AddNodes(g, entities))
<1> DEFINE of(u) == {i \in DOMAIN entities : entities[i].urn = u}
           last(u) == CHOOSE i \in of(u) : \A j \in of(u) : j <= i
           node(u) == IF of(u) = {} THEN g.nodes[u] ELSE entities[last(u)].props
<1>1. \A u \in Urns : of(u) # {} => node(u) \in NodeProps
  <2> SUFFICES ASSUME NEW u \in Urns, of(u) # {} PROVE entities[last(u)].props \in NodeProps
    OBVIOUS
  <2>1. of(u) \in SUBSET (1 .. Len(entities)) /\ Len(entities) \in Nat
    OBVIOUS
  <2>2. \E i \in of(u) : \A j \in of(u) : j <= i
    <3> HIDE DEF of
    <3> QED
      BY <2>1, LastPosition
  <2>3. last(u) \in of(u)
    BY <2>2
  <2>4. \A e \in Entity : e.props \in NodeProps
    BY DEF Entity
  <2>5. entities[last(u)] \in Entity
    BY <2>3
  <2> QED
    BY <2>4, <2>5
<1>2. \A u \in Urns : of(u) = {} => node(u) = g.nodes[u]
  OBVIOUS
<1>3. AddNodes(g, entities) = [nodes |-> [u \in Urns |-> node(u)], edges |-> g.edges]
  <2>1. AddNodes(g, entities) = [g EXCEPT !.nodes = [u \in Urns |-> node(u)]]
    BY Zenon DEF AddNodes
  <2> HIDE DEF node
  <2> QED
    BY <2>1 DEF WellFormed, Graph
<1>4. \A e \in g.edges : e.source \in Urns /\ e.destination \in Urns
  BY DEF WellFormed, Graph, Edge
<1> HIDE DEF node, of
<1>5. \A u \in Urns : node(u) \in NodeProps \cup {Placeholder, NoNode}
  BY <1>1, <1>2 DEF WellFormed, Graph
<1>6. \A u \in Urns : g.nodes[u] # NoNode => node(u) # NoNode
  BY <1>1, <1>2, GraphAssumption
<1>8. \A e \in g.edges : node(e.source) # NoNode /\ node(e.destination) # NoNode
  BY <1>4, <1>6 DEF WellFormed, Exists
<1> DEFINE nodes == [u \in Urns |-> node(u)]
<1>9. \A e \in g.edges : nodes[e.source] # NoNode /\ nodes[e.destination] # NoNode
  BY <1>4, <1>8
<1>10. nodes \in [Urns -> NodeProps \cup {Placeholder, NoNode}]
  BY <1>5
<1>11. AddNodes(g, entities) = [nodes |-> nodes, edges |-> g.edges]
  BY <1>3
<1> HIDE DEF nodes
<1> QED
  BY <1>9, <1>10, <1>11 DEF WellFormed, Graph, Exists

(* removeNode with DETACH leaves no edge at a removed node.                *)
LEMMA RemoveNodesWellFormed ==
    ASSUME NEW g, WellFormed(g), NEW urns \in SUBSET Urns
    PROVE  WellFormed(RemoveNodes(g, urns))
<1>1. \A e \in g.edges : e.source \in Urns /\ e.destination \in Urns
  BY DEF WellFormed, Graph, Edge
<1> QED
  BY <1>1 DEF WellFormed, Graph, Exists, RemoveNodes

(* Deleting edges, whichever they are, keeps the graph well formed.        *)
LEMMA FewerEdgesWellFormed ==
    ASSUME NEW g, WellFormed(g), NEW edges \in SUBSET g.edges
    PROVE  WellFormed([g EXCEPT !.edges = edges])
<1>1. [g EXCEPT !.edges = edges] = [nodes |-> g.nodes, edges |-> edges]
  BY DEF WellFormed, Graph
<1>2. g.nodes \in [Urns -> NodeProps \cup {Placeholder, NoNode}] /\ edges \subseteq Edge
  BY DEF WellFormed, Graph
<1> QED
  BY <1>1, <1>2 DEF WellFormed, Graph, Exists

(* getOrInsertNode removes no node, makes every node of the list, and      *)
(* leaves edges and the nodes that exist alone.                            *)
LEMMA GetOrInsertWellFormed ==
    ASSUME NEW g, WellFormed(g), NEW urns \in SUBSET Urns
    PROVE  /\ WellFormed(GetOrInsertNodes(g, urns))
           /\ GetOrInsertNodes(g, urns).edges = g.edges
           /\ \A u \in Urns : Exists(g, u) =>
                GetOrInsertNodes(g, urns).nodes[u] = g.nodes[u]
           /\ \A u \in urns : Exists(GetOrInsertNodes(g, urns), u)
<1> DEFINE nodes == [u \in Urns |->
              IF u \in urns /\ ~Exists(g, u) THEN Placeholder ELSE g.nodes[u]]
<1>1. GetOrInsertNodes(g, urns) = [nodes |-> nodes, edges |-> g.edges]
  BY DEF GetOrInsertNodes, WellFormed, Graph
<1>2. \A e \in g.edges : e.source \in Urns /\ e.destination \in Urns
  BY DEF WellFormed, Graph, Edge
<1>3. \A u \in Urns : Exists(g, u) => nodes[u] = g.nodes[u]
  OBVIOUS
<1>4. \A u \in urns : nodes[u] # NoNode
  BY GraphAssumption DEF Exists
<1>5. nodes \in [Urns -> NodeProps \cup {Placeholder, NoNode}]
  BY DEF WellFormed, Graph
<1> HIDE DEF nodes
<1> QED
  BY <1>1, <1>2, <1>3, <1>4, <1>5 DEF WellFormed, Graph, Exists

(* MERGE adds edges between nodes that exist, one for every pair.          *)
LEMMA MergeEdgesWellFormed ==
    ASSUME NEW g, WellFormed(g), NEW rels \in Seq(Edge)
    PROVE  WellFormed(MergeEdges(g, rels))
<1> DEFINE merged == {i \in DOMAIN rels :
                         Exists(g, rels[i].source) /\ Exists(g, rels[i].destination)}
           final(i) == \A j \in merged : SamePair(rels[j], rels[i]) => j <= i
           new == {rels[i] : i \in {k \in merged : final(k)}}
           kept == {e \in g.edges : \A i \in merged : ~SamePair(e, rels[i])}
<1>1. MergeEdges(g, rels) = [nodes |-> g.nodes, edges |-> kept \cup new]
  <2>1. MergeEdges(g, rels) = [g EXCEPT !.edges = kept \cup new]
    BY Zenon DEF MergeEdges
  <2> HIDE DEF kept, new
  <2> QED
    BY <2>1 DEF WellFormed, Graph
<1>2. new \subseteq Edge
  OBVIOUS
<1>3. \A e \in new : Exists(g, e.source) /\ Exists(g, e.destination)
  OBVIOUS
<1>4. \A e, f \in new : SamePair(e, f) => e = f
  <2> SUFFICES ASSUME NEW i \in merged, NEW k \in merged, final(i), final(k),
                      SamePair(rels[i], rels[k])
               PROVE  i = k
    OBVIOUS
  <2>1. i <= k /\ k <= i
    BY DEF SamePair
  <2>2. i \in Int /\ k \in Int
    OBVIOUS
  <2> QED
    BY <2>1, <2>2
<1>5. \A e \in kept, f \in new : ~SamePair(e, f) /\ ~SamePair(f, e)
  BY DEF SamePair
<1>6. kept \subseteq g.edges
  OBVIOUS
<1> HIDE DEF new, kept
<1> QED
  BY <1>1, <1>2, <1>3, <1>4, <1>5, <1>6 DEF WellFormed, Graph, Exists

(* The whole of addEdges keeps the graph well formed.                      *)
LEMMA AddEdgesWellFormed ==
    ASSUME NEW g, WellFormed(g), NEW rels \in Seq(Edge), NEW option
    PROVE  WellFormed(AddEdges(g, rels, option))
<1> DEFINE kept == [g EXCEPT !.edges = @ \ Removed(g, rels, option)]
<1>1. WellFormed(kept)
  BY FewerEdgesWellFormed
<1>2. Endpoints(rels) \in SUBSET Urns
  <2>1. \A i \in DOMAIN rels : rels[i] \in Edge
    OBVIOUS
  <2>2. \A e \in Edge : e.source \in Urns /\ e.destination \in Urns
    BY DEF Edge
  <2> QED
    BY <2>1, <2>2 DEF Endpoints
<1>3. WellFormed(GetOrInsertNodes(kept, Endpoints(rels)))
  BY <1>1, <1>2, GetOrInsertWellFormed
<1> HIDE DEF kept
<1>4. WellFormed(MergeEdges(GetOrInsertNodes(kept, Endpoints(rels)), rels))
  BY <1>3, MergeEdgesWellFormed
<1> QED
  BY <1>4 DEF AddEdges, kept

(* removeEdge keeps the graph well formed.                                 *)
LEMMA RemoveEdgesWellFormed ==
    ASSUME NEW g, WellFormed(g), NEW rels
    PROVE  WellFormed(RemoveEdges(g, rels))
BY FewerEdgesWellFormed DEF RemoveEdges

-----------------------------------------------------------------------------
LEMMA GraphInitInv == GraphInit => WellFormed(graph)
BY DEF GraphInit, EmptyGraph, WellFormed, Graph

LEMMA GraphInvStep == WellFormed(graph) /\ [GraphNext]_graph => WellFormed(graph)'
<1> SUFFICES ASSUME WellFormed(graph), [GraphNext]_graph PROVE WellFormed(graph')
  BY DEF WellFormed, Graph, Exists
<1>1. ASSUME NEW entities \in EntityLists, addEntities(entities)
      PROVE  WellFormed(graph')
  BY <1>1, AddNodesWellFormed, ArgumentAssumption DEF addEntities
<1>2. ASSUME NEW urns \in UrnSets, removeEntities(urns)
      PROVE  WellFormed(graph')
  BY <1>2, RemoveNodesWellFormed, ArgumentAssumption DEF removeEntities
<1>3. ASSUME NEW rels \in RelationshipLists, NEW option \in RemovalOption,
             addRelationships(rels, option)
      PROVE  WellFormed(graph')
  BY <1>3, AddEdgesWellFormed, ArgumentAssumption DEF addRelationships
<1>4. ASSUME NEW rels \in RelationshipLists, removeRelationships(rels)
      PROVE  WellFormed(graph')
  BY <1>4, RemoveEdgesWellFormed, ArgumentAssumption DEF removeRelationships
<1>5. CASE UNCHANGED graph
  BY <1>5
<1> QED
  BY <1>1, <1>2, <1>3, <1>4, <1>5 DEF GraphNext

(* After any sequence of calls every edge joins two nodes and no pair has  *)
(* two edges of a type, for all graphs and all arguments.                  *)
THEOREM GraphIsWellFormed == GraphSpec => [](GraphTypeOK /\ GraphIsSound)
<1>1. WellFormed(graph) => GraphTypeOK /\ GraphIsSound
  BY DEF WellFormed, GraphTypeOK, GraphIsSound, EdgesJoinNodes, OneEdgePerPair
<1> QED
  BY <1>1, GraphInitInv, GraphInvStep, PTL DEF GraphSpec

-----------------------------------------------------------------------------
(* What addEdges leaves: the last of the relationships of each pair, and   *)
(* every old edge that the removal and the merge did not match.            *)
LEMMA AddEdgesResult ==
    ASSUME NEW g, WellFormed(g), NEW rels \in Seq(Edge), rels # <<>>, NEW option
    PROVE  /\ \A i \in DOMAIN rels :
                (\A j \in DOMAIN rels : SamePair(rels[i], rels[j]) => j <= i)
                   => rels[i] \in AddEdges(g, rels, option).edges
           /\ \A e \in g.edges \ AddEdges(g, rels, option).edges :
                \/ e \in Removed(g, rels, option)
                \/ \E i \in DOMAIN rels : SamePair(e, rels[i])
<1> DEFINE kept == [g EXCEPT !.edges = @ \ Removed(g, rels, option)]
           h == GetOrInsertNodes(kept, Endpoints(rels))
           merged == {i \in DOMAIN rels :
                         Exists(h, rels[i].source) /\ Exists(h, rels[i].destination)}
           final(i) == \A j \in merged : SamePair(rels[j], rels[i]) => j <= i
           new == {rels[i] : i \in {k \in merged : final(k)}}
           old == {e \in h.edges : \A i \in merged : ~SamePair(e, rels[i])}
<1>1. WellFormed(kept)
  BY FewerEdgesWellFormed
<1>2. Endpoints(rels) \in SUBSET Urns
  <2>1. \A i \in DOMAIN rels : rels[i] \in Edge
    OBVIOUS
  <2>2. \A e \in Edge : e.source \in Urns /\ e.destination \in Urns
    BY DEF Edge
  <2> QED
    BY <2>1, <2>2 DEF Endpoints
<1>3. kept.edges = g.edges \ Removed(g, rels, option)
  BY DEF WellFormed, Graph
<1>4. /\ WellFormed(h)
      /\ h.edges = kept.edges
      /\ \A u \in Endpoints(rels) : Exists(h, u)
  <2> HIDE DEF kept
  <2> QED
    BY <1>1, <1>2, GetOrInsertWellFormed
<1>5. AddEdges(g, rels, option) = MergeEdges(h, rels)
  BY Zenon DEF AddEdges
<1> HIDE DEF kept, h
<1>6. merged = DOMAIN rels
  BY <1>4 DEF Endpoints
<1>7. MergeEdges(h, rels).edges = old \cup new
  <2>1. MergeEdges(h, rels) = [h EXCEPT !.edges = old \cup new]
    BY Zenon DEF MergeEdges
  <2> HIDE DEF old, new
  <2> QED
    BY <2>1, <1>4 DEF WellFormed, Graph
<1>8. \A i \in DOMAIN rels :
         (\A j \in DOMAIN rels : SamePair(rels[i], rels[j]) => j <= i) => rels[i] \in new
  BY <1>6 DEF SamePair
<1>9. \A e \in g.edges : e \in old \/ e \in Removed(g, rels, option)
                             \/ \E i \in DOMAIN rels : SamePair(e, rels[i])
  BY <1>3, <1>4, <1>6
<1> HIDE DEF old, new
<1> QED
  BY <1>5, <1>7, <1>8, <1>9

(* A relationship that is added is in the graph afterwards, whatever the   *)
(* removal option, the batch and the graph were.                           *)
THEOREM AddedRelationshipsAreThere == GraphSpec => AddedIsThere
<1>1. GraphTypeOK /\ GraphIsSound
        => \A rels \in RelationshipLists, option \in RemovalOption :
             addRelationships(rels, option) =>
                \A i \in DOMAIN rels :
                   (\A j \in DOMAIN rels : SamePair(rels[i], rels[j]) => j <= i)
                      => rels[i] \in graph'.edges
  <2> SUFFICES ASSUME GraphTypeOK, GraphIsSound,
                      NEW rels \in RelationshipLists, NEW option \in RemovalOption,
                      addRelationships(rels, option), NEW i \in DOMAIN rels,
                      \A j \in DOMAIN rels : SamePair(rels[i], rels[j]) => j <= i
               PROVE  rels[i] \in graph'.edges
    OBVIOUS
  <2>1. WellFormed(graph)
    BY DEF WellFormed, GraphTypeOK, GraphIsSound, EdgesJoinNodes, OneEdgePerPair
  <2>2. rels \in Seq(Edge) /\ rels # <<>>
    BY ArgumentAssumption
  <2> QED
    BY <2>1, <2>2, AddEdgesResult DEF addRelationships
<1> QED
  BY <1>1, GraphIsWellFormed, PTL DEF GraphSpec, AddedIsThere

(* Replacing the edges of one source takes no edge of another source away. *)
THEOREM OtherSourcesUntouched == GraphSpec => OtherSourcesKeepEdges
<1>1. GraphTypeOK /\ GraphIsSound
        => \A rels \in RelationshipLists :
             addRelationships(rels, "fromSource") =>
                \A e \in graph.edges \ graph'.edges :
                   \A i \in DOMAIN rels : rels[i].source = e.source
  <2> SUFFICES ASSUME GraphTypeOK, GraphIsSound,
                      NEW rels \in RelationshipLists,
                      addRelationships(rels, "fromSource"),
                      NEW e \in graph.edges \ graph'.edges, NEW i \in DOMAIN rels
               PROVE  rels[i].source = e.source
    OBVIOUS
  <2>1. WellFormed(graph)
    BY DEF WellFormed, GraphTypeOK, GraphIsSound, EdgesJoinNodes, OneEdgePerPair
  <2>2. rels \in Seq(Edge) /\ rels # <<>>
    BY ArgumentAssumption
  <2>3. \A j \in DOMAIN rels : rels[j].source = rels[1].source
    BY DEF addRelationships, Refused
  <2>4. \/ e \in Removed(graph, rels, "fromSource")
        \/ \E j \in DOMAIN rels : SamePair(e, rels[j])
    BY <2>1, <2>2, AddEdgesResult DEF addRelationships
  <2> QED
    BY <2>3, <2>4 DEF Removed, SamePair
<1> QED
  BY <1>1, GraphIsWellFormed, PTL DEF GraphSpec, OtherSourcesKeepEdges

(* addRelationships adds its whole batch and removes no edge of another    *)
(* source, after any sequence of calls.                                    *)
THEOREM EditsExact == GraphSpec => EditsAreExact
BY AddedRelationshipsAreThere, OtherSourcesUntouched, PTL DEF EditsAreExact

-----------------------------------------------------------------------------
(***************************************************************************)
(* What the MCE job has processed is in the store or in the log, for any   *)
(* topic, keys, faults and crashes.                                        *)
(*                                                                         *)
(* The argument: while no request is left running, the one the job waits   *)
(* for is the only one that writes, so the store is what some prefix of    *)
(* the topic leaves with the first aspects of the next event on top.       *)
(***************************************************************************)

(* The definitions of the specification for any list of events.            *)
AspectsIn(T, n) == T[n].aspects
WritesIn(T, k, n) ==
    {i \in DOMAIN AspectsIn(T, n) :
        /\ T[n].kind = "snapshot" /\ AspectsIn(T, n)[i][1] = k
        /\ \A j \in 1 .. i : AspectsIn(T, n)[j][2] # Invalid}
WritersIn(T, k, n) == {o \in 1 .. n : WritesIn(T, k, o) # {}}
LastWrite(T, k, n) == AspectsIn(T, n)[LastOf(WritesIn(T, k, n))][2]
ValueIn(T, k, n) ==
    IF WritersIn(T, k, n) = {} THEN None ELSE LastWrite(T, k, LastOf(WritersIn(T, k, n)))

(* A request adds the aspects of a snapshot in order, none of them invalid. *)
RequestInv ==
    \A r \in DOMAIN requests :
        /\ topic[requests[r].event].kind = "snapshot"
        /\ \A j \in 1 .. requests[r].added : Aspects(requests[r].event)[j][2] # Invalid

(* Each event that was ever finished is accounted for.                     *)
Settled ==
    \A n \in 1 .. reached : Complete(n) \/ topic[n].kind = "empty" \/ n \in logged

InOrder == ~ orphaned /\ faults.kinds \subseteq {"crash"}

Alone == InOrder => \A r \in DOMAIN requests : requests[r].running => r = waiting

(* What the running request has added to a key so far, and what a prefix   *)
(* of the topic between what is processed and what ever was leaves there.  *)
DoneIn(T, p, added, k) == {i \in WritesIn(T, k, p + 1) : i <= added}

BehindIn(T, p, furthest, s, k) == \E n \in p .. furthest : s[k] = ValueIn(T, k, n)

KeyFollowsIn(T, p, furthest, w, added, s, k) ==
    IF w # 0 /\ DoneIn(T, p, added, k) # {}
        THEN s[k] = AspectsIn(T, p + 1)[LastOf(DoneIn(T, p, added, k))][2]
        ELSE BehindIn(T, p, furthest, s, k)

Follows ==
    InOrder => \A k \in Keys :
        KeyFollowsIn(topic, position, reached, waiting, requests[waiting].added, store, k)

IInv == TypeOK /\ RequestInv /\ Settled /\ Alone /\ Follows

-----------------------------------------------------------------------------
(* Helpers.                                                                *)

LEMMA EventType ==
    ASSUME TypeOK, NEW n \in DOMAIN topic
    PROVE  /\ topic[n] \in Events
           /\ topic[n].kind \in {"snapshot", "empty", "malformed"}
           /\ Aspects(n) \in Seq(Keys \X Values)
BY IngestAssumption DEF TypeOK, Aspects

LEMMA TopicDomain == TypeOK => Len(topic) \in Nat /\ DOMAIN topic = 1 .. Len(topic)
BY DEF TypeOK

(* What a request has left to add starts after what it has added.          *)
LEMMA RestIs ==
    ASSUME TypeOK, NEW r \in DOMAIN requests
    PROVE  /\ requests[r].event \in DOMAIN topic /\ requests[r].added \in Nat
           /\ Rest(r) = <<>> => requests[r].added = Len(Aspects(requests[r].event))
           /\ Rest(r) # <<>> =>
                /\ requests[r].added + 1 \in DOMAIN Aspects(requests[r].event)
                /\ Head(Rest(r)) = Aspects(requests[r].event)[requests[r].added + 1]
<1> DEFINE A == Aspects(requests[r].event)
           n == requests[r].added
<1>1. requests[r] \in Request /\ n <= Len(A)
  BY DEF TypeOK
<1>2. requests[r].event \in DOMAIN topic /\ n \in Nat
  BY <1>1, TopicDomain DEF Request, TypeOK
<1>3. A \in Seq(Keys \X Values)
  BY <1>2, EventType
<1>4. Rest(r) = SubSeq(A, n + 1, Len(A))
  BY DEF Rest
<1> HIDE DEF A, n
<1>5. CASE n = Len(A)
  <2>1. Rest(r) = <<>>
    BY <1>2, <1>3, <1>4, <1>5, SubSeqProperties
  <2> QED
    BY <1>2, <1>5, <2>1 DEF A, n
<1>6. CASE n < Len(A)
  <2>1. Len(Rest(r)) # 0 /\ Rest(r)[1] = A[n + 1] /\ n + 1 \in DOMAIN A
    BY <1>2, <1>3, <1>4, <1>6
  <2>2. Rest(r) # <<>> /\ Head(Rest(r)) = Rest(r)[1]
    BY <2>1
  <2> QED
    BY <1>2, <2>1, <2>2 DEF A, n
<1> QED
  BY <1>1, <1>2, <1>3, <1>5, <1>6 DEF A, n

LEMMA LastIs ==
    ASSUME NEW n \in Nat, NEW S \in SUBSET (1 .. n), S # {}
    PROVE  LastOf(S) \in S /\ \A j \in S : j <= LastOf(S)
<1>1. \E i \in S : \A j \in S : j <= i
  BY LastPosition
<1> QED
  BY <1>1 DEF LastOf

LEMMA LastIsGreatest ==
    ASSUME NEW n \in Nat, NEW S \in SUBSET (1 .. n), NEW i \in S, \A j \in S : j <= i
    PROVE  LastOf(S) = i
<1>1. LastOf(S) \in S /\ i <= LastOf(S)
  BY LastIs
<1>2. LastOf(S) <= i /\ LastOf(S) \in 1 .. n /\ i \in 1 .. n
  BY <1>1
<1> QED
  BY <1>1, <1>2

LEMMA ValueIs ==
    ASSUME NEW k, NEW n
    PROVE  ValueAfter(k, n) = ValueIn(topic, k, n)
<1>1. ASSUME NEW o PROVE Writes(k, o) = WritesIn(topic, k, o)
  BY Zenon DEF Writes, WritesIn, Aspects, AspectsIn
<1> DEFINE V == {o \in 1 .. n : Writes(k, o) # {}}
<1>2. V = WritersIn(topic, k, n)
  BY <1>1 DEF WritersIn
<1>3. ValueAfter(k, n) = IF V = {} THEN None
                         ELSE Aspects(LastOf(V))[LastOf(Writes(k, LastOf(V)))][2]
  BY DEF ValueAfter
<1>0. \A o : Writes(k, o) = WritesIn(topic, k, o)
  BY <1>1
<1> HIDE DEF V
<1>4. Writes(k, LastOf(V)) = WritesIn(topic, k, LastOf(V))
  BY <1>0
<1>5. Aspects(LastOf(V))[LastOf(Writes(k, LastOf(V)))][2] = LastWrite(topic, k, LastOf(V))
  BY <1>4 DEF LastWrite, Aspects, AspectsIn
<1>6. ValueIn(topic, k, n) = IF V = {} THEN None ELSE LastWrite(topic, k, LastOf(V))
  BY <1>2, Zenon DEF ValueIn
<1> QED
  BY <1>3, <1>5, <1>6, Zenon

(* What one more event leaves in a key.                                    *)
LEMMA ValueNext ==
    ASSUME NEW T, NEW k, NEW n \in Nat
    PROVE  ValueIn(T, k, n + 1) =
             IF WritesIn(T, k, n + 1) # {} THEN LastWrite(T, k, n + 1) ELSE ValueIn(T, k, n)
<1> DEFINE W == WritersIn(T, k, n + 1)
<1>1. CASE WritesIn(T, k, n + 1) # {}
  <2>1. n + 1 \in Nat /\ W \in SUBSET (1 .. n + 1) /\ n + 1 \in W /\ \A j \in W : j <= n + 1
    BY <1>1 DEF WritersIn
  <2> HIDE DEF W
  <2>2. LastOf(W) = n + 1
    BY <2>1, LastIsGreatest
  <2> QED
    BY <1>1, <2>1, <2>2 DEF ValueIn, W
<1>2. CASE WritesIn(T, k, n + 1) = {}
  <2>1. W = WritersIn(T, k, n)
    BY <1>2 DEF WritersIn
  <2> QED
    BY <1>2, <2>1 DEF ValueIn
<1> QED
  BY <1>1, <1>2

(* Nothing about the first events depends on what comes later.             *)
LEMMA PrefixKept ==
    ASSUME NEW T, NEW U, NEW m \in Nat, \A n \in 1 .. m : T[n] = U[n], NEW k,
           NEW n \in 0 .. m
    PROVE  ValueIn(T, k, n) = ValueIn(U, k, n)
<1>1. \A o \in 1 .. m : WritesIn(T, k, o) = WritesIn(U, k, o)
  BY DEF AspectsIn, WritesIn
<1>2. \A o \in 1 .. m : LastWrite(T, k, o) = LastWrite(U, k, o)
  BY <1>1 DEF LastWrite, AspectsIn
<1> DEFINE V == WritersIn(T, k, n)
<1>3. V = WritersIn(U, k, n) /\ V \in SUBSET (1 .. n) /\ n \in Nat
  BY <1>1 DEF WritersIn
<1> HIDE DEF V
<1>4. V # {} => LastOf(V) \in 1 .. m
  <2>1. V # {} => LastOf(V) \in V
    BY <1>3, LastIs
  <2>2. V \subseteq 1 .. m
    BY <1>3
  <2> QED
    BY <2>1, <2>2
<1> QED
  BY <1>2, <1>3, <1>4 DEF ValueIn, V

-----------------------------------------------------------------------------
(* Types.                                                                  *)

LEMMA InitType == Init => TypeOK
<1> SUFFICES ASSUME Init PROVE TypeOK
  OBVIOUS
<1>1. /\ topic \in Seq(Events) /\ Len(topic) = 0
      /\ requests \in Seq(Request) /\ Len(requests) = 0 /\ DOMAIN requests = {}
      /\ position = 0 /\ committed = 0 /\ waiting = 0 /\ reached = 0 /\ logged = {}
  BY DEF Init
<1>2. store \in [Keys -> (Values \ {Invalid}) \cup {None}] /\ orphaned \in BOOLEAN
  BY DEF Init
<1>3. faults \in [count : 0 .. MaxFaults, kinds : SUBSET Faults]
  <2>1. MaxFaults \in Nat
    BY IngestAssumption
  <2> QED
    BY <2>1 DEF Init
<1> QED
  BY <1>1, <1>2, <1>3 DEF TypeOK

(* The stream thread finishes the event it is at.                          *)
LEMMA FinishEffect ==
    ASSUME TypeOK, position < Len(topic), NEW failed \in BOOLEAN, Finish(failed)
    PROVE  /\ position' = position + 1 /\ waiting' = 0 /\ committed' = committed
           /\ position' \in 0 .. Len(topic) /\ committed' \in 0 .. position'
           /\ reached' \in position' .. Len(topic) /\ reached <= reached'
           /\ reached' = reached \/ reached' = position + 1
           /\ logged' \subseteq 1 .. reached' /\ logged \subseteq logged'
           /\ failed => position + 1 \in logged'
<1>1. /\ position \in Nat /\ committed \in Nat /\ reached \in Nat /\ Len(topic) \in Nat
      /\ position <= reached /\ reached <= Len(topic) /\ committed <= position
      /\ logged \subseteq 1 .. reached
  BY TopicDomain DEF TypeOK
<1>2. /\ position' = position + 1 /\ waiting' = 0 /\ committed' = committed
      /\ logged' = IF failed THEN logged \cup {position + 1} ELSE logged
      /\ reached' = IF position + 1 > reached THEN position + 1 ELSE reached
  BY DEF Finish
<1> QED
  BY <1>1, <1>2

(* The event the thread waits for is one of the topic.                     *)
LEMMA WaitingEvent ==
    ASSUME TypeOK, waiting # 0
    PROVE  /\ waiting \in DOMAIN requests /\ requests[waiting].running
           /\ requests[waiting].event = position + 1
           /\ position < Len(topic) /\ position + 1 \in DOMAIN topic
<1>1. /\ waiting \in 1 .. Len(requests) /\ requests \in Seq(Request)
      /\ requests[waiting].running /\ requests[waiting].event = position + 1
  BY DEF TypeOK
<1>2. waiting \in DOMAIN requests
  BY <1>1
<1>3. position + 1 \in DOMAIN topic
  BY <1>1, <1>2, RestIs
<1> QED
  BY <1>1, <1>2, <1>3, TopicDomain DEF TypeOK

LEMMA FaultType ==
    ASSUME TypeOK, NEW kind, Fault(kind)
    PROVE  /\ faults'.kinds = faults.kinds \cup {kind}
           /\ faults' \in [count : 0 .. MaxFaults, kinds : SUBSET Faults]
BY IngestAssumption DEF TypeOK, Fault

(* The requests of a step that sends none.                                 *)
LEMMA SameRequests ==
    ASSUME TypeOK, requests' \in Seq(Request), topic' = topic,
           Len(requests') = Len(requests),
           \A r \in DOMAIN requests :
              requests'[r].event = requests[r].event /\ requests'[r].added = requests[r].added
    PROVE  \A r \in DOMAIN requests' :
              /\ requests'[r].event <= Len(topic')
              /\ requests'[r].added <= Len(topic'[requests'[r].event].aspects)
<1>1. DOMAIN requests' = DOMAIN requests
  BY DEF TypeOK
<1> QED
  BY <1>1 DEF TypeOK, Aspects

LEMMA EndRequestEffect ==
    ASSUME TypeOK, NEW r \in DOMAIN requests,
           requests' = [requests EXCEPT ![r].running = FALSE]
    PROVE  /\ requests' \in Seq(Request) /\ Len(requests') = Len(requests)
           /\ DOMAIN requests' = DOMAIN requests
           /\ ~ requests'[r].running
           /\ \A q \in DOMAIN requests :
                /\ requests'[q].event = requests[q].event
                /\ requests'[q].added = requests[q].added
                /\ q # r => requests'[q] = requests[q]
<1>1. requests \in Seq(Request) /\ requests[r] \in Request
  BY DEF TypeOK
<1>2. [requests[r] EXCEPT !.running = FALSE] \in Request
  BY <1>1 DEF Request
<1>3. requests'[r] = [requests[r] EXCEPT !.running = FALSE]
  BY <1>1
<1>4. /\ requests'[r].event = requests[r].event /\ requests'[r].added = requests[r].added
      /\ ~ requests'[r].running
  BY <1>1, <1>3 DEF Request
<1> HIDE DEF Request
<1> QED
  BY <1>1, <1>2, <1>3, <1>4

LEMMA EmitType == ASSUME TypeOK, Emit PROVE TypeOK'
<1>1. PICK e \in Events : topic' = Append(topic, e)
  BY DEF Emit
<1>2. topic \in Seq(Events)
  BY DEF TypeOK
<1>3. /\ topic' \in Seq(Events) /\ Len(topic') = Len(topic) + 1
      /\ \A n \in 1 .. Len(topic) : topic'[n] = topic[n]
  BY <1>1, <1>2
<1>4. UNCHANGED <<position, committed, waiting, logged, reached, requests, store, orphaned, faults>>
  BY DEF Emit, job
<1>5. ASSUME NEW r \in DOMAIN requests
      PROVE  /\ requests[r].event <= Len(topic')
             /\ requests[r].added <= Len(topic'[requests[r].event].aspects)
  <2>1. requests[r].event \in 1 .. Len(topic)
    BY RestIs, TopicDomain
  <2> QED
    BY <1>3, <2>1, TopicDomain DEF TypeOK, Aspects
<1> QED
  BY <1>3, <1>4, <1>5, TopicDomain DEF TypeOK, Aspects

LEMMA SendRequestType == ASSUME TypeOK, SendRequest PROVE TypeOK'
<1> DEFINE new == [event |-> position + 1, added |-> 0, running |-> TRUE]
<1>1. /\ position < Len(topic)
      /\ requests' = Append(requests, new) /\ waiting' = Len(requests) + 1
      /\ UNCHANGED <<topic, position, committed, logged, reached, store, orphaned, faults>>
  BY DEF SendRequest, Polling
<1>2. new \in Request /\ new.event = position + 1 /\ new.added = 0 /\ new.running
  BY DEF Request, TypeOK
<1>3. requests \in Seq(Request) /\ position + 1 \in DOMAIN topic
  BY <1>1, TopicDomain DEF TypeOK
<1>4. Len(topic[position + 1].aspects) \in Nat
  BY <1>3, EventType DEF Aspects
<1> HIDE DEF new
<1>5. /\ requests' \in Seq(Request) /\ Len(requests') = Len(requests) + 1
      /\ requests'[Len(requests) + 1] = new
      /\ \A r \in DOMAIN requests : requests'[r] = requests[r]
      /\ DOMAIN requests' = DOMAIN requests \cup {Len(requests) + 1}
  BY <1>1, <1>2, <1>3
<1>6. ASSUME NEW r \in DOMAIN requests'
      PROVE  /\ requests'[r].event <= Len(topic')
             /\ requests'[r].added <= Len(topic'[requests'[r].event].aspects)
  BY <1>1, <1>2, <1>3, <1>4, <1>5, TopicDomain DEF TypeOK, Aspects
<1>7. waiting' \in 0 .. Len(requests') /\ requests'[waiting'] = new
  BY <1>1, <1>3, <1>5
<1> QED
  BY <1>1, <1>2, <1>5, <1>6, <1>7 DEF TypeOK, Aspects

(* Steps of the job that change no request.                                *)
LEMMA JobType ==
    ASSUME TypeOK, NoRequest \/ SendFails \/ Timeout \/ CommitOffset \/ Crash
    PROVE  TypeOK'
<1>1. CASE NoRequest \/ SendFails \/ Timeout
  <2>1. /\ position < Len(topic) /\ \E failed \in BOOLEAN : Finish(failed)
        /\ UNCHANGED <<topic, requests, store>>
        /\ orphaned' \in BOOLEAN
        /\ faults' \in [count : 0 .. MaxFaults, kinds : SUBSET Faults]
    BY <1>1, WaitingEvent, FaultType DEF NoRequest, SendFails, Timeout, Polling, TypeOK
  <2>2. /\ waiting' = 0 /\ position' \in 0 .. Len(topic) /\ committed' \in 0 .. position'
        /\ reached' \in position' .. Len(topic) /\ logged' \subseteq 1 .. reached'
    BY <2>1, FinishEffect
  <2> QED
    BY <2>1, <2>2 DEF TypeOK, Aspects
<1>2. CASE CommitOffset
  BY <1>2 DEF CommitOffset, TypeOK, Aspects
<1>3. CASE Crash
  <2>1. faults' \in [count : 0 .. MaxFaults, kinds : SUBSET Faults]
    BY <1>3, FaultType DEF Crash
  <2>2. /\ position' = committed /\ waiting' = 0 /\ orphaned' \in BOOLEAN
        /\ UNCHANGED <<topic, committed, logged, reached, requests, store>>
    BY <1>3 DEF Crash, TypeOK
  <2>3. committed' \in 0 .. position' /\ position' \in 0 .. Len(topic) /\ reached \in position' .. Len(topic)
    BY <2>2, TopicDomain DEF TypeOK
  <2> QED
    BY <2>1, <2>2, <2>3 DEF TypeOK, Aspects
<1> QED
  BY <1>1, <1>2, <1>3

LEMMA AnswerType ==
    ASSUME TypeOK, NEW r \in DOMAIN requests, NEW failed \in BOOLEAN, Answer(r, failed),
           faults' \in [count : 0 .. MaxFaults, kinds : SUBSET Faults]
    PROVE  TypeOK'
<1>1. requests' = [requests EXCEPT ![r].running = FALSE] /\ UNCHANGED <<topic, store, orphaned>>
  BY DEF Answer
<1>2. /\ requests' \in Seq(Request) /\ Len(requests') = Len(requests)
      /\ \A q \in DOMAIN requests : q # r => requests'[q] = requests[q]
  BY <1>1, EndRequestEffect
<1>3. \A q \in DOMAIN requests' :
          /\ requests'[q].event <= Len(topic')
          /\ requests'[q].added <= Len(topic'[requests'[q].event].aspects)
  BY <1>1, <1>2, EndRequestEffect, SameRequests
<1>4. CASE waiting = r
  <2>1. waiting # 0 /\ Finish(failed)
    BY <1>4 DEF Answer, TypeOK
  <2>2. /\ waiting' = 0 /\ position' \in 0 .. Len(topic) /\ committed' \in 0 .. position'
        /\ reached' \in position' .. Len(topic) /\ logged' \subseteq 1 .. reached'
    BY <2>1, FinishEffect, WaitingEvent
  <2> QED
    BY <1>1, <1>2, <1>3, <2>2 DEF TypeOK, Aspects
<1>5. CASE waiting # r
  <2>1. UNCHANGED <<position, committed, waiting, logged, reached>>
    BY <1>5 DEF Answer, job
  <2>2. waiting # 0 => requests'[waiting] = requests[waiting]
    BY <1>2, <1>5, WaitingEvent
  <2> QED
    BY <1>1, <1>2, <1>3, <2>1, <2>2 DEF TypeOK, Aspects
<1> QED
  BY <1>4, <1>5

LEMMA GmsCrashType == ASSUME TypeOK, GmsCrash PROVE TypeOK'
<1>1. requests \in Seq(Request)
  BY DEF TypeOK
<1>2. requests' = [r \in DOMAIN requests |-> [requests[r] EXCEPT !.running = FALSE]]
  BY DEF GmsCrash
<1>3. ASSUME NEW r \in DOMAIN requests
      PROVE  /\ requests'[r] \in Request
             /\ requests'[r].event = requests[r].event /\ requests'[r].added = requests[r].added
  <2>1. requests[r] \in Request /\ requests'[r] = [requests[r] EXCEPT !.running = FALSE]
    BY <1>1, <1>2
  <2> QED
    BY <2>1 DEF Request
<1>4. requests' \in Seq(Request) /\ Len(requests') = Len(requests)
  BY <1>1, <1>2, <1>3
<1>5. \A r \in DOMAIN requests :
         requests'[r].event = requests[r].event /\ requests'[r].added = requests[r].added
  BY <1>3
<1>6. UNCHANGED <<topic, store, orphaned>>
  BY DEF GmsCrash
<1>7. \A q \in DOMAIN requests' :
          /\ requests'[q].event <= Len(topic')
          /\ requests'[q].added <= Len(topic'[requests'[q].event].aspects)
  BY <1>4, <1>5, <1>6, SameRequests
<1>8. faults' \in [count : 0 .. MaxFaults, kinds : SUBSET Faults]
  BY FaultType DEF GmsCrash
<1>9. CASE waiting # 0
  <2>1. /\ waiting' = 0 /\ position' \in 0 .. Len(topic) /\ committed' \in 0 .. position'
        /\ reached' \in position' .. Len(topic) /\ logged' \subseteq 1 .. reached'
    BY <1>9, FinishEffect, WaitingEvent DEF GmsCrash
  <2> QED
    BY <1>4, <1>6, <1>7, <1>8, <2>1 DEF TypeOK, Aspects
<1>10. CASE waiting = 0
  <2>1. UNCHANGED <<position, committed, waiting, logged, reached>>
    BY <1>10 DEF GmsCrash, job
  <2> QED
    BY <1>4, <1>6, <1>7, <1>8, <1>10, <2>1 DEF TypeOK, Aspects
<1> QED
  BY <1>9, <1>10

LEMMA RequestAdded ==
    ASSUME NEW x \in Request, NEW y, y = [x EXCEPT !.added = @ + 1]
    PROVE  y \in Request /\ y.added = x.added + 1 /\ y.event = x.event /\ y.running = x.running
BY DEF Request

LEMMA AddEffect ==
    ASSUME TypeOK, NEW r \in DOMAIN requests, Add(r)
    PROVE  LET n == requests[r].added + 1
               A == Aspects(requests[r].event)
           IN  /\ n \in DOMAIN A /\ A[n] \in Keys \X Values /\ A[n][2] # Invalid
               /\ n <= Len(A)
               /\ store' = [store EXCEPT ![A[n][1]] = A[n][2]]
               /\ requests' \in Seq(Request) /\ DOMAIN requests' = DOMAIN requests
               /\ Len(requests') = Len(requests)
               /\ requests'[r].added = n /\ requests'[r].event = requests[r].event
               /\ requests'[r].running /\ requests[r].running
               /\ \A q \in DOMAIN requests : q # r => requests'[q] = requests[q]
               /\ UNCHANGED <<topic, position, committed, waiting, logged, reached,
                              orphaned, faults>>
<1> DEFINE n == requests[r].added + 1
           A == Aspects(requests[r].event)
<1>1. /\ Rest(r) # <<>> /\ Head(Rest(r))[2] # Invalid /\ requests[r].running
      /\ store' = [store EXCEPT ![Head(Rest(r))[1]] = Head(Rest(r))[2]]
      /\ requests' = [requests EXCEPT ![r].added = @ + 1]
      /\ UNCHANGED <<topic, position, committed, waiting, logged, reached, orphaned, faults>>
  BY DEF Add, job
<1>2. /\ n \in DOMAIN A /\ Head(Rest(r)) = A[n] /\ requests[r].added \in Nat
      /\ A \in Seq(Keys \X Values)
  BY <1>1, RestIs, EventType
<1>3. n <= Len(A) /\ A[n] \in Keys \X Values
  BY <1>2
<1>4. requests \in Seq(Request) /\ requests[r] \in Request
  BY DEF TypeOK
<1>5. /\ requests'[r] = [requests[r] EXCEPT !.added = @ + 1]
      /\ requests'[r] \in Request /\ requests'[r].added = n
      /\ requests'[r].event = requests[r].event /\ requests'[r].running
  BY <1>1, <1>4, RequestAdded
<1>6. /\ requests' \in Seq(Request) /\ DOMAIN requests' = DOMAIN requests
      /\ Len(requests') = Len(requests)
      /\ requests'[r].added = n /\ requests'[r].event = requests[r].event
      /\ requests'[r].running
      /\ \A q \in DOMAIN requests : q # r => requests'[q] = requests[q]
  BY <1>1, <1>4, <1>5
<1> HIDE DEF n, A
<1>7. /\ A[n][2] # Invalid
      /\ store' = [store EXCEPT ![A[n][1]] = A[n][2]]
  BY <1>1, <1>2
<1> QED
  BY <1>1, <1>2, <1>3, <1>6, <1>7 DEF n, A

LEMMA AddType == ASSUME TypeOK, NEW r \in DOMAIN requests, Add(r) PROVE TypeOK'
<1> DEFINE n == requests[r].added + 1
           A == Aspects(requests[r].event)
<1>1. /\ A[n] \in Keys \X Values /\ A[n][2] # Invalid /\ n <= Len(A)
      /\ store' = [store EXCEPT ![A[n][1]] = A[n][2]]
      /\ requests' \in Seq(Request) /\ DOMAIN requests' = DOMAIN requests
      /\ Len(requests') = Len(requests)
      /\ requests'[r].added = n /\ requests'[r].event = requests[r].event
      /\ requests'[r].running
      /\ \A q \in DOMAIN requests : q # r => requests'[q] = requests[q]
      /\ UNCHANGED <<topic, position, committed, waiting, logged, reached, orphaned, faults>>
  BY AddEffect
<1>2. ASSUME NEW q \in DOMAIN requests'
      PROVE  /\ requests'[q].event <= Len(topic')
             /\ requests'[q].added <= Len(topic'[requests'[q].event].aspects)
  BY <1>1, <1>2 DEF TypeOK, Aspects
<1> HIDE DEF n, A
<1>3. store' \in [Keys -> (Values \ {Invalid}) \cup {None}]
  BY <1>1 DEF TypeOK
<1>4. waiting # 0 => requests'[waiting].running /\ requests'[waiting].event = position + 1
  BY <1>1, WaitingEvent
<1> QED
  BY <1>1, <1>2, <1>3, <1>4 DEF TypeOK, Aspects

LEMMA TypeStep == TypeOK /\ [Next]_vars => TypeOK'
<1> SUFFICES ASSUME TypeOK, [Next]_vars PROVE TypeOK'
  OBVIOUS
<1>1. ASSUME NEW r \in DOMAIN requests, Reject(r) \/ AddFails(r) \/ Created(r)
      PROVE  TypeOK'
  <2>1. /\ \E failed \in BOOLEAN : Answer(r, failed)
        /\ faults' \in [count : 0 .. MaxFaults, kinds : SUBSET Faults]
    BY <1>1, FaultType DEF Reject, AddFails, Created, TypeOK
  <2> QED
    BY <2>1, AnswerType
<1>2. CASE UNCHANGED vars
  BY <1>2 DEF vars, job, TypeOK, Aspects
<1> QED
  BY <1>1, <1>2, EmitType, SendRequestType, JobType, GmsCrashType, AddType DEF Next, Process

-----------------------------------------------------------------------------
(* What each kind of step does to the requests.                            *)

(* Steps that neither send a request nor add an aspect.                    *)
Quiet ==
    /\ topic' = topic /\ store' = store
    /\ DOMAIN requests' = DOMAIN requests
    /\ \A r \in DOMAIN requests :
         /\ requests'[r].event = requests[r].event
         /\ requests'[r].added = requests[r].added
         /\ requests'[r].running => requests[r].running

LEMMA AnswerIsQuiet ==
    ASSUME TypeOK, NEW r \in DOMAIN requests, NEW failed, Answer(r, failed)
    PROVE  Quiet /\ ~ requests'[r].running
<1>1. requests' = [requests EXCEPT ![r].running = FALSE] /\ UNCHANGED <<topic, store>>
  BY DEF Answer
<1> QED
  BY <1>1, EndRequestEffect DEF Quiet

LEMMA GmsCrashIsQuiet ==
    ASSUME TypeOK, GmsCrash
    PROVE  Quiet /\ \A r \in DOMAIN requests : ~ requests'[r].running
<1>1. requests \in Seq(Request)
  BY DEF TypeOK
<1>2. requests' = [r \in DOMAIN requests |-> [requests[r] EXCEPT !.running = FALSE]]
      /\ UNCHANGED <<topic, store>>
  BY DEF GmsCrash
<1>3. ASSUME NEW r \in DOMAIN requests
      PROVE  /\ requests'[r].event = requests[r].event /\ requests'[r].added = requests[r].added
             /\ ~ requests'[r].running
  <2>1. requests[r] \in Request /\ requests'[r] = [requests[r] EXCEPT !.running = FALSE]
    BY <1>1, <1>2
  <2> QED
    BY <2>1 DEF Request
<1> QED
  BY <1>2, <1>3 DEF Quiet

LEMMA JobIsQuiet ==
    ASSUME NoRequest \/ SendFails \/ Timeout \/ CommitOffset \/ Crash \/ UNCHANGED vars
    PROVE  Quiet /\ requests' = requests
BY DEF NoRequest, SendFails, Timeout, CommitOffset, Crash, vars, job, Quiet

LEMMA QuietRequests == ASSUME TypeOK, RequestInv, Quiet PROVE RequestInv'
BY DEF RequestInv, Quiet, Aspects

LEMMA EmitKeeps ==
    ASSUME TypeOK, Emit
    PROVE  /\ \A n \in 1 .. Len(topic) : topic'[n] = topic[n]
           /\ Len(topic') = Len(topic) + 1 /\ DOMAIN topic = 1 .. Len(topic)
           /\ Len(topic) \in Nat
           /\ UNCHANGED <<position, committed, waiting, logged, reached, requests, store,
                          orphaned, faults>>
<1>1. PICK e \in Events : topic' = Append(topic, e)
  BY DEF Emit
<1>2. topic \in Seq(Events)
  BY DEF TypeOK
<1> QED
  BY <1>1, <1>2 DEF Emit, job

LEMMA SendRequestEffect ==
    ASSUME TypeOK, SendRequest
    PROVE  /\ waiting = 0 /\ waiting' = Len(requests) + 1
           /\ position + 1 \in DOMAIN topic /\ topic[position + 1].kind = "snapshot"
           /\ DOMAIN requests' = DOMAIN requests \cup {waiting'}
           /\ waiting' \notin DOMAIN requests
           /\ requests'[waiting'].event = position + 1 /\ requests'[waiting'].added = 0
           /\ \A r \in DOMAIN requests : requests'[r] = requests[r]
           /\ UNCHANGED <<topic, position, committed, logged, reached, store, orphaned, faults>>
<1> DEFINE new == [event |-> position + 1, added |-> 0, running |-> TRUE]
<1>1. /\ waiting = 0 /\ position < Len(topic) /\ topic[position + 1].kind = "snapshot"
      /\ requests' = Append(requests, new) /\ waiting' = Len(requests) + 1
      /\ UNCHANGED <<topic, position, committed, logged, reached, store, orphaned, faults>>
  BY DEF SendRequest, Polling, Kind
<1>2. requests \in Seq(Request) /\ position + 1 \in DOMAIN topic
  BY <1>1, TopicDomain DEF TypeOK
<1>3. new.event = position + 1 /\ new.added = 0
  OBVIOUS
<1> HIDE DEF new
<1>4. /\ requests'[Len(requests) + 1] = new
      /\ \A r \in DOMAIN requests : requests'[r] = requests[r]
      /\ DOMAIN requests' = DOMAIN requests \cup {Len(requests) + 1}
      /\ Len(requests) + 1 \notin DOMAIN requests
  BY <1>1, <1>2
<1> QED
  BY <1>1, <1>2, <1>3, <1>4

LEMMA RequestStep == TypeOK /\ RequestInv /\ [Next]_vars => RequestInv'
<1> SUFFICES ASSUME TypeOK, RequestInv, [Next]_vars PROVE RequestInv'
  OBVIOUS
<1>1. CASE Emit
  <2> SUFFICES ASSUME NEW r \in DOMAIN requests
               PROVE  /\ topic'[requests[r].event].kind = "snapshot"
                      /\ \A j \in 1 .. requests[r].added :
                            topic'[requests[r].event].aspects[j][2] # Invalid
    BY <1>1, EmitKeeps DEF RequestInv, Aspects
  <2>1. requests[r].event \in 1 .. Len(topic)
    BY RestIs, TopicDomain
  <2>2. topic'[requests[r].event] = topic[requests[r].event]
    BY <1>1, <2>1, EmitKeeps
  <2> QED
    BY <2>2 DEF RequestInv, Aspects
<1>2. CASE SendRequest
  BY <1>2, SendRequestEffect DEF RequestInv, Aspects
<1>3. ASSUME NEW r \in DOMAIN requests, Add(r) PROVE RequestInv'
  <2>1. /\ Aspects(requests[r].event)[requests[r].added + 1][2] # Invalid
        /\ DOMAIN requests' = DOMAIN requests /\ topic' = topic
        /\ requests'[r].added = requests[r].added + 1
        /\ requests'[r].event = requests[r].event
        /\ \A q \in DOMAIN requests : q # r => requests'[q] = requests[q]
    BY <1>3, AddEffect
  <2>2. requests[r].added \in Nat
    BY RestIs
  <2>3. \A j \in 1 .. requests[r].added + 1 : Aspects(requests[r].event)[j][2] # Invalid
    BY <2>1, <2>2 DEF RequestInv
  <2> QED
    BY <2>1, <2>3 DEF RequestInv, Aspects
<1>4. ASSUME NEW r \in DOMAIN requests, Reject(r) \/ AddFails(r) \/ Created(r)
      PROVE  RequestInv'
  <2>1. \E failed \in BOOLEAN : Answer(r, failed)
    BY <1>4 DEF Reject, AddFails, Created
  <2> QED
    BY <2>1, AnswerIsQuiet, QuietRequests
<1>5. CASE GmsCrash
  BY <1>5, GmsCrashIsQuiet, QuietRequests
<1>6. CASE NoRequest \/ SendFails \/ Timeout \/ CommitOffset \/ Crash \/ UNCHANGED vars
  BY <1>6, JobIsQuiet, QuietRequests
<1> QED
  BY <1>1, <1>2, <1>3, <1>4, <1>5, <1>6 DEF Next, Process

-----------------------------------------------------------------------------
(* No event is forgotten: Complete and what is logged only grow.           *)
AccountedIn(T, R, L, n) ==
    \/ \E r \in DOMAIN R : R[r].event = n /\ R[r].added = Len(AspectsIn(T, n))
    \/ T[n].kind = "empty"
    \/ n \in L

LEMMA SettledIs == Settled <=> \A n \in 1 .. reached : AccountedIn(topic, requests, logged, n)
BY DEF Settled, Complete, AccountedIn, Aspects, AspectsIn

LEMMA SettledIsNext ==
    Settled' <=> \A n \in 1 .. reached' : AccountedIn(topic', requests', logged', n)
BY DEF Settled, Complete, AccountedIn, Aspects, AspectsIn

Grows ==
    /\ \A n \in 1 .. Len(topic) : topic'[n] = topic[n]
    /\ DOMAIN requests \subseteq DOMAIN requests'
    /\ \A r \in DOMAIN requests :
         /\ requests'[r].event = requests[r].event
         /\ \/ requests'[r].added = requests[r].added
            \/ requests[r].added < Len(Aspects(requests[r].event))
    /\ logged \subseteq logged'

LEMMA AccountedKept ==
    ASSUME TypeOK, Grows, NEW n \in 1 .. Len(topic), AccountedIn(topic, requests, logged, n)
    PROVE  AccountedIn(topic', requests', logged', n)
<1>1. topic'[n] = topic[n] /\ Len(topic[n].aspects) \in Nat
  <2>1. Aspects(n) \in Seq(Keys \X Values)
    BY EventType, TopicDomain
  <2> QED
    BY <2>1 DEF Grows, Aspects
<1>2. CASE \E r \in DOMAIN requests :
             requests[r].event = n /\ requests[r].added = Len(topic[n].aspects)
  BY <1>1, <1>2 DEF Grows, AccountedIn, Aspects, AspectsIn
<1> QED
  BY <1>1, <1>2 DEF Grows, AccountedIn, AspectsIn

LEMMA SettledKept == ASSUME TypeOK, Settled, Grows, reached' = reached PROVE Settled'
<1>1. \A n \in 1 .. reached : n \in 1 .. Len(topic)
  BY TopicDomain DEF TypeOK
<1> QED
  BY <1>1, AccountedKept, SettledIs, SettledIsNext

LEMMA SettledFinish ==
    ASSUME TypeOK, Settled, Grows, position < Len(topic), NEW failed \in BOOLEAN,
           Finish(failed), failed \/ AccountedIn(topic, requests, logged, position + 1)
    PROVE  Settled'
<1>1. /\ position + 1 \in 1 .. Len(topic) /\ reached \in Nat
      /\ \A n \in 1 .. reached : n \in 1 .. Len(topic)
  BY TopicDomain DEF TypeOK
<1>2. /\ reached' = reached \/ (reached' = position + 1 /\ reached <= reached')
      /\ position \in Nat /\ position <= reached
      /\ failed => position + 1 \in logged'
  BY FinishEffect DEF TypeOK
<1>3. AccountedIn(topic', requests', logged', position + 1)
  <2>1. CASE failed
    BY <1>2, <2>1 DEF AccountedIn
  <2>2. CASE ~ failed
    BY <1>1, <2>2, AccountedKept
  <2> QED
    BY <2>1, <2>2
<1>4. \A n \in 1 .. reached' : n \in 1 .. reached \/ n = position + 1
  BY <1>1, <1>2
<1> QED
  BY <1>1, <1>3, <1>4, AccountedKept, SettledIs, SettledIsNext

LEMMA QuietGrows == ASSUME Quiet, logged \subseteq logged' PROVE Grows
BY DEF Quiet, Grows

LEMMA AnswerSettled ==
    ASSUME TypeOK, Settled, NEW r \in DOMAIN requests, NEW failed \in BOOLEAN,
           Answer(r, failed), failed \/ Rest(r) = <<>>
    PROVE  Settled'
<1>1. CASE waiting = r
  <2>1. waiting # 0 /\ Finish(failed)
    BY <1>1 DEF Answer, TypeOK
  <2>2. position < Len(topic) /\ requests[r].event = position + 1 /\ logged \subseteq logged'
    BY <1>1, <2>1, WaitingEvent, FinishEffect
  <2>3. Rest(r) = <<>> => AccountedIn(topic, requests, logged, position + 1)
    BY <2>2, RestIs DEF AccountedIn, Aspects, AspectsIn
  <2> QED
    BY <2>1, <2>2, <2>3, AnswerIsQuiet, QuietGrows, SettledFinish
<1>2. CASE waiting # r
  <2>1. logged' = logged /\ reached' = reached
    BY <1>2 DEF Answer, job
  <2> QED
    BY <2>1, AnswerIsQuiet, QuietGrows, SettledKept
<1> QED
  BY <1>1, <1>2

LEMMA SettledStep == TypeOK /\ Settled /\ [Next]_vars => Settled'
<1> SUFFICES ASSUME TypeOK, Settled, [Next]_vars PROVE Settled'
  OBVIOUS
<1>1. CASE Emit
  <2>1. Grows /\ reached' = reached
    BY <1>1, EmitKeeps DEF Grows
  <2> QED
    BY <2>1, SettledKept
<1>2. CASE SendRequest
  <2>1. Grows /\ reached' = reached
    BY <1>2, SendRequestEffect DEF Grows
  <2> QED
    BY <2>1, SettledKept
<1>3. ASSUME NEW r \in DOMAIN requests, Add(r) PROVE Settled'
  <2>1. requests[r].added \in Nat /\ Aspects(requests[r].event) \in Seq(Keys \X Values)
    BY RestIs, EventType
  <2>2. /\ requests[r].added + 1 <= Len(Aspects(requests[r].event))
        /\ DOMAIN requests' = DOMAIN requests /\ requests'[r].event = requests[r].event
        /\ \A q \in DOMAIN requests : q # r => requests'[q] = requests[q]
        /\ topic' = topic /\ logged' = logged /\ reached' = reached
    BY <1>3, AddEffect
  <2>3. Grows
    BY <2>1, <2>2 DEF Grows
  <2> QED
    BY <2>2, <2>3, SettledKept
<1>4. ASSUME NEW r \in DOMAIN requests, Reject(r) \/ AddFails(r) \/ Created(r)
      PROVE  Settled'
  <2>1. \E failed \in BOOLEAN : Answer(r, failed) /\ (failed \/ Rest(r) = <<>>)
    BY <1>4 DEF Reject, AddFails, Created
  <2> QED
    BY <2>1, AnswerSettled
<1>5. CASE GmsCrash
  <2>1. CASE waiting # 0
    <3>1. Finish(TRUE) /\ position < Len(topic)
      BY <1>5, <2>1, WaitingEvent DEF GmsCrash
    <3> QED
      BY <1>5, <3>1, FinishEffect, GmsCrashIsQuiet, QuietGrows, SettledFinish
  <2>2. CASE waiting = 0
    BY <1>5, <2>2, GmsCrashIsQuiet, QuietGrows, SettledKept DEF GmsCrash, job
  <2> QED
    BY <2>1, <2>2
<1>6. CASE SendFails \/ Timeout
  <2>1. Finish(TRUE) /\ position < Len(topic)
    BY <1>6, WaitingEvent DEF SendFails, Timeout, Polling
  <2> QED
    BY <1>6, <2>1, FinishEffect, JobIsQuiet, QuietGrows, SettledFinish
<1>7. CASE NoRequest
  <2>1. position < Len(topic) /\ topic[position + 1].kind # "snapshot"
        /\ Finish(topic[position + 1].kind = "malformed")
    BY <1>7 DEF NoRequest, Polling, Kind
  <2>2. position + 1 \in DOMAIN topic
    BY <2>1, TopicDomain DEF TypeOK
  <2>3. topic[position + 1].kind = "malformed" \/ topic[position + 1].kind = "empty"
    BY <2>1, <2>2, EventType
  <2>4. AccountedIn(topic, requests, logged, position + 1)
            \/ topic[position + 1].kind = "malformed"
    BY <2>3 DEF AccountedIn
  <2>5. \E failed \in BOOLEAN :
           Finish(failed) /\ (failed \/ AccountedIn(topic, requests, logged, position + 1))
    BY <2>1, <2>4
  <2> QED
    BY <1>7, <2>1, <2>5, FinishEffect, JobIsQuiet, QuietGrows, SettledFinish
<1>8. CASE CommitOffset \/ Crash \/ UNCHANGED vars
  <2>1. logged' = logged /\ reached' = reached
    BY <1>8 DEF CommitOffset, Crash, vars, job
  <2> QED
    BY <1>8, <2>1, JobIsQuiet, QuietGrows, SettledKept
<1> QED
  BY <1>1, <1>2, <1>3, <1>4, <1>5, <1>6, <1>7, <1>8 DEF Next, Process

-----------------------------------------------------------------------------
(* While the order of the topic is kept, only the request the job waits    *)
(* for runs.                                                               *)

LEMMA OrderWasKept ==
    ASSUME TypeOK, [Next]_vars, InOrder'
    PROVE  /\ InOrder /\ ~ SendFails /\ ~ Timeout /\ ~ GmsCrash
           /\ \A r \in DOMAIN requests : ~ AddFails(r)
           /\ Crash => waiting = 0
<1>0. ASSUME NEW kind, Fault(kind) PROVE kind = "crash" /\ faults.kinds \subseteq {"crash"}
  BY <1>0, FaultType DEF InOrder
<1>1. /\ ~ Fault("unreachable") /\ ~ Fault("gmsCrash") /\ ~ Fault("addFails")
      /\ Fault("crash") => faults.kinds \subseteq {"crash"}
  <2>1. "unreachable" # "crash" /\ "gmsCrash" # "crash" /\ "addFails" # "crash"
    OBVIOUS
  <2> QED
    BY <1>0, <2>1, Zenon
<1>2. ~ SendFails /\ ~ GmsCrash
  BY <1>1 DEF SendFails, GmsCrash
<1>3. \A r \in DOMAIN requests : ~ AddFails(r)
  BY <1>1 DEF AddFails
<1>4. ~ Timeout
  BY DEF Timeout, InOrder
<1>5. CASE Crash
  BY <1>1, <1>2, <1>3, <1>4, <1>5 DEF Crash, InOrder
<1>6. CASE ~ Crash
  <2>1. ASSUME NEW r \in DOMAIN requests, Add(r) \/ Reject(r) \/ Created(r)
        PROVE  orphaned' = orphaned /\ faults' = faults
    BY <2>1, Zenon DEF Add, Reject, Created, Answer
  <2>2. ASSUME Emit \/ NoRequest \/ SendRequest \/ CommitOffset \/ UNCHANGED vars
        PROVE  orphaned' = orphaned /\ faults' = faults
    BY <2>2 DEF Emit, NoRequest, SendRequest, CommitOffset, vars
  <2>3. orphaned' = orphaned /\ faults' = faults
    BY <1>2, <1>3, <1>4, <1>6, <2>1, <2>2 DEF Next, Process
  <2>4. InOrder
    BY <2>3 DEF InOrder
  <2> QED
    BY <1>2, <1>3, <1>4, <1>6, <2>4
<1> QED
  BY <1>5, <1>6

LEMMA AloneStep == TypeOK /\ Alone /\ [Next]_vars => Alone'
<1> SUFFICES ASSUME TypeOK, Alone, [Next]_vars, InOrder'
             PROVE  \A r \in DOMAIN requests' : requests'[r].running => r = waiting'
  BY DEF Alone
<1>1. /\ \A r \in DOMAIN requests : requests[r].running => r = waiting
      /\ ~ SendFails /\ ~ Timeout /\ ~ GmsCrash
      /\ \A r \in DOMAIN requests : ~ AddFails(r)
      /\ Crash => waiting = 0
  BY OrderWasKept DEF Alone
<1>2. DOMAIN requests \subseteq Nat \ {0}
  BY DEF TypeOK
<1>3. CASE Emit
  BY <1>1, <1>3, EmitKeeps
<1>4. CASE SendRequest
  BY <1>1, <1>2, <1>4, SendRequestEffect
<1>5. ASSUME NEW r \in DOMAIN requests, Add(r)
      PROVE  \A q \in DOMAIN requests' : requests'[q].running => q = waiting'
  BY <1>1, <1>5, AddEffect
<1>6. ASSUME NEW r \in DOMAIN requests, Reject(r) \/ Created(r)
      PROVE  \A q \in DOMAIN requests' : requests'[q].running => q = waiting'
  <2>1. requests[r].running /\ \E failed \in BOOLEAN : Answer(r, failed)
    BY <1>6 DEF Reject, Created
  <2>2. Quiet /\ ~ requests'[r].running
    BY <2>1, AnswerIsQuiet
  <2> QED
    BY <1>1, <2>1, <2>2 DEF Quiet
<1>7. CASE NoRequest \/ Crash \/ CommitOffset \/ UNCHANGED vars
  <2>1. requests' = requests /\ waiting' = waiting
    BY <1>1, <1>7 DEF NoRequest, Crash, CommitOffset, vars, job, Polling, Finish
  <2> QED
    BY <1>1, <2>1
<1> QED
  BY <1>1, <1>3, <1>4, <1>5, <1>6, <1>7 DEF Next, Process

-----------------------------------------------------------------------------
(* The store follows the topic.                                            *)

(* An event is finished that leaves nothing in the key.                    *)
LEMMA Passed ==
    ASSUME NEW T, NEW k, NEW s, NEW p \in Nat, NEW m \in Nat, NEW m2 \in Nat,
           m <= m2, p + 1 <= m2, BehindIn(T, p, m, s, k), WritesIn(T, k, p + 1) = {}
    PROVE  BehindIn(T, p + 1, m2, s, k)
<1>1. PICK n \in p .. m : s[k] = ValueIn(T, k, n)
  BY DEF BehindIn
<1>2. CASE n = p
  <2>1. s[k] = ValueIn(T, k, p + 1) /\ p + 1 \in p + 1 .. m2
    BY <1>1, <1>2, ValueNext
  <2> QED
    BY <2>1 DEF BehindIn
<1>3. CASE n # p
  <2>1. n \in p + 1 .. m2
    BY <1>1, <1>3
  <2> QED
    BY <1>1, <2>1 DEF BehindIn
<1> QED
  BY <1>2, <1>3

(* An event is finished and all it leaves in the key was added.            *)
LEMMA Written ==
    ASSUME NEW T, NEW k, NEW s, NEW p \in Nat, NEW m2 \in Nat, p + 1 <= m2,
           WritesIn(T, k, p + 1) # {}, s[k] = LastWrite(T, k, p + 1)
    PROVE  BehindIn(T, p + 1, m2, s, k)
<1>1. s[k] = ValueIn(T, k, p + 1) /\ p + 1 \in p + 1 .. m2
  BY ValueNext
<1> QED
  BY <1>1 DEF BehindIn

LEMMA EmitFollows ==
    ASSUME TypeOK, Emit, NEW k, NEW added,
           KeyFollowsIn(topic, position, reached, waiting, added, store, k)
    PROVE  KeyFollowsIn(topic', position, reached, waiting, added, store, k)
<1>1. /\ \A n \in 1 .. Len(topic) : topic[n] = topic'[n]
      /\ Len(topic) \in Nat
  BY EmitKeeps
<1>2. \A n \in position .. reached : n \in 0 .. Len(topic)
  BY <1>1 DEF TypeOK
<1>3. \A n \in position .. reached : ValueIn(topic, k, n) = ValueIn(topic', k, n)
  BY <1>1, <1>2, PrefixKept
<1>4. BehindIn(topic, position, reached, store, k) => BehindIn(topic', position, reached, store, k)
  BY <1>3 DEF BehindIn
<1>5. CASE waiting = 0
  BY <1>4, <1>5 DEF KeyFollowsIn
<1>6. CASE waiting # 0
  <2>1. topic[position + 1] = topic'[position + 1]
    BY <1>1, <1>6, WaitingEvent, TopicDomain
  <2>2. /\ AspectsIn(topic, position + 1) = AspectsIn(topic', position + 1)
        /\ WritesIn(topic, k, position + 1) = WritesIn(topic', k, position + 1)
    BY <2>1 DEF AspectsIn, WritesIn
  <2>3. DoneIn(topic, position, added, k) = DoneIn(topic', position, added, k)
    BY <2>2 DEF DoneIn
  <2> QED
    BY <1>4, <2>2, <2>3 DEF KeyFollowsIn
<1> QED
  BY <1>5, <1>6

LEMMA AddFollows ==
    ASSUME TypeOK, RequestInv, NEW r \in DOMAIN requests, r = waiting, Add(r), NEW k \in Keys,
           KeyFollowsIn(topic, position, reached, waiting, requests[waiting].added, store, k)
    PROVE  KeyFollowsIn(topic, position, reached, waiting, requests'[waiting].added, store', k)
<1> DEFINE n == requests[r].added + 1
           A == AspectsIn(topic, position + 1)
           W == WritesIn(topic, k, position + 1)
           D == DoneIn(topic, position, n, k)
<1>1. waiting # 0 /\ requests[r].event = position + 1
  BY WaitingEvent DEF TypeOK
<1>2. /\ n \in DOMAIN A /\ A[n] \in Keys \X Values /\ A[n][2] # Invalid
      /\ store' = [store EXCEPT ![A[n][1]] = A[n][2]]
      /\ requests'[r].added = n
  BY <1>1, AddEffect DEF Aspects, AspectsIn
<1>3. /\ topic[position + 1].kind = "snapshot" /\ requests[r].added \in Nat
      /\ \A j \in 1 .. requests[r].added : A[j][2] # Invalid
  BY <1>1, RestIs DEF RequestInv, Aspects, AspectsIn
<1>4. A \in Seq(Keys \X Values) /\ store \in [Keys -> (Values \ {Invalid}) \cup {None}]
  BY <1>1, RestIs, EventType DEF Aspects, AspectsIn, TypeOK
<1>5. \A j \in 1 .. n : A[j][2] # Invalid
  BY <1>2, <1>3
<1>6. CASE A[n][1] = k
  <2>1. n \in W
    BY <1>2, <1>3, <1>5, <1>6 DEF WritesIn
  <2>2. n \in D /\ \A j \in D : j <= n
    BY <1>3, <2>1 DEF DoneIn
  <2>3. D \in SUBSET (1 .. n) /\ n \in Nat
    <3>1. \A i \in D : i \in DOMAIN A /\ i <= n
      BY DEF DoneIn, WritesIn
    <3>2. DOMAIN A \subseteq Nat \ {0}
      BY <1>4
    <3>3. n \in Nat
      BY <1>3
    <3>4. \A i \in D : i \in 1 .. n
      <4> HIDE DEF D, A, n
      <4> QED
        BY <3>1, <3>2, <3>3
    <3> QED
      BY <3>3, <3>4
  <2>4. LastOf(D) = n
    <3> HIDE DEF D, n
    <3> QED
      BY <2>2, <2>3, LastIsGreatest
  <2>5. store'[k] = A[n][2]
    BY <1>2, <1>4, <1>6
  <2> QED
    BY <1>1, <1>2, <2>2, <2>4, <2>5 DEF KeyFollowsIn
<1>7. CASE A[n][1] # k
  <2>1. n \notin W
    BY <1>7 DEF WritesIn
  <2>2. \A i \in W : i \in Nat
    BY <1>4 DEF WritesIn
  <2>3. D = DoneIn(topic, position, requests[r].added, k)
    BY <1>3, <2>1, <2>2 DEF DoneIn
  <2>4. store'[k] = store[k]
    BY <1>2, <1>4, <1>7
  <2>5. BehindIn(topic, position, reached, store, k)
           => BehindIn(topic, position, reached, store', k)
    BY <2>4 DEF BehindIn
  <2> QED
    BY <1>1, <1>2, <2>3, <2>4, <2>5 DEF KeyFollowsIn
<1> QED
  BY <1>6, <1>7

(* A request that ends has added all that its event leaves in the store.   *)
LEMMA AllDone ==
    ASSUME TypeOK, NEW r \in DOMAIN requests, r = waiting, Reject(r) \/ Created(r), NEW k
    PROVE  DoneIn(topic, position, requests[r].added, k) = WritesIn(topic, k, position + 1)
<1> DEFINE A == AspectsIn(topic, position + 1)
           added == requests[r].added
<1>1. waiting # 0 /\ requests[r].event = position + 1
  BY WaitingEvent DEF TypeOK
<1>2. A \in Seq(Keys \X Values) /\ added \in Nat
  BY <1>1, RestIs, EventType DEF Aspects, AspectsIn
<1>3. \/ added = Len(A)
      \/ added + 1 \in DOMAIN A /\ A[added + 1][2] = Invalid
  BY <1>1, RestIs DEF Reject, Created, Aspects, AspectsIn
<1> HIDE DEF added
<1>4. \A i \in WritesIn(topic, k, position + 1) :
          i \in 1 .. Len(A) /\ \A j \in 1 .. i : A[j][2] # Invalid
  BY <1>2 DEF WritesIn
<1>5. \A i \in WritesIn(topic, k, position + 1) : i <= added
  <2> HIDE DEF A
  <2> QED
    BY <1>2, <1>3, <1>4
<1> QED
  BY <1>5 DEF DoneIn, added

LEMMA AnswerFollows ==
    ASSUME TypeOK, NEW r \in DOMAIN requests, r = waiting, Reject(r) \/ Created(r), NEW k,
           KeyFollowsIn(topic, position, reached, waiting, requests[waiting].added, store, k)
    PROVE  /\ waiting' = 0 /\ topic' = topic /\ store' = store /\ position' = position + 1
           /\ BehindIn(topic, position + 1, reached', store, k)
<1>1. waiting # 0 /\ position < Len(topic)
  BY WaitingEvent DEF TypeOK
<1>2. /\ topic' = topic /\ store' = store
      /\ \E failed \in BOOLEAN : Finish(failed)
  BY DEF Reject, Created, Answer
<1>3. /\ waiting' = 0 /\ position' = position + 1 /\ reached <= reached'
      /\ reached' \in position' .. Len(topic)
  BY <1>1, <1>2, FinishEffect
<1>4. /\ position \in Nat /\ reached \in Nat /\ reached' \in Nat
      /\ position + 1 <= reached'
  BY <1>3, TopicDomain DEF TypeOK
<1>5. DoneIn(topic, position, requests[waiting].added, k) = WritesIn(topic, k, position + 1)
  BY AllDone
<1>6. CASE WritesIn(topic, k, position + 1) = {}
  <2>1. BehindIn(topic, position, reached, store, k)
    BY <1>5, <1>6 DEF KeyFollowsIn
  <2>2. BehindIn(topic, position + 1, reached', store, k)
    BY <1>3, <1>4, <1>6, <2>1, Passed
  <2> QED
    BY <1>2, <1>3, <2>2
<1>7. CASE WritesIn(topic, k, position + 1) # {}
  <2>1. store[k] = LastWrite(topic, k, position + 1)
    BY <1>1, <1>5, <1>7 DEF KeyFollowsIn, LastWrite
  <2>2. BehindIn(topic, position + 1, reached', store, k)
    BY <1>4, <1>7, <2>1, Written
  <2> QED
    BY <1>2, <1>3, <2>2
<1> QED
  BY <1>6, <1>7

LEMMA FollowsStep == IInv /\ [Next]_vars => Follows'
<1> SUFFICES ASSUME IInv, [Next]_vars, InOrder', NEW k \in Keys
             PROVE  KeyFollowsIn(topic', position', reached', waiting',
                                 requests'[waiting'].added, store', k)
  BY DEF Follows
<1>1. /\ TypeOK /\ RequestInv
      /\ KeyFollowsIn(topic, position, reached, waiting, requests[waiting].added, store, k)
      /\ \A r \in DOMAIN requests : requests[r].running => r = waiting
      /\ ~ SendFails /\ ~ Timeout /\ ~ GmsCrash
      /\ \A r \in DOMAIN requests : ~ AddFails(r)
      /\ Crash => waiting = 0
  BY OrderWasKept DEF IInv, Alone, Follows
<1>2. CASE Emit
  BY <1>1, <1>2, EmitKeeps, EmitFollows
<1>3. CASE SendRequest
  <2>1. /\ BehindIn(topic, position, reached, store, k)
        /\ requests'[waiting'].added = 0
        /\ UNCHANGED <<topic, position, reached, store>>
    BY <1>1, <1>3, SendRequestEffect DEF KeyFollowsIn
  <2>2. Aspects(position + 1) \in Seq(Keys \X Values)
    BY <1>1, <1>3, SendRequestEffect, EventType
  <2>3. DoneIn(topic, position, 0, k) = {}
    BY <2>2 DEF DoneIn, WritesIn, Aspects, AspectsIn
  <2> QED
    BY <2>1, <2>3 DEF KeyFollowsIn
<1>4. ASSUME NEW r \in DOMAIN requests, Add(r)
      PROVE  KeyFollowsIn(topic', position', reached', waiting',
                          requests'[waiting'].added, store', k)
  <2>1. r = waiting
    BY <1>1, <1>4 DEF Add
  <2>2. UNCHANGED <<topic, position, reached, waiting>>
    BY <1>1, <1>4, AddEffect
  <2> QED
    BY <1>1, <1>4, <2>1, <2>2, AddFollows
<1>5. ASSUME NEW r \in DOMAIN requests, Reject(r) \/ Created(r)
      PROVE  KeyFollowsIn(topic', position', reached', waiting',
                          requests'[waiting'].added, store', k)
  <2>1. r = waiting
    BY <1>1, <1>5 DEF Reject, Created
  <2>2. /\ waiting' = 0 /\ topic' = topic /\ store' = store /\ position' = position + 1
        /\ BehindIn(topic, position + 1, reached', store, k)
    BY <1>1, <1>5, <2>1, AnswerFollows
  <2> QED
    BY <2>2 DEF KeyFollowsIn
<1>6. CASE NoRequest
  <2>1. /\ waiting = 0 /\ position < Len(topic) /\ topic[position + 1].kind # "snapshot"
        /\ topic' = topic /\ store' = store /\ \E failed \in BOOLEAN : Finish(failed)
    BY <1>6 DEF NoRequest, Polling, Kind
  <2>2. /\ waiting' = 0 /\ position' = position + 1 /\ reached <= reached'
        /\ reached' \in position' .. Len(topic)
    BY <1>1, <2>1, FinishEffect
  <2>3. position \in Nat /\ reached \in Nat /\ reached' \in Nat /\ position + 1 <= reached'
    BY <1>1, <2>2, TopicDomain DEF TypeOK
  <2>4. WritesIn(topic, k, position + 1) = {}
    BY <2>1 DEF WritesIn
  <2>5. BehindIn(topic, position, reached, store, k)
    BY <1>1, <2>1 DEF KeyFollowsIn
  <2>6. BehindIn(topic, position + 1, reached', store, k)
    BY <2>2, <2>3, <2>4, <2>5, Passed
  <2> QED
    BY <2>1, <2>2, <2>6 DEF KeyFollowsIn
<1>7. CASE Crash
  <2>1. /\ waiting = 0 /\ waiting' = 0 /\ position' = committed
        /\ UNCHANGED <<topic, reached, store>>
    BY <1>1, <1>7 DEF Crash
  <2>2. \A n \in position .. reached : n \in position' .. reached
    BY <1>1, <2>1, TopicDomain DEF TypeOK
  <2>3. BehindIn(topic, position, reached, store, k)
    BY <1>1, <2>1 DEF KeyFollowsIn
  <2> QED
    BY <2>1, <2>2, <2>3 DEF KeyFollowsIn, BehindIn
<1>8. CASE CommitOffset \/ UNCHANGED vars
  BY <1>1, <1>8 DEF CommitOffset, vars, job
<1> QED
  BY <1>1, <1>2, <1>3, <1>4, <1>5, <1>6, <1>7, <1>8 DEF Next, Process

-----------------------------------------------------------------------------
LEMMA InitInv == Init => IInv
<1> SUFFICES ASSUME Init PROVE IInv
  OBVIOUS
<1>1. /\ position = 0 /\ waiting = 0 /\ reached = 0 /\ DOMAIN requests = {}
      /\ store = [k \in Keys |-> None]
  BY DEF Init
<1>2. RequestInv /\ Settled /\ Alone
  BY <1>1 DEF RequestInv, Settled, Alone
<1>3. ASSUME NEW k \in Keys PROVE BehindIn(topic, 0, 0, store, k)
  <2>1. WritersIn(topic, k, 0) = {}
    BY DEF WritersIn
  <2>2. store[k] = ValueIn(topic, k, 0) /\ 0 \in 0 .. 0
    BY <1>1, <2>1 DEF ValueIn
  <2> QED
    BY <2>2 DEF BehindIn
<1>4. Follows
  BY <1>1, <1>3 DEF Follows, KeyFollowsIn
<1> QED
  BY <1>2, <1>4, InitType DEF IInv

LEMMA InvProcessed == IInv => ProcessedIsStored
<1> SUFFICES ASSUME IInv PROVE ProcessedIsStored
  OBVIOUS
<1>1. StoreFollowsTopic
  <2> SUFFICES ASSUME waiting = 0, InOrder, NEW k \in Keys
               PROVE  \E n \in position .. reached : store[k] = ValueAfter(k, n)
    BY DEF StoreFollowsTopic, InOrder
  <2>1. PICK n \in position .. reached : store[k] = ValueIn(topic, k, n)
    BY DEF IInv, Follows, KeyFollowsIn, BehindIn
  <2> QED
    BY <2>1, ValueIs
<1>2. LostOnlyIfLogged
  <2>1. \A n \in 1 .. position : n \in 1 .. reached
    BY TopicDomain DEF IInv, TypeOK
  <2> QED
    BY <2>1 DEF IInv, Settled, LostOnlyIfLogged
<1> QED
  BY <1>1, <1>2 DEF ProcessedIsStored

(* Between two events the store holds what a prefix of the topic leaves    *)
(* there unless a request failed half way or was left running, and every   *)
(* event the job has gone past was added, asked for nothing or was logged: *)
(* for any keys, events, bounds and faults of the job and of GMS.          *)
THEOREM ProcessedIsStoredAlways == Spec => []ProcessedIsStored
<1>1. IInv /\ [Next]_vars => IInv'
  BY TypeStep, RequestStep, SettledStep, AloneStep, FollowsStep DEF IInv
<1> QED
  BY <1>1, InitInv, InvProcessed, PTL DEF Spec

-----------------------------------------------------------------------------
(* The parts together.                                                     *)

PartsInv == focus \in Focus /\ IdInv /\ WellFormed(graph) /\ TypeOK

(* Each part keeps its types while the others rest, whichever of them      *)
(* moves: no id, node, edge or stored aspect but real ones, and requests   *)
(* only about events of the topic.                                         *)
THEOREM PartsHaveTypes == PartsSpec => []PartsTypeOK
<1>1. PartsInit => PartsInv
  BY IdInitInv, GraphInitInv, InitType DEF PartsInit, PartsInv
<1>2. PartsInv /\ [PartsNext]_<<focus, idVars, graph, vars>> => PartsInv'
  <2> SUFFICES ASSUME PartsInv, [PartsNext]_<<focus, idVars, graph, vars>> PROVE PartsInv'
    OBVIOUS
  <2>1. [IdNext]_idVars /\ [GraphNext]_graph /\ [Next]_vars /\ focus' = focus
    BY DEF PartsNext
  <2>2. IdInv' /\ WellFormed(graph)' /\ TypeOK'
    BY <2>1, IdInvStep, GraphInvStep, TypeStep DEF PartsInv
  <2> QED
    BY <2>1, <2>2 DEF PartsInv
<1>3. PartsInv => PartsTypeOK
  BY DEF PartsInv, PartsTypeOK, IdInv, WellFormed, GraphTypeOK
<1> QED
  BY <1>1, <1>2, <1>3, PTL DEF PartsSpec

(* Whichever part moves, each keeps all its promises: ids in order, a      *)
(* sound graph with exact edits, and processed events stored or logged.    *)
THEOREM PartsKeepPromises ==
    PartsSpec => [](PartsTypeOK /\ IdsAreInOrder /\ GraphIsSound /\ ProcessedIsStored) /\ EditsAreExact
<1>1. PartsInit => IdInit /\ GraphInit /\ Init
  BY DEF PartsInit
<1>2. [PartsNext]_<<focus, idVars, graph, vars>> => [IdNext]_idVars /\ [GraphNext]_graph /\ [Next]_vars
  BY DEF PartsNext
<1>3. PartsSpec => IdSpec /\ GraphSpec /\ Spec
  BY <1>1, <1>2, PTL DEF PartsSpec, IdSpec, GraphSpec, Spec
<1> QED
  BY <1>3, PartsHaveTypes, NumericIds, GraphIsWellFormed, EditsExact, ProcessedIsStoredAlways, PTL
=============================================================================
