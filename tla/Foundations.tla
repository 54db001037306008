---------------------------- MODULE Foundations -----------------------------
(***************************************************************************)
(* Facts the proofs about every component rest on: least and greatest      *)
(* elements of sets of naturals, which the CHOOSE of a largest version, a  *)
(* last list entry or a last topic offset relies on, and what a filter     *)
(* keeps of a list.  Induction over the length of a list is the search for *)
(* the least length at which a claim fails.                                *)
(***************************************************************************)
EXTENDS Lists, SequenceTheorems, WellFoundedInduction, TLAPS

(* Every non-empty set of naturals has a least element: the naturals are   *)
(* well founded, so a version, a list position or an offset can be chosen. *)
LEMMA NatHasLeast ==
    \A T \in SUBSET Nat : T # {} => \E x \in T : \A y \in T : x <= y
<1>1. IsWellFoundedOn(OpToRel(<, Nat), Nat)
  BY NatLessThanWellFounded
<1>2. SUFFICES ASSUME NEW T \in SUBSET Nat, T # {}
               PROVE  \E x \in T : \A y \in T : x <= y
  OBVIOUS
<1>3. PICK x \in T : \A y \in T : ~ (<<y, x>> \in OpToRel(<, Nat))
  BY <1>1, <1>2, WFMin
<1>4. \A y \in T : ~ (y < x)
  BY <1>3 DEF OpToRel
<1> QED
  BY <1>4

(* A bounded non-empty set of naturals has a greatest element: the largest *)
(* version of a table, the last offset of a topic that matches.            *)
LEMMA BoundedHasGreatest ==
    ASSUME NEW S \in SUBSET Nat, S # {}, NEW n \in Nat, \A s \in S : s < n
    PROVE  \E v \in S : \A w \in S : w <= v
<1> DEFINE T == {t \in Nat : n - t \in S}
<1>1. T # {}
  <2>1. PICK s \in S : TRUE
    OBVIOUS
  <2>2. n - s \in T
    BY <2>1
  <2> QED
    BY <2>2
<1>2. PICK x \in T : \A y \in T : x <= y
  BY <1>1, NatHasLeast
<1>3. \A s \in S : s <= n - x
  <2> SUFFICES ASSUME NEW s \in S PROVE s <= n - x
    OBVIOUS
  <2>1. s \in Nat /\ s < n
    OBVIOUS
  <2>2. n - s \in Nat /\ n - (n - s) = s
    BY <2>1
  <2>3. n - s \in T
    BY <2>2
  <2> QED
    BY <1>2, <2>1, <2>3
<1>4. n - x \in S
  BY <1>2
<1> QED
  BY <1>3, <1>4

(* A non-empty set of positions of a list has a last one.                  *)
LEMMA LastPosition ==
    ASSUME NEW n \in Nat, NEW S \in SUBSET (1 .. n), S # {}
    PROVE  \E i \in S : \A j \in S : j <= i
<1> DEFINE m == n + 1
<1>1. S \in SUBSET Nat /\ m \in Nat /\ \A s \in S : s < m
  OBVIOUS
<1> HIDE DEF m
<1> QED
  BY <1>1, BoundedHasGreatest

-----------------------------------------------------------------------------
(* Lists of values that are built step by step, each from the one before.  *)
Recursions(n, X, a, step) ==
    {f \in [0 .. n -> X] : f[0] = a /\ \A i \in 1 .. n : f[i] = step[i][f[i - 1]]}

(* There is one, for any step: the recursion of a filter is well defined.  *)
LEMMA FiniteRecursion ==
    ASSUME NEW n \in Nat, NEW X, NEW a \in X, NEW step \in [1 .. n -> [X -> X]]
    PROVE  Recursions(n, X, a, step) # {}
<1> DEFINE Built(m) == \E f \in [0 .. m -> X] :
                          f[0] = a /\ \A i \in 1 .. m : f[i] = step[i][f[i - 1]]
           Bad == {m \in 0 .. n : ~ Built(m)}
<1>1. Built(0)
  <2> DEFINE f == [i \in 0 .. 0 |-> a]
  <2>1. f \in [0 .. 0 -> X] /\ f[0] = a /\ \A i \in 1 .. 0 : f[i] = step[i][f[i - 1]]
    OBVIOUS
  <2> QED
    BY <2>1
<1>2. ASSUME NEW m \in 1 .. n, Built(m - 1) PROVE Built(m)
  <2>1. PICK f \in [0 .. m - 1 -> X] :
           f[0] = a /\ \A i \in 1 .. m - 1 : f[i] = step[i][f[i - 1]]
    BY <1>2
  <2> DEFINE g == [i \in 0 .. m |-> IF i = m THEN step[m][f[m - 1]] ELSE f[i]]
  <2>2. f[m - 1] \in X /\ step[m] \in [X -> X]
    OBVIOUS
  <2>3. g \in [0 .. m -> X]
    BY <2>2
  <2>4. \A i \in 1 .. m : g[i] = step[i][g[i - 1]]
    BY <2>1
  <2>5. g[0] = a
    BY <2>1
  <2> HIDE DEF g
  <2> QED
    BY <2>3, <2>4, <2>5
<1> HIDE DEF Built
<1>3. Bad = {}
  <2> SUFFICES ASSUME Bad # {} PROVE FALSE
    OBVIOUS
  <2>1. PICK m \in Bad : \A k \in Bad : m <= k
    <3>1. Bad \in SUBSET Nat
      OBVIOUS
    <3> HIDE DEF Bad
    <3> QED
      BY <3>1, NatHasLeast
  <2>2. m # 0
    BY <1>1
  <2>3. m - 1 \in 0 .. n /\ m - 1 \notin Bad /\ m \in 1 .. n
    BY <2>1, <2>2
  <2>4. Built(m - 1)
    BY <2>3
  <2> HIDE DEF Built
  <2> QED
    BY <1>2, <2>3, <2>4
<1>4. Built(n)
  BY <1>3
<1> QED
  BY <1>4 DEF Built, Recursions

(* The ways in which t is list without the entries outside S: the entries  *)
(* in S are there, each of them once, in their order.                      *)
Embeddings(t, list, S) ==
    {h \in [1 .. Len(t) -> 1 .. Len(list)] :
        /\ \A k \in 1 .. Len(t) : t[k] = list[h[k]]
        /\ \A k, l \in 1 .. Len(t) : k < l => h[k] < h[l]
        /\ \A i \in 1 .. Len(list) : list[i] \in S <=> \E k \in 1 .. Len(t) : h[k] = i}

(* The filter of a list, entry by entry.                                   *)
Filterings(T, list, S) ==
    {f \in [0 .. Len(list) -> Seq(T)] :
        /\ f[0] = <<>>
        /\ \A i \in 1 .. Len(list) :
               f[i] = IF list[i] \in S THEN Append(f[i - 1], list[i]) ELSE f[i - 1]
        /\ Only(list, S) = f[Len(list)]}

(* There is one: the recursive function of the filter is defined.          *)
LEMMA OnlyFilters ==
    ASSUME NEW T, NEW list \in Seq(T), NEW S
    PROVE  Filterings(T, list, S) # {}
<1> DEFINE n == Len(list)
           step == [i \in 1 .. n |-> [x \in Seq(T) |->
                       IF list[i] \in S THEN Append(x, list[i]) ELSE x]]
           rec(f) == [i \in 0 .. n |->
                         IF i = 0 THEN <<>>
                         ELSE IF list[i] \in S THEN Append(f[i - 1], list[i]) ELSE f[i - 1]]
           kept == CHOOSE f : f = rec(f)
<1>1. n \in Nat /\ \A i \in 1 .. n : list[i] \in T
  OBVIOUS
<1>2. step \in [1 .. n -> [Seq(T) -> Seq(T)]]
  BY <1>1
<1>3. PICK f \in [0 .. n -> Seq(T)] : f[0] = <<>> /\ \A i \in 1 .. n : f[i] = step[i][f[i - 1]]
  <2> DEFINE X == Seq(T)  a == <<>>
  <2>1. n \in Nat /\ a \in X /\ step \in [1 .. n -> [X -> X]]
    BY <1>2
  <2> HIDE DEF step, n, X, a
  <2>2. Recursions(n, X, a, step) # {}
    BY <2>1, FiniteRecursion
  <2> QED
    BY <2>2 DEF X, a, Recursions
<1>4. f = rec(f)
  <2>1. \A i \in 1 .. n : i - 1 \in 0 .. n /\ i \in 0 .. n /\ f[i - 1] \in Seq(T)
    BY <1>1
  <2>2. \A i \in 1 .. n : f[i] = IF list[i] \in S THEN Append(f[i - 1], list[i]) ELSE f[i - 1]
    BY <1>3, <2>1
  <2> DEFINE F(i) == IF i = 0 THEN <<>>
                     ELSE IF list[i] \in S THEN Append(f[i - 1], list[i]) ELSE f[i - 1]
  <2>3. \A i \in 0 .. n : f[i] = F(i)
    <3>1. \A i \in 0 .. n : i = 0 \/ (i # 0 /\ i \in 1 .. n)
      BY <1>1
    <3> HIDE DEF step, n
    <3> QED
      BY <1>3, <2>2, <3>1
  <2>4. f = [i \in 0 .. n |-> f[i]]
    OBVIOUS
  <2> HIDE DEF step, n, F
  <2>5. f = [i \in 0 .. n |-> F(i)]
    BY <2>3, <2>4
  <2> QED
    BY <2>5 DEF F
<1>5. kept = rec(kept)
  <2> HIDE DEF rec
  <2> QED
    BY <1>4
<1>6. Only(list, S) = kept[n]
  BY Zenon DEF Only
<1> HIDE DEF step, kept
<1> DEFINE Bad == {m \in 0 .. n : kept[m] \notin Seq(T)}
<1>7. kept[0] = <<>> /\ \A i \in 1 .. n :
        kept[i] = IF list[i] \in S THEN Append(kept[i - 1], list[i]) ELSE kept[i - 1]
  <2>1. \A i \in 0 .. n : kept[i] = rec(kept)[i]
    BY <1>5
  <2>2. 0 \in 0 .. n /\ \A i \in 1 .. n : i \in 0 .. n /\ i # 0
    BY <1>1
  <2> QED
    BY <2>1, <2>2
<1>8. Bad = {}
  <2> SUFFICES ASSUME Bad # {} PROVE FALSE
    OBVIOUS
  <2>1. PICK m \in Bad : \A k \in Bad : m <= k
    <3>1. Bad \in SUBSET Nat
      BY <1>1
    <3> HIDE DEF Bad
    <3> QED
      BY <3>1, NatHasLeast
  <2>a. <<>> \in Seq(T)
    OBVIOUS
  <2>2. m # 0
    BY <1>7, <2>a
  <2>3. m - 1 \in 0 .. n /\ m - 1 \notin Bad /\ m \in 1 .. n
    BY <1>1, <2>1, <2>2
  <2>4. kept[m - 1] \in Seq(T) /\ list[m] \in T
    BY <1>1, <2>3
  <2>b. kept[m] = IF list[m] \in S THEN Append(kept[m - 1], list[m]) ELSE kept[m - 1]
    BY <1>7, <2>3
  <2>5. kept[m] \in Seq(T)
    <3> HIDE DEF Bad, kept, n
    <3> QED
      BY <2>4, <2>b
  <2> QED
    BY <2>5
<1>9. kept = [i \in 0 .. n |-> kept[i]]
  <2>1. \A g : rec(g) = [i \in 0 .. n |-> rec(g)[i]]
    OBVIOUS
  <2> HIDE DEF rec
  <2> QED
    BY <1>5, <2>1
<1>10. kept \in [0 .. n -> Seq(T)]
  BY <1>8, <1>9
<1> HIDE DEF rec
<1>11. kept \in Filterings(T, list, S)
  BY <1>6, <1>7, <1>10 DEF Filterings
<1> QED
  BY <1>11
(* A filtered list has the entries of the list that are in the set, each   *)
(* of them once and in their order.                                        *)
LEMMA OnlyKeeps ==
    ASSUME NEW T, NEW list \in Seq(T), NEW S
    PROVE  Only(list, S) \in Seq(T) /\ Embeddings(Only(list, S), list, S) # {}
<1> DEFINE n == Len(list)
<1>1. n \in Nat /\ \A i \in 1 .. n : list[i] \in T
  OBVIOUS
<1>2. PICK kept \in [0 .. n -> Seq(T)] :
        /\ kept[0] = <<>>
        /\ \A i \in 1 .. n : kept[i] = IF list[i] \in S THEN Append(kept[i - 1], list[i]) ELSE kept[i - 1]
        /\ Only(list, S) = kept[n]
  <2>1. PICK kept : kept \in Filterings(T, list, S)
    BY OnlyFilters
  <2> QED
    BY <2>1 DEF Filterings
<1> DEFINE Embeds(i) == 
             /\ kept[i] \in Seq(T)
             /\ \E h \in [1 .. Len(kept[i]) -> 1 .. i] :
                 /\ \A k \in 1 .. Len(kept[i]) : kept[i][k] = list[h[k]]
                 /\ \A k, l \in 1 .. Len(kept[i]) : k < l => h[k] < h[l]
                 /\ \A j \in 1 .. i : list[j] \in S <=> \E k \in 1 .. Len(kept[i]) : h[k] = j
           Bad == {m \in 0 .. n : ~ Embeds(m)}
<1>3. Embeds(0)
  <2>1. kept[0] = <<>>
    BY <1>2
  <2> DEFINE h == [k \in 1 .. 0 |-> k]
  <2>2. h \in [1 .. 0 -> 1 .. 0]
    OBVIOUS
  <2>3. Len(kept[0]) = 0 /\ kept[0] \in Seq(T)
    BY <2>1
  <2> HIDE DEF h
  <2> QED
    BY <2>2, <2>3
<1>4. ASSUME NEW m \in 1 .. n, Embeds(m - 1) PROVE Embeds(m)
  <2> DEFINE s == kept[m - 1]  t == kept[m]
  <2>1. PICK h \in [1 .. Len(s) -> 1 .. m - 1] :
                 /\ \A k \in 1 .. Len(s) : s[k] = list[h[k]]
                 /\ \A k, l \in 1 .. Len(s) : k < l => h[k] < h[l]
                 /\ \A j \in 1 .. m - 1 : list[j] \in S <=> \E k \in 1 .. Len(s) : h[k] = j
    BY <1>4
  <2>2. s \in Seq(T) /\ list[m] \in T /\ Len(s) \in Nat
    BY <1>1, <1>4
  <2>3. t = IF list[m] \in S THEN Append(s, list[m]) ELSE s
    BY <1>2
  <2> HIDE DEF s, t
  <2>4. CASE list[m] \in S
    <3> DEFINE g == [k \in 1 .. Len(s) + 1 |-> IF k = Len(s) + 1 THEN m ELSE h[k]]
    <3>1. t = Append(s, list[m]) /\ t \in Seq(T) /\ Len(t) = Len(s) + 1
      BY <2>2, <2>3, <2>4
    <3>2. g \in [1 .. Len(t) -> 1 .. m]
      BY <2>2, <3>1
    <3>3. \A k \in 1 .. Len(t) : t[k] = list[g[k]]
      BY <2>1, <2>2, <3>1
    <3>4. \A k, l \in 1 .. Len(t) : k < l => g[k] < g[l]
      <4> SUFFICES ASSUME NEW k \in 1 .. Len(t), NEW l \in 1 .. Len(t), k < l PROVE g[k] < g[l]
        OBVIOUS
      <4>1. k \in 1 .. Len(s) /\ g[k] = h[k] /\ h[k] \in 1 .. m - 1
        <5>1. k \in 1 .. Len(s) /\ k # Len(s) + 1
          BY <2>2, <3>1
        <5> QED
          BY <2>2, <3>1, <5>1
      <4>2. l \in 1 .. Len(s) \/ l = Len(s) + 1
        BY <2>2, <3>1
      <4>3. CASE l \in 1 .. Len(s)
        BY <2>1, <2>2, <4>1, <4>3
      <4>4. CASE l = Len(s) + 1
        BY <2>2, <3>1, <4>1, <4>4
      <4> QED
        BY <4>2, <4>3, <4>4
    <3>5. \A j \in 1 .. m : list[j] \in S <=> \E k \in 1 .. Len(t) : g[k] = j
      <4> SUFFICES ASSUME NEW j \in 1 .. m
                   PROVE  list[j] \in S <=> \E k \in 1 .. Len(t) : g[k] = j
        OBVIOUS
      <4>1. CASE j = m
        <5>1. g[Len(t)] = m /\ Len(t) \in 1 .. Len(t)
          BY <2>2, <3>1
        <5> QED
          BY <4>1, <5>1, <2>4
      <4>2. CASE j # m
        <5>1. j \in 1 .. m - 1
          BY <4>2
        <5>2. \A k \in 1 .. Len(s) : g[k] = h[k] /\ k \in 1 .. Len(t)
          BY <2>2, <3>1
        <5>3. \A k \in 1 .. Len(t) : g[k] = j => k \in 1 .. Len(s)
          BY <2>2, <3>1, <4>2
        <5> HIDE DEF g
        <5> QED
          BY <2>1, <5>1, <5>2, <5>3
      <4> QED
        BY <4>1, <4>2
    <3> HIDE DEF g
    <3> QED
      BY <3>1, <3>2, <3>3, <3>4, <3>5 DEF t
  <2>5. CASE list[m] \notin S
    <3>1. t = s
      BY <2>3, <2>5
    <3>2. h \in [1 .. Len(t) -> 1 .. m]
      BY <2>2, <3>1
    <3>3. \A j \in 1 .. m : list[j] \in S <=> \E k \in 1 .. Len(t) : h[k] = j
      <4>1. \A k \in 1 .. Len(t) : h[k] \in 1 .. m - 1
        BY <3>1
      <4>2. \A j \in 1 .. m : j = m \/ j \in 1 .. m - 1
        OBVIOUS
      <4> QED
        BY <2>1, <2>5, <3>1, <4>1, <4>2
    <3> QED
      BY <2>1, <2>2, <3>1, <3>2, <3>3 DEF t
  <2> QED
    BY <2>4, <2>5
<1>5. Bad = {}
  <2> SUFFICES ASSUME Bad # {} PROVE FALSE
    OBVIOUS
  <2>1. PICK m \in Bad : \A k \in Bad : m <= k
    <3>1. Bad \in SUBSET Nat
      BY <1>1
    <3> HIDE DEF Bad
    <3> QED
      BY <3>1, NatHasLeast
  <2> HIDE DEF Embeds
  <2>2. m # 0
    BY <1>3
  <2>3. m - 1 \in 0 .. n /\ m - 1 \notin Bad /\ m \in 1 .. n
    BY <1>1, <2>1, <2>2
  <2>4. Embeds(m - 1)
    BY <2>3
  <2> QED
    BY <1>4, <2>3, <2>4
<1>6. Embeds(n)
  <2> HIDE DEF Embeds
  <2> QED
    BY <1>1, <1>5
<1>7. Only(list, S) = kept[n]
  BY <1>2
<1>8. PICK h \in [1 .. Len(kept[n]) -> 1 .. n] :
                 /\ \A k \in 1 .. Len(kept[n]) : kept[n][k] = list[h[k]]
                 /\ \A k, l \in 1 .. Len(kept[n]) : k < l => h[k] < h[l]
                 /\ \A j \in 1 .. n : list[j] \in S <=> \E k \in 1 .. Len(kept[n]) : h[k] = j
  BY <1>6
<1>9. h \in Embeddings(kept[n], list, S)
  BY <1>8 DEF Embeddings
<1>10. kept[n] \in Seq(T)
  BY <1>6
<1> QED
  BY <1>7, <1>9, <1>10

(* What a filter keeps of an empty list, and of a list with one entry more. *)
LEMMA OnlyOfEmpty ==
    ASSUME NEW S PROVE Only(<<>>, S) = <<>>
<1> DEFINE T == {}  list == <<>>
<1>1. list \in Seq(T) /\ Len(list) = 0
  OBVIOUS
<1> HIDE DEF list
<1>2. PICK f : f \in Filterings(T, list, S)
  BY <1>1, OnlyFilters
<1>3. f[0] = <<>> /\ Only(list, S) = f[Len(list)]
  BY <1>2 DEF Filterings
<1> QED
  BY <1>1, <1>3 DEF list

LEMMA OnlyAppend ==
    ASSUME NEW T, NEW list \in Seq(T), NEW x \in T, NEW S
    PROVE  Only(Append(list, x), S) = IF x \in S THEN Append(Only(list, S), x) ELSE Only(list, S)
<1> DEFINE more == Append(list, x)  n == Len(list)
<1>1. /\ n \in Nat /\ more \in Seq(T) /\ Len(more) = n + 1 /\ more[n + 1] = x
      /\ \A i \in 1 .. n : more[i] = list[i]
  OBVIOUS
<1> HIDE DEF more
<1>2. PICK f : f \in Filterings(T, list, S)
  BY OnlyFilters
<1>3. PICK g : g \in Filterings(T, more, S)
  BY <1>1, OnlyFilters
<1>4. /\ f[0] = <<>> /\ Only(list, S) = f[n]
      /\ \A i \in 1 .. n : f[i] = IF list[i] \in S THEN Append(f[i - 1], list[i]) ELSE f[i - 1]
  BY <1>2 DEF Filterings
<1>5. /\ g[0] = <<>> /\ Only(more, S) = g[n + 1]
      /\ \A i \in 1 .. n + 1 : g[i] = IF more[i] \in S THEN Append(g[i - 1], more[i]) ELSE g[i - 1]
  BY <1>1, <1>3 DEF Filterings
<1> DEFINE Bad == {m \in 0 .. n : f[m] # g[m]}
<1>6. Bad = {}
  <2> SUFFICES ASSUME Bad # {} PROVE FALSE
    OBVIOUS
  <2>1. PICK m \in Bad : \A k \in Bad : m <= k
    <3>1. Bad \in SUBSET Nat
      BY <1>1
    <3> HIDE DEF Bad
    <3> QED
      BY <3>1, NatHasLeast
  <2>2. m # 0
    BY <1>4, <1>5
  <2>3. m - 1 \in 0 .. n /\ m - 1 \notin Bad /\ m \in 1 .. n /\ m \in 1 .. n + 1
    BY <1>1, <2>1, <2>2
  <2>4. f[m - 1] = g[m - 1] /\ list[m] = more[m]
    BY <1>1, <2>3
  <2>5. f[m] = IF list[m] \in S THEN Append(f[m - 1], list[m]) ELSE f[m - 1]
    BY <1>4, <2>3
  <2>6. g[m] = IF more[m] \in S THEN Append(g[m - 1], more[m]) ELSE g[m - 1]
    BY <1>5, <2>3
  <2>7. f[m] # g[m]
    BY <2>1
  <2> HIDE DEF Bad, n
  <2> QED
    BY <2>4, <2>5, <2>6, <2>7
<1>7. f[n] = g[n]
  BY <1>1, <1>6
<1>8. g[n + 1] = IF x \in S THEN Append(g[n], x) ELSE g[n]
  <2>1. n + 1 \in 1 .. n + 1 /\ (n + 1) - 1 = n
    BY <1>1
  <2> HIDE DEF n
  <2> QED
    BY <1>1, <1>5, <2>1
<1> QED
  BY <1>4, <1>5, <1>7, <1>8 DEF more

(* An entry added to two lists, one after the other, is added to the second. *)
AppendsLast(a, b, x) == Append(a \o b, x) = a \o Append(b, x)

LEMMA ConcatAppend ==
    ASSUME NEW T, NEW a \in Seq(T), NEW b \in Seq(T), NEW x \in T PROVE AppendsLast(a, b, x)
BY DEF AppendsLast

(* The filter of two lists, one after the other.                           *)
LEMMA OnlyConcat ==
    ASSUME NEW T, NEW l \in Seq(T), NEW m \in Seq(T), NEW S
    PROVE  Only(l \o m, S) = Only(l, S) \o Only(m, S)
<1> DEFINE n == Len(m)
           part(k) == SubSeq(m, 1, k)
           Bad == {k \in 0 .. n : Only(l \o part(k), S) # Only(l, S) \o Only(part(k), S)}
<1>1. n \in Nat /\ \A k \in 0 .. n : part(k) \in Seq(T)
  OBVIOUS
<1>2. Only(l, S) \in Seq(T) /\ \A k \in 0 .. n : Only(part(k), S) \in Seq(T)
  <2> HIDE DEF part, n
  <2> QED
    BY <1>1, OnlyKeeps
<1>3. Bad = {}
  <2> SUFFICES ASSUME Bad # {} PROVE FALSE
    OBVIOUS
  <2>1. PICK k \in Bad : \A i \in Bad : k <= i
    <3>1. Bad \in SUBSET Nat
      BY <1>1
    <3> HIDE DEF Bad
    <3> QED
      BY <3>1, NatHasLeast
  <2>2. k # 0
    <3>1. l \o part(0) = l /\ part(0) = <<>>
      OBVIOUS
    <3>2. Only(part(0), S) = <<>>
      BY <3>1, OnlyOfEmpty
    <3>3. Only(l, S) \o <<>> = Only(l, S)
      BY <1>2
    <3> HIDE DEF part
    <3> QED
      BY <2>1, <3>1, <3>2, <3>3
  <2>3. k - 1 \in 0 .. n /\ k - 1 \notin Bad /\ k \in 1 .. n
    <3>1. k \in 0 .. n
      OBVIOUS
    <3> HIDE DEF n, part, Bad
    <3>2. k \in 1 .. n /\ k - 1 \in 0 .. n /\ ~ (k <= k - 1)
      BY <1>1, <2>2, <3>1
    <3> QED
      BY <2>1, <3>2
  <2> DEFINE p == part(k - 1)  x == m[k]
  <2>4. p \in Seq(T) /\ x \in T /\ l \o p \in Seq(T)
    BY <1>1, <2>3
  <2>5. part(k) = Append(p, x)
    BY <2>3
  <2>6. l \o part(k) = Append(l \o p, x)
    <3> HIDE DEF p, x, part
    <3>1. AppendsLast(l, p, x)
      BY <2>4, ConcatAppend
    <3> QED
      BY <2>5, <3>1 DEF AppendsLast
  <2>7. Only(l \o p, S) = Only(l, S) \o Only(p, S)
    BY <2>3
  <2>8. Only(l \o part(k), S) # Only(l, S) \o Only(part(k), S)
    BY <2>1
  <2>9. Only(p, S) \in Seq(T)
    BY <1>2, <2>3
  <2> HIDE DEF p, x, part, n, Bad
  <2>10. Only(Append(p, x), S) = IF x \in S THEN Append(Only(p, S), x) ELSE Only(p, S)
    BY <2>4, OnlyAppend
  <2>11. Only(Append(l \o p, x), S) = IF x \in S THEN Append(Only(l \o p, S), x) ELSE Only(l \o p, S)
    BY <2>4, OnlyAppend
  <2>12. Append(Only(l, S) \o Only(p, S), x) = Only(l, S) \o Append(Only(p, S), x)
    <3>1. PICK a \in Seq(T) : a = Only(l, S)
      BY <1>2
    <3>2. PICK b \in Seq(T) : b = Only(p, S)
      BY <2>9
    <3>3. AppendsLast(a, b, x)
      BY <2>4, ConcatAppend
    <3> QED
      BY <3>1, <3>2, <3>3 DEF AppendsLast
  <2> QED
    BY <2>5, <2>6, <2>7, <2>8, <2>10, <2>11, <2>12
<1>4. part(n) = m
  OBVIOUS
<1>5. n \in 0 .. n /\ n \notin Bad
  BY <1>1, <1>3
<1> HIDE DEF part, n
<1> QED
  BY <1>4, <1>5

(* A list without its entry at a position: what it holds, and where.       *)
Without(list, i) == SubSeq(list, 1, i - 1) \o SubSeq(list, i + 1, Len(list))

LEMMA WithoutEntry ==
    ASSUME NEW T, NEW list \in Seq(T), NEW i \in 1 .. Len(list)
    PROVE  /\ Without(list, i) \in Seq(T)
           /\ Len(Without(list, i)) = Len(list) - 1
           /\ \A k \in 1 .. Len(list) - 1 : Without(list, i)[k] = IF k < i THEN list[k] ELSE list[k + 1]
<1> DEFINE a == SubSeq(list, 1, i - 1)  b == SubSeq(list, i + 1, Len(list))
<1>1. /\ a \in Seq(T) /\ Len(a) = i - 1 /\ \A k \in 1 .. i - 1 : a[k] = list[k]
      /\ b \in Seq(T) /\ Len(b) = Len(list) - i /\ \A k \in 1 .. Len(list) - i : b[k] = list[k + i]
  OBVIOUS
<1> HIDE DEF a, b
<1>2. a \o b \in Seq(T) /\ Len(a \o b) = Len(list) - 1
  <2>1. a \o b \in Seq(T)
    BY <1>1
  <2>2. Len(a \o b) = Len(a) + Len(b)
    BY <1>1, ConcatProperties
  <2> QED
    BY <1>1, <2>1, <2>2
<1>3. \A k \in 1 .. Len(list) - 1 : (a \o b)[k] = IF k < i THEN list[k] ELSE list[k + 1]
  <2> SUFFICES ASSUME NEW k \in 1 .. Len(list) - 1
               PROVE  (a \o b)[k] = IF k < i THEN list[k] ELSE list[k + 1]
    OBVIOUS
  <2>1. CASE k < i
    BY <1>1, <2>1
  <2>2. CASE ~ (k < i)
    <3>1. (a \o b)[k] = b[k - (i - 1)]
      BY <1>1, <2>2
    <3>2. k - (i - 1) \in 1 .. Len(list) - i /\ k - (i - 1) + i = k + 1
      BY <2>2
    <3> QED
      BY <1>1, <2>2, <3>1, <3>2
  <2> QED
    BY <2>1, <2>2
<1> QED
  BY <1>2, <1>3 DEF Without, a, b

(* An entry the filter drops may be removed, or replaced by another one it *)
(* drops: what is kept stays the same.                                     *)
LEMMA OnlyOfOne ==
    ASSUME NEW T, NEW x \in T, NEW S, x \notin S PROVE Only(<<x>>, S) = <<>>
<1>a. <<>> \in Seq(T)
  OBVIOUS
<1>1. PICK e \in Seq(T) : e = <<>>
  BY <1>a
<1>2. Append(e, x) = <<x>>
  BY <1>1
<1>3. Only(Append(e, x), S) = IF x \in S THEN Append(Only(e, S), x) ELSE Only(e, S)
  BY OnlyAppend
<1> QED
  BY <1>1, <1>2, <1>3, OnlyOfEmpty

LEMMA OnlyAround ==
    ASSUME NEW T, NEW a \in Seq(T), NEW b \in Seq(T), NEW x \in T, NEW S, x \notin S
    PROVE  Only((a \o <<x>>) \o b, S) = Only(a \o b, S)
<1>a. <<x>> \in Seq(T)
  OBVIOUS
<1>1. PICK m \in Seq(T) : m = <<x>>
  BY <1>a
<1>b. a \o m \in Seq(T)
  OBVIOUS
<1>2. PICK am \in Seq(T) : am = a \o m
  BY <1>b
<1>3. Only(am \o b, S) = Only(am, S) \o Only(b, S)
  BY OnlyConcat
<1>4. Only(a \o m, S) = Only(a, S) \o Only(m, S)
  BY OnlyConcat
<1>5. Only(a \o b, S) = Only(a, S) \o Only(b, S)
  BY OnlyConcat
<1>6. Only(m, S) = <<>>
  BY <1>1, OnlyOfOne
<1>7. PICK oa \in Seq(T) : oa = Only(a, S)
  BY OnlyKeeps
<1>8. oa \o <<>> = oa
  OBVIOUS
<1> QED
  BY <1>1, <1>2, <1>3, <1>4, <1>5, <1>6, <1>7, <1>8

(* An entry between what is before and what is after a position.           *)
Around(list, i, y) == (SubSeq(list, 1, i - 1) \o <<y>>) \o SubSeq(list, i + 1, Len(list))

LEMMA ReplacedIsAround ==
    ASSUME NEW T, NEW list \in Seq(T), NEW i \in 1 .. Len(list), NEW y \in T
    PROVE  [list EXCEPT ![i] = y] = Around(list, i, y)
<1> DEFINE a == SubSeq(list, 1, i - 1)  b == SubSeq(list, i + 1, Len(list))
           n == Len(list)  s == [list EXCEPT ![i] = y]  ay == a \o <<y>>  t == ay \o b
<1>1. /\ a \in Seq(T) /\ Len(a) = i - 1 /\ \A k \in 1 .. i - 1 : a[k] = list[k]
      /\ b \in Seq(T) /\ Len(b) = n - i /\ \A k \in 1 .. n - i : b[k] = list[k + i]
  OBVIOUS
<1>2. s \in Seq(T) /\ Len(s) = n /\ s[i] = y /\ \A k \in 1 .. n : k # i => s[k] = list[k]
  OBVIOUS
<1>a. n \in Nat /\ i \in 1 .. n
  OBVIOUS
<1> HIDE DEF a, b, s, n
<1>3. /\ ay \in Seq(T) /\ Len(ay) = i /\ ay[i] = y /\ \A k \in 1 .. i - 1 : ay[k] = list[k]
  <2>1. PICK one \in Seq(T) : one = <<y>> /\ Len(one) = 1 /\ one[1] = y
    <3>1. <<y>> \in Seq(T)
      OBVIOUS
    <3> QED
      BY <3>1
  <2>2. ay = a \o one
    BY <2>1
  <2>3. /\ a \o one \in Seq(T) /\ Len(a \o one) = Len(a) + Len(one)
        /\ \A k \in 1 .. Len(a) + Len(one) : (a \o one)[k] =
             IF k <= Len(a) THEN a[k] ELSE one[k - Len(a)]
    BY <1>1, ConcatProperties
  <2> HIDE DEF ay
  <2> QED
    BY <1>1, <1>a, <2>1, <2>2, <2>3
<1> HIDE DEF ay
<1>c. \A k \in 1 .. Len(ay) + Len(b) : t[k] = IF k <= Len(ay) THEN ay[k] ELSE b[k - Len(ay)]
  <2>1. ay \in Seq(T) /\ b \in Seq(T)
    BY <1>1, <1>3
  <2> QED
    BY <2>1, ConcatProperties, Zenon
<1>4. t \in Seq(T) /\ Len(t) = n
  <2>1. Len(t) = Len(ay) + Len(b)
    BY <1>1, <1>3, ConcatProperties
  <2> QED
    BY <1>1, <1>3, <1>a, <2>1
<1>5. \A k \in 1 .. n : s[k] = t[k]
  <2> SUFFICES ASSUME NEW k \in 1 .. n PROVE s[k] = t[k]
    OBVIOUS
  <2> HIDE DEF t
  <2>1. CASE k < i
    <3>1. t[k] = ay[k]
      BY <1>1, <1>3, <1>a, <1>c, <2>1
    <3> QED
      BY <1>2, <1>3, <1>a, <2>1, <3>1
  <2>2. CASE k = i
    <3>1. t[k] = ay[k]
      BY <1>1, <1>3, <1>a, <1>c, <2>2
    <3> QED
      BY <1>2, <1>3, <1>a, <2>2, <3>1
  <2>3. CASE k > i
    <3>1. t[k] = b[k - i]
      BY <1>1, <1>3, <1>a, <1>c, <2>3
    <3>2. PICK j \in 1 .. n - i : j = k - i /\ j + i = k
      BY <1>a, <2>3
    <3>3. b[j] = list[j + i]
      BY <1>1
    <3>4. s[k] = list[k]
      BY <1>2, <1>a, <2>3
    <3> QED
      BY <3>1, <3>2, <3>3, <3>4
  <2> QED
    BY <1>a, <2>1, <2>2, <2>3
<1> HIDE DEF t
<1>6. s = t
  BY <1>2, <1>4, <1>5
<1> QED
  BY <1>6 DEF s, t, ay, a, b, Around

LEMMA OnlyWithout ==
    ASSUME NEW T, NEW list \in Seq(T), NEW i \in 1 .. Len(list), NEW S, list[i] \notin S
    PROVE  Only(Without(list, i), S) = Only(list, S)
<1>a. SubSeq(list, 1, i - 1) \in Seq(T)
  OBVIOUS
<1>b. SubSeq(list, i + 1, Len(list)) \in Seq(T)
  OBVIOUS
<1>1. PICK a \in Seq(T) : a = SubSeq(list, 1, i - 1)
  BY <1>a
<1>2. PICK b \in Seq(T) : b = SubSeq(list, i + 1, Len(list))
  BY <1>b
<1>3. PICK x \in T : x = list[i]
  OBVIOUS
<1>4. list = (a \o <<x>>) \o b
  <2>a. [list EXCEPT ![i] = x] = Around(list, i, x)
    BY ReplacedIsAround
  <2>1. [list EXCEPT ![i] = x] = (a \o <<x>>) \o b
    BY <1>1, <1>2, <2>a, Zenon DEF Around
  <2>2. [list EXCEPT ![i] = x] = list
    BY <1>3
  <2> QED
    BY <2>1, <2>2
<1>5. Only((a \o <<x>>) \o b, S) = Only(a \o b, S)
  BY <1>3, OnlyAround
<1> QED
  BY <1>1, <1>2, <1>4, <1>5 DEF Without

LEMMA OnlyReplaced ==
    ASSUME NEW T, NEW list \in Seq(T), NEW i \in 1 .. Len(list), NEW y \in T,
           NEW S, list[i] \notin S, y \notin S
    PROVE  Only([list EXCEPT ![i] = y], S) = Only(list, S)
<1>a. SubSeq(list, 1, i - 1) \in Seq(T)
  OBVIOUS
<1>b. SubSeq(list, i + 1, Len(list)) \in Seq(T)
  OBVIOUS
<1>1. PICK a \in Seq(T) : a = SubSeq(list, 1, i - 1)
  BY <1>a
<1>2. PICK b \in Seq(T) : b = SubSeq(list, i + 1, Len(list))
  BY <1>b
<1>3. PICK x \in T : x = list[i]
  OBVIOUS
<1>4. list = (a \o <<x>>) \o b
  <2>a. [list EXCEPT ![i] = x] = Around(list, i, x)
    BY ReplacedIsAround
  <2>1. [list EXCEPT ![i] = x] = (a \o <<x>>) \o b
    BY <1>1, <1>2, <2>a, Zenon DEF Around
  <2>2. [list EXCEPT ![i] = x] = list
    BY <1>3
  <2> QED
    BY <2>1, <2>2
<1>5. [list EXCEPT ![i] = y] = (a \o <<y>>) \o b
  <2>1. [list EXCEPT ![i] = y] = Around(list, i, y)
    BY ReplacedIsAround
  <2> QED
    BY <1>1, <1>2, <2>1, Zenon DEF Around
<1>6. Only((a \o <<x>>) \o b, S) = Only(a \o b, S)
  BY <1>3, OnlyAround
<1>7. Only((a \o <<y>>) \o b, S) = Only(a \o b, S)
  BY OnlyAround
<1> QED
  BY <1>4, <1>5, <1>6, <1>7

(* A filter makes no list longer.                                          *)
LEMMA OnlyShortens ==
    ASSUME NEW T, NEW list \in Seq(T), NEW S
    PROVE  Len(Only(list, S)) <= Len(list)
<1> DEFINE n == Len(list)
<1>1. PICK f : f \in Filterings(T, list, S)
  BY OnlyFilters
<1>2. /\ n \in Nat /\ f \in [0 .. n -> Seq(T)] /\ f[0] = <<>> /\ Only(list, S) = f[n]
      /\ \A i \in 1 .. n : f[i] = IF list[i] \in S THEN Append(f[i - 1], list[i]) ELSE f[i - 1]
      /\ \A i \in 1 .. n : list[i] \in T
  BY <1>1 DEF Filterings
<1> DEFINE Bad == {m \in 0 .. n : ~ (Len(f[m]) <= m)}
<1>3. Bad = {}
  <2> SUFFICES ASSUME Bad # {} PROVE FALSE
    OBVIOUS
  <2>1. PICK m \in Bad : \A k \in Bad : m <= k
    <3>1. Bad \in SUBSET Nat
      BY <1>2
    <3> HIDE DEF Bad
    <3> QED
      BY <3>1, NatHasLeast
  <2>2. m # 0
    <3>1. Len(f[0]) = 0
      BY <1>2
    <3> QED
      BY <2>1, <3>1
  <2>3. m - 1 \in 0 .. n /\ m - 1 \notin Bad /\ m \in 1 .. n
    <3>1. m \in 0 .. n /\ n \in Nat
      BY <1>2, <2>1
    <3>2. m - 1 \in 0 .. n /\ m \in 1 .. n /\ ~ (m <= m - 1)
      BY <2>2, <3>1
    <3> HIDE DEF Bad
    <3> QED
      BY <2>1, <3>2
  <2>4. PICK s \in Seq(T) : s = f[m - 1] /\ Len(s) <= m - 1
    BY <1>2, <2>3
  <2>5. f[m] = IF list[m] \in S THEN Append(s, list[m]) ELSE s
    BY <1>2, <2>3, <2>4
  <2>6. Len(s) \in Nat /\ Len(Append(s, list[m])) = Len(s) + 1
    BY <1>2, <2>3
  <2>7. Len(f[m]) <= m
    BY <2>3, <2>4, <2>5, <2>6
  <2> QED
    BY <2>1, <2>7
<1>4. n \in 0 .. n /\ n \notin Bad
  BY <1>2, <1>3
<1> QED
  BY <1>2, <1>4

(* Filters that agree on the entries of a list keep the same.              *)
LEMMA OnlyAgrees ==
    ASSUME NEW T, NEW list \in Seq(T), NEW S, NEW R, \A i \in 1 .. Len(list) : list[i] \in S <=> list[i] \in R
    PROVE  Only(list, S) = Only(list, R)
<1> DEFINE n == Len(list)
<1>1. PICK f : f \in Filterings(T, list, S)
  BY OnlyFilters
<1>2. PICK g : g \in Filterings(T, list, R)
  BY OnlyFilters
<1>3. /\ n \in Nat /\ f[0] = <<>> /\ Only(list, S) = f[n]
      /\ \A i \in 1 .. n : f[i] = IF list[i] \in S THEN Append(f[i - 1], list[i]) ELSE f[i - 1]
  BY <1>1 DEF Filterings
<1>4. /\ g[0] = <<>> /\ Only(list, R) = g[n]
      /\ \A i \in 1 .. n : g[i] = IF list[i] \in R THEN Append(g[i - 1], list[i]) ELSE g[i - 1]
  BY <1>2 DEF Filterings
<1>a. \A i \in 1 .. n : list[i] \in S <=> list[i] \in R
  OBVIOUS
<1> DEFINE Bad == {m \in 0 .. n : f[m] # g[m]}
<1> HIDE DEF n
<1>5. Bad = {}
  <2> SUFFICES ASSUME Bad # {} PROVE FALSE
    OBVIOUS
  <2>1. PICK m \in Bad : \A k \in Bad : m <= k
    <3>1. Bad \in SUBSET Nat
      BY <1>3
    <3> HIDE DEF Bad
    <3> QED
      BY <3>1, NatHasLeast
  <2>2. m # 0
    BY <1>3, <1>4
  <2>3. m - 1 \in 0 .. n /\ m - 1 \notin Bad /\ m \in 1 .. n
    BY <1>3, <2>1, <2>2
  <2>4. f[m - 1] = g[m - 1]
    BY <2>3
  <2>5. f[m] = IF list[m] \in S THEN Append(f[m - 1], list[m]) ELSE f[m - 1]
    BY <1>3, <2>3
  <2>6. g[m] = IF list[m] \in R THEN Append(g[m - 1], list[m]) ELSE g[m - 1]
    BY <1>4, <2>3
  <2>7. f[m] # g[m] /\ (list[m] \in S <=> list[m] \in R)
    BY <1>a, <2>1, <2>3
  <2> HIDE DEF Bad
  <2> QED
    BY <2>4, <2>5, <2>6, <2>7
<1>6. n \in 0 .. n /\ n \notin Bad
  BY <1>3, <1>5
<1> QED
  BY <1>3, <1>4, <1>6

(* What a filter keeps, entry by entry: an injective list stays injective. *)
PartOf(o, list, S) ==
    /\ \A k \in 1 .. Len(o) : o[k] \in S /\ \E i \in 1 .. Len(list) : o[k] = list[i]
    /\ \A i \in 1 .. Len(list) : list[i] \in S => \E k \in 1 .. Len(o) : o[k] = list[i]
    /\ (\A i, j \in 1 .. Len(list) : list[i] = list[j] => i = j)
         => (\A k, l \in 1 .. Len(o) : o[k] = o[l] => k = l)

LEMMA OnlyEntries ==
    ASSUME NEW T, NEW list \in Seq(T), NEW S
    PROVE  Only(list, S) \in Seq(T) /\ PartOf(Only(list, S), list, S)
<1>1. PICK o \in Seq(T) : o = Only(list, S)
  BY OnlyKeeps
<1>2. PICK h : h \in Embeddings(o, list, S)
  BY <1>1, OnlyKeeps
<1>3. /\ h \in [1 .. Len(o) -> 1 .. Len(list)]
      /\ \A k \in 1 .. Len(o) : o[k] = list[h[k]]
      /\ \A k, l \in 1 .. Len(o) : k < l => h[k] < h[l]
      /\ \A i \in 1 .. Len(list) : list[i] \in S <=> \E k \in 1 .. Len(o) : h[k] = i
  BY <1>2 DEF Embeddings
<1>4. \A k, l \in 1 .. Len(o) : h[k] = h[l] => k = l
  <2> SUFFICES ASSUME NEW k \in 1 .. Len(o), NEW l \in 1 .. Len(o), h[k] = h[l], k # l PROVE FALSE
    OBVIOUS
  <2>1. k < l \/ l < k
    OBVIOUS
  <2>2. h[k] \in Int /\ ~ (h[k] < h[k])
    BY <1>3
  <2> QED
    BY <1>3, <2>1, <2>2
<1>5. \A k \in 1 .. Len(o) : h[k] \in 1 .. Len(list) /\ o[k] = list[h[k]] /\ o[k] \in S
  BY <1>3
<1>6. \A i \in 1 .. Len(list) : list[i] \in S => \E k \in 1 .. Len(o) : o[k] = list[i]
  BY <1>3
<1>7. ASSUME \A i, j \in 1 .. Len(list) : list[i] = list[j] => i = j
      PROVE  \A k, l \in 1 .. Len(o) : o[k] = o[l] => k = l
  <2> SUFFICES ASSUME NEW k \in 1 .. Len(o), NEW l \in 1 .. Len(o), o[k] = o[l] PROVE k = l
    OBVIOUS
  <2>1. h[k] \in 1 .. Len(list) /\ h[l] \in 1 .. Len(list) /\ list[h[k]] = list[h[l]]
    BY <1>5
  <2>2. h[k] = h[l]
    BY <1>7, <2>1
  <2> QED
    BY <1>4, <2>2
<1>8. PartOf(o, list, S)
  BY <1>5, <1>6, <1>7 DEF PartOf
<1> QED
  BY <1>1, <1>8

(* The filter of a filtered list.                                          *)
LEMMA OnlyOfOnly ==
    ASSUME NEW T, NEW list \in Seq(T), NEW S, NEW R
    PROVE  Only(Only(list, S), R) = Only(list, S \cap R)
<1> DEFINE n == Len(list)
           part(k) == SubSeq(list, 1, k)
           Bad == {k \in 0 .. n : Only(Only(part(k), S), R) # Only(part(k), S \cap R)}
<1>1. n \in Nat /\ \A k \in 0 .. n : part(k) \in Seq(T)
  OBVIOUS
<1>b. part(0) = <<>>
  OBVIOUS
<1> HIDE DEF part, n
<1>2. Bad = {}
  <2> SUFFICES ASSUME Bad # {} PROVE FALSE
    OBVIOUS
  <2>1. PICK k \in Bad : \A i \in Bad : k <= i
    <3>1. Bad \in SUBSET Nat
      BY <1>1
    <3> HIDE DEF Bad
    <3> QED
      BY <3>1, NatHasLeast
  <2>2. k # 0
    <3>1. Only(<<>>, S) = <<>> /\ Only(<<>>, R) = <<>> /\ Only(<<>>, S \cap R) = <<>>
      BY OnlyOfEmpty
    <3> HIDE DEF part
    <3> QED
      BY <2>1, <1>b, <3>1
  <2>3. k - 1 \in 0 .. n /\ k - 1 \notin Bad /\ k \in 1 .. n
    <3>1. k \in 0 .. n
      OBVIOUS
    <3>2. k - 1 \in 0 .. n /\ k \in 1 .. n /\ ~ (k <= k - 1)
      BY <1>1, <2>2, <3>1
    <3> HIDE DEF Bad
    <3> QED
      BY <2>1, <3>2
  <2> DEFINE p == part(k - 1)  x == list[k]
  <2>4. p \in Seq(T) /\ x \in T
    BY <1>1, <2>3 DEF n
  <2>5. part(k) = Append(p, x)
    BY <2>3 DEF part, n
  <2>6. Only(Only(p, S), R) = Only(p, S \cap R)
    BY <2>3
  <2>7. Only(Only(part(k), S), R) # Only(part(k), S \cap R)
    BY <2>1
  <2> HIDE DEF p, x, part, n, Bad
  <2>8. Only(p, S) \in Seq(T)
    BY <2>4, OnlyKeeps
  <2>9. Only(Append(p, x), S) = IF x \in S THEN Append(Only(p, S), x) ELSE Only(p, S)
    BY <2>4, OnlyAppend
  <2>10. Only(Append(p, x), S \cap R) = IF x \in S \cap R THEN Append(Only(p, S \cap R), x) ELSE Only(p, S \cap R)
    BY <2>4, OnlyAppend
  <2>11. Only(Append(Only(p, S), x), R) = IF x \in R THEN Append(Only(Only(p, S), R), x) ELSE Only(Only(p, S), R)
    BY <2>4, <2>8, OnlyAppend
  <2> QED
    BY <2>5, <2>6, <2>7, <2>9, <2>10, <2>11
<1>3. part(n) = list
  BY DEF part, n
<1>4. n \in 0 .. n
  BY <1>1
<1>5. Only(Only(part(n), S), R) = Only(part(n), S \cap R)
  BY <1>2, <1>4
<1> QED
  BY <1>3, <1>5

(* A filter that lets every entry through.                                 *)
LEMMA OnlyOfAll ==
    ASSUME NEW T, NEW list \in Seq(T), NEW S, \A i \in 1 .. Len(list) : list[i] \in S
    PROVE  Only(list, S) = list
<1> DEFINE n == Len(list)
           part(k) == SubSeq(list, 1, k)
           Bad == {k \in 0 .. n : Only(part(k), S) # part(k)}
<1>1. n \in Nat /\ \A k \in 0 .. n : part(k) \in Seq(T)
  OBVIOUS
<1>2. Bad = {}
  <2> SUFFICES ASSUME Bad # {} PROVE FALSE
    OBVIOUS
  <2>1. PICK k \in Bad : \A i \in Bad : k <= i
    <3>1. Bad \in SUBSET Nat
      BY <1>1
    <3> HIDE DEF Bad
    <3> QED
      BY <3>1, NatHasLeast
  <2>2. k # 0
    <3>1. part(0) = <<>>
      OBVIOUS
    <3> HIDE DEF part
    <3> QED
      BY <2>1, <3>1, OnlyOfEmpty
  <2>3. k - 1 \in 0 .. n /\ k - 1 \notin Bad /\ k \in 1 .. n
    <3>1. k \in 0 .. n
      OBVIOUS
    <3> HIDE DEF n, part, Bad
    <3>2. k \in 1 .. n /\ k - 1 \in 0 .. n /\ ~ (k <= k - 1)
      BY <1>1, <2>2, <3>1
    <3> QED
      BY <2>1, <3>2
  <2> DEFINE p == part(k - 1)  x == list[k]
  <2>4. p \in Seq(T) /\ x \in T /\ x \in S
    BY <1>1, <2>3
  <2>5. part(k) = Append(p, x)
    BY <2>3
  <2>6. Only(p, S) = p /\ Only(part(k), S) # part(k)
    BY <2>1, <2>3
  <2> HIDE DEF p, x, part, n, Bad
  <2>7. Only(Append(p, x), S) = Append(Only(p, S), x)
    BY <2>4, OnlyAppend
  <2> QED
    BY <2>5, <2>6, <2>7
<1>3. part(n) = list
  OBVIOUS
<1>4. n \in 0 .. n /\ n \notin Bad
  BY <1>1, <1>2
<1> HIDE DEF part, n
<1> QED
  BY <1>3, <1>4
=============================================================================
