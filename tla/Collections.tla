---------------------------- MODULE Collections ----------------------------
(***************************************************************************)
(* The helpers of the data portal on lists and objects (utils/array.ts and *)
(* utils/object.ts).  Functions are pipes of named steps; the traversals   *)
(* in chunks are processes that share the frames of the browser.           *)
(***************************************************************************)
EXTENDS Integers, Sequences, SequencesExt, FiniteSets, Lists

CONSTANTS
  Items,               \* elements of the lists: numbers, 0 is falsy
  MaxList,             \* bound: elements of a list
  Steps,               \* functions that can be piped: Items to Items
  ApplyStep,           \* their values: [Steps -> [Items -> Items]]
  MaxChunk,          \* elements taken per frame
  Calls                \* traversals that may run at the same time

ASSUME CollectionsAssumption ==
  /\ Items \subseteq Nat /\ 0 \in Items /\ MaxList \in Nat /\ MaxChunk \in Nat \ {0}
  /\ Steps # {} /\ ApplyStep \in [Steps -> [Items -> Items]]

VARIABLES
  pipe, argument,      \* the last pipe that was built, and what it is given
  given,               \* the list each traversal was given
  kind,                \* "iterate" (iterateArrayAsync) or "reduce" (reduceArrayAsync)
  queueLeft,              \* what is left to traverse
  base,                \* what is accumulated
  traversal            \* "none", "running" or "resolved"

collectionVars == <<pipe, argument, given, kind, queueLeft, base, traversal>>

ItemLists == BoundedSeq(Items, MaxList)

\* Bound: a pipe has at most two arguments, each of at most two functions.
PipeArguments == {<<f>> : f \in Steps} \cup {<<f, g>> : f, g \in Steps}
Pipes == BoundedSeq(PipeArguments, 2)

-----------------------------------------------------------------------------
(* Lists.  A list that is not given is an empty one.                           *)
Take(n, list) == SubSeq(list, 1, IF n < 0 THEN 0 ELSE IF n > Len(list) THEN Len(list) ELSE n)

ArrayMap(f, list) == [i \in DOMAIN list |-> ApplyStep[f][list[i]]]
ArrayFilter(S, list) == Only(list, S)

ArrayPartition(S, list) == <<ArrayFilter(S, list), ArrayFilter(ToSet(list) \ S, list)>>
ArrayEvery(S, list) == \A i \in DOMAIN list : list[i] \in S
ArraySome(S, list) == \E i \in DOMAIN list : list[i] \in S
IsListUnique(list) == Cardinality(ToSet(list)) = Len(list)
Compact(list) == ArrayFilter(Items \ {0}, list)

\* A list of functions reduced to one: what accumulates runs after the next function.
Composed(list) ==
  LET composed[i \in 0 .. Len(list)] ==
        IF i = 0 THEN [y \in Items |-> y]
        ELSE [y \in Items |-> composed[i - 1][ApplyStep[list[i]][y]]]
  IN  composed[Len(list)]

\* An argument is a list of functions, a function alone one of length 1.  The arguments are
\* reversed and flattened.
ArrayPipe(fns, x) == Composed(FlattenSeq(Reverse(fns)))[x]

-----------------------------------------------------------------------------
(* Objects.  A key that is picked and not there is undefined.              *)
HasEnumerableKeys(o) == DOMAIN o # {}

Omit(o, keys) == [k \in DOMAIN o \ keys |-> o[k]]
PickKeys(o, keys) == [k \in keys |-> IF k \in DOMAIN o THEN o[k] ELSE "undefined"]
Nullify(o) == [k \in DOMAIN o |-> "null"]

-----------------------------------------------------------------------------
CollectionsInit ==
  /\ pipe = <<>> /\ argument = 0
  /\ given = [c \in Calls |-> <<>>] /\ kind = [c \in Calls |-> "iterate"]
  /\ queueLeft = [c \in Calls |-> <<>>] /\ base = [c \in Calls |-> <<>>] /\ traversal = [c \in Calls |-> "none"]

\* Bound: in a behaviour either pipes are built or lists are traversed.
BuildPipe(fns, x) ==
  /\ \A c \in Calls : traversal[c] = "none"
  /\ pipe' = fns /\ argument' = x /\ UNCHANGED <<given, kind, queueLeft, base, traversal>>

\* Every list gets an accumulator of its own.
Accumulator(c) == <<>>

\* The list is copied, and the first chunk waits for a frame.
ChunkArrayAsync(c, list, k) ==
  /\ traversal[c] # "running" /\ pipe = <<>>
  /\ given' = [given EXCEPT ![c] = list] /\ queueLeft' = [queueLeft EXCEPT ![c] = list]
  /\ kind' = [kind EXCEPT ![c] = k] /\ base' = [base EXCEPT ![c] = Accumulator(c)]
  /\ traversal' = [traversal EXCEPT ![c] = "running"]
  /\ UNCHANGED <<pipe, argument>>

\* What the chunk gives: a list to append, or the keys of an object to assign.
IterateArrayAsync(acc, chunk) == acc \o ArrayMap(CHOOSE f \in Steps : TRUE, chunk)
ReduceArrayAsync(acc, chunk) ==
  LET keys == Compact(chunk)
      assigned[i \in 0 .. Len(keys)] ==
        IF i = 0 THEN acc
        ELSE IF keys[i] \in ToSet(assigned[i - 1]) THEN assigned[i - 1] ELSE Append(assigned[i - 1], keys[i])
  IN  assigned[Len(keys)]

\* One chunk per frame: the clock is added to its start where it should be subtracted, so that
\* a frame never takes a second one.  An empty list is one chunk too.
Chunk(c) ==
  /\ traversal[c] = "running"
  /\ LET chunk == Take(MaxChunk, queueLeft[c])
         rest == SubSeq(queueLeft[c], Len(chunk) + 1, Len(queueLeft[c]))
     IN  /\ base' = [base EXCEPT ![c] = IF kind[c] = "iterate" THEN IterateArrayAsync(@, chunk) ELSE ReduceArrayAsync(@, chunk)]
         /\ queueLeft' = [queueLeft EXCEPT ![c] = rest]
         /\ traversal' = [traversal EXCEPT ![c] = IF rest = <<>> THEN "resolved" ELSE "running"]
  /\ UNCHANGED <<pipe, argument, given, kind>>

CollectionsNext ==
  \/ \E fns \in Pipes, x \in Items : BuildPipe(fns, x)
  \/ \E c \in Calls, list \in ItemLists, k \in {"iterate", "reduce"} : ChunkArrayAsync(c, list, k)
  \/ \E c \in Calls : Chunk(c)

CollectionsSpec == CollectionsInit /\ [][CollectionsNext]_collectionVars

-----------------------------------------------------------------------------
CollectionsTypeOK ==
  /\ argument \in Items /\ given \in [Calls -> ItemLists] /\ queueLeft \in [Calls -> ItemLists]
  /\ kind \in [Calls -> {"iterate", "reduce"}] /\ traversal \in [Calls -> {"none", "running", "resolved"}]
  /\ \A c \in Calls : ToSet(base[c]) \subseteq Items /\ Len(base[c]) <= MaxList

\* A list traversed in chunks, while others are, gives what traversing it at once gives.
TraversalIsWhole ==
  \A c \in Calls : traversal[c] = "resolved" =>
    IF kind[c] = "iterate" THEN base[c] = ArrayMap(CHOOSE f \in Steps : TRUE, given[c])
    ELSE ToSet(base[c]) = ToSet(Compact(given[c])) /\ IsListUnique(base[c])

\* The two parts of a partition are all of the list, and every and some of its parts agree with it.
PartitionIsWhole ==
  \A c \in Calls, S \in SUBSET Items :
    LET parts == ArrayPartition(S, given[c]) IN
    /\ Len(parts[1]) + Len(parts[2]) = Len(given[c])
    /\ ArrayEvery(S, parts[1]) /\ ~ArraySome(S, parts[2])
    /\ \A n \in -1..MaxList : Len(Take(n, given[c])) <= Len(given[c]) /\ (n >= 0 => Len(Take(n, given[c])) <= n)

\* Picking keys and omitting them divides an object; no key is left of one that is nullified.
PickAndOmit ==
  \A c \in Calls, keys \in SUBSET Items :
    LET o == [x \in ToSet(given[c]) |-> x] IN
    /\ keys \subseteq DOMAIN o => \A x \in DOMAIN o : x \in DOMAIN PickKeys(o, keys) <=> x \notin DOMAIN Omit(o, keys)
    /\ HasEnumerableKeys(o) <=> HasEnumerableKeys(Nullify(o))

RunInOrder(list, x) ==
  LET run[i \in 0 .. Len(list)] == IF i = 0 THEN x ELSE ApplyStep[list[i]][run[i - 1]]
  IN  run[Len(list)]

\* Functions given one by one to a pipe run in the order in which they are given.
PipeRunsInOrder ==
  (\A i \in DOMAIN pipe : Len(pipe[i]) = 1) => ArrayPipe(pipe, argument) = RunInOrder(FlattenSeq(pipe), argument)
=============================================================================
