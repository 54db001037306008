----------------------------- MODULE MCLocalDAO -----------------------------
(* Values of the constants of LocalDAO for the model checker.              *)
EXTENDS LocalDAO, TLC

CONSTANTS a, b, c, bad

MCValues == {a, b, c, bad}
Replace(vs) == {[kind |-> "replace", value |-> v] : v \in vs}
IfAbsent(vs) == {[kind |-> "ifAbsent", value |-> v] : v \in vs}

MixedLambdas == Replace({a, b, bad}) \cup IfAbsent({c})
ReplaceLambdas == Replace({a, b, c})
TwoLambdas == Replace({a, b})

WriterSymmetry == Permutations(Writers)
=============================================================================
