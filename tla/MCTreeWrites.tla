---------------------------- MODULE MCTreeWrites ----------------------------
(* TreeWrites on small instances: three rows, two requests.                 *)
EXTENDS TreeWrites, TLC

CONSTANTS n1, n2, n3, r1, r2

ThreeNodes == {n1, n2, n3}
TwoRequests == {r1, r2}
Interchangeable == Permutations(Nodes) \cup Permutations(Requests)
=============================================================================
