------------------------- MODULE MCRequestLifecycle -------------------------
(* RequestLifecycle on small instances: three requests, one key.            *)
EXTENDS RequestLifecycle, TLC

CONSTANTS p1, p2, p3, k1, b1, b2

ThreeRequests == {p1, p2, p3}
OneKey == {k1}
OneBody == {b1}
TwoBodies == {b1, b2}
Interchangeable == Permutations(Requests) \cup Permutations(Bodies)
=============================================================================
