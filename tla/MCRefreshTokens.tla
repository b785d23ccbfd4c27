-------------------------- MODULE MCRefreshTokens --------------------------
(* RefreshTokens on small instances: one or two users on one lock bucket.   *)
EXTENDS RefreshTokens, TLC

CONSTANTS u1, u2, b1, r1, r2, r3

OneUser == {u1}
TwoUsers == {u1, u2}
OneBucket == {b1}
OneUserBucket == u1 :> b1
SharedBucket == u1 :> b1 @@ u2 :> b1
TwoRequests == {r1, r2}
ThreeRequests == {r1, r2, r3}
RequestSymmetry == Permutations(Requests)
=============================================================================
