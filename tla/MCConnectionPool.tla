-------------------------- MODULE MCConnectionPool --------------------------
(* Requests on two keys: four of them repeat one another. *)
EXTENDS ConnectionPool, TLC

CONSTANTS r1, r2, r3, r4, r5, k1, k2

MCKey == r1 :> k1 @@ r2 :> k1 @@ r3 :> k1 @@ r4 :> k1 @@ r5 :> k2
SameKey == Permutations({r1, r2, r3, r4})
=============================================================================
