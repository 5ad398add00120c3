---------------------------- MODULE MCCoordination ----------------------------
(* Two processes and three calls for TLC. *)
EXTENDS Coordination, TLC

CONSTANTS a1, a2, a3, b1, A, B

MCHostOf == (a1 :> A) @@ (a2 :> A) @@ (b1 :> B)

MCHostOfOneProcess == (a1 :> A) @@ (a2 :> A) @@ (a3 :> A)

SymmetricPair == Permutations({a1, a2})
===============================================================================
