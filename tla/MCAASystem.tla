----------------------------- MODULE MCAASystem -----------------------------
(* Two interfaces with two and one binding, and one neighbour on each.      *)
EXTENDS AASystem, TLC

CONSTANTS p1, p2, b1, b2, b3, n1, n2

MCPortOf == (b1 :> p1) @@ (b2 :> p1) @@ (b3 :> p2)
OneEach  == (n1 :> p1) @@ (n2 :> p2)
=============================================================================
