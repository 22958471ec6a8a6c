----------------------------- MODULE MCAAServer -----------------------------
(* A small instance of AAServer: two interfaces, one of them with two       *)
(* bindings, room for two entries and a clock of six seconds.               *)
EXTENDS AAServer, TLC

CONSTANTS p1, p2, b1, b2, b3

MCPortOf == (b1 :> p1) @@ (b2 :> p1) @@ (b3 :> p2)
=============================================================================
