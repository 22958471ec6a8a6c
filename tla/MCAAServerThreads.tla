-------------------------- MODULE MCAAServerThreads --------------------------
(* Two interfaces, one actual with two bindings and one virtual, on one     *)
(* trunk; the first and the last binding mirror each other.                 *)
EXTENDS AARemovals

MCServiceOf == <<"s", "t", "s">>
MCPortOf == <<"actual", "actual", "virtual">>
MCTrunk == {{"actual", "virtual"}}
=============================================================================
