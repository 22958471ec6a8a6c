--------------------------- MODULE MCAADiscovery ---------------------------
(* Two neighbours that differ in each field, up to its largest value that   *)
(* TLC's integers can hold.                                                 *)
EXTENDS AADiscovery

Neighbours == {[type |-> 6, vlan |-> 10, id |-> "a"],
               [type |-> 7, vlan |-> 4095, id |-> "b"]}
=============================================================================
