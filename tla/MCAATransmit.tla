---------------------------- MODULE MCAATransmit ----------------------------
(* A second has two parts, and the clock thread may be late by one of them  *)
(* or tick twice a second; the engineering test ticks once a second.        *)
EXTENDS AATransmit

HalfSeconds == {[tv_sec |-> 0, tv_nsec |-> 1], [tv_sec |-> 1, tv_nsec |-> 0]}
=============================================================================
