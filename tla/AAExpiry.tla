------------------------------ MODULE AAExpiry ------------------------------
(***************************************************************************)
(* The age test of faAgentPerformRemoteListMaintenance (aa_server.c).      *)
(*                                                                         *)
(* lastUpdated, expiration and currentTime are unsigned ints of seconds, so *)
(* the sum the test compares wraps at W = 2^32; the models are checked with *)
(* a small W.                                                              *)
(***************************************************************************)
EXTENDS Integers

CONSTANT W          \* number of values of the seconds counter

ASSUME WAssumption == W \in Nat \ {0, 1}

Time == 0 .. W - 1

(* Broken on purpose, for the mutants of PROJECT.json: no wrap-around.      *)
PlusUnbounded(a, b) == a + b

(* Unsigned addition of two values of Time. *)
Plus(a, b) == IF a + b < W THEN a + b ELSE a + b - W

(* Broken: one second too late.                                             *)
ExpiredLate(lastUpdated, expiration, currentTime) ==
    \/ Plus(lastUpdated, expiration) < currentTime
    \/ lastUpdated > currentTime

(* The condition under which the maintenance scan collects an entry.  The *)
(* second disjunct is the code's own treatment of a clock that wrapped.   *)
Expired(lastUpdated, expiration, currentTime) ==
    \/ Plus(lastUpdated, expiration) <= currentTime
    \/ lastUpdated > currentTime

(* What the test is for: the true number of seconds since the last update. *)
(* It is what Expired computes as long as nothing wraps.                   *)
OldEnough(lastUpdated, expiration, currentTime) ==
    currentTime - lastUpdated >= expiration

NoWrap(lastUpdated, expiration, currentTime) ==
    lastUpdated <= currentTime /\ lastUpdated + expiration < W
=============================================================================
