------------------------------- MODULE AATime -------------------------------
(***************************************************************************)
(* The arithmetic on struct timespec by which both tickers measure time     *)
(* (aasdk_time_comm.c).  The seconds are unbounded here; NSECS_PER_SEC is a  *)
(* parameter, so that a second may have two parts instead of 10^9.          *)
(***************************************************************************)
EXTENDS Integers

CONSTANT NSECS_PER_SEC

ASSUME TimeAssumption == NSECS_PER_SEC \in Nat \ {0}

Timespec == [tv_sec : Nat, tv_nsec : 0 .. NSECS_PER_SEC - 1]

Seconds(s) == [tv_sec |-> s, tv_nsec |-> 0]

(* A time in parts of a second, what the pair of numbers stands for.        *)
Total(t) == t.tv_sec * NSECS_PER_SEC + t.tv_nsec

(* Broken: the carry is lost.                                               *)
TimeAddNoCarry(time1, time0) ==
    [tv_sec |-> time1.tv_sec + time0.tv_sec,
     tv_nsec |-> (time1.tv_nsec + time0.tv_nsec) % NSECS_PER_SEC]

(* aasdku_time_add *)
TimeAdd(time1, time0) ==
    LET nsec == time1.tv_nsec + time0.tv_nsec
        sec == time1.tv_sec + time0.tv_sec
    IN  IF nsec < NSECS_PER_SEC
        THEN [tv_sec |-> sec, tv_nsec |-> nsec]
        ELSE [tv_sec |-> sec + 1, tv_nsec |-> nsec - NSECS_PER_SEC]

(* Broken: nothing is borrowed.                                             *)
TimeSubNoBorrow(time1, time0) ==
    [tv_sec |-> time1.tv_sec - time0.tv_sec,
     tv_nsec |-> time1.tv_nsec - time0.tv_nsec]

(* aasdku_time_sub *)
TimeSub(time1, time0) ==
    LET nsec == time1.tv_nsec - time0.tv_nsec
        sec == time1.tv_sec - time0.tv_sec
    IN  IF nsec >= 0
        THEN [tv_sec |-> sec, tv_nsec |-> nsec]
        ELSE [tv_sec |-> sec - 1, tv_nsec |-> nsec + NSECS_PER_SEC]

(* aasdku_time_cmp(time1, time0) < 0 *)
TimeLess(time1, time0) ==
    \/ time1.tv_sec < time0.tv_sec
    \/ time1.tv_sec = time0.tv_sec /\ time1.tv_nsec < time0.tv_nsec
=============================================================================
