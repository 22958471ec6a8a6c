------------------------------ MODULE AsgnLease ------------------------------
(***************************************************************************)
(* What an Auto Attach server promises about I-SID/VLAN assignments,        *)
(* without saying how: an assignment is a lease.  It is granted or renewed  *)
(* by an advertisement, it is dropped by the clock once the configured term *)
(* has passed since the last advertisement, and an advertisement on its     *)
(* interface drops the leases of that interface that are older than the     *)
(* grace period.  Nothing else takes a lease away, and no clock tick leaves *)
(* one behind that has run out.                                             *)
(*                                                                         *)
(* The seconds counter is finite.  Where a lease would run out beyond its   *)
(* last value, or the counter restarts, a lease may go early; that is the   *)
(* only licence the specification gives.                                    *)
(***************************************************************************)
EXTENDS AAExpiry

CONSTANTS Binding,     \* (interface, I-SID, VLAN) triples
          SameIfc,     \* SameIfc[b]: the bindings of b's interface
          Grace,       \* seconds a silent sibling survives an advertisement
          Terms        \* values the lease term can be given

VARIABLES granted,     \* granted[b]: last advertisement, or NoLease
          term,        \* the configured lease term
          clock        \* the seconds counter

leaseVars == <<granted, term, clock>>

NoLease == -1

Leased(b) == granted[b] # NoLease

LeaseInit ==
    /\ granted = [b \in Binding |-> NoLease]
    /\ term \in Terms
    /\ clock = 0

(* A set of leases that may be dropped at time t under a term: it has all   *)
(* those that ran out, and others only where the counter cannot tell.       *)
MayDrop(drop, leases, scope, length, t) ==
    \A b \in scope : leases[b] # NoLease =>
        /\ (leases[b] <= t /\ OldEnough(leases[b], length, t)) => b \in drop
        /\ NoWrap(leases[b], length, t) =>
              (b \in drop => OldEnough(leases[b], length, t))

Without(leases, drop) ==
    [b \in Binding |-> IF b \in drop THEN NoLease ELSE leases[b]]

(* An advertisement of b renews or grants b, or is refused; either way the  *)
(* leases of its interface that outlived the grace period are dropped.      *)
Advertise(b) ==
    /\ \E leases \in {granted, [granted EXCEPT ![b] = clock]} :
         /\ Leased(b) => leases[b] = clock
         /\ \E drop \in SUBSET SameIfc[b] :
              /\ MayDrop(drop, leases, SameIfc[b], Grace, clock)
              /\ granted' = Without(leases, drop)
    /\ UNCHANGED <<term, clock>>

(* The clock advances and takes the leases that ran out with it. *)
Elapse ==
    /\ clock' \in Time
    /\ \E drop \in SUBSET Binding :
         /\ MayDrop(drop, granted, Binding, term, clock')
         /\ granted' = Without(granted, drop)
    /\ UNCHANGED term

Configure ==
    /\ term' \in Terms
    /\ UNCHANGED <<granted, clock>>

LeaseNext == Elapse \/ Configure \/ \E b \in Binding : Advertise(b)

LeaseSpec == LeaseInit /\ [][LeaseNext]_leaseVars
=============================================================================
