-------------------------------- MODULE KeySet --------------------------------
(***************************************************************************)
(* What a sorted list of the agent promises, without saying how: a set of   *)
(* keys with room for so many, and a client that goes through it in the     *)
(* order of the keys.  AAServer takes the table of assignments for this.    *)
(***************************************************************************)
EXTENDS Naturals, FiniteSets

CONSTANTS
    Key,            \* what the set may hold
    MaxCount,       \* how much of it
    First,          \* where a client starts, before all keys
    Less(_, _)      \* the order of the keys

VARIABLES
    keys,           \* the set
    at              \* where the client is

setVars == <<keys, at>>

SetInit == keys = {} /\ at = First

Add(k) ==
    /\ k \notin keys
    /\ Cardinality(keys) < MaxCount
    /\ keys' = keys \cup {k}
    /\ UNCHANGED at

Remove(k) ==
    /\ k \in keys
    /\ keys' = keys \ {k}
    /\ UNCHANGED at

Ahead == {k \in keys : Less(at, k)}

(* The client goes on to the next key, whatever came or went since its last *)
(* step, ...                                                                *)
GoOn ==
    /\ at' \in Ahead
    /\ \A k \in Ahead : k = at' \/ Less(at', k)
    /\ UNCHANGED keys

(* and starts again when there is none.                                     *)
StartAgain ==
    /\ Ahead = {}
    /\ at' = First
    /\ UNCHANGED keys

SetNext == (\E k \in Key : Add(k) \/ Remove(k)) \/ GoOn \/ StartAgain

SetSpec == SetInit /\ [][SetNext]_setVars
===============================================================================
