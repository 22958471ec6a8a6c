----------------------------- MODULE AATransport -----------------------------
(***************************************************************************)
(* The transport's view of LLDP: what aatrans_asgn_data_set does to the     *)
(* remote ports (h_rports) that LLDP keeps for each interface.              *)
(*                                                                         *)
(* rports is a function from the interfaces LLDP runs on to the sequence of *)
(* neighbours heard there, each with the assignments of its TLV (maps): a   *)
(* function from the bindings it advertised to their statuses.              *)
(***************************************************************************)
EXTENDS Integers, Sequences, FiniteSetsExt, Functions

(* The neighbour whose maps the search uses: the first that has any; the    *)
(* loop returns at the end of its first turn with a non-empty list.         *)
WithMaps(neighbours) ==
    {j \in DOMAIN neighbours : DOMAIN neighbours[j].maps # {}}

Searched(neighbours) == Min(WithMaps(neighbours))

(* Broken: the result of the search is taken the wrong way round.           *)
AsgnDataSetRcInverted(rports, port, binding) ==
    IF port \notin DOMAIN rports THEN "EINVAL"
    ELSE IF WithMaps(rports[port]) = {} THEN "ENONE"
    ELSE LET maps == rports[port][Searched(rports[port])].maps
         IN  IF binding \in DOMAIN maps THEN "EINVAL" ELSE "ENONE"

(* The return code: an unknown interface and a binding that the searched    *)
(* neighbour does not have are EINVAL; no neighbour with maps is success.   *)
AsgnDataSetRc(rports, port, binding) ==
    IF port \notin DOMAIN rports THEN "EINVAL"
    ELSE IF WithMaps(rports[port]) = {} THEN "ENONE"
    ELSE LET maps == rports[port][Searched(rports[port])].maps
         IN  IF binding \in DOMAIN maps THEN "ENONE" ELSE "EINVAL"

(* Broken: the status is shifted out of its field of four bits.             *)
AsgnDataSetShifted(rports, port, binding, status, enable) ==
    IF AsgnDataSetRc(rports, port, binding) # "ENONE"
       \/ WithMaps(rports[port]) = {}
    THEN rports
    ELSE LET j == Searched(rports[port])
         IN  [rports EXCEPT ![port][j].maps[binding] = "RESERVED"]

(* Its effect: enabling sets the status of a map and never adds one,        *)
(* disabling removes it.                                                    *)
AsgnDataSet(rports, port, binding, status, enable) ==
    IF AsgnDataSetRc(rports, port, binding) # "ENONE"
       \/ WithMaps(rports[port]) = {}
    THEN rports
    ELSE LET j    == Searched(rports[port])
             maps == rports[port][j].maps
         IN  [rports EXCEPT ![port][j].maps =
                 IF enable THEN [maps EXCEPT ![binding] = status]
                           ELSE Restrict(maps, DOMAIN maps \ {binding})]
=============================================================================
