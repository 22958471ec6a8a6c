------------------------------ MODULE AASystem ------------------------------
(***************************************************************************)
(* The server with its neighbours: LLDP frames arrive, each of their        *)
(* bindings becomes a call of aasdki_asgn_data_set, the agent decides and   *)
(* answers through the transport, and LLDP shows the answer to the          *)
(* neighbour.  The clock and the configuration move between any two calls.  *)
(*                                                                         *)
(* lldpd itself is not part of the repository (an empty submodule); it is   *)
(* modelled from how the SDK uses it: a frame replaces what was known of    *)
(* its sender, and a silent sender is forgotten in the end.                 *)
(*                                                                         *)
(* All interfaces are actual ones (1..9999), for which                      *)
(* faServerAsgnRejectionProcessing does nothing: a deletion from the table  *)
(* does not reach the transport.                                            *)
(***************************************************************************)
EXTENDS AAServer, AATransport, SequencesExt

CONSTANTS
    Neighbour,          \* LLDP agents
    IfcOf               \* the interface a neighbour is heard on

ASSUME SystemAssumption == IfcOf \in [Neighbour -> Port]

VARIABLES
    rports,             \* LLDP's remote ports, see AATransport
    frame               \* the frame in process, or NoFrame

systemVars == <<vars, rports, frame>>

NoFrame == [from |-> "nobody"]
Idle == frame = NoFrame

NeighboursAt(p) == {rports[p][j].from : j \in DOMAIN rports[p]}

SystemInit ==
    /\ Init
    /\ rports = [p \in Port |-> <<>>]
    /\ frame = NoFrame

(* LLDP drops what it knew of a neighbour, which it knows at most once.     *)
Forgotten(n) ==
    LET known == {j \in DOMAIN rports[IfcOf[n]] : rports[IfcOf[n]][j].from = n}
    IN  IF known = {} THEN rports[IfcOf[n]]
                      ELSE RemoveAt(rports[IfcOf[n]], CHOOSE j \in known : TRUE)

(* LLDP receives a frame from n that asks for a set of bindings, and keeps  *)
(* it as it was received.                                                   *)
FrameArrives(n, wanted, request) ==
    /\ Idle
    /\ rports' = [rports EXCEPT ![IfcOf[n]] =
           Append(Forgotten(n), [from |-> n, maps |-> [b \in wanted |-> request]])]
    /\ frame' = [from |-> n, request |-> request, todo |-> wanted,
                 admitted |-> {}, elapsed |-> 0]
    /\ UNCHANGED vars

(* Does the agent answer at all?  It does not when the entry is ACTIVE      *)
(* already or has the status the neighbour asks for.                        *)
Answers(b, request) ==
    /\ Heeded(PortOf[b])
    /\ Admissible(b)
    /\ status[b] \notin {"ACTIVE", request}

(* One binding of the frame. *)
Deliver(b) ==
    /\ ~Idle /\ b \in frame.todo
    /\ LET rc == AsgnDataSetRc(rports, PortOf[b], b)
       IN  \/ ReceiveBinding(b, frame.request, rc = "ENONE")
           \/ IgnoreBinding(b)
    /\ rports' = IF Answers(b, frame.request)
                 THEN AsgnDataSet(rports, PortOf[b], b, "ACTIVE", TRUE)
                 ELSE rports
    /\ frame' = [frame EXCEPT !.todo = @ \ {b},
                              !.admitted = IF Heeded(PortOf[b]) /\ Admissible(b)
                                           THEN @ \cup {b} ELSE @]

FrameEnds ==
    /\ ~Idle /\ frame.todo = {}
    /\ frame' = NoFrame
    /\ UNCHANGED <<vars, rports>>

(* The time to live that n gave its last frame runs out. *)
NeighbourAgesOut(n) ==
    /\ Idle /\ n \in NeighboursAt(IfcOf[n])
    /\ rports' = [rports EXCEPT ![IfcOf[n]] = Forgotten(n)]
    /\ UNCHANGED <<vars, frame>>

Neighbourly ==
    \/ \E n \in Neighbour : \E wanted \in SUBSET Scope(IfcOf[n]) :
          \E request \in Requested : FrameArrives(n, wanted, request)
    \/ \E n \in Neighbour : NeighbourAgesOut(n)

Process == FrameEnds \/ \E b \in Binding : Deliver(b)

(* Between two calls the clock ticks, or somebody configures the agent.     *)
(* frame.elapsed (a history variable) counts the seconds a frame takes, up  *)
(* to the immediate-delete limit.                                           *)
ClockTicks ==
    /\ \E step \in TickSteps :
         /\ Tick(step)
         /\ frame' = IF Idle THEN frame
                    ELSE [frame EXCEPT !.elapsed = Min({@ + step, ImmediateDel})]
    /\ UNCHANGED rports

Background == ClockTicks \/ (Configure /\ UNCHANGED <<rports, frame>>)

SystemNext == Neighbourly \/ Process \/ Background

SystemSpec == SystemInit /\ [][SystemNext]_systemVars
-----------------------------------------------------------------------------
(* Every variable has its type. *)
SystemTypeOK ==
    /\ TypeOK
    /\ DOMAIN rports = Port
    /\ \A p \in Port : \A r \in Range(rports[p]) :
          /\ r.from \in Neighbour /\ IfcOf[r.from] = p
          /\ r.maps \in [DOMAIN r.maps -> Requested \cup {"ACTIVE"}]
          /\ DOMAIN r.maps \subseteq Scope(p)
    /\ ~Idle => /\ frame.from \in Neighbour
                /\ frame.request \in Requested
                /\ frame.todo \cup frame.admitted \subseteq Scope(IfcOf[frame.from])
                /\ frame.elapsed \in 0 .. ImmediateDel

(* What LLDP shows its neighbours of a binding. *)
Shown(b) == {r.maps[b] : r \in {s \in Range(rports[PortOf[b]]) : b \in DOMAIN s.maps}}

(* The frame is being processed in time while it takes less than the limit  *)
(* and than every term that may be configured, and neither the clock nor    *)
(* the sum of the age test wrapped.                                         *)
FrameInTime ==
    /\ ~Idle /\ frame.elapsed <= currentTime
    /\ \A limit \in {ImmediateDel} \cup Expirations :
          frame.elapsed < limit /\ currentTime + limit < W

FrameEndedInTime == FrameInTime /\ frame.todo = {}

(* The agent cleans the interface up after every binding of a frame, not    *)
(* after the frame, and so deletes bindings that are still to come in it.   *)
(* They come back: a frame that was processed in time leaves all bindings   *)
(* it was admitted for in the table, in whatever order they came, whatever  *)
(* was there before and whatever was configured meanwhile.                  *)
FrameLeavesItsBindings == FrameEndedInTime => frame.admitted \subseteq Held

(* And it takes away what its sender no longer asks for: an entry that is   *)
(* not in the frame is younger than twice the limit (the limit at the       *)
(* clean-up, and the time since), long before its term is over.             *)
FrameIsTheTruth ==
    FrameEndedInTime /\ frame.admitted # {} =>
        \A c \in (Scope(IfcOf[frame.from]) \cap Held) \ frame.admitted :
            ~OldEnough(lastUpdated[c], 2 * ImmediateDel, currentTime)

(* A request that makes a new entry is answered: the entry is ACTIVE and    *)
(* LLDP shows its neighbour so, with one neighbour on each interface.       *)
NewRequestAnswered ==
    [][\A b \in Binding : (Deliver(b) /\ b \notin Held /\ status'[b] # "none") =>
         status'[b] = "ACTIVE" /\ "ACTIVE" \in Shown(b)']_systemVars

(* For every assignment request received, the server replies with the       *)
(* status ACTIVE: README-AA-Server.txt, lines 26-27.                        *)
EveryRequestAnswered ==
    [][\A b \in Binding :
         (Deliver(b) /\ Heeded(PortOf[b]) /\ status'[b] # "none") =>
         "ACTIVE" \in Shown(b)']_systemVars

(* A maintenance run deletes an assignment from the FA database and from    *)
(* the FA LLDP database: aa_server.c, line 229.                             *)
DeletedFromLldpToo ==
    [][\A b \in Binding : (ClockTicks /\ status[b] = "ACTIVE" /\ status'[b] = "none")
         => "ACTIVE" \notin Shown(b)']_systemVars
=============================================================================
