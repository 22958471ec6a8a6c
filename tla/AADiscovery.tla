---------------------------- MODULE AADiscovery ----------------------------
(***************************************************************************)
(* The elements that the agent discovers on its ports, composed with the    *)
(* ports of AAPorts.                                                        *)
(*                                                                         *)
(* Two threads.  One makes the configuration calls, each under the agent    *)
(* mutex; the calls that write to the agent and to LLDP are taken apart     *)
(* into their writes.  The other receives frames.  Its message to the agent *)
(* is dispatched without the mutex: the service is tested without it, the   *)
(* port under it, and the element is stored under it again.                 *)
(***************************************************************************)
EXTENDS AAPorts, AAMessage

CONSTANTS
    Neighbour       \* records [type, vlan, id] that neighbours announce

NoNeighbour == [id |-> "none"]
NoCall == [pc |-> "idle"]

VARIABLES
    faDiscoveredElements,   \* by interface
    rports,         \* what lldpd knows of the neighbour on each of its ports
    call,           \* the receiving thread's message: where it is, and what
    change,         \* the writes a configuration call has before it
    raced           \* history: ports whose neighbour was turned away because
                    \* LLDP was enabled already and the agent not yet

heardVars == <<faDiscoveredElements, rports, call, raced>>
discoveryVars == <<vars, heardVars, change>>

ASSUME PortAssumption == Port \subseteq Word \ {0}

ASSUME NeighbourAssumption ==
    \A n \in Neighbour : /\ n = [type |-> n.type, vlan |-> n.vlan, id |-> n.id]
                         /\ n.vlan \in 0 .. 4095 /\ n.type \in 1 .. 15

MutexFree == change = << >>

DiscoveryInit ==
    /\ Init
    /\ faDiscoveredElements = << >>
    /\ rports = [p \in Port |-> NoNeighbour]
    /\ call = NoCall
    /\ change = << >>
    /\ raced = {}
-----------------------------------------------------------------------------
(* faAgentSetServiceStatus tells LLDP first and changes its own state then. *)
ServiceWrites(enable) == << [to |-> "lldp", enable |-> enable],
                            [to |-> "agent", enable |-> enable] >>

(* faAgentSetElementType, around whose change the service is off.           *)
TypeWrites ==
    IF faServiceStatus
    THEN ServiceWrites(FALSE) \o << [to |-> "type"] >> \o ServiceWrites(TRUE)
    ELSE << [to |-> "type"] >>

BeginChange ==
    /\ MutexFree
    /\ \/ \E enable \in BOOLEAN : change' = ServiceWrites(enable)
       \/ faElementType = "unset" /\ change' = TypeWrites
    /\ UNCHANGED <<vars, heardVars>>

Write ==
    /\ ~MutexFree
    /\ change' = Tail(change)
    /\ LET w == Head(change)
       IN  \/ /\ w.to = "lldp"
              /\ aaGlobalEnabled' = w.enable
              /\ hardware' = IF aaGlobalEnabled = w.enable THEN hardware
                                                           ELSE NotifyAll(w.enable)
              /\ UNCHANGED <<faServiceStatus, faElementType>>
           \/ /\ w.to = "agent"
              /\ faServiceStatus' = w.enable
              /\ UNCHANGED <<faElementType, aaGlobalEnabled, hardware>>
           \/ /\ w.to = "type"
              /\ faElementType' = "server"
              /\ UNCHANGED <<faServiceStatus, aaGlobalEnabled, hardware>>
    /\ answer' = NoAnswer
    /\ UNCHANGED <<aaPortsList, vlanVars, heardVars>>

(* The agent's ports, as in AAPorts. *)
ConfigurePort ==
    /\ MutexFree
    /\ \E p \in Port : \/ PortCreate(p)
                       \/ PortDestroy(p)
                       \/ \E ena \in BOOLEAN : PortStateSet(p, ena)
    /\ UNCHANGED <<heardVars, change>>

(* aatransi_port_create: the port is without neighbours. *)
LldpPortCreate(p, id) ==
    /\ MutexFree
    /\ HardwareCreate(p, id)
    /\ UNCHANGED <<heardVars, change>>

-----------------------------------------------------------------------------
AaOn(p) == aaGlobalEnabled /\ Found(p) # {} /\ hardware[FirstOf(p)].enabled

(* aasdki_disc_data_set of the receiving thread, from its start.            *)
Message(p, n) == [pc |-> "service", port |-> p,
                  arg0 |-> Pack(p, n.vlan, n.type), id |-> n.id]

(* aatransi_packet_process hands a frame to lldpd at the first port with    *)
(* the ifindex.  lldpd keeps what it says of the neighbour, and hands it on *)
(* if it is new and Auto Attach is on.                                      *)
FrameArrives(p, n) ==
    /\ call = NoCall /\ Found(p) # {} /\ rports[p] # n
    /\ rports' = [rports EXCEPT ![p] = n]
    /\ call' = IF AaOn(p) THEN Message(p, n) ELSE NoCall
    /\ UNCHANGED <<vars, faDiscoveredElements, change, raced>>

(* It hands on what it knew before, where it was asked to. *)
KnownDelivered(i) ==
    /\ call = NoCall
    /\ Delivered(i)
    /\ LET p == hardware[i].ifindex
       IN  call' = IF rports[p] = NoNeighbour THEN NoCall ELSE Message(p, rports[p])
    /\ UNCHANGED <<faDiscoveredElements, rports, change, raced>>

(* faDiscoveredElementsCreate makes an element of the message.              *)
Element(arg0, id) == [type |-> TypeOf(arg0), vlan |-> VlanOf(arg0), id |-> id]

(* Broken: a known element is not updated.                                  *)
StoreNew(arg0, id) ==
    faDiscoveredElements' =
        IF InterfaceOf(arg0) \in DOMAIN faDiscoveredElements
        THEN faDiscoveredElements
        ELSE [q \in DOMAIN faDiscoveredElements \cup {InterfaceOf(arg0)} |->
                IF q = InterfaceOf(arg0)
                THEN Element(arg0, id)
                ELSE faDiscoveredElements[q]]

(* faAgentProcessElementDiscovery updates or creates. *)
Store(arg0, id) ==
    faDiscoveredElements' =
        [q \in DOMAIN faDiscoveredElements \cup {InterfaceOf(arg0)} |->
            IF q = InterfaceOf(arg0)
            THEN Element(arg0, id)
            ELSE faDiscoveredElements[q]]

PortFaEnabled(p) == p \in Listed /\ aaPortsList[p].ena

(* faAgent_main_proc tests the service, without the mutex. *)
ServiceTest ==
    /\ call.pc = "service"
    /\ call' = IF faServiceStatus THEN [call EXCEPT !.pc = "port"] ELSE NoCall
    /\ raced' = IF ~faServiceStatus /\ aaGlobalEnabled THEN raced \cup {call.port} ELSE raced
    /\ UNCHANGED <<vars, faDiscoveredElements, rports, change>>

(* The port, under it. *)
PortTest ==
    /\ call.pc = "port" /\ MutexFree
    /\ call' = IF PortFaEnabled(InterfaceOf(call.arg0)) THEN [call EXCEPT !.pc = "store"]
                                                        ELSE NoCall
    /\ UNCHANGED <<vars, faDiscoveredElements, rports, change, raced>>

(* And stores, having let go of it between. *)
StoreElement ==
    /\ call.pc = "store" /\ MutexFree
    /\ Store(call.arg0, call.id)
    /\ call' = NoCall
    /\ raced' = raced \ {call.port}
    /\ UNCHANGED <<vars, rports, change>>

(* aatransi_port_delete, which first sends the agent an empty element for   *)
(* the port: the agent takes it only if the port is still enabled there.    *)
(* The code tests the service, tests the port and stores, without holding   *)
(* the mutex from one to the next.  Here they are one step: what is tested, *)
(* only this thread writes, and a message that the other thread stores in   *)
(* between is as if stored after it.                                        *)
LldpPortDelete(p) ==
    /\ MutexFree
    /\ HardwareDelete(p)
    /\ IF faServiceStatus /\ PortFaEnabled(p) THEN Store(Pack(p, 0, 0), "zero")
                                              ELSE UNCHANGED faDiscoveredElements
    /\ rports' = [rports EXCEPT ![p] = NoNeighbour]
    /\ raced' = raced \ {p}
    /\ UNCHANGED <<call, change>>

ApiThread ==
    \/ BeginChange \/ Write \/ ConfigurePort
    \/ \E p \in Port, id \in SysId : LldpPortCreate(p, id)
    \/ \E p \in Port : LldpPortDelete(p)

ReceiveThread ==
    \/ \E p \in Port, n \in Neighbour : FrameArrives(p, n)
    \/ \E i \in DOMAIN hardware : KnownDelivered(i)
    \/ ServiceTest \/ PortTest \/ StoreElement

DiscoveryNext == ApiThread \/ ReceiveThread

DiscoverySpec == DiscoveryInit /\ [][DiscoveryNext]_discoveryVars

(* The receiving thread hands on what it has; a configuration call waits    *)
(* for nothing.  The mutex is free between two configuration calls again    *)
(* and again.                                                               *)
DiscoveryFairSpec ==
    /\ DiscoverySpec
    /\ WF_discoveryVars(Write) /\ WF_discoveryVars(ServiceTest)
    /\ \A i \in 1 .. MaxHardware : SF_discoveryVars(i \in DOMAIN hardware /\ KnownDelivered(i))
    /\ SF_discoveryVars(PortTest) /\ SF_discoveryVars(StoreElement)
-----------------------------------------------------------------------------
(* aasdki_port_status_get: what the agent says of the neighbour.            *)
PortStatus(p) ==
    IF p \in DOMAIN faDiscoveredElements THEN faDiscoveredElements[p] ELSE NoNeighbour

(* aasdki_glbl_status_get *)
GlobalStatus == [enabled |-> faServiceStatus, elem_type |-> faElementType,
                 mgmt_vlan |-> faMgmtVlan]

(* aatransi_port_neighbors_get: what LLDP says of them.  One entry of the   *)
(* caller's room is always left, but a room of one is taken for unlimited.  *)
NeighborsGet(p, maxcount) ==
    LET known == IF rports[p] = NoNeighbour THEN << >> ELSE <<rports[p]>>
    IN  IF maxcount > 1 THEN SubSeq(known, 1, Min({maxcount - 1, Len(known)}))
                        ELSE known

(* Every variable has its type; what is stored is what a neighbour sent.    *)
DiscoveryTypeOK ==
    /\ TypeOK
    /\ DOMAIN faDiscoveredElements \subseteq Port
    /\ Orderly => \A p \in DOMAIN faDiscoveredElements :
                     faDiscoveredElements[p] \in Neighbour
    /\ rports \in [Port -> Neighbour \cup {NoNeighbour}]
    /\ call.pc \in {"idle", "service", "port", "store"}
    /\ raced \subseteq Port
    /\ Len(change) <= 5

(* No neighbour is missed.  While Auto Attach is on at a port, and the      *)
(* agent and LLDP are at rest there, a neighbour that LLDP answers for the  *)
(* port is what the agent answers for it, in whatever order the switches    *)
(* were set, ports came and went and messages were turned away.             *)
(* There is one exception, a message that came between the two writes that  *)
(* enable the service: LLDP is told first, and the agent turns away what    *)
(* LLDP delivers before it has noted the change itself.                     *)
NoNeighbourMissed ==
    (MutexFree /\ call = NoCall) =>
        \A i \in DOMAIN hardware :
            LET p == hardware[i].ifindex
            IN  ( /\ GlobalStatus.enabled /\ PortFaEnabled(p)
                  /\ ~hardware[i].notify /\ p \notin raced )
                => \A n \in ToSet(NeighborsGet(p, 2)) : PortStatus(p) = n

(* A neighbour that stays on a port where Auto Attach stays on becomes      *)
(* known, whatever else is configured meanwhile.                            *)
NeighbourBecomesKnown ==
    \A p \in Port, n \in Neighbour :
        []<>( \/ ~AaOn(p) \/ ~PortFaEnabled(p) \/ ~faServiceStatus
              \/ rports[p] # n \/ p \in raced
              \/ PortStatus(p) = n )
=============================================================================
