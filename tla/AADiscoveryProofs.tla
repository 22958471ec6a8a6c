------------------------- MODULE AADiscoveryProofs --------------------------
(***************************************************************************)
(* No neighbour is missed.  First the message that LLDP sends: its fields   *)
(* come back as they were put in, for every port, VLAN and type that fits.  *)
(* Then the two threads: what LLDP knows of a port where Auto Attach is on  *)
(* and the agent does not is always on its way, because the port still has  *)
(* to deliver it or because the message is in the receiving thread's hands. *)
(***************************************************************************)
EXTENDS AADiscovery, AAPortsProofs

(* A remainder fits.                                                        *)
LEMMA RemainderFits ==
    ASSUME NEW r \in Nat
    PROVE  r % 65536 \in Nat /\ r % 65536 < 65536
  BY Z3T(30)

(* LLDP packs a message and the agent takes it apart: the agent works on    *)
(* the interface, with the VLAN and the type of the frame, if the interface *)
(* is one of the 65536 that fit.                                            *)
THEOREM MessageArrives ==
    ASSUME NEW port \in Nat, port < 65536,
           NEW vlan \in Nat, vlan < 4096,
           NEW type \in Nat, type < 16
    PROVE  /\ InterfaceOf(Pack(port, vlan, type)) = port
           /\ VlanOf(Pack(port, vlan, type)) = vlan
           /\ TypeOf(Pack(port, vlan, type)) = type
<1> DEFINE word == port + vlan * 65536 + type * 268435456
           upper == vlan + type * 4096
           lower == port + vlan * 65536
<1>1. Pack(port, vlan, type) = word
  BY Fits DEF Pack
<1>2. /\ word = port + upper * 65536 /\ upper \in Nat
      /\ word = lower + type * 268435456 /\ lower \in Nat /\ lower < 268435456
  BY Z3
<1> HIDE DEF word, lower
<1>3. word % 65536 = port /\ word \div 65536 = upper
  BY <1>2, Digits
<1>4. upper % 4096 = vlan
  BY Digits
<1>5. word \div 268435456 = type /\ type % 16 = type
  BY <1>2, Digits, Fits
<1> QED
  BY <1>1, <1>3, <1>4, <1>5 DEF InterfaceOf, VlanOf, TypeOf

(* A port that does not fit does not spoil the rest of its message.         *)
THEOREM OnlyThePortIsCut ==
    ASSUME NEW port \in Nat,
           NEW vlan \in Nat, vlan < 4096,
           NEW type \in Nat, type < 16
    PROVE  /\ InterfaceOf(Pack(port, vlan, type)) = port % 65536
           /\ VlanOf(Pack(port, vlan, type)) = vlan
           /\ TypeOf(Pack(port, vlan, type)) = type
<1> DEFINE kept == port % 65536
<1>1. kept \in Nat /\ kept < 65536
  BY RemainderFits
<1> HIDE DEF kept
<1>2. kept % 65536 = kept
  BY <1>1, Fits
<1>3. Pack(port, vlan, type) = Pack(kept, vlan, type)
  BY <1>2 DEF Pack, kept
<1>4. InterfaceOf(Pack(kept, vlan, type)) = kept
      /\ VlanOf(Pack(kept, vlan, type)) = vlan
      /\ TypeOf(Pack(kept, vlan, type)) = type
  BY <1>1, MessageArrives
<1> QED
  BY <1>3, <1>4 DEF kept
-----------------------------------------------------------------------------
(* The writes of a configuration call.  One to LLDP is followed at once by  *)
(* the same to the agent, and no other write to the agent comes.            *)
SwitchWrite == [to : {"lldp", "agent"}, enable : BOOLEAN]
AnyWrite == SwitchWrite \cup {[to |-> "type"]}

PairedWrites ==
    /\ change \in Seq(AnyWrite) /\ Len(change) <= 5
    /\ \A i \in DOMAIN change :
          /\ change[i].to = "lldp" =>
                /\ i + 1 \in DOMAIN change
                /\ change[i + 1] = [to |-> "agent", enable |-> change[i].enable]
          /\ (i # 1 /\ change[i].to = "agent") =>
                change[i - 1] = [to |-> "lldp", enable |-> change[i].enable]

(* A message that is under way: from which port, and what it says.          *)
Sent(n) == call = [Message(call.port, n) EXCEPT !.pc = call.pc]

ReceivedTyped ==
    /\ DOMAIN faDiscoveredElements \subseteq Port
    /\ rports \in [Port -> Neighbour \cup {NoNeighbour}]
    /\ raced \subseteq Port
    /\ call # NoCall =>
          /\ call.pc \in {"service", "port", "store"} /\ call.port \in Port
          /\ \E n \in Neighbour : Sent(n)

DiscoveryTyped == PortsTyped /\ PairedWrites /\ ReceivedTyped

(* What is stored is what a neighbour sent.                                 *)
FromNeighbours ==
    \A p \in DOMAIN faDiscoveredElements : faDiscoveredElements[p] \in Neighbour

(* LLDP and the agent differ in the switch between the two writes only.     *)
SwitchesInStep ==
    IF change # << >> /\ Head(change).to = "agent"
    THEN aaGlobalEnabled = Head(change).enable
    ELSE aaGlobalEnabled = faServiceStatus

(* LLDP has the port, and is asked to deliver what it knows there.          *)
On(p) == \E i \in DOMAIN hardware : hardware[i].ifindex = p
Asked(p) == \E i \in DOMAIN hardware : hardware[i].ifindex = p /\ hardware[i].notify

(* LLDP has neighbours on its ports only, and a message under way says what *)
(* LLDP knows, unless the port is gone since.                               *)
HeardOnPorts ==
    /\ \A p \in Port : rports[p] # NoNeighbour => On(p)
    /\ call # NoCall => (rports[call.port] = NoNeighbour \/ Sent(rports[call.port]))

(* What the agent does not know it will be told.                            *)
Owed ==
    \A p \in Port :
       (aaGlobalEnabled /\ PortFaEnabled(p) /\ rports[p] # NoNeighbour /\ p \notin raced) =>
          \/ PortStatus(p) = rports[p]
          \/ Asked(p)
          \/ call # NoCall /\ call.port = p

DiscoveryInv ==
    /\ DiscoveryTyped
    /\ Orderly
    /\ AgreeInv
    /\ SwitchesInStep
    /\ HeardOnPorts
    /\ Owed
-----------------------------------------------------------------------------
(* What a message of one of the ports says of one of the neighbours.        *)
LEMMA Received ==
    ASSUME NEW p \in Port, NEW n \in Neighbour
    PROVE  /\ InterfaceOf(Pack(p, n.vlan, n.type)) = p
           /\ Element(Pack(p, n.vlan, n.type), n.id) = n
<1>1. p \in Nat /\ p < 65536
  <2>1. p \in Word
    BY PortAssumption DEF PortAssumption
  <2> QED
    BY <2>1 DEF Word
<1>2. n.vlan \in 0 .. 4095 /\ n.type \in 1 .. 15
  BY NeighbourAssumption DEF NeighbourAssumption
<1>3. n = [type |-> n.type, vlan |-> n.vlan, id |-> n.id]
  BY NeighbourAssumption DEF NeighbourAssumption
<1>4. /\ InterfaceOf(Pack(p, n.vlan, n.type)) = p
      /\ VlanOf(Pack(p, n.vlan, n.type)) = n.vlan
      /\ TypeOf(Pack(p, n.vlan, n.type)) = n.type
  <2>1. PICK v \in 0 .. 4095 : v = n.vlan
    BY <1>2
  <2>2. PICK t \in 1 .. 15 : t = n.type
    BY <1>2
  <2>3. v \in Nat /\ v < 4096 /\ t \in Nat /\ t < 16
    OBVIOUS
  <2>4. /\ InterfaceOf(Pack(p, v, t)) = p /\ VlanOf(Pack(p, v, t)) = v
        /\ TypeOf(Pack(p, v, t)) = t
    BY <1>1, <2>3, MessageArrives
  <2> QED
    BY <2>1, <2>2, <2>4
<1> QED
  BY <1>3, <1>4 DEF Element

LEMMA NobodyIsNoNeighbour == NoNeighbour \notin Neighbour
<1>1. \A n \in Neighbour : n = [type |-> n.type, vlan |-> n.vlan, id |-> n.id]
  BY NeighbourAssumption DEF NeighbourAssumption
<1>2. \A n \in Neighbour : "type" \in DOMAIN n
  BY <1>1
<1>3. "type" \notin DOMAIN NoNeighbour
  BY DEF NoNeighbour
<1> QED
  BY <1>2, <1>3

(* The fields of a message under way.                                       *)
LEMMA SentFields ==
    ASSUME NEW n, Sent(n)
    PROVE  call.arg0 = Pack(call.port, n.vlan, n.type) /\ call.id = n.id
  BY DEF Sent, Message

(* A message is where it was, one test further on.                          *)
LEMMA SentOn ==
    ASSUME NEW n, Sent(n), NEW pc, call' = [call EXCEPT !.pc = pc]
    PROVE  Sent(n)' /\ call'.pc = pc /\ call'.port = call.port
<1> DEFINE p == call.port
           was == call.pc
<1>1. call = [pc |-> was, port |-> p, arg0 |-> Pack(p, n.vlan, n.type), id |-> n.id]
  BY DEF Sent, Message
<1> HIDE DEF p, was
<1>2. call' = [pc |-> pc, port |-> p, arg0 |-> Pack(p, n.vlan, n.type), id |-> n.id]
  BY <1>1
<1> QED
  BY <1>1, <1>2 DEF Sent, Message, p

LEMMA NewMessage ==
    ASSUME NEW p, NEW n, call' = Message(p, n)
    PROVE  Sent(n)' /\ call'.pc = "service" /\ call'.port = p /\ call' # NoCall
<1>1. call' = [pc |-> "service", port |-> p, arg0 |-> Pack(p, n.vlan, n.type), id |-> n.id]
  BY DEF Message
<1>2. NoCall.pc = "idle" /\ "idle" # "service"
  BY DEF NoCall
<1> QED
  BY <1>1, <1>2 DEF Sent, Message

LEMMA UnderWay == call.pc \in {"service", "port", "store"} => call # NoCall
  BY DEF NoCall
-----------------------------------------------------------------------------
(* Types.                                                                   *)
LEMMA WritesBegin ==
    ASSUME BeginChange
    PROVE  PairedWrites' /\ change' # << >> /\ Head(change').to # "agent"
<1>1. PairedWrites' /\ change' # << >> /\ change'[1].to # "agent"
  <2> DEFINE on == [to |-> "lldp", enable |-> TRUE]
             off == [to |-> "lldp", enable |-> FALSE]
             isOn == [to |-> "agent", enable |-> TRUE]
             isOff == [to |-> "agent", enable |-> FALSE]
             type == [to |-> "type"]
  <2>1. {on, off, isOn, isOff} \subseteq SwitchWrite
    BY DEF SwitchWrite
  <2>2. {on, off, isOn, isOff, type} \subseteq AnyWrite
    BY <2>1 DEF AnyWrite
  <2>3. /\ on.to = "lldp" /\ isOn = [to |-> "agent", enable |-> on.enable]
        /\ isOn.to = "agent" /\ on = [to |-> "lldp", enable |-> isOn.enable]
        /\ off.to = "lldp" /\ isOff = [to |-> "agent", enable |-> off.enable]
        /\ isOff.to = "agent" /\ off = [to |-> "lldp", enable |-> isOff.enable]
        /\ type.to = "type"
    OBVIOUS
  <2>4. ServiceWrites(TRUE) = <<on, isOn>> /\ ServiceWrites(FALSE) = <<off, isOff>>
    BY DEF ServiceWrites
  <2>5. TypeWrites = IF faServiceStatus
                     THEN (<<off, isOff>> \o <<type>>) \o <<on, isOn>>
                     ELSE <<type>>
    BY <2>4 DEF TypeWrites
  <2> HIDE DEF on, off, isOn, isOff, type
  <2>6. ASSUME NEW w \in {on, off}, NEW is, <<w, is>> \in {<<on, isOn>>, <<off, isOff>>},
               change' = <<w, is>>
        PROVE  PairedWrites' /\ change' # << >> /\ change'[1].to # "agent"
    <3>1. w \in AnyWrite /\ is \in AnyWrite
      BY <2>2, <2>6
    <3>2. /\ w.to = "lldp" /\ is = [to |-> "agent", enable |-> w.enable]
          /\ is.to = "agent" /\ w = [to |-> "lldp", enable |-> is.enable]
      BY <2>3, <2>6
    <3>3. /\ change' \in Seq(AnyWrite) /\ Len(change') = 2
          /\ change'[1] = w /\ change'[2] = is
      BY <2>6, <3>1
    <3>4. \A i \in DOMAIN change' : i = 1 \/ i = 2
      BY <3>3
    <3>5. PairedWrites'
      BY <3>2, <3>3, <3>4 DEF PairedWrites
    <3>6. change'[1].to # "agent"
      BY <3>2, <3>3
    <3>7. change' # << >>
      BY <3>3
    <3> QED
      BY <3>5, <3>6, <3>7
  <2>7. CASE change' = <<type>>
    <3>1. change' \in Seq(AnyWrite) /\ Len(change') = 1 /\ change'[1] = type
      BY <2>2, <2>7
    <3>2. \A i \in DOMAIN change' : i = 1
      BY <3>1
    <3>3. PairedWrites'
      BY <2>3, <3>1, <3>2 DEF PairedWrites
    <3>4. change'[1].to # "agent"
      BY <2>3, <3>1
    <3>5. change' # << >>
      BY <3>1
    <3> QED
      BY <3>3, <3>4, <3>5
  <2>8. CASE change' = (<<off, isOff>> \o <<type>>) \o <<on, isOn>>
    <3> DEFINE first == <<off, isOff>>
               middle == <<type>>
               last == <<on, isOn>>
    <3>1. /\ first \in Seq(AnyWrite) /\ Len(first) = 2 /\ first[1] = off /\ first[2] = isOff
          /\ last \in Seq(AnyWrite) /\ Len(last) = 2 /\ last[1] = on /\ last[2] = isOn
          /\ middle \in Seq(AnyWrite) /\ Len(middle) = 1 /\ middle[1] = type
      BY <2>2
    <3> HIDE DEF first, last, middle
    <3>2. /\ first \o middle \in Seq(AnyWrite)
          /\ Len(first \o middle) = Len(first) + Len(middle)
          /\ \A i \in 1 .. Len(first) + Len(middle) :
                (first \o middle)[i] = IF i <= Len(first) THEN first[i]
                                       ELSE middle[i - Len(first)]
      <4>1. first \in Seq(AnyWrite) /\ middle \in Seq(AnyWrite)
        BY <3>1
      <4> QED
        BY <4>1, ConcatProperties
    <3>3. /\ first \o middle \in Seq(AnyWrite) /\ Len(first \o middle) = 3
          /\ (first \o middle)[1] = off /\ (first \o middle)[2] = isOff
          /\ (first \o middle)[3] = type
      BY <3>1, <3>2
    <3> DEFINE upper == first \o middle
    <3> HIDE DEF upper
    <3>4. /\ upper \o last \in Seq(AnyWrite) /\ Len(upper \o last) = 5
          /\ (upper \o last)[1] = off /\ (upper \o last)[2] = isOff
          /\ (upper \o last)[3] = type
          /\ (upper \o last)[4] = on /\ (upper \o last)[5] = isOn
      BY <3>1, <3>3, ConcatProperties DEF upper
    <3>5. change' = upper \o last
      BY <2>8 DEF upper, first, middle, last
    <3>6. /\ change' \in Seq(AnyWrite) /\ Len(change') = 5
          /\ change'[1] = off /\ change'[2] = isOff /\ change'[3] = type
          /\ change'[4] = on /\ change'[5] = isOn
      BY <3>4, <3>5
    <3>7. \A i \in DOMAIN change' : i \in {1, 2, 3, 4, 5}
      BY <3>6
    <3> QED
      BY <2>3, <3>6, <3>7 DEF PairedWrites
  <2>9. \/ change' = <<on, isOn>> \/ change' = <<off, isOff>>
        \/ change' = <<type>> \/ change' = (<<off, isOff>> \o <<type>>) \o <<on, isOn>>
    BY <2>4, <2>5 DEF BeginChange
  <2>10. CASE change' = <<on, isOn>>
    BY <2>6, <2>10
  <2>11. CASE change' = <<off, isOff>>
    BY <2>6, <2>11
  <2> QED
    BY <2>7, <2>8, <2>9, <2>10, <2>11
<1> QED
  BY <1>1

LEMMA PairedStep ==
    ASSUME PairedWrites, [DiscoveryNext]_discoveryVars
    PROVE  PairedWrites'
<1>1. CASE BeginChange
  BY <1>1, WritesBegin
<1>2. CASE Write
  <2>1. change' = Tail(change) /\ change # << >>
    BY <1>2 DEF Write, MutexFree
  <2>2. /\ change' \in Seq(AnyWrite) /\ Len(change') = Len(change) - 1
        /\ \A i \in 1 .. Len(change) - 1 : change'[i] = change[i + 1]
    BY <2>1 DEF PairedWrites
  <2>3. ASSUME NEW i \in DOMAIN change'
        PROVE  /\ change'[i].to = "lldp" =>
                     /\ i + 1 \in DOMAIN change'
                     /\ change'[i + 1] = [to |-> "agent", enable |-> change'[i].enable]
               /\ (i # 1 /\ change'[i].to = "agent") =>
                     change'[i - 1] = [to |-> "lldp", enable |-> change'[i].enable]
    <3>1. i + 1 \in DOMAIN change /\ change'[i] = change[i + 1]
      BY <2>2 DEF PairedWrites
    <3>2. /\ change[i + 1].to = "lldp" =>
               /\ (i + 1) + 1 \in DOMAIN change
               /\ change[(i + 1) + 1] = [to |-> "agent", enable |-> change[i + 1].enable]
          /\ (i + 1 # 1 /\ change[i + 1].to = "agent") =>
               change[(i + 1) - 1] = [to |-> "lldp", enable |-> change[i + 1].enable]
      BY <3>1 DEF PairedWrites
    <3>3. (i + 1) + 1 \in DOMAIN change =>
             i + 1 \in DOMAIN change' /\ change'[i + 1] = change[(i + 1) + 1]
      BY <2>2 DEF PairedWrites
    <3>4. i # 1 => i + 1 # 1 /\ change'[i - 1] = change[(i + 1) - 1]
      BY <2>2 DEF PairedWrites
    <3> QED
      BY <3>1, <3>2, <3>3, <3>4
  <2>4. Len(change') <= 5
    BY <2>2 DEF PairedWrites
  <2> QED
    BY <2>2, <2>3, <2>4 DEF PairedWrites
<1>3. CASE UNCHANGED change
  BY <1>3 DEF PairedWrites
<1>4. BeginChange \/ Write \/ UNCHANGED change
  BY DEF DiscoveryNext, ApiThread, ReceiveThread, ConfigurePort, LldpPortCreate,
     LldpPortDelete, FrameArrives, KnownDelivered, ServiceTest, PortTest, StoreElement,
     discoveryVars
<1> QED
  BY <1>1, <1>2, <1>3, <1>4

(* The steps of the two threads on the ports are those of AAPorts, but for  *)
(* the writes of the calls that are taken apart.                            *)
LEMMA PortsSteps ==
    ASSUME [DiscoveryNext]_discoveryVars
    PROVE  [Next]_vars \/ Write
<1>1. CASE ConfigurePort
  BY <1>1 DEF ConfigurePort, Next, Configuration
<1>2. ASSUME NEW p \in Port, NEW id \in SysId, LldpPortCreate(p, id) PROVE Next
  BY <1>2 DEF LldpPortCreate, Next, Lldp
<1>3. ASSUME NEW p \in Port, LldpPortDelete(p) PROVE Next
  BY <1>3 DEF LldpPortDelete, Next, Lldp
<1>4. ASSUME NEW i \in DOMAIN hardware, KnownDelivered(i) PROVE Next
  BY <1>4 DEF KnownDelivered, Next, Lldp
<1>5. ASSUME BeginChange \/ ServiceTest \/ PortTest \/ StoreElement PROVE UNCHANGED vars
  BY <1>5 DEF BeginChange, ServiceTest, PortTest, StoreElement
<1>6. ASSUME NEW p \in Port, NEW n \in Neighbour, FrameArrives(p, n) PROVE UNCHANGED vars
  BY <1>6 DEF FrameArrives
<1> QED
  BY <1>1, <1>2, <1>3, <1>4, <1>5, <1>6 DEF DiscoveryNext, ApiThread, ReceiveThread,
     discoveryVars

LEMMA PortsStayTyped ==
    ASSUME PortsTyped, PairedWrites, [DiscoveryNext]_discoveryVars
    PROVE  PortsTyped'
<1>1. CASE [Next]_vars
  BY <1>1, TypesStep
<1>2. CASE Write
  <2> DEFINE w == Head(change)
  <2>1. w \in AnyWrite
    BY <1>2 DEF Write, MutexFree, PairedWrites
  <2>2. w.to \in {"lldp", "agent"} => w.enable \in BOOLEAN
    BY <2>1 DEF AnyWrite, SwitchWrite
  <2>3. UNCHANGED <<aaPortsList, vlanVars>> /\ Listed' = Listed
    BY <1>2 DEF Write, Listed
  <2>4. CASE w.to = "lldp"
    <3>1. /\ aaGlobalEnabled' = w.enable /\ UNCHANGED <<faServiceStatus, faElementType>>
          /\ hardware' = hardware \/ hardware' = NotifyAll(w.enable)
      BY <1>2, <2>4 DEF Write
    <3> QED
      BY <2>2, <2>3, <2>4, <3>1, NotifyAllTyped DEF PortsTyped, vlanVars
  <2>5. CASE w.to # "lldp"
    BY <1>2, <2>2, <2>3, <2>5 DEF Write, PortsTyped, vlanVars
  <2> QED
    BY <2>4, <2>5
<1> QED
  BY <1>1, <1>2, PortsSteps

LEMMA PortsFit == \A p \in Port : InterfaceOf(Pack(p, 0, 0)) = p
<1> TAKE p \in Port
<1>1. p \in Word
  BY PortAssumption DEF PortAssumption
<1>2. p \in Nat /\ p < 65536
  BY <1>1 DEF Word
<1>3. 0 \in Nat /\ 0 < 4096 /\ 0 < 16
  OBVIOUS
<1> QED
  BY <1>2, <1>3, MessageArrives

LEMMA ReceivedStaysTyped ==
    ASSUME PortsTyped, ReceivedTyped, [DiscoveryNext]_discoveryVars
    PROVE  ReceivedTyped'
<1>1. ASSUME UNCHANGED <<faDiscoveredElements, rports, raced, call>> PROVE ReceivedTyped'
  BY <1>1 DEF ReceivedTyped, Sent
<1>2. CASE BeginChange \/ Write \/ ConfigurePort \/ UNCHANGED discoveryVars
           \/ \E p \in Port, id \in SysId : LldpPortCreate(p, id)
  BY <1>1, <1>2 DEF BeginChange, Write, ConfigurePort, LldpPortCreate, heardVars, discoveryVars
<1>3. ASSUME NEW p \in Port, LldpPortDelete(p) PROVE ReceivedTyped'
  <2>1. DOMAIN faDiscoveredElements' \subseteq Port
    BY <1>3, PortsFit DEF LldpPortDelete, ReceivedTyped, Store
  <2>2. rports' \in [Port -> Neighbour \cup {NoNeighbour}] /\ raced' \subseteq Port
    BY <1>3 DEF LldpPortDelete, ReceivedTyped
  <2>3. call' = call
    BY <1>3 DEF LldpPortDelete
  <2> QED
    BY <2>1, <2>2, <2>3 DEF ReceivedTyped, Sent
<1>4. ASSUME NEW p \in Port, NEW n \in Neighbour, call' \in {NoCall, Message(p, n)}
      PROVE  call' # NoCall =>
                /\ call'.pc \in {"service", "port", "store"} /\ call'.port \in Port
                /\ \E m \in Neighbour : Sent(m)'
  BY <1>4, NewMessage
<1>5. ASSUME NEW p \in Port, NEW n \in Neighbour, FrameArrives(p, n) PROVE ReceivedTyped'
  <2>1. call' \in {NoCall, Message(p, n)}
    BY <1>5 DEF FrameArrives
  <2>2. rports' \in [Port -> Neighbour \cup {NoNeighbour}]
    BY <1>5 DEF FrameArrives, ReceivedTyped
  <2>3. UNCHANGED <<faDiscoveredElements, raced>>
    BY <1>5 DEF FrameArrives
  <2> QED
    BY <1>4, <2>1, <2>2, <2>3 DEF ReceivedTyped
<1>6. ASSUME NEW i \in DOMAIN hardware, KnownDelivered(i) PROVE ReceivedTyped'
  <2> DEFINE p == hardware[i].ifindex
  <2>1. p \in Port
    <3>1. hardware[i] \in LldpPort
      BY DEF PortsTyped
    <3> QED
      BY <3>1 DEF LldpPort
  <2>2. \/ call' = NoCall
        \/ rports[p] \in Neighbour /\ call' = Message(p, rports[p])
    BY <1>6, <2>1 DEF KnownDelivered, ReceivedTyped
  <2>3. UNCHANGED <<faDiscoveredElements, rports, raced>>
    BY <1>6 DEF KnownDelivered
  <2> HIDE DEF p
  <2>4. call' # NoCall =>
                /\ call'.pc \in {"service", "port", "store"} /\ call'.port \in Port
                /\ \E m \in Neighbour : Sent(m)'
    BY <1>4, <2>1, <2>2
  <2> QED
    BY <2>3, <2>4 DEF ReceivedTyped
<1>7. ASSUME NEW pc \in {"service", "port", "store"}, call # NoCall,
             \/ call' = NoCall
             \/ call' = [call EXCEPT !.pc = pc]
      PROVE  call' # NoCall =>
                /\ call'.pc \in {"service", "port", "store"} /\ call'.port \in Port
                /\ \E m \in Neighbour : Sent(m)'
  BY <1>7, SentOn DEF ReceivedTyped
<1>8. CASE ServiceTest
  <2>1. call # NoCall
    BY <1>8, UnderWay DEF ServiceTest
  <2>2. call' = NoCall \/ call' = [call EXCEPT !.pc = "port"]
    BY <1>8 DEF ServiceTest
  <2>3. UNCHANGED <<faDiscoveredElements, rports>> /\ raced' \subseteq Port
    BY <1>8, <2>1 DEF ServiceTest, ReceivedTyped
  <2> QED
    BY <1>7, <2>1, <2>2, <2>3 DEF ReceivedTyped
<1>9. CASE PortTest
  <2>1. call # NoCall
    BY <1>9, UnderWay DEF PortTest
  <2>2. call' = NoCall \/ call' = [call EXCEPT !.pc = "store"]
    BY <1>9 DEF PortTest
  <2>3. UNCHANGED <<faDiscoveredElements, rports, raced>>
    BY <1>9 DEF PortTest
  <2> QED
    BY <1>7, <2>1, <2>2, <2>3 DEF ReceivedTyped
<1>10. CASE StoreElement
  <2>1. call # NoCall
    BY <1>10, UnderWay DEF StoreElement
  <2>2. InterfaceOf(call.arg0) \in Port
    BY <2>1, SentFields, Received DEF ReceivedTyped
  <2>3. DOMAIN faDiscoveredElements' \subseteq Port
    BY <1>10, <2>2 DEF StoreElement, Store, ReceivedTyped
  <2>4. call' = NoCall /\ rports' = rports /\ raced' \subseteq Port
    BY <1>10 DEF StoreElement, ReceivedTyped
  <2> QED
    BY <2>3, <2>4 DEF ReceivedTyped
<1>11. ReceiveThread => ReceivedTyped'
  BY <1>5, <1>6, <1>8, <1>9, <1>10 DEF ReceiveThread
<1> QED
  BY <1>2, <1>3, <1>11 DEF DiscoveryNext, ApiThread

LEMMA FromNeighboursStep ==
    ASSUME Orderly, ReceivedTyped, FromNeighbours, [DiscoveryNext]_discoveryVars
    PROVE  FromNeighbours'
<1>1. CASE UNCHANGED faDiscoveredElements
  BY <1>1 DEF FromNeighbours
<1>2. CASE StoreElement
  <2>1. call # NoCall
    BY <1>2, UnderWay DEF StoreElement
  <2>2. PICK n \in Neighbour : Sent(n)
    BY <2>1 DEF ReceivedTyped
  <2>3. Element(call.arg0, call.id) = n
    BY <2>1, <2>2, SentFields, Received DEF ReceivedTyped
  <2>4. \A q \in DOMAIN faDiscoveredElements' :
           \/ faDiscoveredElements'[q] = n
           \/ /\ q \in DOMAIN faDiscoveredElements
              /\ faDiscoveredElements'[q] = faDiscoveredElements[q]
    BY <1>2, <2>3 DEF StoreElement, Store
  <2> QED
    BY <2>4 DEF FromNeighbours
<1>3. ASSUME NEW p \in Port, LldpPortDelete(p) PROVE UNCHANGED faDiscoveredElements
  BY <1>3 DEF LldpPortDelete, HardwareDelete, PortFaEnabled
<1>4. \/ UNCHANGED faDiscoveredElements \/ StoreElement
      \/ \E p \in Port : LldpPortDelete(p)
  BY DEF DiscoveryNext, ApiThread, ReceiveThread, BeginChange, Write, ConfigurePort,
     LldpPortCreate, FrameArrives, KnownDelivered, ServiceTest, PortTest, heardVars,
     discoveryVars
<1> QED
  BY <1>1, <1>2, <1>3, <1>4

LEMMA DiscoveryTypedInitially == DiscoveryInit => DiscoveryTyped /\ FromNeighbours
<1> SUFFICES ASSUME DiscoveryInit PROVE DiscoveryTyped /\ FromNeighbours
  OBVIOUS
<1>1. PortsTyped
  BY TypesInitially DEF DiscoveryInit
<1>2. PairedWrites
  <2>1. change = << >>
    BY DEF DiscoveryInit
  <2>2. change \in Seq(AnyWrite) /\ Len(change) = 0 /\ DOMAIN change = {}
    BY <2>1
  <2> QED
    BY <2>2 DEF PairedWrites
<1>3. DOMAIN faDiscoveredElements = {}
  BY DEF DiscoveryInit
<1> QED
  BY <1>1, <1>2, <1>3 DEF DiscoveryInit, DiscoveryTyped, ReceivedTyped, FromNeighbours

(* Every variable has its type.                                             *)
LEMMA DiscoveryTypesInvariance ==
    DiscoverySpec => [](DiscoveryTyped /\ (Orderly => FromNeighbours))
<1>1. /\ DiscoveryTyped /\ (Orderly => FromNeighbours) /\ [DiscoveryNext]_discoveryVars
      => (DiscoveryTyped /\ (Orderly => FromNeighbours))'
  BY PairedStep, PortsStayTyped, ReceivedStaysTyped, FromNeighboursStep DEF DiscoveryTyped
<1> QED
  BY <1>1, DiscoveryTypedInitially, PTL DEF DiscoverySpec

(* Every variable has its type, the elements and the message among them,    *)
(* in whatever order the calls come.                                        *)
THEOREM DiscoveryTypes == DiscoverySpec => []DiscoveryTypeOK
<1>1. DiscoveryTyped /\ (Orderly => FromNeighbours) => DiscoveryTypeOK
  <2> SUFFICES ASSUME DiscoveryTyped, Orderly => FromNeighbours PROVE DiscoveryTypeOK
    OBVIOUS
  <2>1. TypeOK
    BY TypedIsTypeOK DEF DiscoveryTyped
  <2>2. call.pc \in {"idle", "service", "port", "store"}
    BY DEF DiscoveryTyped, ReceivedTyped, NoCall
  <2> QED
    BY <2>1, <2>2 DEF DiscoveryTyped, ReceivedTyped, PairedWrites, FromNeighbours,
       DiscoveryTypeOK
<1> QED
  BY <1>1, DiscoveryTypesInvariance, PTL
-----------------------------------------------------------------------------
(* LLDP forgets neither its ports nor whom it has to tell. *)
StillAsked(q) == (On(q) => On(q)') /\ (Asked(q) => Asked(q)')

LEMMA AskedInPlace ==
    ASSUME DOMAIN hardware' = DOMAIN hardware, NEW q,
           \A i \in DOMAIN hardware :
              hardware[i].ifindex = q =>
                 /\ hardware'[i].ifindex = hardware[i].ifindex
                 /\ hardware[i].notify => hardware'[i].notify
    PROVE  StillAsked(q)
  BY DEF StillAsked, On, Asked

LEMMA AskedStays == UNCHANGED hardware => \A q : StillAsked(q)
  BY DEF StillAsked, On, Asked

(* A port where Auto Attach comes on is asked, and so is every one with     *)
(* Auto Attach when the switch comes on.                                    *)
LEMMA EnaSetAsks ==
    ASSUME AgreeInv, NEW p \in Listed, NEW ena \in BOOLEAN, PortDataEnaSet(p, ena),
           aaPortsList[p].ena # ena
    PROVE  /\ \A q : StillAsked(q)
           /\ ena /\ aaGlobalEnabled => Asked(p)'
<1>1. PICK k \in DOMAIN hardware : hardware[k].ifindex = p
  BY DEF AgreeInv, Covered
<1>2. Found(p) = {k} /\ FirstOf(p) = k
  BY <1>1, FirstIsOnly DEF AgreeInv
<1>3. hardware[k] \in LldpPort /\ aaPortsList[p].ena \in BOOLEAN
  BY DEF AgreeInv, PortsTyped, AgentPort
<1>4. hardware[k].enabled # ena
  BY <1>1, <1>3 DEF AgreeInv, PortsAgree, LldpPort
<1> DEFINE asks == hardware[k].notify \/ (ena /\ aaGlobalEnabled)
           port == [hardware[k] EXCEPT !.enabled = ena, !.notify = asks]
<1>5. hardware' = [hardware EXCEPT ![k].enabled = ena, ![k].notify = asks]
  BY <1>2, <1>4 DEF PortDataEnaSet
<1>6. asks \in BOOLEAN /\ (hardware[k].notify => asks) /\ (ena /\ aaGlobalEnabled => asks)
  OBVIOUS
<1> HIDE DEF asks
<1>7. port.ifindex = p /\ port.notify = asks
  BY <1>1, <1>3 DEF LldpPort
<1>8. hardware' = [hardware EXCEPT ![k] = port]
  BY <1>3, <1>5 DEF LldpPort
<1> HIDE DEF port
<1>9. /\ DOMAIN hardware' = DOMAIN hardware
      /\ \A i \in DOMAIN hardware : hardware'[i] = IF i = k THEN port ELSE hardware[i]
  BY <1>8
<1>10. \A q : StillAsked(q)
  BY <1>1, <1>6, <1>7, <1>9, AskedInPlace
<1>11. ena /\ aaGlobalEnabled => Asked(p)'
  BY <1>6, <1>7, <1>9 DEF Asked
<1> QED
  BY <1>10, <1>11

LEMMA NotifyAllAsks ==
    ASSUME PortsTyped, NEW enable \in BOOLEAN, hardware' = NotifyAll(enable)
    PROVE  /\ \A q : StillAsked(q)
           /\ \A q : \A i \in DOMAIN hardware :
                 enable /\ hardware[i].enabled /\ hardware[i].ifindex = q => Asked(q)'
<1> DEFINE asks(i) == hardware[i].notify \/ (enable /\ hardware[i].enabled)
           port(i) == [hardware[i] EXCEPT !.notify = asks(i)]
<1>1. hardware' = [i \in DOMAIN hardware |-> port(i)]
  BY DEF NotifyAll
<1>2. \A i \in DOMAIN hardware : hardware[i] \in LldpPort
  BY DEF PortsTyped
<1>3. \A i \in DOMAIN hardware :
         /\ hardware[i].notify => asks(i)
         /\ enable /\ hardware[i].enabled => asks(i)
  OBVIOUS
<1> HIDE DEF asks
<1>4. \A i \in DOMAIN hardware :
         port(i).ifindex = hardware[i].ifindex /\ port(i).notify = asks(i)
  BY <1>2 DEF LldpPort
<1> HIDE DEF port
<1>5. \A q : StillAsked(q)
  BY <1>1, <1>3, <1>4, AskedInPlace
<1>6. \A q : \A i \in DOMAIN hardware :
         enable /\ hardware[i].enabled /\ hardware[i].ifindex = q => Asked(q)'
  BY <1>1, <1>3, <1>4 DEF Asked
<1> QED
  BY <1>5, <1>6

LEMMA AppendAsks ==
    ASSUME PortsTyped, NEW p \in Port, NEW id \in SysId, HardwareCreate(p, id)
    PROVE  \A q : StillAsked(q)
<1> DEFINE port == [ifindex |-> p, enabled |-> FALSE, notify |-> FALSE, sysId |-> id,
                    mgmtVlan |-> aa_element_mgmt_vlan]
<1>1. port \in LldpPort
  BY DEF PortsTyped, LldpPort
<1>2. hardware' = Append(hardware, port)
  BY DEF HardwareCreate
<1> HIDE DEF port
<1>3. /\ DOMAIN hardware \subseteq DOMAIN hardware'
      /\ \A i \in DOMAIN hardware : hardware'[i] = hardware[i]
  BY <1>1, <1>2, AppendProperties DEF PortsTyped
<1> QED
  BY <1>3 DEF StillAsked, On, Asked

LEMMA RemoveAsks ==
    ASSUME PortsTyped, OncePerIfc, NEW p, HardwareDelete(p)
    PROVE  \A q : q # p => StillAsked(q)
<1>1. PICK k \in DOMAIN hardware : hardware[k].ifindex = p
  BY DEF HardwareDelete, Found
<1>2. hardware' = RemoveAt(hardware, k)
  BY <1>1, FirstIsOnly DEF HardwareDelete
<1>3. hardware \in Seq(LldpPort) /\ k \in 1 .. Len(hardware)
  BY DEF PortsTyped
<1>4. \A m \in 1 .. Len(hardware) : m # k =>
         \E i \in DOMAIN hardware' : hardware'[i] = hardware[m]
  BY <1>2, <1>3, RemoveAtLeaves
<1>5. \A m \in DOMAIN hardware : hardware[m].ifindex # p =>
         \E i \in DOMAIN hardware' : hardware'[i] = hardware[m]
  BY <1>1, <1>3, <1>4
<1> QED
  BY <1>5 DEF StillAsked, On, Asked

LEMMA DeliveredAsks ==
    ASSUME PortsTyped, NEW k \in DOMAIN hardware, Delivered(k)
    PROVE  /\ \A q : On(q) => On(q)'
           /\ \A q : q # hardware[k].ifindex => StillAsked(q)
<1> DEFINE port == [hardware[k] EXCEPT !.notify = FALSE]
<1>1. port.ifindex = hardware[k].ifindex
  <2>1. hardware[k] \in LldpPort
    BY DEF PortsTyped
  <2> QED
    BY <2>1 DEF LldpPort
<1>2. hardware' = [hardware EXCEPT ![k] = port]
  BY DEF Delivered
<1> HIDE DEF port
<1>3. /\ DOMAIN hardware' = DOMAIN hardware
      /\ \A i \in DOMAIN hardware : hardware'[i] = IF i = k THEN port ELSE hardware[i]
  BY <1>2
<1>4. \A q : On(q) => On(q)'
  BY <1>1, <1>3 DEF On
<1>5. \A q : q # hardware[k].ifindex => StillAsked(q)
  BY <1>3, AskedInPlace
<1> QED
  BY <1>4, <1>5
-----------------------------------------------------------------------------
(* The writes come in pairs, and the switches with them.                    *)
LEMMA FirstWrite ==
    ASSUME PairedWrites, Write
    PROVE  /\ change \in Seq(AnyWrite) /\ change # << >> /\ Head(change) = change[1]
           /\ change[1].to \in {"lldp", "agent", "type"}
           /\ change[1].to = "lldp" =>
                 /\ change' # << >>
                 /\ Head(change') = [to |-> "agent", enable |-> change[1].enable]
           /\ change[1].to # "lldp" => ~(change' # << >> /\ Head(change').to = "agent")
<1>1. change # << >> /\ change' = Tail(change)
  BY DEF Write, MutexFree
<1>2. change \in Seq(AnyWrite) /\ 1 \in DOMAIN change /\ Head(change) = change[1]
  BY <1>1 DEF PairedWrites
<1>3. /\ change' \in Seq(AnyWrite) /\ Len(change') = Len(change) - 1
      /\ \A i \in 1 .. Len(change) - 1 : change'[i] = change[i + 1]
  BY <1>1, <1>2
<1>4. 2 \in DOMAIN change => change' # << >> /\ Head(change') = change[2]
  <2> SUFFICES ASSUME 2 \in DOMAIN change
               PROVE  change' # << >> /\ Head(change') = change[2]
    OBVIOUS
  <2>1. Len(change') >= 1 /\ change'[1] = change[2]
    BY <1>2, <1>3
  <2> QED
    BY <1>3, <2>1
<1>5. change' # << >> => 2 \in DOMAIN change
  BY <1>2, <1>3
<1>6. change[1].to \in {"lldp", "agent", "type"}
  <2>1. change[1] \in AnyWrite
    BY <1>2
  <2> QED
    BY <2>1 DEF AnyWrite, SwitchWrite
<1>7. change[1].to = "lldp" =>
         /\ 1 + 1 \in DOMAIN change
         /\ change[1 + 1] = [to |-> "agent", enable |-> change[1].enable]
  BY <1>2 DEF PairedWrites
<1>8. 2 \in DOMAIN change /\ change[2].to = "agent" => change[1].to = "lldp"
  <2> SUFFICES ASSUME 2 \in DOMAIN change, change[2].to = "agent" PROVE change[1].to = "lldp"
    OBVIOUS
  <2>1. PICK second \in DOMAIN change : second = 2
    OBVIOUS
  <2>2. second # 1 /\ change[second].to = "agent" =>
           change[second - 1] = [to |-> "lldp", enable |-> change[second].enable]
    BY DEF PairedWrites
  <2>3. second # 1 /\ second - 1 = 1 /\ change[second].to = "agent"
    BY <2>1
  <2>4. change[1] = [to |-> "lldp", enable |-> change[second].enable]
    BY <2>2, <2>3
  <2> QED
    BY <2>4
<1> QED
  BY <1>1, <1>2, <1>4, <1>5, <1>6, <1>7, <1>8

LEMMA SwitchesInStepStep ==
    ASSUME PairedWrites, SwitchesInStep, [DiscoveryNext]_discoveryVars
    PROVE  SwitchesInStep'
<1>1. CASE BeginChange
  <2>1. change = << >> /\ UNCHANGED <<aaGlobalEnabled, faServiceStatus>>
    BY <1>1 DEF BeginChange, MutexFree, vars, agentVars
  <2> QED
    BY <1>1, <2>1, WritesBegin DEF SwitchesInStep
<1>2. CASE Write
  <2>1. CASE change[1].to = "lldp"
    <3>1. aaGlobalEnabled' = change[1].enable
      BY <1>2, <2>1, FirstWrite DEF Write
    <3>2. Head(change').to = "agent" /\ Head(change').enable = change[1].enable
      BY <1>2, <2>1, FirstWrite
    <3> QED
      BY <1>2, <2>1, <3>1, <3>2, FirstWrite DEF SwitchesInStep
  <2>2. CASE change[1].to = "agent"
    <3>1. faServiceStatus' = change[1].enable /\ aaGlobalEnabled' = aaGlobalEnabled
      BY <1>2, <2>2, FirstWrite DEF Write
    <3>2. aaGlobalEnabled = change[1].enable
      BY <1>2, <2>2, FirstWrite DEF SwitchesInStep
    <3> QED
      BY <1>2, <2>2, <3>1, <3>2, FirstWrite DEF SwitchesInStep
  <2>3. CASE change[1].to = "type"
    <3>1. UNCHANGED <<faServiceStatus, aaGlobalEnabled>>
      BY <1>2, <2>3, FirstWrite DEF Write
    <3>2. aaGlobalEnabled = faServiceStatus
      BY <1>2, <2>3, FirstWrite DEF SwitchesInStep
    <3> QED
      BY <1>2, <2>3, <3>1, <3>2, FirstWrite DEF SwitchesInStep
  <2> QED
    BY <1>2, <2>1, <2>2, <2>3, FirstWrite
<1>3. CASE UNCHANGED <<change, aaGlobalEnabled, faServiceStatus>>
  BY <1>3 DEF SwitchesInStep
<1>4. CASE ConfigurePort \/ (\E p \in Port, id \in SysId : LldpPortCreate(p, id))
           \/ (\E p \in Port : LldpPortDelete(p)) \/ UNCHANGED discoveryVars
  BY <1>3, <1>4 DEF ConfigurePort, PortCreate, PortDestroy, PortStateSet, LldpPortCreate,
     LldpPortDelete, HardwareCreate, HardwareDelete, agentVars, vars, discoveryVars
<1>5. CASE ReceiveThread
  BY <1>3, <1>5 DEF ReceiveThread, FrameArrives, KnownDelivered, Delivered, ServiceTest,
     PortTest, StoreElement, agentVars, vars
<1> QED
  BY <1>1, <1>2, <1>4, <1>5 DEF DiscoveryNext, ApiThread

LEMMA WriteAgrees ==
    ASSUME PairedWrites, AgreeInv, PortsTyped', Write
    PROVE  AgreeInv'
<1>1. /\ UNCHANGED <<aaPortsList, vlanVars>> /\ answer' = NoAnswer
      /\ faServiceStatus' \in BOOLEAN /\ aaGlobalEnabled' \in BOOLEAN
  BY DEF Write, PortsTyped
<1>2. change[1].to = "lldp" => change[1].enable \in BOOLEAN
  <2>1. change[1] \in AnyWrite
    BY FirstWrite
  <2> QED
    BY <2>1 DEF AnyWrite, SwitchWrite
<1>3. \/ hardware' = hardware
      \/ \E enable \in BOOLEAN : hardware' = NotifyAll(enable)
  BY <1>2, FirstWrite DEF Write
<1> QED
  BY <1>1, <1>3, SwitchesAgree
-----------------------------------------------------------------------------
(* LLDP has neighbours on its ports only.                                   *)
LEMMA HeardStaysOnPorts ==
    ASSUME DiscoveryTyped, AgreeInv, HeardOnPorts, [DiscoveryNext]_discoveryVars
    PROVE  HeardOnPorts'
<1>1. ASSUME \A q \in Port : On(q) => On(q)', UNCHANGED rports, call' \in {call, NoCall}
      PROVE  HeardOnPorts'
  BY <1>1 DEF HeardOnPorts, Sent
<1>2. CASE BeginChange \/ UNCHANGED discoveryVars
  BY <1>1, <1>2, AskedStays DEF BeginChange, heardVars, vars, discoveryVars, StillAsked
<1>3. CASE Write
  <2>1. \A q : StillAsked(q)
    <3>1. CASE hardware' = hardware
      BY <3>1, AskedStays
    <3>2. CASE change[1].to = "lldp" /\ hardware' = NotifyAll(change[1].enable)
      <4>1. change[1] \in AnyWrite
        BY <1>3, FirstWrite DEF DiscoveryTyped
      <4>2. change[1].enable \in BOOLEAN
        BY <3>2, <4>1 DEF AnyWrite, SwitchWrite
      <4> QED
        BY <3>2, <4>2, NotifyAllAsks DEF DiscoveryTyped
    <3> QED
      BY <1>3, <3>1, <3>2, FirstWrite DEF Write, DiscoveryTyped
  <2> QED
    BY <1>1, <1>3, <2>1 DEF Write, heardVars, StillAsked
<1>4. CASE ConfigurePort
  <2>1. \A q : StillAsked(q)
    <3>1. CASE hardware' = hardware
      BY <3>1, AskedStays
    <3>2. ASSUME NEW p \in Port, NEW ena \in BOOLEAN, PortStateSet(p, ena),
                 aaPortsList[p].ena # ena
          PROVE  \A q : StillAsked(q)
      BY <3>2, EnaSetAsks DEF PortStateSet
    <3> QED
      BY <1>4, <3>1, <3>2 DEF ConfigurePort, PortCreate, PortDestroy, PortStateSet
  <2> QED
    BY <1>1, <1>4, <2>1 DEF ConfigurePort, heardVars, StillAsked
<1>5. ASSUME NEW p \in Port, NEW id \in SysId, LldpPortCreate(p, id) PROVE HeardOnPorts'
  BY <1>1, <1>5, AppendAsks DEF LldpPortCreate, heardVars, StillAsked, DiscoveryTyped
<1>6. ASSUME NEW p \in Port, LldpPortDelete(p) PROVE HeardOnPorts'
  <2>1. \A q : q # p => StillAsked(q)
    BY <1>6, RemoveAsks DEF LldpPortDelete, DiscoveryTyped, AgreeInv
  <2>2. /\ call' = call /\ rports'[p] = NoNeighbour
        /\ \A q \in Port : q # p => rports'[q] = rports[q]
    BY <1>6 DEF LldpPortDelete, DiscoveryTyped, ReceivedTyped
  <2>3. \A q \in Port : rports'[q] # NoNeighbour => On(q)'
    BY <2>1, <2>2 DEF HeardOnPorts, StillAsked
  <2>4. call # NoCall => call.port \in Port
    BY DEF DiscoveryTyped, ReceivedTyped
  <2>5. call' # NoCall => (rports'[call'.port] = NoNeighbour \/ Sent(rports[call.port])')
    BY <2>2, <2>4 DEF HeardOnPorts, Sent
  <2> QED
    BY <2>3, <2>5 DEF HeardOnPorts
<1>7. ASSUME NEW p \in Port, NEW n, rports'[p] = n, call' \in {NoCall, Message(p, n)}
      PROVE  call' # NoCall => (rports'[call'.port] = NoNeighbour \/ Sent(rports[call.port])')
  <2>1. CASE call' = Message(p, n)
    <3>1. Sent(n)' /\ call'.port = p
      BY <2>1, NewMessage
    <3> QED
      BY <1>7, <3>1 DEF Sent
  <2> QED
    BY <1>7, <2>1
<1>8. ASSUME NEW p \in Port, NEW n \in Neighbour, FrameArrives(p, n) PROVE HeardOnPorts'
  <2>1. /\ rports'[p] = n /\ call' \in {NoCall, Message(p, n)} /\ hardware' = hardware
        /\ \A q \in Port : q # p => rports'[q] = rports[q]
    BY <1>8 DEF FrameArrives, DiscoveryTyped, ReceivedTyped, vars
  <2>2. On(p)
    BY <1>8 DEF FrameArrives, Found, On
  <2>3. \A q \in Port : rports'[q] # NoNeighbour => On(q)'
    BY <2>1, <2>2 DEF HeardOnPorts, On
  <2> QED
    BY <1>7, <2>1, <2>3 DEF HeardOnPorts
<1>9. ASSUME NEW i \in DOMAIN hardware, KnownDelivered(i) PROVE HeardOnPorts'
  <2> DEFINE p == hardware[i].ifindex
  <2>1. p \in Port
    <3>1. hardware[i] \in LldpPort
      BY DEF PortsTyped, DiscoveryTyped
    <3> QED
      BY <3>1 DEF LldpPort
  <2>2. call' \in {NoCall, Message(p, rports[p])} /\ rports' = rports
    BY <1>9 DEF KnownDelivered
  <2>3. \A q : On(q) => On(q)'
    BY <1>9, DeliveredAsks DEF KnownDelivered, DiscoveryTyped
  <2> HIDE DEF p
  <2>4. call' # NoCall => (rports'[call'.port] = NoNeighbour \/ Sent(rports[call.port])')
    BY <1>7, <2>1, <2>2
  <2> QED
    BY <2>2, <2>3, <2>4 DEF HeardOnPorts
<1>10. ASSUME NEW pc, call # NoCall, call' \in {NoCall, [call EXCEPT !.pc = pc]},
              UNCHANGED <<rports, hardware>>
       PROVE  HeardOnPorts'
  <2>1. CASE call' = [call EXCEPT !.pc = pc]
    <3>1. PICK n \in Neighbour : Sent(n)
      BY <1>10 DEF DiscoveryTyped, ReceivedTyped
    <3>2. call'.port = call.port
      BY <2>1, <3>1, SentOn
    <3>3. rports[call.port] = NoNeighbour \/ Sent(rports[call.port])
      BY <1>10 DEF HeardOnPorts
    <3>4. \A m : Sent(m) => Sent(m)'
      BY <2>1, SentOn
    <3>5. rports'[call'.port] = NoNeighbour \/ Sent(rports[call.port])'
      BY <1>10, <3>2, <3>3, <3>4 DEF Sent
    <3> QED
      BY <1>10, <3>5 DEF HeardOnPorts, On
  <2>2. CASE call' = NoCall
    BY <1>1, <1>10, <2>2, AskedStays DEF StillAsked
  <2> QED
    BY <1>10, <2>1, <2>2
<1>11. CASE ServiceTest
  BY <1>10, <1>11, UnderWay DEF ServiceTest, vars
<1>12. CASE PortTest
  BY <1>10, <1>12, UnderWay DEF PortTest, vars
<1>13. CASE StoreElement
  BY <1>10, <1>13, UnderWay DEF StoreElement, vars
<1>14. CASE ReceiveThread
  BY <1>8, <1>9, <1>11, <1>12, <1>13, <1>14 DEF ReceiveThread
<1> QED
  BY <1>2, <1>3, <1>4, <1>5, <1>6, <1>14 DEF DiscoveryNext, ApiThread
(* What the agent does not know it will be told.                            *)
LEMMA OwedOnlyLess ==
    ASSUME Owed, NEW p \in Port, StillAsked(p),
           aaGlobalEnabled' => aaGlobalEnabled,
           PortFaEnabled(p)' => PortFaEnabled(p),
           rports'[p] = rports[p], PortStatus(p)' = PortStatus(p),
           p \in raced => p \in raced',
           call # NoCall /\ call.port = p => call' # NoCall /\ call'.port = p,
           aaGlobalEnabled', PortFaEnabled(p)', rports'[p] # NoNeighbour, p \notin raced'
    PROVE  \/ PortStatus(p)' = rports'[p]
           \/ Asked(p)'
           \/ call' # NoCall /\ call'.port = p
  BY DEF Owed, StillAsked

LEMMA WriteOwes ==
    ASSUME DiscoveryTyped, AgreeInv, SwitchesInStep, Owed, Write
    PROVE  Owed'
<1> SUFFICES ASSUME NEW p \in Port,
                    aaGlobalEnabled', PortFaEnabled(p)', rports'[p] # NoNeighbour, p \notin raced'
             PROVE  \/ PortStatus(p)' = rports'[p]
                    \/ Asked(p)'
                    \/ call' # NoCall /\ call'.port = p
  BY DEF Owed
<1>1. /\ UNCHANGED <<faDiscoveredElements, rports, call, raced, aaPortsList>>
      /\ PortFaEnabled(p)' = PortFaEnabled(p) /\ PortStatus(p)' = PortStatus(p)
  BY DEF Write, heardVars, PortFaEnabled, PortStatus, Listed
<1>2. CASE hardware' = hardware /\ (aaGlobalEnabled' => aaGlobalEnabled)
  BY <1>1, <1>2, AskedStays, OwedOnlyLess
<1>3. CASE hardware' = NotifyAll(TRUE)
  <2>1. p \in Listed /\ aaPortsList[p].ena
    BY <1>1 DEF PortFaEnabled
  <2>2. PICK i \in DOMAIN hardware : hardware[i].ifindex = p
    BY <2>1 DEF AgreeInv, Covered
  <2>3. hardware[i].enabled
    BY <2>1, <2>2 DEF AgreeInv, PortsAgree
  <2>4. PICK enable \in BOOLEAN : enable = TRUE
    OBVIOUS
  <2>5. PortsTyped /\ hardware' = NotifyAll(enable)
    BY <1>3, <2>4 DEF AgreeInv
  <2>6. Asked(p)'
    BY <2>2, <2>3, <2>4, <2>5, NotifyAllAsks
  <2> QED
    BY <2>6
<1>4. CASE change[1].to = "lldp"
  <2>1. /\ aaGlobalEnabled' = change[1].enable
        /\ hardware' = IF aaGlobalEnabled = change[1].enable
                       THEN hardware ELSE NotifyAll(change[1].enable)
    BY <1>4, FirstWrite DEF Write, DiscoveryTyped
  <2>2. change[1].enable = TRUE
    <3>1. change[1] \in AnyWrite
      BY FirstWrite DEF DiscoveryTyped
    <3>2. change[1].enable \in BOOLEAN
      BY <1>4, <3>1 DEF AnyWrite, SwitchWrite
    <3> QED
      BY <2>1, <3>2
  <2> QED
    BY <1>2, <1>3, <2>1, <2>2
<1>5. CASE change[1].to # "lldp"
  <2>1. hardware' = hardware /\ aaGlobalEnabled' = aaGlobalEnabled
    BY <1>5, FirstWrite DEF Write, DiscoveryTyped
  <2> QED
    BY <1>2, <2>1
<1> QED
  BY <1>4, <1>5

LEMMA ConfigurePortOwes ==
    ASSUME DiscoveryTyped, AgreeInv, Owed, ConfigurePort
    PROVE  Owed'
<1> SUFFICES ASSUME NEW p \in Port,
                    aaGlobalEnabled', PortFaEnabled(p)', rports'[p] # NoNeighbour, p \notin raced'
             PROVE  \/ PortStatus(p)' = rports'[p]
                    \/ Asked(p)'
                    \/ call' # NoCall /\ call'.port = p
  BY DEF Owed
<1>1. UNCHANGED <<faDiscoveredElements, rports, call, raced>> /\ PortStatus(p)' = PortStatus(p)
  BY DEF ConfigurePort, heardVars, PortStatus
<1>2. UNCHANGED aaGlobalEnabled
  BY DEF ConfigurePort, PortCreate, PortDestroy, PortStateSet
<1>3. PICK q \in Port : \/ PortCreate(q)
                        \/ PortDestroy(q)
                        \/ \E ena \in BOOLEAN : PortStateSet(q, ena)
  BY DEF ConfigurePort
<1>4. CASE PortCreate(q)
  <2>1. hardware' = hardware
    BY <1>4 DEF PortCreate
  <2>2. PortFaEnabled(p)' => PortFaEnabled(p)
    BY <1>4 DEF PortCreate, PortFaEnabled, Listed
  <2> QED
    BY <1>1, <1>2, <2>1, <2>2, AskedStays, OwedOnlyLess
<1>5. CASE PortDestroy(q)
  <2>1. hardware' = hardware
    BY <1>5 DEF PortDestroy
  <2>2. PortFaEnabled(p)' => PortFaEnabled(p)
    BY <1>5 DEF PortDestroy, PortFaEnabled, Listed, Restrict
  <2> QED
    BY <1>1, <1>2, <2>1, <2>2, AskedStays, OwedOnlyLess
<1>6. ASSUME NEW ena \in BOOLEAN, PortStateSet(q, ena)
      PROVE  \/ PortStatus(p)' = rports'[p]
             \/ Asked(p)'
             \/ call' # NoCall /\ call'.port = p
  <2>1. CASE aaPortsList[q].ena = ena
    <3>1. hardware' = hardware /\ PortFaEnabled(p)' = PortFaEnabled(p)
      BY <1>6, <2>1 DEF PortStateSet, PortFaEnabled, Listed
    <3> QED
      BY <1>1, <1>2, <3>1, AskedStays, OwedOnlyLess
  <2>2. CASE aaPortsList[q].ena # ena
    <3>1. /\ q \in Listed /\ PortDataEnaSet(q, ena)
          /\ aaPortsList' = [aaPortsList EXCEPT ![q].ena = ena]
      BY <1>6, <2>2 DEF PortStateSet
    <3>2. StillAsked(p) /\ (ena /\ aaGlobalEnabled => Asked(q)')
      BY <2>2, <3>1, EnaSetAsks
    <3>3. p # q => PortFaEnabled(p)' = PortFaEnabled(p)
      BY <3>1 DEF PortFaEnabled, Listed
    <3>4. PortFaEnabled(q)' => ena
      BY <3>1 DEF PortFaEnabled, Listed, AgreeInv, PortsTyped, AgentPort
    <3> QED
      BY <1>1, <1>2, <3>2, <3>3, <3>4, OwedOnlyLess
  <2> QED
    BY <2>1, <2>2
<1> QED
  BY <1>3, <1>4, <1>5, <1>6

LEMMA LldpPortOwes ==
    ASSUME Orderly, DiscoveryTyped, AgreeInv, Owed,
           \/ \E q \in Port, id \in SysId : LldpPortCreate(q, id)
           \/ \E q \in Port : LldpPortDelete(q)
    PROVE  Owed'
<1> SUFFICES ASSUME NEW p \in Port,
                    aaGlobalEnabled', PortFaEnabled(p)', rports'[p] # NoNeighbour, p \notin raced'
             PROVE  \/ PortStatus(p)' = rports'[p]
                    \/ Asked(p)'
                    \/ call' # NoCall /\ call'.port = p
  BY DEF Owed
<1>1. ASSUME NEW q \in Port, NEW id \in SysId, LldpPortCreate(q, id)
      PROVE  \/ PortStatus(p)' = rports'[p]
             \/ Asked(p)'
             \/ call' # NoCall /\ call'.port = p
  <2>1. /\ UNCHANGED <<faDiscoveredElements, rports, call, raced, aaGlobalEnabled>>
        /\ PortStatus(p)' = PortStatus(p) /\ PortFaEnabled(p)' = PortFaEnabled(p)
    BY <1>1 DEF LldpPortCreate, HardwareCreate, heardVars, agentVars, PortStatus,
       PortFaEnabled, Listed
  <2>2. StillAsked(p)
    BY <1>1, AppendAsks DEF LldpPortCreate, AgreeInv
  <2> QED
    BY <2>1, <2>2, OwedOnlyLess
<1>2. ASSUME NEW q \in Port, LldpPortDelete(q)
      PROVE  \/ PortStatus(p)' = rports'[p]
             \/ Asked(p)'
             \/ call' # NoCall /\ call'.port = p
  <2>1. HardwareDelete(q) /\ q \notin Listed /\ Listed' = Listed
        /\ UNCHANGED <<call, aaGlobalEnabled, aaPortsList, faDiscoveredElements>>
    BY <1>2 DEF LldpPortDelete, HardwareDelete, agentVars, PortFaEnabled, Listed
  <2>2. p # q
    BY <2>1 DEF PortFaEnabled
  <2>3. StillAsked(p)
    BY <2>1, <2>2, RemoveAsks DEF AgreeInv
  <2>4. /\ PortFaEnabled(p)' = PortFaEnabled(p) /\ PortStatus(p)' = PortStatus(p)
        /\ rports'[p] = rports[p] /\ (p \in raced => p \in raced')
    BY <1>2, <2>1, <2>2 DEF LldpPortDelete, PortFaEnabled, PortStatus, DiscoveryTyped,
       ReceivedTyped
  <2> QED
    BY <2>1, <2>3, <2>4, OwedOnlyLess
<1> QED
  BY <1>1, <1>2

LEMMA FrameOwes ==
    ASSUME DiscoveryTyped, AgreeInv, Owed, NEW q \in Port, NEW n \in Neighbour, FrameArrives(q, n)
    PROVE  Owed'
<1> SUFFICES ASSUME NEW p \in Port,
                    aaGlobalEnabled', PortFaEnabled(p)', rports'[p] # NoNeighbour, p \notin raced'
             PROVE  \/ PortStatus(p)' = rports'[p]
                    \/ Asked(p)'
                    \/ call' # NoCall /\ call'.port = p
  BY DEF Owed
<1>1. /\ UNCHANGED <<hardware, aaGlobalEnabled, aaPortsList, faDiscoveredElements, raced>>
      /\ PortFaEnabled(p)' = PortFaEnabled(p) /\ PortStatus(p)' = PortStatus(p)
      /\ call = NoCall
  BY DEF FrameArrives, vars, agentVars, PortFaEnabled, PortStatus, Listed
<1>2. CASE p = q
  <2>1. p \in Listed /\ aaPortsList[p].ena /\ aaGlobalEnabled
    BY <1>1 DEF PortFaEnabled
  <2>2. PICK i \in DOMAIN hardware : hardware[i].ifindex = p
    BY <2>1 DEF AgreeInv, Covered
  <2>3. hardware[i].enabled
    BY <2>1, <2>2 DEF AgreeInv, PortsAgree
  <2>4. Found(p) = {i} /\ FirstOf(p) = i
    BY <2>2, FirstIsOnly DEF AgreeInv
  <2>5. AaOn(q)
    BY <1>2, <2>1, <2>3, <2>4 DEF AaOn
  <2>6. call' = Message(q, n)
    BY <2>5 DEF FrameArrives
  <2> QED
    BY <1>2, <2>6, NewMessage
<1>3. CASE p # q
  <2>1. rports'[p] = rports[p]
    BY <1>3 DEF FrameArrives, DiscoveryTyped, ReceivedTyped
  <2> QED
    BY <1>1, <2>1, AskedStays, OwedOnlyLess
<1> QED
  BY <1>2, <1>3

LEMMA KnownOwes ==
    ASSUME DiscoveryTyped, Owed, NEW k \in DOMAIN hardware, KnownDelivered(k)
    PROVE  Owed'
<1> SUFFICES ASSUME NEW p \in Port,
                    aaGlobalEnabled', PortFaEnabled(p)', rports'[p] # NoNeighbour, p \notin raced'
             PROVE  \/ PortStatus(p)' = rports'[p]
                    \/ Asked(p)'
                    \/ call' # NoCall /\ call'.port = p
  BY DEF Owed
<1>1. /\ UNCHANGED <<aaGlobalEnabled, aaPortsList, faDiscoveredElements, rports, raced>>
      /\ PortFaEnabled(p)' = PortFaEnabled(p) /\ PortStatus(p)' = PortStatus(p)
      /\ call = NoCall
  BY DEF KnownDelivered, Delivered, agentVars, PortFaEnabled, PortStatus, Listed
<1>2. CASE p = hardware[k].ifindex
  <2>1. call' = Message(p, rports[p])
    BY <1>1, <1>2 DEF KnownDelivered
  <2> QED
    BY <2>1, NewMessage
<1>3. CASE p # hardware[k].ifindex
  <2>1. StillAsked(p)
    BY <1>3, DeliveredAsks DEF KnownDelivered, DiscoveryTyped
  <2> QED
    BY <1>1, <2>1, OwedOnlyLess
<1> QED
  BY <1>2, <1>3

(* A message arrives, unless the agent turns it away for a reason.          *)
LEMMA MessageOwes ==
    ASSUME DiscoveryTyped, HeardOnPorts, Owed, ServiceTest \/ PortTest \/ StoreElement
    PROVE  Owed'
<1> SUFFICES ASSUME NEW p \in Port,
                    aaGlobalEnabled', PortFaEnabled(p)', rports'[p] # NoNeighbour, p \notin raced'
             PROVE  \/ PortStatus(p)' = rports'[p]
                    \/ Asked(p)'
                    \/ call' # NoCall /\ call'.port = p
  BY DEF Owed
<1>1. /\ UNCHANGED <<hardware, aaGlobalEnabled, aaPortsList, rports>>
      /\ PortFaEnabled(p)' = PortFaEnabled(p)
      /\ call # NoCall
  BY UnderWay DEF ServiceTest, PortTest, StoreElement, vars, agentVars, PortFaEnabled, Listed
<1>2. PICK n \in Neighbour : Sent(n)
  BY <1>1 DEF DiscoveryTyped, ReceivedTyped
<1>3. call.port \in Port
  BY <1>1 DEF DiscoveryTyped, ReceivedTyped
<1>4. InterfaceOf(call.arg0) = call.port
  BY <1>2, <1>3, SentFields, Received
<1>5. ASSUME NEW pc \in {"service", "port", "store"}, call' = [call EXCEPT !.pc = pc]
      PROVE  call' # NoCall /\ call'.port = call.port
  <2>1. call'.pc = pc /\ call'.port = call.port
    BY <1>2, <1>5, SentOn
  <2> QED
    BY <2>1 DEF NoCall
<1>6. CASE UNCHANGED faDiscoveredElements /\ call' = NoCall /\ call.port # p
           /\ (p \in raced => p \in raced')
  BY <1>1, <1>6, AskedStays, OwedOnlyLess DEF PortStatus
<1>7. CASE UNCHANGED faDiscoveredElements /\ call' # NoCall /\ call'.port = call.port
           /\ (p \in raced => p \in raced')
  BY <1>1, <1>7, AskedStays, OwedOnlyLess DEF PortStatus
<1>8. CASE ServiceTest
  BY <1>1, <1>5, <1>6, <1>7, <1>8 DEF ServiceTest
<1>9. CASE PortTest
  <2>1. CASE PortFaEnabled(call.port)
    BY <1>4, <1>5, <1>7, <1>9, <2>1 DEF PortTest
  <2>2. CASE ~PortFaEnabled(call.port)
    BY <1>1, <1>4, <1>6, <1>9, <2>2 DEF PortTest
  <2> QED
    BY <2>1, <2>2
<1>10. CASE StoreElement
  <2>1. call' = NoCall /\ raced' = raced \ {call.port} /\ Store(call.arg0, call.id)
    BY <1>10 DEF StoreElement
  <2>2. CASE p = call.port
    <3>1. rports[p] \in Neighbour /\ Sent(rports[p])
      BY <1>1, <2>2 DEF HeardOnPorts, DiscoveryTyped, ReceivedTyped
    <3>2. Element(call.arg0, call.id) = rports[p]
      BY <1>3, <2>2, <3>1, SentFields, Received
    <3>3. PortStatus(p)' = rports[p]
      BY <1>4, <2>1, <2>2, <3>2 DEF Store, PortStatus
    <3> QED
      BY <1>1, <3>3
  <2>3. CASE p # call.port
    <3>1. PortStatus(p)' = PortStatus(p)
      BY <1>4, <2>1, <2>3 DEF Store, PortStatus
    <3> QED
      BY <1>1, <2>1, <2>3, <3>1, AskedStays, OwedOnlyLess
  <2> QED
    BY <2>2, <2>3
<1> QED
  BY <1>8, <1>9, <1>10

LEMMA OwedStep ==
    ASSUME Orderly, DiscoveryTyped, AgreeInv, SwitchesInStep, HeardOnPorts, Owed,
           [DiscoveryNext]_discoveryVars
    PROVE  Owed'
<1>1. CASE BeginChange \/ UNCHANGED discoveryVars
  BY <1>1 DEF BeginChange, heardVars, vars, agentVars, discoveryVars, Owed, Asked,
     PortFaEnabled, PortStatus, Listed
<1>2. CASE ReceiveThread
  BY <1>2, FrameOwes, KnownOwes, MessageOwes DEF ReceiveThread
<1> QED
  BY <1>1, <1>2, WriteOwes, ConfigurePortOwes, LldpPortOwes DEF DiscoveryNext, ApiThread

LEMMA DiscoveryInvariance == ASSUME Orderly PROVE DiscoverySpec => []DiscoveryInv
<1>1. DiscoveryInit => DiscoveryInv
  <2> SUFFICES ASSUME DiscoveryInit PROVE DiscoveryInv
    OBVIOUS
  <2>1. DiscoveryTyped /\ AgreeInv
    BY DiscoveryTypedInitially, AgreeInvInitially DEF DiscoveryInit
  <2>2. \A p \in Port : rports[p] = NoNeighbour
    BY DEF DiscoveryInit
  <2>3. SwitchesInStep /\ HeardOnPorts /\ Owed
    BY <2>2 DEF DiscoveryInit, Init, SwitchesInStep, HeardOnPorts, Owed
  <2> QED
    BY <2>1, <2>3 DEF DiscoveryInv
<1>2. DiscoveryInv /\ [DiscoveryNext]_discoveryVars => DiscoveryInv'
  <2> SUFFICES ASSUME DiscoveryInv, [DiscoveryNext]_discoveryVars PROVE DiscoveryInv'
    OBVIOUS
  <2>1. DiscoveryTyped'
    BY PairedStep, PortsStayTyped, ReceivedStaysTyped DEF DiscoveryInv, DiscoveryTyped
  <2>2. AgreeInv'
    BY <2>1, PortsSteps, AgreeInvStep, WriteAgrees DEF DiscoveryInv, DiscoveryTyped
  <2> QED
    BY <2>1, <2>2, SwitchesInStepStep, HeardStaysOnPorts, OwedStep
       DEF DiscoveryInv, DiscoveryTyped
<1> QED
  BY <1>1, <1>2, PTL DEF DiscoverySpec

(* What aatransi_port_neighbors_get gives to a caller with room for two.    *)
LEMMA NeighborsAre ==
    ASSUME NEW p, NEW n, n \in ToSet(NeighborsGet(p, 2))
    PROVE  rports[p] # NoNeighbour /\ n = rports[p]
<1> DEFINE known == IF rports[p] = NoNeighbour THEN << >> ELSE <<rports[p]>>
           room == Min({2 - 1, Len(known)})
<1>1. NeighborsGet(p, 2) = SubSeq(known, 1, room)
  BY DEF NeighborsGet
<1>2. {2 - 1, Len(known)} \in SUBSET Nat
  OBVIOUS
<1>3. room \in Nat /\ room <= Len(known)
  BY <1>2, MinIsLeast
<1> HIDE DEF room
<1>4. PICK i \in DOMAIN SubSeq(known, 1, room) : n = SubSeq(known, 1, room)[i]
  BY <1>1 DEF ToSet
<1>5. CASE rports[p] = NoNeighbour
  <2>1. known = << >> /\ room = 0
    BY <1>3, <1>5
  <2>2. DOMAIN SubSeq(<< >>, 1, 0) = {}
    OBVIOUS
  <2> QED
    BY <1>4, <2>1, <2>2
<1>6. CASE rports[p] # NoNeighbour
  <2>1. known \in Seq({rports[p]})
    BY <1>6
  <2> HIDE DEF known
  <2>2. SubSeq(known, 1, room) \in Seq({rports[p]})
    BY <1>3, <2>1, SubSeqProperties
  <2> QED
    BY <1>4, <1>6, <2>2
<1> QED
  BY <1>5, <1>6

(* No neighbour is missed: at rest, a neighbour that LLDP answers for a     *)
(* port with Auto Attach is what the agent answers for it.                  *)
THEOREM NoneIsMissed == ASSUME Orderly PROVE DiscoverySpec => []NoNeighbourMissed
<1>1. DiscoveryInv => NoNeighbourMissed
  <2> SUFFICES ASSUME DiscoveryInv, MutexFree, call = NoCall, NEW i \in DOMAIN hardware,
                      GlobalStatus.enabled, PortFaEnabled(hardware[i].ifindex),
                      ~hardware[i].notify, hardware[i].ifindex \notin raced,
                      NEW n \in ToSet(NeighborsGet(hardware[i].ifindex, 2))
               PROVE  PortStatus(hardware[i].ifindex) = n
    BY DEF NoNeighbourMissed
  <2> DEFINE p == hardware[i].ifindex
  <2>1. p \in Port
    <3>1. hardware[i] \in LldpPort
      BY DEF DiscoveryInv, AgreeInv, PortsTyped
    <3> QED
      BY <3>1 DEF LldpPort
  <2>2. rports[p] # NoNeighbour /\ n = rports[p]
    BY NeighborsAre
  <2>3. aaGlobalEnabled
    BY DEF DiscoveryInv, SwitchesInStep, MutexFree, GlobalStatus
  <2>4. ~Asked(p)
    BY DEF DiscoveryInv, AgreeInv, OncePerIfc, Asked
  <2> QED
    BY <2>1, <2>2, <2>3, <2>4 DEF DiscoveryInv, Owed
<1> QED
  BY <1>1, DiscoveryInvariance, PTL
=============================================================================
