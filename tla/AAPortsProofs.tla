---------------------------- MODULE AAPortsProofs ----------------------------
(***************************************************************************)
(* If every LLDP port outlives the agent's, the agent and LLDP never        *)
(* disagree, for any number of ports, system IDs and VLANs.  The argument   *)
(* is that there is nothing to search: an interface is in LLDP's list at    *)
(* most once, so the first port that a loop finds is the only one.  The     *)
(* types and the two switches need no such discipline, nor do the counters, *)
(* whose sum is a fold over the ports.                                      *)
(***************************************************************************)
EXTENDS AAStatistics, AALemmas

(* TypeOK says this in terms that TLC can evaluate.                         *)
PortsTyped ==
    /\ Listed \subseteq Port
    /\ aaPortsList \in [Listed -> AgentPort]
    /\ faServiceStatus \in BOOLEAN /\ aaGlobalEnabled \in BOOLEAN
    /\ faElementType \in {"unset", "server"}
    /\ hardware \in Seq(LldpPort) /\ Len(hardware) <= MaxHardware
    /\ faMgmtVlan \in MgmtVlan \cup {NoVlan} /\ faAutoAttachStatus \in BOOLEAN
    /\ aa_element_mgmt_vlan \in Word

LEMMA Words ==
    /\ Word \subseteq Nat
    /\ NoVlan \in Word /\ MgmtVlan \subseteq Word
    /\ \A vlan \in Word : vlan % 4096 \in Word
<1>1. ASSUME NEW vlan \in Word
      PROVE  vlan % 4096 \in Word
  <2>1. PICK n \in Nat \ {0} : n = 4096
    OBVIOUS
  <2>2. vlan \in Nat
    BY DEF Word
  <2>3. vlan % n \in 0 .. n - 1
    BY <2>2, Remainder
  <2>4. \A r \in 0 .. n - 1 : r \in Word
    BY <2>1 DEF Word
  <2>5. vlan % n \in Word
    BY <2>3, <2>4, Zenon
  <2> QED
    BY <2>1, <2>5
<1>3. NoVlan \in Word
  BY DEF Word, NoVlan
<1>4. MgmtVlan \subseteq Word
  BY PortsAssumption DEF PortsAssumption
<1>5. Word \subseteq Nat
  BY DEF Word
<1> QED
  BY <1>1, <1>3, <1>4, <1>5

LEMMA TypedIsTypeOK == PortsTyped => TypeOK
<1> SUFFICES ASSUME PortsTyped PROVE TypeOK
  OBVIOUS
<1>1. \A i \in DOMAIN hardware : hardware[i] \in LldpPort
  BY DEF PortsTyped
<1>2. /\ Listed \subseteq Port
      /\ \A p \in Listed : aaPortsList[p] \in AgentPort
      /\ faServiceStatus \in BOOLEAN /\ aaGlobalEnabled \in BOOLEAN
      /\ faElementType \in {"unset", "server"}
      /\ Len(hardware) <= MaxHardware
      /\ faMgmtVlan \in MgmtVlan \cup {NoVlan} /\ faAutoAttachStatus \in BOOLEAN
      /\ aa_element_mgmt_vlan \in Word
  BY DEF PortsTyped
<1> QED
  BY <1>1, <1>2 DEF TypeOK

(* The loops find a port of the list.                                       *)
LEMMA FirstIsThere ==
    ASSUME PortsTyped, NEW p, Found(p) # {}
    PROVE  FirstOf(p) \in DOMAIN hardware /\ hardware[FirstOf(p)].ifindex = p
<1>1. Found(p) \in SUBSET Nat
  BY DEF PortsTyped, Found
<1>2. FirstOf(p) \in Found(p)
  BY <1>1, MinIsLeast DEF FirstOf
<1> QED
  BY <1>2 DEF Found

(* Where a list is changed in place, its length and types stay.             *)
LEMMA InPlace ==
    ASSUME PortsTyped, NEW list, DOMAIN list = DOMAIN hardware,
           list = [i \in DOMAIN hardware |-> list[i]],
           \A i \in DOMAIN hardware : list[i] \in LldpPort
    PROVE  list \in Seq(LldpPort) /\ Len(list) <= MaxHardware
<1>1. list \in [DOMAIN hardware -> LldpPort]
  OBVIOUS
<1>2. list \in Seq(LldpPort) /\ DOMAIN list = DOMAIN hardware
  BY <1>1, SameLength DEF PortsTyped
<1> QED
  BY <1>2 DEF PortsTyped

LEMMA EnaSetTyped ==
    ASSUME PortsTyped, NEW p, NEW ena \in BOOLEAN, PortDataEnaSet(p, ena)
    PROVE  hardware' \in Seq(LldpPort) /\ Len(hardware') <= MaxHardware
<1>1. CASE Found(p) = {} \/ hardware[FirstOf(p)].enabled = ena
  BY <1>1 DEF PortDataEnaSet, PortsTyped
<1>2. CASE ~(Found(p) = {} \/ hardware[FirstOf(p)].enabled = ena)
  <2> DEFINE k == FirstOf(p)
             asks == hardware[k].notify \/ (ena /\ aaGlobalEnabled)
             port == [hardware[k] EXCEPT !.enabled = ena, !.notify = asks]
  <2>1. k \in DOMAIN hardware
    BY <1>2, FirstIsThere
  <2>2. hardware' = [hardware EXCEPT ![k].enabled = ena, ![k].notify = asks]
    BY <1>2 DEF PortDataEnaSet
  <2> HIDE DEF k
  <2>3. hardware[k] \in LldpPort
    BY <2>1 DEF PortsTyped
  <2>4. asks \in BOOLEAN
    OBVIOUS
  <2> HIDE DEF asks
  <2>5. port \in LldpPort
    BY <2>3, <2>4 DEF LldpPort
  <2>6. hardware' = [hardware EXCEPT ![k] = port]
    BY <2>2, <2>3 DEF LldpPort
  <2> HIDE DEF port
  <2> QED
    BY <2>1, <2>5, <2>6 DEF PortsTyped
<1> QED
  BY <1>1, <1>2

LEMMA StateSetTyped ==
    ASSUME PortsTyped, NEW ena \in BOOLEAN, PortsStateSet(ena)
    PROVE  hardware' \in Seq(LldpPort) /\ Len(hardware') <= MaxHardware
<1> DEFINE changed == {p \in Listed : aaPortsList[p].ena # ena}
           told == {FirstOf(p) : p \in {q \in changed : Found(q) # {}}}
           asks(i) == hardware[i].notify \/ (ena /\ aaGlobalEnabled)
           port(i) == IF i \in told /\ hardware[i].enabled # ena
                      THEN [hardware[i] EXCEPT !.enabled = ena, !.notify = asks(i)]
                      ELSE hardware[i]
<1>1. hardware' = [i \in DOMAIN hardware |-> port(i)]
  BY DEF PortsStateSet
<1> HIDE DEF told
<1>2. \A i \in DOMAIN hardware : hardware[i] \in LldpPort
  BY DEF PortsTyped
<1>3. \A i \in DOMAIN hardware : asks(i) \in BOOLEAN
  OBVIOUS
<1> HIDE DEF asks
<1>4. \A i \in DOMAIN hardware : port(i) \in LldpPort
  BY <1>2, <1>3 DEF LldpPort
<1> HIDE DEF port
<1> QED
  BY <1>1, <1>4, InPlace

LEMMA SysIdSetTyped ==
    ASSUME PortsTyped, NEW p, NEW id \in SysId, DiscSysIdSet(p, id)
    PROVE  hardware' \in Seq(LldpPort) /\ Len(hardware') <= MaxHardware
<1> DEFINE port(i) == IF i \in Found(p) THEN [hardware[i] EXCEPT !.sysId = id]
                                        ELSE hardware[i]
<1>1. hardware' = [i \in DOMAIN hardware |-> port(i)]
  BY DEF DiscSysIdSet
<1>2. \A i \in DOMAIN hardware : hardware[i] \in LldpPort
  BY DEF PortsTyped
<1>3. \A i \in DOMAIN hardware : port(i) \in LldpPort
  BY <1>2 DEF LldpPort
<1> HIDE DEF port
<1> QED
  BY <1>1, <1>3, InPlace

LEMMA NotifyAllTyped ==
    ASSUME PortsTyped, NEW enable \in BOOLEAN
    PROVE  NotifyAll(enable) \in Seq(LldpPort) /\ Len(NotifyAll(enable)) <= MaxHardware
<1> DEFINE asks(i) == hardware[i].notify \/ (enable /\ hardware[i].enabled)
           port(i) == [hardware[i] EXCEPT !.notify = asks(i)]
<1>1. NotifyAll(enable) = [i \in DOMAIN hardware |-> port(i)]
  BY DEF NotifyAll
<1>2. \A i \in DOMAIN hardware : hardware[i] \in LldpPort
  BY DEF PortsTyped
<1>3. \A i \in DOMAIN hardware : asks(i) \in BOOLEAN
  OBVIOUS
<1> HIDE DEF asks
<1>4. \A i \in DOMAIN hardware : port(i) \in LldpPort
  BY <1>2, <1>3 DEF LldpPort
<1> HIDE DEF port
<1> QED
  BY <1>1, <1>4, InPlace

LEMMA MgmtVlanSetTyped ==
    ASSUME PortsTyped, NEW vlan \in Word, DiscMgmtVlanSet(vlan)
    PROVE  /\ hardware' \in Seq(LldpPort) /\ Len(hardware') <= MaxHardware
           /\ aa_element_mgmt_vlan' \in Word
<1> DEFINE port(i) == [hardware[i] EXCEPT !.mgmtVlan = vlan % 4096]
<1>1. hardware' = [i \in DOMAIN hardware |-> port(i)]
  BY DEF DiscMgmtVlanSet
<1>2. \A i \in DOMAIN hardware : hardware[i] \in LldpPort
  BY DEF PortsTyped
<1>3. vlan % 4096 \in Word
  BY Words
<1>4. \A i \in DOMAIN hardware : port(i) \in LldpPort
  BY <1>2, <1>3 DEF LldpPort
<1> HIDE DEF port
<1> QED
  BY <1>1, <1>4, InPlace DEF DiscMgmtVlanSet

LEMMA TypesInitially == Init => PortsTyped
<1> SUFFICES ASSUME Init PROVE PortsTyped
  OBVIOUS
<1>1. Listed = {} /\ aaPortsList \in [Listed -> AgentPort]
  BY DEF Init, Listed
<1>2. hardware \in Seq(LldpPort) /\ Len(hardware) <= MaxHardware
  BY PortsAssumption, EmptySeq DEF Init, PortsAssumption
<1> QED
  BY <1>1, <1>2, Words DEF Init, PortsTyped

LEMMA ConfigurationTyped ==
    ASSUME PortsTyped, Configuration
    PROVE  PortsTyped'
<1>1. ASSUME NEW p \in Port, PortCreate(p) PROVE PortsTyped'
  <2>1. Listed' = Listed \cup {p}
    BY <1>1 DEF PortCreate, Listed
  <2>2. aaPortsList' \in [Listed' -> AgentPort]
    BY <1>1, <2>1 DEF PortsTyped, PortCreate, AgentPort
  <2> QED
    BY <1>1, <2>1, <2>2 DEF PortsTyped, PortCreate, vlanVars
<1>2. ASSUME NEW p \in Port, PortDestroy(p) PROVE PortsTyped'
  <2>1. Listed' = Listed \ {p} /\ aaPortsList' = [q \in Listed \ {p} |-> aaPortsList[q]]
    BY <1>2 DEF PortDestroy, Listed, Restrict
  <2>2. aaPortsList' \in [Listed' -> AgentPort]
    BY <2>1 DEF PortsTyped
  <2> QED
    BY <1>2, <2>1, <2>2 DEF PortsTyped, PortDestroy, vlanVars
<1>3. ASSUME NEW p \in Port, NEW ena \in BOOLEAN, PortStateSet(p, ena) PROVE PortsTyped'
  <2>1. CASE aaPortsList[p].ena = ena
    BY <1>3, <2>1 DEF PortsTyped, PortStateSet, vlanVars, Listed
  <2>2. CASE aaPortsList[p].ena # ena
    <3>1. aaPortsList' = [aaPortsList EXCEPT ![p].ena = ena] /\ Listed' = Listed
      BY <1>3, <2>2 DEF PortStateSet, Listed
    <3>2. aaPortsList' \in [Listed -> AgentPort]
      BY <3>1 DEF PortsTyped, AgentPort
    <3>3. hardware' \in Seq(LldpPort) /\ Len(hardware') <= MaxHardware
      BY <1>3, <2>2, EnaSetTyped DEF PortStateSet
    <3> QED
      BY <1>3, <3>1, <3>2, <3>3 DEF PortsTyped, PortStateSet, vlanVars
  <2> QED
    BY <2>1, <2>2
<1>4. ASSUME NEW p \in Port, NEW id \in SysId, PortSysIdCfg(p, id) PROVE PortsTyped'
  <2>1. aaPortsList' = [aaPortsList EXCEPT ![p].locSysId = id] /\ Listed' = Listed
    BY <1>4 DEF PortSysIdCfg, Listed
  <2>2. aaPortsList' \in [Listed -> AgentPort]
    BY <2>1 DEF PortsTyped, AgentPort
  <2>3. hardware' \in Seq(LldpPort) /\ Len(hardware') <= MaxHardware
    BY <1>4, SysIdSetTyped DEF PortSysIdCfg, PortsTyped
  <2> QED
    BY <1>4, <2>1, <2>2, <2>3 DEF PortsTyped, PortSysIdCfg, vlanVars
<1>5. ASSUME NEW ena \in BOOLEAN, SetFaPortStatus(ena) PROVE PortsTyped'
  <2>1. aaPortsList' = [p \in Listed |-> [aaPortsList[p] EXCEPT !.ena = ena]]
    BY <1>5 DEF SetFaPortStatus, PortsStateSet
  <2>2. Listed' = Listed /\ aaPortsList' \in [Listed -> AgentPort]
    BY <2>1 DEF PortsTyped, AgentPort, Listed
  <2>3. hardware' \in Seq(LldpPort) /\ Len(hardware') <= MaxHardware
    BY <1>5, StateSetTyped DEF SetFaPortStatus
  <2> QED
    BY <1>5, <2>2, <2>3 DEF PortsTyped, SetFaPortStatus, vlanVars
<1>6. ASSUME NEW enable \in BOOLEAN, SetServiceStatus(enable) PROVE PortsTyped'
  BY <1>6, NotifyAllTyped DEF PortsTyped, SetServiceStatus, vlanVars, Listed
<1>7. ASSUME SetElementType PROVE PortsTyped'
  BY <1>7, NotifyAllTyped DEF PortsTyped, SetElementType, vlanVars, Listed
<1>8. ASSUME NEW vlan \in MgmtVlan, MgmtVlanCfg(vlan) PROVE PortsTyped'
  BY <1>8, MgmtVlanSetTyped, Words DEF PortsTyped, MgmtVlanCfg, agentVars, Listed
<1>9. ASSUME NEW status \in BOOLEAN, SetAutoAttachStatus(status) PROVE PortsTyped'
  <2>1. PICK vlan \in MgmtVlan \cup {NoVlan} : faMgmtVlan' = vlan /\ DiscMgmtVlanSet(vlan)
    <3>1. faMgmtVlan' \in MgmtVlan \cup {NoVlan}
      BY <1>9 DEF SetAutoAttachStatus, PortsTyped
    <3>2. DiscMgmtVlanSet(faMgmtVlan')
      BY <1>9 DEF SetAutoAttachStatus
    <3> QED
      BY <3>1, <3>2
  <2>2. vlan \in Word
    BY Words
  <2> QED
    BY <1>9, <2>1, <2>2, MgmtVlanSetTyped DEF PortsTyped, SetAutoAttachStatus, agentVars, Listed
<1> QED
  BY <1>1, <1>2, <1>3, <1>4, <1>5, <1>6, <1>7, <1>8, <1>9 DEF Configuration

LEMMA LldpTyped ==
    ASSUME PortsTyped, Lldp
    PROVE  PortsTyped'
<1>1. ASSUME NEW p \in Port, NEW id \in SysId, HardwareCreate(p, id) PROVE PortsTyped'
  <2> DEFINE port == [ifindex |-> p, enabled |-> FALSE, notify |-> FALSE, sysId |-> id,
                      mgmtVlan |-> aa_element_mgmt_vlan]
  <2>1. port \in LldpPort
    BY DEF PortsTyped, LldpPort
  <2>2. hardware' = Append(hardware, port)
    BY <1>1 DEF HardwareCreate
  <2> HIDE DEF port
  <2>3. hardware' \in Seq(LldpPort) /\ Len(hardware') = Len(hardware) + 1
    BY <2>1, <2>2, AppendProperties DEF PortsTyped
  <2>4. Len(hardware') <= MaxHardware
    BY <1>1, <2>3, PortsAssumption DEF HardwareCreate, PortsTyped, PortsAssumption
  <2> QED
    BY <1>1, <2>3, <2>4 DEF PortsTyped, HardwareCreate, agentVars, vlanVars, Listed
<1>2. ASSUME NEW p \in Port, HardwareDelete(p) PROVE PortsTyped'
  <2> DEFINE k == FirstOf(p)
  <2>1. k \in 1 .. Len(hardware) /\ hardware \in Seq(LldpPort)
    BY <1>2, FirstIsThere DEF HardwareDelete, PortsTyped
  <2>2. hardware' = RemoveAt(hardware, k)
    BY <1>2 DEF HardwareDelete
  <2> HIDE DEF k
  <2>3. RemoveAt(hardware, k) \in Seq(LldpPort)
        /\ Len(RemoveAt(hardware, k)) = Len(hardware) - 1
    BY <2>1, RemoveAtKeeps
  <2>4. hardware' \in Seq(LldpPort) /\ Len(hardware') <= MaxHardware
    BY <2>1, <2>2, <2>3, PortsAssumption DEF PortsTyped, PortsAssumption
  <2> QED
    BY <1>2, <2>4 DEF PortsTyped, HardwareDelete, agentVars, vlanVars, Listed
<1>3. ASSUME NEW p \in Port, PortDataGet(p) PROVE PortsTyped'
  <2>1. hardware[FirstOf(p)] \in LldpPort
    BY <1>3, FirstIsThere DEF PortDataGet, PortsTyped
  <2>2. aa_element_mgmt_vlan' \in Word
    BY <1>3, <2>1 DEF PortDataGet, LldpPort
  <2> QED
    BY <1>3, <2>2 DEF PortsTyped, PortDataGet, agentVars, Listed
<1>4. ASSUME NEW i \in DOMAIN hardware, Delivered(i) PROVE PortsTyped'
  <2> DEFINE port == [hardware[i] EXCEPT !.notify = FALSE]
  <2>1. port \in LldpPort
    <3>1. hardware[i] \in LldpPort
      BY DEF PortsTyped
    <3> QED
      BY <3>1 DEF LldpPort
  <2>2. hardware' = [hardware EXCEPT ![i] = port]
    BY <1>4 DEF Delivered
  <2> HIDE DEF port
  <2>3. hardware' \in Seq(LldpPort) /\ Len(hardware') <= MaxHardware
    BY <2>1, <2>2 DEF PortsTyped
  <2> QED
    BY <1>4, <2>3 DEF PortsTyped, Delivered, agentVars, vlanVars, Listed
<1> QED
  BY <1>1, <1>2, <1>3, <1>4 DEF Lldp

LEMMA TypesStep == PortsTyped /\ [Next]_vars => PortsTyped'
<1> SUFFICES ASSUME PortsTyped, [Next]_vars PROVE PortsTyped'
  OBVIOUS
<1>1. CASE Next
  BY <1>1, ConfigurationTyped, LldpTyped DEF Next
<1>2. CASE UNCHANGED vars
  BY <1>2 DEF vars, agentVars, vlanVars, PortsTyped, Listed
<1> QED
  BY <1>1, <1>2

-----------------------------------------------------------------------------
(* An interface is in LLDP's list once at most. *)
OncePerIfc ==
    \A i, k \in DOMAIN hardware : hardware[i].ifindex = hardware[k].ifindex => i = k

(* Every port of the agent is there. *)
Covered == \A p \in Listed : \E i \in DOMAIN hardware : hardware[i].ifindex = p

(* Ports to come will announce what is configured. *)
CopyIsConfigured == aa_element_mgmt_vlan % 4096 = faMgmtVlan % 4096

(* The two views of each port; that of the switches is apart, because an     *)
(* agent that is about to tell itself what it told LLDP has one without the *)
(* other.                                                                   *)
PortsAgree ==
    \A i \in DOMAIN hardware :
       LET p == hardware[i].ifindex
       IN  /\ hardware[i].enabled <=> (p \in Listed /\ aaPortsList[p].ena)
           /\ p \in Listed => aaPortsList[p].locSysId \in {NoSysId, hardware[i].sysId}

SwitchesEqual == aaGlobalEnabled = faServiceStatus

AgreeInv ==
    /\ PortsTyped
    /\ OncePerIfc
    /\ Covered
    /\ CopyIsConfigured
    /\ PortsAgree
    /\ AnnouncedIsConfigured
    /\ AnswerIsTrue
-----------------------------------------------------------------------------
(* The first port with an ifindex is the only one.                          *)
LEMMA OnlyOne ==
    ASSUME NEW list, DOMAIN list \subseteq Nat, NEW i \in DOMAIN list,
           \A k \in DOMAIN list : list[k].ifindex = list[i].ifindex => k = i
    PROVE  /\ {k \in DOMAIN list : list[k].ifindex = list[i].ifindex} = {i}
           /\ Min({k \in DOMAIN list : list[k].ifindex = list[i].ifindex}) = i
<1>1. {k \in DOMAIN list : list[k].ifindex = list[i].ifindex} = {i}
  OBVIOUS
<1>2. Min({i}) = i
  BY DEF Min
<1> QED
  BY <1>1, <1>2

LEMMA FirstIsOnly ==
    ASSUME PortsTyped, OncePerIfc, NEW i \in DOMAIN hardware
    PROVE  /\ Found(hardware[i].ifindex) = {i}
           /\ FirstOf(hardware[i].ifindex) = i
<1>1. DOMAIN hardware \subseteq Nat
  BY DEF PortsTyped
<1>2. \A k \in DOMAIN hardware : hardware[k].ifindex = hardware[i].ifindex => k = i
  BY DEF OncePerIfc
<1> QED
  BY <1>1, <1>2, OnlyOne DEF Found, FirstOf

(* Hence what an answer has to say about.                                   *)
LEMMA DoneThere ==
    ASSUME PortsTyped', OncePerIfc', NEW i \in DOMAIN hardware',
           answer'.to = IF answer'.call = "sysid" THEN hardware'[i].sysId
                                                  ELSE hardware'[i].enabled
    PROVE  Done(hardware[i].ifindex)'
<1>1. DOMAIN hardware' \subseteq Nat
  BY DEF PortsTyped
<1>2. \A k \in DOMAIN hardware' : hardware'[k].ifindex = hardware'[i].ifindex => k = i
  BY DEF OncePerIfc
<1>3. Found(hardware[i].ifindex)' = {i} /\ FirstOf(hardware[i].ifindex)' = i
  BY <1>1, <1>2, OnlyOne DEF Found, FirstOf
<1> QED
  BY <1>3 DEF Done

(* The transport's loops leave the interfaces of its ports as they are.     *)
LEMMA SameInterfaces ==
    ASSUME OncePerIfc, Covered, Listed' \subseteq Listed,
           DOMAIN hardware' = DOMAIN hardware,
           \A i \in DOMAIN hardware : hardware'[i].ifindex = hardware[i].ifindex
    PROVE  OncePerIfc' /\ Covered'
<1>1. OncePerIfc'
  BY DEF OncePerIfc
<1>2. Covered'
  BY DEF Covered, Listed
<1> QED
  BY <1>1, <1>2

LEMMA AgreeInvInitially == Init => AgreeInv
<1> SUFFICES ASSUME Init PROVE AgreeInv
  OBVIOUS
<1>1. Listed = {} /\ DOMAIN hardware = {}
  BY DEF Init, Listed
<1>2. PortsTyped
  BY TypesInitially
<1>3. OncePerIfc /\ Covered /\ CopyIsConfigured
  BY <1>1 DEF Init, OncePerIfc, Covered, CopyIsConfigured
<1>4. PortsAgree /\ AnnouncedIsConfigured
  BY <1>1 DEF Init, PortsAgree, AnnouncedIsConfigured
<1>5. AnswerIsTrue
  BY DEF Init, AnswerIsTrue
<1> QED
  BY <1>2, <1>3, <1>4, <1>5 DEF AgreeInv
-----------------------------------------------------------------------------
(* One lemma for each action.  A step that is no configuration of a port    *)
(* answers nothing.                                                         *)
LEMMA NoAnswerIsTrue == answer' = NoAnswer => AnswerIsTrue'
  BY DEF AnswerIsTrue

LEMMA PortCreateAgrees ==
    ASSUME Orderly, AgreeInv, PortsTyped', NEW p \in Port, PortCreate(p)
    PROVE  AgreeInv'
<1>1. Listed' = Listed \cup {p}
  BY DEF PortCreate, Listed
<1>3. OncePerIfc'
  BY DEF AgreeInv, OncePerIfc, PortCreate
<1>4. Covered'
  BY <1>1 DEF AgreeInv, Covered, PortCreate, Found
<1>5. CopyIsConfigured' /\ AnnouncedIsConfigured'
  BY DEF AgreeInv, CopyIsConfigured, AnnouncedIsConfigured, PortCreate, vlanVars
<1>6. PortsAgree'
  BY <1>1 DEF AgreeInv, PortsTyped, PortsAgree, PortCreate
<1>7. AnswerIsTrue'
  BY NoAnswerIsTrue DEF PortCreate
<1> QED
  BY <1>3, <1>4, <1>5, <1>6, <1>7 DEF AgreeInv

LEMMA PortDestroyAgrees ==
    ASSUME Orderly, AgreeInv, PortsTyped', NEW p \in Port, PortDestroy(p)
    PROVE  AgreeInv'
<1>1. Listed' = Listed \ {p} /\ aaPortsList' = [q \in Listed \ {p} |-> aaPortsList[q]]
  BY DEF PortDestroy, Listed, Restrict
<1>3. OncePerIfc' /\ Covered'
  BY <1>1 DEF AgreeInv, OncePerIfc, Covered, PortDestroy
<1>4. CopyIsConfigured' /\ AnnouncedIsConfigured'
  BY DEF AgreeInv, CopyIsConfigured, AnnouncedIsConfigured, PortDestroy, vlanVars
<1>5. PortsAgree'
  BY <1>1 DEF AgreeInv, PortsTyped, PortsAgree, PortDestroy
<1>6. AnswerIsTrue'
  BY NoAnswerIsTrue DEF PortDestroy
<1> QED
  BY <1>3, <1>4, <1>5, <1>6 DEF AgreeInv

(* What aatransi_port_data_ena_set does to the list, where the port is.     *)
LEMMA EnaSetEffect ==
    ASSUME AgreeInv, NEW p \in Listed, NEW ena \in BOOLEAN, PortDataEnaSet(p, ena)
    PROVE  /\ hardware' \in Seq(LldpPort) /\ DOMAIN hardware' = DOMAIN hardware
           /\ \A i \in DOMAIN hardware :
                 /\ hardware'[i].ifindex = hardware[i].ifindex
                 /\ hardware'[i].sysId = hardware[i].sysId
                 /\ hardware'[i].mgmtVlan = hardware[i].mgmtVlan
                 /\ hardware'[i].enabled = IF hardware[i].ifindex = p
                                           THEN ena ELSE hardware[i].enabled
<1>1. PICK k \in DOMAIN hardware : hardware[k].ifindex = p
  BY DEF AgreeInv, Covered
<1>2. Found(p) = {k} /\ FirstOf(p) = k
  BY <1>1, FirstIsOnly DEF AgreeInv
<1>3. \A i \in DOMAIN hardware : hardware[i].ifindex = p => i = k
  BY <1>1 DEF AgreeInv, OncePerIfc
<1>4. CASE hardware[k].enabled = ena
  <2>1. hardware' = hardware
    BY <1>2, <1>4 DEF PortDataEnaSet
  <2> QED
    BY <2>1, <1>3, <1>4 DEF AgreeInv, PortsTyped
<1>5. CASE hardware[k].enabled # ena
  <2> DEFINE asks == hardware[k].notify \/ (ena /\ aaGlobalEnabled)
             port == [hardware[k] EXCEPT !.enabled = ena, !.notify = asks]
  <2>1. hardware' = [hardware EXCEPT ![k].enabled = ena, ![k].notify = asks]
    BY <1>2, <1>5 DEF PortDataEnaSet
  <2>2. hardware[k] \in LldpPort
    BY DEF AgreeInv, PortsTyped
  <2>3. asks \in BOOLEAN
    OBVIOUS
  <2> HIDE DEF asks
  <2>4. /\ port \in LldpPort /\ port.ifindex = hardware[k].ifindex
        /\ port.sysId = hardware[k].sysId /\ port.mgmtVlan = hardware[k].mgmtVlan
        /\ port.enabled = ena
    BY <2>2, <2>3 DEF LldpPort
  <2>5. hardware' = [hardware EXCEPT ![k] = port]
    BY <2>1, <2>2 DEF LldpPort
  <2> HIDE DEF port
  <2>6. hardware' \in Seq(LldpPort) /\ DOMAIN hardware' = DOMAIN hardware
    BY <2>4, <2>5 DEF AgreeInv, PortsTyped
  <2>7. \A i \in DOMAIN hardware : hardware'[i] = IF i = k THEN port ELSE hardware[i]
    BY <2>5
  <2> QED
    BY <2>4, <2>6, <2>7, <1>1, <1>3
<1> QED
  BY <1>4, <1>5

LEMMA PortStateSetAgrees ==
    ASSUME Orderly, AgreeInv, PortsTyped', NEW p \in Port, NEW ena \in BOOLEAN, PortStateSet(p, ena)
    PROVE  AgreeInv'
<1>1. p \in Listed
  BY DEF PortStateSet
<1>2. answer'.call = "state" /\ answer'.port = p /\ answer'.to = ena
  BY DEF PortStateSet
<1>3. PICK k \in DOMAIN hardware : hardware[k].ifindex = p
  BY <1>1 DEF AgreeInv, Covered
<1>4. CASE aaPortsList[p].ena = ena
  <2>1. UNCHANGED <<aaPortsList, hardware>>
    BY <1>4 DEF PortStateSet
  <2>2. PortsTyped' /\ OncePerIfc' /\ Covered'
    BY <2>1 DEF AgreeInv, PortsTyped, OncePerIfc, Covered, PortStateSet, vlanVars, Listed
  <2>3. CopyIsConfigured' /\ AnnouncedIsConfigured' /\ PortsAgree'
    BY <2>1 DEF AgreeInv, CopyIsConfigured, AnnouncedIsConfigured, PortsAgree,
                PortStateSet, vlanVars, Listed
  <2>4. hardware'[k].enabled = ena
    <3>1. hardware[k] \in LldpPort /\ aaPortsList[p].ena \in BOOLEAN
      BY <1>1 DEF AgreeInv, PortsTyped, AgentPort
    <3> QED
      BY <2>1, <1>1, <1>3, <1>4, <3>1 DEF AgreeInv, PortsAgree, LldpPort
  <2>5. Done(p)'
    BY <2>1, <2>2, <2>4, <1>2, <1>3, DoneThere
  <2>6. AnswerIsTrue'
    BY <2>5, <1>2 DEF AnswerIsTrue
  <2> QED
    BY <2>2, <2>3, <2>6 DEF AgreeInv
<1>5. CASE aaPortsList[p].ena # ena
  <2>1. aaPortsList' = [aaPortsList EXCEPT ![p].ena = ena] /\ PortDataEnaSet(p, ena)
    BY <1>5 DEF PortStateSet
  <2>2. Listed' = Listed
    BY <2>1 DEF Listed
  <2>3. /\ hardware' \in Seq(LldpPort) /\ DOMAIN hardware' = DOMAIN hardware
        /\ \A i \in DOMAIN hardware :
              /\ hardware'[i].ifindex = hardware[i].ifindex
              /\ hardware'[i].sysId = hardware[i].sysId
              /\ hardware'[i].mgmtVlan = hardware[i].mgmtVlan
              /\ hardware'[i].enabled = IF hardware[i].ifindex = p
                                        THEN ena ELSE hardware[i].enabled
    BY <2>1, <1>1, EnaSetEffect
  <2>4. /\ aaPortsList' \in [Listed -> AgentPort]
        /\ \A q \in Listed : /\ aaPortsList'[q].locSysId = aaPortsList[q].locSysId
                             /\ aaPortsList'[q].ena = IF q = p THEN ena
                                                              ELSE aaPortsList[q].ena
    BY <2>1, <1>1 DEF AgreeInv, PortsTyped
  <2>6. OncePerIfc' /\ Covered'
    BY <2>2, <2>3, SameInterfaces DEF AgreeInv
  <2>7. CopyIsConfigured' /\ AnnouncedIsConfigured'
    BY <2>3 DEF AgreeInv, CopyIsConfigured, AnnouncedIsConfigured, PortStateSet, vlanVars
  <2>8. PortsAgree'
    BY <2>2, <2>3, <2>4, <1>1 DEF AgreeInv, PortsAgree, PortStateSet
  <2>9. Done(p)'
    BY <2>3, <2>6, <1>2, <1>3, DoneThere
  <2>10. AnswerIsTrue'
    BY <2>9, <1>2 DEF AnswerIsTrue
  <2> QED
    BY <2>6, <2>7, <2>8, <2>10 DEF AgreeInv
<1> QED
  BY <1>4, <1>5

(* What aaPortsStateSet does to the two lists.                              *)
LEMMA PortsStateSetEffect ==
    ASSUME AgreeInv, NEW ena \in BOOLEAN, PortsStateSet(ena)
    PROVE  /\ hardware' \in Seq(LldpPort) /\ DOMAIN hardware' = DOMAIN hardware
           /\ \A i \in DOMAIN hardware :
                 /\ hardware'[i].ifindex = hardware[i].ifindex
                 /\ hardware'[i].sysId = hardware[i].sysId
                 /\ hardware'[i].mgmtVlan = hardware[i].mgmtVlan
                 /\ hardware'[i].enabled = IF hardware[i].ifindex \in Listed
                                           THEN ena ELSE hardware[i].enabled
<1> DEFINE changed == {p \in Listed : aaPortsList[p].ena # ena}
           told == {FirstOf(p) : p \in {q \in changed : Found(q) # {}}}
           asks(i) == hardware[i].notify \/ (ena /\ aaGlobalEnabled)
           port(i) == IF i \in told /\ hardware[i].enabled # ena
                      THEN [hardware[i] EXCEPT !.enabled = ena, !.notify = asks(i)]
                      ELSE hardware[i]
<1>1. hardware' = [i \in DOMAIN hardware |-> port(i)]
  BY DEF PortsStateSet
<1>2. \A i \in DOMAIN hardware : hardware[i] \in LldpPort
  BY DEF AgreeInv, PortsTyped
<1>3. \A i \in DOMAIN hardware : i \in told <=> hardware[i].ifindex \in changed
  <2> TAKE i \in DOMAIN hardware
  <2>1. Found(hardware[i].ifindex) = {i} /\ FirstOf(hardware[i].ifindex) = i
    BY FirstIsOnly DEF AgreeInv
  <2>2. ASSUME i \in told PROVE hardware[i].ifindex \in changed
    <3>1. PICK p \in changed : Found(p) # {} /\ i = FirstOf(p)
      BY <2>2
    <3>2. PICK k \in DOMAIN hardware : hardware[k].ifindex = p
      BY <3>1 DEF Found
    <3>3. FirstOf(p) = k
      BY <3>2, FirstIsOnly DEF AgreeInv
    <3> QED
      BY <3>1, <3>2, <3>3
  <2> QED
    BY <2>1, <2>2
<1>4. \A i \in DOMAIN hardware :
        /\ port(i) \in LldpPort
        /\ port(i).ifindex = hardware[i].ifindex
        /\ port(i).sysId = hardware[i].sysId
        /\ port(i).mgmtVlan = hardware[i].mgmtVlan
        /\ port(i).enabled = IF i \in told THEN ena ELSE hardware[i].enabled
  <2> HIDE DEF told
  <2>1. \A i \in DOMAIN hardware : asks(i) \in BOOLEAN
    OBVIOUS
  <2> HIDE DEF asks
  <2> QED
    BY <1>2, <2>1 DEF LldpPort
<1> HIDE DEF port, told
<1>5. hardware' \in [DOMAIN hardware -> LldpPort]
  BY <1>1, <1>4
<1>6. hardware' \in Seq(LldpPort) /\ DOMAIN hardware' = DOMAIN hardware
  BY <1>5, SameLength DEF AgreeInv, PortsTyped
<1>7. \A i \in DOMAIN hardware :
        hardware[i].ifindex \in Listed \ changed => hardware[i].enabled = ena
  <2> TAKE i \in DOMAIN hardware
  <2>1. \A p \in Listed : aaPortsList[p].ena \in BOOLEAN
    BY DEF AgreeInv, PortsTyped, AgentPort
  <2> QED
    BY <1>2, <2>1 DEF AgreeInv, PortsAgree, LldpPort
<1>8. changed \subseteq Listed
  OBVIOUS
<1> HIDE DEF changed
<1> QED
  BY <1>1, <1>3, <1>4, <1>6, <1>7, <1>8

LEMMA SetFaPortStatusAgrees ==
    ASSUME Orderly, AgreeInv, PortsTyped', NEW ena \in BOOLEAN, SetFaPortStatus(ena)
    PROVE  AgreeInv'
<1>1. PortsStateSet(ena)
  BY DEF SetFaPortStatus
<1>2. answer'.call = "states" /\ answer'.to = ena
  BY DEF SetFaPortStatus
<1>3. aaPortsList' = [p \in Listed |-> [aaPortsList[p] EXCEPT !.ena = ena]]
  BY <1>1 DEF PortsStateSet
<1>4. Listed' = Listed
  BY <1>3 DEF Listed
<1>5. /\ aaPortsList' \in [Listed -> AgentPort]
      /\ \A q \in Listed : /\ aaPortsList'[q].locSysId = aaPortsList[q].locSysId
                           /\ aaPortsList'[q].ena = ena
  BY <1>3 DEF AgreeInv, PortsTyped, AgentPort
<1>6. /\ hardware' \in Seq(LldpPort) /\ DOMAIN hardware' = DOMAIN hardware
      /\ \A i \in DOMAIN hardware :
            /\ hardware'[i].ifindex = hardware[i].ifindex
            /\ hardware'[i].sysId = hardware[i].sysId
            /\ hardware'[i].mgmtVlan = hardware[i].mgmtVlan
            /\ hardware'[i].enabled = IF hardware[i].ifindex \in Listed
                                      THEN ena ELSE hardware[i].enabled
  BY <1>1, PortsStateSetEffect
<1>8. OncePerIfc' /\ Covered'
  BY <1>4, <1>6, SameInterfaces DEF AgreeInv
<1>9. CopyIsConfigured' /\ AnnouncedIsConfigured'
  BY <1>6 DEF AgreeInv, CopyIsConfigured, AnnouncedIsConfigured, SetFaPortStatus, vlanVars
<1>10. PortsAgree'
  BY <1>4, <1>5, <1>6 DEF AgreeInv, PortsAgree, SetFaPortStatus
<1>11. \A p \in Listed : Done(p)'
  <2> TAKE p \in Listed
  <2>1. PICK k \in DOMAIN hardware : hardware[k].ifindex = p
    BY DEF AgreeInv, Covered
  <2> QED
    BY <2>1, <1>2, <1>6, <1>8, DoneThere
<1>12. AnswerIsTrue'
  BY <1>2, <1>4, <1>11 DEF AnswerIsTrue
<1> QED
  BY <1>8, <1>9, <1>10, <1>12 DEF AgreeInv

LEMMA PortSysIdCfgAgrees ==
    ASSUME Orderly, AgreeInv, PortsTyped', NEW p \in Port, NEW id \in SysId, PortSysIdCfg(p, id)
    PROVE  AgreeInv'
<1>1. p \in Listed /\ aaPortsList' = [aaPortsList EXCEPT ![p].locSysId = id]
  BY DEF PortSysIdCfg
<1>2. answer'.call = "sysid" /\ answer'.port = p /\ answer'.to = id
  BY DEF PortSysIdCfg
<1>3. Listed' = Listed
  BY <1>1 DEF Listed
<1>4. /\ aaPortsList' \in [Listed -> AgentPort]
      /\ \A q \in Listed : /\ aaPortsList'[q].ena = aaPortsList[q].ena
                           /\ aaPortsList'[q].locSysId = IF q = p THEN id
                                                    ELSE aaPortsList[q].locSysId
  BY <1>1 DEF AgreeInv, PortsTyped
<1>5. \A i \in DOMAIN hardware : hardware[i] \in LldpPort
  BY DEF AgreeInv, PortsTyped
<1>6. /\ hardware' \in Seq(LldpPort) /\ DOMAIN hardware' = DOMAIN hardware
      /\ \A i \in DOMAIN hardware :
            /\ hardware'[i].ifindex = hardware[i].ifindex
            /\ hardware'[i].enabled = hardware[i].enabled
            /\ hardware'[i].mgmtVlan = hardware[i].mgmtVlan
            /\ hardware'[i].sysId = IF hardware[i].ifindex = p
                                    THEN id ELSE hardware[i].sysId
  <2>1. CASE aaPortsList[p].locSysId = id
    <3>1. hardware' = hardware
      BY <2>1 DEF PortSysIdCfg
    <3>2. id # NoSysId
      BY PortsAssumption DEF PortsAssumption
    <3>3. \A i \in DOMAIN hardware : hardware[i].ifindex = p => hardware[i].sysId = id
      BY <2>1, <1>1, <3>2 DEF AgreeInv, PortsAgree
    <3> QED
      BY <3>1, <3>3 DEF AgreeInv, PortsTyped
  <2>2. CASE aaPortsList[p].locSysId # id
    <3> DEFINE port(i) == IF hardware[i].ifindex = p
                          THEN [hardware[i] EXCEPT !.sysId = id] ELSE hardware[i]
    <3>1. hardware' = [i \in DOMAIN hardware |-> port(i)]
      BY <2>2 DEF PortSysIdCfg, DiscSysIdSet, Found
    <3>2. \A i \in DOMAIN hardware :
            /\ port(i) \in LldpPort
            /\ port(i).ifindex = hardware[i].ifindex
            /\ port(i).enabled = hardware[i].enabled
            /\ port(i).mgmtVlan = hardware[i].mgmtVlan
            /\ port(i).sysId = IF hardware[i].ifindex = p
                               THEN id ELSE hardware[i].sysId
      BY <1>5 DEF LldpPort
    <3> HIDE DEF port
    <3>3. hardware' \in [DOMAIN hardware -> LldpPort]
      BY <3>1, <3>2
    <3>4. hardware' \in Seq(LldpPort) /\ DOMAIN hardware' = DOMAIN hardware
      BY <3>3, SameLength DEF AgreeInv, PortsTyped
    <3> QED
      BY <3>1, <3>2, <3>4
  <2> QED
    BY <2>1, <2>2
<1>8. OncePerIfc' /\ Covered'
  BY <1>3, <1>6, SameInterfaces DEF AgreeInv
<1>9. CopyIsConfigured' /\ AnnouncedIsConfigured'
  BY <1>6 DEF AgreeInv, CopyIsConfigured, AnnouncedIsConfigured, PortSysIdCfg, vlanVars
<1>10. PortsAgree'
  BY <1>3, <1>4, <1>6 DEF AgreeInv, PortsAgree, PortSysIdCfg
<1>11. Done(p)'
  <2>1. PICK k \in DOMAIN hardware : hardware[k].ifindex = p
    BY <1>1 DEF AgreeInv, Covered
  <2> QED
    BY <2>1, <1>2, <1>6, <1>8, DoneThere
<1>12. AnswerIsTrue'
  BY <1>2, <1>11 DEF AnswerIsTrue
<1> QED
  BY <1>8, <1>9, <1>10, <1>12 DEF AgreeInv

(* The calls that leave the agent's ports alone, and of LLDP's what the two *)
(* have in common.                                                          *)
LEMMA OtherFieldsOnly ==
    ASSUME AgreeInv, UNCHANGED aaPortsList,
           DOMAIN hardware' = DOMAIN hardware,
           \A i \in DOMAIN hardware :
              /\ hardware'[i].ifindex = hardware[i].ifindex
              /\ hardware'[i].sysId = hardware[i].sysId
              /\ hardware'[i].enabled = hardware[i].enabled
    PROVE  OncePerIfc' /\ Covered' /\ PortsAgree'
<1>1. Listed' = Listed
  BY DEF Listed
<1>2. OncePerIfc' /\ Covered'
  BY <1>1, SameInterfaces DEF AgreeInv
<1>3. PortsAgree'
  BY <1>1 DEF AgreeInv, PortsAgree
<1> QED
  BY <1>2, <1>3

LEMMA NotifyAllEffect ==
    ASSUME AgreeInv, NEW enable \in BOOLEAN
    PROVE  /\ NotifyAll(enable) \in Seq(LldpPort)
           /\ DOMAIN NotifyAll(enable) = DOMAIN hardware
           /\ \A i \in DOMAIN hardware :
                 /\ NotifyAll(enable)[i].ifindex = hardware[i].ifindex
                 /\ NotifyAll(enable)[i].sysId = hardware[i].sysId
                 /\ NotifyAll(enable)[i].enabled = hardware[i].enabled
                 /\ NotifyAll(enable)[i].mgmtVlan = hardware[i].mgmtVlan
<1> DEFINE asks(i) == hardware[i].notify \/ (enable /\ hardware[i].enabled)
           port(i) == [hardware[i] EXCEPT !.notify = asks(i)]
<1>1. NotifyAll(enable) = [i \in DOMAIN hardware |-> port(i)]
  BY DEF NotifyAll
<1>2. \A i \in DOMAIN hardware : hardware[i] \in LldpPort
  BY DEF AgreeInv, PortsTyped
<1>3. \A i \in DOMAIN hardware : asks(i) \in BOOLEAN
  OBVIOUS
<1> HIDE DEF asks
<1>4. \A i \in DOMAIN hardware :
        /\ port(i) \in LldpPort
        /\ port(i).ifindex = hardware[i].ifindex
        /\ port(i).sysId = hardware[i].sysId
        /\ port(i).enabled = hardware[i].enabled
        /\ port(i).mgmtVlan = hardware[i].mgmtVlan
  BY <1>2, <1>3 DEF LldpPort
<1> HIDE DEF port
<1>5. NotifyAll(enable) \in [DOMAIN hardware -> LldpPort]
  BY <1>1, <1>4
<1>6. NotifyAll(enable) \in Seq(LldpPort) /\ DOMAIN NotifyAll(enable) = DOMAIN hardware
  BY <1>5, SameLength DEF AgreeInv, PortsTyped
<1> QED
  BY <1>1, <1>4, <1>6

LEMMA SwitchesAgree ==
    ASSUME AgreeInv, PortsTyped', UNCHANGED <<aaPortsList, vlanVars>>, answer' = NoAnswer,
           faServiceStatus' \in BOOLEAN, aaGlobalEnabled' \in BOOLEAN,
           \/ hardware' = hardware
           \/ \E enable \in BOOLEAN : hardware' = NotifyAll(enable)
    PROVE  AgreeInv'
<1>1. /\ hardware' \in Seq(LldpPort) /\ DOMAIN hardware' = DOMAIN hardware
      /\ \A i \in DOMAIN hardware :
            /\ hardware'[i].ifindex = hardware[i].ifindex
            /\ hardware'[i].sysId = hardware[i].sysId
            /\ hardware'[i].enabled = hardware[i].enabled
            /\ hardware'[i].mgmtVlan = hardware[i].mgmtVlan
  <2>1. CASE hardware' = hardware
    BY <2>1 DEF AgreeInv, PortsTyped
  <2>2. CASE \E enable \in BOOLEAN : hardware' = NotifyAll(enable)
    BY <2>2, NotifyAllEffect
  <2> QED
    BY <2>1, <2>2
<1>3. OncePerIfc' /\ Covered' /\ PortsAgree'
  BY <1>1, OtherFieldsOnly
<1>4. CopyIsConfigured' /\ AnnouncedIsConfigured'
  BY <1>1 DEF AgreeInv, CopyIsConfigured, AnnouncedIsConfigured, vlanVars
<1> QED
  BY <1>3, <1>4, NoAnswerIsTrue DEF AgreeInv

LEMMA SetServiceStatusAgrees ==
    ASSUME AgreeInv, PortsTyped', NEW enable \in BOOLEAN, SetServiceStatus(enable)
    PROVE  AgreeInv'
<1>1. hardware' = hardware \/ hardware' = NotifyAll(enable)
  BY DEF SetServiceStatus
<1> QED
  BY <1>1, SwitchesAgree DEF SetServiceStatus

LEMMA SetElementTypeAgrees ==
    ASSUME AgreeInv, PortsTyped', SetElementType
    PROVE  AgreeInv'
<1>1. hardware' = hardware \/ hardware' = NotifyAll(TRUE)
  BY DEF SetElementType
<1> QED
  BY <1>1, SwitchesAgree DEF SetElementType, AgreeInv, PortsTyped, PortsAgree
-----------------------------------------------------------------------------
(* The management VLAN.                                                     *)
LEMMA VlanOfVlan == \A v \in Nat : v % 4096 \in Nat /\ (v % 4096) % 4096 = v % 4096
  BY Z3

LEMMA DiscMgmtVlanSetAgrees ==
    ASSUME AgreeInv, PortsTyped', NEW vlan \in Word, DiscMgmtVlanSet(vlan), faMgmtVlan' = vlan,
           answer' = NoAnswer, UNCHANGED <<agentVars, aaGlobalEnabled>>
    PROVE  AgreeInv'
<1> DEFINE port(i) == [hardware[i] EXCEPT !.mgmtVlan = vlan % 4096]
<1>1. hardware' = [i \in DOMAIN hardware |-> port(i)]
  BY DEF DiscMgmtVlanSet
<1>2. \A i \in DOMAIN hardware : hardware[i] \in LldpPort
  BY DEF AgreeInv, PortsTyped
<1>3. vlan % 4096 \in Word
  BY Words
<1>4. \A i \in DOMAIN hardware :
        /\ port(i) \in LldpPort
        /\ port(i).ifindex = hardware[i].ifindex
        /\ port(i).sysId = hardware[i].sysId
        /\ port(i).enabled = hardware[i].enabled
        /\ port(i).mgmtVlan = vlan % 4096
  BY <1>2, <1>3 DEF LldpPort
<1> HIDE DEF port
<1>5. hardware' \in [DOMAIN hardware -> LldpPort]
  BY <1>1, <1>4
<1>6. hardware' \in Seq(LldpPort) /\ DOMAIN hardware' = DOMAIN hardware
  BY <1>5, SameLength DEF AgreeInv, PortsTyped
<1>7. \A i \in DOMAIN hardware : hardware'[i] = port(i)
  BY <1>1
<1>9. OncePerIfc' /\ Covered' /\ PortsAgree'
  BY <1>4, <1>6, <1>7, OtherFieldsOnly DEF agentVars, AgreeInv, PortsAgree
<1>10. CopyIsConfigured'
  BY DEF CopyIsConfigured, DiscMgmtVlanSet
<1>11. AnnouncedIsConfigured'
  <2>1. \A i \in DOMAIN hardware' : hardware'[i].mgmtVlan = vlan % 4096
    BY <1>4, <1>6, <1>7
  <2> QED
    BY <2>1, Words, VlanOfVlan DEF AnnouncedIsConfigured
<1> QED
  BY <1>9, <1>10, <1>11, NoAnswerIsTrue DEF AgreeInv

LEMMA MgmtVlanCfgAgrees ==
    ASSUME AgreeInv, PortsTyped', NEW vlan \in MgmtVlan, MgmtVlanCfg(vlan)
    PROVE  AgreeInv'
<1>1. vlan \in Word
  BY Words
<1> QED
  BY <1>1, DiscMgmtVlanSetAgrees DEF MgmtVlanCfg

LEMMA SetAutoAttachStatusAgrees ==
    ASSUME AgreeInv, PortsTyped', NEW status \in BOOLEAN, SetAutoAttachStatus(status)
    PROVE  AgreeInv'
<1>1. PICK vlan \in Word : faMgmtVlan' = vlan /\ DiscMgmtVlanSet(vlan)
  <2>1. faMgmtVlan' \in Word
    <3>1. faMgmtVlan' \in MgmtVlan \cup {NoVlan}
      BY DEF PortsTyped
    <3> QED
      BY <3>1, Words
  <2>2. DiscMgmtVlanSet(faMgmtVlan')
    BY DEF SetAutoAttachStatus
  <2> QED
    BY <2>1, <2>2
<1>2. answer' = NoAnswer /\ UNCHANGED <<agentVars, aaGlobalEnabled>>
  BY DEF SetAutoAttachStatus
<1> QED
  BY <1>1, <1>2, DiscMgmtVlanSetAgrees
-----------------------------------------------------------------------------
(* LLDP's own steps.                                                        *)
LEMMA HardwareCreateAgrees ==
    ASSUME Orderly, AgreeInv, PortsTyped', NEW p \in Port, NEW id \in SysId, HardwareCreate(p, id)
    PROVE  AgreeInv'
<1> DEFINE port == [ifindex |-> p, enabled |-> FALSE, notify |-> FALSE, sysId |-> id,
                    mgmtVlan |-> aa_element_mgmt_vlan]
           n == Len(hardware) + 1
<1>1. port \in LldpPort
  BY DEF AgreeInv, PortsTyped, LldpPort
<1>2. hardware' = Append(hardware, port)
  BY DEF HardwareCreate
<1>3. UNCHANGED <<aaPortsList, faServiceStatus, aaGlobalEnabled, vlanVars>> /\ Listed' = Listed
  BY DEF HardwareCreate, agentVars, Listed
<1>4. /\ port.ifindex = p /\ port.enabled = FALSE
      /\ port.mgmtVlan = aa_element_mgmt_vlan
  OBVIOUS
<1> HIDE DEF port
<1>5. /\ hardware' \in Seq(LldpPort)
      /\ DOMAIN hardware' = DOMAIN hardware \cup {n} /\ n \notin DOMAIN hardware
      /\ \A i \in DOMAIN hardware : hardware'[i] = hardware[i]
      /\ hardware'[n] = port
  BY <1>1, <1>2, AppendProperties DEF AgreeInv, PortsTyped
<1> HIDE DEF n
<1>6. \A i \in DOMAIN hardware : hardware[i].ifindex # p
  BY DEF HardwareCreate, Found
<1>7. p \notin Listed
  BY <1>6 DEF AgreeInv, Covered
<1>9. OncePerIfc'
  BY <1>4, <1>5, <1>6 DEF AgreeInv, OncePerIfc
<1>10. Covered'
  BY <1>3, <1>5 DEF AgreeInv, Covered
<1>11. CopyIsConfigured' /\ AnnouncedIsConfigured'
  BY <1>3, <1>4, <1>5 DEF AgreeInv, CopyIsConfigured, AnnouncedIsConfigured, vlanVars
<1>12. PortsAgree'
  BY <1>3, <1>4, <1>5, <1>7 DEF AgreeInv, PortsAgree
<1>13. AnswerIsTrue'
  BY NoAnswerIsTrue DEF HardwareCreate
<1> QED
  BY <1>9, <1>10, <1>11, <1>12, <1>13 DEF AgreeInv

LEMMA HardwareDeleteAgrees ==
    ASSUME Orderly, AgreeInv, PortsTyped', NEW p \in Port, HardwareDelete(p)
    PROVE  AgreeInv'
<1>1. PICK k \in DOMAIN hardware : hardware[k].ifindex = p
  BY DEF HardwareDelete, Found
<1>2. hardware' = RemoveAt(hardware, k)
  BY <1>1, FirstIsOnly DEF HardwareDelete, AgreeInv
<1>3. /\ UNCHANGED <<aaPortsList, faServiceStatus, aaGlobalEnabled, vlanVars>>
      /\ Listed' = Listed /\ p \notin Listed
  BY DEF HardwareDelete, agentVars, Listed
<1> DEFINE was(i) == IF i < k THEN i ELSE i + 1
<1>4. /\ hardware' \in Seq(LldpPort) /\ Len(hardware') = Len(hardware) - 1
      /\ \A i \in 1 .. Len(hardware) - 1 :
            hardware'[i] = IF i < k THEN hardware[i] ELSE hardware[i + 1]
  <2>1. hardware \in Seq(LldpPort) /\ k \in 1 .. Len(hardware)
    BY DEF AgreeInv, PortsTyped
  <2>2. /\ RemoveAt(hardware, k) \in Seq(LldpPort)
        /\ Len(RemoveAt(hardware, k)) = Len(hardware) - 1
        /\ \A i \in 1 .. Len(hardware) - 1 :
              RemoveAt(hardware, k)[i] = IF i < k THEN hardware[i] ELSE hardware[i + 1]
    BY <2>1, RemoveAtKeeps
  <2> QED
    BY <1>2, <2>2, Zenon
<1>5. \A i \in DOMAIN hardware' : was(i) \in DOMAIN hardware /\ hardware'[i] = hardware[was(i)]
  BY <1>4 DEF AgreeInv, PortsTyped
<1>6. \A i, m \in DOMAIN hardware' : was(i) = was(m) => i = m
  BY <1>4
<1>7. \A m \in DOMAIN hardware \ {k} : \E i \in DOMAIN hardware' : was(i) = m
  <2> TAKE m \in DOMAIN hardware \ {k}
  <2>1. CASE m < k
    <3>1. m \in DOMAIN hardware' /\ was(m) = m
      BY <2>1, <1>4 DEF AgreeInv, PortsTyped
    <3> QED
      BY <3>1
  <2>2. CASE m > k
    <3>1. m - 1 \in DOMAIN hardware' /\ was(m - 1) = m
      BY <2>2, <1>4 DEF AgreeInv, PortsTyped
    <3> QED
      BY <3>1
  <2> QED
    BY <2>1, <2>2 DEF AgreeInv, PortsTyped
<1> HIDE DEF was
<1>9. OncePerIfc'
  BY <1>5, <1>6 DEF AgreeInv, OncePerIfc
<1>10. Covered'
  <2> SUFFICES ASSUME NEW q \in Listed
               PROVE  \E i \in DOMAIN hardware' : hardware'[i].ifindex = q
    BY <1>3 DEF Covered
  <2>1. PICK m \in DOMAIN hardware : hardware[m].ifindex = q
    BY DEF AgreeInv, Covered
  <2>2. m # k
    BY <2>1, <1>1, <1>3
  <2> QED
    BY <2>1, <2>2, <1>5, <1>7
<1>11. CopyIsConfigured' /\ AnnouncedIsConfigured'
  BY <1>3, <1>5 DEF AgreeInv, CopyIsConfigured, AnnouncedIsConfigured, vlanVars
<1>12. PortsAgree'
  BY <1>3, <1>5 DEF AgreeInv, PortsAgree
<1>13. AnswerIsTrue'
  BY NoAnswerIsTrue DEF HardwareDelete
<1> QED
  BY <1>9, <1>10, <1>11, <1>12, <1>13 DEF AgreeInv

LEMMA PortDataGetAgrees ==
    ASSUME AgreeInv, PortsTyped', NEW p \in Port, PortDataGet(p)
    PROVE  AgreeInv'
<1>1. PICK k \in DOMAIN hardware : hardware[k].ifindex = p
  BY DEF PortDataGet, Found
<1>2. aa_element_mgmt_vlan' = hardware[k].mgmtVlan
  BY <1>1, FirstIsOnly DEF PortDataGet, AgreeInv
<1>3. hardware[k].mgmtVlan \in Word
  <2>1. hardware[k] \in LldpPort
    BY DEF AgreeInv, PortsTyped
  <2> QED
    BY <2>1 DEF LldpPort
<1>4. UNCHANGED <<aaPortsList, faServiceStatus, aaGlobalEnabled, hardware, faMgmtVlan>>
  BY DEF PortDataGet, agentVars
<1>5. PortsTyped' /\ OncePerIfc' /\ Covered'
  BY <1>2, <1>3, <1>4 DEF AgreeInv, PortsTyped, OncePerIfc, Covered, Listed
<1>6. CopyIsConfigured'
  BY <1>2, <1>4 DEF AgreeInv, AnnouncedIsConfigured, CopyIsConfigured
<1>7. AnnouncedIsConfigured' /\ PortsAgree'
  BY <1>4 DEF AgreeInv, AnnouncedIsConfigured, PortsAgree, Listed
<1> QED
  BY <1>5, <1>6, <1>7, NoAnswerIsTrue DEF AgreeInv, PortDataGet

LEMMA DeliveredAgrees ==
    ASSUME AgreeInv, PortsTyped', NEW k \in DOMAIN hardware, Delivered(k)
    PROVE  AgreeInv'
<1> DEFINE port == [hardware[k] EXCEPT !.notify = FALSE]
<1>1. hardware[k] \in LldpPort
  BY DEF AgreeInv, PortsTyped
<1>2. hardware' = [hardware EXCEPT ![k] = port]
  BY DEF Delivered
<1>3. /\ port \in LldpPort /\ port.ifindex = hardware[k].ifindex
      /\ port.sysId = hardware[k].sysId /\ port.enabled = hardware[k].enabled
      /\ port.mgmtVlan = hardware[k].mgmtVlan
  BY <1>1 DEF LldpPort
<1> HIDE DEF port
<1>4. /\ hardware' \in Seq(LldpPort) /\ DOMAIN hardware' = DOMAIN hardware
      /\ \A i \in DOMAIN hardware : hardware'[i] = IF i = k THEN port ELSE hardware[i]
  BY <1>2, <1>3 DEF AgreeInv, PortsTyped
<1>5. UNCHANGED <<aaPortsList, faServiceStatus, aaGlobalEnabled, vlanVars>>
  BY DEF Delivered, agentVars
<1>7. OncePerIfc' /\ Covered' /\ PortsAgree'
  BY <1>3, <1>4, <1>5, OtherFieldsOnly DEF AgreeInv, PortsAgree
<1>8. CopyIsConfigured' /\ AnnouncedIsConfigured'
  BY <1>3, <1>4, <1>5 DEF AgreeInv, CopyIsConfigured, AnnouncedIsConfigured, vlanVars
<1> QED
  BY <1>7, <1>8, NoAnswerIsTrue DEF AgreeInv, Delivered
-----------------------------------------------------------------------------
LEMMA AgreeInvStep == Orderly /\ AgreeInv /\ [Next]_vars => AgreeInv'
<1> SUFFICES ASSUME Orderly, AgreeInv, [Next]_vars PROVE AgreeInv'
  OBVIOUS
<1>1. PortsTyped'
  BY TypesStep DEF AgreeInv
<1>2. CASE Configuration
  BY <1>1, <1>2, PortCreateAgrees, PortDestroyAgrees, PortStateSetAgrees,
     PortSysIdCfgAgrees, SetFaPortStatusAgrees, SetServiceStatusAgrees,
     SetElementTypeAgrees, MgmtVlanCfgAgrees, SetAutoAttachStatusAgrees
     DEF Configuration
<1>3. CASE Lldp
  BY <1>1, <1>3, HardwareCreateAgrees, HardwareDeleteAgrees, PortDataGetAgrees,
     DeliveredAgrees DEF Lldp
<1>4. CASE UNCHANGED vars
  <2>1. UNCHANGED <<aaPortsList, hardware, answer, faMgmtVlan, aa_element_mgmt_vlan>>
    BY <1>4 DEF vars, agentVars, vlanVars
  <2>2. OncePerIfc' /\ Covered' /\ CopyIsConfigured'
    BY <2>1 DEF AgreeInv, OncePerIfc, Covered, CopyIsConfigured, Listed
  <2>3. PortsAgree' /\ AnnouncedIsConfigured'
    BY <2>1 DEF AgreeInv, PortsAgree, AnnouncedIsConfigured, Listed
  <2>4. AnswerIsTrue'
    BY <2>1 DEF AgreeInv, AnswerIsTrue, Done, Found, FirstOf, Listed
  <2> QED
    BY <1>1, <2>2, <2>3, <2>4 DEF AgreeInv
<1> QED
  BY <1>2, <1>3, <1>4 DEF Next

(* Counting changes nothing in the ports.                                   *)
THEOREM CountingIsAside == StatsSpec => Spec
<1>1. StatsInit => Init
  BY DEF StatsInit
<1>2. [StatsNext]_allVars => [Next]_vars
  BY DEF StatsNext, PortsChange, PortStatInc, PortStatsClr, GlblStatsClr, allVars, statsVars
<1> QED
  BY <1>1, <1>2, PTL DEF StatsSpec, Spec

(* Every variable has its type, whatever comes first.                       *)
THEOREM PortsTypes == Spec => []TypeOK
<1>1. PortsTyped /\ [Next]_vars => PortsTyped'
  BY TypesStep
<1> QED
  BY <1>1, TypesInitially, TypedIsTypeOK, PTL DEF Spec

(* The invariant of both.                                                   *)
THEOREM AgreeInvariance == ASSUME Orderly PROVE Spec => []AgreeInv
<1>1. AgreeInv /\ [Next]_vars => AgreeInv'
  BY AgreeInvStep
<1> QED
  BY <1>1, AgreeInvInitially, PTL DEF Spec

(* The agent's switch and LLDP's are set one after the other by each call,  *)
(* and no call leaves them different, in any order of calls.                *)
THEOREM SwitchesStayEqual == Spec => []SwitchesEqual
<1>1. Init => SwitchesEqual
  BY DEF Init, SwitchesEqual
<1>2. SwitchesEqual /\ [Next]_vars => SwitchesEqual'
  BY DEF SwitchesEqual, Next, vars, agentVars, Configuration, Lldp, PortCreate, PortDestroy,
         PortStateSet, PortSysIdCfg, SetFaPortStatus, SetServiceStatus, SetElementType,
         MgmtVlanCfg, SetAutoAttachStatus, HardwareCreate, HardwareDelete, PortDataGet,
         Delivered
<1> QED
  BY <1>1, <1>2, PTL DEF Spec

(* The agent and LLDP agree where Auto Attach is on and which system ID is  *)
(* advertised, in every state, when LLDP's ports outlive the agent's.       *)
THEOREM ViewsNeverDiffer == ASSUME Orderly PROVE StatsSpec => []ViewsAgree
<1>1. AgreeInv /\ SwitchesEqual => ViewsAgree
  BY DEF AgreeInv, PortsAgree, SwitchesEqual, ViewsAgree
<1> QED
  BY <1>1, AgreeInvariance, SwitchesStayEqual, CountingIsAside, PTL

(* A call on one port or on all of them that answers with success has had   *)
(* its effect in LLDP.                                                      *)
THEOREM AnswersAreTrue == ASSUME Orderly PROVE StatsSpec => []AnswerIsTrue
<1>1. AgreeInv => AnswerIsTrue
  BY DEF AgreeInv
<1> QED
  BY <1>1, AgreeInvariance, CountingIsAside, PTL

(* Every LLDP port announces the management VLAN that the agent shows,      *)
(* though a query writes to the copy from which new ports take it.          *)
THEOREM VlanIsAnnounced == ASSUME Orderly PROVE StatsSpec => []AnnouncedIsConfigured
<1>1. AgreeInv => AnnouncedIsConfigured
  BY DEF AgreeInv
<1> QED
  BY <1>1, AgreeInvariance, CountingIsAside, PTL
-----------------------------------------------------------------------------
(* The statistics, which are right in any order of calls.                   *)
StatsInv ==
    /\ IsFiniteSet(Listed)
    /\ stats \in [Listed -> 0 .. CounterWrap - 1]
    /\ aaGlobalStats \in 0 .. CounterWrap - 1 /\ uncounted \in 0 .. CounterWrap - 1
    /\ aaGlobalStats = (uncounted + SumOf(stats, Listed)) % CounterWrap

(* The sum that the property takes.                                         *)
LEMMA WhatIsSummed ==
    ASSUME StatsInv
    PROVE  GlobalIsSum <=>
              aaGlobalStats = (uncounted + SumOf(stats, Listed)) % CounterWrap
<1>1. stats = PortCounts
  BY DEF StatsInv, PortCounts, PortStatsGet
<1>2. MapThenSumSet(LAMBDA p : PortCounts[p], Listed) = SumOf(PortCounts, Listed)
  BY SumIsFold
<1> QED
  BY <1>1, <1>2 DEF GlobalIsSum, GlblStatsGet

LEMMA Summed == \A ports : Sum(ports) = SumOf(stats, ports)
<1> TAKE ports
<1>1. MapThenSumSet(LAMBDA p : stats[p], ports) = SumOf(stats, ports)
  BY SumIsFold
<1> QED
  BY <1>1 DEF Sum

(* A step adds one port of the agent, takes one away, or neither.           *)
LEMMA OneAtATime ==
    ASSUME Next
    PROVE  \/ Listed' = Listed
           \/ \E p : p \notin Listed /\ Listed' = Listed \cup {p}
           \/ \E p \in Listed : Listed' = Listed \ {p}
<1>1. ASSUME NEW p \in Port, PortCreate(p)
      PROVE  p \notin Listed /\ Listed' = Listed \cup {p}
  BY <1>1 DEF PortCreate, Listed
<1>2. ASSUME NEW p \in Port, PortDestroy(p)
      PROVE  p \in Listed /\ Listed' = Listed \ {p}
  BY <1>2 DEF PortDestroy, Listed, Restrict
<1>3. ASSUME NEW p \in Port, NEW ena \in BOOLEAN, PortStateSet(p, ena)
      PROVE  Listed' = Listed
  BY <1>3 DEF PortStateSet, Listed
<1>4. ASSUME NEW p \in Port, NEW id \in SysId, PortSysIdCfg(p, id)
      PROVE  Listed' = Listed
  BY <1>4 DEF PortSysIdCfg, Listed
<1>5. ASSUME NEW ena \in BOOLEAN, SetFaPortStatus(ena)
      PROVE  Listed' = Listed
  BY <1>5 DEF SetFaPortStatus, PortsStateSet, Listed
<1>6. CASE \/ \E enable \in BOOLEAN : SetServiceStatus(enable)
           \/ SetElementType
           \/ \E vlan \in MgmtVlan : MgmtVlanCfg(vlan)
           \/ \E status \in BOOLEAN : SetAutoAttachStatus(status)
           \/ Lldp
  BY <1>6 DEF SetServiceStatus, SetElementType, MgmtVlanCfg, SetAutoAttachStatus, Lldp,
     HardwareCreate, HardwareDelete, PortDataGet, Delivered, agentVars, Listed
<1> QED
  BY <1>1, <1>2, <1>3, <1>4, <1>5, <1>6 DEF Next, Configuration

(* Where one count changes, the sum changes by as much.                     *)
LEMMA OneCountChanges ==
    ASSUME NEW S, IsFiniteSet(S), NEW f \in [S -> Nat], NEW p \in S, NEW c \in Nat
    PROVE  /\ SumOf(f, S \ {p}) \in Nat /\ f[p] \in Nat
           /\ SumOf(f, S) = f[p] + SumOf(f, S \ {p})
           /\ SumOf([f EXCEPT ![p] = c], S) = c + SumOf(f, S \ {p})
<1> DEFINE e == [f EXCEPT ![p] = c]
           R == S \ {p}
<1>1. \A x \in S : e[x] \in Nat /\ (x # p => e[x] = f[x])
  OBVIOUS
<1>2. e[p] = c
  OBVIOUS
<1>3. IsFiniteSet(R) /\ \A x \in R : f[x] \in Nat /\ f[x] = e[x]
  BY <1>1, FS_Subset
<1> HIDE DEF e
<1>4. SumOf(f, S) = f[p] + SumOf(f, R) /\ SumOf(e, S) = e[p] + SumOf(e, R)
  BY <1>1, SumOfRemove
<1>5. SumOf(f, R) = SumOf(e, R) /\ SumOf(f, R) \in Nat
  BY <1>3, SumOfSame, SumOfType
<1> QED
  BY <1>2, <1>4, <1>5 DEF e

LEMMA CountsAreNumbers ==
    ASSUME StatsInv
    PROVE  /\ CounterWrap \in Nat \ {0} /\ uncounted \in Nat
           /\ stats \in [Listed -> Nat] /\ SumOf(stats, Listed) \in Nat
<1>1. CounterWrap \in Nat \ {0}
  BY StatisticsAssumption DEF StatisticsAssumption
<1>2. uncounted \in Nat /\ stats \in [Listed -> Nat]
  BY <1>1 DEF StatsInv
<1> QED
  BY <1>1, <1>2, SumOfType DEF StatsInv

LEMMA CountedOnce ==
    ASSUME StatsInv, NEW p \in Port, PortStatInc(p)
    PROVE  StatsInv'
<1> DEFINE W == CounterWrap
           c == stats[p]
           rest == SumOf(stats, Listed \ {p})
<1>1. p \in Listed /\ Listed' = Listed /\ uncounted' = uncounted
  BY DEF PortStatInc, vars, agentVars, Listed
<1>2. stats' = [stats EXCEPT ![p] = (c + 1) % W]
  BY DEF PortStatInc
<1>3. W \in Nat \ {0} /\ uncounted \in Nat /\ stats \in [Listed -> Nat]
  BY CountsAreNumbers
<1>4. c \in Nat
  BY <1>1, <1>3
<1>5. (c + 1) % W \in 0 .. W - 1
  <2>1. c + 1 \in Nat
    BY <1>4
  <2> QED
    BY <1>3, <2>1, Remainder, Zenon
<1> DEFINE d == (c + 1) % W
<1>6. /\ rest \in Nat /\ SumOf(stats, Listed) = c + rest
      /\ SumOf(stats', Listed) = d + rest
  <2>1. d \in Nat /\ stats' = [stats EXCEPT ![p] = d]
    BY <1>2, <1>3, <1>5
  <2>2. IsFiniteSet(Listed)
    BY DEF StatsInv
  <2> HIDE DEF d
  <2> QED
    BY <1>1, <1>3, <2>1, <2>2, OneCountChanges, ZenonT(60)
<1>7. stats' \in [Listed -> 0 .. W - 1]
  <2>1. d \in 0 .. W - 1 /\ stats' = [stats EXCEPT ![p] = d]
    BY <1>2, <1>5
  <2>2. stats \in [Listed -> 0 .. W - 1]
    BY DEF StatsInv
  <2> HIDE DEF d, W
  <2> QED
    BY <2>1, <2>2
<1>8. aaGlobalStats' = (((uncounted + (c + rest)) % W) + 1) % W
  BY <1>6 DEF PortStatInc, StatsInv
<1> HIDE DEF W, c, rest
<1>9. (((uncounted + (c + rest)) % W) + 1) % W = ((uncounted + (c + rest)) + 1) % W
  <2>1. uncounted + (c + rest) \in Nat
    BY <1>3, <1>4, <1>6
  <2> QED
    BY <1>3, <2>1, WrapEarly
<1>10. (((c + 1) % W) + (uncounted + rest)) % W = ((c + 1) + (uncounted + rest)) % W
  <2>1. c + 1 \in Nat /\ uncounted + rest \in Nat
    BY <1>3, <1>4, <1>6
  <2> QED
    BY <1>3, <2>1, WrapEarly
<1>11. aaGlobalStats' = (uncounted' + SumOf(stats', Listed')) % W
  <2>1. (uncounted + (c + rest)) + 1 = (c + 1) + (uncounted + rest)
    BY <1>3, <1>4, <1>6
  <2>2. uncounted + (((c + 1) % W) + rest) = ((c + 1) % W) + (uncounted + rest)
    BY <1>3, <1>4, <1>5, <1>6
  <2> QED
    BY <1>1, <1>6, <1>8, <1>9, <1>10, <2>1, <2>2
<1>12. aaGlobalStats' \in 0 .. W - 1
  <2>1. uncounted' + SumOf(stats', Listed') \in Nat
    BY <1>1, <1>3, <1>5, <1>6
  <2> QED
    BY <1>3, <1>11, <2>1, Remainder
<1> QED
  BY <1>1, <1>7, <1>11, <1>12 DEF StatsInv, W

LEMMA ClearedAtPort ==
    ASSUME StatsInv, NEW p \in Port, PortStatsClr(p)
    PROVE  StatsInv'
<1> DEFINE W == CounterWrap
           c == stats[p]
           rest == SumOf(stats, Listed \ {p})
<1>1. p \in Listed /\ Listed' = Listed /\ aaGlobalStats' = aaGlobalStats
  BY DEF PortStatsClr, vars, agentVars, Listed
<1>2. stats' = [stats EXCEPT ![p] = 0] /\ uncounted' = (uncounted + c) % W
  BY DEF PortStatsClr
<1>3. W \in Nat \ {0} /\ uncounted \in Nat /\ stats \in [Listed -> Nat]
  BY CountsAreNumbers
<1>4. /\ rest \in Nat /\ c \in Nat /\ SumOf(stats, Listed) = c + rest
      /\ SumOf(stats', Listed) = 0 + rest
  <2>1. PICK d \in Nat : d = 0
    OBVIOUS
  <2>2. IsFiniteSet(Listed) /\ stats' = [stats EXCEPT ![p] = d]
    BY <1>2, <2>1 DEF StatsInv
  <2>3. /\ rest \in Nat /\ c \in Nat /\ SumOf(stats, Listed) = c + rest
        /\ SumOf(stats', Listed) = d + rest
    BY <1>1, <1>3, <2>2, OneCountChanges, ZenonT(60)
  <2> QED
    BY <2>1, <2>3
<1>5. stats' \in [Listed -> 0 .. W - 1]
  <2>1. stats \in [Listed -> 0 .. W - 1]
    BY DEF StatsInv
  <2>2. 0 \in 0 .. W - 1
    BY <1>3
  <2> HIDE DEF W
  <2> QED
    BY <1>2, <2>1, <2>2
<1> HIDE DEF W, c, rest
<1>6. uncounted' \in 0 .. W - 1
  <2>1. uncounted + c \in Nat
    BY <1>3, <1>4
  <2> QED
    BY <1>2, <1>3, <2>1, Remainder
<1>7. (((uncounted + c) % W) + rest) % W = ((uncounted + c) + rest) % W
  <2>1. uncounted + c \in Nat
    BY <1>3, <1>4
  <2> QED
    BY <1>3, <1>4, <2>1, WrapEarly
<1>8. aaGlobalStats' = (uncounted' + SumOf(stats', Listed')) % W
  <2>1. (uncounted + c) + rest = uncounted + (c + rest)
    BY <1>3, <1>4
  <2>2. aaGlobalStats = (uncounted + (c + rest)) % W
    BY <1>4 DEF StatsInv, W
  <2> QED
    BY <1>1, <1>2, <1>4, <1>7, <2>1, <2>2
<1> QED
  BY <1>1, <1>5, <1>6, <1>8 DEF StatsInv, W

LEMMA ClearedGlobally ==
    ASSUME StatsInv, GlblStatsClr
    PROVE  StatsInv'
<1> DEFINE W == CounterWrap
           sum == SumOf(stats, Listed)
           r == sum % W
<1>1. Listed' = Listed /\ stats' = stats /\ aaGlobalStats' = 0
  BY DEF GlblStatsClr, vars, agentVars, Listed
<1>2. uncounted' = (W - r) % W
  BY Summed DEF GlblStatsClr
<1>3. W \in Nat \ {0} /\ sum \in Nat
  BY CountsAreNumbers
<1>4. r \in 0 .. W - 1
  BY <1>3, Remainder
<1>5. PICK q \in Nat : sum = r + q * W
  BY <1>3, Remainder
<1> HIDE DEF W, sum, r
<1>6. W - r \in Nat
  BY <1>3, <1>4
<1>7. uncounted' \in 0 .. W - 1
  BY <1>2, <1>3, <1>6, Remainder
<1>8. (uncounted' + sum) % W = ((W - r) + sum) % W
  BY <1>2, <1>3, <1>6, WrapEarly
<1>9. (W - r) + sum = 0 + (q + 1) * W
  <2>1. (q + 1) * W = q * W + W /\ q * W \in Nat
    BY <1>3, Z3
  <2> QED
    BY <1>3, <1>4, <1>5, <2>1
<1>10. (0 + (q + 1) * W) % W = 0
  BY <1>3, Digits
<1>11. aaGlobalStats' = (uncounted' + SumOf(stats', Listed')) % W
  BY <1>1, <1>8, <1>9, <1>10 DEF sum
<1> QED
  BY <1>1, <1>3, <1>7, <1>11 DEF StatsInv, W

LEMMA PortsComeAndGo ==
    ASSUME StatsInv, PortsChange
    PROVE  StatsInv'
<1> DEFINE W == CounterWrap
           sum == SumOf(stats, Listed)
           gone == Listed \ Listed'
<1>1. W \in Nat \ {0} /\ uncounted \in Nat /\ stats \in [Listed -> Nat] /\ sum \in Nat
  BY CountsAreNumbers
<1>2. /\ stats' = [p \in Listed' |-> IF p \in Listed THEN stats[p] ELSE 0]
      /\ uncounted' = (uncounted + SumOf(stats, gone)) % W
      /\ aaGlobalStats' = aaGlobalStats
  BY Summed DEF PortsChange
<1>3. IsFiniteSet(Listed')
  <2>1. \A p : IsFiniteSet(Listed \cup {p}) /\ IsFiniteSet(Listed \ {p})
    BY FS_AddElement, FS_RemoveElement DEF StatsInv
  <2> QED
    BY <2>1, OneAtATime DEF PortsChange, StatsInv
<1>4. stats' \in [Listed' -> 0 .. W - 1]
  BY <1>1, <1>2 DEF StatsInv
<1>5. \A x \in Listed : stats[x] \in Nat
  BY <1>1
<1>6. /\ SumOf(stats, gone) \in Nat /\ SumOf(stats', Listed') \in Nat
      /\ sum = SumOf(stats, gone) + SumOf(stats', Listed')
  <2>1. CASE Listed' = Listed
    <3>1. gone = {} /\ stats' = stats
      BY <2>1, <1>1, <1>2
    <3>2. SumOf(stats, {}) = 0
      BY SumOfStep, FS_EmptySet
    <3> QED
      BY <2>1, <1>1, <3>1, <3>2
  <2>2. CASE \E p : p \notin Listed /\ Listed' = Listed \cup {p}
    <3>1. PICK p : p \notin Listed /\ Listed' = Listed \cup {p}
      BY <2>2
    <3>2. gone = {} /\ SumOf(stats, {}) = 0
      BY <3>1, SumOfStep, FS_EmptySet
    <3>3. /\ stats'[p] = 0 /\ p \in Listed' /\ Listed' \ {p} = Listed
          /\ \A x \in Listed : stats[x] = stats'[x]
          /\ \A x \in Listed' : stats'[x] \in Nat
      BY <1>1, <1>2, <3>1
    <3>4. SumOf(stats', Listed') = stats'[p] + SumOf(stats', Listed)
      BY <1>3, <3>3, SumOfRemove
    <3>5. SumOf(stats', Listed) = sum
      BY <1>5, <3>3, SumOfSame DEF StatsInv
    <3>6. SumOf(stats, gone) = 0
      BY <3>2
    <3> HIDE DEF gone, sum
    <3>7. sum \in Nat
      BY <1>1
    <3> QED
      BY <3>3, <3>4, <3>5, <3>6, <3>7
  <2>3. CASE \E p \in Listed : Listed' = Listed \ {p}
    <3>1. PICK p \in Listed : Listed' = Listed \ {p}
      BY <2>3
    <3>2. gone = {p}
      BY <3>1
    <3>3. SumOf(stats, {p}) = stats[p]
      <4>1. SumOf(stats, {p}) = stats[p] + SumOf(stats, {p} \ {p})
        BY <1>5, FS_Singleton, SumOfRemove
      <4>2. {p} \ {p} = {} /\ SumOf(stats, {}) = 0
        BY SumOfStep, FS_EmptySet
      <4> QED
        BY <1>5, <4>1, <4>2
    <3>4. sum = stats[p] + SumOf(stats, Listed')
      BY <1>5, <3>1, SumOfRemove DEF StatsInv
    <3>5. \A x \in Listed' : stats[x] \in Nat /\ stats[x] = stats'[x]
      BY <1>2, <1>5, <3>1
    <3>6. SumOf(stats, Listed') = SumOf(stats', Listed') /\ SumOf(stats, Listed') \in Nat
      BY <1>3, <3>5, SumOfSame, SumOfType
    <3> QED
      BY <1>5, <3>1, <3>2, <3>3, <3>4, <3>6
  <2> QED
    BY <2>1, <2>2, <2>3, OneAtATime DEF PortsChange
<1> DEFINE lost == SumOf(stats, gone)
           left == SumOf(stats', Listed')
<1>7. aaGlobalStats = (uncounted + sum) % W
  BY DEF StatsInv
<1> HIDE DEF W, sum, lost, left
<1>8. uncounted' \in 0 .. W - 1
  <2>1. uncounted + lost \in Nat /\ uncounted' = (uncounted + lost) % W
    BY <1>1, <1>2, <1>6 DEF lost
  <2> QED
    BY <1>1, <2>1, Remainder
<1>9. (((uncounted + lost) % W) + left) % W = ((uncounted + lost) + left) % W
  <2>1. uncounted + lost \in Nat /\ left \in Nat
    BY <1>1, <1>6 DEF lost, left
  <2> QED
    BY <1>1, <2>1, WrapEarly
<1>10. (uncounted + lost) + left = uncounted + sum
  BY <1>1, <1>6 DEF lost, left
<1>11. aaGlobalStats' = (uncounted' + left) % W
  BY <1>2, <1>7, <1>9, <1>10 DEF lost
<1> QED
  BY <1>2, <1>3, <1>4, <1>8, <1>11 DEF StatsInv, W, left

(* The global count is the sum of the ports', once what was cleared or      *)
(* destroyed is set off, for any number of ports and any width of the       *)
(* counters.                                                                *)
LEMMA StatsInvariance == StatsSpec => []StatsInv
<1>1. StatsInit => StatsInv
  <2> SUFFICES ASSUME StatsInit PROVE StatsInv
    OBVIOUS
  <2>1. Listed = {} /\ stats \in [Listed -> 0 .. CounterWrap - 1]
    BY DEF StatsInit, Init, Listed
  <2>2. CounterWrap \in Nat \ {0}
    BY StatisticsAssumption DEF StatisticsAssumption
  <2>3. IsFiniteSet({}) /\ SumOf(stats, {}) = 0
    BY FS_EmptySet, SumOfStep
  <2>4. 0 % CounterWrap = 0 /\ 0 \in 0 .. CounterWrap - 1
    BY <2>2, Fits
  <2> QED
    BY <2>1, <2>3, <2>4 DEF StatsInit, StatsInv
<1>2. StatsInv /\ [StatsNext]_allVars => StatsInv'
  <2> SUFFICES ASSUME StatsInv, [StatsNext]_allVars PROVE StatsInv'
    OBVIOUS
  <2>1. CASE StatsNext
    BY <2>1, PortsComeAndGo, CountedOnce, ClearedAtPort, ClearedGlobally DEF StatsNext
  <2>2. CASE UNCHANGED allVars
    <3>1. Listed' = Listed /\ UNCHANGED statsVars
      BY <2>2 DEF allVars, vars, agentVars, Listed
    <3> QED
      BY <3>1 DEF StatsInv, statsVars
  <2> QED
    BY <2>1, <2>2
<1> QED
  BY <1>1, <1>2, PTL DEF StatsSpec

(* aaPortStatInc counts on the port and globally alike: the global count is *)
(* the sum of the ports', with what was cleared or destroyed set off, for   *)
(* every number of ports and every width of the counters.                   *)
THEOREM CountsAddUp == StatsSpec => []GlobalIsSum
<1>1. StatsInv => GlobalIsSum
  BY WhatIsSummed DEF StatsInv
<1> QED
  BY <1>1, StatsInvariance, PTL

(* Every variable has its type, whatever comes first.                       *)
THEOREM StatsTypes == StatsSpec => []StatsTypeOK
<1>1. TypeOK /\ StatsInv => StatsTypeOK
  BY DEF StatsInv, StatsTypeOK
<1> QED
  BY <1>1, PortsTypes, CountingIsAside, StatsInvariance, PTL
=============================================================================
