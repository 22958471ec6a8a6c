------------------------------- MODULE AAPorts -------------------------------
(***************************************************************************)
(* Ports are known twice: to the agent (aaPortsList, aa_port.c) and to the  *)
(* transport (cfg->g_hardware, aatrans_port_comm.c).  Each side creates and *)
(* deletes its own, and the agent passes on what is configured for a port   *)
(* only when the setting changes.  This module is about the two views: when *)
(* do they agree, and does the answer of a configuration call say so?       *)
(*                                                                         *)
(* Every API call holds the agent mutex, so each is one step.               *)
(***************************************************************************)
EXTENDS Naturals, Sequences, SequencesExt, Functions, FiniteSetsExt

CONSTANTS
    Port,           \* aasdk_port_id_t values
    SysId,          \* system IDs that are configured, none of them all zero
    MgmtVlan,       \* management VLANs that are configured
    MaxHardware,    \* bound on the number of LLDP ports
    Orderly         \* does the LLDP port outlive the agent's?

NoSysId == "zero"   \* what memset leaves in locSysId
NoAnswer == [call |-> "none"]
NoVlan == 0                 \* FA_AGENT_AA_VLAN_NOOP
Word == 0 .. 65535          \* a uint16_t

ASSUME PortsAssumption ==
    /\ MaxHardware \in Nat /\ Orderly \in BOOLEAN /\ NoSysId \notin SysId
    /\ MgmtVlan \subseteq Word \ {NoVlan}

VARIABLES
    aaPortsList,    \* the agent's ports: a function to [ena, locSysId]
    faServiceStatus,
    faElementType,  \* "unset" until it is configured
    aaGlobalEnabled,  \* cfg->g_aa_global_enabled
    hardware,       \* cfg->g_hardware, in order; an ifindex may occur twice
    answer,         \* what the last step answered, if it was a configuration
    faMgmtVlan,     \* the management VLAN that the agent shows
    faAutoAttachStatus,
    aa_element_mgmt_vlan    \* cfg_ext's copy of the VLAN, for LLDP ports to come

(* What the agent and the transport keep of a port. *)
AgentPort == [ena : BOOLEAN, locSysId : SysId \cup {NoSysId}]
LldpPort == [ifindex : Port, enabled : BOOLEAN, notify : BOOLEAN, sysId : SysId,
             mgmtVlan : Word]

agentVars == <<aaPortsList, faServiceStatus, faElementType>>
vlanVars == <<faMgmtVlan, faAutoAttachStatus, aa_element_mgmt_vlan>>
vars == <<agentVars, aaGlobalEnabled, hardware, answer, vlanVars>>

Listed == DOMAIN aaPortsList

Init ==
    /\ aaPortsList = << >>
    /\ faServiceStatus = FALSE
    /\ faElementType = "unset"
    /\ aaGlobalEnabled = FALSE
    /\ hardware = << >>
    /\ answer = NoAnswer
    /\ faMgmtVlan = NoVlan
    /\ faAutoAttachStatus = FALSE
    /\ aa_element_mgmt_vlan = NoVlan
-----------------------------------------------------------------------------
(* The loops of the transport stop at the first port with the ifindex.      *)
Found(p) == {i \in DOMAIN hardware : hardware[i].ifindex = p}
FirstOf(p) == Min(Found(p))

(* aatransi_port_data_ena_set *)
PortDataEnaSetRc(p) == IF Found(p) = {} THEN "EINVAL" ELSE "ENONE"

(* Broken: passed over while Auto Attach is off globally.                   *)
PortDataEnaSetIfGlobal(p, enable) ==
    hardware' =
        IF Found(p) = {} \/ ~aaGlobalEnabled
        THEN hardware
        ELSE [hardware EXCEPT ![FirstOf(p)].enabled = enable,
                              ![FirstOf(p)].notify = @ \/ enable]

PortDataEnaSet(p, enable) ==
    hardware' =
        IF Found(p) = {} \/ hardware[FirstOf(p)].enabled = enable
        THEN hardware
        ELSE [hardware EXCEPT ![FirstOf(p)].enabled = enable,
                              ![FirstOf(p)].notify = @ \/ (enable /\ aaGlobalEnabled)]

(* aatransi_disc_sys_id_set: every port with the ifindex, and no error      *)
(* where there is none.                                                     *)
DiscSysIdSet(p, id) ==
    hardware' = [i \in DOMAIN hardware |->
                   IF i \in Found(p) THEN [hardware[i] EXCEPT !.sysId = id]
                                     ELSE hardware[i]]
-----------------------------------------------------------------------------
(* aasdki_port_create *)
PortCreate(p) ==
    /\ p \notin Listed
    /\ Orderly => Found(p) # {}
    /\ aaPortsList' = [q \in Listed \cup {p} |->
           IF q = p THEN [ena |-> FALSE, locSysId |-> NoSysId] ELSE aaPortsList[q]]
    /\ answer' = NoAnswer
    /\ UNCHANGED <<faServiceStatus, faElementType, aaGlobalEnabled, hardware, vlanVars>>

(* aasdki_port_destroy tells the transport nothing. *)
PortDestroy(p) ==
    /\ p \in Listed
    /\ Orderly => ~aaPortsList[p].ena
    /\ aaPortsList' = Restrict(aaPortsList, Listed \ {p})
    /\ answer' = NoAnswer
    /\ UNCHANGED <<faServiceStatus, faElementType, aaGlobalEnabled, hardware, vlanVars>>

(* aasdki_port_aa_ena and aasdki_port_aa_dis.  The agent's own state is     *)
(* written first and stays whatever the transport answers.                  *)
PortStateSet(p, ena) ==
    /\ p \in Listed
    /\ IF aaPortsList[p].ena = ena
       THEN /\ UNCHANGED <<aaPortsList, hardware>>
            /\ answer' = [call |-> "state", port |-> p, to |-> ena, rc |-> "ENONE"]
       ELSE /\ aaPortsList' = [aaPortsList EXCEPT ![p].ena = ena]
            /\ PortDataEnaSet(p, ena)
            /\ answer' = [call |-> "state", port |-> p, to |-> ena,
                          rc |-> PortDataEnaSetRc(p)]
    /\ UNCHANGED <<faServiceStatus, faElementType, aaGlobalEnabled, vlanVars>>

(* aaPortsStateSet sets one port after the other, and goes on where LLDP    *)
(* does not know one.                                                       *)
PortsStateSet(ena) ==
    LET changed == {p \in Listed : aaPortsList[p].ena # ena}
        told == {FirstOf(p) : p \in {q \in changed : Found(q) # {}}}
    IN  /\ aaPortsList' = [p \in Listed |-> [aaPortsList[p] EXCEPT !.ena = ena]]
        /\ hardware' =
              [i \in DOMAIN hardware |->
                 IF i \in told /\ hardware[i].enabled # ena
                 THEN [hardware[i] EXCEPT !.enabled = ena,
                                          !.notify = @ \/ (ena /\ aaGlobalEnabled)]
                 ELSE hardware[i]]

(* faAgentSetFaPortStatus.  It answers what the last port of the list       *)
(* answered, which is any of them here.                                     *)
SetFaPortStatus(ena) ==
    /\ PortsStateSet(ena)
    /\ \E last \in Listed :
          answer' = [call |-> "states", to |-> ena,
                     rc |-> IF aaPortsList[last].ena = ena THEN "ENONE"
                            ELSE PortDataEnaSetRc(last)]
    /\ UNCHANGED <<faServiceStatus, faElementType, aaGlobalEnabled, vlanVars>>

(* Broken: copied before it is compared.                                    *)
PortSysIdCfgCopied(p, id) ==
    /\ p \in Listed
    /\ aaPortsList' = [aaPortsList EXCEPT ![p].locSysId = id]
    /\ answer' = [call |-> "sysid", port |-> p, to |-> id, rc |-> "ENONE"]
    /\ UNCHANGED <<faServiceStatus, faElementType, aaGlobalEnabled, hardware, vlanVars>>

(* aasdki_port_sys_id_cfg *)
PortSysIdCfg(p, id) ==
    /\ p \in Listed
    /\ aaPortsList' = [aaPortsList EXCEPT ![p].locSysId = id]
    /\ IF aaPortsList[p].locSysId = id THEN UNCHANGED hardware
                                       ELSE DiscSysIdSet(p, id)
    /\ answer' = [call |-> "sysid", port |-> p, to |-> id, rc |-> "ENONE"]
    /\ UNCHANGED <<faServiceStatus, faElementType, aaGlobalEnabled, vlanVars>>

(* Broken: on the wrong edge.                                               *)
NotifyAllOnDisable(enable) ==
    [i \in DOMAIN hardware |->
        [hardware[i] EXCEPT !.notify = @ \/ (~enable /\ hardware[i].enabled)]]

(* aatransi_ports_data_ena_set *)
NotifyAll(enable) ==
    [i \in DOMAIN hardware |->
        [hardware[i] EXCEPT !.notify = @ \/ (enable /\ hardware[i].enabled)]]

(* aasdki_global_ena and aasdki_global_dis: the transport first.            *)
SetServiceStatus(enable) ==
    /\ faServiceStatus' = enable
    /\ aaGlobalEnabled' = enable
    /\ hardware' = IF aaGlobalEnabled = enable THEN hardware ELSE NotifyAll(enable)
    /\ answer' = NoAnswer
    /\ UNCHANGED <<aaPortsList, faElementType, vlanVars>>

(* aasdki_elem_type_cfg disables the service around the change and enables  *)
(* it again.                                                                *)
SetElementType ==
    /\ faElementType = "unset"
    /\ faElementType' = "server"
    /\ hardware' = IF faServiceStatus THEN NotifyAll(TRUE) ELSE hardware
    /\ answer' = NoAnswer
    /\ UNCHANGED <<aaPortsList, faServiceStatus, aaGlobalEnabled, vlanVars>>

(* Broken: only ports to come are told.                                     *)
DiscMgmtVlanSetLater(vlan) ==
    /\ aa_element_mgmt_vlan' = vlan
    /\ hardware' = hardware

(* aatransi_disc_mgmt_vlan_set: the ports that are there get 12 bits of it. *)
DiscMgmtVlanSet(vlan) ==
    /\ aa_element_mgmt_vlan' = vlan
    /\ hardware' = [i \in DOMAIN hardware |->
                       [hardware[i] EXCEPT !.mgmtVlan = vlan % 4096]]

(* aasdki_elem_mgmt_vlan_cfg *)
MgmtVlanCfg(vlan) ==
    /\ faMgmtVlan' = vlan
    /\ DiscMgmtVlanSet(vlan)
    /\ answer' = NoAnswer
    /\ UNCHANGED <<agentVars, faAutoAttachStatus, aaGlobalEnabled>>

(* faAgentSetAutoAttachStatus: off, it clears the management VLAN; on, it   *)
(* passes on the one that has been configured meanwhile.                    *)
SetAutoAttachStatus(status) ==
    /\ faAutoAttachStatus # status
    /\ faAutoAttachStatus' = status
    /\ faMgmtVlan' = IF status THEN faMgmtVlan ELSE NoVlan
    /\ DiscMgmtVlanSet(faMgmtVlan')
    /\ answer' = NoAnswer
    /\ UNCHANGED <<agentVars, aaGlobalEnabled>>

(* Broken: the system ID is not copied.                                     *)
HardwareCreateUnset(p, id) ==
    /\ Len(hardware) < MaxHardware
    /\ Orderly => Found(p) = {}
    /\ hardware' = Append(hardware, [ifindex |-> p, enabled |-> FALSE,
                                     notify |-> FALSE, sysId |-> NoSysId,
                                     mgmtVlan |-> aa_element_mgmt_vlan])
    /\ answer' = NoAnswer
    /\ UNCHANGED <<agentVars, aaGlobalEnabled, vlanVars>>

(* aatransi_port_create: no check for an ifindex that exists already, and   *)
(* its call to notify the agent has no effect.                              *)
HardwareCreate(p, id) ==
    /\ Len(hardware) < MaxHardware
    /\ Orderly => Found(p) = {}
    /\ hardware' = Append(hardware, [ifindex |-> p, enabled |-> FALSE,
                                     notify |-> FALSE, sysId |-> id,
                                     mgmtVlan |-> aa_element_mgmt_vlan])
    /\ answer' = NoAnswer
    /\ UNCHANGED <<agentVars, aaGlobalEnabled, vlanVars>>

(* aatransi_port_data_get, a query, writes what it finds to cfg_ext.        *)
PortDataGet(p) ==
    /\ Found(p) # {}
    /\ aa_element_mgmt_vlan' = hardware[FirstOf(p)].mgmtVlan
    /\ answer' = NoAnswer
    /\ UNCHANGED <<agentVars, aaGlobalEnabled, hardware, faMgmtVlan, faAutoAttachStatus>>

(* aatransi_port_delete *)
HardwareDelete(p) ==
    /\ Found(p) # {}
    /\ Orderly => p \notin Listed
    /\ hardware' = RemoveAt(hardware, FirstOf(p))
    /\ answer' = NoAnswer
    /\ UNCHANGED <<agentVars, aaGlobalEnabled, vlanVars>>

(* lldpd delivers what it knows on a port that asks for it, if Auto Attach  *)
(* is on there.                                                             *)
Delivered(i) ==
    /\ hardware[i].notify /\ hardware[i].enabled /\ aaGlobalEnabled
    /\ hardware' = [hardware EXCEPT ![i].notify = FALSE]
    /\ answer' = NoAnswer
    /\ UNCHANGED <<agentVars, aaGlobalEnabled, vlanVars>>

Configuration ==
    \/ \E p \in Port : PortCreate(p) \/ PortDestroy(p)
    \/ \E p \in Port, ena \in BOOLEAN : PortStateSet(p, ena)
    \/ \E p \in Port, id \in SysId : PortSysIdCfg(p, id)
    \/ \E ena \in BOOLEAN : SetFaPortStatus(ena)
    \/ \E enable \in BOOLEAN : SetServiceStatus(enable)
    \/ SetElementType
    \/ \E vlan \in MgmtVlan : MgmtVlanCfg(vlan)
    \/ \E status \in BOOLEAN : SetAutoAttachStatus(status)

Lldp ==
    \/ \E p \in Port, id \in SysId : HardwareCreate(p, id)
    \/ \E p \in Port : HardwareDelete(p) \/ PortDataGet(p)
    \/ \E i \in DOMAIN hardware : Delivered(i)

Next == Configuration \/ Lldp

Spec == Init /\ [][Next]_vars
-----------------------------------------------------------------------------
(* Every variable has its type. *)
TypeOK ==
    /\ Listed \subseteq Port
    /\ \A p \in Listed : aaPortsList[p] \in AgentPort
    /\ faServiceStatus \in BOOLEAN /\ aaGlobalEnabled \in BOOLEAN
    /\ faElementType \in {"unset", "server"}
    /\ \A i \in DOMAIN hardware : hardware[i] \in LldpPort
    /\ Len(hardware) <= MaxHardware
    /\ faMgmtVlan \in MgmtVlan \cup {NoVlan} /\ faAutoAttachStatus \in BOOLEAN
    /\ aa_element_mgmt_vlan \in Word

(* The two views agree as long as each LLDP port outlives the agent's port  *)
(* and ports are disabled before they are destroyed: Auto Attach is on in   *)
(* LLDP exactly where the agent has it on, globally too, and the system ID  *)
(* that was configured is the one LLDP advertises.                          *)
ViewsAgree ==
    /\ aaGlobalEnabled = faServiceStatus
    /\ \A i \in DOMAIN hardware :
          LET p == hardware[i].ifindex
          IN  /\ hardware[i].enabled <=> (p \in Listed /\ aaPortsList[p].ena)
              /\ p \in Listed => aaPortsList[p].locSysId \in {NoSysId, hardware[i].sysId}

(* Every LLDP port announces the management VLAN that the agent's status    *)
(* shows, in the 12 bits of a VLAN, whether it was there when the VLAN was  *)
(* configured or came later, and although a query writes to the copy from   *)
(* which later ports get it.                                                *)
AnnouncedIsConfigured ==
    \A i \in DOMAIN hardware : hardware[i].mgmtVlan % 4096 = faMgmtVlan % 4096

(* A call that enables Auto Attach on a port and returns AA_SDK_ENONE has   *)
(* enabled it in LLDP, also if it repeats a call that failed before.        *)
EnabledIsEnabled ==
    (/\ answer # NoAnswer /\ answer.rc = "ENONE"
     /\ answer.call = "state" /\ answer.to) =>
        Found(answer.port) # {} /\ hardware[FirstOf(answer.port)].enabled

(* What the answer says of one port has happened. *)
Done(p) ==
    /\ Found(p) # {}
    /\ LET h == hardware[FirstOf(p)]
       IN  answer.to = IF answer.call = "sysid" THEN h.sysId ELSE h.enabled

(* Every such call and every configuration of a system ID tells the truth,  *)
(* also the one that enables or disables all ports and answers for the last *)
(* of them only.                                                            *)
AnswerIsTrue ==
    (answer # NoAnswer /\ answer.rc = "ENONE") =>
        \A p \in IF answer.call = "states" THEN Listed ELSE {answer.port} : Done(p)
=============================================================================
