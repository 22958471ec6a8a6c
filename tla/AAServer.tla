------------------------------ MODULE AAServer ------------------------------
(***************************************************************************)
(* The Auto Attach server agent: the table of remote I-SID/VLAN assignments *)
(* and every operation that changes it or decides about it.                 *)
(*                                                                         *)
(* Each operation is one atomic step here.  The API entry points hold the   *)
(* (recursive) agent mutex from start to end, so among themselves they are. *)
(* The timer is not; AAServerThreads takes its steps apart.                 *)
(*                                                                         *)
(* Left out: the counters (faAgentStatsData, the port statistics), tracing, *)
(* the allocator's failure (it has the effect of a full table), the host    *)
(* and proxy roles (not compiled in: FA_AGENT_HOST_PROXY_SUPPORT).          *)
(***************************************************************************)
EXTENDS AAExpiry, FiniteSets

CONSTANTS
    Port,               \* interfaces (aasdk_port_id_t)
    Binding,            \* ifIndex/I-SID/VLAN triples, the keys of the table
    PortOf,             \* the ifIndex of a binding
    MaxRemote,          \* FA_AGENT_REM_MAX_ISID_VLAN_ASGNS (1000)
    DefaultExpiration,  \* FA_REMOTE_ISID_VLAN_ASGN_EXPIRATION (240)
    ImmediateDel,       \* FA_REMOTE_ISID_VLAN_ASGN_IMMEDIATE_DEL (10)
    Expirations,        \* values given to aasdki_glbl_rem_asgn_exp_cfg
    Requested,          \* statuses a neighbour puts in its TLV
    TickSteps           \* seconds between two calls of aasdki_time_tick

ASSUME ServerAssumption ==
    /\ IsFiniteSet(Binding)
    /\ PortOf \in [Binding -> Port]
    /\ MaxRemote \in Nat
    /\ ImmediateDel \in Time
    /\ Expirations \subseteq Time
    /\ DefaultExpiration \in Expirations
    /\ TickSteps \subseteq Time \ {0}
    /\ "none" \notin Requested

VARIABLES
    faServiceStatus,    \* is the service enabled?
    faElementType,      \* "unset" until the element type is configured
    faPorts,            \* the ports on which Auto Attach is enabled
    expiration,         \* faAgentRemoteIsidVlanAsgnExpiration
    currentTime,        \* prev.tv_sec of aasdk_time_comm.c
    status,             \* status of a table entry, "none" where there is none
    lastUpdated         \* its timestamp (0 where there is no entry)

tableVars  == <<status, lastUpdated>>
configVars == <<faServiceStatus, faElementType, faPorts, expiration>>
vars == <<configVars, currentTime, tableVars>>

Status == {"ACTIVE", "APP_INTERACTION"}

Held == {b \in Binding : status[b] # "none"}

ServiceEnabled == faServiceStatus
FullOffByOne == Cardinality(Held) > MaxRemote   \* broken: one too many
Full == Cardinality(Held) >= MaxRemote

(* faAgentInit: FA_AGT_init and faAgent_main_init reset everything. *)
Init ==
    /\ faServiceStatus = FALSE
    /\ faElementType = "unset"
    /\ faPorts = {}
    /\ expiration = DefaultExpiration
    /\ currentTime = 0
    /\ status = [b \in Binding |-> "none"]
    /\ lastUpdated = [b \in Binding |-> 0]
-----------------------------------------------------------------------------
(* Broken: maintenance only while the service is enabled, only on enabled   *)
(* ports, without regard to the limit, and not after a message.             *)
CollectedIfEnabled(times, scope, limit, now) ==
    {b \in scope : ServiceEnabled /\ Expired(times[b], limit, now)}

CollectedOnPorts(times, scope, limit, now) ==
    {b \in scope : PortOf[b] \in faPorts /\ Expired(times[b], limit, now)}

CollectedAtOnce(times, scope, limit, now) ==
    {b \in scope : times[b] # now}

CollectedByTimer(times, scope, limit, now) ==
    {b \in scope : limit # ImmediateDel /\ Expired(times[b], limit, now)}

(* The entries of a scope that a maintenance run collects and deletes. *)
Collected(times, scope, limit, now) ==
    {b \in scope : Expired(times[b], limit, now)}

(* A table without the entries of a set; the table is (sts, times) because  *)
(* the maintenance run after an update works on the updated one.            *)
StatusWithout(sts, gone) ==
    [b \in Binding |-> IF b \in gone THEN "none" ELSE sts[b]]
TimesWithout(times, gone) ==
    [b \in Binding |-> IF b \in gone THEN 0 ELSE times[b]]

(* faAgentPerformRemoteListMaintenance on the table (sts, times). *)
Maintain(sts, times, limit, scope, now) ==
    LET present == {b \in scope : sts[b] # "none"}
        gone    == Collected(times, present, limit, now)
    IN  /\ status' = StatusWithout(sts, gone)
        /\ lastUpdated' = TimesWithout(times, gone)

(* Broken: a failed acceptance leaves the entry pending; an ACTIVE entry is  *)
(* put to LLDP again.                                                       *)
DecidedLeftPending(b, request, accepted) ==
    IF status[b] = "ACTIVE" \/ status[b] = request
    THEN status[b]
    ELSE IF accepted THEN "ACTIVE" ELSE "PENDING"

DecidedAfresh(b, request, accepted) ==
    IF status[b] = request
    THEN status[b]
    ELSE IF accepted THEN "ACTIVE" ELSE "APP_INTERACTION"

(* faServerProcessRemoteElem.  An entry that is not ACTIVE is retried when  *)
(* the neighbour asks for anything but the status it has; LLDP accepting    *)
(* the answer (accepted) decides between ACTIVE and APP_INTERACTION.        *)
Decided(b, request, accepted) ==
    IF status[b] = "ACTIVE" \/ status[b] = request
    THEN status[b]
    ELSE IF accepted THEN "ACTIVE" ELSE "APP_INTERACTION"

(* Broken: the limit is checked before the search for the entry.            *)
AdmissibleIfRoom(b) == ~Full

(* faRemoteIsidVlanAsgnValidate: what an entry needs to be created. *)
Admissible(b) == b \in Held \/ ~Full

ScopeAll(p) == Binding         \* broken: the interface is not compared
Scope(p) == {b \in Binding : PortOf[b] = p}

Heeded(p) == ServiceEnabled /\ p \in faPorts /\ faElementType = "server"

(* aasdki_asgn_data_set for one binding of a received TLV: process it, then *)
(* clean up the interface with the immediate-delete limit.                  *)
ReceiveBinding(b, request, accepted) ==
    /\ Heeded(PortOf[b])
    /\ LET sts   == IF Admissible(b)
                    THEN [status EXCEPT ![b] = Decided(b, request, accepted)]
                    ELSE status
           times == IF Admissible(b)
                    THEN [lastUpdated EXCEPT ![b] = currentTime]
                    ELSE lastUpdated
       IN  Maintain(sts, times, ImmediateDel, Scope(PortOf[b]), currentTime)
    /\ UNCHANGED <<configVars, currentTime>>

(* The same call while the agent pays no attention. *)
IgnoreBinding(b) ==
    /\ ~Heeded(PortOf[b])
    /\ UNCHANGED vars

(* aasdki_time_tick, once at least a second has passed since the last       *)
(* LIST_MAINT_TIMER message: the clock moves and the list is maintained,    *)
(* whether the service is enabled or not.                                   *)
Tick(step) ==
    /\ currentTime' = Plus(currentTime, step)
    /\ IF faElementType = "server"
       THEN Maintain(status, lastUpdated, expiration, Binding, currentTime')
       ELSE UNCHANGED tableVars
    /\ UNCHANGED configVars
-----------------------------------------------------------------------------
(* aasdki_elem_type_cfg.  Only SERVER is accepted.  Disabling and enabling  *)
(* the service around the change has no effect on an unset element.         *)
ConfigureElement ==
    /\ faElementType' = "server"
    /\ UNCHANGED <<faServiceStatus, faPorts, expiration, currentTime, tableVars>>

(* aasdki_global_ena *)
EnableService ==
    /\ faServiceStatus' = TRUE
    /\ UNCHANGED <<faElementType, faPorts, expiration, currentTime, tableVars>>

(* aasdki_global_dis.  faServerAsgnReset rejects copies of the entries and  *)
(* faRemoteIsidVlanAsgnsClearAll is empty in this build, so the table stays. *)
DisableService ==
    /\ faServiceStatus' = FALSE
    /\ UNCHANGED <<faElementType, faPorts, expiration, currentTime, tableVars>>

(* aasdki_glbl_rem_asgn_exp_cfg stores what it is given. *)
ConfigureExpiration(e) ==
    /\ expiration' = e
    /\ UNCHANGED <<faServiceStatus, faElementType, faPorts, currentTime, tableVars>>

(* aaPortStateSet and aaPortDestroy, as far as faAgentPortFaEnabled sees    *)
(* them.  Neither touches the entries of the port.                          *)
EnablePort(p) ==
    /\ faPorts' = faPorts \cup {p}
    /\ UNCHANGED <<faServiceStatus, faElementType, expiration, currentTime, tableVars>>

DisablePort(p) ==
    /\ faPorts' = faPorts \ {p}
    /\ UNCHANGED <<faServiceStatus, faElementType, expiration, currentTime, tableVars>>

Receive ==
    \E b \in Binding, request \in Requested, accepted \in BOOLEAN :
        ReceiveBinding(b, request, accepted)

Ignore == \E b \in Binding : IgnoreBinding(b)

TimePasses == \E step \in TickSteps : Tick(step)

Configure ==
    \/ ConfigureElement
    \/ EnableService
    \/ DisableService
    \/ \E e \in Expirations : ConfigureExpiration(e)
    \/ \E p \in Port : EnablePort(p) \/ DisablePort(p)

Next == Receive \/ Ignore \/ TimePasses \/ Configure

Spec == Init /\ [][Next]_vars

(* The clock thread sleeps a second and ticks, for ever. *)
FairSpec == Spec /\ WF_vars(TimePasses)
-----------------------------------------------------------------------------
(* Every variable has its type. *)
TypeOK ==
    /\ faServiceStatus \in BOOLEAN
    /\ faElementType \in {"unset", "server"}
    /\ faPorts \subseteq Port
    /\ expiration \in Expirations
    /\ currentTime \in Time
    /\ status \in [Binding -> Status \cup {"none"}]
    /\ lastUpdated \in [Binding -> Time]

(* The table never outgrows FA_AGENT_REM_MAX_ISID_VLAN_ASGNS (the check of  *)
(* faRemoteIsidVlanAsgnValidate), whatever is refreshed, retried, created   *)
(* and dropped in one message.                                              *)
CapacityRespected == Cardinality(Held) <= MaxRemote

(* A tick leaves no entry behind that is as old as the configured term, or  *)
(* newer than the clock, whatever the wrap-around of the clock and of the   *)
(* sum did to the test.                                                     *)
TickLeavesNoExpired ==
    [][TimePasses =>
         \A b \in Binding : status'[b] # "none" =>
            /\ lastUpdated'[b] <= currentTime'
            /\ ~OldEnough(lastUpdated'[b], expiration, currentTime')]_vars

(* No entry carries a timestamp of the future, so the code's test for a     *)
(* wrapped clock fires only on a clock that wrapped.                        *)
NoFutureEntry == \A b \in Held : lastUpdated[b] <= currentTime

(* The binding that a message carries is never a victim of the clean-up     *)
(* that ends the same message, nor loses its place when the table is full:  *)
(* if it was in the table, or there was room, it is in the table afterwards *)
(* and fresh.  The last ImmediateDel seconds before the clock wraps are     *)
(* excluded: there the sum wraps and the binding is deleted at once.        *)
AdvertisedIsKept ==
    [][\A b \in Binding, request \in Requested, accepted \in BOOLEAN :
         (/\ ReceiveBinding(b, request, accepted)
          /\ b \in Held \/ Cardinality(Held) < MaxRemote
          /\ ImmediateDel > 0
          /\ currentTime + ImmediateDel < W)
         => status'[b] # "none" /\ lastUpdated'[b] = currentTime]_vars

(* Between ticks the table changes on one interface at a time, one on which *)
(* Auto Attach is enabled, and only while the service is: a message never   *)
(* reaches the entries of another interface, and a disabled service or port *)
(* leaves its entries to age.                                               *)
OneInterfaceAtATime ==
    [][\A b, c \in {x \in Binding : /\ currentTime' = currentTime
                                    /\ \/ status'[x] # status[x]
                                       \/ lastUpdated'[x] # lastUpdated[x]} :
         ServiceEnabled /\ PortOf[b] \in faPorts /\ PortOf[b] = PortOf[c]]_vars

(* Once ACTIVE, an assignment is never demoted: the only way out of ACTIVE  *)
(* is out of the table, whatever the neighbour advertises for it and        *)
(* whatever LLDP answers to other bindings.                                 *)
ActiveUntilDeleted ==
    [][\A b \in Binding :
         status[b] = "ACTIVE" => status'[b] \in {"ACTIVE", "none"}]_vars

(* An entry whose neighbour went silent leaves the table in the end, also   *)
(* if the service was disabled or its port destroyed meanwhile, and also    *)
(* under a term so large that the code's sum wraps.                         *)
SilentEntriesLeave ==
    \A b \in Binding : \A t \in Time :
        (b \in Held /\ lastUpdated[b] = t)
            ~> ~(b \in Held /\ lastUpdated[b] = t)

(* The table implements leases: see AsgnLease.                              *)
Lease == INSTANCE AsgnLease WITH
    SameIfc <- [b \in Binding |-> Scope(PortOf[b])],
    Grace   <- ImmediateDel,
    Terms   <- Expirations,
    granted <- [b \in Binding |-> IF status[b] = "none" THEN -1
                                                        ELSE lastUpdated[b]],
    term    <- expiration,
    clock   <- currentTime

(* Every behaviour of the table is a behaviour of the abstract leases: no   *)
(* entry is dropped before its time and none outlives it, over all          *)
(* interleavings of advertisements, ticks and configuration.                *)
ImplementsLease == Lease!LeaseSpec
=============================================================================
