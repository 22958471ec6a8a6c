----------------------------- MODULE AATransmit -----------------------------
(***************************************************************************)
(* Time and the frames it sends.  The clock thread measures time twice: for *)
(* the agent, which maintains its list every second, and for the transport, *)
(* which sends an LLDP frame on every port every tx_interval.  It walks the *)
(* list of LLDP ports (cfg->g_hardware) without any lock, while another     *)
(* thread creates and deletes ports and changes the interval, assignment by *)
(* assignment.  Memory may be short when a walk is due, and a frame may     *)
(* fail to be sent: then the walk ends where it is.                         *)
(*                                                                         *)
(* The list is the TAILQ of the code: a removed port is not freed and keeps *)
(* its link to the port that came after it.                                 *)
(***************************************************************************)
EXTENDS AATime, FiniteSets, Sequences, SequencesExt

CONSTANTS
    Tick,           \* the times by which the clock may advance between two ticks
    Interval, Hold, \* what tx_interval and the hold multiplier may be set to
    Port,           \* aasdk_port_id_t values
    Followed,       \* the ports whose neighbours are followed; they are all alike
    Node,           \* addresses of LLDP ports
    NULL,
    ClockWrap       \* bound: where the seconds of the clock start again

ASSUME TransmitAssumption ==
    /\ Tick \subseteq Timespec /\ Seconds(0) \notin Tick
    /\ Interval \subseteq Nat /\ Hold \subseteq Nat
    /\ IsFiniteSet(Node) /\ NULL \notin Node
    /\ Port # {} /\ Followed \subseteq Port
    /\ ClockWrap \in Nat \ {0}

VARIABLES
    prev, sum,      \* of aasdki_time_tick
    aatrans_sum, aatrans_wait,  \* of aatransi_time_tick, which has the same prev
    c_tx_interval, c_tx_hold, c_ttl,
    setting,        \* what the setter under way has assigned, or is to assign
    hardware,       \* the ports on the list, in order
    next,           \* the link of every node, on the list or removed from it
    ifindex,        \* of every node
    pc, at,         \* where the clock thread is, in aatransi_send_pdu
    since,          \* what really passed since the last message of each ticker
    lease,          \* how long the neighbour on a port will still know us
    present, reached  \* of the ports on the list when the walk began: those that
                    \* are still on it, and all those that got a frame

tickVars == <<prev, sum, aatrans_sum>>
configVars == <<aatrans_wait, c_tx_interval, c_tx_hold, c_ttl, setting>>
listVars == <<hardware, next, ifindex>>
walkVars == <<pc, at, present, reached>>
vars == <<tickVars, configVars, listVars, walkVars, since, lease>>

OnList == ToSet(hardware)
NoLease == 0 - 1      \* the neighbour on a port is not followed
NoLeases == [p \in Followed |-> NoLease]
AnyPort == CHOOSE p \in Port : TRUE

(* Between two walks nothing leads to the nodes that are not on the list;    *)
(* what they hold is cleared then, to have fewer states.                    *)
Kept(list, f, cleared) ==
    [n \in Node |-> IF n \in ToSet(list) THEN f[n] ELSE cleared]

(* aatransi_global_init, and no port yet. *)
Init ==
    /\ prev = Seconds(0) /\ sum = Seconds(0) /\ aatrans_sum = Seconds(0)
    /\ c_tx_interval \in Interval /\ c_tx_hold \in Hold
    /\ c_ttl = c_tx_interval * c_tx_hold
    /\ aatrans_wait = Seconds(c_tx_interval) /\ setting = "none"
    /\ hardware = << >>
    /\ next = [n \in Node |-> NULL]
    /\ ifindex = [n \in Node |-> AnyPort]
    /\ pc = "idle" /\ at = NULL /\ present = {} /\ reached = {}
    /\ since = [agent |-> 0, transport |-> 0]
    /\ lease = NoLeases
-----------------------------------------------------------------------------
(* The clock thread. *)

(* The neighbour on a port is promised to hear again within a time.         *)
Promised(p, time) == [q \in Followed |-> IF q = p THEN time ELSE lease[q]]

(* What both tickers do with the time since the last tick: the sum starts   *)
(* again from zero when the message is due.                                 *)
Due(old, delta, wait) == ~TimeLess(TimeAdd(old, delta), wait)

NewSum(old, delta, wait) ==
    IF Due(old, delta, wait) THEN Seconds(0) ELSE TimeAdd(old, delta)

(* aasdki_time_tick and aatransi_time_tick, called one after the other.  A   *)
(* frame that is due starts the walk of aatransi_send_pdu, unless there is   *)
(* no memory for its buffer.  The sum has started again by then: nothing is  *)
(* sent for an interval, and no neighbour is followed until it is.          *)
ClockTicks(d, memory) ==
    LET curr == TimeAdd(prev, d)
        delta == TimeSub(curr, prev)
        due == Due(aatrans_sum, delta, aatrans_wait)
        send == due /\ hardware # << >>
    IN  /\ pc = "idle" /\ (~memory => send)
        /\ prev' = [curr EXCEPT !.tv_sec = @ % ClockWrap]
        /\ sum' = NewSum(sum, delta, Seconds(1))
        /\ aatrans_sum' = NewSum(aatrans_sum, delta, aatrans_wait)
        /\ since' =
              [agent |-> IF Due(sum, delta, Seconds(1)) THEN 0
                         ELSE since.agent + Total(d),
               transport |-> IF due THEN 0 ELSE since.transport + Total(d)]
        /\ lease' = [p \in Followed |->
              IF lease[p] = NoLease \/ ~memory THEN NoLease
              ELSE IF lease[p] > Total(d) THEN lease[p] - Total(d) ELSE 0]
        /\ IF send /\ memory
           THEN /\ pc' = "compose"
                /\ at' = Head(hardware)
                /\ present' = OnList
                /\ reached' = {}
           ELSE UNCHANGED walkVars
        /\ UNCHANGED <<configVars, listVars>>

(* What is configured makes a frame good for two intervals or more.  No     *)
(* setter sees to it: they check no value.                                  *)
Lasting == setting = "none" /\ c_tx_interval >= 1 /\ c_tx_hold >= 2

(* aatransi_packet_compose looks for the port by its number; without one     *)
(* the frame that is sent has no bytes.                                     *)
Compose ==
    /\ pc = "compose"
    /\ pc' = "advance"
    /\ IF \E n \in OnList : ifindex[n] = ifindex[at]
       THEN /\ lease' = Promised(ifindex[at], IF Lasting THEN c_ttl * NSECS_PER_SEC
                                              ELSE NoLease)
            /\ reached' = reached \cup {at}
       ELSE UNCHANGED <<lease, reached>>
    /\ UNCHANGED <<tickVars, configVars, listVars, since, at, present>>

WalkEnds ==
    /\ pc' = "idle" /\ at' = NULL /\ present' = {} /\ reached' = {}
    /\ next' = Kept(hardware, next, NULL)
    /\ ifindex' = Kept(hardware, ifindex, AnyPort)

(* interfaces_send_helper, by which frames are sent with ENABLE_AASERVER     *)
(* unless the application has a way of its own, fails: aatransi_send_pdu    *)
(* returns, and the ports that were to come get no frame.  Their neighbours *)
(* are not followed until they do.                                          *)
SendFails ==
    /\ pc = "compose"
    /\ WalkEnds
    /\ lease' = [p \in Followed |->
          IF \E n \in present \ reached : ifindex[n] = p THEN NoLease ELSE lease[p]]
    /\ UNCHANGED <<tickVars, configVars, hardware, since>>

(* TAILQ_FOREACH goes on by the link of the node where it is, also if that   *)
(* node was removed meanwhile.                                              *)
Advance ==
    /\ pc = "advance"
    /\ IF next[at] = NULL
       THEN WalkEnds
       ELSE /\ pc' = "compose" /\ at' = next[at]
            /\ UNCHANGED <<present, reached, next, ifindex>>
    /\ UNCHANGED <<tickVars, configVars, hardware, since, lease>>

Clock ==
    \/ \E d \in Tick, memory \in BOOLEAN : ClockTicks(d, memory)
    \/ Compose \/ SendFails \/ Advance
-----------------------------------------------------------------------------
(* The other thread, which no lock keeps from the walk. *)

(* Nodes that are not freed are never allocated again; here they are, once   *)
(* nothing leads to them any more, so that the nodes suffice.               *)
Led == LET from[m \in 0 .. Cardinality(Node)] ==
             IF m = 0 THEN {at} \ {NULL}
             ELSE from[m - 1] \cup ({next[n] : n \in from[m - 1]} \ {NULL})
       IN  from[Cardinality(Node)]

Unused == Node \ (OnList \cup Led)

(* aatransi_port_create appends a port; the caller creates one only once.    *)
(* Which of the unused addresses it gets does not matter.                   *)
PortCreate(p) ==
    LET n == CHOOSE m \in Unused : TRUE
    IN  /\ setting = "none" /\ Unused # {} /\ \A m \in OnList : ifindex[m] # p
        /\ hardware' = Append(hardware, n)
        /\ next' = [m \in Node |-> IF m = n THEN NULL
                                   ELSE IF hardware # << >> /\ m = Last(hardware) THEN n
                                   ELSE next[m]]
        /\ ifindex' = [ifindex EXCEPT ![n] = p]
        /\ UNCHANGED <<tickVars, configVars, walkVars, since, lease>>

(* Broken: the link of the removed port is cleared, or the port freed.       *)
LinksWithoutCleared(n) ==
    [m \in Node |-> IF next[m] = n /\ m \in OnList THEN next[n]
                   ELSE IF m = n THEN NULL ELSE next[m]]

(* Broken: the removed port is linked to itself, as by removals that leave   *)
(* an empty list behind.                                                    *)
LinksWithoutSelf(n) ==
    [m \in Node |-> IF next[m] = n /\ m \in OnList THEN next[n]
                   ELSE IF m = n THEN n ELSE next[m]]

(* TAILQ_REMOVE leads around a port, and leaves its own link as it is.       *)
LinksWithout(n) ==
    [m \in Node |-> IF next[m] = n /\ m \in OnList THEN next[n] ELSE next[m]]

(* aatransi_port_delete says no farewell to the neighbour.  What it tells    *)
(* the agent belongs to AADiscovery.                                        *)
PortDelete(i) ==
    LET n == hardware[i]
    IN  /\ setting = "none"
        /\ hardware' = RemoveAt(hardware, i)
        /\ next' = IF pc = "idle" THEN Kept(hardware', LinksWithout(n), NULL)
                                   ELSE LinksWithout(n)
        /\ ifindex' = IF pc = "idle" THEN Kept(hardware', ifindex, AnyPort) ELSE ifindex
        /\ present' = present \ {n}
        /\ lease' = Promised(ifindex[n], NoLease)
        /\ UNCHANGED <<tickVars, configVars, pc, at, reached, since>>

(* aatransi_tx_interval_set, the first of its three assignments.            *)
TxIntervalSet(value) ==
    /\ setting = "none" /\ value # c_tx_interval
    /\ c_tx_interval' = value
    /\ setting' = "interval"
    /\ UNCHANGED <<tickVars, listVars, walkVars, since, lease, aatrans_wait,
                   c_tx_hold, c_ttl>>

(* aatransi_tx_hold_multiplier_set, the first of its two.                   *)
TxHoldMultiplierSet(value) ==
    /\ setting = "none" /\ value # c_tx_hold
    /\ c_tx_hold' = value
    /\ setting' = "hold"
    /\ UNCHANGED <<tickVars, listVars, walkVars, since, lease, aatrans_wait,
                   c_tx_interval, c_ttl>>

(* The second assignment of both.                                           *)
TtlSet ==
    /\ setting \in {"interval", "hold"}
    /\ c_ttl' = c_tx_interval * c_tx_hold
    /\ setting' = IF setting = "interval" THEN "wait" ELSE "none"
    /\ UNCHANGED <<tickVars, listVars, walkVars, since, lease, aatrans_wait,
                   c_tx_interval, c_tx_hold>>

(* Broken: the ticker is not told.                                          *)
WaitSetNever ==
    /\ setting = "wait"
    /\ setting' = "none"
    /\ lease' = IF c_tx_interval > aatrans_wait.tv_sec THEN NoLeases ELSE lease
    /\ UNCHANGED <<tickVars, listVars, walkVars, since, aatrans_wait, c_tx_interval,
                   c_tx_hold, c_ttl>>

(* The third, in aatransi_time_interval_set.  A longer interval voids what  *)
(* the frames before it promised: no frame tells the neighbours of it.      *)
WaitSet ==
    /\ setting = "wait"
    /\ aatrans_wait' = Seconds(c_tx_interval)
    /\ setting' = "none"
    /\ lease' = IF c_tx_interval > aatrans_wait.tv_sec THEN NoLeases ELSE lease
    /\ UNCHANGED <<tickVars, listVars, walkVars, since, c_tx_interval, c_tx_hold,
                   c_ttl>>

Configuration ==
    \/ \E p \in Port : PortCreate(p)
    \/ \E i \in DOMAIN hardware : PortDelete(i)
    \/ \E value \in Interval : TxIntervalSet(value)
    \/ \E value \in Hold : TxHoldMultiplierSet(value)
    \/ TtlSet \/ WaitSet

Next == Clock \/ Configuration

Spec == Init /\ [][Next]_vars

(* The clock thread is a loop that never ends and never waits for the other. *)
FairSpec == Spec /\ WF_vars(Clock)
-----------------------------------------------------------------------------
(* Every variable has its type. *)
TypeOK ==
    /\ {prev, sum, aatrans_sum, aatrans_wait} \subseteq Timespec
    /\ c_tx_interval \in Interval /\ c_tx_hold \in Hold /\ c_ttl \in Nat
    /\ setting \in {"none", "interval", "hold", "wait"}
    /\ OnList \subseteq Node
    /\ next \in [Node -> Node \cup {NULL}]
    /\ ifindex \in [Node -> Port]
    /\ pc \in {"idle", "compose", "advance"}
    /\ at \in Node \cup {NULL}
    /\ since \in [agent : Nat, transport : Nat]
    /\ lease \in [Followed -> Nat \cup {NoLease}]
    /\ present \subseteq Node /\ reached \subseteq Node

(* Both tickers measure exactly what passed since their last message, though *)
(* they carry and borrow parts of seconds, and the clock and the interval    *)
(* change; and the agent's list never goes a full second unmaintained.       *)
SumIsElapsed ==
    /\ Total(sum) = since.agent /\ since.agent < NSECS_PER_SEC
    /\ Total(aatrans_sum) = since.transport

(* No neighbour forgets us: a frame arrives before the time to live of the  *)
(* one before it is over.  Followed is each neighbour from a frame that     *)
(* announces two intervals or more until the port is deleted, the interval  *)
(* made longer, or a walk fails before the port.                            *)
NeighboursKeepUs == \A p \in Followed : lease[p] # 0

(* A walk in which nothing fails gives a frame to every port that was on    *)
(* the list when it began and still is when it ends, whatever was created   *)
(* and deleted meanwhile, also the port where the walk was.                 *)
WalkReachesAll ==
    [][(pc = "advance" /\ pc' = "idle") => present \subseteq reached]_vars

(* "Run through all active ports within the box and for each port that has  *)
(* LLDP enabled, compose an LLDPDU packet and send it out on that port", as *)
(* aatransi_send_pdu says of itself: a walk that has begun tries every port *)
(* that stays on the list, whichever of them fail.                          *)
NoPortLeftOut ==
    [][(pc # "idle" /\ pc' = "idle") => present \ {at} \subseteq reached]_vars

(* A walk that does not get to all ports, or not even begins.               *)
CutShort == SendFails \/ \E d \in Tick : ClockTicks(d, FALSE)

(* Once the list of ports is left alone and nothing fails, every port on it *)
(* is sent frames for ever, even if the interval is changed again and again.*)
AdvertisedForever ==
    <>[][UNCHANGED hardware /\ ~CutShort]_vars =>
        \A p \in Port :
            []<>(p \in {ifindex[n] : n \in reached} \/ p \notin {ifindex[n] : n \in OnList})
=============================================================================
