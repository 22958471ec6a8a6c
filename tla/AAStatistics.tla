----------------------------- MODULE AAStatistics -----------------------------
(***************************************************************************)
(* The statistics of the ports, on top of AAPorts.  Every event is counted  *)
(* twice, for its port and globally, by aaPortStatInc under the agent mutex;*)
(* the two counts are read and cleared apart, and a port takes its count    *)
(* with it when it is destroyed.  All statistics are alike; this is one.    *)
(***************************************************************************)
EXTENDS AAPorts

CONSTANT CounterWrap    \* a counter is a uint32_t

ASSUME StatisticsAssumption == CounterWrap \in Nat \ {0}

VARIABLES
    stats,          \* by port of the agent
    aaGlobalStats,
    uncounted       \* history: what was cleared or destroyed at the ports
                    \* since the global count was cleared

statsVars == <<stats, aaGlobalStats, uncounted>>
allVars == <<vars, statsVars>>

Sum(ports) == MapThenSumSet(LAMBDA p : stats[p], ports)

StatsInit == Init /\ stats = << >> /\ aaGlobalStats = 0 /\ uncounted = 0
-----------------------------------------------------------------------------
(* The calls of AAPorts.  A port that is created again counts from zero.    *)
PortsChange ==
    /\ Next
    /\ stats' = [p \in Listed' |-> IF p \in Listed THEN stats[p] ELSE 0]
    /\ uncounted' = (uncounted + Sum(Listed \ Listed')) % CounterWrap
    /\ UNCHANGED aaGlobalStats

(* Broken: the global count does not wait for the port to be found.         *)
PortStatIncAlways(p) ==
    /\ stats' = IF p \in Listed
                THEN [stats EXCEPT ![p] = (@ + 1) % CounterWrap] ELSE stats
    /\ aaGlobalStats' = (aaGlobalStats + 1) % CounterWrap
    /\ UNCHANGED <<vars, uncounted>>

(* aaPortStatInc.  What happens on a port that was destroyed, such as the   *)
(* expiry of its assignments, is counted nowhere.                           *)
PortStatInc(p) ==
    /\ p \in Listed
    /\ stats' = [stats EXCEPT ![p] = (@ + 1) % CounterWrap]
    /\ aaGlobalStats' = (aaGlobalStats + 1) % CounterWrap
    /\ UNCHANGED <<vars, uncounted>>

(* aasdki_port_stats_clr *)
PortStatsClr(p) ==
    /\ p \in Listed
    /\ stats' = [stats EXCEPT ![p] = 0]
    /\ uncounted' = (uncounted + stats[p]) % CounterWrap
    /\ UNCHANGED <<vars, aaGlobalStats>>

(* aasdki_glbl_stats_clr clears no port. *)
GlblStatsClr ==
    /\ aaGlobalStats' = 0
    /\ uncounted' = (CounterWrap - (Sum(Listed) % CounterWrap)) % CounterWrap
    /\ UNCHANGED <<vars, stats>>

StatsNext ==
    \/ PortsChange
    \/ \E p \in Port : PortStatInc(p) \/ PortStatsClr(p)
    \/ GlblStatsClr

StatsSpec == StatsInit /\ [][StatsNext]_allVars

(* aasdki_port_stats_get and aasdki_glbl_stats_get; what the first answers  *)
(* for each port.                                                           *)
PortStatsGet(p) == [portId |-> p, count |-> stats[p]]
PortCounts == [p \in Listed |-> PortStatsGet(p).count]
GlblStatsGet == [portId |-> 0 - 1, count |-> aaGlobalStats]
-----------------------------------------------------------------------------
(* Every variable has its type. *)
StatsTypeOK ==
    /\ TypeOK
    /\ stats \in [Listed -> 0 .. CounterWrap - 1]
    /\ aaGlobalStats \in 0 .. CounterWrap - 1

(* The global count is what the ports count together, once what was cleared *)
(* or destroyed is set off, although ports come and go, either count can be *)
(* cleared alone, and all of them wrap.                                     *)
GlobalIsSum ==
    GlblStatsGet.count =
        (uncounted + MapThenSumSet(LAMBDA p : PortCounts[p], Listed))
            % CounterWrap
=============================================================================
