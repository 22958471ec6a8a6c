--------------------------- MODULE AAServerThreads ---------------------------
(***************************************************************************)
(* The agent's two threads.  The one that receives LLDP frames and makes    *)
(* the API calls holds the agent mutex throughout a call.  The clock thread *)
(* moves the clock and looks at the table without it, takes it to scan the  *)
(* table, lets go of it, and then takes it once for each deletion.  Both    *)
(* pass what is to be deleted through the same static array,                *)
(* faRemIsidVlanAsgnList.                                                   *)
(*                                                                         *)
(* The element is a configured server, all its ports are enabled and the    *)
(* term is fixed: AAServer varies these.                                    *)
(***************************************************************************)
EXTENDS AAExpiry, FiniteSets

CONSTANTS
    Binding,            \* table keys, numbered in the order of the list
    PortOf,             \* the ifIndex of a binding
    ActualIfc,          \* ports with FA_AGENT_ACTUAL_IFC (1..9999)
    MaxRemote,          \* FA_AGENT_REM_MAX_ISID_VLAN_ASGNS
    Expiration,         \* faAgentRemoteIsidVlanAsgnExpiration
    ImmediateDel        \* FA_REMOTE_ISID_VLAN_ASGN_IMMEDIATE_DEL

ASSUME ThreadsAssumption ==
    /\ Binding \subseteq Nat \ {0} /\ IsFiniteSet(Binding)
    /\ Expiration \in Time /\ ImmediateDel \in Time
    /\ MaxRemote \in Nat

VARIABLES
    faServiceStatus,
    currentTime,        \* prev.tv_sec, written by the clock thread unlocked
    status, lastUpdated,            \* the table, as in AAServer
    faRemIsidVlanAsgnList,          \* the scratch array both threads use
    clockPc,            \* where the clock thread is
    elemCount, i,       \* its locals in the deletion loop
    apiPc,              \* Free (as the mutex is), or the binding in process
    stamp,              \* lastUpdated of an entry that is not linked yet
    foundEmpty,         \* history: was the table empty when the call began?
    overlapped          \* history: was there an API call since the scan?

clockVars == <<clockPc, elemCount, i>>
apiVars == <<apiPc, stamp, foundEmpty>>
tableVars == <<status, lastUpdated>>
vars == <<faServiceStatus, currentTime, tableVars, faRemIsidVlanAsgnList,
          clockVars, apiVars, overlapped>>

Free == 0        \* no binding: an unused cell, or no binding in process
Nowhere == -1    \* a copy with interface zero (AARemovals), the key of no entry
NoStamp == -1    \* no entry is on its way into the table
Cells == 1 .. Cardinality(Binding)
Status == {"ACTIVE", "REJECTED", "APP_INTERACTION"}

Held == {b \in Binding : status[b] # "none"}
MutexFree == apiPc = Free

Init ==
    /\ faServiceStatus = TRUE
    /\ currentTime = 0
    /\ status = [b \in Binding |-> "none"]
    /\ lastUpdated = [b \in Binding |-> 0]
    /\ faRemIsidVlanAsgnList = [c \in Cells |-> Free]
    /\ clockPc = "asleep" /\ elemCount = 0 /\ i = 0
    /\ apiPc = Free /\ stamp = NoStamp /\ foundEmpty = FALSE
    /\ overlapped = FALSE
-----------------------------------------------------------------------------
(* The scan meets the entries in the order of the list. *)
InOrder(entries) ==
    CHOOSE copies \in [1 .. Cardinality(entries) -> entries] :
        \A c, d \in DOMAIN copies : c < d => copies[c] < copies[d]

(* Broken: the rest of the array is cleared.                                *)
StoredCleared(entries) ==
    [c \in Cells |-> IF c <= Cardinality(entries) THEN InOrder(entries)[c]
                     ELSE Free]

(* Copies of entries, in table order, over the first cells of the array. *)
Stored(entries) ==
    [c \in Cells |-> IF c <= Cardinality(entries) THEN InOrder(entries)[c]
                     ELSE faRemIsidVlanAsgnList[c]]

(* Broken: a second too early.                                              *)
ExpiredInEarly(scope, limit) ==
    {b \in scope \cap Held : Expired(lastUpdated[b], limit - 1, currentTime)}

ExpiredIn(scope, limit) ==
    {b \in scope \cap Held : Expired(lastUpdated[b], limit, currentTime)}

(* faRemoteIsidVlanAsgnDelete goes by the key of the copy, not by its age. *)
Delete(keys) ==
    /\ status' = [b \in Binding |-> IF b \in keys THEN "none" ELSE status[b]]
    /\ lastUpdated' = [b \in Binding |-> IF b \in keys THEN 0 ELSE lastUpdated[b]]

(* faServerAsgnRejectionProcessing gives up on actual interfaces. *)
Rejected(b) == PortOf[b] \notin ActualIfc
-----------------------------------------------------------------------------
(* aasdki_time_tick: the clock is written without the mutex. *)
ClockTick ==
    /\ clockPc = "asleep"
    /\ currentTime' = Plus(currentTime, 1)
    /\ clockPc' = "check"
    /\ UNCHANGED <<faServiceStatus, tableVars, faRemIsidVlanAsgnList,
                   elemCount, i, apiVars, overlapped>>

(* Broken: the run is skipped if the mutex is taken.                        *)
ClockCheckTryLock ==
    /\ clockPc = "check"
    /\ clockPc' = IF Held = {} \/ ~MutexFree THEN "asleep" ELSE "scan"
    /\ UNCHANGED <<faServiceStatus, currentTime, tableVars,
                   faRemIsidVlanAsgnList, elemCount, i, apiVars, overlapped>>

(* faAgentPerformRemoteListMaintenance returns on an empty list, which it   *)
(* looks at before it takes the mutex.                                      *)
ClockCheck ==
    /\ clockPc = "check"
    /\ clockPc' = IF Held = {} THEN "asleep" ELSE "scan"
    /\ UNCHANGED <<faServiceStatus, currentTime, tableVars,
                   faRemIsidVlanAsgnList, elemCount, i, apiVars, overlapped>>

(* Its scan, under the mutex. *)
ClockScan ==
    /\ clockPc = "scan" /\ MutexFree
    /\ LET found == ExpiredIn(Binding, Expiration)
       IN  /\ faRemIsidVlanAsgnList' = Stored(found)
           /\ status' = [b \in Binding |-> IF b \in found /\ Rejected(b)
                                           THEN "REJECTED" ELSE status[b]]
           /\ elemCount' = Cardinality(found)
    /\ i' = 1
    /\ clockPc' = "delete"
    /\ overlapped' = FALSE
    /\ UNCHANGED <<faServiceStatus, currentTime, lastUpdated, apiVars>>

(* One turn of its deletion loop; each takes the mutex for itself. *)
ClockDelete ==
    /\ clockPc = "delete" /\ i <= elemCount /\ MutexFree
    /\ Delete({faRemIsidVlanAsgnList[i]})
    /\ i' = i + 1
    /\ UNCHANGED <<faServiceStatus, currentTime, faRemIsidVlanAsgnList, clockPc,
                   elemCount, apiVars, overlapped>>

(* Broken: the loop ends before its last turn.                              *)
ClockDoneEarly ==
    /\ clockPc = "delete" /\ i >= elemCount
    /\ clockPc' = "asleep"
    /\ elemCount' = 0 /\ i' = 0
    /\ UNCHANGED <<faServiceStatus, currentTime, tableVars,
                   faRemIsidVlanAsgnList, apiVars, overlapped>>

ClockDone ==
    /\ clockPc = "delete" /\ i > elemCount
    /\ clockPc' = "asleep"
    /\ elemCount' = 0 /\ i' = 0
    /\ UNCHANGED <<faServiceStatus, currentTime, tableVars,
                   faRemIsidVlanAsgnList, apiVars, overlapped>>

Clock == ClockTick \/ ClockCheck \/ ClockScan \/ ClockDelete \/ ClockDone
-----------------------------------------------------------------------------
(* aasdki_asgn_data_set takes the mutex and looks for the binding.  An       *)
(* entry of the table is refreshed; a new one is stamped, and not linked    *)
(* yet; at the limit there is nothing to link.                              *)
ApiProcess(b, request, accepted) ==
    /\ MutexFree /\ faServiceStatus
    /\ IF b \in Held
       THEN /\ status' = [status EXCEPT ![b] =
                   IF @ \in {"ACTIVE", request} THEN @
                   ELSE IF accepted THEN "ACTIVE" ELSE "APP_INTERACTION"]
            /\ lastUpdated' = [lastUpdated EXCEPT ![b] = currentTime]
       ELSE UNCHANGED tableVars
    /\ stamp' = IF b \notin Held /\ Cardinality(Held) < MaxRemote
                THEN currentTime ELSE NoStamp
    /\ apiPc' = b
    /\ foundEmpty' = (Held = {})
    /\ overlapped' = TRUE
    /\ UNCHANGED <<faServiceStatus, currentTime, faRemIsidVlanAsgnList, clockVars>>

(* faRemoteIsidVlanAsgnAdd: only now is the entry in the table, and counted.*)
(* Until then the clock thread, which looks without the mutex, finds a      *)
(* table that was empty to be so still.                                     *)
ApiLink(accepted) ==
    /\ ~MutexFree /\ stamp # NoStamp
    /\ status' = [status EXCEPT ![apiPc] =
                     IF accepted THEN "ACTIVE" ELSE "APP_INTERACTION"]
    /\ lastUpdated' = [lastUpdated EXCEPT ![apiPc] = stamp]
    /\ stamp' = NoStamp
    /\ UNCHANGED <<faServiceStatus, currentTime, faRemIsidVlanAsgnList, clockVars,
                   apiPc, foundEmpty, overlapped>>

(* Broken: nothing to clean up, and the mutex is not released.              *)
ApiCleanUpLocked ==
    /\ ~MutexFree /\ stamp = NoStamp
    /\ LET scope == {b \in Binding : PortOf[b] = PortOf[apiPc]}
           found == ExpiredIn(scope, ImmediateDel)
       IN  /\ faRemIsidVlanAsgnList' = Stored(found)
           /\ Delete(found)
           /\ apiPc' = IF found = {} THEN apiPc ELSE Free
    /\ UNCHANGED <<faServiceStatus, currentTime, clockVars, stamp, foundEmpty,
                   overlapped>>

(* ... and, still holding it, cleans the interface up, by the time it is    *)
(* then.                                                                    *)
ApiCleanUp ==
    /\ ~MutexFree /\ stamp = NoStamp
    /\ LET scope == {b \in Binding : PortOf[b] = PortOf[apiPc]}
           found == ExpiredIn(scope, ImmediateDel)
       IN  /\ faRemIsidVlanAsgnList' = Stored(found)
           /\ Delete(found)
    /\ apiPc' = Free /\ foundEmpty' = FALSE
    /\ UNCHANGED <<faServiceStatus, currentTime, clockVars, stamp, overlapped>>

(* aasdki_global_dis: faServerAsgnReset stores the ACTIVE entries in the    *)
(* array and rejects the copies; the table keeps them all.                  *)
ApiDisable ==
    /\ MutexFree /\ faServiceStatus
    /\ faServiceStatus' = FALSE
    /\ faRemIsidVlanAsgnList' = Stored({b \in Held : status[b] = "ACTIVE"})
    /\ overlapped' = TRUE
    /\ UNCHANGED <<currentTime, tableVars, clockVars, apiVars>>

(* aasdki_global_ena *)
ApiEnable ==
    /\ MutexFree /\ ~faServiceStatus
    /\ faServiceStatus' = TRUE
    /\ overlapped' = TRUE
    /\ UNCHANGED <<currentTime, tableVars, faRemIsidVlanAsgnList, clockVars, apiVars>>

Api ==
    \/ \E b \in Binding, request \in {"PENDING", "APP_INTERACTION"},
          accepted \in BOOLEAN : ApiProcess(b, request, accepted)
    \/ \E accepted \in BOOLEAN : ApiLink(accepted)
    \/ ApiCleanUp
    \/ ApiDisable
    \/ ApiEnable

Next == Clock \/ Api

Spec == Init /\ [][Next]_vars

(* Neither thread stops.  The mutex promises no fairness of its own, but    *)
(* the API thread waits for frames between calls (30 s apart), so a clock   *)
(* thread that finds the mutex free again and again gets it.                *)
Fairness ==
    /\ WF_vars(\E accepted \in BOOLEAN : ApiLink(accepted)) /\ WF_vars(ApiCleanUp)
    /\ WF_vars(ClockTick) /\ WF_vars(ClockCheck) /\ WF_vars(ClockDone)
    /\ SF_vars(ClockScan) /\ SF_vars(ClockDelete)
-----------------------------------------------------------------------------
(* Every variable has its type. *)
TypeOK ==
    /\ faServiceStatus \in BOOLEAN
    /\ currentTime \in Time
    /\ status \in [Binding -> Status \cup {"none"}]
    /\ lastUpdated \in [Binding -> Time]
    /\ faRemIsidVlanAsgnList \in [Cells -> Binding \cup {Free, Nowhere}]
    /\ clockPc \in {"asleep", "check", "scan", "delete"}
    /\ elemCount \in 0 .. Cardinality(Binding)
    /\ i \in 0 .. Cardinality(Binding) + 1
    /\ apiPc \in Binding \cup {Free}
    /\ stamp \in Time \cup {NoStamp} /\ foundEmpty \in BOOLEAN

(* The deletion loop of the clock thread only reads cells that were         *)
(* written, whoever wrote them last.                                        *)
LoopReadsCopies ==
    clockPc = "delete" =>
        \A c \in i .. elemCount : faRemIsidVlanAsgnList[c] # Free

(* While an API call holds the mutex, and the table was not empty when it   *)
(* began, the clock can advance by at most one second: the clock thread     *)
(* then wants the mutex itself.  So the two readings of the clock in one    *)
(* call differ by one at most (or the clock wrapped between them).  On an   *)
(* empty table nothing holds the clock back until the entry is linked.      *)
OneSecondDrift ==
    ~MutexFree /\ ~foundEmpty =>
        /\ apiPc \in Held =>
              currentTime \in {lastUpdated[apiPc], Plus(lastUpdated[apiPc], 1)}
        /\ stamp # NoStamp => currentTime \in {stamp, Plus(stamp, 1)}

(* Hence the binding that a message carries is not deleted by the clean-up  *)
(* of its own message, although the clock moves under it; nor can the clock *)
(* thread delete it before the call is over.  The first binding of an empty *)
(* table is only as safe as the call is quick.                              *)
OwnBindingSurvives ==
    [][(/\ ~MutexFree /\ ~foundEmpty /\ apiPc \in Held /\ apiPc' = Free
        /\ ImmediateDel > 1
        /\ lastUpdated[apiPc] + ImmediateDel < W
        /\ lastUpdated[apiPc] <= currentTime)
       => apiPc \in Held']_vars

(* A maintenance run that no API call overlapped is exact: when it ends, no *)
(* entry that had expired is left.                                          *)
UndisturbedRunExact ==
    [][ClockDone /\ ~overlapped => ExpiredIn(Binding, Expiration) = {}]_vars

(* The purpose of every run: "check the lastUpdated value for all entries   *)
(* and initiate I-SID/VLAN assignment expiration tasks", on elements stored *)
(* "for later processing".  A call that stores its own entries in the same  *)
(* array in between leaves some of them unprocessed.                        *)
EveryRunExact == [][ClockDone => ExpiredIn(Binding, Expiration) = {}]_vars

(* The clock thread always returns to its sleep: neither the mutex nor the  *)
(* shared array can keep it in a run.                                       *)
MaintenanceEnds == clockPc # "asleep" ~> clockPc = "asleep"

(* Only entries that have expired are deleted by the timer, as the comment  *)
(* in the scan says: it checks lastUpdated and only then initiates the      *)
(* expiration tasks.  A copy does not expire by being in the array.         *)
TimerDeletesOnlyExpired ==
    [][ClockDelete =>
         \A b \in Held : status'[b] = "none" =>
             Expired(lastUpdated[b], Expiration, currentTime)]_vars
=============================================================================
