------------------------------ MODULE AARemovals ------------------------------
(***************************************************************************)
(* The calls of the agent that take bindings out of the table on behalf of  *)
(* the switch it runs on: a unit leaves the stack, the SMLT peer is gone, a *)
(* binding was moved to another port of a trunk.  Nothing in the repository *)
(* makes these calls; they are made here by the thread that makes the API   *)
(* calls, while the clock thread of AAServerThreads runs on.  All of them   *)
(* but one store copies in the clock thread's array, and one, like the      *)
(* clock thread, deletes from it after it has let go of the mutex.          *)
(***************************************************************************)
EXTENDS AAServerThreads

CONSTANTS
    VirtualIfc,         \* ports with FA_AGENT_VIRTUAL_IFC (10000 and above)
    Service,            \* pairs of I-SID and VLAN
    ServiceOf,          \* the I-SID and VLAN of a binding
    Trunk               \* the sets of ports the switch has put in one trunk

ASSUME RemovalsAssumption ==
    /\ ActualIfc \cap VirtualIfc = {}
    /\ ServiceOf \in [Binding -> Service]

VARIABLES
    syncTarget,         \* the binding to synchronise with, or Free
    syncCount, j,       \* locals of the deletion loop of the synchronisation
    scanned             \* history: has the clock thread stored since?

syncVars == <<syncTarget, syncCount, j, scanned>>
allVars == <<vars, syncVars>>

NotSyncing == syncTarget = Free

(* What the code takes for mirrors of b: all bindings have the same trunkId, *)
(* zero, as nothing sets it.                                                *)
Mirrors(b) == {c \in Binding : ServiceOf[c] = ServiceOf[b]}

(* What they are: bindings of the same service on other ports of a trunk.   *)
(* Only the properties use it.                                              *)
TrunkMirrors(b) ==
    {c \in Mirrors(b) : /\ PortOf[c] # PortOf[b]
                        /\ \E t \in Trunk : {PortOf[b], PortOf[c]} \subseteq t}

RemovalsInit ==
    Init /\ syncTarget = Free /\ syncCount = 0 /\ j = 0 /\ scanned = FALSE

-----------------------------------------------------------------------------
(* Entries are stored and deleted in one hold of the mutex.                 *)
StoreAndDelete(copies, removed) ==
    /\ MutexFree /\ NotSyncing /\ Held # {}
    /\ faRemIsidVlanAsgnList' = copies
    /\ Delete(removed)
    /\ overlapped' = TRUE
    /\ UNCHANGED <<faServiceStatus, currentTime, clockVars, apiVars, syncVars>>

(* faAgentPerformRemoteListHostRemoval for a whole unit: every entry goes,  *)
(* whatever its unit.  Its interface is zero while it is copied, so that    *)
(* the copy names no entry of the table.                                    *)
HostRemoval ==
    StoreAndDelete([c \in Cells |-> IF c <= Cardinality(Held) THEN Nowhere
                                    ELSE faRemIsidVlanAsgnList[c]],
                   Held)

(* The same for one port: the code passes over every entry. *)
HostPortRemoval ==
    /\ MutexFree /\ NotSyncing
    /\ UNCHANGED allVars

(* faAgentPerformRemoteListPeerRemoval.  It reads its copies once more      *)
(* without the mutex, but in this build that has no effect.                 *)
PeerRemoval ==
    LET peers == {b \in Held : PortOf[b] \in VirtualIfc}
    IN  StoreAndDelete(Stored(peers), peers)

(* faAgentPerformRemoteElemRemoval uses no copy. *)
ElemRemoval(b) == StoreAndDelete(faRemIsidVlanAsgnList, {b} \cap Held)

(* faRemoteIsidVlanAsgnUpdateState with a timestamp, which is the time.     *)
UpdateState(b) ==
    /\ MutexFree /\ NotSyncing
    /\ lastUpdated' = [lastUpdated EXCEPT ![b] =
                          IF b \in Held THEN currentTime ELSE @]
    /\ overlapped' = TRUE
    /\ UNCHANGED <<faServiceStatus, currentTime, status, faRemIsidVlanAsgnList,
                   clockVars, apiVars, syncVars>>

-----------------------------------------------------------------------------
(* Broken: the scan stops at the first match.                               *)
SyncScanFirst(b) ==
    /\ MutexFree /\ NotSyncing /\ Held # {}
    /\ LET found == IF Held \cap Mirrors(b) = {} THEN {}
                    ELSE {CHOOSE c \in Held \cap Mirrors(b) :
                             \A d \in Held \cap Mirrors(b) : c <= d}
       IN  /\ faRemIsidVlanAsgnList' = Stored(found)
           /\ syncCount' = Cardinality(found)
    /\ syncTarget' = b /\ j' = 1 /\ scanned' = FALSE
    /\ overlapped' = TRUE
    /\ UNCHANGED <<faServiceStatus, currentTime, tableVars, clockVars, apiVars>>

(* faAgentSyncRemoteTrunkMembers stores the entries that mirror b, b itself *)
(* among them, under the mutex ...                                          *)
SyncScan(b) ==
    /\ MutexFree /\ NotSyncing /\ Held # {}
    /\ LET found == Held \cap Mirrors(b)
       IN  /\ faRemIsidVlanAsgnList' = Stored(found)
           /\ syncCount' = Cardinality(found)
    /\ syncTarget' = b /\ j' = 1 /\ scanned' = FALSE
    /\ overlapped' = TRUE
    /\ UNCHANGED <<faServiceStatus, currentTime, tableVars, clockVars, apiVars>>

(* ... lets go of it, and takes it again for each deletion.                 *)
SyncDelete ==
    /\ ~NotSyncing /\ j <= syncCount /\ MutexFree
    /\ Delete({faRemIsidVlanAsgnList[j]})
    /\ j' = j + 1
    /\ UNCHANGED <<faServiceStatus, currentTime, faRemIsidVlanAsgnList, clockVars,
                   apiVars, overlapped, syncTarget, syncCount, scanned>>

SyncDone ==
    /\ ~NotSyncing /\ j > syncCount
    /\ syncTarget' = Free /\ syncCount' = 0 /\ j' = 0 /\ scanned' = FALSE
    /\ UNCHANGED vars

Removal ==
    \/ HostRemoval \/ HostPortRemoval \/ PeerRemoval
    \/ \E b \in Binding : ElemRemoval(b) \/ UpdateState(b) \/ SyncScan(b)
    \/ SyncDelete \/ SyncDone

(* The thread is in one call at a time. *)
RemovalsNext ==
    \/ Clock /\ scanned' = (scanned \/ ClockScan)
             /\ UNCHANGED <<syncTarget, syncCount, j>>
    \/ NotSyncing /\ Api /\ UNCHANGED syncVars
    \/ Removal

RemovalsSpec == RemovalsInit /\ [][RemovalsNext]_allVars

(* The fairness is that of AAServerThreads. *)
RemovalsFairSpec == RemovalsSpec /\ Fairness
-----------------------------------------------------------------------------
(* Every variable has its type. *)
RemovalsTypeOK ==
    /\ TypeOK
    /\ syncTarget \in Binding \cup {Free}
    /\ syncCount \in 0 .. Cardinality(Binding)
    /\ j \in 0 .. Cardinality(Binding) + 1
    /\ scanned \in BOOLEAN

(* A synchronisation that no run of the timer overlapped leaves no mirror   *)
(* of its target on another port of the trunk, although it works from       *)
(* copies and without the mutex.                                            *)
SyncLeavesNoMirror ==
    [][SyncDone /\ ~scanned => Held \cap TrunkMirrors(syncTarget) = {}]_allVars

(* And it "searches for and deletes I-SID/VLAN bindings that represent      *)
(* mirrored data on a different trunk port", so nothing else: neither the   *)
(* target nor the same service on a port that is in no trunk.               *)
SyncDeletesMirrorsOnly ==
    [][SyncDelete => Held \ Held' \subseteq TrunkMirrors(syncTarget)]_allVars

(* Each of the two deletion loops only reads cells that were written,       *)
(* although either thread, and every removal, overwrites the array while    *)
(* the other loop is under way.                                             *)
LoopsReadCopies ==
    /\ LoopReadsCopies
    /\ \A c \in j .. syncCount : c > 0 => faRemIsidVlanAsgnList[c] # Free
=============================================================================
