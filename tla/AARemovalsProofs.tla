-------------------------- MODULE AARemovalsProofs --------------------------
(***************************************************************************)
(* Two threads and the removals, for every width of the clock and every set *)
(* of bindings.  The two readings of the clock in one API call differ by    *)
(* one second at most if the table was not empty when the call began,       *)
(* because the clock thread then wants the mutex that the call holds; of an *)
(* empty table it does not want it, and nothing is proved.  The loops of    *)
(* the clock thread and of a synchronisation  *)
(* delete through the one array that both write and stay within what was    *)
(* written; undisturbed, each deletes all that its scan found.              *)
(***************************************************************************)
EXTENDS AARemovals, AALemmas, TLAPS

(* The part of the types that the argument needs. *)
ClockTyped ==
    /\ currentTime \in Time
    /\ lastUpdated \in [Binding -> Time]
    /\ status \in [Binding -> Status \cup {"none"}]
    /\ apiPc \in Binding \cup {Free}
    /\ stamp \in Time \cup {NoStamp} /\ foundEmpty \in BOOLEAN

(* What the call read from the clock, for an entry linked or still to be.   *)
HasRead == stamp # NoStamp \/ apiPc \in Held
Reading == IF stamp # NoStamp THEN stamp ELSE lastUpdated[apiPc]

(* Why the clock cannot move twice: after it has moved once, its thread is  *)
(* on its way to the mutex, and as the table is not empty it does not turn  *)
(* back.                                                                    *)
ClockWaits ==
    ~MutexFree /\ ~foundEmpty =>
        /\ Held # {} /\ (stamp # NoStamp => apiPc \notin Held)
        /\ HasRead =>
              \/ currentTime = Reading
              \/ currentTime = Plus(Reading, 1) /\ clockPc \in {"check", "scan"}

DriftInv == ClockTyped /\ ClockWaits
-----------------------------------------------------------------------------
LEMMA TimePlus == \A t \in Time : Plus(t, 1) \in Time /\ 0 \in Time
  BY WAssumption DEF Time, Plus

LEMMA NoBindingIsFree == Free \notin Binding
  BY ThreadsAssumption DEF Free

(* A deletion leaves well-typed tables, and touches only what it deletes.   *)
LEMMA DeleteTyped ==
    ASSUME ClockTyped, NEW keys, Delete(keys)
    PROVE  /\ lastUpdated' \in [Binding -> Time]
           /\ status' \in [Binding -> Status \cup {"none"}]
  BY TimePlus DEF ClockTyped, Delete

(* The clock thread.  While a call holds the mutex it neither scans nor     *)
(* deletes.                                                                 *)
LEMMA ClockStep ==
    ASSUME DriftInv, Clock
    PROVE  DriftInv'
<1> USE DEF DriftInv
<1>1. CASE ClockTick
  <2>1. ClockTyped'
    BY <1>1, TimePlus DEF ClockTick, ClockTyped, tableVars, apiVars
  <2>2. /\ currentTime' = Plus(currentTime, 1)
        /\ clockPc = "asleep" /\ clockPc' = "check"
        /\ UNCHANGED <<Held, HasRead, Reading, MutexFree, apiVars>>
    BY <1>1 DEF ClockTick, Held, HasRead, Reading, MutexFree, tableVars, apiVars
  <2>3. ClockWaits'
    BY <2>2 DEF ClockWaits, apiVars
  <2> QED
    BY <2>1, <2>3
<1>2. CASE ClockCheck
  <2>1. ClockTyped'
    BY <1>2 DEF ClockCheck, ClockTyped, tableVars, apiVars
  <2>2. /\ clockPc = "check" /\ clockPc' = IF Held = {} THEN "asleep" ELSE "scan"
        /\ UNCHANGED <<currentTime, Held, HasRead, Reading, MutexFree, apiVars>>
    BY <1>2 DEF ClockCheck, Held, HasRead, Reading, MutexFree, tableVars, apiVars
  <2>3. ClockWaits'
    BY <2>2 DEF ClockWaits, apiVars
  <2> QED
    BY <2>1, <2>3
<1>3. CASE ClockScan
  <2>1. MutexFree' /\ UNCHANGED <<currentTime, lastUpdated, apiPc, stamp, foundEmpty>>
    BY <1>3 DEF ClockScan, MutexFree, apiVars
  <2>2. status' \in [Binding -> Status \cup {"none"}]
    BY <1>3 DEF ClockScan, ClockTyped, Status
  <2> QED
    BY <2>1, <2>2 DEF ClockTyped, ClockWaits
<1>4. CASE ClockDelete
  <2>1. MutexFree' /\ UNCHANGED <<currentTime, apiPc, stamp, foundEmpty>>
    BY <1>4 DEF ClockDelete, MutexFree, apiVars
  <2>2. Delete({faRemIsidVlanAsgnList[i]})
    BY <1>4 DEF ClockDelete
  <2> QED
    BY <2>1, <2>2, DeleteTyped DEF ClockTyped, ClockWaits
<1>5. CASE ClockDone
  <2>1. ClockTyped'
    BY <1>5 DEF ClockDone, ClockTyped, tableVars, apiVars
  <2>2. /\ clockPc = "delete"
        /\ UNCHANGED <<currentTime, Held, HasRead, Reading, MutexFree, apiVars>>
    BY <1>5 DEF ClockDone, Held, HasRead, Reading, MutexFree, tableVars, apiVars
  <2>3. ClockWaits'
    BY <2>2 DEF ClockWaits, apiVars
  <2> QED
    BY <2>1, <2>3
<1> QED
  BY <1>1, <1>2, <1>3, <1>4, <1>5 DEF Clock

(* The API calls.  The first reading of the clock refreshes the entry, or   *)
(* stamps one that is not in the table yet.                                 *)
LEMMA ApiStep ==
    ASSUME DriftInv, Api
    PROVE  DriftInv'
<1> USE DEF DriftInv
<1>1. ASSUME NEW b \in Binding, NEW request \in {"PENDING", "APP_INTERACTION"},
             NEW accepted \in BOOLEAN, ApiProcess(b, request, accepted)
      PROVE  DriftInv'
  <2>1. /\ apiPc' = b /\ currentTime' = currentTime /\ foundEmpty' = (Held = {})
        /\ stamp' = IF b \notin Held /\ Cardinality(Held) < MaxRemote
                    THEN currentTime ELSE NoStamp
    BY <1>1 DEF ApiProcess
  <2>2. stamp' \in Time \cup {NoStamp} /\ foundEmpty' \in BOOLEAN
    BY <2>1 DEF ClockTyped
  <2>3. CASE b \in Held
    <3>1. /\ lastUpdated' = [lastUpdated EXCEPT ![b] = currentTime]
          /\ status' = [status EXCEPT ![b] =
                IF @ \in {"ACTIVE", request} THEN @
                ELSE IF accepted THEN "ACTIVE" ELSE "APP_INTERACTION"]
      BY <1>1, <2>3 DEF ApiProcess
    <3>2. /\ lastUpdated' \in [Binding -> Time]
          /\ status' \in [Binding -> Status \cup {"none"}]
      BY <3>1 DEF ClockTyped, Status
    <3>3. ClockTyped'
      BY <2>1, <2>2, <3>2 DEF ClockTyped
    <3>4. b \in Held'
      BY <2>3, <3>1 DEF Held, ClockTyped
    <3>5. stamp' = NoStamp /\ lastUpdated'[b] = currentTime
      BY <2>1, <2>3, <3>1 DEF ClockTyped
    <3> QED
      BY <2>1, <3>3, <3>4, <3>5 DEF ClockWaits, HasRead, Reading
  <2>4. CASE b \notin Held
    <3>1. UNCHANGED <<status, lastUpdated>>
      BY <1>1, <2>4 DEF ApiProcess, tableVars
    <3>2. Held' = Held
      BY <3>1 DEF Held
    <3>3. ClockTyped'
      BY <2>1, <2>2, <3>1 DEF ClockTyped
    <3>4. (~foundEmpty' => Held' # {}) /\ apiPc' \notin Held'
      BY <2>1, <2>4, <3>2
    <3>5. HasRead' => currentTime' = Reading'
      BY <2>1, <2>4, <3>2 DEF HasRead, Reading
    <3> QED
      BY <3>3, <3>4, <3>5 DEF ClockWaits
  <2> QED
    BY <2>3, <2>4
<1>2. ASSUME NEW accepted \in BOOLEAN, ApiLink(accepted)
      PROVE  DriftInv'
  <2>1. /\ ~MutexFree /\ stamp # NoStamp /\ stamp' = NoStamp
        /\ status' = [status EXCEPT ![apiPc] =
                         IF accepted THEN "ACTIVE" ELSE "APP_INTERACTION"]
        /\ lastUpdated' = [lastUpdated EXCEPT ![apiPc] = stamp]
        /\ UNCHANGED <<currentTime, clockPc, apiPc, foundEmpty>>
    BY <1>2 DEF ApiLink, clockVars
  <2>2. apiPc \in Binding /\ stamp \in Time
    BY <2>1 DEF ClockTyped, MutexFree
  <2>3. /\ lastUpdated' \in [Binding -> Time] /\ lastUpdated'[apiPc] = stamp
        /\ status' \in [Binding -> Status \cup {"none"}]
    BY <2>1, <2>2 DEF ClockTyped, Status
  <2>4. apiPc \in Held'
    BY <2>1, <2>2 DEF Held, ClockTyped
  <2>5. ClockTyped'
    BY <2>1, <2>3 DEF ClockTyped
  <2>6. HasRead /\ Reading' = Reading /\ Held' # {} /\ MutexFree' = MutexFree
    BY <2>1, <2>3, <2>4 DEF HasRead, Reading, MutexFree
  <2>7. ClockWaits'
    BY <2>1, <2>6 DEF ClockWaits
  <2> QED
    BY <2>5, <2>7
<1>3. CASE ApiCleanUp
  <2>1. \E found : Delete(found)
    BY <1>3 DEF ApiCleanUp
  <2>2. /\ MutexFree' /\ apiPc' = Free
        /\ foundEmpty' = FALSE /\ UNCHANGED <<currentTime, stamp>>
    BY <1>3 DEF ApiCleanUp, MutexFree
  <2> QED
    BY <2>1, <2>2, DeleteTyped DEF ClockTyped, ClockWaits
<1>4. CASE ApiDisable \/ ApiEnable
  <2>1. UNCHANGED <<currentTime, tableVars, apiVars>> /\ MutexFree'
    BY <1>4 DEF ApiDisable, ApiEnable, MutexFree, apiVars
  <2> QED
    BY <2>1 DEF ClockTyped, ClockWaits, tableVars, apiVars
<1> QED
  BY <1>1, <1>2, <1>3, <1>4 DEF Api

(* The removals wait for the mutex and give it back at once.                *)
LEMMA RemovalStep ==
    ASSUME DriftInv, Removal
    PROVE  DriftInv'
<1> USE DEF DriftInv
<1>1. ASSUME NEW copies, NEW removed, StoreAndDelete(copies, removed)
      PROVE  DriftInv'
  <2>1. MutexFree' /\ UNCHANGED <<currentTime, apiVars>> /\ Delete(removed)
    BY <1>1 DEF StoreAndDelete, MutexFree, apiVars
  <2> QED
    BY <2>1, DeleteTyped DEF ClockTyped, ClockWaits, apiVars
<1>2. CASE HostRemoval
  BY <1>1, <1>2 DEF HostRemoval
<1>3. CASE PeerRemoval
  BY <1>1, <1>3 DEF PeerRemoval
<1>4. CASE HostPortRemoval \/ SyncDone
  <2>1. UNCHANGED vars
    BY <1>4 DEF HostPortRemoval, SyncDone, allVars
  <2> QED
    BY <2>1 DEF vars, clockVars, tableVars, apiVars, ClockTyped, ClockWaits,
                HasRead, Reading, MutexFree, Held
<1>5. ASSUME NEW b \in Binding, ElemRemoval(b)
      PROVE  DriftInv'
  BY <1>1, <1>5 DEF ElemRemoval
<1>6. ASSUME NEW b \in Binding, UpdateState(b)
      PROVE  DriftInv'
  <2>1. MutexFree' /\ UNCHANGED <<currentTime, apiVars, status>>
    BY <1>6 DEF UpdateState, MutexFree, apiVars
  <2>2. lastUpdated' \in [Binding -> Time]
    BY <1>6 DEF UpdateState, ClockTyped
  <2> QED
    BY <2>1, <2>2 DEF ClockTyped, ClockWaits, apiVars
<1>7. ASSUME NEW b \in Binding, SyncScan(b)
      PROVE  DriftInv'
  <2>1. MutexFree' /\ UNCHANGED <<currentTime, apiVars, tableVars>>
    BY <1>7 DEF SyncScan, MutexFree, apiVars
  <2> QED
    BY <2>1 DEF ClockTyped, ClockWaits, tableVars, apiVars
<1>8. CASE SyncDelete
  <2>1. MutexFree' /\ UNCHANGED <<currentTime, apiVars>>
    BY <1>8 DEF SyncDelete, MutexFree, apiVars
  <2>2. Delete({faRemIsidVlanAsgnList[j]})
    BY <1>8 DEF SyncDelete
  <2> QED
    BY <2>1, <2>2, DeleteTyped DEF ClockTyped, ClockWaits, apiVars
<1> QED
  BY <1>2, <1>3, <1>4, <1>5, <1>6, <1>7, <1>8 DEF Removal

LEMMA DriftInvInitially == RemovalsInit => DriftInv
<1> SUFFICES ASSUME Init PROVE DriftInv
  BY DEF RemovalsInit
<1>1. 0 \in Time
  BY WAssumption DEF Time
<1>2. ClockTyped
  BY <1>1 DEF Init, ClockTyped
<1>3. MutexFree
  BY DEF Init, MutexFree
<1> QED
  BY <1>2, <1>3 DEF DriftInv, ClockWaits

LEMMA DriftInvStep == DriftInv /\ [RemovalsNext]_allVars => DriftInv'
<1> SUFFICES ASSUME DriftInv, [RemovalsNext]_allVars
             PROVE  DriftInv'
  OBVIOUS
<1>1. CASE UNCHANGED allVars
  BY <1>1 DEF allVars, vars, clockVars, tableVars, apiVars, DriftInv, ClockTyped,
              ClockWaits, HasRead, Reading, MutexFree, Held
<1>2. CASE RemovalsNext
  BY <1>2, ClockStep, ApiStep, RemovalStep DEF RemovalsNext
<1> QED
  BY <1>1, <1>2

(* The invariant, hence the bound on the drift, holds in every state.       *)
THEOREM DriftInvariance == RemovalsSpec => []DriftInv
  BY DriftInvInitially, DriftInvStep, PTL DEF RemovalsSpec

(* Between the two readings of the clock in one API call that began on a    *)
(* table with an entry, the clock moves by at most one second; until the    *)
(* new entry is linked, its stamp is what was read.                         *)
THEOREM ReadingsAgree == RemovalsSpec => []OneSecondDrift
<1>1. DriftInv => OneSecondDrift
  <2> SUFFICES ASSUME ClockTyped, ClockWaits, ~MutexFree, ~foundEmpty
               PROVE  /\ apiPc \in Held => currentTime \in
                            {lastUpdated[apiPc], Plus(lastUpdated[apiPc], 1)}
                      /\ stamp # NoStamp => currentTime \in {stamp, Plus(stamp, 1)}
    BY DEF DriftInv, OneSecondDrift
  <2>1. /\ HasRead => currentTime \in {Reading, Plus(Reading, 1)}
        /\ stamp # NoStamp => apiPc \notin Held
    BY DEF ClockWaits
  <2> QED
    BY <2>1 DEF HasRead, Reading
<1> QED
  BY <1>1, DriftInvariance, PTL

(* A binding as fresh as that is not collected by the clean-up of its own   *)
(* message.                                                                 *)
LEMMA FreshIsNotExpired ==
    ASSUME ClockTyped, NEW b \in Binding,
           ImmediateDel > 1, lastUpdated[b] + ImmediateDel < W,
           lastUpdated[b] <= currentTime,
           currentTime \in {lastUpdated[b], Plus(lastUpdated[b], 1)}
    PROVE  ~Expired(lastUpdated[b], ImmediateDel, currentTime)
  BY WAssumption, ThreadsAssumption DEF ClockTyped, Time, Plus, Expired

(* The binding that a message carries survives its own message, whatever    *)
(* the clock thread and the removals do meanwhile, unless it is the first   *)
(* of an empty table.                                                       *)
THEOREM OwnBindingStays == RemovalsSpec => OwnBindingSurvives
<1> DEFINE Fresh == /\ ~MutexFree /\ ~foundEmpty /\ apiPc \in Held /\ apiPc' = Free
                    /\ ImmediateDel > 1
                    /\ lastUpdated[apiPc] + ImmediateDel < W
                    /\ lastUpdated[apiPc] <= currentTime
<1>1. ASSUME DriftInv, [RemovalsNext]_allVars, Fresh
      PROVE  apiPc \in Held'
  <2>1. ApiCleanUp
    BY <1>1, NoBindingIsFree DEF RemovalsNext, Clock, ClockTick, ClockCheck,
         ClockScan, ClockDelete, ClockDone, Api, ApiProcess, ApiLink, ApiDisable,
         ApiEnable, Removal, HostRemoval, HostPortRemoval, PeerRemoval, ElemRemoval,
         StoreAndDelete, UpdateState, SyncScan, SyncDelete, SyncDone,
         MutexFree, allVars, vars, apiVars
  <2>2. apiPc \in Binding
    BY <1>1 DEF DriftInv, ClockTyped, MutexFree
  <2>3. ~Expired(lastUpdated[apiPc], ImmediateDel, currentTime)
    <3>1. stamp = NoStamp
      BY <2>1 DEF ApiCleanUp
    <3>2. currentTime \in {lastUpdated[apiPc], Plus(lastUpdated[apiPc], 1)}
      BY <1>1, <3>1 DEF DriftInv, ClockWaits, HasRead, Reading
    <3> QED
      BY <1>1, <2>2, <3>2, FreshIsNotExpired DEF DriftInv
  <2>4. PICK found : /\ \A b \in found : Expired(lastUpdated[b], ImmediateDel, currentTime)
                     /\ Delete(found)
    BY <2>1 DEF ApiCleanUp, ExpiredIn
  <2>5. apiPc \notin found
    BY <2>3, <2>4
  <2> QED
    BY <2>2, <2>4, <2>5, <1>1 DEF Delete, Held
<1>2. DriftInv /\ [RemovalsNext]_allVars => [Fresh => apiPc \in Held']_vars
  BY <1>1
<1> QED
  BY <1>2, DriftInvariance, PTL DEF RemovalsSpec, OwnBindingSurvives
-----------------------------------------------------------------------------
(* The two deletion loops.  What each still has to read was written, and    *)
(* while nothing has come between, it is all that is left to delete.        *)

(* A cell that either loop is still to reach, or has passed, was written.   *)
CopiesInv ==
    \A c \in Cells :
        (clockPc = "delete" /\ c <= elemCount) \/ c <= syncCount
            => faRemIsidVlanAsgnList[c] # Free

(* The loops count from one.                                                *)
CountersInv ==
    /\ clockPc = "delete" => i >= 1
    /\ ~NotSyncing => j >= 1

(* While no call has come between, the timer has yet to reach all entries   *)
(* that have expired.                                                       *)
RunInv ==
    clockPc = "delete" /\ ~overlapped =>
        /\ MutexFree
        /\ \A b \in ExpiredIn(Binding, Expiration) :
              \E c \in i .. elemCount : faRemIsidVlanAsgnList[c] = b

(* While the timer has not come between, a synchronisation has yet to reach *)
(* all mirrors of its target.                                               *)
SyncInv ==
    ~NotSyncing /\ ~scanned =>
        \A b \in Held \cap Mirrors(syncTarget) :
            \E c \in j .. syncCount : faRemIsidVlanAsgnList[c] = b

LoopsInv == RemovalsTypeOK /\ CopiesInv /\ CountersInv /\ RunInv /\ SyncInv

LEMMA CellCount ==
    /\ IsFiniteSet(Binding) /\ Cardinality(Binding) \in Nat
    /\ Cells = 1 .. Cardinality(Binding)
    /\ \A entries \in SUBSET Binding :
          Cardinality(entries) \in 0 .. Cardinality(Binding)
<1>1. IsFiniteSet(Binding) /\ Cardinality(Binding) \in Nat
  BY ThreadsAssumption, FS_CardinalityType
<1>2. ASSUME NEW entries \in SUBSET Binding
      PROVE  Cardinality(entries) \in 0 .. Cardinality(Binding)
  <2>1. IsFiniteSet(entries) /\ Cardinality(entries) <= Cardinality(Binding)
    BY <1>1, FS_Subset
  <2>2. Cardinality(entries) \in Nat
    BY <2>1, FS_CardinalityType
  <2> QED
    BY <1>1, <2>1, <2>2
<1> QED
  BY <1>1, <1>2 DEF Cells

(* The scans list what they find: every entry once, and nothing else.       *)
LEMMA InOrderLists ==
    ASSUME NEW entries \in SUBSET Binding
    PROVE  /\ \A c \in 1 .. Cardinality(entries) : InOrder(entries)[c] \in entries
           /\ \A e \in entries :
                 \E c \in 1 .. Cardinality(entries) : InOrder(entries)[c] = e
<1> DEFINE n == Cardinality(entries)
           f == InOrder(entries)
<1>1. entries \in SUBSET Nat /\ IsFiniteSet(entries)
  BY CellCount, ThreadsAssumption, FS_Subset
<1>2. \E g \in [1 .. n -> entries] : \A c, d \in 1 .. n : c < d => g[c] < g[d]
  BY <1>1, Enumeration
<1>3. \E g \in [1 .. n -> entries] : \A c, d \in DOMAIN g : c < d => g[c] < g[d]
  BY <1>2
<1>4. f \in [1 .. n -> entries] /\ \A c, d \in DOMAIN f : c < d => f[c] < f[d]
  BY <1>3 DEF InOrder
<1> HIDE DEF f
<1>5. \A c, d \in 1 .. n : c < d => f[c] < f[d]
  BY <1>4
<1>6. \A e \in entries : \E c \in 1 .. n : f[c] = e
  BY <1>1, <1>4, <1>5, EnumerationIsOnto
<1> QED
  BY <1>4, <1>6 DEF f

(* What storing copies of some entries does to the array.                   *)
LEMMA StoredCopies ==
    ASSUME RemovalsTypeOK, NEW entries \in SUBSET Binding,
           faRemIsidVlanAsgnList' = Stored(entries)
    PROVE  /\ faRemIsidVlanAsgnList' \in [Cells -> Binding \cup {Free, Nowhere}]
           /\ \A c \in 1 .. Cardinality(entries) :
                 faRemIsidVlanAsgnList'[c] \in entries
           /\ \A c \in Cells : faRemIsidVlanAsgnList[c] # Free
                                  => faRemIsidVlanAsgnList'[c] # Free
           /\ \A e \in entries : \E c \in 1 .. Cardinality(entries) :
                                     faRemIsidVlanAsgnList'[c] = e
<1> DEFINE n == Cardinality(entries)
           f == InOrder(entries)
<1>1. /\ n \in Nat /\ n <= Cardinality(Binding)
      /\ Cardinality(Binding) \in Nat /\ Cells = 1 .. Cardinality(Binding)
  BY CellCount
<1>2. /\ \A c \in 1 .. n : f[c] \in entries
      /\ \A e \in entries : \E c \in 1 .. n : f[c] = e
  BY InOrderLists
<1>3. faRemIsidVlanAsgnList' =
        [c \in Cells |-> IF c <= n THEN f[c] ELSE faRemIsidVlanAsgnList[c]]
  BY DEF Stored
<1> HIDE DEF n, f
<1>4. faRemIsidVlanAsgnList \in [Cells -> Binding \cup {Free, Nowhere}]
  BY DEF RemovalsTypeOK, TypeOK
<1>5. \A c \in 1 .. n : c \in Cells /\ faRemIsidVlanAsgnList'[c] = f[c]
  BY <1>1, <1>3
<1>6. \A c \in Cells : \/ c \in 1 .. n
                       \/ faRemIsidVlanAsgnList'[c] = faRemIsidVlanAsgnList[c]
  BY <1>1, <1>3
<1>7. \A c \in Cells : faRemIsidVlanAsgnList'[c] \in Binding \cup {Free, Nowhere}
  BY <1>2, <1>4, <1>5, <1>6
<1>8. \A c \in 1 .. n : faRemIsidVlanAsgnList'[c] # Free
  BY <1>2, <1>5, NoBindingIsFree
<1>9. faRemIsidVlanAsgnList' = [c \in Cells |-> faRemIsidVlanAsgnList'[c]]
  BY <1>3
<1>10. faRemIsidVlanAsgnList' \in [Cells -> Binding \cup {Free, Nowhere}]
  BY <1>7, <1>9
<1>11. \A c \in 1 .. n : faRemIsidVlanAsgnList'[c] \in entries
  BY <1>2, <1>5
<1>12. \A e \in entries : \E c \in 1 .. n : faRemIsidVlanAsgnList'[c] = e
  BY <1>2, <1>5
<1> QED
  BY <1>6, <1>8, <1>10, <1>11, <1>12 DEF n

(* What a deletion leaves, it leaves as it was.                             *)
LEMMA DeleteLeaves ==
    ASSUME RemovalsTypeOK, NEW keys, Delete(keys), currentTime' = currentTime
    PROVE  /\ status' \in [Binding -> Status \cup {"none"}]
           /\ lastUpdated' \in [Binding -> Time]
           /\ Held' = Held \ keys
           /\ ExpiredIn(Binding, Expiration)' = ExpiredIn(Binding, Expiration) \ keys
<1>1. /\ status \in [Binding -> Status \cup {"none"}]
      /\ lastUpdated \in [Binding -> Time]
  BY DEF RemovalsTypeOK, TypeOK
<1>2. /\ status' \in [Binding -> Status \cup {"none"}]
      /\ lastUpdated' \in [Binding -> Time]
  BY <1>1, TimePlus DEF Delete
<1>3. Held' = Held \ keys
  BY <1>1 DEF Delete, Held
<1>4. \A b \in Held' : lastUpdated'[b] = lastUpdated[b]
  BY <1>3 DEF Delete, Held
<1>5. ExpiredIn(Binding, Expiration)' = ExpiredIn(Binding, Expiration) \ keys
  BY <1>3, <1>4 DEF ExpiredIn
<1> QED
  BY <1>2, <1>3, <1>5

(* A removal that stores and deletes in one hold of the mutex.              *)
LEMMA RemovalTypes ==
    ASSUME RemovalsTypeOK, NEW copies, NEW removed, StoreAndDelete(copies, removed),
           copies \in [Cells -> Binding \cup {Free, Nowhere}]
    PROVE  RemovalsTypeOK'
<1>1. /\ Delete(removed) /\ faRemIsidVlanAsgnList' = copies
      /\ UNCHANGED <<faServiceStatus, currentTime, clockVars, apiVars, syncVars>>
  BY DEF StoreAndDelete
<1>2. /\ status' \in [Binding -> Status \cup {"none"}]
      /\ lastUpdated' \in [Binding -> Time]
  BY <1>1, DeleteLeaves
<1> QED
  BY <1>1, <1>2 DEF RemovalsTypeOK, TypeOK, clockVars, apiVars, syncVars

(* The clock thread keeps the types.                                        *)
LEMMA ClockTypes ==
    ASSUME RemovalsTypeOK, Clock, UNCHANGED <<syncTarget, syncCount, j>>,
           scanned' \in BOOLEAN
    PROVE  RemovalsTypeOK'
<1> SUFFICES TypeOK'
  BY DEF RemovalsTypeOK
<1>0. TypeOK
  BY DEF RemovalsTypeOK
<1>1. CASE ClockTick
  BY <1>0, <1>1, TimePlus DEF ClockTick, TypeOK, tableVars, apiVars
<1>2. CASE ClockCheck
  BY <1>0, <1>2 DEF ClockCheck, TypeOK, tableVars, apiVars
<1>3. CASE ClockScan
  <2> DEFINE found == ExpiredIn(Binding, Expiration)
  <2>1. found \in SUBSET Binding
    BY DEF ExpiredIn
  <2>2. /\ faRemIsidVlanAsgnList' = Stored(found)
        /\ elemCount' = Cardinality(found) /\ i' = 1 /\ clockPc' = "delete"
        /\ status' = [b \in Binding |-> IF b \in found /\ Rejected(b)
                                        THEN "REJECTED" ELSE status[b]]
        /\ UNCHANGED <<faServiceStatus, currentTime, lastUpdated, apiVars>>
    BY <1>3 DEF ClockScan
  <2> HIDE DEF found
  <2>3. faRemIsidVlanAsgnList' \in [Cells -> Binding \cup {Free, Nowhere}]
    BY <2>1, <2>2, StoredCopies
  <2>4. elemCount' \in 0 .. Cardinality(Binding) /\ i' \in 0 .. Cardinality(Binding) + 1
    BY <2>1, <2>2, CellCount
  <2>5. status' \in [Binding -> Status \cup {"none"}]
    BY <2>2, <1>0 DEF TypeOK, Status
  <2> QED
    BY <2>2, <2>3, <2>4, <2>5, <1>0 DEF TypeOK, apiVars
<1>4. CASE ClockDelete
  <2>1. /\ Delete({faRemIsidVlanAsgnList[i]}) /\ i <= elemCount /\ i' = i + 1
        /\ UNCHANGED <<faServiceStatus, currentTime, faRemIsidVlanAsgnList, clockPc,
                       elemCount, apiVars>>
    BY <1>4 DEF ClockDelete
  <2>2. /\ status' \in [Binding -> Status \cup {"none"}]
        /\ lastUpdated' \in [Binding -> Time]
    BY <2>1, DeleteLeaves
  <2>3. i' \in 0 .. Cardinality(Binding) + 1
    BY <2>1, <1>0, CellCount DEF TypeOK
  <2> QED
    BY <2>1, <2>2, <2>3, <1>0 DEF TypeOK, apiVars
<1>5. CASE ClockDone
  <2>1. elemCount' \in 0 .. Cardinality(Binding) /\ i' \in 0 .. Cardinality(Binding) + 1
    BY <1>5, CellCount DEF ClockDone
  <2> QED
    BY <1>0, <1>5, <2>1 DEF ClockDone, TypeOK, tableVars, apiVars
<1> QED
  BY <1>1, <1>2, <1>3, <1>4, <1>5 DEF Clock

(* The API calls keep the types.                                            *)
LEMMA ApiTypes ==
    ASSUME RemovalsTypeOK, Api, UNCHANGED syncVars
    PROVE  RemovalsTypeOK'
<1> SUFFICES TypeOK'
  BY DEF RemovalsTypeOK, syncVars
<1>0. TypeOK
  BY DEF RemovalsTypeOK
<1>1. ASSUME NEW b \in Binding, NEW request \in {"PENDING", "APP_INTERACTION"},
             NEW accepted \in BOOLEAN, ApiProcess(b, request, accepted)
      PROVE  TypeOK'
  <2>1. /\ apiPc' \in Binding /\ foundEmpty' \in BOOLEAN
        /\ stamp' \in {currentTime, NoStamp}
        /\ UNCHANGED <<faServiceStatus, currentTime, faRemIsidVlanAsgnList, clockPc,
                       elemCount, i>>
    BY <1>1 DEF ApiProcess, clockVars
  <2>2. CASE b \in Held
    <3>1. /\ lastUpdated' = [lastUpdated EXCEPT ![b] = currentTime]
          /\ status' = [status EXCEPT ![b] =
                IF @ \in {"ACTIVE", request} THEN @
                ELSE IF accepted THEN "ACTIVE" ELSE "APP_INTERACTION"]
      BY <1>1, <2>2 DEF ApiProcess
    <3> QED
      BY <2>1, <3>1, <1>0 DEF TypeOK, Status
  <2>3. CASE b \notin Held
    <3>1. UNCHANGED tableVars
      BY <1>1, <2>3 DEF ApiProcess
    <3> QED
      BY <2>1, <3>1, <1>0 DEF TypeOK, tableVars
  <2> QED
    BY <2>2, <2>3
<1>2. ASSUME NEW accepted \in BOOLEAN, ApiLink(accepted)
      PROVE  TypeOK'
  <2>1. /\ status' = [status EXCEPT ![apiPc] =
                         IF accepted THEN "ACTIVE" ELSE "APP_INTERACTION"]
        /\ lastUpdated' = [lastUpdated EXCEPT ![apiPc] = stamp]
        /\ stamp # NoStamp /\ stamp' = NoStamp
        /\ UNCHANGED <<faServiceStatus, currentTime, faRemIsidVlanAsgnList, clockVars,
                       apiPc, foundEmpty>>
    BY <1>2 DEF ApiLink
  <2>2. /\ status' \in [Binding -> Status \cup {"none"}]
        /\ lastUpdated' \in [Binding -> Time]
    BY <2>1, <1>0 DEF TypeOK, Status
  <2> QED
    BY <2>1, <2>2, <1>0 DEF TypeOK, clockVars
<1>3. CASE ApiCleanUp
  <2> DEFINE found == ExpiredIn({b \in Binding : PortOf[b] = PortOf[apiPc]}, ImmediateDel)
  <2>1. found \in SUBSET Binding
    BY DEF ExpiredIn
  <2>2. /\ faRemIsidVlanAsgnList' = Stored(found) /\ Delete(found)
        /\ apiPc' = Free /\ foundEmpty' = FALSE
        /\ UNCHANGED <<faServiceStatus, currentTime, clockVars, stamp>>
    BY <1>3 DEF ApiCleanUp
  <2> HIDE DEF found
  <2>3. faRemIsidVlanAsgnList' \in [Cells -> Binding \cup {Free, Nowhere}]
    BY <2>1, <2>2, StoredCopies
  <2>4. /\ status' \in [Binding -> Status \cup {"none"}]
        /\ lastUpdated' \in [Binding -> Time]
    BY <2>2, DeleteLeaves
  <2> QED
    BY <2>2, <2>3, <2>4, <1>0 DEF TypeOK, clockVars
<1>4. CASE ApiDisable
  <2> DEFINE found == {b \in Held : status[b] = "ACTIVE"}
  <2>1. found \in SUBSET Binding
    BY DEF Held
  <2>2. /\ faRemIsidVlanAsgnList' = Stored(found) /\ faServiceStatus' = FALSE
        /\ UNCHANGED <<currentTime, tableVars, clockVars, apiVars>>
    BY <1>4 DEF ApiDisable
  <2> HIDE DEF found
  <2>3. faRemIsidVlanAsgnList' \in [Cells -> Binding \cup {Free, Nowhere}]
    BY <2>1, <2>2, StoredCopies
  <2> QED
    BY <2>2, <2>3, <1>0 DEF TypeOK, clockVars, tableVars, apiVars
<1>5. CASE ApiEnable
  BY <1>5, <1>0 DEF ApiEnable, TypeOK, clockVars, tableVars, apiVars
<1> QED
  BY <1>1, <1>2, <1>3, <1>4, <1>5 DEF Api

(* What the synchronisation finds.                                          *)
Found(b) == Held \cap Mirrors(b)

(* The removals keep the types.                                             *)
LEMMA RemovalStepTypes ==
    ASSUME RemovalsTypeOK, Removal
    PROVE  RemovalsTypeOK'
<1>0. /\ TypeOK
      /\ faRemIsidVlanAsgnList \in [Cells -> Binding \cup {Free, Nowhere}]
  BY DEF RemovalsTypeOK, TypeOK
<1>1. CASE HostRemoval
  <2> DEFINE copies == [c \in Cells |-> IF c <= Cardinality(Held) THEN Nowhere
                                        ELSE faRemIsidVlanAsgnList[c]]
  <2>1. StoreAndDelete(copies, Held)
    BY <1>1 DEF HostRemoval
  <2>2. copies \in [Cells -> Binding \cup {Free, Nowhere}]
    BY <1>0
  <2> QED
    BY <2>1, <2>2, RemovalTypes
<1>2. CASE HostPortRemoval
  BY <1>2, <1>0 DEF HostPortRemoval, allVars, vars, clockVars, tableVars, apiVars,
                    syncVars, RemovalsTypeOK, TypeOK
<1>3. CASE PeerRemoval
  <2> DEFINE peers == {b \in Held : PortOf[b] \in VirtualIfc}
  <2>1. StoreAndDelete(Stored(peers), peers)
    BY <1>3 DEF PeerRemoval
  <2>2. peers \in SUBSET Binding
    BY DEF Held
  <2> HIDE DEF peers
  <2>3. faRemIsidVlanAsgnList' = Stored(peers)
    BY <2>1 DEF StoreAndDelete
  <2>4. faRemIsidVlanAsgnList' \in [Cells -> Binding \cup {Free, Nowhere}]
    BY <2>2, <2>3, StoredCopies
  <2>5. Stored(peers) \in [Cells -> Binding \cup {Free, Nowhere}]
    BY <2>3, <2>4
  <2> QED
    BY <2>1, <2>5, RemovalTypes
<1>4. ASSUME NEW b \in Binding, ElemRemoval(b)
      PROVE  RemovalsTypeOK'
  <2>1. StoreAndDelete(faRemIsidVlanAsgnList, {b} \cap Held)
    BY <1>4 DEF ElemRemoval
  <2> QED
    BY <2>1, <1>0, RemovalTypes
<1>5. ASSUME NEW b \in Binding, UpdateState(b)
      PROVE  RemovalsTypeOK'
  <2>1. lastUpdated' = [lastUpdated EXCEPT ![b] = IF b \in Held THEN currentTime ELSE @]
    BY <1>5 DEF UpdateState
  <2>2. lastUpdated' \in [Binding -> Time]
    BY <2>1, <1>0 DEF TypeOK
  <2>3. UNCHANGED <<faServiceStatus, currentTime, status, faRemIsidVlanAsgnList,
                    clockVars, apiVars, syncVars>>
    BY <1>5 DEF UpdateState
  <2> QED
    BY <2>2, <2>3 DEF RemovalsTypeOK, TypeOK, clockVars, apiVars, syncVars
<1>6. ASSUME NEW b \in Binding, SyncScan(b)
      PROVE  RemovalsTypeOK'
  <2>1. Found(b) \in SUBSET Binding
    BY DEF Held, Found
  <2>2. /\ faRemIsidVlanAsgnList' = Stored(Found(b))
        /\ syncCount' = Cardinality(Found(b))
        /\ syncTarget' = b /\ j' = 1 /\ scanned' = FALSE
        /\ UNCHANGED <<faServiceStatus, currentTime, tableVars, clockVars, apiVars>>
    BY <1>6 DEF SyncScan, Found
  <2>3. faRemIsidVlanAsgnList' \in [Cells -> Binding \cup {Free, Nowhere}]
    BY <2>1, <2>2, StoredCopies
  <2>4. syncCount' \in 0 .. Cardinality(Binding) /\ j' \in 0 .. Cardinality(Binding) + 1
    BY <2>1, <2>2, CellCount
  <2> QED
    BY <2>2, <2>3, <2>4, <1>0 DEF RemovalsTypeOK, TypeOK, clockVars, tableVars, apiVars
<1>7. CASE SyncDelete
  <2>1. /\ Delete({faRemIsidVlanAsgnList[j]}) /\ j <= syncCount /\ j' = j + 1
        /\ UNCHANGED <<faServiceStatus, currentTime, faRemIsidVlanAsgnList, clockVars,
                       apiVars, syncTarget, syncCount, scanned>>
    BY <1>7 DEF SyncDelete
  <2>2. /\ status' \in [Binding -> Status \cup {"none"}]
        /\ lastUpdated' \in [Binding -> Time]
    BY <2>1, DeleteLeaves
  <2>3. j' \in 0 .. Cardinality(Binding) + 1
    BY <2>1, CellCount DEF RemovalsTypeOK
  <2> QED
    BY <2>1, <2>2, <2>3 DEF RemovalsTypeOK, TypeOK, clockVars, apiVars
<1>8. CASE SyncDone
  <2>1. syncCount' \in 0 .. Cardinality(Binding) /\ j' \in 0 .. Cardinality(Binding) + 1
    BY <1>8, CellCount DEF SyncDone
  <2> QED
    BY <1>8, <2>1 DEF SyncDone, RemovalsTypeOK, TypeOK, vars, clockVars, tableVars,
                      apiVars
<1> QED
  BY <1>1, <1>2, <1>3, <1>4, <1>5, <1>6, <1>7, <1>8 DEF Removal

LEMMA TypesStep == RemovalsTypeOK /\ [RemovalsNext]_allVars => RemovalsTypeOK'
<1> SUFFICES ASSUME RemovalsTypeOK, [RemovalsNext]_allVars
             PROVE  RemovalsTypeOK'
  OBVIOUS
<1>1. CASE Clock /\ scanned' = (scanned \/ ClockScan)
             /\ UNCHANGED <<syncTarget, syncCount, j>>
  BY <1>1, ClockTypes DEF RemovalsTypeOK
<1>2. CASE NotSyncing /\ Api /\ UNCHANGED syncVars
  BY <1>2, ApiTypes
<1>3. CASE Removal
  BY <1>3, RemovalStepTypes
<1>4. CASE UNCHANGED allVars
  BY <1>4 DEF allVars, vars, clockVars, tableVars, apiVars, syncVars,
              RemovalsTypeOK, TypeOK
<1> QED
  BY <1>1, <1>2, <1>3, <1>4 DEF RemovalsNext

(* Once written, a cell is never unused again.                              *)
LEMMA WrittenStays ==
    ASSUME RemovalsTypeOK, [RemovalsNext]_allVars
    PROVE  \A c \in Cells : faRemIsidVlanAsgnList[c] # Free
                           => faRemIsidVlanAsgnList'[c] # Free
<1> DEFINE Stays == \A c \in Cells : faRemIsidVlanAsgnList[c] # Free
                                     => faRemIsidVlanAsgnList'[c] # Free
<1> SUFFICES Stays
  OBVIOUS
<1>1. ASSUME NEW entries \in SUBSET Binding, faRemIsidVlanAsgnList' = Stored(entries)
      PROVE  Stays
  BY <1>1, StoredCopies
<1>2. CASE ClockScan
  <2>1. ExpiredIn(Binding, Expiration) \in SUBSET Binding
    BY DEF ExpiredIn
  <2>2. faRemIsidVlanAsgnList' = Stored(ExpiredIn(Binding, Expiration))
    BY <1>2 DEF ClockScan
  <2> QED
    BY <1>1, <2>1, <2>2
<1>3. CASE ApiCleanUp
  <2> DEFINE found == ExpiredIn({b \in Binding : PortOf[b] = PortOf[apiPc]}, ImmediateDel)
  <2>1. found \in SUBSET Binding
    BY DEF ExpiredIn
  <2>2. faRemIsidVlanAsgnList' = Stored(found)
    BY <1>3 DEF ApiCleanUp
  <2> HIDE DEF found
  <2> QED
    BY <1>1, <2>1, <2>2
<1>4. CASE ApiDisable
  <2>1. {b \in Held : status[b] = "ACTIVE"} \in SUBSET Binding
    BY DEF Held
  <2>2. faRemIsidVlanAsgnList' = Stored({b \in Held : status[b] = "ACTIVE"})
    BY <1>4 DEF ApiDisable
  <2> QED
    BY <1>1, <2>1, <2>2
<1>5. CASE PeerRemoval
  <2>1. {b \in Held : PortOf[b] \in VirtualIfc} \in SUBSET Binding
    BY DEF Held
  <2>2. faRemIsidVlanAsgnList' = Stored({b \in Held : PortOf[b] \in VirtualIfc})
    BY <1>5 DEF PeerRemoval, StoreAndDelete
  <2> QED
    BY <1>1, <2>1, <2>2
<1>6. ASSUME NEW b \in Binding, SyncScan(b)
      PROVE  Stays
  <2>1. Held \cap Mirrors(b) \in SUBSET Binding
    BY DEF Held
  <2>2. faRemIsidVlanAsgnList' = Stored(Held \cap Mirrors(b))
    BY <1>6 DEF SyncScan
  <2> QED
    BY <1>1, <2>1, <2>2
<1>7. CASE HostRemoval
  <2>1. faRemIsidVlanAsgnList' = [c \in Cells |-> IF c <= Cardinality(Held) THEN Nowhere
                                                 ELSE faRemIsidVlanAsgnList[c]]
    BY <1>7 DEF HostRemoval, StoreAndDelete
  <2>2. Nowhere # Free
    BY DEF Nowhere, Free
  <2> QED
    BY <2>1, <2>2
<1>8. CASE UNCHANGED faRemIsidVlanAsgnList
  BY <1>8
<1>9. Clock => ClockScan \/ UNCHANGED faRemIsidVlanAsgnList
  BY DEF Clock, ClockTick, ClockCheck, ClockDelete, ClockDone
<1>10. Api => ApiCleanUp \/ ApiDisable \/ UNCHANGED faRemIsidVlanAsgnList
  BY DEF Api, ApiProcess, ApiLink, ApiEnable
<1>11. Removal => \/ HostRemoval \/ PeerRemoval \/ \E b \in Binding : SyncScan(b)
                  \/ UNCHANGED faRemIsidVlanAsgnList
  BY DEF Removal, HostPortRemoval, ElemRemoval, StoreAndDelete, UpdateState,
         SyncDelete, SyncDone, allVars, vars
<1>12. CASE UNCHANGED allVars
  BY <1>12 DEF allVars, vars
<1> HIDE DEF Stays
<1>13. Clock => Stays
  BY <1>2, <1>8, <1>9
<1>14. Api => Stays
  BY <1>3, <1>4, <1>8, <1>10
<1>15. Removal => Stays
  BY <1>5, <1>6, <1>7, <1>8, <1>11
<1> QED
  BY <1>8, <1>12, <1>13, <1>14, <1>15 DEF RemovalsNext

(* The scan of the timer and that of the synchronisation, said with what    *)
(* they leave in the array.                                                 *)
LEMMA ClockScanCopies ==
    ASSUME RemovalsTypeOK, ClockScan
    PROVE  /\ i' = 1 /\ clockPc' = "delete" /\ MutexFree'
           /\ UNCHANGED <<currentTime, lastUpdated>> /\ Held' = Held
           /\ elemCount' = Cardinality(ExpiredIn(Binding, Expiration))
           /\ \A c \in 1 .. elemCount' : faRemIsidVlanAsgnList'[c] # Free
           /\ \A b \in ExpiredIn(Binding, Expiration) :
                 \E c \in 1 .. elemCount' : faRemIsidVlanAsgnList'[c] = b
<1> DEFINE found == ExpiredIn(Binding, Expiration)
<1>1. found \in SUBSET Binding /\ found \subseteq Held
  BY DEF ExpiredIn, Held
<1>2. /\ faRemIsidVlanAsgnList' = Stored(found)
      /\ status' = [b \in Binding |-> IF b \in found /\ Rejected(b)
                                      THEN "REJECTED" ELSE status[b]]
      /\ elemCount' = Cardinality(found) /\ i' = 1 /\ clockPc' = "delete"
      /\ MutexFree /\ UNCHANGED <<currentTime, lastUpdated, apiVars>>
  BY DEF ClockScan
<1> HIDE DEF found
<1>3. Held' = Held
  BY <1>1, <1>2 DEF Held
<1>4. /\ \A c \in 1 .. Cardinality(found) : faRemIsidVlanAsgnList'[c] \in found
      /\ \A e \in found : \E c \in 1 .. Cardinality(found) :
                              faRemIsidVlanAsgnList'[c] = e
  BY <1>1, <1>2, StoredCopies
<1>5. \A c \in 1 .. elemCount' : faRemIsidVlanAsgnList'[c] # Free
  BY <1>1, <1>2, <1>4, NoBindingIsFree
<1>6. \A b \in found : \E c \in 1 .. elemCount' : faRemIsidVlanAsgnList'[c] = b
  BY <1>2, <1>4
<1> QED
  BY <1>2, <1>3, <1>5, <1>6 DEF found, MutexFree, apiVars

LEMMA SyncScanCopies ==
    ASSUME RemovalsTypeOK, NEW b \in Binding, SyncScan(b)
    PROVE  /\ j' = 1 /\ syncTarget' = b /\ syncTarget' # Free
           /\ UNCHANGED <<tableVars, clockVars>>
           /\ overlapped' = TRUE
           /\ syncCount' = Cardinality(Found(b))
           /\ \A c \in 1 .. syncCount' : faRemIsidVlanAsgnList'[c] # Free
           /\ \A e \in Found(b) :
                 \E c \in 1 .. syncCount' : faRemIsidVlanAsgnList'[c] = e
<1>1. Found(b) \in SUBSET Binding
  BY DEF Held, Found
<1>2. /\ faRemIsidVlanAsgnList' = Stored(Found(b))
      /\ syncCount' = Cardinality(Found(b))
      /\ syncTarget' = b /\ j' = 1 /\ overlapped' = TRUE
      /\ UNCHANGED <<tableVars, clockVars>>
  BY DEF SyncScan, Found
<1>3. /\ \A c \in 1 .. Cardinality(Found(b)) : faRemIsidVlanAsgnList'[c] \in Found(b)
      /\ \A e \in Found(b) : \E c \in 1 .. Cardinality(Found(b)) :
                              faRemIsidVlanAsgnList'[c] = e
  BY <1>1, <1>2, StoredCopies
<1>4. \A c \in 1 .. syncCount' : faRemIsidVlanAsgnList'[c] # Free
  BY <1>1, <1>2, <1>3, NoBindingIsFree
<1>5. \A e \in Found(b) : \E c \in 1 .. syncCount' : faRemIsidVlanAsgnList'[c] = e
  BY <1>2, <1>3
<1> QED
  BY <1>2, <1>4, <1>5, NoBindingIsFree

(* No step of either thread takes a copy from the other's loop: it only     *)
(* ever puts other copies in their place.                                   *)
LEMMA CopiesStep ==
    ASSUME LoopsInv, [RemovalsNext]_allVars
    PROVE  CopiesInv'
<1>1. RemovalsTypeOK /\ CopiesInv
  BY DEF LoopsInv
<1>2. \A c \in Cells : faRemIsidVlanAsgnList[c] # Free
                       => faRemIsidVlanAsgnList'[c] # Free
  BY <1>1, WrittenStays
<1>3. \A n \in Int : n <= 0 => \A c \in Cells : ~(c <= n)
  BY CellCount
<1>4. CASE /\ clockPc' = "delete" => clockPc = "delete" /\ elemCount' = elemCount
           /\ syncCount' = syncCount \/ syncCount' = 0
  BY <1>1, <1>2, <1>3, <1>4 DEF CopiesInv
<1>5. CASE ClockScan /\ syncCount' = syncCount
  <2>1. \A c \in 1 .. elemCount' : faRemIsidVlanAsgnList'[c] # Free
    BY <1>1, <1>5, ClockScanCopies
  <2>2. \A c \in Cells : c <= elemCount' => c \in 1 .. elemCount'
    <3>1. elemCount' = Cardinality(ExpiredIn(Binding, Expiration))
      BY <1>1, <1>5, ClockScanCopies
    <3>2. ExpiredIn(Binding, Expiration) \in SUBSET Binding
      BY DEF ExpiredIn
    <3>3. elemCount' \in Int
      BY <3>1, <3>2, CellCount
    <3> QED
      BY <3>3, CellCount
  <2> QED
    BY <1>1, <1>2, <1>5, <2>1, <2>2 DEF CopiesInv
<1>6. ASSUME NEW b \in Binding, SyncScan(b)
      PROVE  CopiesInv'
  <2>1. /\ \A c \in 1 .. syncCount' : faRemIsidVlanAsgnList'[c] # Free
        /\ syncCount' = Cardinality(Found(b))
        /\ UNCHANGED clockVars
    BY <1>1, <1>6, SyncScanCopies
  <2>2. \A c \in Cells : c <= syncCount' => c \in 1 .. syncCount'
    <3>1. Found(b) \in SUBSET Binding
      BY DEF Held, Found
    <3>2. syncCount' \in Int
      BY <2>1, <3>1, CellCount
    <3> QED
      BY <3>2, CellCount
  <2> QED
    BY <1>1, <1>2, <2>1, <2>2 DEF CopiesInv, clockVars
<1> HIDE DEF CopiesInv
<1>7. Clock /\ syncCount' = syncCount => CopiesInv'
  BY <1>4, <1>5 DEF Clock, ClockTick, ClockCheck, ClockDelete, ClockDone
<1>8. Api /\ UNCHANGED syncVars => CopiesInv'
  BY <1>4 DEF Api, ApiProcess, ApiLink, ApiCleanUp, ApiDisable, ApiEnable,
              clockVars, syncVars
<1>9. Removal => CopiesInv'
  BY <1>4, <1>6 DEF Removal, HostRemoval, HostPortRemoval, PeerRemoval, ElemRemoval,
       StoreAndDelete, UpdateState, SyncDelete, SyncDone, allVars, vars, clockVars,
       syncVars
<1>10. CASE UNCHANGED allVars
  BY <1>4, <1>10 DEF allVars, vars, clockVars, syncVars
<1> QED
  BY <1>7, <1>8, <1>9, <1>10 DEF RemovalsNext

LEMMA CountersStep ==
    ASSUME LoopsInv, [RemovalsNext]_allVars
    PROVE  CountersInv'
<1>1. /\ CountersInv
      /\ i \in Nat /\ j \in Nat
  BY CellCount DEF LoopsInv, RemovalsTypeOK, TypeOK
<1>2. Clock /\ UNCHANGED <<syncTarget, syncCount, j>> => CountersInv'
  BY <1>1 DEF Clock, ClockTick, ClockCheck, ClockScan, ClockDelete, ClockDone,
              CountersInv, NotSyncing
<1>3. Api /\ UNCHANGED syncVars => CountersInv'
  BY <1>1 DEF Api, ApiProcess, ApiLink, ApiCleanUp, ApiDisable, ApiEnable,
              CountersInv, clockVars, syncVars, NotSyncing
<1>4. CASE Removal
  <2>1. UNCHANGED clockVars
    BY <1>4 DEF Removal, HostRemoval, HostPortRemoval, PeerRemoval, ElemRemoval,
         StoreAndDelete, UpdateState, SyncScan, SyncDelete, SyncDone, allVars, vars
  <2>2. \/ UNCHANGED <<syncTarget, j>> \/ j' = 1 \/ j' = j + 1 \/ syncTarget' = Free
    BY <1>4 DEF Removal, HostRemoval, HostPortRemoval, PeerRemoval, ElemRemoval,
         StoreAndDelete, UpdateState, SyncScan, SyncDelete, SyncDone, allVars, syncVars
  <2> QED
    BY <1>1, <2>1, <2>2 DEF CountersInv, clockVars, NotSyncing
<1>5. UNCHANGED allVars => CountersInv'
  BY <1>1 DEF allVars, vars, clockVars, syncVars, CountersInv, NotSyncing
<1> QED
  BY <1>2, <1>3, <1>4, <1>5 DEF RemovalsNext

(* One turn of either loop, as far as its own list goes.                    *)
LEMMA TurnTaken ==
    ASSUME NEW f, NEW first \in Nat, NEW last \in Nat, NEW S,
           \A b \in S : \E c \in first .. last : f[c] = b
    PROVE  \A b \in S \ {f[first]} : \E c \in first + 1 .. last : f[c] = b
<1> TAKE b \in S \ {f[first]}
<1>1. PICK c \in first .. last : f[c] = b
  OBVIOUS
<1>2. c # first
  BY <1>1
<1>3. c \in first + 1 .. last
  BY <1>2
<1> QED
  BY <1>1, <1>3

LEMMA RunStep ==
    ASSUME LoopsInv, [RemovalsNext]_allVars
    PROVE  RunInv'
<1> DEFINE found == ExpiredIn(Binding, Expiration)
           runVars == <<status, lastUpdated, currentTime, faRemIsidVlanAsgnList,
                        clockPc, elemCount, i, apiPc, overlapped>>
<1>1. /\ RemovalsTypeOK /\ RunInv
      /\ i \in Nat /\ elemCount \in Nat
  BY CellCount DEF LoopsInv, RemovalsTypeOK, TypeOK
<1>2. CASE ClockScan
  <2>1. /\ i' = 1 /\ MutexFree'
        /\ UNCHANGED <<currentTime, lastUpdated>> /\ Held' = Held
        /\ \A b \in found : \E c \in 1 .. elemCount' : faRemIsidVlanAsgnList'[c] = b
    BY <1>1, <1>2, ClockScanCopies
  <2>2. found' = found
    BY <2>1 DEF ExpiredIn
  <2> QED
    BY <2>1, <2>2 DEF RunInv
<1>3. CASE ClockDelete
  <2>1. /\ Delete({faRemIsidVlanAsgnList[i]}) /\ i' = i + 1 /\ clockPc = "delete"
        /\ UNCHANGED <<currentTime, faRemIsidVlanAsgnList, clockPc, elemCount,
                       apiPc, overlapped>>
    BY <1>3 DEF ClockDelete, apiVars
  <2>2. found' = found \ {faRemIsidVlanAsgnList[i]}
    BY <1>1, <2>1, DeleteLeaves
  <2> HIDE DEF found
  <2>3. ASSUME ~overlapped
        PROVE  /\ MutexFree
               /\ \A b \in found \ {faRemIsidVlanAsgnList[i]} :
                     \E c \in i + 1 .. elemCount : faRemIsidVlanAsgnList[c] = b
    <3>1. /\ MutexFree
          /\ \A b \in found : \E c \in i .. elemCount : faRemIsidVlanAsgnList[c] = b
      BY <1>1, <2>1, <2>3 DEF RunInv, found
    <3> QED
      BY <3>1, <1>1, TurnTaken
  <2>4. ~overlapped' =>
          /\ MutexFree'
          /\ \A b \in found' : \E c \in i' .. elemCount' : faRemIsidVlanAsgnList'[c] = b
    BY <2>1, <2>2, <2>3 DEF MutexFree
  <2> QED
    BY <2>4 DEF RunInv, found
<1>4. CASE SyncDelete
  <2>1. /\ Delete({faRemIsidVlanAsgnList[j]})
        /\ UNCHANGED <<currentTime, faRemIsidVlanAsgnList, clockVars, apiPc, overlapped>>
    BY <1>4 DEF SyncDelete, apiVars
  <2>2. found' = found \ {faRemIsidVlanAsgnList[j]}
    BY <1>1, <2>1, DeleteLeaves
  <2> QED
    BY <1>1, <2>1, <2>2 DEF RunInv, MutexFree, clockVars
<1>5. CASE overlapped' \/ clockPc' # "delete"
  BY <1>5 DEF RunInv
<1>6. CASE UNCHANGED runVars
  BY <1>1, <1>6 DEF RunInv, MutexFree, ExpiredIn, Held
<1>7. CASE ApiCleanUp \/ \E accepted \in BOOLEAN : ApiLink(accepted)
  <2>1. ~MutexFree /\ UNCHANGED <<clockVars, overlapped>>
    BY <1>7 DEF ApiCleanUp, ApiLink
  <2> QED
    BY <1>1, <2>1 DEF RunInv, clockVars
<1>8. Clock => ClockScan \/ ClockDelete \/ clockPc' # "delete"
  BY DEF Clock, ClockTick, ClockCheck, ClockDone
<1>9. Api => \/ ApiCleanUp \/ \E accepted \in BOOLEAN : ApiLink(accepted)
             \/ overlapped'
  BY DEF Api, ApiProcess, ApiDisable, ApiEnable
<1>10. Removal => SyncDelete \/ overlapped' \/ UNCHANGED runVars
  BY DEF Removal, HostRemoval, HostPortRemoval, PeerRemoval, ElemRemoval,
         StoreAndDelete, UpdateState, SyncScan, SyncDone, allVars, vars, tableVars,
         clockVars, apiVars
<1>11. UNCHANGED allVars => UNCHANGED runVars
  BY DEF allVars, vars, tableVars, clockVars, apiVars
<1> QED
  BY <1>2, <1>3, <1>4, <1>5, <1>6, <1>7, <1>8, <1>9, <1>10, <1>11 DEF RemovalsNext

LEMMA SyncStep ==
    ASSUME LoopsInv, [RemovalsNext]_allVars
    PROVE  SyncInv'
<1> DEFINE keptVars == <<status, faRemIsidVlanAsgnList, syncVars>>
<1>1. /\ RemovalsTypeOK /\ SyncInv
      /\ j \in Nat /\ syncCount \in Nat
  BY CellCount DEF LoopsInv, RemovalsTypeOK
<1>2. ASSUME NEW b \in Binding, SyncScan(b)
      PROVE  SyncInv'
  <2>1. /\ j' = 1 /\ syncTarget' = b /\ UNCHANGED tableVars
        /\ \A e \in Found(b) : \E c \in 1 .. syncCount' : faRemIsidVlanAsgnList'[c] = e
    BY <1>1, <1>2, SyncScanCopies
  <2>2. Held' \cap Mirrors(syncTarget)' = Found(b)
    BY <2>1 DEF Found, Mirrors, Held, tableVars
  <2> QED
    BY <2>1, <2>2 DEF SyncInv
<1>3. CASE SyncDelete
  <2>1. /\ Delete({faRemIsidVlanAsgnList[j]}) /\ j' = j + 1 /\ ~NotSyncing
        /\ UNCHANGED <<currentTime, faRemIsidVlanAsgnList, syncTarget, syncCount, scanned>>
    BY <1>3 DEF SyncDelete
  <2>2. Held' = Held \ {faRemIsidVlanAsgnList[j]}
    BY <1>1, <2>1, DeleteLeaves
  <2>3. ASSUME ~scanned
        PROVE  \A b \in Found(syncTarget) \ {faRemIsidVlanAsgnList[j]} :
                 \E c \in j + 1 .. syncCount : faRemIsidVlanAsgnList[c] = b
    <3>1. \A b \in Found(syncTarget) :
            \E c \in j .. syncCount : faRemIsidVlanAsgnList[c] = b
      BY <1>1, <2>1, <2>3 DEF SyncInv, Found
    <3> QED
      BY <3>1, <1>1, TurnTaken
  <2>4. Held' \cap Mirrors(syncTarget)' = Found(syncTarget) \ {faRemIsidVlanAsgnList[j]}
    BY <2>1, <2>2 DEF Found, Mirrors
  <2> QED
    BY <2>1, <2>3, <2>4 DEF SyncInv
<1>4. CASE ClockDelete /\ UNCHANGED <<syncTarget, syncCount, j>> /\ (~scanned' => ~scanned)
  <2>1. /\ Delete({faRemIsidVlanAsgnList[i]})
        /\ UNCHANGED <<currentTime, faRemIsidVlanAsgnList>>
    BY <1>4 DEF ClockDelete
  <2>2. Held' = Held \ {faRemIsidVlanAsgnList[i]}
    BY <1>1, <2>1, DeleteLeaves
  <2> QED
    BY <1>1, <1>4, <2>1, <2>2 DEF SyncInv, NotSyncing, Mirrors
<1>5. CASE scanned' \/ NotSyncing'
  BY <1>5 DEF SyncInv
<1>6. CASE /\ UNCHANGED <<status, faRemIsidVlanAsgnList, syncTarget, syncCount, j>>
           /\ ~scanned' => ~scanned
  BY <1>1, <1>6 DEF SyncInv, Held, Mirrors, NotSyncing
<1>7. CASE Clock /\ scanned' = (scanned \/ ClockScan)
             /\ UNCHANGED <<syncTarget, syncCount, j>>
  <2>1. CASE ClockScan
    <3>1. scanned' = TRUE
      BY <1>7, <2>1 DEF RemovalsTypeOK
    <3> QED
      BY <3>1, <1>5
  <2>2. CASE ~ClockScan
    <3>1. scanned' = scanned
      BY <1>1, <1>7, <2>2 DEF RemovalsTypeOK
    <3>2. ClockDelete \/ UNCHANGED <<status, faRemIsidVlanAsgnList>>
      BY <1>7, <2>2 DEF Clock, ClockTick, ClockCheck, ClockDone, tableVars
    <3> QED
      BY <1>4, <1>6, <1>7, <3>1, <3>2
  <2> QED
    BY <2>1, <2>2
<1>8. CASE NotSyncing /\ Api /\ UNCHANGED syncVars
  <2>1. NotSyncing'
    BY <1>8 DEF NotSyncing, syncVars
  <2> QED
    BY <2>1, <1>5
<1>9. CASE Removal
  <2>1. (\E b \in Binding : SyncScan(b)) \/ SyncDelete \/ NotSyncing'
    BY <1>9 DEF Removal, HostRemoval, HostPortRemoval, PeerRemoval, ElemRemoval,
         StoreAndDelete, UpdateState, SyncDone, allVars, syncVars, NotSyncing
  <2> QED
    BY <2>1, <1>2, <1>3, <1>5
<1>10. CASE UNCHANGED allVars
  BY <1>6, <1>10 DEF allVars, vars, tableVars, syncVars
<1> QED
  BY <1>7, <1>8, <1>9, <1>10 DEF RemovalsNext

LEMMA LoopsInvInitially == RemovalsInit => LoopsInv
<1> SUFFICES ASSUME RemovalsInit PROVE LoopsInv
  OBVIOUS
<1>1. /\ faServiceStatus = TRUE /\ currentTime = 0
      /\ status = [b \in Binding |-> "none"] /\ lastUpdated = [b \in Binding |-> 0]
      /\ faRemIsidVlanAsgnList = [c \in Cells |-> Free]
      /\ clockPc = "asleep" /\ elemCount = 0 /\ i = 0
      /\ apiPc = Free /\ stamp = NoStamp /\ foundEmpty = FALSE
      /\ overlapped = FALSE
      /\ syncTarget = Free /\ syncCount = 0 /\ j = 0 /\ scanned = FALSE
  BY DEF RemovalsInit, Init
<1>2. 0 \in 0 .. Cardinality(Binding) /\ 0 \in 0 .. Cardinality(Binding) + 1
  BY CellCount
<1>3. RemovalsTypeOK
  <2>1. 0 \in Time
    BY WAssumption DEF Time
  <2>2. /\ status \in [Binding -> Status \cup {"none"}]
        /\ lastUpdated \in [Binding -> Time]
        /\ faRemIsidVlanAsgnList \in [Cells -> Binding \cup {Free, Nowhere}]
    BY <1>1, <2>1
  <2> QED
    BY <1>1, <1>2, <2>1, <2>2 DEF RemovalsTypeOK, TypeOK
<1>4. CopiesInv /\ CountersInv /\ RunInv /\ SyncInv
  BY <1>1, CellCount DEF CopiesInv, CountersInv, RunInv, SyncInv, NotSyncing
<1> QED
  BY <1>3, <1>4 DEF LoopsInv

LEMMA LoopsInvStep == LoopsInv /\ [RemovalsNext]_allVars => LoopsInv'
<1>1. LoopsInv => RemovalsTypeOK
  BY DEF LoopsInv
<1> QED
  BY <1>1, TypesStep, CopiesStep, CountersStep, RunStep, SyncStep DEF LoopsInv

(* The invariant of the two loops holds in every state.                     *)
THEOREM LoopsInvariance == RemovalsSpec => []LoopsInv
  BY LoopsInvInitially, LoopsInvStep, PTL DEF RemovalsSpec

(* Every variable has its type: the counters of both loops stay within the  *)
(* array, however the other thread's steps come between.                    *)
THEOREM RemovalsTypesInvariance == RemovalsSpec => []RemovalsTypeOK
<1>1. LoopsInv => RemovalsTypeOK
  BY DEF LoopsInv
<1> QED
  BY <1>1, LoopsInvariance, PTL

(* Neither loop reads a cell that was never written, although either thread *)
(* overwrites the array while the other's loop is under way.                *)
THEOREM OnlyCopiesAreRead == RemovalsSpec => []LoopsReadCopies
<1>1. LoopsInv => LoopsReadCopies
  <2> SUFFICES ASSUME LoopsInv PROVE LoopsReadCopies
    OBVIOUS
  <2>1. /\ i \in Int /\ j \in Int
        /\ elemCount \in 0 .. Cardinality(Binding)
        /\ syncCount \in 0 .. Cardinality(Binding)
        /\ clockPc = "delete" => i >= 1
        /\ CopiesInv
    BY CellCount DEF LoopsInv, RemovalsTypeOK, TypeOK, CountersInv
  <2>2. LoopReadsCopies
    BY <2>1, CellCount DEF CopiesInv, LoopReadsCopies
  <2>3. \A c \in j .. syncCount : c > 0 => faRemIsidVlanAsgnList[c] # Free
    BY <2>1, CellCount DEF CopiesInv
  <2> QED
    BY <2>2, <2>3 DEF LoopsReadCopies
<1> QED
  BY <1>1, LoopsInvariance, PTL

(* A run of the timer that no call overlapped leaves no expired entry.      *)
THEOREM UndisturbedRunsAreExact == RemovalsSpec => UndisturbedRunExact
<1> DEFINE Exact == ClockDone /\ ~overlapped => ExpiredIn(Binding, Expiration) = {}
<1>1. LoopsInv => Exact
  <2> SUFFICES ASSUME LoopsInv, ClockDone, ~overlapped
               PROVE  ExpiredIn(Binding, Expiration) = {}
    OBVIOUS
  <2>1. clockPc = "delete" /\ i > elemCount
    BY DEF ClockDone
  <2>2. i \in Int /\ elemCount \in Int
    BY CellCount DEF LoopsInv, RemovalsTypeOK, TypeOK
  <2>3. i .. elemCount = {}
    BY <2>1, <2>2
  <2>4. \A b \in ExpiredIn(Binding, Expiration) :
          \E c \in i .. elemCount : faRemIsidVlanAsgnList[c] = b
    BY <2>1 DEF LoopsInv, RunInv
  <2> QED
    BY <2>3, <2>4
<1>2. LoopsInv => [Exact]_vars
  BY <1>1
<1> QED
  BY <1>2, LoopsInvariance, PTL DEF UndisturbedRunExact

(* A synchronisation that no run of the timer overlapped leaves no mirror   *)
(* of its target on another port of the trunk.                              *)
THEOREM SyncsAreComplete == RemovalsSpec => SyncLeavesNoMirror
<1> DEFINE Complete ==
               SyncDone /\ ~scanned => Held \cap TrunkMirrors(syncTarget) = {}
<1>1. LoopsInv => Complete
  <2> SUFFICES ASSUME LoopsInv, SyncDone, ~scanned
               PROVE  Held \cap TrunkMirrors(syncTarget) = {}
    OBVIOUS
  <2>1. ~NotSyncing /\ j > syncCount
    BY DEF SyncDone
  <2>2. j \in Int /\ syncCount \in Int
    BY CellCount DEF LoopsInv, RemovalsTypeOK
  <2>3. j .. syncCount = {}
    BY <2>1, <2>2
  <2>4. \A b \in Held \cap Mirrors(syncTarget) :
          \E c \in j .. syncCount : faRemIsidVlanAsgnList[c] = b
    BY <2>1 DEF LoopsInv, SyncInv
  <2>5. TrunkMirrors(syncTarget) \subseteq Mirrors(syncTarget)
    BY DEF TrunkMirrors
  <2> QED
    BY <2>3, <2>4, <2>5
<1>2. LoopsInv => [Complete]_allVars
  BY <1>1
<1> QED
  BY <1>2, LoopsInvariance, PTL DEF SyncLeavesNoMirror
=============================================================================
