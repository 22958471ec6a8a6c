--------------------------- MODULE AAServerProofs ---------------------------
(***************************************************************************)
(* Proofs about AAServer for every set of interfaces and bindings, every    *)
(* capacity, every width of the clock and every set of tick lengths.        *)
(***************************************************************************)
EXTENDS AAServer, FiniteSetTheorems, TLAPS

(* The entries of an element that was never configured: none, since such an *)
(* element does not heed bindings.  Needed because it does not maintain its *)
(* list either.                                                             *)
UnsetIsEmpty == faElementType = "unset" => Held = {}

(* The inductive invariant. *)
IInv == TypeOK /\ UnsetIsEmpty /\ NoFutureEntry /\ CapacityRespected
-----------------------------------------------------------------------------
(* The sum of two clock values is a clock value. *)
LEMMA PlusType == ASSUME NEW a \in Time, NEW b \in Time
                  PROVE  Plus(a, b) \in Time
  BY WAssumption DEF Time, Plus

(* Where nothing wraps, the code's test is the true age test. *)
LEMMA ExpiredIsAge ==
    ASSUME NEW u \in Time, NEW e \in Time, NEW t \in Time, NoWrap(u, e, t)
    PROVE  Expired(u, e, t) <=> OldEnough(u, e, t)
  BY WAssumption DEF Time, Plus, Expired, OldEnough, NoWrap

(* An entry that reached the limit is always collected, wrap or no wrap. *)
LEMMA OldIsExpired ==
    ASSUME NEW u \in Time, NEW e \in Time, NEW t \in Time, OldEnough(u, e, t)
    PROVE  Expired(u, e, t)
  BY WAssumption DEF Time, Plus, Expired, OldEnough

(* What a maintenance run leaves of a well-typed table: entries it did not  *)
(* collect, unchanged.                                                      *)
LEMMA MaintainKeeps ==
    ASSUME NEW sts \in [Binding -> Status \cup {"none"}],
           NEW times \in [Binding -> Time],
           NEW limit \in Time, NEW scope \in SUBSET Binding, NEW now \in Time,
           Maintain(sts, times, limit, scope, now)
    PROVE  /\ status' \in [Binding -> Status \cup {"none"}]
           /\ lastUpdated' \in [Binding -> Time]
           /\ \A b \in Binding : status'[b] # "none" =>
                 /\ status'[b] = sts[b]
                 /\ lastUpdated'[b] = times[b]
                 /\ b \in scope => ~Expired(times[b], limit, now)
           /\ \A b \in Binding : status'[b] = "none" /\ sts[b] # "none" =>
                 b \in scope /\ Expired(times[b], limit, now)
  BY WAssumption DEF Maintain, Collected, StatusWithout, TimesWithout, Time

(* A subset of a finite set that respects a bound respects it. *)
LEMMA SmallerTable ==
    ASSUME NEW S \in SUBSET Binding, NEW T \in SUBSET S, NEW n \in Nat,
           Cardinality(S) <= n
    PROVE  Cardinality(T) <= n
<1>1. IsFiniteSet(S) /\ IsFiniteSet(T)
  BY FS_Subset, ServerAssumption
<1>2. Cardinality(T) <= Cardinality(S) /\ Cardinality(T) \in Nat /\ Cardinality(S) \in Nat
  BY <1>1, FS_Subset, FS_CardinalityType
<1> QED
  BY <1>2

(* One binding more stays within the bound if there was room for it. *)
LEMMA OneMore ==
    ASSUME NEW S \in SUBSET Binding, NEW b \in Binding, NEW n \in Nat,
           Cardinality(S) <= n, b \in S \/ ~(Cardinality(S) >= n)
    PROVE  Cardinality(S \cup {b}) <= n
<1>1. IsFiniteSet(S) /\ Cardinality(S) \in Nat
  BY FS_Subset, ServerAssumption, FS_CardinalityType
<1>2. CASE b \in S
  <2>1. S \cup {b} = S  BY <1>2
  <2> QED  BY <2>1
<1>3. CASE b \notin S
  <2>1. Cardinality(S \cup {b}) = Cardinality(S) + 1
    BY <1>1, <1>3, FS_AddElement
  <2> QED  BY <1>1, <1>3, <2>1
<1> QED
  BY <1>2, <1>3
-----------------------------------------------------------------------------
(* The table that a message leaves to its clean-up. *)
UpdatedStatus(b, request, accepted) ==
    IF Admissible(b)
    THEN [status EXCEPT ![b] = Decided(b, request, accepted)] ELSE status
UpdatedTimes(b) ==
    IF Admissible(b)
    THEN [lastUpdated EXCEPT ![b] = currentTime] ELSE lastUpdated

(* It is well typed, has at most b more than the table had, and its entries *)
(* are as old as they were, b's excepted.                                   *)
LEMMA UpdateFacts ==
    ASSUME TypeOK, NEW b \in Binding, NEW request \in Requested,
           NEW accepted \in BOOLEAN
    PROVE  /\ UpdatedStatus(b, request, accepted) \in [Binding -> Status \cup {"none"}]
           /\ UpdatedTimes(b) \in [Binding -> Time]
           /\ \A c \in Binding \ {b} :
                 /\ UpdatedStatus(b, request, accepted)[c] = status[c]
                 /\ UpdatedTimes(b)[c] = lastUpdated[c]
           /\ Admissible(b) => /\ UpdatedStatus(b, request, accepted)[b] # "none"
                               /\ UpdatedTimes(b)[b] = currentTime
           /\ ~Admissible(b) => UpdatedStatus(b, request, accepted)[b] = "none"
  BY ServerAssumption DEF TypeOK, UpdatedStatus, UpdatedTimes, Decided, Status,
                          Admissible, Held

(* A message is a maintenance run on that table. *)
LEMMA ReceiveMaintains ==
    ASSUME NEW b \in Binding, NEW request \in Requested, NEW accepted \in BOOLEAN,
           ReceiveBinding(b, request, accepted)
    PROVE  /\ Maintain(UpdatedStatus(b, request, accepted), UpdatedTimes(b),
                       ImmediateDel, Scope(PortOf[b]), currentTime)
           /\ faElementType = "server"
           /\ UNCHANGED <<configVars, currentTime>>
  BY DEF ReceiveBinding, UpdatedStatus, UpdatedTimes, Heeded

(* A configuration step leaves the table and the clock alone. *)
LEMMA ConfigureFacts ==
    ASSUME TypeOK, Configure
    PROVE  /\ UNCHANGED <<tableVars, currentTime>>
           /\ faServiceStatus' \in BOOLEAN
           /\ faElementType' \in {faElementType, "server"}
           /\ faPorts' \subseteq Port
           /\ expiration' \in Expirations
  BY DEF TypeOK, Configure, ConfigureElement, EnableService, DisableService,
         ConfigureExpiration, EnablePort, DisablePort, tableVars

(* The bindings of an interface are bindings. *)
LEMMA ScopeType == ASSUME NEW p PROVE Scope(p) \in SUBSET Binding
  BY DEF Scope
-----------------------------------------------------------------------------
(* The invariant holds initially. *)
LEMMA InitInv == Init => IInv
<1> SUFFICES ASSUME Init PROVE IInv
  OBVIOUS
<1>1. Held = {}
  BY DEF Init, Held
<1>2. TypeOK
  <2>1. 0 \in Time
    BY WAssumption DEF Time
  <2> QED
    BY <2>1, ServerAssumption DEF Init, TypeOK
<1>3. CapacityRespected
  BY <1>1, FS_EmptySet, ServerAssumption DEF CapacityRespected
<1> QED
  BY <1>1, <1>2, <1>3 DEF IInv, UnsetIsEmpty, NoFutureEntry

(* A message preserves it: the clean-up keeps the updated table's types and *)
(* only removes; the update adds at most the binding there was room for.    *)
LEMMA ReceiveInv ==
    ASSUME IInv, NEW b \in Binding, NEW request \in Requested,
           NEW accepted \in BOOLEAN, ReceiveBinding(b, request, accepted)
    PROVE  IInv'
<1> DEFINE sts == UpdatedStatus(b, request, accepted)
           times == UpdatedTimes(b)
<1>t. TypeOK
  BY DEF IInv
<1>1. /\ sts \in [Binding -> Status \cup {"none"}]
      /\ times \in [Binding -> Time]
      /\ \A c \in Binding \ {b} : sts[c] = status[c] /\ times[c] = lastUpdated[c]
      /\ Admissible(b) => sts[b] # "none" /\ times[b] = currentTime
      /\ ~Admissible(b) => sts[b] = "none"
  BY <1>t, UpdateFacts
<1>2. /\ Maintain(sts, times, ImmediateDel, Scope(PortOf[b]), currentTime)
      /\ faElementType = "server"
      /\ UNCHANGED <<configVars, currentTime>>
  BY ReceiveMaintains
<1>3. ImmediateDel \in Time /\ currentTime \in Time
  BY <1>t, ServerAssumption DEF TypeOK
<1> HIDE DEF sts, times
<1>4. /\ status' \in [Binding -> Status \cup {"none"}]
      /\ lastUpdated' \in [Binding -> Time]
      /\ \A c \in Binding : status'[c] # "none" =>
            status'[c] = sts[c] /\ lastUpdated'[c] = times[c]
  <2>1. Scope(PortOf[b]) \in SUBSET Binding
    BY ScopeType
  <2> QED
    BY <1>1, <1>2, <2>1, WAssumption
       DEF Maintain, Collected, StatusWithout, TimesWithout, Time
<1>5. TypeOK'
  BY <1>t, <1>2, <1>4 DEF TypeOK, configVars
<1>6. NoFutureEntry'
  <2> SUFFICES ASSUME NEW c \in Held' PROVE lastUpdated'[c] <= currentTime'
    BY DEF NoFutureEntry
  <2>1. c \in Binding /\ status'[c] # "none" /\ sts[c] # "none" /\ lastUpdated'[c] = times[c]
    BY <1>4 DEF Held
  <2>2. CASE c = b
    BY <1>1, <1>2, <1>3, <2>1, <2>2 DEF Time
  <2>3. CASE c # b
    <3>1. c \in Held /\ times[c] = lastUpdated[c]
      BY <1>1, <2>1, <2>3 DEF Held
    <3> QED
      BY <1>2, <2>1, <3>1 DEF IInv, NoFutureEntry
  <2> QED
    BY <2>2, <2>3
<1>7. CapacityRespected'
  <2>1. Held \in SUBSET Binding
    BY DEF Held
  <2>2. CASE Admissible(b)
    <3>1. Cardinality(Held \cup {b}) <= MaxRemote
      BY <2>1, <2>2, OneMore, ServerAssumption
         DEF IInv, CapacityRespected, Admissible, Full
    <3>2. Held' \in SUBSET (Held \cup {b})
      BY <1>1, <1>4 DEF Held
    <3> QED
      BY <2>1, <3>1, <3>2, SmallerTable, ServerAssumption DEF CapacityRespected
  <2>3. CASE ~Admissible(b)
    <3>1. Held' \in SUBSET Held
      BY <1>1, <1>4, <2>3 DEF Held
    <3> QED
      BY <2>1, <3>1, SmallerTable, ServerAssumption DEF IInv, CapacityRespected
  <2> QED
    BY <2>2, <2>3
<1>8. UnsetIsEmpty'
  BY <1>2 DEF UnsetIsEmpty, configVars
<1> QED
  BY <1>5, <1>6, <1>7, <1>8 DEF IInv

(* A tick preserves it: an entry newer than the clock is collected. *)
LEMMA TickInv ==
    ASSUME IInv, NEW step \in TickSteps, Tick(step)
    PROVE  IInv'
<1>t. TypeOK
  BY DEF IInv
<1>1. currentTime' \in Time /\ expiration \in Time /\ UNCHANGED configVars
  BY <1>t, PlusType, ServerAssumption DEF Tick, TypeOK
<1>2. CASE faElementType = "server"
  <2>1. Maintain(status, lastUpdated, expiration, Binding, currentTime')
    BY <1>2 DEF Tick
  <2>2. /\ status' \in [Binding -> Status \cup {"none"}]
        /\ lastUpdated' \in [Binding -> Time]
        /\ \A b \in Binding : status'[b] # "none" =>
              /\ status'[b] = status[b]
              /\ lastUpdated'[b] = lastUpdated[b]
              /\ ~Expired(lastUpdated[b], expiration, currentTime')
    BY <1>t, <1>1, <2>1, MaintainKeeps DEF TypeOK
  <2>3. TypeOK'
    BY <1>t, <1>1, <2>2 DEF TypeOK, configVars
  <2>4. NoFutureEntry'
    BY <1>1, <2>2 DEF NoFutureEntry, Held, Expired, Time
  <2>5. Held' \in SUBSET Held /\ Held \in SUBSET Binding
    BY <2>2 DEF Held
  <2>6. CapacityRespected'
    BY <2>5, SmallerTable, ServerAssumption DEF IInv, CapacityRespected
  <2>7. UnsetIsEmpty'
    BY <1>1, <1>2 DEF UnsetIsEmpty, configVars
  <2> QED
    BY <2>3, <2>4, <2>6, <2>7 DEF IInv
<1>3. CASE faElementType # "server"
  <2>1. UNCHANGED tableVars
    BY <1>3 DEF Tick
  <2>2. Held = {} /\ Held' = Held
    BY <1>t, <1>3, <2>1 DEF TypeOK, IInv, UnsetIsEmpty, Held, tableVars
  <2>3. TypeOK'
    BY <1>t, <1>1, <2>1 DEF TypeOK, configVars, tableVars
  <2> QED
    BY <1>1, <2>2, <2>3 DEF IInv, UnsetIsEmpty, NoFutureEntry, CapacityRespected, configVars
<1> QED
  BY <1>2, <1>3

(* A configuration step preserves it. *)
LEMMA ConfigureInv ==
    ASSUME IInv, Configure
    PROVE  IInv'
<1>1. /\ UNCHANGED <<tableVars, currentTime>>
      /\ faServiceStatus' \in BOOLEAN
      /\ faElementType' \in {faElementType, "server"}
      /\ faPorts' \subseteq Port
      /\ expiration' \in Expirations
  BY ConfigureFacts DEF IInv
<1>2. Held' = Held
  BY <1>1 DEF Held, tableVars
<1>3. TypeOK'
  BY <1>1 DEF IInv, TypeOK, tableVars
<1> QED
  BY <1>1, <1>2, <1>3 DEF IInv, UnsetIsEmpty, NoFutureEntry, CapacityRespected, tableVars

(* Every step preserves the invariant. *)
LEMMA NextInv == IInv /\ [Next]_vars => IInv'
<1> SUFFICES ASSUME IInv, [Next]_vars PROVE IInv'
  OBVIOUS
<1>1. CASE Receive
  BY <1>1, ReceiveInv DEF Receive
<1>2. CASE UNCHANGED vars \/ Ignore
  <2>1. UNCHANGED vars
    BY <1>2 DEF Ignore, IgnoreBinding
  <2> QED
    BY <2>1 DEF vars, configVars, tableVars, IInv, TypeOK, UnsetIsEmpty,
                NoFutureEntry, CapacityRespected, Held
<1>3. CASE TimePasses
  BY <1>3, TickInv DEF TimePasses
<1>4. CASE Configure
  BY <1>4, ConfigureInv
<1> QED
  BY <1>1, <1>2, <1>3, <1>4 DEF Next

(* The invariant holds in every state. *)
THEOREM Invariance == Spec => []IInv
  BY InitInv, NextInv, PTL DEF Spec

(* Type correctness. *)
THEOREM TypeCorrect == Spec => []TypeOK
<1>1. IInv => TypeOK
  BY DEF IInv
<1> QED
  BY <1>1, Invariance, PTL

(* The table never outgrows its limit. *)
THEOREM Capacity == Spec => []CapacityRespected
<1>1. IInv => CapacityRespected
  BY DEF IInv
<1> QED
  BY <1>1, Invariance, PTL

(* No entry is ever newer than the clock, although the clock wraps. *)
THEOREM NoFuture == Spec => []NoFutureEntry
<1>1. IInv => NoFutureEntry
  BY DEF IInv
<1> QED
  BY <1>1, Invariance, PTL
-----------------------------------------------------------------------------
(* A tick that maintains the list leaves no entry that is old enough for    *)
(* the configured term, nor one of the future.                              *)
LEMMA TickPurges ==
    ASSUME IInv, NEW step \in TickSteps, Tick(step), NEW b \in Binding,
           status'[b] # "none"
    PROVE  /\ lastUpdated'[b] <= currentTime'
           /\ ~OldEnough(lastUpdated'[b], expiration, currentTime')
<1>1. TypeOK /\ IInv'
  BY TickInv DEF IInv
<1>2. currentTime' \in Time /\ lastUpdated'[b] \in Time /\ expiration \in Time
  BY <1>1, ServerAssumption DEF IInv, TypeOK
<1>3. lastUpdated'[b] <= currentTime'
  BY <1>1 DEF IInv, NoFutureEntry, Held
<1>4. CASE faElementType = "server"
  <2>1. Maintain(status, lastUpdated, expiration, Binding, currentTime')
    BY <1>4 DEF Tick
  <2>2. ~Expired(lastUpdated'[b], expiration, currentTime')
    BY <1>1, <2>1 DEF TypeOK, Maintain, Collected, StatusWithout, TimesWithout
  <2> QED
    BY <1>2, <1>3, <2>2, OldIsExpired
<1>5. CASE faElementType # "server"
  BY <1>1, <1>5 DEF TypeOK, IInv, UnsetIsEmpty, Held, Tick, tableVars
<1> QED
  BY <1>3, <1>4, <1>5

(* No tick leaves an expired entry behind, for any clock width, wrap-around *)
(* and configured term.                                                     *)
THEOREM TicksPurge == Spec => TickLeavesNoExpired
<1>1. IInv /\ [Next]_vars =>
        [TimePasses => \A b \in Binding : status'[b] # "none" =>
            /\ lastUpdated'[b] <= currentTime'
            /\ ~OldEnough(lastUpdated'[b], expiration, currentTime')]_vars
  BY TickPurges DEF TimePasses
<1> QED
  BY <1>1, Invariance, PTL DEF Spec, TickLeavesNoExpired

(* An ACTIVE assignment stays ACTIVE until it leaves the table. *)
THEOREM NeverDemoted == Spec => ActiveUntilDeleted
<1> DEFINE Kept == \A b \in Binding :
                      status[b] = "ACTIVE" => status'[b] \in {"ACTIVE", "none"}
<1>1. ASSUME IInv, [Next]_vars PROVE Kept
  <2>1. CASE Receive
    <3>1. PICK b \in Binding, request \in Requested, accepted \in BOOLEAN :
             ReceiveBinding(b, request, accepted)
      BY <2>1 DEF Receive
    <3> QED
      BY <1>1, <3>1 DEF ReceiveBinding, Maintain, StatusWithout, Decided, IInv, TypeOK
  <2>2. CASE UNCHANGED vars \/ Ignore
    BY <2>2 DEF Ignore, IgnoreBinding, vars, tableVars
  <2>3. CASE TimePasses
    BY <1>1, <2>3 DEF TimePasses, Tick, Maintain, StatusWithout, IInv, TypeOK, tableVars
  <2>4. CASE Configure
    BY <1>1, <2>4, ConfigureFacts DEF IInv, tableVars
  <2> QED
    BY <1>1, <2>1, <2>2, <2>3, <2>4 DEF Next
<1>2. IInv /\ [Next]_vars => [Kept]_vars
  BY <1>1
<1> QED
  BY <1>2, Invariance, PTL DEF Spec, ActiveUntilDeleted

(* A binding that is advertised, and was in the table or found room in it,  *)
(* is in the table afterwards and fresh, for every pair of limits: the      *)
(* clean-up at the end of its message never takes it.                       *)
LEMMA AdvertisedStep ==
    ASSUME IInv, NEW b \in Binding, NEW request \in Requested,
           NEW accepted \in BOOLEAN, ReceiveBinding(b, request, accepted),
           b \in Held \/ Cardinality(Held) < MaxRemote,
           ImmediateDel > 0, currentTime + ImmediateDel < W
    PROVE  status'[b] # "none" /\ lastUpdated'[b] = currentTime
<1> DEFINE sts == UpdatedStatus(b, request, accepted)
           times == UpdatedTimes(b)
<1>t. TypeOK
  BY DEF IInv
<1>1. Admissible(b)
  <2>1. Cardinality(Held) \in Nat
    BY ServerAssumption, FS_Subset, FS_CardinalityType DEF Held
  <2> QED
    BY <2>1, ServerAssumption DEF Admissible, Full
<1>2. sts[b] # "none" /\ times[b] = currentTime
  BY <1>t, <1>1, UpdateFacts
<1>3. ~Expired(times[b], ImmediateDel, currentTime)
  BY <1>t, <1>2, ServerAssumption, WAssumption DEF Expired, Plus, Time, TypeOK
<1>4. Maintain(sts, times, ImmediateDel, Scope(PortOf[b]), currentTime)
  BY ReceiveMaintains
<1> HIDE DEF sts, times
<1> QED
  BY <1>2, <1>3, <1>4 DEF Maintain, Collected, StatusWithout, TimesWithout

(* No message loses the binding it carries: it is in the table afterwards,  *)
(* with the time of the message, in every behaviour of the agent.           *)
THEOREM AdvertisedStays == Spec => AdvertisedIsKept
<1>1. IInv /\ [Next]_vars =>
        [\A b \in Binding, request \in Requested, accepted \in BOOLEAN :
           (/\ ReceiveBinding(b, request, accepted)
            /\ b \in Held \/ Cardinality(Held) < MaxRemote
            /\ ImmediateDel > 0
            /\ currentTime + ImmediateDel < W)
           => status'[b] # "none" /\ lastUpdated'[b] = currentTime]_vars
  BY AdvertisedStep
<1> QED
  BY <1>1, Invariance, PTL DEF Spec, AdvertisedIsKept

(* A message changes no entry of another interface, and is heeded only      *)
(* where Auto Attach is on.                                                 *)
LEMMA ReceiveStaysThere ==
    ASSUME TypeOK, NEW b \in Binding, NEW request \in Requested,
           NEW accepted \in BOOLEAN, ReceiveBinding(b, request, accepted),
           NEW c \in Binding, status'[c] # status[c] \/ lastUpdated'[c] # lastUpdated[c]
    PROVE  ServiceEnabled /\ PortOf[b] \in faPorts /\ PortOf[c] = PortOf[b]
<1> DEFINE sts == UpdatedStatus(b, request, accepted)
           times == UpdatedTimes(b)
<1>1. Maintain(sts, times, ImmediateDel, Scope(PortOf[b]), currentTime)
  BY ReceiveMaintains
<1>2. c # b => sts[c] = status[c] /\ times[c] = lastUpdated[c]
  BY UpdateFacts
<1>3. c \notin Scope(PortOf[b]) => status'[c] = sts[c] /\ lastUpdated'[c] = times[c]
  BY <1>1 DEF Maintain, Collected, StatusWithout, TimesWithout
<1>4. b \in Scope(PortOf[b]) /\ (c \in Scope(PortOf[b]) => PortOf[c] = PortOf[b])
  BY DEF Scope
<1>5. ServiceEnabled /\ PortOf[b] \in faPorts
  BY DEF ReceiveBinding, Heeded
<1> QED
  BY <1>2, <1>3, <1>4, <1>5

(* A tick always moves the clock, though it may go round.                   *)
LEMMA TickMovesClock ==
    ASSUME NEW a \in Time, NEW step \in TickSteps
    PROVE  Plus(a, step) # a
  BY ServerAssumption, WAssumption DEF Time, Plus

(* Between ticks the table changes on one interface at a time, and only     *)
(* where Auto Attach is on, for any number of interfaces and bindings.      *)
THEOREM OneInterface == Spec => OneInterfaceAtATime
<1> DEFINE Changed == {x \in Binding : /\ currentTime' = currentTime
                                       /\ \/ status'[x] # status[x]
                                          \/ lastUpdated'[x] # lastUpdated[x]}
           There == \A b, c \in Changed :
                       ServiceEnabled /\ PortOf[b] \in faPorts /\ PortOf[b] = PortOf[c]
<1>1. ASSUME IInv, [Next]_vars PROVE There
  <2>t. TypeOK
    BY <1>1 DEF IInv
  <2>1. CASE Receive
    <3>1. PICK b \in Binding, request \in Requested, accepted \in BOOLEAN :
             ReceiveBinding(b, request, accepted)
      BY <2>1 DEF Receive
    <3>2. \A c \in Changed :
             ServiceEnabled /\ PortOf[b] \in faPorts /\ PortOf[c] = PortOf[b]
      BY <2>t, <3>1, ReceiveStaysThere
    <3> QED
      BY <3>2
  <2>2. CASE UNCHANGED vars \/ Ignore
    BY <2>2 DEF Ignore, IgnoreBinding, vars, tableVars
  <2>3. CASE TimePasses
    BY <2>t, <2>3, TickMovesClock DEF TimePasses, Tick, TypeOK
  <2>4. CASE Configure
    BY <2>t, <2>4, ConfigureFacts DEF tableVars
  <2> QED
    BY <1>1, <2>1, <2>2, <2>3, <2>4 DEF Next
<1>2. IInv /\ [Next]_vars => [There]_vars
  BY <1>1
<1> QED
  BY <1>2, Invariance, PTL DEF Spec, OneInterfaceAtATime
-----------------------------------------------------------------------------
(* The leases that a table stands for. *)
LeasesOf(sts, times) ==
    [b \in Binding |-> IF sts[b] = "none" THEN -1 ELSE times[b]]

(* Where the lease of an entry may or must be dropped, the code's test      *)
(* agrees.                                                                  *)
LEMMA DroppableIsExpired ==
    ASSUME NEW u \in Time, NEW limit \in Time, NEW now \in Time
    PROVE  /\ OldEnough(u, limit, now) => Expired(u, limit, now)
           /\ NoWrap(u, limit, now) =>
                 (Expired(u, limit, now) => OldEnough(u, limit, now))
  BY ExpiredIsAge, OldIsExpired

Leases == LeasesOf(status, lastUpdated)

(* A message is an advertisement of its binding. *)
LEMMA ReceiveAdvertises ==
    ASSUME IInv, NEW b \in Binding, NEW request \in Requested,
           NEW accepted \in BOOLEAN, ReceiveBinding(b, request, accepted)
    PROVE  Lease!Advertise(b)
<1> DEFINE sts == UpdatedStatus(b, request, accepted)
           times == UpdatedTimes(b)
           scope == Scope(PortOf[b])
           gone == Collected(times, {c \in scope : sts[c] # "none"},
                             ImmediateDel, currentTime)
<1>t. TypeOK
  BY DEF IInv
<1>1. /\ sts \in [Binding -> Status \cup {"none"}]
      /\ times \in [Binding -> Time]
      /\ \A c \in Binding \ {b} : sts[c] = status[c] /\ times[c] = lastUpdated[c]
      /\ Admissible(b) => sts[b] # "none" /\ times[b] = currentTime
      /\ ~Admissible(b) => sts[b] = "none"
  BY <1>t, UpdateFacts
<1>2. /\ status' = StatusWithout(sts, gone)
      /\ lastUpdated' = TimesWithout(times, gone)
      /\ UNCHANGED <<expiration, currentTime>>
  BY ReceiveMaintains DEF Maintain, configVars
<1>3. scope \in SUBSET Binding /\ ImmediateDel \in Time /\ currentTime \in Time
  BY <1>t, ScopeType, ServerAssumption DEF TypeOK
<1> HIDE DEF sts, times, scope
<1>4. /\ gone \in SUBSET scope
      /\ Lease!MayDrop(gone, LeasesOf(sts, times), scope, ImmediateDel, currentTime)
      /\ LeasesOf(StatusWithout(sts, gone), TimesWithout(times, gone))
           = Lease!Without(LeasesOf(sts, times), gone)
  <2>1. gone \in SUBSET scope
    BY DEF Collected
  <2>2. \A c \in scope : c \in gone <=>
           sts[c] # "none" /\ Expired(times[c], ImmediateDel, currentTime)
    BY DEF Collected
  <2> HIDE DEF gone
  <2>3. Lease!MayDrop(gone, LeasesOf(sts, times), scope, ImmediateDel, currentTime)
    BY <1>1, <1>3, <2>2, DroppableIsExpired
       DEF Lease!MayDrop, LeasesOf, Lease!NoLease, Lease!OldEnough, OldEnough,
           Lease!NoWrap, NoWrap
  <2>4. LeasesOf(StatusWithout(sts, gone), TimesWithout(times, gone))
          = Lease!Without(LeasesOf(sts, times), gone)
    BY DEF LeasesOf, StatusWithout, TimesWithout, Lease!Without, Lease!NoLease
  <2> QED
    BY <2>1, <2>3, <2>4
<1> HIDE DEF gone
<1>5. /\ LeasesOf(sts, times) \in {Leases, [Leases EXCEPT ![b] = currentTime]}
      /\ Leases[b] # -1 => LeasesOf(sts, times)[b] = currentTime
  <2>1. CASE Admissible(b)
    BY <1>1, <2>1 DEF LeasesOf, Leases
  <2>2. CASE ~Admissible(b)
    BY <1>1, <2>2 DEF LeasesOf, Leases, Admissible, Held
  <2> QED
    BY <2>1, <2>2
<1>6. Leases' = Lease!Without(LeasesOf(sts, times), gone)
  BY <1>2, <1>4 DEF Leases, LeasesOf
<1>7. scope = Scope(PortOf[b])
  BY DEF scope
<1> QED
  BY <1>2, <1>4, <1>5, <1>6, <1>7
     DEF Lease!Advertise, Lease!Leased, Lease!NoLease, Leases, LeasesOf

(* A tick lets time elapse. *)
LEMMA TickElapses ==
    ASSUME IInv, NEW step \in TickSteps, Tick(step)
    PROVE  Lease!Elapse
<1> DEFINE gone == Collected(lastUpdated, {c \in Binding : status[c] # "none"},
                             expiration, currentTime')
<1>t. TypeOK
  BY DEF IInv
<1>1. currentTime' \in Time /\ expiration \in Time /\ expiration' = expiration
  BY <1>t, PlusType, ServerAssumption DEF Tick, TypeOK, configVars
<1>2. /\ gone \in SUBSET Binding
      /\ Lease!MayDrop(gone, Leases, Binding, expiration, currentTime')
      /\ LeasesOf(StatusWithout(status, gone), TimesWithout(lastUpdated, gone))
           = Lease!Without(Leases, gone)
  <2>1. gone \in SUBSET Binding
    BY DEF Collected
  <2>2. \A c \in Binding : c \in gone <=>
           status[c] # "none" /\ Expired(lastUpdated[c], expiration, currentTime')
    BY DEF Collected
  <2> HIDE DEF gone
  <2>3. Lease!MayDrop(gone, Leases, Binding, expiration, currentTime')
    BY <1>t, <1>1, <2>2, DroppableIsExpired
       DEF Lease!MayDrop, Leases, LeasesOf, Lease!NoLease, Lease!OldEnough,
           OldEnough, Lease!NoWrap, NoWrap, TypeOK
  <2>4. LeasesOf(StatusWithout(status, gone), TimesWithout(lastUpdated, gone))
          = Lease!Without(Leases, gone)
    BY DEF Leases, LeasesOf, StatusWithout, TimesWithout, Lease!Without, Lease!NoLease
  <2> QED
    BY <2>1, <2>3, <2>4
<1>3. CASE faElementType = "server"
  <2>1. /\ status' = StatusWithout(status, gone)
        /\ lastUpdated' = TimesWithout(lastUpdated, gone)
    BY <1>3 DEF Tick, Maintain
  <2> HIDE DEF gone
  <2>2. Leases' = Lease!Without(Leases, gone)
    BY <1>2, <2>1 DEF Leases, LeasesOf
  <2> QED
    BY <1>1, <1>2, <2>2 DEF Lease!Elapse, Lease!Time, Time, Leases, LeasesOf
<1>4. CASE faElementType # "server"
  <2>1. UNCHANGED tableVars /\ Held = {}
    BY <1>t, <1>4 DEF Tick, IInv, UnsetIsEmpty, TypeOK
  <2>2. \A c \in Binding : Leases[c] = -1
    BY <2>1 DEF Held, Leases, LeasesOf
  <2>3. /\ Lease!MayDrop({}, Leases, Binding, expiration, currentTime')
        /\ Leases' = Lease!Without(Leases, {})
    BY <2>1, <2>2 DEF Lease!MayDrop, Lease!Without, Lease!NoLease, Leases,
                      LeasesOf, tableVars
  <2> QED
    BY <1>1, <2>3 DEF Lease!Elapse, Lease!Time, Time, Leases, LeasesOf
<1> QED
  BY <1>3, <1>4

(* The table implements the abstract leases: its initial state is one of    *)
(* theirs, and each of its steps is one of theirs or changes no lease.      *)
THEOREM LeaseRefinement == Spec => ImplementsLease
<1>1. Init => Lease!LeaseInit
  BY ServerAssumption DEF Init, Lease!LeaseInit, Lease!NoLease
<1>2. IInv /\ [Next]_vars => [Lease!LeaseNext]_(Lease!leaseVars)
  <2> SUFFICES ASSUME IInv, [Next]_vars
               PROVE  [Lease!LeaseNext]_(Lease!leaseVars)
    OBVIOUS
  <2>1. CASE Receive
    BY <2>1, ReceiveAdvertises DEF Receive, Lease!LeaseNext
  <2>2. CASE UNCHANGED vars \/ Ignore
    <3>1. UNCHANGED vars
      BY <2>2 DEF Ignore, IgnoreBinding
    <3> QED
      BY <3>1 DEF vars, configVars, tableVars, Lease!leaseVars
  <2>3. CASE TimePasses
    BY <2>3, TickElapses DEF TimePasses, Lease!LeaseNext
  <2>4. CASE Configure
    <3>1. UNCHANGED <<tableVars, currentTime>> /\ expiration' \in Expirations
      BY <2>4, ConfigureFacts DEF IInv
    <3> QED
      BY <3>1 DEF Lease!LeaseNext, Lease!Configure, tableVars
  <2> QED
    BY <2>1, <2>2, <2>3, <2>4 DEF Next
<1> QED
  BY <1>1, <1>2, Invariance, PTL DEF Spec, ImplementsLease, Lease!LeaseSpec
=============================================================================
