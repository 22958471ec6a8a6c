--------------------------- MODULE AASystemProofs ---------------------------
(***************************************************************************)
(* The server among its neighbours is still the server: whatever frames     *)
(* arrive, in whatever pieces they are processed and whatever LLDP answers, *)
(* the agent goes through a behaviour of AAServer.  What AAServerProofs     *)
(* proves of AAServer alone thus holds in the whole system, for every set   *)
(* of neighbours, also with several on an interface.  Then what only the    *)
(* system has: a frame leaves its bindings in the table and little else of  *)
(* its interface, and LLDP is given an answer to each new request.          *)
(***************************************************************************)
EXTENDS AASystem, AAServerProofs, AALemmas

(* The one fact about the rest of the system that the agent relies on: a    *)
(* frame asks for a status that a neighbour can ask for.                    *)
FrameAsks == ~Idle => frame.request \in Requested
-----------------------------------------------------------------------------
(* A frame that arrives asks for such a status, and keeps its request as    *)
(* long as it is in process.                                                *)
LEMMA FrameAsksStep ==
    ASSUME FrameAsks, [SystemNext]_systemVars
    PROVE  FrameAsks'
<1>1. CASE Neighbourly
  <2>1. ASSUME NEW n \in Neighbour, NEW wanted \in SUBSET Scope(IfcOf[n]),
               NEW request \in Requested, FrameArrives(n, wanted, request)
        PROVE  FrameAsks'
    BY <2>1 DEF FrameArrives, FrameAsks
  <2>2. ASSUME NEW n \in Neighbour, NeighbourAgesOut(n)
        PROVE  FrameAsks'
    BY <2>2 DEF NeighbourAgesOut, FrameAsks, Idle
  <2> QED
    BY <1>1, <2>1, <2>2 DEF Neighbourly
<1>2. CASE FrameEnds
  BY <1>2 DEF FrameEnds, FrameAsks, Idle
<1>3. ASSUME NEW b \in Binding, Deliver(b)
      PROVE  FrameAsks'
  BY <1>3 DEF Deliver, FrameAsks, Idle
<1>4. CASE ClockTicks
  BY <1>4 DEF ClockTicks, FrameAsks, Idle
<1>5. CASE Configure /\ UNCHANGED <<rports, frame>>
  BY <1>5 DEF FrameAsks, Idle
<1>6. CASE UNCHANGED systemVars
  BY <1>6 DEF FrameAsks, Idle, systemVars
<1> QED
  BY <1>1, <1>2, <1>3, <1>4, <1>5, <1>6 DEF SystemNext, Process, Background

(* Every step of the system is a step of the server or leaves it alone.     *)
LEMMA SystemStepIsServerStep ==
    ASSUME FrameAsks, [SystemNext]_systemVars
    PROVE  [Next]_vars
<1>1. CASE Neighbourly
  BY <1>1 DEF Neighbourly, FrameArrives, NeighbourAgesOut
<1>2. CASE FrameEnds
  BY <1>2 DEF FrameEnds
<1>3. ASSUME NEW b \in Binding, Deliver(b)
      PROVE  Next
  <2> DEFINE accepted == AsgnDataSetRc(rports, PortOf[b], b) = "ENONE"
  <2>1. accepted \in BOOLEAN /\ frame.request \in Requested
    BY <1>3 DEF Deliver, FrameAsks
  <2>2. ReceiveBinding(b, frame.request, accepted) \/ IgnoreBinding(b)
    BY <1>3 DEF Deliver
  <2> HIDE DEF accepted
  <2> QED
    BY <2>1, <2>2 DEF Next, Receive, Ignore
<1>4. CASE ClockTicks
  BY <1>4 DEF ClockTicks, Next, TimePasses
<1>5. CASE Configure /\ UNCHANGED <<rports, frame>>
  BY <1>5 DEF Next
<1>6. CASE UNCHANGED systemVars
  BY <1>6 DEF systemVars
<1> QED
  BY <1>1, <1>2, <1>3, <1>4, <1>5, <1>6 DEF SystemNext, Process, Background

(* The system implements the server: its behaviours, seen through the       *)
(* agent's variables, are behaviours of AAServer.                           *)
THEOREM SystemImplementsServer == SystemSpec => Spec
<1>1. SystemInit => Init /\ FrameAsks
  BY DEF SystemInit, FrameAsks, Idle
<1>2. FrameAsks /\ [SystemNext]_systemVars => FrameAsks'
  BY FrameAsksStep
<1>3. FrameAsks /\ [SystemNext]_systemVars => [Next]_vars
  BY SystemStepIsServerStep
<1> QED
  BY <1>1, <1>2, <1>3, PTL DEF SystemSpec, Spec

(* Whatever the neighbours send, the table respects its limit, no entry is  *)
(* newer than the clock, an ACTIVE assignment is never demoted, and no      *)
(* neighbour changes the entries of another interface.                      *)
THEOREM SystemSafe ==
    SystemSpec => /\ [](TypeOK /\ CapacityRespected /\ NoFutureEntry)
                  /\ ActiveUntilDeleted /\ OneInterfaceAtATime
  BY SystemImplementsServer, TypeCorrect, Capacity, NoFuture, NeverDemoted,
     OneInterface, PTL

(* And the table implements the abstract leases, with neighbours, frames    *)
(* and LLDP's answers around it.                                            *)
THEOREM SystemLeases == SystemSpec => ImplementsLease
  BY SystemImplementsServer, LeaseRefinement, PTL
-----------------------------------------------------------------------------
(* A frame in process is a record of what is left of it and of what was     *)
(* admitted; its bindings are those of the interface it came in on.         *)
FrameTyped ==
    \/ Idle
    \/ /\ frame \in [from : Neighbour, request : Requested,
                     todo : SUBSET Binding, admitted : SUBSET Binding,
                     elapsed : 0 .. ImmediateDel]
       /\ frame.todo \cup frame.admitted \subseteq Scope(IfcOf[frame.from])

(* While a frame is processed in time, what was admitted of it is in the    *)
(* table, and no older than the frame.                                      *)
FrameFresh ==
    FrameInTime => \A b \in frame.admitted :
        b \in Held /\ currentTime - lastUpdated[b] <= frame.elapsed

(* And once something of it was admitted, no entry of the interface is      *)
(* older than the limit and the frame together.                             *)
FrameClean ==
    FrameInTime /\ frame.admitted # {} =>
        \A c \in Scope(IfcOf[frame.from]) \cap Held :
            currentTime - lastUpdated[c] < ImmediateDel + frame.elapsed

FrameInv == IInv /\ FrameTyped /\ FrameFresh /\ FrameClean
-----------------------------------------------------------------------------
(* A message leaves on its interface what is younger than the limit and     *)
(* nothing else, and of other entries what was there; its own binding, if   *)
(* admitted, has the time of the message.                                   *)
LEMMA ReceiveTable ==
    ASSUME TypeOK, NEW b \in Binding, NEW request \in Requested,
           NEW accepted \in BOOLEAN, ReceiveBinding(b, request, accepted)
    PROVE  /\ UNCHANGED <<configVars, currentTime>>
           /\ \A c \in Held' : /\ c # b => c \in Held /\ lastUpdated'[c] = lastUpdated[c]
                               /\ c \in Scope(PortOf[b]) =>
                                     ~Expired(lastUpdated'[c], ImmediateDel, currentTime)
           /\ \A c \in Held : /\ c # b
                              /\ ~Expired(lastUpdated[c], ImmediateDel, currentTime)
                              => c \in Held' /\ lastUpdated'[c] = lastUpdated[c]
           /\ Admissible(b) /\ ~Expired(currentTime, ImmediateDel, currentTime)
                              => b \in Held' /\ lastUpdated'[b] = currentTime
<1> DEFINE sts == UpdatedStatus(b, request, accepted)
           times == UpdatedTimes(b)
<1>1. /\ Maintain(sts, times, ImmediateDel, Scope(PortOf[b]), currentTime)
      /\ UNCHANGED <<configVars, currentTime>>
  BY ReceiveMaintains
<1>2. /\ \A c \in Binding \ {b} : sts[c] = status[c] /\ times[c] = lastUpdated[c]
      /\ Admissible(b) => sts[b] # "none" /\ times[b] = currentTime
  BY UpdateFacts
<1> HIDE DEF sts, times
<1>3. \A c \in Binding :
         status'[c] # "none" => /\ status'[c] = sts[c] /\ lastUpdated'[c] = times[c]
                                /\ c \in Scope(PortOf[b]) =>
                                     ~Expired(times[c], ImmediateDel, currentTime)
  BY <1>1 DEF Maintain, Collected, StatusWithout, TimesWithout
<1>4. \A c \in Binding :
         sts[c] # "none" /\ ~Expired(times[c], ImmediateDel, currentTime)
            => status'[c] = sts[c] /\ lastUpdated'[c] = times[c]
  BY <1>1 DEF Maintain, Collected, StatusWithout, TimesWithout
<1>5. \A c \in Held' : /\ c # b => c \in Held /\ lastUpdated'[c] = lastUpdated[c]
                       /\ c \in Scope(PortOf[b]) =>
                             ~Expired(lastUpdated'[c], ImmediateDel, currentTime)
  BY <1>2, <1>3 DEF Held
<1>6. \A c \in Held : /\ c # b
                      /\ ~Expired(lastUpdated[c], ImmediateDel, currentTime)
                      => c \in Held' /\ lastUpdated'[c] = lastUpdated[c]
  BY <1>2, <1>4 DEF Held
<1>7. Admissible(b) /\ ~Expired(currentTime, ImmediateDel, currentTime)
         => b \in Held' /\ lastUpdated'[b] = currentTime
  BY <1>2, <1>4 DEF Held
<1> QED
  BY <1>1, <1>5, <1>6, <1>7

(* Processing a binding is such a message, or nothing for the agent.        *)
LEMMA DeliverCases ==
    ASSUME FrameTyped, NEW b \in Binding, Deliver(b)
    PROVE  /\ ~Idle /\ b \in frame.todo /\ b \in Scope(IfcOf[frame.from])
           /\ frame.request \in Requested
           /\ Scope(PortOf[b]) = Scope(IfcOf[frame.from])
           /\ frame' = [frame EXCEPT !.todo = @ \ {b},
                          !.admitted = IF Heeded(PortOf[b]) /\ Admissible(b)
                                       THEN @ \cup {b} ELSE @]
           /\ \/ /\ Heeded(PortOf[b])
                 /\ \E accepted \in BOOLEAN : ReceiveBinding(b, frame.request, accepted)
              \/ ~Heeded(PortOf[b]) /\ UNCHANGED vars
<1>1. /\ ~Idle /\ b \in frame.todo
      /\ frame' = [frame EXCEPT !.todo = @ \ {b},
                     !.admitted = IF Heeded(PortOf[b]) /\ Admissible(b)
                                  THEN @ \cup {b} ELSE @]
  BY DEF Deliver
<1>2. b \in Scope(IfcOf[frame.from]) /\ frame.request \in Requested
  BY <1>1 DEF FrameTyped
<1>3. Scope(PortOf[b]) = Scope(IfcOf[frame.from])
  BY <1>2 DEF Scope
<1> DEFINE accepted == AsgnDataSetRc(rports, PortOf[b], b) = "ENONE"
<1>4. accepted \in BOOLEAN
  OBVIOUS
<1>5. ReceiveBinding(b, frame.request, accepted) \/ IgnoreBinding(b)
  BY DEF Deliver
<1> HIDE DEF accepted
<1>6. \/ /\ Heeded(PortOf[b])
         /\ \E acc \in BOOLEAN : ReceiveBinding(b, frame.request, acc)
      \/ ~Heeded(PortOf[b]) /\ UNCHANGED vars
  BY <1>4, <1>5 DEF IgnoreBinding, ReceiveBinding
<1> QED
  BY <1>1, <1>2, <1>3, <1>6
-----------------------------------------------------------------------------
(* Where a message that is in time finds an entry no older than the frame,  *)
(* the clean-up leaves it; the time of the message itself also passes.      *)
LEMMA FreshIsNotExpired ==
    ASSUME IInv, NEW limit \in Time, NEW u \in Time, NEW elapsed \in Nat,
           u <= currentTime, currentTime - u <= elapsed, elapsed < limit,
           currentTime + limit < W
    PROVE  ~Expired(u, limit, currentTime)
  BY WAssumption DEF IInv, TypeOK, Time, Expired, Plus

(* What a frame in process is, in the words of the proofs below. *)
LEMMA FrameFields ==
    ASSUME FrameTyped, ~Idle
    PROVE  /\ frame.from \in Neighbour /\ frame.request \in Requested
           /\ frame.todo \in SUBSET Binding /\ frame.admitted \in SUBSET Binding
           /\ frame.elapsed \in 0 .. ImmediateDel /\ frame.elapsed \in Nat
           /\ frame.todo \cup frame.admitted \subseteq Scope(IfcOf[frame.from])
  BY ServerAssumption, WAssumption DEF FrameTyped, Time

(* A binding that is processed takes its place among the admitted and       *)
(* leaves the frame's others where they were.                               *)
LEMMA DeliverInv ==
    ASSUME FrameInv, NEW b \in Binding, Deliver(b)
    PROVE  (FrameTyped /\ FrameFresh /\ FrameClean)'
<1> DEFINE entered == Heeded(PortOf[b]) /\ Admissible(b)
           in == frame.admitted \cup IF entered THEN {b} ELSE {}
<1>1. IInv /\ TypeOK /\ FrameTyped /\ FrameFresh /\ FrameClean
  BY DEF FrameInv, IInv
<1>2. /\ ~Idle /\ b \in frame.todo /\ b \in Scope(IfcOf[frame.from])
      /\ frame.request \in Requested
      /\ Scope(PortOf[b]) = Scope(IfcOf[frame.from])
      /\ frame' = [frame EXCEPT !.todo = @ \ {b},
                     !.admitted = IF entered THEN @ \cup {b} ELSE @]
      /\ \/ /\ Heeded(PortOf[b])
            /\ \E accepted \in BOOLEAN : ReceiveBinding(b, frame.request, accepted)
         \/ ~Heeded(PortOf[b]) /\ UNCHANGED vars
  BY <1>1, DeliverCases
<1>3. /\ frame.admitted \in SUBSET Binding /\ frame.elapsed \in Nat
      /\ frame.from \in Neighbour /\ frame.todo \in SUBSET Binding
      /\ frame.elapsed \in 0 .. ImmediateDel
      /\ frame.todo \cup frame.admitted \subseteq Scope(IfcOf[frame.from])
      /\ frame \in [from : Neighbour, request : Requested,
                    todo : SUBSET Binding, admitted : SUBSET Binding,
                    elapsed : 0 .. ImmediateDel]
  BY <1>1, <1>2, FrameFields DEF FrameTyped
<1>b. entered \in BOOLEAN
  OBVIOUS
<1> HIDE DEF entered
<1>4. /\ frame'.from = frame.from /\ frame'.elapsed = frame.elapsed
      /\ frame'.request = frame.request
      /\ frame'.todo = frame.todo \ {b} /\ frame'.admitted = in
      /\ frame' \in [from : Neighbour, request : Requested,
                     todo : SUBSET Binding, admitted : SUBSET Binding,
                     elapsed : 0 .. ImmediateDel]
  BY <1>b, <1>2, <1>3
<1>5. FrameTyped'
  BY <1>2, <1>3, <1>4 DEF FrameTyped, Scope
<1>6. currentTime' = currentTime
  BY <1>1, <1>2, ReceiveTable DEF vars
<1>7. FrameInTime' => FrameInTime
  BY <1>2, <1>4, <1>6 DEF FrameInTime
<1>8. ASSUME FrameInTime'
      PROVE  /\ \A c \in Held : c # b /\ currentTime - lastUpdated[c] <= frame.elapsed
                   /\ c \in Scope(IfcOf[frame.from])
                   => c \in Held' /\ lastUpdated'[c] = lastUpdated[c]
             /\ entered => b \in Held' /\ lastUpdated'[b] = currentTime
  <2>1. /\ frame.elapsed < ImmediateDel /\ currentTime + ImmediateDel < W
        /\ ImmediateDel \in Time /\ currentTime \in Time
    BY <1>1, <1>7, <1>8, ServerAssumption DEF FrameInTime, TypeOK
  <2>2. ASSUME NEW u \in Time, u <= currentTime, currentTime - u <= frame.elapsed
        PROVE  ~Expired(u, ImmediateDel, currentTime)
    BY <1>1, <1>3, <2>1, <2>2, FreshIsNotExpired
  <2>3. ~Expired(currentTime, ImmediateDel, currentTime)
    BY <1>3, <2>1, <2>2 DEF Time
  <2>4. CASE Heeded(PortOf[b])
    <3>1. PICK accepted \in BOOLEAN : ReceiveBinding(b, frame.request, accepted)
      BY <1>2, <2>4
    <3>2. /\ \A c \in Held : /\ c # b
                             /\ ~Expired(lastUpdated[c], ImmediateDel, currentTime)
                             => c \in Held' /\ lastUpdated'[c] = lastUpdated[c]
          /\ Admissible(b) /\ ~Expired(currentTime, ImmediateDel, currentTime)
                             => b \in Held' /\ lastUpdated'[b] = currentTime
      BY <1>1, <1>2, <3>1, ReceiveTable
    <3>3. \A c \in Held : lastUpdated[c] \in Time /\ lastUpdated[c] <= currentTime
      BY <1>1 DEF TypeOK, IInv, NoFutureEntry, Held
    <3> QED
      BY <2>2, <2>3, <3>2, <3>3 DEF entered
  <2>5. CASE ~Heeded(PortOf[b])
    BY <1>2, <2>5 DEF entered, vars, tableVars, Held
  <2> QED
    BY <2>4, <2>5
<1>9. FrameFresh'
  <2> SUFFICES ASSUME FrameInTime', NEW c \in in
               PROVE  c \in Held' /\ currentTime' - lastUpdated'[c] <= frame'.elapsed
    BY <1>4 DEF FrameFresh
  <2>1. CASE c \in frame.admitted /\ c # b
    BY <1>1, <1>3, <1>4, <1>6, <1>7, <1>8, <2>1 DEF FrameFresh
  <2>2. CASE c = b /\ entered
    BY <1>1, <1>3, <1>4, <1>6, <1>8, <2>2 DEF TypeOK, Time
  <2>3. CASE c = b /\ ~entered
    <3>1. b \in frame.admitted /\ ~entered
      BY <2>3
    <3>2. b \in Held /\ currentTime - lastUpdated[b] <= frame.elapsed
      BY <1>1, <1>7, <3>1 DEF FrameFresh
    <3>3. ~Heeded(PortOf[b])
      BY <3>1, <3>2 DEF entered, Admissible
    <3> QED
      BY <1>2, <1>4, <1>6, <2>3, <3>2, <3>3 DEF vars, tableVars, Held
  <2> QED
    BY <2>1, <2>2, <2>3
<1>10. FrameClean'
  <2> SUFFICES ASSUME FrameInTime', in # {},
                      NEW c \in Scope(IfcOf[frame.from]) \cap Held'
               PROVE  currentTime - lastUpdated'[c] < ImmediateDel + frame.elapsed
    BY <1>4, <1>6 DEF FrameClean, Scope
  <2>1. CASE Heeded(PortOf[b])
    <3>1. PICK accepted \in BOOLEAN : ReceiveBinding(b, frame.request, accepted)
      BY <1>2, <2>1
    <3>2. ~Expired(lastUpdated'[c], ImmediateDel, currentTime)
      BY <1>1, <1>2, <3>1, ReceiveTable
    <3>3. TypeOK'
      BY <1>1, <1>2, <3>1, ReceiveInv DEF IInv
    <3>4. lastUpdated'[c] \in Time /\ currentTime \in Time /\ ImmediateDel \in Time
      BY <1>1, <3>3, ServerAssumption DEF TypeOK, Held
    <3>5. ~OldEnough(lastUpdated'[c], ImmediateDel, currentTime)
      BY <3>2, <3>4, OldIsExpired
    <3> QED
      BY <1>3, <3>4, <3>5 DEF OldEnough, Time
  <2>2. CASE ~Heeded(PortOf[b])
    <3>1. UNCHANGED vars /\ in = frame.admitted
      BY <1>2, <2>2 DEF entered
    <3> QED
      BY <1>1, <1>7, <3>1 DEF FrameClean, vars, tableVars, Held
  <2> QED
    BY <2>1, <2>2
<1> QED
  BY <1>5, <1>9, <1>10

(* A tick in time did not take the clock round, and ages the entries by as  *)
(* much as the frame.                                                       *)
LEMMA TickInTime ==
    ASSUME FrameInv, ClockTicks, FrameInTime'
    PROVE  /\ FrameInTime /\ frame'.from = frame.from
           /\ frame'.admitted = frame.admitted
           /\ \E step \in Nat : /\ currentTime' = currentTime + step
                                /\ frame'.elapsed = frame.elapsed + step
<1>1. IInv /\ TypeOK /\ FrameTyped
  BY DEF FrameInv, IInv
<1>2. PICK step \in TickSteps :
         /\ Tick(step)
         /\ frame' = IF Idle THEN frame
                    ELSE [frame EXCEPT !.elapsed = Min({@ + step, ImmediateDel})]
  BY DEF ClockTicks
<1>3. ~Idle
  BY <1>2 DEF FrameInTime, Idle
<1>4. /\ frame.elapsed \in Nat /\ step \in Nat /\ ImmediateDel \in Nat
      /\ currentTime \in Nat /\ currentTime < W /\ step < W
      /\ frame \in [from : Neighbour, request : Requested,
                    todo : SUBSET Binding, admitted : SUBSET Binding,
                    elapsed : 0 .. ImmediateDel]
  BY <1>1, <1>3, FrameFields, ServerAssumption, WAssumption DEF Time, TypeOK, FrameTyped
<1>5. Min({frame.elapsed + step, ImmediateDel})
         = IF frame.elapsed + step <= ImmediateDel THEN frame.elapsed + step ELSE ImmediateDel
  BY <1>4, MinOfTwo
<1> DEFINE elapsed == Min({frame.elapsed + step, ImmediateDel})
<1>6. frame' = [frame EXCEPT !.elapsed = elapsed]
  BY <1>2, <1>3
<1>7. /\ elapsed \in Nat
      /\ elapsed < ImmediateDel => elapsed = frame.elapsed + step
  BY <1>4, <1>5
<1> HIDE DEF elapsed
<1>8. /\ frame'.elapsed = elapsed /\ frame'.from = frame.from
      /\ frame'.admitted = frame.admitted
  BY <1>4, <1>6
<1>9. elapsed = frame.elapsed + step /\ elapsed <= currentTime'
  BY <1>7, <1>8 DEF FrameInTime
<1>10. currentTime' = currentTime + step
  BY <1>2, <1>4, <1>9, WAssumption DEF Tick, Plus
<1>11. FrameInTime
  <2>1. frame.elapsed <= currentTime
    BY <1>4, <1>9, <1>10
  <2>2. ASSUME NEW limit \in {ImmediateDel} \cup Expirations
        PROVE  frame.elapsed < limit /\ currentTime + limit < W
    <3>1. elapsed < limit /\ currentTime' + limit < W
      BY <1>8 DEF FrameInTime
    <3>2. limit \in Nat /\ W \in Nat
      BY ServerAssumption, WAssumption DEF Time
    <3> QED
      BY <1>4, <1>9, <1>10, <3>1, <3>2
  <2> QED
    BY <1>3, <2>1, <2>2 DEF FrameInTime
<1> QED
  BY <1>4, <1>8, <1>9, <1>10, <1>11

(* A tick preserves what is known of the frame: what it may take is as old  *)
(* as a term, and the frame is not.                                         *)
LEMMA ClockTicksInv ==
    ASSUME FrameInv, ClockTicks
    PROVE  (FrameTyped /\ FrameFresh /\ FrameClean)'
<1>1. IInv /\ TypeOK /\ FrameTyped /\ FrameFresh /\ FrameClean
  BY DEF FrameInv, IInv
<1>2. PICK step \in TickSteps :
         /\ Tick(step)
         /\ frame' = IF Idle THEN frame
                    ELSE [frame EXCEPT !.elapsed = Min({@ + step, ImmediateDel})]
  BY DEF ClockTicks
<1>3. FrameTyped'
  <2>1. CASE Idle
    BY <1>2, <2>1 DEF FrameTyped, Idle
  <2>2. CASE ~Idle
    <3>1. /\ frame.elapsed \in 0 .. ImmediateDel /\ step \in Nat /\ ImmediateDel \in Nat
          /\ frame \in [from : Neighbour, request : Requested,
                        todo : SUBSET Binding, admitted : SUBSET Binding,
                        elapsed : 0 .. ImmediateDel]
          /\ frame.todo \cup frame.admitted \subseteq Scope(IfcOf[frame.from])
      BY <1>1, <2>2, FrameFields, ServerAssumption, WAssumption DEF Time, FrameTyped
    <3> DEFINE elapsed == Min({frame.elapsed + step, ImmediateDel})
    <3>2. elapsed \in 0 .. ImmediateDel
      BY <3>1, MinOfTwo
    <3>3. frame' = [frame EXCEPT !.elapsed = elapsed]
      BY <1>2, <2>2
    <3> HIDE DEF elapsed
    <3> QED
      BY <3>1, <3>2, <3>3 DEF FrameTyped, Scope
  <2> QED
    BY <2>1, <2>2
<1>4. IInv' /\ expiration \in Expirations /\ UNCHANGED configVars
  BY <1>1, <1>2, TickInv DEF TypeOK, Tick
<1>5. \A b \in Binding : status'[b] # "none" =>
         b \in Held /\ lastUpdated'[b] = lastUpdated[b]
  BY <1>1, <1>2 DEF Tick, Maintain, StatusWithout, TimesWithout, TypeOK, Held,
                    Collected, tableVars
<1>6. \A b \in Held : ~Expired(lastUpdated[b], expiration, currentTime') =>
         status'[b] # "none" /\ lastUpdated'[b] = lastUpdated[b]
  BY <1>1, <1>2 DEF Tick, Maintain, StatusWithout, TimesWithout, TypeOK, Held,
                    Collected, tableVars
<1>7. FrameFresh'
  <2> SUFFICES ASSUME FrameInTime', NEW b \in frame'.admitted
               PROVE  b \in Held' /\ currentTime' - lastUpdated'[b] <= frame'.elapsed
    BY DEF FrameFresh
  <2>1. FrameInTime /\ frame'.admitted = frame.admitted
    BY TickInTime
  <2>2. PICK n \in Nat : /\ currentTime' = currentTime + n
                         /\ frame'.elapsed = frame.elapsed + n
    BY TickInTime
  <2>3. /\ b \in Binding /\ b \in Held
        /\ currentTime - lastUpdated[b] <= frame.elapsed
        /\ lastUpdated[b] <= currentTime
    BY <1>1, <2>1 DEF FrameFresh, Held, IInv, NoFutureEntry
  <2>4. /\ lastUpdated[b] \in Time /\ currentTime \in Time /\ currentTime' \in Time
        /\ expiration \in Time /\ frame.elapsed \in Nat
    BY <1>1, <1>4, <2>1, <2>3, FrameFields, ServerAssumption DEF TypeOK, IInv, FrameInTime
  <2>5. frame'.elapsed < expiration /\ currentTime' + expiration < W
    BY <1>4 DEF FrameInTime
  <2>6. ~Expired(lastUpdated[b], expiration, currentTime')
    BY <2>2, <2>3, <2>4, <2>5, WAssumption DEF Expired, Plus, Time
  <2>7. status'[b] # "none" /\ lastUpdated'[b] = lastUpdated[b]
    BY <1>6, <2>3, <2>6
  <2> QED
    BY <2>2, <2>3, <2>4, <2>7 DEF Held, Time
<1>8. FrameClean'
  <2> SUFFICES ASSUME FrameInTime', frame'.admitted # {},
                      NEW c \in Scope(IfcOf[frame'.from]) \cap Held'
               PROVE  currentTime' - lastUpdated'[c] < ImmediateDel + frame'.elapsed
    BY DEF FrameClean, Scope
  <2>1. /\ FrameInTime /\ frame'.admitted = frame.admitted
        /\ frame'.from = frame.from
    BY TickInTime
  <2>2. PICK n \in Nat : /\ currentTime' = currentTime + n
                         /\ frame'.elapsed = frame.elapsed + n
    BY TickInTime
  <2>3. c \in Binding /\ c \in Held /\ lastUpdated'[c] = lastUpdated[c]
    BY <1>5 DEF Held
  <2>4. currentTime - lastUpdated[c] < ImmediateDel + frame.elapsed
    BY <1>1, <2>1, <2>3 DEF FrameClean
  <2>5. /\ lastUpdated[c] \in Time /\ currentTime \in Time /\ ImmediateDel \in Time
        /\ frame.elapsed \in Nat
    BY <1>1, <2>1, <2>3, FrameFields, ServerAssumption DEF TypeOK, FrameInTime
  <2> QED
    BY <2>2, <2>3, <2>4, <2>5 DEF Time
<1> QED
  BY <1>3, <1>7, <1>8

(* The other steps start a frame, end one, or do not concern it.            *)
LEMMA OtherInv ==
    ASSUME FrameInv,
           \/ Neighbourly \/ FrameEnds
           \/ Configure /\ UNCHANGED <<rports, frame>>
           \/ UNCHANGED systemVars
    PROVE  (FrameTyped /\ FrameFresh /\ FrameClean)'
<1>1. IInv /\ TypeOK /\ FrameTyped /\ FrameFresh /\ FrameClean
  BY DEF FrameInv, IInv
<1>2. ASSUME NEW n \in Neighbour, NEW wanted \in SUBSET Scope(IfcOf[n]),
             NEW request \in Requested, FrameArrives(n, wanted, request)
      PROVE  (FrameTyped /\ FrameFresh /\ FrameClean)'
  <2>1. frame' = [from |-> n, request |-> request, todo |-> wanted,
                  admitted |-> {}, elapsed |-> 0]
    BY <1>2 DEF FrameArrives
  <2>2. 0 \in 0 .. ImmediateDel /\ Scope(IfcOf[n]) \in SUBSET Binding
    BY ScopeType, ServerAssumption DEF Time
  <2>3. FrameTyped'
    BY <2>1, <2>2 DEF FrameTyped, Scope
  <2> QED
    BY <2>1, <2>3 DEF FrameFresh, FrameClean
<1>3. ASSUME UNCHANGED <<tableVars, currentTime>>, frame' = frame
      PROVE  (FrameTyped /\ FrameFresh /\ FrameClean)'
  BY <1>1, <1>3 DEF FrameTyped, Idle, FrameFresh, FrameClean, FrameInTime, Held,
                    tableVars, Scope
<1>4. CASE Neighbourly
  <2>1. CASE \E n \in Neighbour : NeighbourAgesOut(n)
    BY <1>3, <2>1 DEF NeighbourAgesOut, vars
  <2> QED
    BY <1>2, <1>4, <2>1 DEF Neighbourly
<1>5. CASE FrameEnds
  BY <1>5 DEF FrameEnds, FrameTyped, FrameFresh, FrameClean, FrameInTime, Idle
<1>6. CASE Configure /\ UNCHANGED <<rports, frame>>
  BY <1>1, <1>3, <1>6, ConfigureFacts
<1>7. CASE UNCHANGED systemVars
  BY <1>3, <1>7 DEF systemVars, vars
<1> QED
  BY <1>4, <1>5, <1>6, <1>7

(* The invariant of the frames holds in every state.                        *)
LEMMA FrameInvariance == SystemSpec => []FrameInv
<1>1. SystemInit => FrameInv
  BY InitInv DEF SystemInit, FrameInv, FrameTyped, FrameFresh, FrameClean,
                 FrameInTime, Idle
<1>2. FrameInv /\ [SystemNext]_systemVars => FrameInv'
  <2> SUFFICES ASSUME FrameInv, [SystemNext]_systemVars PROVE FrameInv'
    OBVIOUS
  <2>1. FrameAsks
    BY FrameFields DEF FrameInv, FrameAsks
  <2>2. IInv'
    BY <2>1, SystemStepIsServerStep, NextInv DEF FrameInv
  <2>3. (FrameTyped /\ FrameFresh /\ FrameClean)'
    BY DeliverInv, ClockTicksInv, OtherInv DEF SystemNext, Process, Background
  <2> QED
    BY <2>2, <2>3 DEF FrameInv
<1> QED
  BY <1>1, <1>2, PTL DEF SystemSpec

(* A frame processed in time leaves all its admitted bindings in the table, *)
(* for every size of frame, order of its bindings and ticks between them.   *)
THEOREM FramesArrive == SystemSpec => []FrameLeavesItsBindings
<1>1. FrameInv => FrameLeavesItsBindings
  BY DEF FrameInv, FrameFresh, FrameLeavesItsBindings, FrameEndedInTime
<1> QED
  BY <1>1, FrameInvariance, PTL

(* And what its sender no longer asks for is gone, or nearly so.            *)
THEOREM FramesClean == SystemSpec => []FrameIsTheTruth
<1>1. FrameInv => FrameIsTheTruth
  <2> SUFFICES ASSUME FrameInv, FrameEndedInTime, frame.admitted # {},
                      NEW c \in Scope(IfcOf[frame.from]) \cap Held
               PROVE  ~OldEnough(lastUpdated[c], 2 * ImmediateDel, currentTime)
    BY DEF FrameIsTheTruth
  <2>1. /\ currentTime - lastUpdated[c] < ImmediateDel + frame.elapsed
        /\ frame.elapsed < ImmediateDel /\ ~Idle
    BY DEF FrameInv, FrameClean, FrameEndedInTime, FrameInTime
  <2>2. /\ lastUpdated[c] \in Time /\ currentTime \in Time /\ ImmediateDel \in Time
        /\ frame.elapsed \in Nat
    BY <2>1, FrameFields, ServerAssumption DEF FrameInv, IInv, TypeOK, Held
  <2> QED
    BY <2>1, <2>2 DEF OldEnough, Time
<1> QED
  BY <1>1, FrameInvariance, PTL
-----------------------------------------------------------------------------
(* What LLDP keeps of a neighbour of an interface. *)
Remote(p) == [from : {n \in Neighbour : IfcOf[n] = p},
              maps : UNION {[S -> Requested \cup {"ACTIVE"}] : S \in SUBSET Scope(p)}]

(* LLDP knows a neighbour at most once.                                     *)
KnownOnce(known) ==
    \A i, j \in DOMAIN known : known[i].from = known[j].from => i = j

HeardTyped ==
    /\ rports = [p \in Port |-> rports[p]]
    /\ \A p \in Port : rports[p] \in Seq(Remote(p)) /\ KnownOnce(rports[p])

(* LLDP without a neighbour: the others, once each.                         *)
LEMMA ForgottenKnows ==
    ASSUME HeardTyped, NEW n \in Neighbour
    PROVE  /\ Forgotten(n) \in Seq(Remote(IfcOf[n])) /\ KnownOnce(Forgotten(n))
           /\ \A i \in DOMAIN Forgotten(n) : Forgotten(n)[i].from # n
           /\ IfcOf[n] \in Port
<1> DEFINE s == rports[IfcOf[n]]
           known == {j \in DOMAIN s : s[j].from = n}
<1>1. IfcOf[n] \in Port /\ s \in Seq(Remote(IfcOf[n])) /\ KnownOnce(s)
  BY SystemAssumption DEF HeardTyped
<1>2. Forgotten(n) = IF known = {} THEN s ELSE RemoveAt(s, CHOOSE j \in known : TRUE)
  BY DEF Forgotten
<1> HIDE DEF s
<1>3. CASE known = {}
  BY <1>1, <1>2, <1>3
<1>4. CASE known # {}
  <2> DEFINE k == CHOOSE j \in known : TRUE
             rest == RemoveAt(s, k)
  <2>1. k \in known
    BY <1>4
  <2> HIDE DEF k
  <2>2. k \in 1 .. Len(s) /\ s[k].from = n /\ DOMAIN s = 1 .. Len(s)
    BY <1>1, <2>1, SMTT(30)
  <2>3. /\ rest \in Seq(Remote(IfcOf[n])) /\ Len(rest) = Len(s) - 1
        /\ \A i \in 1 .. Len(s) - 1 : rest[i] = IF i < k THEN s[i] ELSE s[i + 1]
    BY <1>1, <2>2, RemoveAtKeeps
  <2> HIDE DEF rest
  <2>4. DOMAIN rest = 1 .. Len(s) - 1 /\ Len(s) \in Nat
    BY <1>1, <2>3
  <2>5. \A i \in DOMAIN rest : \E m \in DOMAIN s \ {k} :
           /\ rest[i] = s[m]
           /\ m = IF i < k THEN i ELSE i + 1
    BY <2>2, <2>3, <2>4
  <2>6. \A i \in DOMAIN rest : rest[i].from # n
    BY <1>1, <2>2, <2>5 DEF KnownOnce
  <2>7. KnownOnce(rest)
    <3> SUFFICES ASSUME NEW i \in DOMAIN rest, NEW j \in DOMAIN rest,
                        rest[i].from = rest[j].from
                 PROVE  i = j
      BY DEF KnownOnce
    <3>1. PICK m \in DOMAIN s : rest[i] = s[m] /\ m = IF i < k THEN i ELSE i + 1
      BY <2>5
    <3>2. PICK o \in DOMAIN s : rest[j] = s[o] /\ o = IF j < k THEN j ELSE j + 1
      BY <2>5
    <3>3. m = o
      BY <1>1, <3>1, <3>2 DEF KnownOnce
    <3> QED
      BY <2>2, <2>4, <3>1, <3>2, <3>3
  <2>8. Forgotten(n) = rest
    BY <1>2, <1>4 DEF rest, k
  <2> QED
    BY <1>1, <2>3, <2>6, <2>7, <2>8
<1> QED
  BY <1>3, <1>4

(* The neighbours of an interface, with a binding of one of them ACTIVE.    *)
Answered(known, j, b) ==
    [known EXCEPT ![j].maps = [known[j].maps EXCEPT ![b] = "ACTIVE"]]

(* The agent's answer goes to one neighbour, which has the binding, and     *)
(* changes only the status of that.                                         *)
LEMMA AnswerGoesTo ==
    ASSUME NEW p \in Port, NEW rp, p \in DOMAIN rp, rp[p] \in Seq(Remote(p)),
           NEW b \in Scope(p)
    PROVE  \/ AsgnDataSet(rp, p, b, "ACTIVE", TRUE) = rp
           \/ \E j \in DOMAIN rp[p] :
                /\ b \in DOMAIN rp[p][j].maps
                /\ AsgnDataSet(rp, p, b, "ACTIVE", TRUE)
                     = [rp EXCEPT ![p] = Answered(rp[p], j, b)]
<1>1. CASE AsgnDataSetRc(rp, p, b) # "ENONE" \/ WithMaps(rp[p]) = {}
  BY <1>1 DEF AsgnDataSet
<1>2. CASE AsgnDataSetRc(rp, p, b) = "ENONE" /\ WithMaps(rp[p]) # {}
  <2> DEFINE j == Searched(rp[p])
  <2>1. WithMaps(rp[p]) \in SUBSET Nat /\ WithMaps(rp[p]) \in SUBSET DOMAIN rp[p]
    BY DEF WithMaps
  <2>2. j \in DOMAIN rp[p]
    BY <1>2, <2>1, MinIsLeast DEF Searched
  <2>3. b \in DOMAIN rp[p][j].maps
    BY <1>2 DEF AsgnDataSetRc
  <2>4. AsgnDataSet(rp, p, b, "ACTIVE", TRUE) = [rp EXCEPT ![p] = Answered(rp[p], j, b)]
    BY <1>2 DEF AsgnDataSet, Answered
  <2> QED
    BY <2>2, <2>3, <2>4
<1> QED
  BY <1>1, <1>2

(* So the neighbours and what they asked for stay.                          *)
LEMMA AnswerKeeps ==
    ASSUME NEW p \in Port, NEW s \in Seq(Remote(p)), NEW j \in DOMAIN s,
           NEW b \in DOMAIN s[j].maps
    PROVE  /\ Answered(s, j, b) \in Seq(Remote(p))
           /\ DOMAIN Answered(s, j, b) = DOMAIN s /\ Len(Answered(s, j, b)) = Len(s)
           /\ \A i \in DOMAIN s :
                 /\ Answered(s, j, b)[i].from = s[i].from
                 /\ DOMAIN Answered(s, j, b)[i].maps = DOMAIN s[i].maps
           /\ Answered(s, j, b)[j].maps[b] = "ACTIVE"
<1> DEFINE t == Answered(s, j, b)
           maps == [s[j].maps EXCEPT ![b] = "ACTIVE"]
           r == [s[j] EXCEPT !.maps = maps]
<1>1. s[j] \in Remote(p)
  OBVIOUS
<1>2. /\ s[j].from \in {n \in Neighbour : IfcOf[n] = p}
      /\ s[j].maps \in UNION {[S -> Requested \cup {"ACTIVE"}] : S \in SUBSET Scope(p)}
  BY <1>1 DEF Remote
<1>3. PICK S \in SUBSET Scope(p) : s[j].maps \in [S -> Requested \cup {"ACTIVE"}]
  BY <1>2
<1>4. maps \in [S -> Requested \cup {"ACTIVE"}] /\ maps[b] = "ACTIVE"
  BY <1>3
<1>5. DOMAIN maps = DOMAIN s[j].maps
  BY <1>3
<1> HIDE DEF maps
<1>6. r \in Remote(p) /\ r.from = s[j].from /\ r.maps = maps
  BY <1>1, <1>2, <1>4 DEF Remote
<1>7. t = [s EXCEPT ![j] = r]
  BY DEF maps, Answered
<1> HIDE DEF r, t
<1>8. /\ t \in Seq(Remote(p)) /\ DOMAIN t = DOMAIN s /\ Len(t) = Len(s)
      /\ t[j] = r /\ \A i \in DOMAIN s : i # j => t[i] = s[i]
  BY <1>6, <1>7
<1> QED
  BY <1>4, <1>5, <1>6, <1>8 DEF t

(* A frame becomes what LLDP knows last of the interface; of the others it  *)
(* keeps what it knew.                                                      *)
LEMMA ArrivalHeard ==
    ASSUME HeardTyped, NEW n \in Neighbour, NEW wanted \in SUBSET Scope(IfcOf[n]),
           NEW request \in Requested, FrameArrives(n, wanted, request)
    PROVE  /\ HeardTyped'
           /\ rports'[IfcOf[n]] =
                Append(Forgotten(n), [from |-> n, maps |-> [b \in wanted |-> request]])
           /\ \A p \in Port \ {IfcOf[n]} : rports'[p] = rports[p]
<1> DEFINE ifc == IfcOf[n]
           new == [from |-> n, maps |-> [b \in wanted |-> request]]
           t == Append(Forgotten(n), new)
<1>1. /\ Forgotten(n) \in Seq(Remote(ifc)) /\ KnownOnce(Forgotten(n))
      /\ \A i \in DOMAIN Forgotten(n) : Forgotten(n)[i].from # n
      /\ ifc \in Port
  BY ForgottenKnows
<1>2. new \in Remote(ifc) /\ new.from = n
  <2>1. [b \in wanted |-> request] \in [wanted -> Requested \cup {"ACTIVE"}]
    OBVIOUS
  <2> QED
    BY <2>1 DEF Remote
<1>3. rports' = [rports EXCEPT ![ifc] = t]
  BY DEF FrameArrives
<1> HIDE DEF new
<1>4. /\ t \in Seq(Remote(ifc)) /\ Len(t) = Len(Forgotten(n)) + 1
      /\ t[Len(t)] = new /\ \A i \in 1 .. Len(t) - 1 : t[i] = Forgotten(n)[i]
  BY <1>1, <1>2
<1>5. KnownOnce(t)
  <2> SUFFICES ASSUME NEW i \in DOMAIN t, NEW j \in DOMAIN t, t[i].from = t[j].from
               PROVE  i = j
    BY DEF KnownOnce
  <2>1. DOMAIN t = 1 .. Len(t) /\ DOMAIN Forgotten(n) = 1 .. Len(t) - 1 /\ Len(t) \in Nat
    BY <1>1, <1>4
  <2> QED
    BY <1>1, <1>2, <1>4, <2>1 DEF KnownOnce
<1> HIDE DEF t
<1>6. rports'[ifc] = t /\ \A p \in Port \ {ifc} : rports'[p] = rports[p]
  BY <1>1, <1>3 DEF HeardTyped
<1>7. rports' = [p \in Port |-> rports'[p]]
  BY <1>3 DEF HeardTyped
<1>8. \A p \in Port : rports'[p] \in Seq(Remote(p)) /\ KnownOnce(rports'[p])
  BY <1>4, <1>5, <1>6 DEF HeardTyped
<1>9. HeardTyped'
  BY <1>7, <1>8 DEF HeardTyped, Remote, Scope, KnownOnce
<1> QED
  BY <1>6, <1>9 DEF t, new

(* A binding that is processed, and its answer, leave the neighbours and    *)
(* what they asked for.                                                     *)
LEMMA DeliverHeard ==
    ASSUME HeardTyped, FrameTyped, NEW b \in Binding, Deliver(b)
    PROVE  /\ HeardTyped'
           /\ \A p \in Port : /\ Len(rports'[p]) = Len(rports[p])
                              /\ \A i \in DOMAIN rports[p] :
                                   /\ rports'[p][i].from = rports[p][i].from
                                   /\ DOMAIN rports'[p][i].maps = DOMAIN rports[p][i].maps
<1> DEFINE ifc == PortOf[b]
<1>1. ifc \in Port /\ b \in Scope(ifc)
  BY ServerAssumption DEF Scope
<1>2. CASE rports' = rports
  BY <1>2 DEF HeardTyped, Remote, Scope, KnownOnce
<1>3. CASE rports' # rports
  <2>1. rports' = AsgnDataSet(rports, ifc, b, "ACTIVE", TRUE)
    BY <1>3 DEF Deliver
  <2>2. PICK j \in DOMAIN rports[ifc] :
           /\ b \in DOMAIN rports[ifc][j].maps
           /\ rports' = [rports EXCEPT ![ifc] = Answered(rports[ifc], j, b)]
    <3>1. ifc \in DOMAIN rports /\ rports[ifc] \in Seq(Remote(ifc))
      BY <1>1 DEF HeardTyped
    <3> QED
      BY <1>1, <1>3, <2>1, <3>1, AnswerGoesTo, ZenonT(60)
  <2> DEFINE s == rports[ifc]
             t == Answered(s, j, b)
  <2>3. s \in Seq(Remote(ifc)) /\ KnownOnce(s)
    BY <1>1 DEF HeardTyped
  <2>4. rports' = [rports EXCEPT ![ifc] = t]
    BY <2>2
  <2>5. /\ t \in Seq(Remote(ifc)) /\ DOMAIN t = DOMAIN s /\ Len(t) = Len(s)
        /\ \A i \in DOMAIN s : /\ t[i].from = s[i].from
                               /\ DOMAIN t[i].maps = DOMAIN s[i].maps
    BY <1>1, <2>2, <2>3, AnswerKeeps
  <2> HIDE DEF t
  <2>6. rports'[ifc] = t /\ \A p \in Port \ {ifc} : rports'[p] = rports[p]
    BY <1>1, <2>4 DEF HeardTyped
  <2>7. rports' = [p \in Port |-> rports'[p]]
    BY <2>4 DEF HeardTyped
  <2>8. KnownOnce(t)
    BY <2>3, <2>5 DEF KnownOnce
  <2>9. \A p \in Port : rports'[p] \in Seq(Remote(p)) /\ KnownOnce(rports'[p])
    BY <2>5, <2>6, <2>8 DEF HeardTyped
  <2>10. HeardTyped'
    BY <2>7, <2>9 DEF HeardTyped, Remote, Scope, KnownOnce
  <2> QED
    BY <2>5, <2>6, <2>10
<1> QED
  BY <1>2, <1>3

(* What LLDP knows stays well typed in every step.                          *)
LEMMA HeardStep ==
    ASSUME HeardTyped, FrameTyped, [SystemNext]_systemVars
    PROVE  HeardTyped'
<1>1. ASSUME NEW n \in Neighbour, NeighbourAgesOut(n)
      PROVE  HeardTyped'
  <2> DEFINE ifc == IfcOf[n]
  <2>1. /\ Forgotten(n) \in Seq(Remote(ifc)) /\ KnownOnce(Forgotten(n))
        /\ ifc \in Port
    BY ForgottenKnows
  <2>2. rports' = [rports EXCEPT ![ifc] = Forgotten(n)]
    BY <1>1 DEF NeighbourAgesOut
  <2>3. rports'[ifc] = Forgotten(n) /\ \A p \in Port \ {ifc} : rports'[p] = rports[p]
    BY <2>1, <2>2 DEF HeardTyped
  <2>4. rports' = [p \in Port |-> rports'[p]]
    BY <2>2 DEF HeardTyped
  <2>5. \A p \in Port : rports'[p] \in Seq(Remote(p)) /\ KnownOnce(rports'[p])
    BY <2>1, <2>3 DEF HeardTyped
  <2> QED
    BY <2>4, <2>5 DEF HeardTyped, Remote, Scope, KnownOnce
<1>2. CASE Neighbourly
  BY <1>1, <1>2, ArrivalHeard DEF Neighbourly
<1>3. CASE rports' = rports
  BY <1>3 DEF HeardTyped, Remote, Scope, KnownOnce
<1>4. CASE FrameEnds
  BY <1>3, <1>4 DEF FrameEnds
<1>5. CASE Background
  BY <1>3, <1>5 DEF Background, ClockTicks
<1>6. CASE UNCHANGED systemVars
  BY <1>3, <1>6 DEF systemVars
<1> QED
  BY <1>2, <1>4, <1>5, <1>6, DeliverHeard DEF SystemNext, Process

LEMMA HeardInitially == SystemInit => HeardTyped
<1> SUFFICES ASSUME SystemInit PROVE HeardTyped
  OBVIOUS
<1>1. rports = [p \in Port |-> <<>>]
  BY DEF SystemInit
<1>2. \A p \in Port : rports[p] = <<>>
  BY <1>1
<1> QED
  BY <1>1, <1>2 DEF HeardTyped, KnownOnce

(* The typing of the system.                                                *)
SystemInv == FrameInv /\ HeardTyped

LEMMA SystemInvariance == SystemSpec => []SystemInv
<1>1. FrameInv => FrameTyped
  BY DEF FrameInv
<1>2. SystemInit => HeardTyped
  BY HeardInitially
<1>3. FrameTyped /\ HeardTyped /\ [SystemNext]_systemVars => HeardTyped'
  BY HeardStep
<1>4. FrameInv /\ HeardTyped => SystemInv
  BY DEF SystemInv
<1> QED
  BY <1>1, <1>2, <1>3, <1>4, FrameInvariance, PTL DEF SystemSpec

(* Every variable of the system keeps its type.                             *)
THEOREM SystemTypes == SystemSpec => []SystemTypeOK
<1>1. SystemInv => SystemTypeOK
  <2> SUFFICES ASSUME SystemInv PROVE SystemTypeOK
    OBVIOUS
  <2>1. TypeOK /\ HeardTyped /\ FrameTyped
    BY DEF SystemInv, FrameInv, IInv
  <2>2. ASSUME NEW p \in Port, NEW r \in Range(rports[p])
        PROVE  /\ r.from \in Neighbour /\ IfcOf[r.from] = p
               /\ r.maps \in [DOMAIN r.maps -> Requested \cup {"ACTIVE"}]
               /\ DOMAIN r.maps \subseteq Scope(p)
    <3>1. r \in Remote(p)
      BY <2>1 DEF Range, HeardTyped
    <3>2. PICK S \in SUBSET Scope(p) : r.maps \in [S -> Requested \cup {"ACTIVE"}]
      BY <3>1 DEF Remote
    <3> QED
      BY <3>1, <3>2 DEF Remote
  <2>3. DOMAIN rports = Port
    BY <2>1 DEF HeardTyped
  <2>4. ~Idle => /\ frame.from \in Neighbour
                 /\ frame.request \in Requested
                 /\ frame.todo \cup frame.admitted \subseteq Scope(IfcOf[frame.from])
                 /\ frame.elapsed \in 0 .. ImmediateDel
    BY <2>1, FrameFields
  <2> QED
    BY <2>1, <2>2, <2>3, <2>4 DEF SystemTypeOK
<1> QED
  BY <1>1, SystemInvariance, PTL
-----------------------------------------------------------------------------
(* The next result is about interfaces with one neighbour at most: the      *)
(* answer goes to the first neighbour with any assignments, which need not  *)
(* be the one that asked.                                                   *)
OneNeighbourEach ==
    \A m, n \in Neighbour : IfcOf[m] = IfcOf[n] => m = n

(* While a frame is processed LLDP knows its sender, and has the bindings   *)
(* that are still to come.                                                  *)
FrameShown ==
    ~Idle => /\ Len(rports[IfcOf[frame.from]]) = 1
             /\ frame.todo \subseteq DOMAIN rports[IfcOf[frame.from]][1].maps

(* A frame leaves LLDP with nobody but its sender.                          *)
LEMMA ArrivalShown ==
    ASSUME OneNeighbourEach, HeardTyped, NEW n \in Neighbour,
           NEW wanted \in SUBSET Scope(IfcOf[n]), NEW request \in Requested,
           FrameArrives(n, wanted, request)
    PROVE  FrameShown'
<1> DEFINE ifc == IfcOf[n]
           new == [from |-> n, maps |-> [b \in wanted |-> request]]
<1>1. /\ Forgotten(n) \in Seq(Remote(ifc))
      /\ \A i \in DOMAIN Forgotten(n) : Forgotten(n)[i].from # n
  BY ForgottenKnows
<1>2. \A i \in DOMAIN Forgotten(n) : FALSE
  <2> SUFFICES ASSUME NEW i \in DOMAIN Forgotten(n) PROVE FALSE
    OBVIOUS
  <2>1. Forgotten(n)[i] \in Remote(ifc)
    BY <1>1
  <2> QED
    BY <1>1, <2>1 DEF Remote, OneNeighbourEach
<1>3. Len(Forgotten(n)) = 0
  BY <1>1, <1>2
<1>4. rports'[ifc] = Append(Forgotten(n), new)
  BY ArrivalHeard
<1>5. frame' = [from |-> n, request |-> request, todo |-> wanted,
                admitted |-> {}, elapsed |-> 0]
  BY DEF FrameArrives
<1>6. DOMAIN new.maps = wanted
  OBVIOUS
<1> HIDE DEF new
<1>7. Len(rports'[ifc]) = 1 /\ rports'[ifc][1] = new
  BY <1>1, <1>3, <1>4
<1>8. frame'.from = n /\ frame'.todo = wanted
  BY <1>5
<1> QED
  BY <1>6, <1>7, <1>8, Zenon DEF FrameShown

(* The frame's bindings stay in LLDP until they are processed.              *)
LEMMA ShownStep ==
    ASSUME OneNeighbourEach, HeardTyped, FrameTyped, FrameShown,
           [SystemNext]_systemVars
    PROVE  FrameShown'
<1>1. CASE Neighbourly
  <2>1. ASSUME NEW n \in Neighbour, NeighbourAgesOut(n)
        PROVE  FrameShown'
    BY <2>1 DEF NeighbourAgesOut, FrameShown, Idle
  <2> QED
    BY <1>1, <2>1, ArrivalShown DEF Neighbourly
<1>2. CASE FrameEnds
  BY <1>2 DEF FrameEnds, FrameShown, Idle
<1>3. ASSUME NEW b \in Binding, Deliver(b)
      PROVE  FrameShown'
  <2> DEFINE ifc == IfcOf[frame.from]
  <2>1. ~Idle /\ frame.from \in Neighbour /\ ifc \in Port
    BY <1>3, DeliverCases, FrameFields, SystemAssumption
  <2>2. frame'.from = frame.from /\ frame'.todo = frame.todo \ {b}
    <3> DEFINE admitted == IF Heeded(PortOf[b]) /\ Admissible(b)
                           THEN frame.admitted \cup {b} ELSE frame.admitted
    <3>1. frame' = [frame EXCEPT !.todo = frame.todo \ {b}, !.admitted = admitted]
      BY <1>3, DeliverCases
    <3>2. frame \in [from : Neighbour, request : Requested,
                     todo : SUBSET Binding, admitted : SUBSET Binding,
                     elapsed : 0 .. ImmediateDel]
      BY <2>1 DEF FrameTyped
    <3> HIDE DEF admitted
    <3> QED
      BY <3>1, <3>2
  <2>3. Len(rports[ifc]) = 1 /\ frame.todo \subseteq DOMAIN rports[ifc][1].maps
    BY <2>1 DEF FrameShown
  <2>4. 1 \in DOMAIN rports[ifc]
    BY <2>1, <2>3 DEF HeardTyped
  <2>5. /\ Len(rports'[ifc]) = 1
        /\ DOMAIN rports'[ifc][1].maps = DOMAIN rports[ifc][1].maps
    BY <1>3, <2>1, <2>3, <2>4, DeliverHeard
  <2> QED
    BY <2>2, <2>3, <2>5 DEF FrameShown
<1>4. CASE ClockTicks
  <2>1. CASE Idle
    BY <1>4, <2>1 DEF ClockTicks, FrameShown, Idle
  <2>2. CASE ~Idle
    <3>1. PICK elapsed : frame' = [frame EXCEPT !.elapsed = elapsed]
      BY <1>4, <2>2 DEF ClockTicks
    <3>2. frame'.from = frame.from /\ frame'.todo = frame.todo
      BY <2>2, <3>1 DEF FrameTyped
    <3> QED
      BY <1>4, <2>2, <3>2 DEF ClockTicks, FrameShown
  <2> QED
    BY <2>1, <2>2
<1>5. CASE Configure /\ UNCHANGED <<rports, frame>>
  BY <1>5 DEF FrameShown, Idle
<1>6. CASE UNCHANGED systemVars
  BY <1>6 DEF FrameShown, Idle, systemVars
<1> QED
  BY <1>1, <1>2, <1>3, <1>4, <1>5, <1>6 DEF SystemNext, Process, Background

(* LLDP accepts the answer to a binding of the frame, and shows it.         *)
LEMMA AcceptedAndShown ==
    ASSUME SystemInv, FrameShown, NEW b \in Binding, Deliver(b),
           b \notin Held, status'[b] # "none"
    PROVE  status'[b] = "ACTIVE" /\ "ACTIVE" \in Shown(b)'
<1> DEFINE ifc == PortOf[b]
           s == rports[ifc]
<1>1. TypeOK /\ FrameTyped /\ HeardTyped
  BY DEF SystemInv, FrameInv, IInv
<1>2. /\ ~Idle /\ b \in frame.todo /\ b \in Scope(IfcOf[frame.from])
      /\ frame.request \in Requested /\ ifc \in Port
      /\ Heeded(ifc)
      /\ IfcOf[frame.from] = ifc
  <2>1. /\ ~Idle /\ b \in frame.todo /\ b \in Scope(IfcOf[frame.from])
        /\ frame.request \in Requested
        /\ Heeded(PortOf[b]) \/ UNCHANGED vars
    BY <1>1, DeliverCases
  <2>2. ~UNCHANGED vars
    BY DEF Held, vars, tableVars
  <2> QED
    BY <2>1, <2>2, ServerAssumption DEF Scope
<1>3. /\ s \in Seq(Remote(ifc)) /\ Len(s) = 1 /\ b \in DOMAIN s[1].maps
      /\ ifc \in DOMAIN rports
  BY <1>1, <1>2 DEF HeardTyped, FrameShown
<1>4. WithMaps(s) = {1}
  BY <1>3 DEF WithMaps
<1>5. Searched(s) = 1
  BY <1>4, MinIsLeast DEF Searched
<1>6. AsgnDataSetRc(rports, ifc, b) = "ENONE"
  BY <1>3, <1>4, <1>5 DEF AsgnDataSetRc
<1>7. ReceiveBinding(b, frame.request, TRUE)
  BY <1>2, <1>6 DEF Deliver, IgnoreBinding
<1>8. status[b] = "none" /\ frame.request # "none"
  BY <1>2, ServerAssumption DEF Held
<1> DEFINE sts == UpdatedStatus(b, frame.request, TRUE)
<1>9. status'[b] = sts[b]
  <2>1. Maintain(sts, UpdatedTimes(b), ImmediateDel, Scope(PortOf[b]), currentTime)
    BY <1>2, <1>7, ReceiveMaintains
  <2> HIDE DEF sts
  <2> QED
    BY <2>1 DEF Maintain, StatusWithout
<1>10. Admissible(b)
  BY <1>8, <1>9 DEF UpdatedStatus
<1>11. sts[b] = "ACTIVE"
  BY <1>1, <1>8, <1>10 DEF UpdatedStatus, Decided, TypeOK
<1>12. Answers(b, frame.request)
  BY <1>2, <1>8, <1>10 DEF Answers
<1>13. rports' = [rports EXCEPT ![ifc] = Answered(s, 1, b)]
  <2>1. rports' = AsgnDataSet(rports, ifc, b, "ACTIVE", TRUE)
    BY <1>12 DEF Deliver
  <2> QED
    BY <1>4, <1>5, <1>6, <2>1 DEF AsgnDataSet, Answered
<1>14. /\ Answered(s, 1, b) \in Seq(Remote(ifc))
       /\ 1 \in DOMAIN Answered(s, 1, b)
       /\ b \in DOMAIN Answered(s, 1, b)[1].maps
       /\ Answered(s, 1, b)[1].maps[b] = "ACTIVE"
  <2>1. 1 \in DOMAIN s
    BY <1>3
  <2> QED
    BY <1>2, <1>3, <2>1, AnswerKeeps
<1>15. rports'[ifc] = Answered(s, 1, b)
  BY <1>3, <1>13
<1> QED
  BY <1>9, <1>11, <1>14, <1>15 DEF Shown, Range

(* A request that makes a new entry is answered, where an interface has one *)
(* neighbour at most, for any number of interfaces and bindings and in      *)
(* whatever order a frame's are processed.                                  *)
THEOREM NewRequestsAreAnswered ==
    ASSUME OneNeighbourEach
    PROVE  SystemSpec => NewRequestAnswered
<1> DEFINE Answer == \A b \in Binding :
              (Deliver(b) /\ b \notin Held /\ status'[b] # "none") =>
                 status'[b] = "ACTIVE" /\ "ACTIVE" \in Shown(b)'
<1>1. SystemInit => FrameShown
  BY DEF SystemInit, FrameShown, Idle
<1>2. SystemInv => HeardTyped /\ FrameTyped
  BY DEF SystemInv, FrameInv
<1>3. HeardTyped /\ FrameTyped /\ FrameShown /\ [SystemNext]_systemVars => FrameShown'
  BY ShownStep
<1>4. SystemInv /\ FrameShown => [Answer]_systemVars
  BY AcceptedAndShown
<1> QED
  BY <1>1, <1>2, <1>3, <1>4, SystemInvariance, PTL DEF SystemSpec, NewRequestAnswered
=============================================================================
