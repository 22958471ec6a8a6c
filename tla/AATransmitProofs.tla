-------------------------- MODULE AATransmitProofs --------------------------
(***************************************************************************)
(* The arithmetic on times, and that both tickers measure exactly what      *)
(* passed; that a walk over the ports, which takes no lock, reaches every   *)
(* port that stays on the list; and from both, that no neighbour forgets    *)
(* us: for every number of parts of a second, every clock, interval and     *)
(* hold multiplier, and every list of ports.                                *)
(***************************************************************************)
EXTENDS AATransmit, AALemmas

(* A sum of times stands for the sum of what they stand for.                *)
LEMMA TimeAddTotal ==
    ASSUME NEW a \in Timespec, NEW b \in Timespec
    PROVE  /\ TimeAdd(a, b) \in Timespec
           /\ Total(TimeAdd(a, b)) = Total(a) + Total(b)
<1> DEFINE nsec == a.tv_nsec + b.tv_nsec
           sec == a.tv_sec + b.tv_sec
<1>1. /\ a.tv_sec \in Nat /\ b.tv_sec \in Nat
      /\ a.tv_nsec \in 0 .. NSECS_PER_SEC - 1
      /\ b.tv_nsec \in 0 .. NSECS_PER_SEC - 1
  BY DEF Timespec
<1>2. CASE nsec < NSECS_PER_SEC
  <2>1. TimeAdd(a, b) = [tv_sec |-> sec, tv_nsec |-> nsec]
    BY <1>2 DEF TimeAdd
  <2> QED
    BY <1>1, <1>2, <2>1, TimeAssumption DEF Timespec, Total
<1>3. CASE ~(nsec < NSECS_PER_SEC)
  <2>1. TimeAdd(a, b) = [tv_sec |-> sec + 1, tv_nsec |-> nsec - NSECS_PER_SEC]
    BY <1>3 DEF TimeAdd
  <2> QED
    BY <1>1, <1>3, <2>1, TimeAssumption DEF Timespec, Total
<1> QED
  BY <1>2, <1>3

(* Subtraction undoes addition: what a tick measures is what passed, though *)
(* the one carries and the other borrows.                                   *)
LEMMA SubUndoesAdd ==
    ASSUME NEW a \in Timespec, NEW d \in Timespec
    PROVE  TimeSub(TimeAdd(a, d), a) = d
<1>1. /\ a.tv_sec \in Nat /\ d.tv_sec \in Nat
      /\ a.tv_nsec \in 0 .. NSECS_PER_SEC - 1
      /\ d.tv_nsec \in 0 .. NSECS_PER_SEC - 1
      /\ d = [tv_sec |-> d.tv_sec, tv_nsec |-> d.tv_nsec]
  BY DEF Timespec
<1>2. CASE a.tv_nsec + d.tv_nsec < NSECS_PER_SEC
  BY <1>1, <1>2, TimeAssumption DEF TimeAdd, TimeSub
<1>3. CASE ~(a.tv_nsec + d.tv_nsec < NSECS_PER_SEC)
  BY <1>1, <1>3, TimeAssumption DEF TimeAdd, TimeSub
<1> QED
  BY <1>2, <1>3

(* The comparison of two pairs is that of the times they stand for.         *)
LEMMA TimeLessIsLess ==
    ASSUME NEW a \in Timespec, NEW b \in Timespec
    PROVE  TimeLess(a, b) <=> Total(a) < Total(b)
<1>1. /\ a.tv_sec \in Nat /\ b.tv_sec \in Nat
      /\ a.tv_nsec \in 0 .. NSECS_PER_SEC - 1
      /\ b.tv_nsec \in 0 .. NSECS_PER_SEC - 1
  BY DEF Timespec
<1>2. ASSUME NEW x \in Nat, NEW y \in Nat, x < y
      PROVE  x * NSECS_PER_SEC + NSECS_PER_SEC <= y * NSECS_PER_SEC
  <2>1. PICK k \in Nat : y = x + 1 + k
    <3>1. y - x - 1 \in Nat /\ y = x + 1 + (y - x - 1)
      BY <1>2
    <3> QED
      BY <3>1
  <2>2. y * NSECS_PER_SEC = x * NSECS_PER_SEC + NSECS_PER_SEC + k * NSECS_PER_SEC
    BY <2>1, TimeAssumption
  <2>3. k * NSECS_PER_SEC >= 0
    BY TimeAssumption
  <2> QED
    BY <2>2, <2>3, TimeAssumption
<1>3. CASE a.tv_sec < b.tv_sec
  <2>1. a.tv_sec * NSECS_PER_SEC + NSECS_PER_SEC <= b.tv_sec * NSECS_PER_SEC
    BY <1>1, <1>3, <1>2
  <2>2. Total(a) < Total(b)
    BY <1>1, <2>1, TimeAssumption DEF Total
  <2>3. Total(a) \in Int /\ Total(b) \in Int
    BY <1>1, TimeAssumption DEF Total
  <2> QED
    BY <1>1, <1>3, <2>2, <2>3 DEF TimeLess
<1>4. CASE b.tv_sec < a.tv_sec
  <2>1. b.tv_sec * NSECS_PER_SEC + NSECS_PER_SEC <= a.tv_sec * NSECS_PER_SEC
    BY <1>1, <1>4, <1>2
  <2>2. Total(b) < Total(a)
    BY <1>1, <2>1, TimeAssumption DEF Total
  <2>3. Total(a) \in Int /\ Total(b) \in Int
    BY <1>1, TimeAssumption DEF Total
  <2> QED
    BY <1>1, <1>4, <2>2, <2>3 DEF TimeLess
<1>5. CASE a.tv_sec = b.tv_sec
  BY <1>1, <1>5, TimeAssumption DEF TimeLess, Total
<1> QED
  BY <1>1, <1>3, <1>4, <1>5
-----------------------------------------------------------------------------
(* What the tickers keep is well typed, and stands for what passed.         *)
TickInv ==
    /\ {prev, sum, aatrans_sum, aatrans_wait} \subseteq Timespec
    /\ c_tx_interval \in Nat
    /\ since \in [agent : Nat, transport : Nat]
    /\ SumIsElapsed

LEMMA SecondsTyped ==
    \A s \in Nat : Seconds(s) \in Timespec /\ Total(Seconds(s)) = s * NSECS_PER_SEC
  BY TimeAssumption DEF Seconds, Timespec, Total

LEMMA TotalTyped == \A t \in Timespec : Total(t) \in Nat
<1> TAKE t \in Timespec
<1>1. t.tv_sec \in Nat /\ t.tv_nsec \in Nat
  BY TimeAssumption DEF Timespec
<1>2. t.tv_sec * NSECS_PER_SEC \in Nat
  BY <1>1, TimeAssumption
<1> QED
  BY <1>1, <1>2 DEF Total

(* One ticker: its sum follows the time since its last message.             *)
LEMMA SumFollows ==
    ASSUME NEW old \in Timespec, NEW d \in Timespec, NEW wait \in Timespec,
           NEW elapsed \in Nat, Total(old) = elapsed
    PROVE  /\ NewSum(old, d, wait) \in Timespec
           /\ Total(NewSum(old, d, wait)) =
                 IF Due(old, d, wait) THEN 0 ELSE elapsed + Total(d)
           /\ ~Due(old, d, wait) => elapsed + Total(d) < Total(wait)
<1>1. Seconds(0) \in Timespec /\ Total(Seconds(0)) = 0
  BY SecondsTyped, TimeAssumption
<1>2. /\ TimeAdd(old, d) \in Timespec
      /\ Total(TimeAdd(old, d)) = elapsed + Total(d)
  BY TimeAddTotal
<1>3. ~Due(old, d, wait) => Total(TimeAdd(old, d)) < Total(wait)
  BY <1>2, TimeLessIsLess DEF Due
<1> QED
  BY <1>1, <1>2, <1>3 DEF NewSum

LEMMA TickInvInitially == Init => TickInv
<1> SUFFICES ASSUME Init PROVE TickInv
  OBVIOUS
<1>1. Seconds(0) \in Timespec /\ Total(Seconds(0)) = 0
  BY SecondsTyped, TimeAssumption
<1>2. Seconds(c_tx_interval) \in Timespec
  BY SecondsTyped, TransmitAssumption DEF Init
<1>3. c_tx_interval \in Nat
  BY TransmitAssumption DEF Init
<1> QED
  BY <1>1, <1>2, <1>3, TimeAssumption DEF Init, TickInv, SumIsElapsed

(* A tick.  What it measures does not depend on where the clock stands.     *)
LEMMA TickInvTick ==
    ASSUME TickInv, NEW d \in Tick, NEW memory \in BOOLEAN, ClockTicks(d, memory)
    PROVE  TickInv'
<1> DEFINE curr == TimeAdd(prev, d)
<1>1. d \in Timespec
  BY TransmitAssumption
<1>2. /\ prev \in Timespec /\ sum \in Timespec
      /\ aatrans_sum \in Timespec /\ aatrans_wait \in Timespec
      /\ since.agent \in Nat /\ since.transport \in Nat
      /\ Total(sum) = since.agent /\ Total(aatrans_sum) = since.transport
  BY DEF TickInv, SumIsElapsed
<1>3. curr \in Timespec /\ TimeSub(curr, prev) = d
  BY <1>1, <1>2, TimeAddTotal, SubUndoesAdd
<1>4. prev' \in Timespec
  <2>1. curr.tv_sec % ClockWrap \in Nat
    BY <1>3, TransmitAssumption DEF Timespec
  <2>2. prev' = [curr EXCEPT !.tv_sec = @ % ClockWrap]
    BY DEF ClockTicks
  <2> HIDE DEF curr
  <2> QED
    BY <1>3, <2>1, <2>2 DEF Timespec
<1>5. Seconds(1) \in Timespec /\ Total(Seconds(1)) = NSECS_PER_SEC
  BY SecondsTyped, TimeAssumption
<1>6. /\ sum' = NewSum(sum, d, Seconds(1))
      /\ aatrans_sum' = NewSum(aatrans_sum, d, aatrans_wait)
      /\ since' = [agent |-> IF Due(sum, d, Seconds(1)) THEN 0
                             ELSE since.agent + Total(d),
                   transport |-> IF Due(aatrans_sum, d, aatrans_wait) THEN 0
                                 ELSE since.transport + Total(d)]
      /\ aatrans_wait' = aatrans_wait /\ c_tx_interval' = c_tx_interval
  BY <1>3 DEF ClockTicks, configVars
<1>7. /\ sum' \in Timespec /\ Total(sum)' = since'.agent
      /\ since'.agent \in Nat /\ since'.agent < NSECS_PER_SEC
  BY <1>1, <1>2, <1>5, <1>6, SumFollows, TotalTyped, TimeAssumption
<1>8. /\ aatrans_sum' \in Timespec /\ Total(aatrans_sum)' = since'.transport
      /\ since'.transport \in Nat
  BY <1>1, <1>2, <1>6, SumFollows, TotalTyped
<1> QED
  BY <1>2, <1>4, <1>6, <1>7, <1>8 DEF TickInv, SumIsElapsed

LEMMA TickInvStep == TickInv /\ [Next]_vars => TickInv'
<1> SUFFICES ASSUME TickInv, [Next]_vars
             PROVE  TickInv'
  OBVIOUS
<1>1. CASE UNCHANGED <<tickVars, aatrans_wait, c_tx_interval, since>>
  BY <1>1 DEF tickVars, TickInv, SumIsElapsed, Total
<1>2. ASSUME NEW d \in Tick, NEW memory \in BOOLEAN, ClockTicks(d, memory)
      PROVE  TickInv'
  BY <1>2, TickInvTick
<1>3. ASSUME NEW value \in Interval, TxIntervalSet(value)
      PROVE  TickInv'
  <2>1. c_tx_interval' \in Nat /\ UNCHANGED <<tickVars, aatrans_wait, since>>
    BY <1>3, TransmitAssumption DEF TxIntervalSet
  <2> QED
    BY <2>1 DEF tickVars, TickInv, SumIsElapsed, Total
<1>4. CASE WaitSet
  <2>1. /\ aatrans_wait' \in Timespec
        /\ UNCHANGED <<tickVars, c_tx_interval, since>>
    BY <1>4, SecondsTyped DEF WaitSet, TickInv
  <2> QED
    BY <2>1 DEF tickVars, TickInv, SumIsElapsed, Total
<1>5. CASE UNCHANGED vars
  BY <1>1, <1>5 DEF vars, configVars
<1>6. CASE Compose \/ SendFails \/ Advance \/ (\E p \in Port : PortCreate(p))
           \/ (\E i \in DOMAIN hardware : PortDelete(i))
           \/ (\E value \in Hold : TxHoldMultiplierSet(value)) \/ TtlSet
  BY <1>1, <1>6 DEF Compose, SendFails, Advance, PortCreate, PortDelete,
                    TxHoldMultiplierSet, TtlSet, configVars
<1> QED
  BY <1>2, <1>3, <1>4, <1>5, <1>6 DEF Next, Clock, Configuration

(* Both tickers measure exactly what passed since their last message, and   *)
(* the agent's never goes a full second without one.                        *)
THEOREM TickersMeasureTime == Spec => []SumIsElapsed
<1>1. TickInv => SumIsElapsed
  BY DEF TickInv
<1> QED
  BY <1>1, TickInvInitially, TickInvStep, PTL DEF Spec
-----------------------------------------------------------------------------
(* The list of ports, whatever is created and deleted: its links are those  *)
(* of the list, and no port is on it twice.                                 *)
HardwareInv ==
    /\ hardware \in Seq(Node)
    /\ \A i, j \in DOMAIN hardware : ifindex[hardware[i]] = ifindex[hardware[j]] => i = j
    /\ \A i \in DOMAIN hardware :
          next[hardware[i]] = IF i = Len(hardware) THEN NULL ELSE hardware[i + 1]

(* What the setters have still to assign may disagree, and nothing else.    *)
ConfigInv ==
    /\ aatrans_wait = Seconds(aatrans_wait.tv_sec) /\ aatrans_wait.tv_sec \in Nat
    /\ setting \in {"none", "hold"} => aatrans_wait = Seconds(c_tx_interval)
    /\ setting \in {"none", "wait"} => c_ttl = c_tx_interval * c_tx_hold

(* What lies ahead of a walk.  A node that was removed still leads to what  *)
(* came after it, so the links of the nodes on the list say too little:     *)
(* ahead of any node, on the list or not, is at most itself and what is     *)
(* ahead of the node that it leads to; and what the walk still owes a frame *)
(* is ahead of where it is.                                                 *)
Leads(A) ==
    /\ A \in [Node -> SUBSET Node]
    /\ \A m \in Node : \A x \in A[m] : x = m \/ (next[m] # NULL /\ x \in A[next[m]])

Owed(A) == \A x \in present \ reached : x \in A[at] /\ (pc = "advance" => x # at)

AheadInv ==
    pc # "idle" =>
        /\ at \in Node /\ present \subseteq OnList
        /\ \E A \in [Node -> SUBSET Node] : Leads(A) /\ Owed(A)

TransmitInv == TypeOK /\ TickInv /\ ConfigInv /\ HardwareInv /\ AheadInv

LEMMA TransmitInitially == Init => TransmitInv
<1> SUFFICES ASSUME Init PROVE TransmitInv
  OBVIOUS
<1>1. TickInv
  BY TickInvInitially
<1>2. hardware = << >> /\ << >> \in Seq(Node) /\ DOMAIN << >> = {} /\ OnList = {}
  BY DEF Init, OnList, ToSet
<1>3. HardwareInv
  BY <1>2 DEF HardwareInv
<1>4. AnyPort \in Port
  BY TransmitAssumption DEF AnyPort
<1>5. c_tx_interval \in Nat /\ c_tx_hold \in Nat /\ c_ttl \in Nat
  BY TransmitAssumption DEF Init
<1>6. TypeOK
  BY <1>1, <1>2, <1>4, <1>5 DEF Init, TypeOK, TickInv, NoLeases
<1>7. ConfigInv
  BY <1>5 DEF Init, ConfigInv, Seconds
<1> QED
  BY <1>1, <1>3, <1>6, <1>7 DEF Init, TransmitInv, AheadInv

(* What every step keeps that leaves the ports alone.                       *)
LEMMA OnListIs == OnList = {hardware[i] : i \in DOMAIN hardware}
  BY DEF OnList, ToSet

LEMMA OnListTyped ==
    ASSUME HardwareInv
    PROVE  OnList \subseteq Node
  BY OnListIs DEF HardwareInv

(* When a walk starts, all ports on the list are ahead of the first.        *)
LEMMA WalkStarts ==
    ASSUME HardwareInv, hardware # << >>
    PROVE  \E A \in [Node -> SUBSET Node] :
              Leads(A) /\ \A x \in OnList : x \in A[Head(hardware)]
<1> DEFINE l == Len(hardware)
           A == [m \in Node |-> {n \in Node : \E i, j \in DOMAIN hardware :
                                    i <= j /\ hardware[i] = m /\ hardware[j] = n}]
<1>1. l \in Nat \ {0} /\ DOMAIN hardware = 1 .. l /\ 1 \in DOMAIN hardware
      /\ Head(hardware) = hardware[1] /\ \A i \in DOMAIN hardware : hardware[i] \in Node
  BY DEF HardwareInv
<1>2. A \in [Node -> SUBSET Node]
  OBVIOUS
<1>3. \A m \in Node : \A x \in A[m] : x \in Node /\
         \E i, j \in DOMAIN hardware : i <= j /\ hardware[i] = m /\ hardware[j] = x
  OBVIOUS
<1>4. \A i, j \in DOMAIN hardware : i <= j => hardware[j] \in A[hardware[i]]
  BY <1>1
<1> HIDE DEF A
<1>5. ASSUME NEW m \in Node, NEW x \in A[m], x # m
      PROVE  next[m] # NULL /\ x \in A[next[m]]
  <2>1. PICK i \in DOMAIN hardware, j \in DOMAIN hardware :
           i <= j /\ hardware[i] = m /\ hardware[j] = x
    BY <1>3, <1>5
  <2>2. i # j
    BY <1>5, <2>1
  <2>3. i + 1 \in DOMAIN hardware /\ i + 1 <= j /\ i # l
    BY <1>1, <2>1, <2>2
  <2>4. next[m] = hardware[i + 1]
    BY <2>1, <2>3 DEF HardwareInv
  <2> QED
    BY <1>1, <1>4, <2>1, <2>3, <2>4, TransmitAssumption
<1>6. \A x \in OnList : x \in A[hardware[1]]
  <2> SUFFICES ASSUME NEW x \in OnList PROVE x \in A[hardware[1]]
    OBVIOUS
  <2>1. PICK j \in DOMAIN hardware : x = hardware[j]
    BY OnListIs
  <2>2. \A i \in DOMAIN hardware : i = 1 => i <= j
    BY <1>1
  <2> QED
    BY <1>1, <1>4, <2>1, <2>2
<1> QED
  BY <1>1, <1>2, <1>5, <1>6 DEF Leads

LEMMA TransmitTick ==
    ASSUME TransmitInv, NEW d \in Tick, NEW memory \in BOOLEAN, ClockTicks(d, memory)
    PROVE  TransmitInv'
<1>1. TickInv'
  BY TickInvTick DEF TransmitInv
<1>2. UNCHANGED <<configVars, listVars>>
  BY DEF ClockTicks
<1>3. HardwareInv' /\ ConfigInv' /\ OnList' = OnList
  BY <1>2 DEF TransmitInv, HardwareInv, ConfigInv, configVars, listVars, OnList
<1>4. \/ UNCHANGED walkVars
      \/ /\ hardware # << >> /\ pc' = "compose" /\ at' = Head(hardware)
         /\ present' = OnList /\ reached' = {}
  BY DEF ClockTicks
<1>5. Total(d) \in Nat
  BY TotalTyped, TransmitAssumption
<1>6. lease' \in [Followed -> Nat \cup {NoLease}]
  <2>1. lease' = [p \in Followed |->
           IF lease[p] = NoLease \/ ~memory THEN NoLease
           ELSE IF lease[p] > Total(d) THEN lease[p] - Total(d) ELSE 0]
    BY DEF ClockTicks
  <2>2. \A p \in Followed : lease[p] \in Nat \cup {NoLease}
    BY DEF TransmitInv, TypeOK
  <2> QED
    BY <1>5, <2>1, <2>2
<1>7. hardware # << >> => Head(hardware) \in Node /\ OnList \subseteq Node
  BY OnListTyped DEF TransmitInv, HardwareInv
<1>8. TypeOK'
  BY <1>1, <1>2, <1>3, <1>4, <1>6, <1>7
  DEF TransmitInv, TypeOK, TickInv, configVars, listVars, walkVars
<1>9. AheadInv'
  <2>1. pc = "idle"
    BY DEF ClockTicks
  <2>2. CASE UNCHANGED walkVars
    BY <2>1, <2>2 DEF AheadInv, walkVars
  <2>3. CASE /\ hardware # << >> /\ pc' = "compose" /\ at' = Head(hardware)
             /\ present' = OnList /\ reached' = {}
    <3>1. PICK A \in [Node -> SUBSET Node] :
             Leads(A) /\ \A x \in OnList : x \in A[Head(hardware)]
      BY <2>3, WalkStarts DEF TransmitInv
    <3>2. Leads(A)'
      BY <1>2, <3>1 DEF Leads, listVars
    <3>3. Owed(A)'
      BY <2>3, <3>1 DEF Owed
    <3>4. at' \in Node /\ present' \subseteq OnList'
      BY <1>3, <1>7, <2>3
    <3> QED
      BY <3>2, <3>3, <3>4 DEF AheadInv
  <2> QED
    BY <1>4, <2>2, <2>3
<1> QED
  BY <1>1, <1>3, <1>8, <1>9 DEF TransmitInv

LEMMA TransmitCompose ==
    ASSUME TransmitInv, Compose
    PROVE  TransmitInv'
<1>1. TickInv'
  BY TickInvStep DEF TransmitInv, Next, Clock
<1>2. UNCHANGED <<tickVars, configVars, listVars, since, at, present>>
      /\ pc = "compose" /\ pc' = "advance"
  BY DEF Compose
<1>3. HardwareInv' /\ ConfigInv' /\ OnList' = OnList
  BY <1>2 DEF TransmitInv, HardwareInv, ConfigInv, configVars, listVars, OnList
<1>4. at \in Node /\ present \subseteq OnList
  BY <1>2 DEF TransmitInv, AheadInv
<1>5. /\ reached' = reached \/ reached' = reached \cup {at}
      /\ at \in OnList => at \in reached'
      /\ lease' = lease \/ lease' = Promised(ifindex[at], IF Lasting THEN
                                        c_ttl * NSECS_PER_SEC ELSE NoLease)
  BY DEF Compose
<1>6. c_ttl * NSECS_PER_SEC \in Nat
  BY TimeAssumption DEF TransmitInv, TypeOK
<1>7. lease' \in [Followed -> Nat \cup {NoLease}]
  BY <1>5, <1>6 DEF TransmitInv, TypeOK, Promised
<1>8. TypeOK'
  BY <1>2, <1>3, <1>4, <1>5, <1>7
  DEF TransmitInv, TypeOK, tickVars, configVars, listVars
<1>9. AheadInv'
  <2>1. PICK A \in [Node -> SUBSET Node] : Leads(A) /\ Owed(A)
    BY <1>2 DEF TransmitInv, AheadInv
  <2>2. Leads(A)'
    BY <1>2, <2>1 DEF Leads, listVars
  <2>3. Owed(A)'
    BY <1>2, <1>4, <1>5, <2>1 DEF Owed
  <2> QED
    BY <1>2, <1>3, <1>4, <2>2, <2>3 DEF AheadInv
<1> QED
  BY <1>1, <1>3, <1>8, <1>9 DEF TransmitInv

(* The end of a walk, whatever ends it.                                     *)
LEMMA WalkEndKeeps ==
    ASSUME TypeOK, HardwareInv, WalkEnds, hardware' = hardware
    PROVE  /\ next' \in [Node -> Node \cup {NULL}] /\ ifindex' \in [Node -> Port]
           /\ HardwareInv' /\ AheadInv' /\ OnList' = OnList
           /\ \A m \in OnList : ifindex'[m] = ifindex[m]
<1>1. /\ next' = Kept(hardware, next, NULL) /\ ifindex' = Kept(hardware, ifindex, AnyPort)
      /\ pc' = "idle"
  BY DEF WalkEnds
<1>2. AnyPort \in Port
  BY TransmitAssumption DEF AnyPort
<1>3. OnList \subseteq Node
  BY OnListTyped
<1>4. /\ next' \in [Node -> Node \cup {NULL}] /\ ifindex' \in [Node -> Port]
      /\ \A m \in OnList : next'[m] = next[m] /\ ifindex'[m] = ifindex[m]
  BY <1>1, <1>2, <1>3 DEF TypeOK, Kept, OnList
<1>5. \A i \in DOMAIN hardware : hardware[i] \in OnList
  BY OnListIs
<1>6. HardwareInv'
  BY <1>4, <1>5 DEF HardwareInv
<1> QED
  BY <1>1, <1>4, <1>6 DEF OnList, AheadInv

(* A step of the walk: what is still ahead is ahead of the next node, and   *)
(* behind the last one is nothing.                                          *)
LEMMA TransmitAdvance ==
    ASSUME TransmitInv, Advance
    PROVE  /\ TransmitInv' /\ (pc' = "idle" => present \subseteq reached)
           /\ OnList' = OnList /\ \A m \in OnList : ifindex'[m] = ifindex[m]
<1>1. TickInv'
  BY TickInvStep DEF TransmitInv, Next, Clock
<1>2. /\ UNCHANGED <<tickVars, configVars, hardware, since, lease>> /\ pc = "advance"
      /\ TypeOK /\ HardwareInv /\ ConfigInv'
  BY DEF Advance, TransmitInv, ConfigInv, configVars
<1>3. /\ at \in Node /\ present \subseteq OnList
      /\ next \in [Node -> Node \cup {NULL}] /\ ifindex \in [Node -> Port]
  BY <1>2 DEF TransmitInv, AheadInv, TypeOK
<1>4. PICK A \in [Node -> SUBSET Node] : Leads(A) /\ Owed(A)
  BY <1>2 DEF TransmitInv, AheadInv
<1>5. CASE next[at] = NULL
  <2>1. WalkEnds /\ pc' = "idle" /\ at' = NULL /\ present' = {} /\ reached' = {}
    BY <1>5 DEF Advance, WalkEnds
  <2>2. /\ next' \in [Node -> Node \cup {NULL}] /\ ifindex' \in [Node -> Port]
        /\ HardwareInv' /\ AheadInv' /\ OnList' = OnList
        /\ \A m \in OnList : ifindex'[m] = ifindex[m]
    BY <1>2, <2>1, WalkEndKeeps
  <2>3. TypeOK'
    BY <1>2, <2>1, <2>2 DEF TypeOK, tickVars, configVars
  <2>4. ASSUME NEW x \in present \ reached PROVE FALSE
    BY <1>2, <1>3, <1>4, <1>5, <2>4 DEF Leads, Owed
  <2> QED
    BY <1>1, <1>2, <2>2, <2>3, <2>4 DEF TransmitInv
<1>6. CASE next[at] # NULL
  <2>1. /\ pc' = "compose" /\ at' = next[at] /\ at' \in Node
        /\ UNCHANGED <<present, reached, next, ifindex>>
    BY <1>3, <1>6 DEF Advance
  <2>2. HardwareInv' /\ OnList' = OnList
    BY <1>2, <2>1 DEF HardwareInv, OnList
  <2>3. TypeOK'
    BY <1>2, <2>1, <2>2 DEF TypeOK, tickVars, configVars
  <2>4. Leads(A)'
    BY <1>4, <2>1 DEF Leads
  <2>5. \A x \in present \ reached : x \in A[next[at]]
    BY <1>2, <1>3, <1>4 DEF Leads, Owed
  <2>6. Owed(A)'
    BY <2>1, <2>5 DEF Owed
  <2>7. AheadInv'
    BY <1>3, <2>1, <2>2, <2>4, <2>6 DEF AheadInv
  <2> QED
    BY <1>1, <1>2, <2>1, <2>2, <2>3, <2>7 DEF TransmitInv
<1> QED
  BY <1>5, <1>6

LEMMA TransmitFails ==
    ASSUME TransmitInv, SendFails
    PROVE  /\ TransmitInv'
           /\ OnList' = OnList /\ \A m \in OnList : ifindex'[m] = ifindex[m]
<1>1. TickInv'
  BY TickInvStep DEF TransmitInv, Next, Clock
<1>2. /\ UNCHANGED <<tickVars, configVars, hardware, since>> /\ WalkEnds
      /\ TypeOK /\ HardwareInv /\ ConfigInv'
  BY DEF SendFails, TransmitInv, ConfigInv, configVars
<1>3. /\ next' \in [Node -> Node \cup {NULL}] /\ ifindex' \in [Node -> Port]
      /\ HardwareInv' /\ AheadInv' /\ OnList' = OnList
      /\ \A m \in OnList : ifindex'[m] = ifindex[m]
  BY <1>2, WalkEndKeeps
<1>4. lease' \in [Followed -> Nat \cup {NoLease}]
  BY DEF SendFails, TransmitInv, TypeOK
<1>5. TypeOK'
  BY <1>2, <1>3, <1>4 DEF TypeOK, tickVars, configVars, WalkEnds
<1> QED
  BY <1>1, <1>2, <1>3, <1>5 DEF TransmitInv

(* What a walk can reach.  The nodes that are led to are collected one link *)
(* after another, as many as there are nodes: until a link adds none, each  *)
(* adds one.                                                                *)
LEMMA LedIsClosed ==
    ASSUME TypeOK
    PROVE  /\ Led \in SUBSET Node /\ (at # NULL => at \in Led)
           /\ \A m \in Led : next[m] # NULL => next[m] \in Led
<1> DEFINE N == Cardinality(Node)
           further(s) == s \cup ({next[n] : n \in s} \ {NULL})
           IsLed(from) == from = [m \in 0 .. N |-> IF m = 0 THEN {at} \ {NULL}
                                                   ELSE further(from[m - 1])]
           from == CHOOSE f : IsLed(f)
<1>1. N \in Nat /\ IsFiniteSet(Node)
  BY TransmitAssumption, FS_CardinalityType
<1>2. Led = from[N]
  BY DEF Led
<1>3. \A s \in SUBSET Node : further(s) \in SUBSET Node /\ s \subseteq further(s)
  BY DEF TypeOK
<1> HIDE DEF further
<1>4. IsLed(from)
  <2> DEFINE U(n) == {g \in [0 .. N -> SUBSET Node] :
                        \A m \in 0 .. N : m <= n =>
                           g[m] = IF m = 0 THEN {at} \ {NULL} ELSE further(g[m - 1])}
             T == {n \in Nat : U(n) # {}}
  <2>1. 0 \in T
    <3> DEFINE g == [m \in 0 .. N |-> {at} \ {NULL}]
    <3>1. g \in [0 .. N -> SUBSET Node]
      BY DEF TypeOK
    <3>2. \A m \in 0 .. N : m <= 0 => m = 0 /\ g[m] = {at} \ {NULL}
      BY <1>1
    <3> HIDE DEF g
    <3>3. g \in U(0)
      BY <3>1, <3>2
    <3> QED
      BY <3>3
  <2>2. ASSUME NEW n \in Nat, n \in T PROVE n + 1 \in T
    <3>1. PICK g \in [0 .. N -> SUBSET Node] :
             \A m \in 0 .. N : m <= n =>
                g[m] = IF m = 0 THEN {at} \ {NULL} ELSE further(g[m - 1])
      BY <2>2
    <3> DEFINE h == [m \in 0 .. N |-> IF m = n + 1 THEN further(g[n]) ELSE g[m]]
    <3>2. h \in [0 .. N -> SUBSET Node]
      <4>1. n + 1 \in 0 .. N => n \in 0 .. N
        BY <1>1
      <4> QED
        BY <1>3, <4>1
    <3>3. \A m \in 0 .. N : h[m] = IF m = n + 1 THEN further(g[n]) ELSE g[m]
      OBVIOUS
    <3> HIDE DEF h
    <3>4. ASSUME NEW m \in 0 .. N, m <= n + 1
          PROVE  h[m] = IF m = 0 THEN {at} \ {NULL} ELSE further(h[m - 1])
      <4>1. CASE m = n + 1
        <5>1. m - 1 = n /\ m - 1 \in 0 .. N /\ m - 1 # n + 1 /\ m # 0
          BY <1>1, <4>1
        <5> QED
          BY <3>3, <4>1, <5>1
      <4>2. CASE m <= n
        <5>1. m # n + 1 /\ (m # 0 => m - 1 \in 0 .. N /\ m - 1 # n + 1)
          BY <1>1, <4>2
        <5> QED
          BY <3>1, <3>3, <4>2, <5>1
      <4> QED
        BY <1>1, <3>4, <4>1, <4>2
    <3>5. h \in U(n + 1)
      BY <3>2, <3>4
    <3>6. U(n + 1) # {}
      BY <3>5
    <3> HIDE DEF U
    <3> QED
      BY <3>6
  <2> HIDE DEF T
  <2>3. N \in T
    BY <1>1, <2>1, <2>2, AllNaturals
  <2>4. PICK g \in [0 .. N -> SUBSET Node] :
           \A m \in 0 .. N : m <= N => g[m] = IF m = 0 THEN {at} \ {NULL} ELSE further(g[m - 1])
    BY <2>3 DEF T
  <2>5. IsLed(g)
    <3>1. \A m \in 0 .. N : g[m] = IF m = 0 THEN {at} \ {NULL} ELSE further(g[m - 1])
      BY <1>1, <2>4
    <3> HIDE DEF N
    <3> QED
      BY <3>1
  <2> HIDE DEF IsLed
  <2> QED
    BY <2>5
<1> HIDE DEF from
<1>5. \A m \in 0 .. N : from[m] = IF m = 0 THEN {at} \ {NULL} ELSE further(from[m - 1])
  <2> HIDE DEF N
  <2> QED
    BY <1>4
<1> DEFINE Closed(s) == further(s) = s
           T == {n \in Nat : n <= N =>
                    /\ from[n] \in SUBSET Node /\ {at} \ {NULL} \subseteq from[n]
                    /\ Closed(from[n]) \/ Cardinality(from[n]) >= n + 1}
<1>6. 0 \in T
  <2>1. PICK z \in 0 .. N : z = 0
    BY <1>1
  <2>2. from[z] = {at} \ {NULL} /\ from[z] \in SUBSET Node
    BY <1>5, <2>1 DEF TypeOK
  <2>3. CASE at = NULL
    BY <2>1, <2>2, <2>3 DEF further
  <2>4. CASE at # NULL
    <3>1. from[z] = {at}
      BY <2>2, <2>4
    <3>2. Cardinality(from[z]) = 1
      BY <3>1, FS_Singleton
    <3> QED
      BY <2>1, <2>2, <3>2
  <2> QED
    BY <2>3, <2>4
<1>7. ASSUME NEW n \in Nat, n \in T PROVE n + 1 \in T
  <2> SUFFICES ASSUME n + 1 <= N
               PROVE  /\ from[n + 1] \in SUBSET Node /\ {at} \ {NULL} \subseteq from[n + 1]
                      /\ Closed(from[n + 1]) \/ Cardinality(from[n + 1]) >= n + 1 + 1
    OBVIOUS
  <2>1. /\ from[n] \in SUBSET Node /\ {at} \ {NULL} \subseteq from[n]
        /\ Closed(from[n]) \/ Cardinality(from[n]) >= n + 1
    BY <1>1, <1>7
  <2>2. n + 1 \in 0 .. N /\ (n + 1) - 1 = n /\ n + 1 # 0
    BY <1>1
  <2>3. from[n + 1] = further(from[n])
    BY <1>5, <2>2
  <2>4. from[n + 1] \in SUBSET Node /\ from[n] \subseteq from[n + 1]
    BY <1>3, <2>1, <2>3
  <2>5. CASE Closed(from[n])
    BY <2>1, <2>3, <2>4, <2>5
  <2>6. CASE ~Closed(from[n])
    <3>1. from[n] # from[n + 1]
      BY <2>3, <2>6
    <3>2. IsFiniteSet(from[n + 1])
      BY <1>1, <2>4, FS_Subset
    <3>3. /\ IsFiniteSet(from[n]) /\ Cardinality(from[n]) <= Cardinality(from[n + 1])
          /\ Cardinality(from[n]) # Cardinality(from[n + 1])
      <4>1. from[n] \in SUBSET from[n + 1]
        BY <2>4
      <4> QED
        BY <3>1, <3>2, <4>1, FS_Subset
    <3>4. Cardinality(from[n]) >= n + 1
      BY <2>1, <2>6
    <3>5. Cardinality(from[n]) \in Nat /\ Cardinality(from[n + 1]) \in Nat
      BY <3>2, <3>3, FS_CardinalityType
    <3>6. Cardinality(from[n + 1]) >= n + 1 + 1
      BY <3>3, <3>4, <3>5
    <3> QED
      BY <2>1, <2>4, <3>6
  <2> QED
    BY <2>5, <2>6
<1> HIDE DEF T
<1>8. N \in T
  BY <1>1, <1>6, <1>7, AllNaturals
<1>9. /\ from[N] \in SUBSET Node /\ {at} \ {NULL} \subseteq from[N]
      /\ Closed(from[N]) \/ Cardinality(from[N]) >= N + 1
  BY <1>1, <1>8 DEF T
<1>10. Cardinality(from[N]) \in Nat /\ Cardinality(from[N]) <= N
  BY <1>1, <1>9, FS_Subset, FS_CardinalityType
<1>11. Closed(from[N])
  BY <1>1, <1>9, <1>10
<1>12. \A m \in from[N] : next[m] # NULL => next[m] \in from[N]
  BY <1>11 DEF further
<1> HIDE DEF Closed
<1> QED
  BY <1>2, <1>9, <1>12

(* A port is created at an address that nothing leads to: it is behind the  *)
(* last port on the list, and a walk that left the list does not find it.   *)
LEMMA TransmitCreate ==
    ASSUME TransmitInv, NEW p \in Port, PortCreate(p)
    PROVE  /\ TransmitInv'
           /\ OnList \subseteq OnList' /\ \A m \in OnList : ifindex'[m] = ifindex[m]
<1> DEFINE n == CHOOSE m \in Unused : TRUE
           l == Len(hardware)
<1>1. TickInv'
  BY TickInvStep DEF TransmitInv, Next, Configuration
<1>2. Led \in SUBSET Node /\ (at # NULL => at \in Led)
      /\ \A m \in Led : next[m] # NULL => next[m] \in Led
  BY LedIsClosed DEF TransmitInv
<1>3. n \in Node /\ n \notin OnList /\ n \notin Led
  <2>1. Unused # {}
    BY DEF PortCreate
  <2>2. n \in Unused
    BY <2>1
  <2> QED
    BY <2>2 DEF Unused
<1>4. /\ \A m \in OnList : ifindex[m] # p
      /\ hardware' = Append(hardware, n)
      /\ next' = [m \in Node |-> IF m = n THEN NULL
                                 ELSE IF hardware # << >> /\ m = Last(hardware) THEN n
                                 ELSE next[m]]
      /\ ifindex' = [ifindex EXCEPT ![n] = p]
      /\ UNCHANGED <<tickVars, configVars, walkVars, since, lease>>
  BY DEF PortCreate
<1> HIDE DEF n
<1>5. /\ l \in Nat /\ DOMAIN hardware = 1 .. l /\ (hardware # << >> <=> l # 0)
      /\ \A i \in DOMAIN hardware : hardware[i] \in Node /\ hardware[i] # n
                                    /\ hardware[i] \in OnList
      /\ (l # 0 => l \in DOMAIN hardware /\ Last(hardware) = hardware[l])
  BY <1>3, OnListIs DEF TransmitInv, HardwareInv, Last
<1>6. /\ hardware' \in Seq(Node) /\ Len(hardware') = l + 1 /\ DOMAIN hardware' = 1 .. l + 1
      /\ \A i \in 1 .. l : hardware'[i] = hardware[i]
      /\ hardware'[l + 1] = n
  BY <1>3, <1>4 DEF TransmitInv, HardwareInv
<1>7. /\ next \in [Node -> Node \cup {NULL}] /\ ifindex \in [Node -> Port]
      /\ \A i, j \in DOMAIN hardware : ifindex[hardware[i]] = ifindex[hardware[j]] => i = j
      /\ \A i \in DOMAIN hardware :
            next[hardware[i]] = IF i = l THEN NULL ELSE hardware[i + 1]
  BY DEF TransmitInv, TypeOK, HardwareInv
<1>8. /\ next' \in [Node -> Node \cup {NULL}] /\ ifindex' \in [Node -> Port]
      /\ \A m \in Node : /\ ifindex'[m] = IF m = n THEN p ELSE ifindex[m]
                         /\ next'[m] = IF m = n THEN NULL
                                       ELSE IF l # 0 /\ m = hardware[l] THEN n ELSE next[m]
  BY <1>3, <1>4, <1>5, <1>7
<1>9. HardwareInv'
  <2>1. ASSUME NEW i \in DOMAIN hardware', NEW j \in DOMAIN hardware',
               ifindex'[hardware'[i]] = ifindex'[hardware'[j]]
        PROVE  i = j
    <3>1. \A k \in 1 .. l : hardware'[k] = hardware[k] /\ ifindex'[hardware[k]] = ifindex[hardware[k]]
                            /\ ifindex[hardware[k]] # p
      BY <1>4, <1>5, <1>6, <1>8, SMTT(30)
    <3>2. ifindex'[hardware'[l + 1]] = p
      BY <1>3, <1>6, <1>8
    <3>3. (i \in 1 .. l \/ i = l + 1) /\ (j \in 1 .. l \/ j = l + 1)
      BY <1>5, <1>6
    <3> QED
      BY <1>5, <1>7, <2>1, <3>1, <3>2, <3>3
  <2>2. ASSUME NEW i \in DOMAIN hardware'
        PROVE  next'[hardware'[i]] = IF i = Len(hardware') THEN NULL ELSE hardware'[i + 1]
    <3>1. CASE i = l + 1
      BY <1>3, <1>6, <1>8, <3>1
    <3>2. CASE i = l
      <4>0. i \in 1 .. l + 1 /\ Len(hardware') = l + 1 /\ l \in Nat /\ DOMAIN hardware = 1 .. l
        BY <1>5, <1>6
      <4>1. i \in DOMAIN hardware /\ l # 0 /\ i # Len(hardware')
        <5> HIDE DEF l
        <5> QED
          BY <3>2, <4>0
      <4> QED
        BY <1>5, <1>6, <1>8, <3>2, <4>1
    <3>3. CASE i # l /\ i # l + 1
      <4>1. i \in DOMAIN hardware /\ i + 1 \in 1 .. l /\ l \in DOMAIN hardware /\ i # Len(hardware')
        BY <1>5, <1>6, <3>3
      <4>2. hardware[i] # hardware[l]
        BY <1>7, <3>3, <4>1
      <4>3. next'[hardware[i]] = next[hardware[i]] /\ hardware'[i] = hardware[i]
        BY <1>5, <1>6, <1>8, <4>1, <4>2
      <4> QED
        BY <1>6, <1>7, <3>3, <4>1, <4>3
    <3> QED
      BY <3>1, <3>2, <3>3
  <2> QED
    BY <1>6, <2>1, <2>2 DEF HardwareInv
<1>10. OnList' \subseteq Node /\ OnList \subseteq OnList'
  <2>1. OnList' = {hardware'[i] : i \in DOMAIN hardware'}
    BY DEF OnList, ToSet
  <2>2. \A i \in DOMAIN hardware' : hardware'[i] \in Node
    BY <1>6
  <2>3. \A i \in DOMAIN hardware : i \in DOMAIN hardware' /\ hardware'[i] = hardware[i]
    BY <1>5, <1>6
  <2> QED
    BY <2>1, <2>2, <2>3, OnListIs
<1>11. ConfigInv'
  BY <1>4 DEF TransmitInv, ConfigInv, configVars
<1>12. TypeOK'
  BY <1>4, <1>8, <1>10 DEF TransmitInv, TypeOK, tickVars, configVars, walkVars
<1>13. AheadInv'
  <2> SUFFICES ASSUME pc # "idle" PROVE AheadInv'
    BY <1>4 DEF AheadInv, walkVars
  <2>1. PICK A \in [Node -> SUBSET Node] : Leads(A) /\ Owed(A)
    BY DEF TransmitInv, AheadInv
  <2>2. at \in Node /\ present \subseteq OnList /\ at \in Led
    BY <1>2, TransmitAssumption DEF TransmitInv, AheadInv
  <2>3. [m \in Node |-> IF m \in Led THEN A[m] ELSE {}] \in [Node -> SUBSET Node]
    OBVIOUS
  <2>4. PICK B \in [Node -> SUBSET Node] : \A m \in Node : B[m] = IF m \in Led THEN A[m] ELSE {}
    BY <2>3
  <2>5. ASSUME NEW m \in Node, NEW x \in B[m], x # m
        PROVE  next'[m] # NULL /\ x \in B[next'[m]]
    <3>1. m \in Led /\ x \in A[m]
      BY <2>4, <2>5
    <3>2. next[m] # NULL /\ x \in A[next[m]]
      BY <2>1, <2>5, <3>1 DEF Leads
    <3>3. next[m] \in Led /\ next[m] \in Node
      BY <1>2, <3>1, <3>2
    <3>4. m # n /\ ~(l # 0 /\ m = hardware[l])
      BY <1>3, <1>5, <1>7, <3>1, <3>2
    <3>5. next'[m] = next[m]
      BY <1>8, <3>4
    <3> QED
      BY <2>4, <3>2, <3>3, <3>5
  <2>6. Leads(B)'
    BY <2>5 DEF Leads
  <2>7. Owed(B)'
    BY <1>4, <2>1, <2>2, <2>4 DEF Owed, walkVars
  <2>8. at' \in Node /\ present' \subseteq OnList'
    BY <1>4, <1>10, <2>2 DEF walkVars
  <2> QED
    BY <2>6, <2>7, <2>8 DEF AheadInv
<1>14. \A m \in OnList : ifindex'[m] = ifindex[m]
  <2>1. OnList \subseteq Node
    BY OnListTyped DEF TransmitInv
  <2> QED
    BY <1>3, <1>8, <2>1
<1> QED
  BY <1>1, <1>9, <1>10, <1>11, <1>12, <1>13, <1>14 DEF TransmitInv

(* A removed port is led around, and leads on itself.                       *)
LEMMA TransmitDelete ==
    ASSUME TransmitInv, NEW i \in DOMAIN hardware, PortDelete(i)
    PROVE  TransmitInv' /\ OnList' = OnList \ {hardware[i]}
           /\ \A m \in OnList' : ifindex'[m] = ifindex[m]
<1> DEFINE n == hardware[i]
           l == Len(hardware)
<1>1. TickInv'
  BY TickInvStep DEF TransmitInv, Next, Configuration
<1>2. /\ hardware' = RemoveAt(hardware, i)
      /\ next' = IF pc = "idle" THEN Kept(hardware', LinksWithout(n), NULL)
                                ELSE LinksWithout(n)
      /\ ifindex' = IF pc = "idle" THEN Kept(hardware', ifindex, AnyPort) ELSE ifindex
      /\ present' = present \ {n}
      /\ lease' = Promised(ifindex[n], NoLease)
      /\ UNCHANGED <<tickVars, configVars, pc, at, reached, since>>
  BY DEF PortDelete
<1>3. /\ l \in Nat /\ DOMAIN hardware = 1 .. l /\ i \in 1 .. l /\ l # 0 /\ n \in Node
      /\ \A k \in DOMAIN hardware : hardware[k] \in Node /\ hardware[k] \in OnList
  BY OnListIs DEF TransmitInv, HardwareInv
<1>4. /\ next \in [Node -> Node \cup {NULL}] /\ ifindex \in [Node -> Port]
      /\ \A k, j \in DOMAIN hardware : ifindex[hardware[k]] = ifindex[hardware[j]] => k = j
      /\ \A k, j \in DOMAIN hardware : hardware[k] = hardware[j] => k = j
      /\ \A k \in DOMAIN hardware :
            next[hardware[k]] = IF k = l THEN NULL ELSE hardware[k + 1]
  BY DEF TransmitInv, TypeOK, HardwareInv
<1>5. /\ hardware' \in Seq(Node) /\ Len(hardware') = l - 1 /\ DOMAIN hardware' = 1 .. l - 1
      /\ \A k \in 1 .. l - 1 : hardware'[k] = IF k < i THEN hardware[k] ELSE hardware[k + 1]
  <2>1. hardware \in Seq(Node) /\ i \in 1 .. Len(hardware)
    BY <1>3 DEF TransmitInv, HardwareInv
  <2>2. /\ RemoveAt(hardware, i) \in Seq(Node)
        /\ Len(RemoveAt(hardware, i)) = Len(hardware) - 1
        /\ \A k \in 1 .. Len(hardware) - 1 :
              RemoveAt(hardware, i)[k] = IF k < i THEN hardware[k] ELSE hardware[k + 1]
    BY <2>1, RemoveAtKeeps
  <2> QED
    BY <1>2, <1>3, <2>2
<1>6. \A k \in 1 .. l - 1 : /\ k < i => k \in DOMAIN hardware /\ hardware'[k] = hardware[k]
                            /\ ~(k < i) => k + 1 \in DOMAIN hardware
                                           /\ hardware'[k] = hardware[k + 1]
  BY <1>3, <1>5
<1>7. OnList' = OnList \ {n}
  <2>1. OnList' = {hardware'[k] : k \in DOMAIN hardware'}
    BY DEF OnList, ToSet
  <2>2. ASSUME NEW k \in 1 .. l - 1 PROVE hardware'[k] \in OnList \ {n}
    <3>1. ~(k < i) => k + 1 # i
      BY <1>3
    <3>2. k < i => k # i
      BY <1>3
    <3> QED
      BY <1>3, <1>4, <1>6, <3>1, <3>2
  <2>3. ASSUME NEW m \in OnList \ {n} PROVE \E k \in 1 .. l - 1 : hardware'[k] = m
    <3>1. PICK j \in DOMAIN hardware : m = hardware[j]
      BY OnListIs
    <3>2. j # i
      BY <3>1
    <3>3. CASE j < i
      <4>1. j \in 1 .. l - 1
        BY <1>3, <3>3
      <4> QED
        BY <1>6, <3>1, <3>3, <4>1
    <3>4. CASE ~(j < i)
      <4>1. j - 1 \in 1 .. l - 1 /\ ~(j - 1 < i) /\ (j - 1) + 1 = j
        BY <1>3, <3>2, <3>4
      <4> QED
        BY <1>6, <3>1, <4>1
    <3> QED
      BY <3>3, <3>4
  <2>4. OnList' \subseteq OnList \ {n}
    BY <1>5, <2>1, <2>2
  <2>5. ASSUME NEW m \in OnList \ {n} PROVE m \in OnList'
    <3>1. PICK k \in 1 .. l - 1 : hardware'[k] = m
      BY <2>3
    <3> QED
      BY <1>5, <2>1, <3>1
  <2> QED
    BY <2>4, <2>5
<1> HIDE DEF n
<1>8. /\ LinksWithout(n) \in [Node -> Node \cup {NULL}]
      /\ \A m \in Node : LinksWithout(n)[m] = IF next[m] = n /\ m \in OnList THEN next[n] ELSE next[m]
  BY <1>3, <1>4 DEF LinksWithout
<1>9. AnyPort \in Port
  BY TransmitAssumption DEF AnyPort
<1>10. OnList' \subseteq Node
  <2>1. OnList \subseteq Node
    BY OnListTyped DEF TransmitInv
  <2> QED
    BY <1>7, <2>1
<1>11. /\ next' \in [Node -> Node \cup {NULL}] /\ ifindex' \in [Node -> Port]
       /\ \A m \in OnList' : next'[m] = LinksWithout(n)[m] /\ ifindex'[m] = ifindex[m]
  <2> HIDE DEF LinksWithout
  <2>1. CASE pc = "idle"
    <3>1. next' = Kept(hardware', LinksWithout(n), NULL) /\ ifindex' = Kept(hardware', ifindex, AnyPort)
      BY <1>2, <2>1
    <3>2. ToSet(hardware') = OnList'
      BY DEF OnList
    <3> QED
      BY <1>4, <1>8, <1>9, <1>10, <3>1, <3>2 DEF Kept
  <2>2. CASE pc # "idle"
    BY <1>2, <1>4, <1>8, <2>2
  <2> QED
    BY <2>1, <2>2
<1>12. \A k \in 1 .. l - 1 : hardware'[k] \in OnList' /\ hardware'[k] \in Node /\ hardware'[k] \in OnList
  <2>1. OnList' = {hardware'[k] : k \in DOMAIN hardware'}
    BY DEF OnList, ToSet
  <2> QED
    BY <1>5, <1>7, <1>10, <2>1
<1>13. HardwareInv'
  <2>1. ASSUME NEW k \in DOMAIN hardware', NEW j \in DOMAIN hardware',
               ifindex'[hardware'[k]] = ifindex'[hardware'[j]]
        PROVE  k = j
    <3>1. ifindex[hardware'[k]] = ifindex[hardware'[j]] /\ k \in 1 .. l - 1 /\ j \in 1 .. l - 1
      BY <1>5, <1>11, <1>12, <2>1
    <3>2. CASE k < i /\ j < i
      BY <1>4, <1>6, <3>1, <3>2
    <3>3. CASE k < i /\ ~(j < i)
      <4>1. k = j + 1
        BY <1>4, <1>6, <3>1, <3>3
      <4> QED
        BY <1>3, <3>1, <3>3, <4>1
    <3>4. CASE ~(k < i) /\ j < i
      <4>1. k + 1 = j
        BY <1>4, <1>6, <3>1, <3>4
      <4> QED
        BY <1>3, <3>1, <3>4, <4>1
    <3>5. CASE ~(k < i) /\ ~(j < i)
      <4>1. k + 1 = j + 1
        BY <1>4, <1>6, <3>1, <3>5
      <4> QED
        BY <3>1, <4>1
    <3> QED
      BY <3>2, <3>3, <3>4, <3>5
  <2>2. ASSUME NEW k \in DOMAIN hardware'
        PROVE  next'[hardware'[k]] = IF k = Len(hardware') THEN NULL ELSE hardware'[k + 1]
    <3>0. k \in 1 .. l - 1
      BY <1>5
    <3> DEFINE m == hardware'[k]
    <3>1. next'[m] = IF next[m] = n THEN next[n] ELSE next[m]
      BY <1>8, <1>11, <1>12, <3>0
    <3>2. next[n] = IF i = l THEN NULL ELSE hardware[i + 1]
      BY <1>3, <1>4 DEF n
    <3>3. n # NULL
      BY <1>3, TransmitAssumption DEF n
    <3>4. CASE k < i - 1
      <4>1. m = hardware[k] /\ k \in DOMAIN hardware /\ k # l /\ k + 1 \in DOMAIN hardware
            /\ k + 1 # i /\ k + 1 \in 1 .. l - 1 /\ k + 1 < i /\ k # l - 1
        BY <1>3, <1>6, <3>0, <3>4
      <4>2. next[m] = hardware[k + 1]
        BY <1>4, <4>1
      <4>3. next[m] # n
        BY <1>3, <1>4, <4>1, <4>2 DEF n
      <4>4. hardware'[k + 1] = hardware[k + 1]
        BY <1>6, <4>1
      <4> QED
        BY <1>5, <3>1, <4>1, <4>2, <4>3, <4>4
    <3>5. CASE k = i - 1
      <4>1. m = hardware[k] /\ k \in DOMAIN hardware /\ k # l /\ k + 1 = i
        BY <1>3, <1>6, <3>0, <3>5
      <4>2. next[m] = n
        BY <1>4, <4>1 DEF n
      <4>3. i = l <=> k = l - 1
        BY <1>3, <3>5
      <4>4. i # l => i \in 1 .. l - 1 /\ ~(i < i)
        BY <1>3
      <4>5. i # l => hardware'[i] = hardware[i + 1]
        BY <1>6, <4>4
      <4> QED
        BY <1>5, <3>1, <3>2, <4>1, <4>2, <4>3, <4>5
    <3>6. CASE k > i - 1
      <4>1. ~(k < i) /\ m = hardware[k + 1] /\ k + 1 \in DOMAIN hardware
        BY <1>3, <1>6, <3>0, <3>6
      <4>2. next[m] = IF k + 1 = l THEN NULL ELSE hardware[(k + 1) + 1]
        BY <1>4, <4>1
      <4>3. k + 1 # l => (k + 1) + 1 \in DOMAIN hardware /\ (k + 1) + 1 # i
                         /\ k + 1 \in 1 .. l - 1 /\ ~(k + 1 < i)
        BY <1>3, <3>0, <3>6
      <4>4. next[m] # n
        BY <1>3, <1>4, <3>3, <4>2, <4>3 DEF n
      <4>5. k + 1 # l => hardware'[k + 1] = hardware[(k + 1) + 1]
        BY <1>6, <4>3
      <4>6. k + 1 = l <=> k = l - 1
        BY <1>3, <3>0
      <4> QED
        BY <1>5, <3>1, <4>2, <4>4, <4>5, <4>6
    <3>7. k < i - 1 \/ k = i - 1 \/ k > i - 1
      BY <1>3, <3>0
    <3> QED
      BY <3>4, <3>5, <3>6, <3>7
  <2> QED
    BY <1>5, <2>1, <2>2 DEF HardwareInv
<1>14. ConfigInv'
  BY <1>2 DEF TransmitInv, ConfigInv, configVars
<1>15. lease' \in [Followed -> Nat \cup {NoLease}]
  BY <1>2 DEF TransmitInv, TypeOK, Promised
<1>16. TypeOK'
  BY <1>2, <1>10, <1>11, <1>15 DEF TransmitInv, TypeOK, tickVars, configVars
<1>17. AheadInv'
  <2> SUFFICES ASSUME pc # "idle" PROVE AheadInv'
    BY <1>2 DEF AheadInv
  <2>1. PICK A \in [Node -> SUBSET Node] : Leads(A) /\ Owed(A)
    BY DEF TransmitInv, AheadInv
  <2>2. at \in Node /\ present \subseteq OnList /\ next' = LinksWithout(n)
    BY <1>2 DEF TransmitInv, AheadInv
  <2>3. [m \in Node |-> A[m] \ {n}] \in [Node -> SUBSET Node]
    OBVIOUS
  <2>4. PICK B \in [Node -> SUBSET Node] : \A m \in Node : B[m] = A[m] \ {n}
    BY <2>3
  <2>5. ASSUME NEW m \in Node, NEW x \in B[m], x # m
        PROVE  next'[m] # NULL /\ x \in B[next'[m]]
    <3>1. x \in A[m] /\ x # n
      BY <2>4, <2>5
    <3>2. next[m] # NULL /\ x \in A[next[m]]
      BY <2>1, <2>5, <3>1 DEF Leads
    <3>3. next[m] \in Node
      BY <1>4, <3>2
    <3>4. next'[m] = IF next[m] = n /\ m \in OnList THEN next[n] ELSE next[m]
      BY <1>8, <2>2
    <3>5. CASE next[m] = n /\ m \in OnList
      <4>1. next[n] # NULL /\ x \in A[next[n]] /\ next[n] \in Node
        BY <1>4, <2>1, <3>1, <3>2, <3>3, <3>5 DEF Leads
      <4> QED
        BY <2>4, <3>1, <3>4, <3>5, <4>1
    <3>6. CASE ~(next[m] = n /\ m \in OnList)
      BY <2>4, <3>1, <3>2, <3>3, <3>4, <3>6
    <3> QED
      BY <3>5, <3>6
  <2>6. Leads(B)'
    BY <2>5 DEF Leads
  <2>7. Owed(B)'
    BY <1>2, <2>1, <2>2, <2>4 DEF Owed
  <2>8. at' \in Node /\ present' \subseteq OnList'
    BY <1>2, <1>7, <2>2
  <2> QED
    BY <2>6, <2>7, <2>8 DEF AheadInv
<1> QED
  BY <1>1, <1>7, <1>11, <1>13, <1>14, <1>16, <1>17 DEF TransmitInv, n

LEMMA TransmitStep == TransmitInv /\ [Next]_vars => TransmitInv'
<1> SUFFICES ASSUME TransmitInv, [Next]_vars PROVE TransmitInv'
  OBVIOUS
<1>1. TickInv'
  BY TickInvStep DEF TransmitInv
<1>2. CASE UNCHANGED <<listVars, walkVars>> /\ TypeOK' /\ ConfigInv'
  <2>1. HardwareInv'
    BY <1>2 DEF TransmitInv, HardwareInv, listVars
  <2>2. CASE pc = "idle"
    BY <1>1, <1>2, <2>1, <2>2 DEF TransmitInv, AheadInv, walkVars
  <2>3. CASE pc # "idle"
    <3>1. PICK A \in [Node -> SUBSET Node] : Leads(A) /\ Owed(A)
      BY <2>3 DEF TransmitInv, AheadInv
    <3>2. Leads(A)' /\ Owed(A)'
      BY <1>2, <3>1 DEF Leads, Owed, listVars, walkVars
    <3>3. at' \in Node /\ present' \subseteq OnList'
      BY <1>2, <2>3 DEF TransmitInv, AheadInv, listVars, walkVars, OnList
    <3> QED
      BY <1>1, <1>2, <2>1, <3>2, <3>3 DEF TransmitInv, AheadInv
  <2> QED
    BY <2>2, <2>3
<1>3. ASSUME NEW value \in Interval, TxIntervalSet(value) PROVE TransmitInv'
  <2>1. /\ UNCHANGED <<tickVars, listVars, walkVars, since, lease, aatrans_wait, c_tx_hold,
                       c_ttl>>
        /\ c_tx_interval' = value /\ setting' = "interval"
    BY <1>3 DEF TxIntervalSet
  <2>2. TypeOK'
    BY <2>1 DEF TransmitInv, TypeOK, tickVars, listVars, walkVars, OnList
  <2>3. ConfigInv'
    BY <2>1 DEF TransmitInv, ConfigInv
  <2> QED
    BY <1>2, <2>1, <2>2, <2>3
<1>4. ASSUME NEW value \in Hold, TxHoldMultiplierSet(value) PROVE TransmitInv'
  <2>1. /\ UNCHANGED <<tickVars, listVars, walkVars, since, lease, aatrans_wait,
                       c_tx_interval, c_ttl>>
        /\ c_tx_hold' = value /\ setting' = "hold" /\ setting = "none"
    BY <1>4 DEF TxHoldMultiplierSet
  <2>2. TypeOK'
    BY <2>1 DEF TransmitInv, TypeOK, tickVars, listVars, walkVars, OnList
  <2>3. ConfigInv'
    BY <2>1 DEF TransmitInv, ConfigInv
  <2> QED
    BY <1>2, <2>1, <2>2, <2>3
<1>5. CASE TtlSet
  <2>1. c_tx_interval \in Nat /\ c_tx_hold \in Nat /\ c_tx_interval * c_tx_hold \in Nat
    BY TransmitAssumption DEF TransmitInv, TypeOK
  <2>2. /\ UNCHANGED <<tickVars, listVars, walkVars, since, lease, aatrans_wait,
                       c_tx_interval, c_tx_hold>>
        /\ c_ttl' = c_tx_interval * c_tx_hold
        /\ \/ setting' = "wait"
           \/ setting' = "none" /\ setting = "hold"
    BY <1>5 DEF TtlSet
  <2>3. TypeOK'
    BY <2>1, <2>2 DEF TransmitInv, TypeOK, tickVars, listVars, walkVars, OnList
  <2>4. ConfigInv'
    BY <2>2 DEF TransmitInv, ConfigInv
  <2> QED
    BY <1>2, <2>2, <2>3, <2>4
<1>6. CASE WaitSet
  <2>1. c_tx_interval \in Nat /\ Seconds(c_tx_interval) \in Timespec
    BY SecondsTyped DEF TransmitInv, TickInv
  <2>2. /\ UNCHANGED <<tickVars, listVars, walkVars, since, c_tx_interval, c_tx_hold, c_ttl>>
        /\ aatrans_wait' = Seconds(c_tx_interval)
        /\ setting = "wait" /\ setting' = "none"
        /\ lease' = NoLeases \/ lease' = lease
    BY <1>6 DEF WaitSet
  <2>3. lease' \in [Followed -> Nat \cup {NoLease}]
    BY <2>2 DEF NoLeases, TransmitInv, TypeOK
  <2>4. TypeOK'
    BY <2>1, <2>2, <2>3 DEF TransmitInv, TypeOK, tickVars, listVars, walkVars, OnList
  <2>5. ConfigInv'
    BY <2>1, <2>2 DEF TransmitInv, ConfigInv, Seconds
  <2> QED
    BY <1>2, <2>2, <2>4, <2>5
<1>7. CASE UNCHANGED vars
  <2>1. TypeOK' /\ ConfigInv'
    BY <1>7 DEF TransmitInv, TypeOK, ConfigInv, vars, tickVars, configVars, listVars, walkVars, OnList
  <2> QED
    BY <1>2, <1>7, <2>1 DEF vars
<1> QED
  BY <1>3, <1>4, <1>5, <1>6, <1>7, TransmitTick, TransmitCompose, TransmitAdvance,
     TransmitFails, TransmitCreate, TransmitDelete DEF Next, Clock, Configuration

LEMMA AlwaysTransmitInv == Spec => []TransmitInv
  BY TransmitInitially, TransmitStep, PTL DEF Spec

(* Every variable has its type, and so do the links of the ports that are   *)
(* on the list or were removed from it under a walk.                        *)
THEOREM TransmitTypes == Spec => []TypeOK
<1>1. TransmitInv => TypeOK
  BY DEF TransmitInv
<1> QED
  BY <1>1, AlwaysTransmitInv, PTL

(* aatransi_send_pdu walks the list of ports without a lock; in a walk that  *)
(* no failing send cuts short every port that is on it all the time gets    *)
(* its frame, whatever aatransi_port_create and aatransi_port_delete do     *)
(* meanwhile, for any number of ports.                                      *)
THEOREM WalksReachAll == Spec => WalkReachesAll
<1> DEFINE Reaches == (pc = "advance" /\ pc' = "idle") => present \subseteq reached
<1>1. TransmitInv /\ [Next]_vars => [Reaches]_vars
  <2> SUFFICES ASSUME TransmitInv, Next, pc = "advance", pc' = "idle"
               PROVE  present \subseteq reached
    OBVIOUS
  <2>1. CASE Advance
    BY <2>1, TransmitAdvance
  <2>2. CASE \/ Configuration \/ Compose \/ SendFails
             \/ \E d \in Tick, memory \in BOOLEAN : ClockTicks(d, memory)
    BY <2>2 DEF Configuration, PortCreate, PortDelete, TxIntervalSet, TxHoldMultiplierSet,
                TtlSet, WaitSet, Compose, SendFails, ClockTicks, walkVars
  <2> QED
    BY <2>1, <2>2 DEF Next, Clock
<1> QED
  BY <1>1, AlwaysTransmitInv, PTL DEF Spec, WalkReachesAll
-----------------------------------------------------------------------------
(* What the neighbours were promised.  A promise was made for two intervals *)
(* or more, of the interval there was then, which was a second or longer;   *)
(* it is renewed in time when the clock thread ticks at least once a second.*)
Punctual == \A d \in Tick : Total(d) <= NSECS_PER_SEC

Lasts(time, elapsed, interval) ==
    \E wait \in Nat : /\ wait >= interval * NSECS_PER_SEC /\ wait >= NSECS_PER_SEC
                      /\ time + elapsed >= wait + wait /\ elapsed < wait

LeaseOK(p) ==
    /\ lease[p] \in Nat \ {0}
    /\ \E n \in OnList : ifindex[n] = p
    /\ \/ Lasts(lease[p], since.transport, aatrans_wait.tv_sec)
       \/ pc # "idle" /\ \E n \in present \ reached : ifindex[n] = p

LeaseInv ==
    /\ pc # "idle" => since.transport = 0
    /\ \A p \in Followed : lease[p] # NoLease => LeaseOK(p)

LEMMA TwoIntervals ==
    ASSUME NEW i \in Nat \ {0}, NEW h \in Nat \ {0, 1}, NEW n \in Nat \ {0}
    PROVE  /\ i * n \in Nat /\ i * n > 0 /\ i * n >= n
           /\ (i * h) * n >= (i * n) + (i * n)
<1>1. i * n \in Nat /\ i * n > 0 /\ i * n >= n
  <2>1. PICK m \in Nat : i = 1 + m
    <3>1. i - 1 \in Nat /\ i = 1 + (i - 1)
      OBVIOUS
    <3> QED
      BY <3>1
  <2>2. i * n = n + m * n /\ m * n \in Nat
    BY <2>1
  <2> QED
    BY <2>2
<1>2. PICK k \in Nat : h = 2 + k
  <2>1. h - 2 \in Nat /\ h = 2 + (h - 2)
    OBVIOUS
  <2> QED
    BY <2>1
<1>3. (i * h) * n = (i * n) + (i * n) + (i * k) * n
  BY <1>2
<1>4. (i * k) * n \in Nat
  <2>1. i * k \in Nat
    OBVIOUS
  <2> QED
    BY <2>1
<1> QED
  BY <1>1, <1>3, <1>4

LEMMA LeaseTick ==
    ASSUME TransmitInv, LeaseInv, Punctual, NEW d \in Tick, NEW memory \in BOOLEAN,
           ClockTicks(d, memory)
    PROVE  LeaseInv'
<1>1. /\ pc = "idle" /\ prev \in Timespec /\ aatrans_sum \in Timespec
      /\ aatrans_wait = Seconds(aatrans_wait.tv_sec) /\ aatrans_wait.tv_sec \in Nat
      /\ Total(aatrans_sum) = since.transport /\ since.transport \in Nat
      /\ since \in [agent : Nat, transport : Nat]
  BY DEF ClockTicks, TransmitInv, TypeOK, TickInv, SumIsElapsed, ConfigInv
<1> DEFINE due == Due(aatrans_sum, d, aatrans_wait)
           u == aatrans_wait.tv_sec * NSECS_PER_SEC
<1>2. d \in Timespec /\ Total(d) \in Nat /\ Total(d) <= NSECS_PER_SEC
  BY <1>1, TransmitAssumption, TotalTyped DEF Punctual
<1>3. TimeSub(TimeAdd(prev, d), prev) = d
  BY <1>1, <1>2, SubUndoesAdd
<1>4. /\ since'.transport = IF due THEN 0 ELSE since.transport + Total(d)
      /\ lease' = [p \in Followed |->
            IF lease[p] = NoLease \/ ~memory THEN NoLease
            ELSE IF lease[p] > Total(d) THEN lease[p] - Total(d) ELSE 0]
      /\ IF due /\ hardware # << >> /\ memory
         THEN pc' = "compose" /\ present' = OnList /\ reached' = {}
         ELSE UNCHANGED walkVars
      /\ memory \/ due
      /\ UNCHANGED <<configVars, listVars>>
  BY <1>3 DEF ClockTicks
<1>5. ~due => since.transport + Total(d) < u
  <2>1. aatrans_wait \in Timespec /\ Total(aatrans_wait) = u
    BY <1>1, SecondsTyped
  <2> QED
    BY <1>1, <1>2, <2>1, SumFollows
<1> HIDE DEF due
<1>6. u \in Nat /\ NSECS_PER_SEC \in Nat
  BY <1>1, TimeAssumption
<1>7. aatrans_wait' = aatrans_wait /\ ifindex' = ifindex /\ OnList' = OnList
  BY <1>4 DEF configVars, listVars, OnList
<1>8. ASSUME NEW p \in Followed, lease'[p] # NoLease PROVE LeaseOK(p)'
  <2>1. lease[p] # NoLease /\ memory
    BY <1>4, <1>8
  <2>2. /\ lease[p] \in Nat \ {0} /\ \E n \in OnList : ifindex[n] = p
        /\ Lasts(lease[p], since.transport, aatrans_wait.tv_sec)
    BY <1>1, <2>1 DEF LeaseInv, LeaseOK
  <2>3. PICK wait \in Nat : /\ wait >= u /\ wait >= NSECS_PER_SEC
                            /\ lease[p] + since.transport >= wait + wait
                            /\ since.transport < wait
    BY <2>2 DEF Lasts
  <2> HIDE DEF u
  <2>5. lease[p] > Total(d)
    BY <1>1, <1>2, <1>6, <2>2, <2>3
  <2>6. lease'[p] = lease[p] - Total(d) /\ lease'[p] \in Nat \ {0}
    BY <1>2, <1>4, <2>1, <2>2, <2>5
  <2>7. \E n \in OnList' : ifindex'[n] = p
    BY <1>7, <2>2
  <2>8. CASE ~due
    <3>1. since'.transport = since.transport + Total(d)
      BY <1>4, <2>8
    <3>2. since'.transport < wait
      BY <1>1, <1>2, <1>5, <1>6, <2>3, <2>8, <3>1
    <3>3. lease'[p] + since'.transport >= wait + wait
      BY <1>1, <1>2, <2>2, <2>3, <2>6, <3>1
    <3>4. Lasts(lease'[p], since'.transport, aatrans_wait'.tv_sec)
      BY <1>7, <2>3, <3>2, <3>3 DEF Lasts, u
    <3> QED
      BY <2>6, <2>7, <3>4 DEF LeaseOK
  <2>9. CASE due
    <3>1. hardware # << >>
      BY <2>2, OnListIs
    <3>2. pc' = "compose" /\ present' = OnList /\ reached' = {}
      BY <1>4, <2>1, <2>9, <3>1
    <3> QED
      BY <1>7, <2>2, <2>6, <2>7, <3>2 DEF LeaseOK
  <2> QED
    BY <2>8, <2>9
<1>9. pc' # "idle" => since'.transport = 0
  BY <1>1, <1>4 DEF walkVars
<1> QED
  BY <1>8, <1>9 DEF LeaseInv

LEMMA LeaseCompose ==
    ASSUME TransmitInv, LeaseInv, Compose
    PROVE  LeaseInv'
<1>1. /\ UNCHANGED <<tickVars, configVars, listVars, since, at, present>>
      /\ pc = "compose" /\ pc' = "advance"
      /\ IF \E n \in OnList : ifindex[n] = ifindex[at]
         THEN /\ lease' = Promised(ifindex[at], IF Lasting THEN c_ttl * NSECS_PER_SEC
                                                ELSE NoLease)
              /\ reached' = reached \cup {at}
         ELSE UNCHANGED <<lease, reached>>
  BY DEF Compose
<1>2. /\ at \in Node /\ present \subseteq OnList /\ since.transport = 0 /\ since' = since
      /\ aatrans_wait' = aatrans_wait /\ ifindex' = ifindex /\ OnList' = OnList
  BY <1>1 DEF TransmitInv, AheadInv, LeaseInv, configVars, listVars, OnList
<1>3. ASSUME NEW p \in Followed, lease'[p] # NoLease PROVE LeaseOK(p)'
  <2>1. CASE p = ifindex[at] /\ \E n \in OnList : ifindex[n] = ifindex[at]
    <3>1. lease'[p] = c_ttl * NSECS_PER_SEC /\ Lasting
      BY <1>1, <1>3, <2>1 DEF Promised
    <3>2. c_tx_interval \in Nat \ {0} /\ c_tx_hold \in Nat \ {0, 1}
          /\ c_ttl = c_tx_interval * c_tx_hold /\ aatrans_wait.tv_sec = c_tx_interval
      BY <3>1, TransmitAssumption DEF TransmitInv, TypeOK, ConfigInv, Lasting, Seconds
    <3> DEFINE u == c_tx_interval * NSECS_PER_SEC
    <3>3. u \in Nat /\ u > 0 /\ u >= NSECS_PER_SEC
          /\ lease'[p] >= u + u /\ lease'[p] \in Nat
      <4>1. /\ u \in Nat /\ u > 0 /\ u >= NSECS_PER_SEC
            /\ (c_tx_interval * c_tx_hold) * NSECS_PER_SEC >= u + u
        BY <3>2, TimeAssumption, TwoIntervals
      <4>2. c_tx_interval * c_tx_hold \in Nat
        BY <3>2
      <4>3. (c_tx_interval * c_tx_hold) * NSECS_PER_SEC \in Nat
        BY <4>2, TimeAssumption
      <4> QED
        BY <3>1, <3>2, <4>1, <4>3
    <3>4. u >= aatrans_wait.tv_sec * NSECS_PER_SEC
      BY <3>2, <3>3
    <3>5. lease'[p] + since'.transport >= u + u /\ since'.transport < u
      <4> HIDE DEF u
      <4> QED
        BY <1>2, <3>3
    <3>6. Lasts(lease'[p], since'.transport, aatrans_wait'.tv_sec)
      BY <1>2, <3>3, <3>4, <3>5 DEF Lasts
    <3>7. lease'[p] \in Nat \ {0}
      <4> HIDE DEF u
      <4> QED
        BY <3>3
    <3> QED
      BY <1>2, <2>1, <3>6, <3>7 DEF LeaseOK
  <2>2. CASE ~(p = ifindex[at] /\ \E n \in OnList : ifindex[n] = ifindex[at])
    <3>1. lease'[p] = lease[p]
      BY <1>1, <2>2 DEF Promised
    <3>2. LeaseOK(p)
      BY <1>3, <3>1 DEF LeaseInv
    <3>3. \A n \in present \ reached : ifindex[n] = p => n \in present' \ reached'
      BY <1>1, <1>2, <2>2
    <3>4. Lasts(lease'[p], since'.transport, aatrans_wait'.tv_sec)
             \/ \E n \in present' \ reached' : ifindex'[n] = p
      BY <1>2, <3>1, <3>2, <3>3 DEF LeaseOK
    <3> QED
      BY <1>1, <1>2, <3>1, <3>2, <3>4 DEF LeaseOK
  <2> QED
    BY <2>1, <2>2
<1> QED
  BY <1>2, <1>3 DEF LeaseInv

LEMMA LeaseAdvance ==
    ASSUME TransmitInv, LeaseInv, Advance
    PROVE  LeaseInv'
<1>1. /\ UNCHANGED <<tickVars, configVars, hardware, since, lease>>
      /\ pc' = "idle" \/ (pc' = "compose" /\ UNCHANGED <<present, reached>>)
      /\ pc = "advance"
  BY DEF Advance, WalkEnds
<1>2. /\ pc' = "idle" => present \subseteq reached
      /\ OnList' = OnList /\ \A m \in OnList : ifindex'[m] = ifindex[m]
      /\ present \subseteq OnList /\ aatrans_wait' = aatrans_wait
  BY <1>1, TransmitAdvance DEF TransmitInv, AheadInv, configVars
<1>3. ASSUME NEW p \in Followed, lease'[p] # NoLease PROVE LeaseOK(p)'
  <2>1. LeaseOK(p)
    BY <1>1, <1>3 DEF LeaseInv
  <2>2. \E n \in OnList' : ifindex'[n] = p
    BY <1>2, <2>1 DEF LeaseOK
  <2>3. CASE Lasts(lease[p], since.transport, aatrans_wait.tv_sec)
    BY <1>1, <1>2, <2>1, <2>2, <2>3 DEF LeaseOK
  <2>4. CASE \E n \in present \ reached : ifindex[n] = p
    <3>1. pc' = "compose" /\ UNCHANGED <<present, reached>>
      BY <1>1, <1>2, <2>4
    <3>2. \E n \in present' \ reached' : ifindex'[n] = p
      BY <1>2, <2>4, <3>1
    <3> QED
      BY <1>1, <2>1, <2>2, <3>1, <3>2 DEF LeaseOK
  <2> QED
    BY <2>1, <2>3, <2>4 DEF LeaseOK
<1> QED
  BY <1>1, <1>3 DEF LeaseInv

(* A failed send ends the following of the neighbours that were still owed  *)
(* a frame; the others have theirs.                                         *)
LEMMA LeaseFails ==
    ASSUME TransmitInv, LeaseInv, SendFails
    PROVE  LeaseInv'
<1>1. /\ UNCHANGED <<configVars, since>> /\ pc' = "idle"
      /\ lease' = [p \in Followed |->
            IF \E n \in present \ reached : ifindex[n] = p THEN NoLease ELSE lease[p]]
  BY DEF SendFails, WalkEnds
<1>2. OnList' = OnList /\ \A m \in OnList : ifindex'[m] = ifindex[m]
  BY TransmitFails
<1>3. ASSUME NEW p \in Followed, lease'[p] # NoLease PROVE LeaseOK(p)'
  <2>1. lease'[p] = lease[p] /\ ~\E n \in present \ reached : ifindex[n] = p
    BY <1>1, <1>3
  <2>2. LeaseOK(p)
    BY <1>3, <2>1 DEF LeaseInv
  <2>3. \E n \in OnList' : ifindex'[n] = p
    BY <1>2, <2>2 DEF LeaseOK
  <2> QED
    BY <1>1, <2>1, <2>2, <2>3 DEF LeaseOK, configVars
<1> QED
  BY <1>1, <1>3 DEF LeaseInv

LEMMA LeaseCreate ==
    ASSUME TransmitInv, LeaseInv, NEW q \in Port, PortCreate(q)
    PROVE  LeaseInv'
<1>1. UNCHANGED <<tickVars, configVars, walkVars, since, lease>>
  BY DEF PortCreate
<1>2. /\ OnList \subseteq OnList' /\ \A m \in OnList : ifindex'[m] = ifindex[m]
      /\ pc # "idle" => present \subseteq OnList
  BY TransmitCreate DEF TransmitInv, AheadInv
<1>3. ASSUME NEW p \in Followed, lease'[p] # NoLease PROVE LeaseOK(p)'
  <2>1. LeaseOK(p)
    BY <1>1, <1>3 DEF LeaseInv
  <2>2. \E n \in OnList' : ifindex'[n] = p
    BY <1>2, <2>1 DEF LeaseOK
  <2>3. (pc # "idle" /\ \E n \in present \ reached : ifindex[n] = p)
           => pc' # "idle" /\ \E n \in present' \ reached' : ifindex'[n] = p
    BY <1>1, <1>2 DEF walkVars
  <2>4. lease'[p] = lease[p] /\ since' = since /\ aatrans_wait' = aatrans_wait
    BY <1>1 DEF configVars
  <2> QED
    BY <2>1, <2>2, <2>3, <2>4 DEF LeaseOK
<1> QED
  BY <1>1, <1>3 DEF LeaseInv, walkVars

LEMMA LeaseDelete ==
    ASSUME TransmitInv, LeaseInv, NEW i \in DOMAIN hardware, PortDelete(i)
    PROVE  LeaseInv'
<1> DEFINE m == hardware[i]
<1>1. /\ UNCHANGED <<tickVars, configVars, pc, at, reached, since>>
      /\ lease' = Promised(ifindex[m], NoLease) /\ present' = present \ {m}
  BY DEF PortDelete
<1>2. /\ OnList' = OnList \ {m} /\ \A n \in OnList' : ifindex'[n] = ifindex[n]
      /\ pc # "idle" => present \subseteq OnList
  BY TransmitDelete DEF TransmitInv, AheadInv
<1> HIDE DEF m
<1>3. ASSUME NEW p \in Followed, lease'[p] # NoLease PROVE LeaseOK(p)'
  <2>1. p # ifindex[m] /\ lease'[p] = lease[p]
    BY <1>1, <1>3 DEF Promised
  <2>2. LeaseOK(p)
    BY <1>3, <2>1 DEF LeaseInv
  <2>3. \A n \in OnList : ifindex[n] = p => n \in OnList' /\ ifindex'[n] = p
    BY <1>2, <2>1
  <2>4. \E n \in OnList' : ifindex'[n] = p
    BY <2>2, <2>3 DEF LeaseOK
  <2>5. (pc # "idle" /\ \E n \in present \ reached : ifindex[n] = p)
           => pc' # "idle" /\ \E n \in present' \ reached' : ifindex'[n] = p
    BY <1>1, <1>2, <2>1, <2>3
  <2>6. since' = since /\ aatrans_wait' = aatrans_wait
    BY <1>1 DEF configVars
  <2> QED
    BY <2>1, <2>2, <2>4, <2>5, <2>6 DEF LeaseOK
<1> QED
  BY <1>1, <1>3 DEF LeaseInv

(* A shorter interval makes the promises that were made last longer than    *)
(* they need to; a longer one voids them.                                   *)
LEMMA LeaseWait ==
    ASSUME TransmitInv, LeaseInv, WaitSet
    PROVE  LeaseInv'
<1>1. /\ UNCHANGED <<listVars, walkVars, since>>
      /\ aatrans_wait' = Seconds(c_tx_interval)
      /\ lease' = IF c_tx_interval > aatrans_wait.tv_sec THEN NoLeases ELSE lease
  BY DEF WaitSet
<1> DEFINE value == aatrans_wait'.tv_sec
<1>2. /\ value = c_tx_interval /\ value \in Nat /\ aatrans_wait.tv_sec \in Nat
      /\ OnList' = OnList /\ ifindex' = ifindex
  BY <1>1 DEF TransmitInv, TickInv, ConfigInv, Seconds, listVars, OnList
<1>3. ASSUME NEW p \in Followed, lease'[p] # NoLease PROVE LeaseOK(p)'
  <2>1. value <= aatrans_wait.tv_sec /\ lease' = lease
    BY <1>1, <1>2, <1>3 DEF NoLeases
  <2>2. LeaseOK(p)
    BY <1>3, <2>1 DEF LeaseInv
  <2> DEFINE u == value * NSECS_PER_SEC
             v == aatrans_wait.tv_sec * NSECS_PER_SEC
  <2>3. u <= v /\ u \in Nat /\ v \in Nat
    <3>1. PICK k \in Nat : aatrans_wait.tv_sec = value + k
      <4>1. /\ aatrans_wait.tv_sec - value \in Nat
            /\ aatrans_wait.tv_sec = value + (aatrans_wait.tv_sec - value)
        BY <1>2, <2>1
      <4> QED
        BY <4>1
    <3> HIDE DEF value
    <3>2. v = u + (k * NSECS_PER_SEC)
      BY <1>2, <3>1, TimeAssumption
    <3>3. u \in Nat /\ k * NSECS_PER_SEC \in Nat
      BY <1>2, TimeAssumption
    <3> QED
      BY <3>2, <3>3
  <2>4. \A wait \in Nat : wait >= v => wait >= u
    <3> HIDE DEF u, v
    <3> QED
      BY <2>3
  <2>5. Lasts(lease[p], since.transport, aatrans_wait.tv_sec)
           => Lasts(lease'[p], since'.transport, aatrans_wait'.tv_sec)
    BY <1>1, <2>1, <2>4 DEF Lasts
  <2> QED
    BY <1>1, <1>2, <2>1, <2>2, <2>5 DEF LeaseOK, walkVars
<1> QED
  BY <1>1, <1>3 DEF LeaseInv, walkVars

LEMMA LeaseStep ==
    ASSUME TransmitInv, LeaseInv, Punctual, [Next]_vars
    PROVE  LeaseInv'
<1>1. CASE UNCHANGED <<aatrans_wait, listVars, walkVars, since, lease>>
  BY <1>1 DEF LeaseInv, LeaseOK, listVars, walkVars, OnList
<1>2. CASE \/ \E value \in Interval : TxIntervalSet(value)
           \/ \E value \in Hold : TxHoldMultiplierSet(value)
           \/ TtlSet
  BY <1>1, <1>2 DEF TxIntervalSet, TxHoldMultiplierSet, TtlSet
<1>3. CASE UNCHANGED vars
  BY <1>1, <1>3 DEF vars, configVars
<1> QED
  BY <1>2, <1>3, LeaseTick, LeaseCompose, LeaseAdvance, LeaseFails, LeaseCreate,
     LeaseDelete, LeaseWait DEF Next, Clock, Configuration

(* A neighbour keeps us: from each frame to the next less time passes than  *)
(* the time to live that aatransi_packet_compose announced, for all the     *)
(* intervals, multipliers and ports there may be, whatever is created,      *)
(* deleted and configured meanwhile, and whichever other frames fail.       *)
THEOREM NeighboursAreKept ==
    ASSUME Punctual
    PROVE  Spec => []NeighboursKeepUs
<1>1. Init => LeaseInv
  BY DEF Init, LeaseInv, NoLeases
<1>2. TransmitInv /\ LeaseInv /\ [Next]_vars => (TransmitInv /\ LeaseInv)'
  BY TransmitStep, LeaseStep
<1>3. LeaseInv => NeighboursKeepUs
  BY DEF LeaseInv, LeaseOK, NeighboursKeepUs, NoLease
<1> QED
  BY <1>1, <1>2, <1>3, TransmitInitially, PTL DEF Spec
=============================================================================
