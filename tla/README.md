# Auto Attach SDK: a model in TLA+

The SDK implements the server side of Auto Attach: a switch learns from LLDP
frames which I-SID/VLAN assignments its neighbours want, accepts them, answers
with their status, and forgets them when they are no longer advertised.  These
modules model the server agent and its surroundings, check them with TLC on
small instances, and prove their safety properties with TLAPS for all instances.

## The system

| component | code | state | operations |
|---|---|---|---|
| remote assignment table | `common/agent/aa_server.c`, `aa_agent.c`, `aa_public.c` | a sorted list of entries (interface, I-SID, VLAN, status, time of last update), at most 1000; service switch; element type; term | process a binding, accept or reject it, clean an interface up after a message, maintain the list by the timer, reset, configure |
| removals from the table | `aa_server.c` | none of its own | remove a unit, the SMLT peer's bindings or one binding; synchronise trunk members |
| agent mutex and threads | `platform/posix/aasdk_osif_plat.c`, `apps/engtest` | a recursive mutex; the clock thread | every API call holds it; the timer's run takes it in pieces |
| scratch array | `faRemIsidVlanAsgnList` in `aa_server.c` | one static array | filled by scans, resets and removals, read by the deletions |
| linked lists | `aa_agent.c` | remote assignments; discovered elements | create, delete, exact and next search, queries of an interface |
| ports | `common/agent/aa_port.c`, `common/common/aasdk_port_comm.c` | list of (port, enabled, system id, counters) | create, destroy, enable or disable one or all, configure |
| statistics | `aa_port.c`, `aasdk_port_comm.c`, `aasdk_comm.c` | counters by port and globally | count, read, clear |
| discovered elements | `aa_agent.c`, `aasdk_elem_comm.c` | a list sorted by interface | pack, test and store a message; query |
| transport: ports, elements | `transport/common/aatrans_port_comm.c`, `aatrans_elem_comm.c` | LLDP's configuration, hardware ports and remote ports | set a remote assignment, enable Auto Attach globally or on a port, management VLAN, create and delete ports |
| transport: frames | `aatrans_comm.c`, `aatrans_packet_comm.c` | interval, hold multiplier, time to live | tick, send a frame on every port |
| time | `common/common/aasdk_time_comm.c` | last time, accumulated fraction | tick, arithmetic |
| LLDP | lldpd, an empty submodule | remote ports per interface | decode frames, age neighbours, advertise |

A frame is decoded by lldpd, which keeps it as a remote port, calls
`aasdki_disc_data_set` for the element that sent it and `aasdki_asgn_data_set` once
for each of its bindings.  Each call becomes a message to `faAgent_main_proc`, and in
this build that is a call (`AA_SDK_USE_MSG_QUEUE` is undefined): under the
agent mutex for a binding, **without** it for an element.  The agent creates or
refreshes the entry, answers through `aasdkx_asgn_data_set` (it sets the status
in LLDP's remote port) and then deletes, **after every binding and not after
every frame**, the entries of the interface that are ten seconds old.  Another thread
ticks: `aasdki_time_tick` moves the clock and, each second, has the whole table
scanned for entries older than the configured term (240 s);
`aatransi_time_tick` measures the same time again and, each interval, walks LLDP's
list of ports without a lock to send a frame on each.

What is hard here: the two threads (the clock moves under an API call, the
timer deletes what it found before it let go of the mutex, both use the same
array, a new entry is stamped before it is linked, the walk of the ports has no lock), order (bindings of one frame against the
clean-up of the frame, the global switch against that of a port, the switch of the agent
against that of LLDP), failure (an LLDP port that is not there
yet, a frame that is not sent), limits and wrap-around (a full table, an unsigned sum of seconds, carries of
fractions), and the agreement of the agent's data with LLDP's.  `PROJECT.json`
lists these hazards with the lines where they bite and the properties that watch
them.

What makes each component right:

* table: no entry goes before its time or stays beyond it, none is demoted, one
  interface cannot disturb another, the limit holds, a silent entry leaves;
* threads and removals: a run that is not disturbed is exact, one that is does
  bounded harm, each run ends, no loop reads what nobody wrote;
* lists: no leak, no dangling node, sorted, links match, a walk is complete, queries
  agree;
* transport and frames: after a frame the table is what the frame says, and the
  neighbour is answered;
* ports: the agent's ports and LLDP's agree, answers are true, what was configured is
  announced;
* statistics: the global count is the sum of the ports' counts;
* discovered elements: no neighbour is missed, whatever the order of the switches;
* time and frames: no time is lost, no neighbour forgets us, and while nothing fails no port is left out.

## The modules

| module | models | in the code |
|---|---|---|
| `AAExpiry` | the age test of a maintenance run, with its wrapping sum | `aa_server.c:143-148` |
| `AsgnLease` | abstract specification: an assignment is a lease | what the server promises |
| `AAServer` | the table and all operations on it, one atomic step per API call or tick | `aa_server.c`, `aa_agent.c` |
| `AAServerThreads` | the same table with the clock thread's steps taken apart | `aa_server.c:97-264`, `:996-1060` |
| `AARemovals` | extends it by the removals and the synchronisation of trunks | `aa_server.c` |
| `AATransport` | operators: what setting a remote assignment does to LLDP's data, and its return code | `aatrans_elem_comm.c:29-191` |
| `AASystem` | `AAServer` and `AATransport` with neighbours and whole frames | `aasdk_asgn_comm.c`, lldpd |
| `KeySet` | abstract specification: a sorted list is a set with a limit | what the lists promise |
| `AALinkedList` | the lists at the level of `next` and `prev`, and the queries that walk them | `aa_agent.c:1625-2066`, `:2906-3228` |
| `AAPorts` | the agent's ports and LLDP's, service, management VLAN | `aa_port.c`, `aatrans_port_comm.c` |
| `AAStatistics` | extends it by the counters | `aa_port.c`, `aasdk_port_comm.c`, `aasdk_comm.c` |
| `AAMessage` | operators: the packed word of a discovery message | `aasdk_elem_comm.c`, `aa_agent.c` |
| `AADiscovery` | `AAPorts` and `AAMessage` with two threads and the elements they discover | `aasdk_elem_comm.c`, `aa_agent.c`, `aatrans_port_comm.c` |
| `AATime` | operators: arithmetic on `struct timespec` | `aasdk_time_comm.c` |
| `AATransmit` | both tickers, and the walk that sends frames | `aasdk_time_comm.c`, `aatrans_time_comm.c`, `aatrans_comm.c`, `aatrans_packet_comm.c` |
| `AALemmas` | facts about numbers, sets, sequences and sums that several proofs need | |
| `...Proofs` | theorems about the module of that name; those about `AAStatistics` are in `AAPortsProofs`, about `AAServerThreads` in `AARemovalsProofs`, about `AAMessage` in `AADiscoveryProofs`, about `AATime` in `AATransmitProofs` | |

The `MC...` modules only give constants their values.  Definitions marked
"Broken" stand before the definition they corrupt; no specification uses them.
They are plausible mistakes in the code, each of which a property must notice
(`mutants` in `PROJECT.json`).

**`AAServer`.**  A table entry is `status[b]` and `lastUpdated[b]` of a binding
`b`; `"none"` is absence.  `ReceiveBinding` is the whole of a message: the checks
of the service and the port, `faServerProcessRemoteElem` (refresh, retry of an
entry that is not ACTIVE, creation within the limit), and the maintenance run
on the interface with the limit `ImmediateDel`; the answer of LLDP is free.
`Tick` is a second of the clock thread with the maintenance run that follows.
`DisableService` leaves the table alone: `faServerAsgnReset` rejects *copies* of
the entries, and `faRemoteIsidVlanAsgnsClearAll` has an empty body in this build, so
that the comment at `aa_public.c:273` ("Delete FA server assignments ...") describes
something that does not happen.  Two branches of the code are dead and so not in
the model: the element type in the message is the agent's own, so an entry is
never an internal client's (which would not age) and never conflicts with
another; nothing sets the states `PROCESSING_BLOCKED` and `REJECT_ALL`.  In
`Decided` the interim status REJECTED of a failed acceptance does not show, since
its caller overwrites it under the same mutex.

**`AAServerThreads`.**  The clock thread goes through *asleep*, *check* (the list is
tested for emptiness without the mutex), *scan* (under it) and *delete* (one
deletion per acquisition); an API call through `ApiProcess`, `ApiLink` if the binding is new, and `ApiCleanUp`.
A new entry gets its time in `ApiProcess` (`stamp`, `aa_agent.c:2448`) and is linked and counted only in
`ApiLink` (`aa_agent.c:1905`), and so the clock thread, which looks without the mutex, finds a table that was empty to be
empty still: it goes back to sleep and ticks again, as often as there is time before `ApiLink`.
`foundEmpty` is history and marks such calls.
The scan copies entries into the array and deletions go by the key of the
copy.  Interfaces 1 to 9999 are `ActualIfc`, where `faServerAsgnRejectionProcessing`
gives up; on others the scan turns the status of the entry itself to REJECTED.

**`AARemovals`.**  The calls by which the switch around the agent takes bindings out
of the table.  Nothing in the repository makes them; they are modelled
because they share the array and the mutex with everything else.  A unit leaves
(`HostRemoval`): its copies have a zeroed interface (`Nowhere`), so that a clock
thread that is still deleting finds nothing under them.  The SMLT peer is gone
(`PeerRemoval`): entries of virtual interfaces leave.  A binding moved to another port of a
trunk: `SyncScan` stores its mirrors under the mutex and `SyncDelete` deletes them one by
one from the shared array afterwards, while the clock thread's scan may
overwrite it.  `Mirrors` is what the code takes for mirrors, `TrunkMirrors` what they are: bindings of the same
service on other ports of a trunk (`Trunk` is what the switch has put together; the code does not
know it).  `scanned` is history.

**`AASystem`.**  `rports` is LLDP's memory of its neighbours.  `FrameArrives`
replaces what was known of the sender, then each `Deliver` is one call of
`aasdki_asgn_data_set`, in any order, and the clock or the configuration may
move between two of them.  `frame.admitted` and `frame.elapsed` are history.

**`AALinkedList`.**  The nodes are addresses of an allocator; a deletion frees its
node and the allocator may return it at once.  The walker is a client that asks
for the next entry after its last one while others change the list.  The
constant `NextIsStrict` distinguishes the two lists: a search for the next of the
remote assignments compares with "greater", of the discovered elements with
"greater or equal".  The queries of an interface (`CountByIfc`,
`PortAsgnsStatusGet`, `AsgnStatusGet`) are operators that follow the pointers.  `KeySet` knows
only the set of keys and the client: `AAServer`, whose table is a set, relies on no more.

**`AAPorts`.**  `aaPortsList` and `hardware` are the two lists.  `Orderly` is the
discipline that makes them agree: an LLDP port is created before the agent's and
deleted after it, not twice, and a port is disabled before it is destroyed.
The code enforces none of this; with `Orderly = FALSE` the calls come in any
order.  `SetFaPortStatus` enables or disables all ports, goes on after a failure and
answers for the last.  The management VLAN is a 16-bit number in the agent's status and in
the copy for ports to come (`aa_element_mgmt_vlan`), and 12 bits on the ports that are
there; `PortDataGet`, a query, writes the latter to the former.  `hardware[i].notify` is the
flag by which a port that becomes effective asks lldpd for what it knows already.

**`AAStatistics`.**  One counter stands for all of them: they are counted, read and
cleared by the same code.  `uncounted` is history: what the ports no longer show.

**`AADiscovery`.**  The calls of the configuring thread that write to LLDP and to the agent
are a sequence of `Write`s under the mutex.  The receiving thread tests the service without it
(`ServiceTest`), the port under it (`PortTest`) and stores under it again
(`StoreElement`), and anything may happen between.  A deleted LLDP port sends the
agent an empty element first, which the agent refuses when its own port is gone
already.  The element of a destroyed port stays.  `raced` is history: the service is enabled in
LLDP before it is in the agent (`aa_public.c:245`), and what LLDP delivers between the two
writes is turned away and not delivered again.  `NoNeighbourMissed` makes an
exception for those; without it TLC finds it violated, and with the two writes
exchanged it holds without it.

**`AATime`, `AATransmit`.**  Time is a pair of seconds and parts of a second, of which there are
`NSECS_PER_SEC`.  Both tickers are called one after the other, so one action does both;
`since` is the true time since the last message of each, and `lease` how long a
neighbour will still know us.  The list of ports is the `TAILQ` of the code: a port that was
removed keeps its link and is not freed, so that a walk that was at it goes on.  A port
deleted between the link and the composition of its frame gets a frame without bytes.  `lease` is
void (`NoLease`) after a deletion and when the interval was made longer, since no
frame tells the neighbours of it.  The setters assign the interval, the time to live and the wait of the
ticker one after the other without a lock; so do `TxIntervalSet`, `TtlSet` and `WaitSet`, with ticks and frames between
them.  They check no value, and the model sets any: a frame that is composed between two of the assignments, with
an interval of zero or with a multiplier below two, makes no promise that lasts (`Lasting`), and its
neighbour is followed from a later one.  Two things end a walk early: `ClockTicks` without memory for the buffer does not
begin it (`aatrans_packet_comm.c:98`), and `SendFails` returns from it (`:114-121`; built with
`make aaserver`, if the application has no send function of its own).  The ticker has started again by
then, so the ports that were to come wait for an interval.

In `AADiscovery` one thing is coarser than the code: the empty element of a deleted LLDP port is tested
and stored in three steps without the mutex held over them (`aasdk_elem_comm.c:145`), and in one in
`LldpPortDelete`.  What is tested only the same thread writes, and a message that the receiving thread stores in
between is as if stored after it.

## The runs

Passing:

* `server` (9 504 states): two interfaces, three bindings, room for two, a clock
  of six seconds, terms 0, 3 and 5, a limit of 2 s after a message, all
  statuses a neighbour can send.  The clock wraps again and again, sums wrap
  with terms 3 and 5, and a third binding meets a full table.  Checks the limit,
  that ticks leave nothing that expired (`TickLeavesNoExpired`), that a message does
  not lose its own binding (`AdvertisedIsKept`), that interfaces do not disturb
  each other (`OneInterfaceAtATime`), that nothing ACTIVE is demoted
  (`ActiveUntilDeleted`), the refinement of `AsgnLease` (`ImplementsLease`) and that
  silent entries leave (`SilentEntriesLeave`, liveness).  In the last seconds before the
  clock wraps the sum of the age test wraps first: entries go early then, and the
  code's own test for a wrapped clock is decisive only for a clock that jumps.
* `threads` (591 774 states): three bindings on an actual and a virtual interface of one trunk, two
  services, the first and last binding mirrors of each other; a clock of five seconds.
  Neither loop over the array reads a cell nobody wrote (`LoopsReadCopies`); the
  clock can move by a second at most under an API call that began on a table with an entry
  (`OneSecondDrift`), hence a message does not lose its own binding to the clock
  (`OwnBindingSurvives`); a run without an overlapping call is exact; a synchronisation without an
  overlapping scan leaves no mirror on another port of the trunk; every run ends.
* `system` (1 756 528 states): three bindings, one neighbour on each of two interfaces, a
  clock of eleven seconds, terms of 3 and 5 s.  However the bindings of a frame are ordered and delayed, at
  its end (if it took less than the limit and than every term) what it asked for is in the table and
  what it did not ask for is younger than twice the limit; new requests are
  answered.  `FrameLeavesItsBindings` is the one that needs the detour: the
  clean-up after the first binding deletes the others when they are old, and
  they are created again.
* `list` (4 097 states): five keys that differ in each component, five nodes, room for
  four.  Four nodes are head, two in the middle and tail, so each case of the pointer
  operations is met; the fifth key and node meet the limit and the reuse of a
  freed node.  `MaxPort = 2` cuts the list of an interface.  Nodes are symmetric, since
  only equality of addresses matters.  The pointers implement `KeySet` (`ImplementsSet`), which fails
  as soon as the list is not sorted.
* `ports` (1 612 096 states): two ports, two system ids, three LLDP ports, management VLANs
  10 and 4117 (which does not fit 12 bits), counters that wrap at two; orderly callers.
  The views agree, answers are true (also that for all ports at once), what is announced is
  what was configured, and the global count is the sum of the ports'.
* `transmit` (1 476 624 states): seconds of two parts, ticks of half a second and of one,
  intervals of 0, 1 and 2 s, multipliers 1 and 2, two ports, of which the second is followed, and three
  nodes; the setters assignment by assignment, and walks that fail at a frame or for want of memory.  The sums are
  exact (`SumIsElapsed`) and no neighbour forgets us (`NeighboursKeepUs`).  A walk that fails nowhere
  reaches every port that stays (`WalkReachesAll`), and every port gets frames for ever once the list is
  at rest and nothing fails any more (`AdvertisedForever`).
* `discovery` (211 056 states): two ports, one of them at a time in LLDP, two neighbours that
  differ in every field.  At rest the agent knows the neighbour that LLDP knows, wherever
  Auto Attach is on (`NoNeighbourMissed`), and one that stays becomes known
  (`NeighbourBecomesKnown`).

Violations, each a disagreement between the code and its documentation or
comments (`findings` in `PROJECT.json` quotes them):

* `threads_fresh`: an entry refreshed between scan and deletion is deleted.
* `system_reanswer`: a request for an assignment that is ACTIVE is not answered,
  and LLDP shows the neighbour its own PENDING.
* `system_deleted`: what the timer deletes stays ACTIVE in LLDP.
* `disc_walk`: the next discovered element is the same one again.
* `ports_retry`: enabling a port fails once and leaves the agent's flag set; the call that repeats it
  answers with success and does nothing, whether or not LLDP has the port by then.

Four more disagreements with comments of the code are stated as properties, which TLC finds violated under
the configurations named; `PROJECT.json` has no runs of theirs:

* `EveryRunExact` (`MCAAServerThreadsArray.cfg`): an API call between the timer's scan ("Store elements for later
  processing", `aa_server.c:173`) and its deletions overwrites the array, and the run deletes an entry that is
  fresh and leaves one that has expired.  The first half is also a way to violate `TimerDeletesOnlyExpired`.
* `SyncDeletesMirrorsOnly` (`MCAAServerThreadsSync.cfg`): the synchronisation "Searches for and deletes I-SID/VLAN
  bindings that represent mirrored data on a different trunk port" (`aa_server.c:401-402`), but deletes its target too,
  and the same service on ports of no trunk (`aa_server.c:442`).  `SyncLeavesNoMirror` is the half that holds.
* `CountIsOfInterface` (`MCAALinkedListCount.cfg`): `faAgentGetRemoteIsidVlanAsgnsCountByIfc` "Returns the number of
  remote I-SID/VLAN assignment entries that are associtaed with the target interface value"
  (`aa_public.c:1022-1024`), but its search starts behind I-SID 0 and VLAN 1, and the count is short of what does not
  lie behind.  The theorem `CountsWhatIsBehind` says by how much.
* `NoPortLeftOut` (`MCAATransmitFails.cfg`): "Run through all active ports within the box and for each port that has
  LLDP enabled, compose an LLDPDU packet and send it out on that port" (`aatrans_packet_comm.c:88-89`), but a frame that
  fails ends the walk (`:114-121`).  The ports behind it get none, on every walk while that port fails, and their
  neighbours forget us; `NeighboursKeepUs`, `WalkReachesAll` and `AdvertisedForever` hold only where nothing fails.

One more fact is known of the models and has no run: of two neighbours that ask for the same binding on
one interface only the first in LLDP's list is answered (`NewRequestAnswered` is checked with
one neighbour on each).

### Bounds

A maintenance run treats entries independently of each other, so three bindings
show every combination of "this one", "another of the same
interface" and "one elsewhere"; `MaxRemote = 2` makes the third one too many.
Small clocks stand for 2^32: the age test only compares and adds, and both the
wrap of the sum and of the clock occur within the bound.  The clock of 16 in
`threads_fresh` keeps the wrap-around away from the counterexamples.  `TickSteps` is `{1}`
in all runs: the one clock in the repository (`clock_thread` of `apps/engtest`) adds
one second per call.  With longer steps `SilentEntriesLeave` fails on a clock as
short as six seconds, because the clock can jump over the window in which an
entry counts as expired; with 2^32 seconds and terms of minutes it is the same
only for terms within a step of 2^32.  The theorems hold for all `TickSteps`.

`MaxHardware` bounds LLDP's list of ports.  It is one in `discovery`, where each
port's messages are independent of the other's; with two agent ports the LLDP port
still changes hands.  In `transmit`, `ClockWrap = 1` keeps only the fraction of the absolute time:
the tickers use differences only; three nodes allow a port to be removed before, at and after the
walk.  Half seconds suffice for a carry and for a borrow; the theorem
about `SumIsElapsed` holds for any division.

### Fairness

`FairSpec` of `AAServer` has weak fairness of `TimePasses`: the clock thread sleeps a second and
ticks for ever.  `Fairness` of `AAServerThreads`, used with the removals by `RemovalsFairSpec`,
has weak fairness of every step of the clock thread that needs no mutex and of the two steps by which
an API call goes on and ends (it waits for nothing), and strong fairness of the clock thread's two steps
under the mutex: a POSIX mutex promises no fairness, but the API thread waits for frames
between its calls, 30 seconds apart, so that the clock thread finds it free.
`FairSpec` of `AATransmit` has weak fairness of the clock thread, which takes no lock.
`DiscoveryFairSpec` has weak fairness of the writes of a configuration call and of the test
that needs no mutex, and strong fairness of the receiving thread's steps under the mutex and
of the delivery of what a port asked for, for the same reason as above.
No fairness is assumed of API calls, configuration or frames.

## What is proved

Every invariant and every action property of a passing run, and both refinements, are theorems:
for every finite set of ports, bindings, neighbours and nodes, every limit, clock width, term
and length of ticks, and whatever else the modules declare as `CONSTANTS`.  The
assumptions are those that the modules name (`ServerAssumption`, `WAssumption`, `ThreadsAssumption`,
`PortsAssumption`, `TransmitAssumption`, ...), and where a theorem needs one more, it says so:

| assumption | used for | in the code |
|---|---|---|
| `Orderly` | the agreement of the agent with LLDP, `NoneIsMissed` | the discipline of `AAPorts` above; TLC finds disagreement without it |
| `NextIsStrict` | `WalksAdvance`, `InterfaceQueriesAgree`, `CountsWhatIsBehind`, `ListIsASet` | the comparison of the remote assignments; the other list's is `disc_walk` |
| `OneNeighbourEach` | `NewRequestsAreAnswered` | the answer goes to the first neighbour with assignments, who may be another |
| `Punctual` | `NeighboursAreKept` | a tick is no longer than a second, as `clock_thread` ticks each second |

Some properties make exceptions of their own, each where the code gives no guarantee: `OneSecondDrift` and
`OwnBindingSurvives` of calls that began on an empty table, `UndisturbedRunExact` and `SyncLeavesNoMirror` of
overlapped runs, `NeighboursKeepUs` of frames that promise less than two intervals and of walks that failed,
`WalkReachesAll` and `AdvertisedForever` of failures.

**Lemmas.**  `AALemmas` holds what the proofs share.  The library's induction theorems take the
hypothesis as a parameter, which the provers cannot instantiate; the library's theorem that `<` on
the naturals is well founded has none.  So inductions are done by the least counterexample (`LeastNatural`,
`AllNaturals`): with it a finite set of numbers has one increasing enumeration (`Enumeration`,
`EnumerationIsOnto`), a sum over a set (a fold) takes one element at a time (`SumOf`...), and a
recursive function is what its equation says.

**`AAServerProofs`**: the three invariants of `server` (`TypeCorrect`, `Capacity`, `NoFuture`), its
action properties (`TicksPurge`, `NeverDemoted`, `AdvertisedStays`, `OneInterface`), and that `AAServer`
implements `AsgnLease` (`LeaseRefinement`).
The inductive invariant is `IInv`: types, limit, no entry newer than the clock, and
`UnsetIsEmpty`, that the table is empty until the element is configured.  The
last is needed because an element that is not a server does not maintain its
list: if it had entries, they could become newer than a clock that wraps.  The
argument for the limit is that a message adds at most its own binding, when
there was room or it was there (`OneMore`), and that maintenance only removes (`SmallerTable`).
The refinement takes a message to `Advertise` and a tick to `Elapse`, with the
set that maintenance collects as the set of leases to drop.
`DroppableIsExpired` is its core: where nothing wraps, the code's test is the true
age test, and where something does, it errs only towards deletion.

**`AASystemProofs`**: the server among its neighbours still implements `AAServer`
(`SystemImplementsServer`), also with several neighbours on an interface, so that what is proved of the server
carries over (`SystemSafe`, `SystemLeases`).  Of the frames: `FramesArrive` (`FrameLeavesItsBindings`) and
`FramesClean` (`FrameIsTheTruth`) from `FrameInv`, which measures every entry of the frame's interface against
the frame.  What was admitted is no older than the frame took so far (`FrameFresh`), so that no
clean-up finds it expired; and from the first clean-up on nothing there is older than the limit and the frame
together (`FrameClean`).  For the first, the ticks between the bindings matter: they delete by
the term, so a frame that takes longer than the *term* may lose its own bindings, and `FrameInTime`
excludes it.  `NewRequestsAreAnswered` rests on `FrameShown`: LLDP still knows the sender of
the frame in process, alone, with the bindings that are to come.

**`AARemovalsProofs`**, of the two threads and the removals.  `ReadingsAgree` (`OneSecondDrift`)
and `OwnBindingStays` (`OwnBindingSurvives`) follow from `DriftInv`: while an API call that began on a table with an
entry is in process, either the clock shows the second that the call read first (`Reading`: the stamp until the entry is
linked, then its time), or it is one further and its thread is at a step that needs the mutex (`ClockWaits`); it does not turn
back, because the table is not empty.  The two loops over the shared array follow from
`LoopsInv`: what a loop has yet to read was written by somebody (`CopiesInv`: `OnlyCopiesAreRead`); while no call
came between, every expired entry has its copy among the cells that the timer has yet to read
(`RunInv`: `UndisturbedRunsAreExact`); and while the timer's scan did not come between, every mirror has its
copy ahead of a synchronisation (`SyncInv`: `SyncsAreComplete`).  The scan writes each entry that it finds once, in
the order of the list (`InOrder`, `InOrderLists`).

**`AALinkedListProofs`**.  The inductive invariant `ListInv` says that *there is* a sequence of nodes for which
the pointers stand: the head is its first, `next` and `prev` lead to the neighbours, it holds the allocated
nodes, and its keys increase (`Lists`).  Each case of an addition inserts into it, each case of a
deletion removes from it.  The five state properties (`ListTypes`, `ListHoldsTheAllocated`,
`ListGoesBothWays`, `ListIsSorted`, `WalksAdvance`) follow, and `WalksAreComplete`: what was there all the time and was
not seen yet lies ahead (`WalkInv`).  `InterfaceQueriesAgree` compares the queries of an interface with
the table: the keys of an interface are a segment of the sequence, so the loop that leaves at the
first other interface misses nothing.  `CountsWhatIsBehind` says what the count of an interface misses: its keys with I-SID 0 and a
VLAN of at most 1.  `ListIsASet`: the list implements `KeySet`, with the set of
keys in the list and the client's last key as the mapping.

**`AAPortsProofs`**, of ports and counters.  Under `Orderly`: `ViewsNeverDiffer`
(`ViewsAgree`), `AnswersAreTrue` (`AnswerIsTrue`) and `VlanIsAnnounced` (`AnnouncedIsConfigured`).  The
inductive invariant is `AgreeInv`: with the three properties themselves, an interface is in LLDP's list
once at most (`OncePerIfc`), every port of the agent is there (`Covered`), and the VLAN for ports to
come is the configured one (`CopyIsConfigured`).  The loops that stop at the first port with an interface
then stop at the only one (`FirstIsOnly`).  These theorems are stated for `StatsSpec`, which implements
`Spec` (`CountingIsAside`).  Without `Orderly`: types (`PortsTypes`, `StatsTypes`), the two global switches
(`SwitchesStayEqual`), and `CountsAddUp` (`GlobalIsSum`), where a step changes one summand on both sides, and all
of it modulo the width of the counters.

**`AADiscoveryProofs`**.  A packed message comes back as it was packed if its parts fit their fields
(`MessageArrives`), and a port that does not fit loses its upper bits but spoils nothing else
(`OnlyThePortIsCut`): port 65536 becomes interface 0.  `NoneIsMissed` (`NoNeighbourMissed`), under `Orderly`,
has the invariant `DiscoveryInv`: the ports of `AAPorts` stay in the agreement of `AgreeInv`
between the writes of a configuration call; the switches differ between its two writes only (`SwitchesInStep`);
a message on its way says what LLDP knows (`HeardOnPorts`); and what the agent does not know is
owed to it (`Owed`): LLDP is still asked for it, or its message is with the receiving thread.  The last
breaks for a message between the two writes of the switch, which is why `raced` has to be
excepted.

**`AATransmitProofs`**: `TickersMeasureTime` (`SumIsElapsed`) rests on lemmas about the
arithmetic: addition adds (`TimeAddTotal`), subtraction undoes it (`SubUndoesAdd`), and the
comparison compares (`TimeLessIsLess`).  `WalksReachAll` (`WalkReachesAll`) is the walk without a lock, when no frame fails.  Its invariant
`AheadInv` says that some assignment of nodes to nodes bounds what lies ahead: ahead of each node is at most
itself and what is ahead of the node its link leads to (`Leads`), and each port that the walk
owes a frame is ahead of where it is (`Owed`).  A removed node keeps its link, so a removal takes only itself
out, and an addition comes ahead of all.  `NeighboursAreKept` (`NeighboursKeepUs`): each
promise that is followed lasts for an interval more than the next frame needs (`LeaseInv`), because it was made for two intervals
at least and a tick is never longer than the shortest of them; this holds between the assignments of a setter too, as
the ticker goes by the old interval until the last of them.

Only model-checked: liveness (`SilentEntriesLeave`, `MaintenanceEnds`, `NeighbourBecomesKnown`,
`AdvertisedForever`), since the prover treats neither fairness with `ENABLED` nor leads-to from it; and
the properties that are violated, which are false.

## What is not modelled

* The roles of host and proxy, and the local assignments: switched off at compile time.
* The message queue: not compiled in.  Callbacks and internal clients: nobody registers.
* SNMP queries, tracing, authentication stubs, porting stubs: no state that the
  properties are about.
* Names, descriptions and capabilities of the chassis: set and get.
* lldpd itself, with the encoding of frames: external, modelled as far as the SDK uses it.
* The allocator's failure: for the table it has the effect of a full table.
* Port ids beyond 16 bits, and 0, for which the clean-up of a message covers all
  interfaces: `AADiscoveryProofs` says what becomes of the number, not what follows.
* Queries that walk a list without the mutex while entries are freed under them
  (`faAgentGetRemoteIsidVlanAsgnsCountByIfc` releases it where it should take it): undefined in C.
  The queries are modelled at rest.
* The types of elements in the copy for ports to come, which go the way of the
  management VLAN.

## Plan

Done: the table, its leases and their proofs; threads and removals; frames, and their
refinement of the server; lists and their queries; ports and statistics; discovered elements and
their messages; time and the frames it sends; the proofs of all safety properties.  What is left:

1. That the two threads of `AAServerThreads` implement `AAServer` while no call overlaps a run of the
   timer: the scan and the deletions of the run together are the maintenance of one `Tick`.
2. That `AADiscovery` implements `AAPorts` when each configuration call is taken as one step at
   its last write.
3. Two neighbours on an interface, with the answer to the first only, as a run once
   a document of the repository promises more.
4. A port that is created twice in LLDP (the loops then stop at the first): what of the agreement
   remains without the last clause of `Orderly`.
