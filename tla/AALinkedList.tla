---------------------------- MODULE AALinkedList ----------------------------
(***************************************************************************)
(* The agent's sorted, doubly linked lists at the level of their pointers:  *)
(* the remote I-SID/VLAN assignments (faRemoteIsidVlanAsgnsTable), and the  *)
(* discovered elements, whose code differs in the key, in having no limit   *)
(* and in the comparison of a GET_NEXT search.                              *)
(*                                                                         *)
(* AAServer takes these lists for sets with a size; this module shows that  *)
(* they are.  Every operation runs under the agent mutex.                   *)
(***************************************************************************)
EXTENDS Naturals, FiniteSets, FiniteSetsExt, Sequences, SequencesExt

CONSTANTS
    Key,            \* <<ifIndex, isid, vlan>> triples
    Node,           \* addresses the allocator can return
    NULL,
    MaxCount,       \* FA_AGENT_REM_MAX_ISID_VLAN_ASGNS
    MaxPort,        \* FA_AGENT_MAX_ISID_VLAN_ASGNS, the most that a query returns
    NextIsStrict    \* does GET_NEXT look for a greater key, or one not less?

VARIABLES
    head,           \* faRemoteIsidVlanAsgnsTable
    count,          \* faRemoteIsidVlanAsgnsCount
    next, prev, key,  \* the fields of the nodes, allocated or not
    allocated,      \* the nodes the allocator gave out
    walk            \* a client that goes through the list with GET_NEXT: where it
                    \* is, what it got, what has been there all the time, and
                    \* whether its last answer was one it had got before

listVars == <<head, count, next, prev, key, allocated>>
vars == <<listVars, walk>>

First == <<0, 0, 0>>      \* where a walk starts, before all keys

ASSUME ListAssumption ==
    /\ IsFiniteSet(Node) /\ NULL \notin Node
    /\ MaxCount \in Nat /\ MaxPort \in Nat /\ NextIsStrict \in BOOLEAN

(* An interface has a number other than 0. *)
ASSUME KeyAssumption == Key \subseteq (Nat \ {0}) \X Nat \X Nat

(* faRemoteIsidVlanAsgnLexiOrder *)
Less(a, b) ==
    \E f \in 1 .. 3 : a[f] < b[f] /\ \A g \in 1 .. f - 1 : a[g] = b[g]

Init ==
    /\ head = NULL /\ count = 0
    /\ next = [n \in Node |-> NULL] /\ prev = [n \in Node |-> NULL]
    /\ key = [n \in Node |-> First]
    /\ allocated = {}
    /\ walk = [at |-> First, seen |-> {}, present |-> {}, again |-> FALSE]
-----------------------------------------------------------------------------
(* The nodes that the loops visit: from the head along next.  A list that   *)
(* was tied into a knot shows by its length.                                *)
Visit == LET at[m \in 0 .. Cardinality(Node)] ==
               IF m = 0 THEN head
               ELSE IF at[m - 1] = NULL THEN NULL ELSE next[at[m - 1]]
         IN  at

Chain ==
    LET visits == {m \in 1 .. Cardinality(Node) + 1 : Visit[m - 1] # NULL}
    IN  [m \in visits |-> Visit[m - 1]]

(* The first node of the chain that a loop stops for. *)
FirstIn(nodes) ==
    LET stops == {m \in DOMAIN Chain : Chain[m] \in nodes}
    IN  IF stops = {} THEN NULL ELSE Chain[Min(stops)]

(* faRemoteIsidVlanAsgnFind and faDiscoveredElementsFind *)
FindExact(k) ==
    IF count = 0 THEN NULL ELSE FirstIn({n \in Node : key[n] = k})

(* Broken: the same key counts as the next; only interfaces are compared.   *)
FindNextNotLess(k) == FirstIn({n \in Node : Less(k, key[n]) \/ k = key[n]})

FindNextInterface(k) == FirstIn({n \in Node : k[1] < key[n][1]})

FindNext(k) ==
    IF count = 0 THEN NULL
    ELSE FirstIn({n \in Node : Less(k, key[n]) \/ (~NextIsStrict /\ k = key[n])})

(* faRemoteIsidVlanAsgnAdd and faDiscoveredElementsAdd, which are the same   *)
(* but for the comparison, link an allocated node: into an empty list,      *)
(* before a greater key, or at the end.                                     *)
LinkFirst(n) ==
    /\ head = NULL
    /\ head' = n
    /\ next' = [next EXCEPT ![n] = NULL]
    /\ prev' = [prev EXCEPT ![n] = NULL]
    /\ count' = count + 1

(* Broken: it looks at the last node only.                                  *)
StopForLast(k) == FirstIn({n \in Node : next[n] = NULL})

(* Where the loop of the addition stops: at the first node with a greater   *)
(* or the same key, or else at the last node.                               *)
StopFor(k) ==
    FirstIn({n \in Node : Less(k, key[n]) \/ k = key[n] \/ next[n] = NULL})

(* Broken: the links back to the new node are not made.                     *)
LinkBeforeHalf(n, k) ==
    LET stop == StopFor(k)
    IN  /\ head # NULL /\ Less(k, key[stop])
        /\ IF stop = head
           THEN head' = n /\ next' = [next EXCEPT ![n] = stop]
           ELSE next' = [next EXCEPT ![prev[stop]] = n, ![n] = stop] /\ head' = head
        /\ prev' = [prev EXCEPT ![n] = prev[stop]]
        /\ count' = count + 1

LinkBefore(n, k) ==
    LET stop == StopFor(k)
    IN  /\ head # NULL /\ Less(k, key[stop])
        /\ IF stop = head
           THEN /\ head' = n
                /\ next' = [next EXCEPT ![n] = stop]
                /\ prev' = [prev EXCEPT ![n] = NULL, ![stop] = n]
           ELSE /\ next' = [next EXCEPT ![prev[stop]] = n, ![n] = stop]
                /\ prev' = [prev EXCEPT ![n] = prev[stop], ![stop] = n]
                /\ head' = head
        /\ count' = count + 1

LinkLast(n, k) ==
    LET stop == StopFor(k)
    IN  /\ head # NULL /\ Less(key[stop], k)
        /\ next' = [next EXCEPT ![stop] = n, ![n] = NULL]
        /\ prev' = [prev EXCEPT ![n] = stop]
        /\ count' = count + 1
        /\ head' = head

(* Broken: one too many.                                                    *)
CreateOffByOne(k, n) ==
    /\ FindExact(k) = NULL
    /\ count <= MaxCount
    /\ n \in Node \ allocated
    /\ allocated' = allocated \cup {n}
    /\ key' = [key EXCEPT ![n] = k]
    /\ LinkFirst(n) \/ LinkBefore(n, k) \/ LinkLast(n, k)
    /\ UNCHANGED walk

(* faServerProcessRemoteElem creates an entry it did not find, if the limit *)
(* and the allocator permit.                                                *)
Create(k, n) ==
    /\ FindExact(k) = NULL
    /\ count < MaxCount
    /\ n \in Node \ allocated
    /\ allocated' = allocated \cup {n}
    /\ key' = [key EXCEPT ![n] = k]
    /\ LinkFirst(n) \/ LinkBefore(n, k) \/ LinkLast(n, k)
    /\ UNCHANGED walk

(* Broken: a node that is not the head is freed without being unlinked.     *)
DeleteLinked(k) ==
    LET n == FindExact(k)
    IN  /\ n # NULL
        /\ head' = IF n = head THEN next[n] ELSE head
        /\ prev' = IF n = head /\ next[n] # NULL
                   THEN [prev EXCEPT ![next[n]] = NULL] ELSE prev
        /\ count' = count - 1
        /\ allocated' = allocated \ {n}
        /\ walk' = [walk EXCEPT !.present = @ \ {k}]
        /\ UNCHANGED <<key, next>>

(* The pointers of faRemoteIsidVlanAsgnDelete and faDiscoveredElementsDelete. *)
Unlink(n) ==
    LET after == next[n]
        before == prev[n]
    IN  /\ head' = IF n = head THEN after ELSE head
        /\ next' = [m \in Node |-> IF m = n THEN NULL
                                   ELSE IF n # head /\ m = before THEN after
                                   ELSE next[m]]
        /\ prev' = [m \in Node |-> IF m = n THEN NULL
                                   ELSE IF m = after
                                   THEN (IF n = head THEN NULL ELSE before)
                                   ELSE prev[m]]

(* The fields of the freed node are cleared here, not when it is allocated  *)
(* again, to have fewer states; a list that still led to the node would be  *)
(* wrong already.                                                           *)
Delete(k) ==
    LET n == FindExact(k)
    IN  /\ n # NULL
        /\ Unlink(n)
        /\ key' = [key EXCEPT ![n] = First]
        /\ count' = count - 1
        /\ allocated' = allocated \ {n}
        /\ walk' = [walk EXCEPT !.present = @ \ {k}]

(* A client of faRemoteIsidVlanAsgnQuery or faDiscoveredElementsQuery asks  *)
(* for the entry after the one it has, until there is none.                 *)
Members == {key[Chain[m]] : m \in DOMAIN Chain}

WalkOn ==
    LET n == FindNext(walk.at)
    IN  /\ n # NULL
        /\ walk' = [walk EXCEPT !.at = key[n],
                                !.seen = @ \cup {key[n]},
                                !.again = key[n] \in walk.seen]
        /\ UNCHANGED listVars

WalkEnds ==
    /\ FindNext(walk.at) = NULL
    /\ walk' = [at |-> First, seen |-> {}, present |-> Members, again |-> FALSE]
    /\ UNCHANGED listVars

-----------------------------------------------------------------------------
(* The queries by interface.                                                *)

(* faAgentGetRemoteIsidVlanAsgnsCountByIfc: one search for the next entry   *)
(* after another, from I-SID 0 and VLAN 1, while they are of the interface. *)
SearchFrom(ifc) ==
    LET at[m \in 1 .. Cardinality(Node) + 1] ==
          IF m = 1 THEN FindNext(<<ifc, 0, 1>>)
          ELSE IF at[m - 1] = NULL THEN NULL ELSE FindNext(key[at[m - 1]])
    IN  at

CountByIfc(ifc) ==
    Cardinality({m \in DOMAIN SearchFrom(ifc) :
        \A j \in 1 .. m : SearchFrom(ifc)[j] # NULL /\ key[SearchFrom(ifc)[j]][1] = ifc})

(* Of the places that a loop stops at, the m-th in the order of the list.   *)
Place(stops, m) == CHOOSE p \in stops : Cardinality({q \in stops : q < p}) = m - 1

KeysIn(nodes, ifc) ==
    LET stops == {p \in DOMAIN nodes : key[nodes[p]][1] = ifc}
    IN  [m \in 1 .. Cardinality(stops) |-> key[nodes[Place(stops, m)]]]

FirstOf(s, most) == SubSeq(s, 1, Min({most, Len(s)}))

(* Broken: the entries that are passed over count against the limit.        *)
PortFindPassing(ifc) == KeysIn(FirstOf(Chain, MaxPort), ifc)

(* faRemoteIsidVlanAsgnPortFind stops at a limit that is not the list's.    *)
PortFind(ifc) == FirstOf(KeysIn(Chain, ifc), MaxPort)

(* aasdki_port_asgns_status_get, into the room the caller has; 0 is an      *)
(* error.                                                                   *)
PortAsgnsStatusGet(ifc, room) == FirstOf(PortFind(ifc), room)

(* aasdki_asgn_status_get: is the assignment there?                         *)
AsgnStatusGet(k) == FindExact(k) # NULL

Next ==
    \/ \E k \in Key, n \in Node : Create(k, n)
    \/ \E k \in Key : Delete(k)
    \/ WalkOn
    \/ WalkEnds

Spec == Init /\ [][Next]_vars
-----------------------------------------------------------------------------
(* Every variable has its type. *)
TypeOK ==
    /\ head \in Node \cup {NULL}
    /\ count \in 0 .. MaxCount
    /\ next \in [Node -> Node \cup {NULL}]
    /\ prev \in [Node -> Node \cup {NULL}]
    /\ key \in [Node -> Key \cup {First}]
    /\ allocated \subseteq Node
    /\ walk.at \in Key \cup {First}
    /\ walk.seen \cup walk.present \subseteq Key
    /\ walk.again \in BOOLEAN

(* The list holds what was allocated and nothing else (no leak, no freed    *)
(* node in it), once each, and the counter that guards every search and     *)
(* addition agrees with its length.                                         *)
NoLeakNoDangling ==
    /\ {Chain[m] : m \in DOMAIN Chain} = allocated
    /\ Len(Chain) = Cardinality(allocated)
    /\ count = Len(Chain)

(* Backwards it is the same list.                                           *)
LinksMatch ==
    \A m \in DOMAIN Chain :
        prev[Chain[m]] = IF m = 1 THEN NULL ELSE Chain[m - 1]

(* What a query of an interface returns is in order and without gaps: a     *)
(* caller that finds room left, and fewer than the limit, has seen all, and *)
(* one that does not can go on with a search for the next.  Each of them is *)
(* found by its key.                                                        *)
QueriesAgree ==
    \A ifc \in {k[1] : k \in Key} :
        LET mine == {k \in Members : k[1] = ifc}
        IN  \A room \in 1 .. MaxCount :
               LET got == PortAsgnsStatusGet(ifc, room)
               IN  /\ Len(got) = Min({room, MaxPort, Cardinality(mine)})
                   /\ \A m \in DOMAIN got :
                         /\ got[m] \in mine /\ AsgnStatusGet(got[m])
                         /\ Cardinality({k \in mine : Less(k, got[m])}) = m - 1

(* The count of an interface is "the number of remote I-SID/VLAN assignment *)
(* entries that are associated with the target interface value", so that a  *)
(* caller who makes room for as many gets them all.                         *)
CountIsOfInterface ==
    \A ifc \in {k[1] : k \in Key} :
        CountByIfc(ifc) = Cardinality({k \in Members : k[1] = ifc})

(* A walk never gets an entry twice, although entries come and go under it. *)
WalkAdvances == ~walk.again

(* When it ends it has seen every entry that was there all the time. *)
WalkIsComplete ==
    [][WalkEnds => walk.present \subseteq walk.seen]_vars

(* What the pointers stand for is a set with a limit, and the walk goes     *)
(* through it in the order of the keys, without leaving one out that was    *)
(* there when it passed.                                                    *)
Set == INSTANCE KeySet WITH keys <- Members, at <- walk.at

ImplementsSet == Set!SetSpec
=============================================================================
