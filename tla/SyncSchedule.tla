---------------------------- MODULE SyncSchedule ----------------------------
(***************************************************************************)
(* The schedule of a synchronized sampling network: the Nodes the          *)
(* application adds and removes, and what SyncSamplingNetwork::refresh     *)
(* computes for them.  The object is used by one thread; a call is a       *)
(* sequence of steps because each of them talks to a Node and may throw,   *)
(* which leaves behind what was done so far.                               *)
(***************************************************************************)
EXTENDS TdmaSlots, Sequences, SequencesExt, FiniteSetsExt

CONSTANTS
  Nodes,           \* node addresses
  V1,              \* Nodes of sync sampling version 1
  NotFirst,        \* Nodes that may not have the first slot
  EventNodes,      \* Nodes in event driven mode
  MayPend,         \* Nodes that may be added with a pending configuration
  Spacing,         \* slots of a transmission, by protocol
  DeviceProtocol,  \* the protocol the BaseStation and the Nodes are set to
  NoOptimize,      \* this many transmissions a second are not optimized
  Demands,         \* bound: quarters of a packet a Node may produce in a second
  RereadsFail      \* whether a setting calculateNetworkValues has read must be
                   \* read from the Node again (the EEPROM cache is off)

ASSUME ScheduleAssumption ==
  /\ Nodes \subseteq Nat \ {0} /\ V1 \subseteq Nodes /\ NotFirst \subseteq V1
  /\ EventNodes \subseteq Nodes /\ MayPend \subseteq Nodes
  /\ DeviceProtocol \in DOMAIN Spacing
  /\ \A p \in DOMAIN Spacing : Spacing[p] \in Nat \ {0}
  /\ NoOptimize \in Nat
  /\ Demands \in [Nodes -> SUBSET (Nat \ {0})] /\ RereadsFail \in BOOLEAN

\* MAX_SLOTS and the slot spacings are powers of two, and the reserved slots
\* begin where a packet may and end inside the second.
ASSUME PowersAssumption ==
  /\ \E k \in 0 .. MaxSlots : MaxSlots = 2^k
  /\ \A p \in DOMAIN Spacing :
       /\ \E k \in 1 .. MaxSlots : Spacing[p] = 2^k
       /\ Reserved % Spacing[p] = 0 /\ Reserved + Spacing[p] <= MaxSlots

VARIABLES
  demand,          \* the Nodes' configuration, as far as it counts
  info,            \* m_nodes: the SyncNetworkInfo of each Node of the network
  pending,         \* the Nodes with a pending configuration
  allNodes,        \* m_allNodes
  eventNodes,      \* m_eventNodes
  lossless,        \* m_lossless
  protocol,        \* m_commProtocol
  slots,           \* m_slots
  available,       \* m_availableSlotCount
  networkOk,       \* m_networkOk
  configApplied,   \* m_configApplied
  op,              \* the call that is running, or "none"
  phase,           \* where it is
  todo,            \* the Nodes its current loop still has to visit
  adding,          \* the Node addNode is called with, 0 in other calls
  trying,          \* the Node whose bandwidth is being optimized, or 0
  allFound,        \* what findSlotsForNodes is going to return
  attempt          \* in startSampling: retryCount, atLeastOneFailed

lists    == <<pending, allNodes, eventNodes>>
settings == <<demand, lossless, protocol>>
table    == <<slots, available>>
status   == <<networkOk, configApplied>>
locals   == <<adding, trying, allFound, attempt>>
call     == <<op, phase, todo, locals>>
scheduleVars == <<info, lists, settings, table, status, call>>

Members == DOMAIN info
NoAttempt == [count |-> 0, failed |-> FALSE]

\* A new SyncNetworkInfo.
NewInfo == [tx |-> 0, tdma |-> 0, status |-> "DoesNotFit",
            applied |-> FALSE, started |-> FALSE, optimized |-> FALSE]

ScheduleInit ==
  /\ demand \in [Nodes -> UNION {Demands[n] : n \in Nodes}]
  /\ \A n \in Nodes : demand[n] \in Demands[n]
  /\ info = <<>> /\ pending = {} /\ allNodes = <<>> /\ eventNodes = <<>>
  /\ lossless = TRUE /\ protocol = DeviceProtocol
  /\ slots = {} /\ available = 0
  /\ networkOk = TRUE /\ configApplied = FALSE
  /\ op = "none" /\ phase = "idle" /\ todo = <<>>
  /\ adding = 0 /\ trying = 0 /\ allFound = TRUE /\ attempt = NoAttempt

-----------------------------------------------------------------------------
(* The schedule of the network *)

InLegacyMode == Members \cap V1 # {}

CeilBase2(x) == CHOOSE p \in 0 .. 2 * x : x <= p /\ (p = 0 \/ \E k \in 0 .. x : p = 2^k)
                                          /\ \A k \in 0 .. x : x <= 2^k => p <= 2^k
FloorBase2(x) == CHOOSE p \in 0 .. x : p <= x /\ (x = 0 \/ \E k \in 0 .. x : p = 2^k)
                                       /\ \A k \in 0 .. x : 2^k <= x => 2^k <= p
CeilDiv(a, b) == (a + b - 1) \div b

\* The overhead factor, in halves.
OverheadFactor(optimize) == IF optimize THEN 4 ELSE IF lossless THEN 3 ELSE 2

TxPerGroup(n, optimize) == CeilBase2(CeilDiv(demand[n] * OverheadFactor(optimize), 8))

\* What getTdmaSlot needs to know.
Search(n) ==
  [tx |-> info[n].tx, size |-> Spacing[protocol],
   max |-> MaxTdmaAddress(info[n].tx, Spacing[protocol], InLegacyMode),
   first |-> n \notin NotFirst, check |-> 0, delay |-> 0]

\* sortingFunction: highest bandwidth first, then by address.
Before(infos, a, b) ==
  infos[a].tx > infos[b].tx \/ (infos[a].tx = infos[b].tx /\ a < b)

\* The orders a sort may leave; there is one, as no two addresses are the same.
Sorted(S, infos) ==
  {q \in SetToSeqs(S) : \A i, j \in DOMAIN q : i < j => Before(infos, q[i], q[j])}

\* The elements of q that are in S, in their order.
Among(q, S) ==
  LET kept[i \in 0 .. Len(q)] ==
        IF i = 0 THEN <<>>
        ELSE IF q[i] \in S THEN Append(kept[i - 1], q[i]) ELSE kept[i - 1]
  IN kept[Len(q)]

\* Event driven Nodes share what the others left.  A Node's share never grows
\* beyond what it would use if it always sampled, and as long as the shares are
\* too much that of the Node with the highest duty cycle is halved.
LargeSlots == available \div Spacing[protocol]
TotalDemand == MapThenSumSet(LAMBDA n : demand[n], ToSet(eventNodes))
Share(n) ==
  LET tx == FloorBase2((LargeSlots * demand[n]) \div Larger(1, TotalDemand))
      most == CeilBase2(CeilDiv(demand[n] * OverheadFactor(FALSE), 8))
  IN Larger(1, Smaller(tx, most))

TotalTx(tx) == MapThenSumSet(LAMBDA n : tx[n], DOMAIN tx)

HighestDutyCycle(tx) ==
  LET often == Among(eventNodes, {n \in DOMAIN tx : tx[n] > 1})
      Higher(i, k) == tx[often[i]] * demand[often[k]] > tx[often[k]] * demand[often[i]]
  IN often[CHOOSE i \in DOMAIN often :
             \A k \in DOMAIN often : ~Higher(k, i) /\ (k < i => Higher(i, k))]

\* Mutant of Halved: one slot too many is accepted.
HalvedLate(tx) == IF TotalTx(tx) >= LargeSlots + 2 THEN [tx EXCEPT ![HighestDutyCycle(tx)] = @ \div 2] ELSE tx

Halved(tx) == IF TotalTx(tx) > LargeSlots THEN [tx EXCEPT ![HighestDutyCycle(tx)] = @ \div 2] ELSE tx

DivvyUp ==
  LET shares == [n \in ToSet(eventNodes) |-> Share(n)]
      after[i \in Nat] == IF i = 0 THEN shares ELSE Halved(after[i - 1])
  IN IF eventNodes = <<>> \/ Len(eventNodes) > LargeSlots
     THEN [n \in ToSet(eventNodes) |-> info[n].tx]
     ELSE after[TotalTx(shares)]

-----------------------------------------------------------------------------
(* Adding, removing, refreshing *)

Idle == op = "none"

\* The call returns, or throws.
Return ==
  /\ op' = "none" /\ phase' = "idle" /\ todo' = <<>>
  /\ adding' = 0 /\ trying' = 0 /\ allFound' = TRUE /\ attempt' = NoAttempt

\* refresh() starts: nothing is applied any more.
Refreshing(o, n) ==
  /\ op' = o /\ adding' = n /\ phase' = "calculate" /\ todo' = allNodes'
  /\ configApplied' = FALSE
  /\ trying' = 0 /\ allFound' = TRUE /\ attempt' = NoAttempt

AddNode(n, p) ==
  /\ Idle /\ n \notin Members
  /\ p => n \in MayPend
  /\ info' = [m \in Members \cup {n} |-> IF m = n THEN NewInfo ELSE info[m]]
  /\ pending' = IF p THEN pending \cup {n} ELSE pending
  /\ allNodes' = Append(allNodes, n)
  /\ eventNodes' = IF n \in EventNodes THEN Append(eventNodes, n) ELSE eventNodes
  /\ Refreshing("add", n)
  /\ UNCHANGED <<settings, table, networkOk>>

\* Mutant of Without: the Node stays among the event driven ones.
WithoutAllNodesOnly(o, n) ==
  /\ info' = [m \in Members \ {n} |-> info[m]]
  /\ pending' = pending \ {n}
  /\ allNodes' = Among(allNodes, Nodes \ {n})
  /\ UNCHANGED eventNodes
  /\ Refreshing(o, 0)

Without(o, n) ==
  /\ info' = [m \in Members \ {n} |-> info[m]]
  /\ pending' = pending \ {n}
  /\ allNodes' = Among(allNodes, Nodes \ {n})
  /\ eventNodes' = Among(eventNodes, Nodes \ {n})
  /\ Refreshing(o, 0)

\* Before the Node is inserted something throws: it does not answer, it belongs
\* to another BaseStation, or it is not in a sync sampling mode.
AddRejected(n) ==
  /\ Idle
  /\ Without("reject", n)
  /\ UNCHANGED <<settings, table, networkOk>>

RemoveNode(n) ==
  /\ Idle /\ n \in Members
  /\ Without("remove", n)
  /\ UNCHANGED <<settings, table, networkOk>>

Refresh ==
  /\ Idle
  /\ UNCHANGED <<info, lists, settings, table, networkOk>>
  /\ Refreshing("refresh", 0)

SetLossless ==
  /\ Idle
  /\ lossless' = ~lossless
  /\ UNCHANGED <<demand, info, lists, protocol, table, networkOk>>
  /\ Refreshing("refresh", 0)

SetCommunicationProtocol(p) ==
  /\ Idle /\ p # protocol
  /\ protocol' = p
  /\ UNCHANGED <<demand, info, lists, lossless, table, networkOk>>
  /\ Refreshing("refresh", 0)

-----------------------------------------------------------------------------
(* refresh() *)

Calculated(infos, n, optimize) ==
  [infos EXCEPT ![n].tx = TxPerGroup(n, optimize), ![n].applied = FALSE]

\* calculateNetworkValues throws.
Unreachable(infos, n) == [infos EXCEPT ![n].status = "PoorCommunication", ![n].applied = FALSE]

AllOk == \A n \in Members : info[n].status = "OK"

\* findSlotsForNodes starts.
FindSlots(p, nodes) ==
  /\ phase' = p /\ todo' = nodes
  /\ slots' = {} /\ available' = MaxSlots /\ allFound' = TRUE

CalculateNode ==
  /\ phase = "calculate" /\ todo # <<>>
  /\ \/ info' = Calculated(info, Head(todo), FALSE) /\ todo' = Tail(todo) /\ UNCHANGED phase
     \/ info' = Unreachable(info, Head(todo)) /\ phase' = "failed" /\ UNCHANGED todo
  /\ UNCHANGED <<lists, settings, table, status, op, locals>>

SlotsForOthers ==
  /\ phase = "calculate" /\ todo = <<>>
  /\ \E q \in Sorted(Members \ ToSet(eventNodes), info) : FindSlots("others", q)
  /\ UNCHANGED <<info, lists, settings, status, op, adding, trying, attempt>>

SearchPhases == {"others", "all", "try", "restore"}

\* One Node of findSlotsForNodes, with or without a slot.
FindSlot ==
  /\ phase \in SearchPhases /\ todo # <<>>
  /\ LET n == Head(todo)
         nd == Search(n)
         taken == Reserving(slots, nd, InLegacyMode)
         s == FoundSlot(taken, nd)
     IN \/ /\ DoesNotFit(taken, nd)
           /\ info' = [info EXCEPT ![n].status = "DoesNotFit"]
           /\ slots' = taken /\ allFound' = FALSE
           /\ UNCHANGED available
        \/ /\ ~DoesNotFit(taken, nd)
           /\ info' = [info EXCEPT ![n].status = "OK", ![n].tdma = s + 1]
           /\ slots' = taken \cup SlotsFrom(nd, s)
           /\ available' = available - Room(nd, s) * nd.size
           /\ UNCHANGED allFound
  /\ todo' = Tail(todo)
  /\ UNCHANGED <<lists, settings, status, op, phase, adding, trying, attempt>>

SlotsForAll ==
  /\ phase = "others" /\ todo = <<>>
  /\ LET tx == DivvyUp
     IN info' = [n \in Members |-> IF n \in DOMAIN tx THEN [info[n] EXCEPT !.tx = tx[n]] ELSE info[n]]
  /\ allNodes' \in Sorted(Members, info')
  /\ FindSlots("all", allNodes')
  /\ UNCHANGED <<pending, eventNodes, settings, status, op, adding, trying, attempt>>

\* A lossless network whose Nodes all fit is going to be optimized.
SlotsFound ==
  /\ phase = "all" /\ todo = <<>>
  /\ networkOk' = AllOk
  /\ \/ /\ lossless /\ AllOk
        /\ info' = [n \in Members |-> [info[n] EXCEPT !.optimized = FALSE]]
        /\ phase' = "optimize"
        /\ UNCHANGED <<op, todo, locals>>
     \/ /\ ~(lossless /\ AllOk)
        /\ Return
        /\ UNCHANGED info
  /\ UNCHANGED <<lists, settings, table, configApplied>>

\* Nodes that have not been tried; the last one has the lowest bandwidth.
ToOptimize == Among(allNodes, {n \in Members : ~info[n].optimized})

KeptAsIs(n) == n \in EventNodes \/ info[n].tx >= NoOptimize

Resort(infos, p) ==
  /\ info' = infos
  /\ allNodes' \in Sorted(Members, infos)
  /\ FindSlots(p, allNodes')

\* A setting has to be read, or read again, and the Node does not answer.  The
\* settings that make the sampling delay of an old Node are read here first.
RereadFails ==
  /\ \/ RereadsFail /\ phase = "optimize" /\ ToOptimize # <<>>
     \/ /\ phase \in SearchPhases /\ todo # <<>>
        /\ RereadsFail \/ (Head(todo) = adding /\ adding \in V1)
  /\ phase' = "failed"
  /\ UNCHANGED <<info, lists, settings, table, status, op, todo, locals>>

Optimize ==
  /\ phase = "optimize" /\ ToOptimize # <<>>
  /\ LET n == Last(ToOptimize)
     IN \/ /\ KeptAsIs(n)
           /\ info' = [info EXCEPT ![n].optimized = TRUE]
           /\ UNCHANGED <<allNodes, table, phase, todo, trying, allFound>>
        \/ /\ ~KeptAsIs(n)
           /\ trying' = n
           /\ Resort(Calculated(info, n, TRUE), "try")
        \/ /\ ~KeptAsIs(n) /\ RereadsFail
           /\ info' = Unreachable(info, n) /\ phase' = "failed"
           /\ UNCHANGED <<allNodes, table, todo, trying, allFound>>
  /\ UNCHANGED <<pending, eventNodes, settings, status, op, adding, attempt>>

\* Mutant of Optimized: the Node is not marked, and is tried for ever.
OptimizedUnmarked ==
  /\ phase = "try" /\ todo = <<>>
  /\ \/ allFound /\ phase' = "optimize" /\ UNCHANGED <<info, allNodes, todo, table, trying, allFound>>
     \/ ~allFound /\ Resort(Calculated(info, trying, FALSE), "restore") /\ UNCHANGED trying
     \/ /\ ~allFound /\ RereadsFail
        /\ info' = Unreachable(info, trying) /\ phase' = "failed"
        /\ UNCHANGED <<allNodes, todo, table, trying, allFound>>
  /\ UNCHANGED <<pending, eventNodes, settings, status, op, adding, attempt>>

\* Mutant of Optimized: the values before the attempt are not restored.
OptimizedUnrestored ==
  /\ phase = "try" /\ todo = <<>>
  /\ \/ /\ allFound
        /\ info' = [info EXCEPT ![trying].optimized = TRUE]
        /\ phase' = "optimize"
        /\ UNCHANGED <<allNodes, todo, table, trying, allFound>>
     \/ ~allFound /\ Resort(info, "restore") /\ UNCHANGED trying
     \/ /\ ~allFound /\ RereadsFail
        /\ info' = Unreachable(info, trying) /\ phase' = "failed"
        /\ UNCHANGED <<allNodes, todo, table, trying, allFound>>
  /\ UNCHANGED <<pending, eventNodes, settings, status, op, adding, attempt>>

\* All Nodes have found slots with the new values, or the old ones are restored
\* and optimization ends.
Optimized ==
  /\ phase = "try" /\ todo = <<>>
  /\ \/ /\ allFound
        /\ info' = [info EXCEPT ![trying].optimized = TRUE]
        /\ phase' = "optimize"
        /\ UNCHANGED <<allNodes, todo, table, trying, allFound>>
     \/ ~allFound /\ Resort(Calculated(info, trying, FALSE), "restore") /\ UNCHANGED trying
     \/ /\ ~allFound /\ RereadsFail
        /\ info' = Unreachable(info, trying) /\ phase' = "failed"
        /\ UNCHANGED <<allNodes, todo, table, trying, allFound>>
  /\ UNCHANGED <<pending, eventNodes, settings, status, op, adding, attempt>>

OptimizationDone ==
  /\ \/ phase = "optimize" /\ ToOptimize = <<>>
     \/ phase = "restore" /\ todo = <<>>
  /\ networkOk' = AllOk
  /\ Return
  /\ UNCHANGED <<info, lists, settings, table, configApplied>>

\* Mutant of Throw: the status is not brought up to date.
ThrowSilently ==
  /\ phase = "failed"
  /\ \/ op = "add" /\ Without("reject", adding)
     \/ op # "add" /\ Return /\ UNCHANGED <<info, lists, configApplied>>
  /\ UNCHANGED <<settings, table, networkOk>>

\* The exception leaves refresh(); addNode takes the Node out again.
Throw ==
  /\ phase = "failed"
  /\ networkOk' = AllOk
  /\ \/ op = "add" /\ Without("reject", adding)
     \/ op # "add" /\ Return /\ UNCHANGED <<info, lists, configApplied>>
  /\ UNCHANGED <<settings, table>>

-----------------------------------------------------------------------------

\* The application changes how much a Node has to send (its channels).  It has
\* to refresh the network then, but may do so later.
Reconfigure(n, d) ==
  /\ Idle
  /\ demand' = [demand EXCEPT ![n] = d]
  /\ UNCHANGED <<info, lists, lossless, protocol, table, status, call>>

RefreshStep ==
  \/ CalculateNode \/ SlotsForOthers \/ RereadFails \/ FindSlot \/ SlotsForAll \/ SlotsFound
  \/ Optimize \/ Optimized \/ OptimizationDone \/ Throw

ScheduleNext ==
  \/ \E n \in Nodes : \/ \E p \in BOOLEAN : AddNode(n, p)
                      \/ AddRejected(n) \/ RemoveNode(n)
                      \/ \E d \in Demands[n] : Reconfigure(n, d)
  \/ Refresh \/ SetLossless \/ \E p \in DOMAIN Spacing : SetCommunicationProtocol(p)
  \/ RefreshStep

ScheduleSpec == ScheduleInit /\ [][ScheduleNext]_scheduleVars

\* A call goes on until it returns.
FairScheduleSpec == ScheduleSpec /\ WF_scheduleVars(RefreshStep)

-----------------------------------------------------------------------------
(* Properties *)

SlotsOf(n) == SlotsFrom(Search(n), info[n].tdma - 1)

Collide(m, n) == m # n /\ SlotsOf(m) \cap SlotsOf(n) # {}

\* Types.  The lists of Nodes agree with the map, whichever call threw.
ScheduleTypeOK ==
  /\ Members \subseteq Nodes /\ pending \subseteq Members
  /\ ToSet(allNodes) = Members /\ Len(allNodes) = Cardinality(Members)
  /\ ToSet(eventNodes) = Members \cap EventNodes /\ IsInjective(eventNodes)
  /\ \A n \in Members :
       /\ info[n].tx \in Nat /\ info[n].tdma \in 0 .. MaxSlots
       /\ info[n].status \in {"OK", "DoesNotFit", "PoorCommunication"}
  /\ slots \subseteq 0 .. MaxSlots - 1 /\ available \in 0 .. MaxSlots
  /\ ToSet(todo) \subseteq Members /\ adding \in Members \cup {0} /\ trying \in Members \cup {0}

\* Every Node has the slots it needs, and no other Node uses one of them.
Scheduled ==
  \A n \in Members : /\ info[n].status = "OK" /\ info[n].tdma > 0
                      /\ Cardinality(SlotsOf(n)) = info[n].tx * Spacing[protocol]
                      /\ \A m \in Members : ~Collide(m, n)

\* "true if the network is OK (all nodes fit in the network, no communication
\* issues, etc.)" (SyncSamplingNetwork.h, ok): between two calls the Nodes of
\* such a network all have slots, no two the same.
OkMeansNoCollision == Idle /\ networkOk => Scheduled

\* A network that was OK before it was optimized is OK afterwards: going back
\* after a failed attempt finds the slots again.
OptimizationIsUndone ==
  [][phase = "restore" /\ todo = <<>> => networkOk']_scheduleVars

\* The event driven Nodes get no more than the others have left, if at least
\* one transmission a second is left for each (SyncSamplingNetwork.cpp:664).
EventNodesShareTheRest ==
  [][phase = "others" /\ phase' = "all" /\ Len(eventNodes) <= LargeSlots
       => MapThenSumSet(LAMBDA n : info'[n].tx, ToSet(eventNodes)) <= LargeSlots]_scheduleVars

\* refresh, with its optimization, comes to an end.
RefreshEnds == op # "none" ~> op = "none"

\* "remove it from the lists if it was added" (SyncSamplingNetwork.cpp:80): an
\* addNode that is turned down at once leaves the network as it was.
ExistingNodeStays ==
  [][Idle /\ op' = "reject" => DOMAIN info' = Members]_scheduleVars
=============================================================================
