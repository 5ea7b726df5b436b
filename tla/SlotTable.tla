----------------------------- MODULE SlotTable -----------------------------
(***************************************************************************)
(* findSlotsForNodes: the table of slots of a network, filled one Node     *)
(* after the other in network order, highest bandwidth first.              *)
(***************************************************************************)
EXTENDS TdmaSlots, Sequences

CONSTANTS
  MaxNodes,    \* bound: Nodes in the network
  Rates,       \* bound: transmissions per second
  Spacings,    \* SyncSamplingFormulas::slotSpacing, for each protocol
  DelayChecks, \* bound: the delay checks that Nodes need: <<check, delay>>
  Legacies     \* bound: whether there are networks in legacy mode

ASSUME TableAssumption ==
  /\ MaxNodes \in Nat /\ Rates \subseteq Nat /\ Spacings \subseteq Nat \ {0}
  /\ DelayChecks \subseteq Nat \X Nat /\ Legacies \subseteq BOOLEAN
  /\ \A z \in Spacings : Reserved + z <= MaxSlots

\* MAX_SLOTS and the slot spacing are powers of two, and the formulas round
\* every rate to one (ceilBase2, floorBase2, halving): a period is a whole
\* number of any shorter one, and of the slots a transmission takes.
ASSUME HarmonicAssumption ==
  \A z \in Spacings :
    /\ z > 1 /\ Reserved % z = 0
    /\ \A r \in Rates \ {0} : MaxSlots \div r >= z =>
         /\ r * (MaxSlots \div r) = MaxSlots
         /\ (MaxSlots \div r) % z = 0
         /\ \A q \in Rates \ {0} : q <= r => (MaxSlots \div q) % (MaxSlots \div r) = 0

VARIABLES
  legacy,       \* inLegacyMode(), while the table is filled
  spacing,      \* the slot spacing of m_commProtocol, while the table is filled
  network,      \* the Nodes, in network order
  slots,        \* m_slots: the slots that are taken
  available,    \* m_availableSlotCount
  address,      \* m_tdmaAddress of the Nodes done so far, 0 for none (the code
                \* leaves the address of a Node that does not fit as it was)
  fits          \* m_status of the Nodes done so far is OK

vars == <<legacy, spacing, network, slots, available, address, fits>>

Node(tx, first, delay, inLegacy) ==
  [tx |-> tx, size |-> spacing, max |-> MaxTdmaAddress(tx, spacing, inLegacy),
   first |-> first, check |-> delay[1], delay |-> delay[2]]

\* Mutant of InOrder: the lowest bandwidth comes first.
OppositeOrder(nodes) == \A i, j \in DOMAIN nodes : i < j => nodes[i].tx <= nodes[j].tx

\* The order sortByBandwidth gives.
InOrder(nodes) == \A i, j \in DOMAIN nodes : i < j => nodes[i].tx >= nodes[j].tx

\* Only Nodes of version 1 may not have every slot, and a network with one is
\* in legacy mode.
Init ==
  /\ legacy \in Legacies /\ spacing \in Spacings
  /\ \E n \in 1 .. MaxNodes :
       \E tx \in [1 .. n -> Rates],
          first \in [1 .. n -> IF legacy THEN BOOLEAN ELSE {TRUE}],
          delay \in [1 .. n -> IF legacy THEN DelayChecks ELSE {<<0, 0>>}] :
         /\ network = [i \in 1 .. n |-> Node(tx[i], first[i], delay[i], legacy)]
         /\ InOrder(network)
  /\ slots = {} /\ available = MaxSlots
  /\ address = <<>> /\ fits = <<>>

Done == Len(address)
Current == network[Done + 1]

\* A Node that has nothing to transmit, or only logs, takes no slot.
TakesNoSlot ==
  /\ Done < Len(network) /\ Current.tx = 0
  /\ address' = Append(address, 0) /\ fits' = Append(fits, TRUE)
  /\ UNCHANGED <<legacy, spacing, network, slots, available>>

\* Mutant of GetsSlot: only the first transmission is counted.
GetsSlotCountedOnce ==
  /\ Done < Len(network) /\ Current.tx > 0
  /\ LET table == Reserving(slots, Current, legacy)
         s == FoundSlot(table, Current)
     IN /\ ~DoesNotFit(table, Current)
        /\ slots' = table \cup SlotsFrom(Current, s)
        /\ available' = available - Current.size
        /\ address' = Append(address, s + 1)
  /\ fits' = Append(fits, TRUE)
  /\ UNCHANGED <<legacy, spacing, network>>

\* The slots of the Node are marked and counted.
GetsSlot ==
  /\ Done < Len(network) /\ Current.tx > 0
  /\ LET table == Reserving(slots, Current, legacy)
         s == FoundSlot(table, Current)
     IN /\ ~DoesNotFit(table, Current)
        /\ slots' = table \cup SlotsFrom(Current, s)
        /\ available' = available - Room(Current, s) * Current.size
        /\ address' = Append(address, s + 1)
  /\ fits' = Append(fits, TRUE)
  /\ UNCHANGED <<legacy, spacing, network>>

\* There is no slot for the Node.
GetsNoSlot ==
  /\ Done < Len(network) /\ Current.tx > 0
  /\ LET table == Reserving(slots, Current, legacy)
     IN DoesNotFit(table, Current) /\ slots' = table
  /\ address' = Append(address, 0) /\ fits' = Append(fits, FALSE)
  /\ UNCHANGED <<legacy, spacing, network, available>>

Next == TakesNoSlot \/ GetsSlot \/ GetsNoSlot

Spec == Init /\ [][Next]_vars

-----------------------------------------------------------------------------
(* Properties *)

Placed == {i \in DOMAIN address : address[i] > 0}
SlotsOf(i) == SlotsFrom(network[i], address[i] - 1)

TypeOK ==
  /\ slots \subseteq 0 .. MaxSlots - 1
  /\ available \in Int
  /\ DOMAIN address = DOMAIN fits /\ Done <= Len(network)
  /\ \A i \in DOMAIN address : address[i] \in 0 .. MaxSlots /\ fits[i] \in BOOLEAN

\* "none of these slots should already be taken" (SyncSamplingNetwork.cpp:1023):
\* no two Nodes transmit in the same slot, nor does one in a reserved slot.
NoCollision ==
  /\ \A i, j \in Placed : i # j => SlotsOf(i) \cap SlotsOf(j) = {}
  /\ legacy => \A i \in Placed : SlotsOf(i) \cap ReservedSlots(spacing) = {}

\* Every transmission is inside the second, and no address is above the Node's
\* highest.
StaysInSecond ==
  \A i \in Placed : SlotsOf(i) \subseteq 0 .. MaxSlots - 1 /\ address[i] <= network[i].max

\* A Node transmits as often as it has to, inside the second.
EveryTransmissionHasSlots ==
  /\ StaysInSecond
  /\ \A i \in Placed : Cardinality(SlotsOf(i)) = network[i].tx * network[i].size

\* The slots the Nodes S need: one element for each.
Demand(S) == UNION {{i} \X (1 .. network[i].tx * spacing) : i \in S}
Load(S) == Cardinality(Demand(S))

\* Outside legacy mode a Node is turned away only if its bandwidth is not left:
\* the status "contention" (SyncSamplingNetwork.cpp:765) needs an old Node.
TurnedAwayOnlyIfFull ==
  ~legacy => \A i \in DOMAIN fits : ~fits[i] => Load((Placed \cap 1 .. i) \cup {i}) > MaxSlots

\* The count of free slots is right, except for those legacy mode reserves.
AvailableCounts ==
  available = MaxSlots - Cardinality(UNION {SlotsOf(i) : i \in Placed})
=============================================================================
