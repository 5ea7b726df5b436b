----------------------------- MODULE TdmaSlots -----------------------------
(***************************************************************************)
(* How a synchronized sampling network finds a TDMA slot for one Node.     *)
(* A second is divided in MaxSlots slots.  A Node that transmits tx times  *)
(* a second takes `size' slots at a time, tx times, equally far apart; its *)
(* TDMA address is its first slot plus one.  No state: SlotTable and       *)
(* SyncNetwork keep it.                                                    *)
(*                                                                         *)
(* What the search needs to know of a Node is a record:                    *)
(*   tx      m_txPerGroup (m_groupSize is 1), 0 if it need not transmit    *)
(*   size    m_slotSize                                                    *)
(*   max     m_maxTdmaAddress                                              *)
(*   first   whether it may have the first slot                            *)
(*   check   samplingDelayCheck, 0 if the delay is not to be checked       *)
(*   delay   its sampling delay                                            *)
(***************************************************************************)
EXTENDS Integers, FiniteSets

CONSTANTS
  MaxSlots,    \* MAX_SLOTS, 1024
  Reserved     \* the first of the slots kept free in legacy mode, 1016

ASSUME SlotAssumption == MaxSlots \in Nat \ {0} /\ Reserved \in Nat

Smaller(a, b) == IF a < b THEN a ELSE b
Larger(a, b) == IF a > b THEN a ELSE b

\* Mutant of MaxTdmaAddress: the whole second, whatever the Node's rate.
MaxTdmaAddressOfAll(tx, size, legacy) ==
  IF tx = 0 THEN 1 ELSE Larger(1, MaxSlots - (IF legacy THEN size ELSE 0))

\* The highest TDMA address a Node may get.
MaxTdmaAddress(tx, size, legacy) ==
  IF tx = 0 THEN 1
  ELSE Larger(1, (MaxSlots \div tx) - (IF legacy THEN size ELSE 0))

\* Slots from the start of a transmission to the start of the next.
Between(nd) == MaxSlots \div nd.tx

Block(at, size) == at .. at + size - 1

\* How many transmissions have room in the table from slot s on.
Room(nd, s) ==
  IF s + nd.size > MaxSlots THEN 0
  ELSE 1 + (MaxSlots - nd.size - s) \div Between(nd)

\* Every slot a Node with its first transmission in slot s would use.
SlotsFrom(nd, s) ==
  UNION {Block(s + k * Between(nd), nd.size) : k \in 0 .. Room(nd, s) - 1}

TxRequired(nd) == MaxSlots \div Between(nd)

\* Legacy mode keeps the last slots of the second free, whatever is in them.
ReservedSlots(size) == {s \in Block(Reserved, size) : Reserved < MaxSlots}

\* Slot s is one the loop moves on from at once.
Skipped(nd, s) ==
  \/ s = 0 /\ ~nd.first
  \/ nd.check > 0 /\ (s + 1) % nd.check <= nd.delay

\* Some of the slots behind the first slot of transmission k is taken.
TakenAt(slots, nd, s, k) ==
  \E j \in 1 .. nd.size - 1 : s + k * Between(nd) + j \in slots

\* The transmissions looked at from s when `found' were found so far, up to
\* the first that is taken.
Looked(nd, s, found) == 0 .. Smaller(Room(nd, s), Larger(0, TxRequired(nd) - found)) - 1

Blocked(slots, nd, s, found) == \E k \in Looked(nd, s, found) : TakenAt(slots, nd, s, k)

FreeUpTo(slots, nd, s, found) ==
  Cardinality({k \in Looked(nd, s, found) : \A i \in 0 .. k : ~TakenAt(slots, nd, s, i)})

\* The slots the loop visits, as multiples of the size.
Candidates(nd) == {i \in 0 .. MaxSlots - 1 : i * nd.size < Smaller(MaxSlots, nd.max)}

Tried(slots, nd, s) == s \notin slots /\ ~Skipped(nd, s)

\* numTxFound when the loop reaches its i-th slot.  It is not reset from one
\* slot to the next.
NumTxFound(slots, nd) ==
  LET Behind(s, found) ==
        IF Tried(slots, nd, s) THEN found + FreeUpTo(slots, nd, s, found) ELSE found
      count[i \in Nat] == IF i = 0 THEN 0 ELSE Behind((i - 1) * nd.size, count[i - 1])
  IN count

\* The loop accepts the slot i * size.
Accepts(slots, nd, i) ==
  LET s == i * nd.size
      found == NumTxFound(slots, nd)[i]
  IN /\ Tried(slots, nd, s)
     /\ ~Blocked(slots, nd, s, found)
     /\ found + FreeUpTo(slots, nd, s, found) >= TxRequired(nd)

\* The slot the loop ends with, or MaxSlots.
FoundSlot(slots, nd) ==
  LET accepted == {i \in Candidates(nd) : Accepts(slots, nd, i)}
  IN IF accepted = {} THEN MaxSlots
     ELSE nd.size * (CHOOSE i \in accepted : \A k \in accepted : i <= k)

\* The Node does not fit: its transmissions are closer than they are long, or
\* no slot was found.
DoesNotFit(slots, nd) ==
  nd.tx > 0 /\ (Between(nd) < nd.size \/ FoundSlot(slots, nd) = MaxSlots)

\* The slots the table has after getTdmaSlot reserved those of legacy mode.
Reserving(slots, nd, legacy) ==
  IF legacy /\ nd.tx > 0 /\ Between(nd) >= nd.size
  THEN slots \cup ReservedSlots(nd.size) ELSE slots
=============================================================================
