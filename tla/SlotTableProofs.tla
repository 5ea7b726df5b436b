-------------------------- MODULE SlotTableProofs --------------------------
(***************************************************************************)
(* For any number of slots, Nodes, rates and sampling delays: the table of *)
(* slots is written inside its bounds only, and no Node transmits outside  *)
(* the second or from an address above its highest.  If the periods of     *)
(* the rates divide each other, as those the formulas give do: no two      *)
(* Nodes collide, a Node gets all the slots it needs, the count of free    *)
(* slots is right, and outside legacy mode a Node is turned away for       *)
(* bandwidth only.                                                         *)
(***************************************************************************)
EXTENDS SlotTable, FiniteSetTheorems, WellFoundedInduction, TLAPS

Nodes == [tx : Nat, size : Spacings \cap {spacing}, max : Nat \ {0}, first : BOOLEAN, check : Nat, delay : Nat]

TypeInv ==
  /\ legacy \in BOOLEAN /\ spacing \in Spacings /\ network \in Seq(Nodes)
  /\ slots \subseteq 0 .. MaxSlots - 1 /\ available \in Int
  /\ address \in Seq(0 .. MaxSlots) /\ fits \in Seq(BOOLEAN)
  /\ Len(address) = Len(fits) /\ Len(address) <= Len(network)

-----------------------------------------------------------------------------
(* Arithmetic *)

LEMMA Smallest ==
  ASSUME NEW S \in SUBSET Nat, S # {}
  PROVE  \E m \in S : \A n \in S : m <= n
<1> DEFINE R == {ss \in Nat \X Nat : ss[1] < ss[2]}
<1>1. IsWellFoundedOn(R, Nat)
  BY NatLessThanWellFounded DEF OpToRel
<1>2. \A n, m \in Nat : (<<n, m>> \in R) <=> n < m
  OBVIOUS
<1> HIDE DEF R
<1>3. PICK m \in S : \A n \in S : ~(<<n, m>> \in R)
  BY <1>1, WFMin
<1>4. \A n \in S : m <= n
  <2> TAKE n \in S
  <2>1. n \in Nat /\ m \in Nat /\ ~(n < m)
    BY <1>2, <1>3
  <2> QED
    BY <2>1
<1> QED
  BY <1>4

\* k steps of b stay below n if k is at most n \div b.
LEMMA StepsBelow ==
  ASSUME NEW n \in Nat, NEW b \in Nat \ {0}, NEW k \in 0 .. n \div b
  PROVE  k * b \in Nat /\ k * b <= n
<1> DEFINE q == n \div b
<1>1. q \in Nat /\ q * b <= n
  OBVIOUS
<1> HIDE DEF q
<1>2. k \in Nat /\ k <= q
  BY <1>1 DEF q
<1>3. k * b <= q * b
  BY <1>1, <1>2
<1> QED
  BY <1>1, <1>2, <1>3

LEMMA Constants ==
  /\ MaxSlots \in Nat \ {0} /\ Reserved \in Nat
  /\ \A z \in Spacings : z \in Nat \ {0} /\ Reserved + z <= MaxSlots
  /\ MaxNodes \in Nat /\ Rates \subseteq Nat /\ DelayChecks \subseteq Nat \X Nat /\ Legacies \subseteq BOOLEAN
  BY SlotAssumption, TableAssumption DEF SlotAssumption, TableAssumption

-----------------------------------------------------------------------------
(* The slots of one Node *)

LEMMA BetweenIs ==
  ASSUME NEW nd \in Nodes, nd.tx > 0, ~(Between(nd) < nd.size)
  PROVE  Between(nd) \in Nat \ {0}
<1>1. nd.tx \in Nat \ {0} /\ nd.size \in Nat \ {0}
  BY Constants DEF Nodes
<1>2. Between(nd) \in Nat
  BY <1>1, Constants DEF Between
<1> QED
  BY <1>1, <1>2

LEMMA RoomIs ==
  ASSUME NEW nd \in Nodes, NEW s \in Nat, Between(nd) \in Nat \ {0}
  PROVE  /\ Room(nd, s) \in Nat
         /\ \A k \in 0 .. Room(nd, s) - 1 :
              k * Between(nd) \in Nat /\ s + k * Between(nd) + nd.size <= MaxSlots
<1>1. nd.size \in Nat \ {0} /\ MaxSlots \in Nat
  BY Constants DEF Nodes
<1>2. CASE s + nd.size > MaxSlots
  BY <1>2 DEF Room
<1>3. CASE ~(s + nd.size > MaxSlots)
  <2> DEFINE n == MaxSlots - nd.size - s
             b == Between(nd)
  <2>1. n \in Nat /\ b \in Nat \ {0} /\ Room(nd, s) = 1 + n \div b
    BY <1>1, <1>3 DEF Room
  <2>2. MaxSlots = n + nd.size + s
    BY <1>1
  <2> HIDE DEF n, b
  <2>3. n \div b \in Nat
    BY <2>1
  <2>4. ASSUME NEW k \in 0 .. Room(nd, s) - 1
        PROVE  k * b \in Nat /\ s + k * b + nd.size <= MaxSlots
    <3>1. k \in 0 .. n \div b
      BY <2>1, <2>3
    <3>2. k * b \in Nat /\ k * b <= n
      BY <2>1, <3>1, StepsBelow
    <3> QED
      BY <1>1, <2>1, <2>2, <3>2
  <2> QED
    BY <2>1, <2>3, <2>4 DEF b
<1> QED
  BY <1>2, <1>3

LEMMA SlotsInSecond ==
  ASSUME NEW nd \in Nodes, NEW s \in Nat, Between(nd) \in Nat \ {0}
  PROVE  SlotsFrom(nd, s) \subseteq 0 .. MaxSlots - 1
<1>1. nd.size \in Nat \ {0} /\ MaxSlots \in Nat
  BY Constants DEF Nodes
<1>2. ASSUME NEW k \in 0 .. Room(nd, s) - 1
      PROVE  Block(s + k * Between(nd), nd.size) \subseteq 0 .. MaxSlots - 1
  <2> DEFINE at == s + k * Between(nd)
  <2>1. at \in Nat /\ at + nd.size <= MaxSlots
    BY <1>2, RoomIs
  <2> HIDE DEF at
  <2>2. Block(at, nd.size) \subseteq 0 .. MaxSlots - 1
    BY <1>1, <2>1 DEF Block
  <2> QED
    BY <2>2 DEF at
<1> QED
  BY <1>2 DEF SlotsFrom

\* The slot that is found is in the second, and its address is one of the Node's.
LEMMA FoundIs ==
  ASSUME NEW table, NEW nd \in Nodes, FoundSlot(table, nd) # MaxSlots
  PROVE  /\ FoundSlot(table, nd) \in Nat /\ FoundSlot(table, nd) + 1 <= MaxSlots
         /\ FoundSlot(table, nd) + 1 <= nd.max
<1> DEFINE accepted == {i \in Candidates(nd) : Accepts(table, nd, i)}
           i == CHOOSE i \in accepted : \A k \in accepted : i <= k
<1>1. accepted # {} /\ FoundSlot(table, nd) = nd.size * i
  BY DEF FoundSlot
<1>2. accepted \in SUBSET Nat /\ accepted \subseteq Candidates(nd)
  BY Constants DEF Candidates
<1> HIDE DEF accepted
<1>3. i \in accepted
  BY <1>1, <1>2, Smallest
<1> HIDE DEF i
<1>4. i \in Nat /\ i * nd.size < Smaller(MaxSlots, nd.max)
  BY <1>2, <1>3 DEF Candidates
<1>5. nd.size \in Nat /\ nd.max \in Nat /\ MaxSlots \in Nat
  BY Constants DEF Nodes
<1> DEFINE s == nd.size * i
<1>6. s \in Nat /\ s = i * nd.size
  BY <1>4, <1>5
<1> HIDE DEF s
<1>7. s < MaxSlots /\ s < nd.max
  BY <1>4, <1>5, <1>6 DEF Smaller
<1> QED
  BY <1>1, <1>5, <1>6, <1>7 DEF s

-----------------------------------------------------------------------------
(* The table *)

LEMMA ReservingInSecond ==
  ASSUME TypeInv, NEW nd \in Nodes
  PROVE  Reserving(slots, nd, legacy) \subseteq 0 .. MaxSlots - 1
<1>1. ReservedSlots(spacing) \subseteq 0 .. MaxSlots - 1
  BY Constants DEF TypeInv, ReservedSlots, Block
<1>2. nd.size = spacing
  BY DEF Nodes
<1> QED
  BY <1>1, <1>2 DEF Reserving, TypeInv

Inv == TypeInv /\ StaysInSecond

LEMMA NodeIs ==
  ASSUME spacing \in Spacings,
         NEW tx \in Rates, NEW first \in BOOLEAN, NEW delay \in Nat \X Nat, NEW inLegacy \in BOOLEAN
  PROVE  Node(tx, first, delay, inLegacy) \in Nodes
<1>1. tx \in Nat /\ delay[1] \in Nat /\ delay[2] \in Nat
  BY Constants
<1>2. MaxTdmaAddress(tx, spacing, inLegacy) \in Nat \ {0}
  <2>1. CASE tx = 0
    BY <2>1 DEF MaxTdmaAddress
  <2>2. CASE tx # 0
    <3>1. MaxSlots \div tx \in Int
      BY <1>1, <2>2, Constants
    <3>2. (MaxSlots \div tx) - (IF inLegacy THEN spacing ELSE 0) \in Int
      BY <3>1, Constants
    <3> QED
      BY <2>2, <3>2 DEF MaxTdmaAddress, Larger
  <2> QED
    BY <2>1, <2>2
<1> QED
  BY <1>1, <1>2 DEF Node, Nodes

LEMMA InitInv == Init => Inv
<1> SUFFICES ASSUME Init PROVE Inv
  OBVIOUS
<1>1. legacy \in BOOLEAN /\ spacing \in Spacings
  BY Constants DEF Init
<1>2. PICK n \in 1 .. MaxNodes :
        \E tx \in [1 .. n -> Rates],
           first \in [1 .. n -> IF legacy THEN BOOLEAN ELSE {TRUE}],
           delay \in [1 .. n -> IF legacy THEN DelayChecks ELSE {<<0, 0>>}] :
          network = [i \in 1 .. n |-> Node(tx[i], first[i], delay[i], legacy)]
  BY DEF Init
<1>3. PICK tx \in [1 .. n -> Rates],
           first \in [1 .. n -> IF legacy THEN BOOLEAN ELSE {TRUE}],
           delay \in [1 .. n -> IF legacy THEN DelayChecks ELSE {<<0, 0>>}] :
          network = [i \in 1 .. n |-> Node(tx[i], first[i], delay[i], legacy)]
  BY <1>2
<1>4. ASSUME NEW i \in 1 .. n
      PROVE  Node(tx[i], first[i], delay[i], legacy) \in Nodes
  <2>1. tx[i] \in Rates /\ first[i] \in BOOLEAN
    BY <1>3
  <2>2. delay[i] \in Nat \X Nat
    BY <1>3, Constants
  <2> QED
    BY <1>1, <2>1, <2>2, NodeIs
<1>5. network \in Seq(Nodes) /\ Len(network) \in Nat
  <2>1. n \in Nat
    BY <1>2, Constants
  <2>2. network \in [1 .. n -> Nodes]
    BY <1>3, <1>4
  <2> QED
    BY <2>1, <2>2
<1>6. /\ slots = {} /\ available \in Int /\ address = <<>> /\ fits = <<>>
  BY Constants DEF Init
<1>7. address \in Seq(0 .. MaxSlots) /\ fits \in Seq(BOOLEAN) /\ Len(address) = 0 /\ Len(fits) = 0
  BY <1>6
<1>8. StaysInSecond
  BY <1>6 DEF StaysInSecond, Placed
<1> QED
  BY <1>1, <1>5, <1>6, <1>7, <1>8 DEF Inv, TypeInv

LEMMA NodesStay ==
  ASSUME UNCHANGED spacing
  PROVE  Nodes' = Nodes
BY DEF Nodes

\* The next Node of the network is done.
LEMMA Appending ==
  ASSUME Inv, Done < Len(network), NEW a \in 0 .. MaxSlots, NEW fit \in BOOLEAN,
         address' = Append(address, a), fits' = Append(fits, fit), UNCHANGED <<legacy, spacing, network>>,
         slots' \subseteq 0 .. MaxSlots - 1, available' \in Int,
         a > 0 => SlotsFrom(Current, a - 1) \subseteq 0 .. MaxSlots - 1 /\ a <= Current.max
  PROVE  Inv'
<1>1. address \in Seq(0 .. MaxSlots) /\ fits \in Seq(BOOLEAN) /\ Len(address) \in Nat
      /\ Len(fits) = Len(address) /\ Len(network) \in Nat /\ Len(address) < Len(network)
  BY DEF Inv, TypeInv, Done
<1>2. /\ address' \in Seq(0 .. MaxSlots) /\ fits' \in Seq(BOOLEAN)
      /\ Len(address') = Len(address) + 1 /\ Len(fits') = Len(address) + 1
      /\ \A i \in 1 .. Len(address) : address'[i] = address[i]
      /\ address'[Len(address) + 1] = a
  BY <1>1
<1>3. TypeInv'
  BY <1>1, <1>2, NodesStay DEF Inv, TypeInv
<1>4. ASSUME NEW i \in DOMAIN address', address'[i] > 0
      PROVE  /\ SlotsFrom(network[i], address'[i] - 1) \subseteq 0 .. MaxSlots - 1
             /\ address'[i] <= network[i].max
  <2>1. i \in 1 .. Len(address) + 1
    BY <1>2
  <2>2. CASE i \in 1 .. Len(address)
    <3>1. i \in DOMAIN address /\ address'[i] = address[i]
      BY <1>1, <1>2, <2>2
    <3> QED
      BY <1>4, <3>1 DEF Inv, StaysInSecond, Placed, SlotsOf
  <2>3. CASE i = Len(address) + 1
    BY <1>2, <1>4, <2>3 DEF Current, Done
  <2> QED
    BY <1>1, <2>1, <2>2, <2>3
<1>5. StaysInSecond'
  BY <1>4 DEF StaysInSecond, Placed, SlotsOf
<1> QED
  BY <1>3, <1>5 DEF Inv

LEMMA InvKept == Inv /\ [Next]_vars => Inv'
<1> SUFFICES ASSUME Inv, [Next]_vars
             PROVE  Inv'
  OBVIOUS
<1>1. ASSUME Done < Len(network) PROVE Current \in Nodes
  <2>1. network \in Seq(Nodes) /\ Done \in Nat
    BY DEF Inv, TypeInv, Done
  <2>2. Done + 1 \in 1 .. Len(network)
    BY <1>1, <2>1
  <2> QED
    BY <2>1, <2>2 DEF Current
<1>2. MaxSlots \in Nat
  BY Constants
<1>3. CASE TakesNoSlot
  <2>1. /\ Done < Len(network) /\ UNCHANGED <<legacy, spacing, network, slots, available>>
        /\ address' = Append(address, 0) /\ fits' = Append(fits, TRUE)
    BY <1>3 DEF TakesNoSlot
  <2>2. slots' \subseteq 0 .. MaxSlots - 1 /\ available' \in Int
    BY <2>1 DEF Inv, TypeInv
  <2>3. 0 \in 0 .. MaxSlots /\ ~(0 > 0)
    BY <1>2
  <2> QED
    BY <2>1, <2>2, <2>3, Appending
<1>4. CASE GetsSlot
  <2> DEFINE table == Reserving(slots, Current, legacy)
             s == FoundSlot(table, Current)
  <2>1. /\ Done < Len(network) /\ Current.tx > 0 /\ ~DoesNotFit(table, Current)
        /\ slots' = table \cup SlotsFrom(Current, s)
        /\ available' = available - Room(Current, s) * Current.size
        /\ address' = Append(address, s + 1) /\ fits' = Append(fits, TRUE)
        /\ UNCHANGED <<legacy, spacing, network>>
    BY <1>4 DEF GetsSlot
  <2>2. Current \in Nodes /\ s # MaxSlots /\ Between(Current) \in Nat \ {0}
    BY <1>1, <2>1, BetweenIs DEF DoesNotFit
  <2>3. s \in Nat /\ s + 1 <= MaxSlots /\ s + 1 <= Current.max
    BY <2>2, FoundIs
  <2>4. table \subseteq 0 .. MaxSlots - 1
    BY <2>2, ReservingInSecond DEF Inv
  <2> HIDE DEF s, table
  <2>5. SlotsFrom(Current, s) \subseteq 0 .. MaxSlots - 1 /\ Room(Current, s) \in Nat
    BY <2>2, <2>3, SlotsInSecond, RoomIs
  <2>6. available' \in Int
    <3>1. Current.size \in Nat /\ available \in Int
      BY <2>2, Constants DEF Nodes, Inv, TypeInv
    <3>2. Room(Current, s) * Current.size \in Int
      BY <2>5, <3>1
    <3> QED
      BY <2>1, <3>1, <3>2
  <2>7. slots' \subseteq 0 .. MaxSlots - 1
    BY <2>1, <2>4, <2>5
  <2>8. s + 1 \in 0 .. MaxSlots /\ (s + 1) - 1 = s
    BY <1>2, <2>3
  <2> QED
    BY <2>1, <2>3, <2>5, <2>6, <2>7, <2>8, Appending
<1>5. CASE GetsNoSlot
  <2>1. slots' \subseteq 0 .. MaxSlots - 1
    BY <1>1, <1>5, ReservingInSecond DEF GetsNoSlot, Inv
  <2>2. /\ Done < Len(network) /\ UNCHANGED <<legacy, spacing, network, available>>
        /\ address' = Append(address, 0) /\ fits' = Append(fits, FALSE)
    BY <1>5 DEF GetsNoSlot
  <2>3. available' \in Int
    BY <2>2 DEF Inv, TypeInv
  <2>4. 0 \in 0 .. MaxSlots /\ ~(0 > 0)
    BY <1>2
  <2> QED
    BY <2>1, <2>2, <2>3, <2>4, Appending
<1>6. CASE UNCHANGED vars
  BY <1>6, NodesStay DEF vars, Inv, TypeInv, StaysInSecond, Placed, SlotsOf
<1> QED
  BY <1>3, <1>4, <1>5, <1>6 DEF Next

\* The table is written from slot 0 to slot MAX_SLOTS - 1: m_slots.at throws
\* nothing where slots are taken (SyncSamplingNetwork.cpp:949 and 1026).
THEOREM TypeCorrect == Spec => []TypeOK
<1>1. TypeInv => TypeOK
  <2> SUFFICES ASSUME TypeInv PROVE TypeOK
    OBVIOUS
  <2>1. /\ address \in Seq(0 .. MaxSlots) /\ fits \in Seq(BOOLEAN)
        /\ DOMAIN address = 1 .. Len(address) /\ DOMAIN fits = 1 .. Len(address)
    BY DEF TypeInv
  <2>2. \A i \in DOMAIN address : address[i] \in 0 .. MaxSlots
    <3>1. ASSUME NEW S, NEW q \in Seq(S)
          PROVE  \A i \in DOMAIN q : q[i] \in S
      OBVIOUS
    <3> QED
      BY <2>1, <3>1
  <2>3. \A i \in DOMAIN address : fits[i] \in BOOLEAN
    BY <2>1
  <2> QED
    BY <2>1, <2>2, <2>3 DEF TypeInv, TypeOK, Done
<1> QED
  BY <1>1, InitInv, InvKept, PTL DEF Spec, Inv

\* Every Node that gets a slot has all its transmissions inside the second, and
\* its address is not above its highest.
THEOREM TransmissionsInSecond == Spec => []StaysInSecond
  BY InitInv, InvKept, PTL DEF Spec, Inv

-----------------------------------------------------------------------------
(* Periods and blocks of slots *)

LEMMA Grows ==
  ASSUME NEW a \in Int, NEW c \in Int, NEW b \in Nat, a <= c
  PROVE  a * b \in Int /\ c * b \in Int /\ a * b <= c * b
<1>1. (c - a) * b \in Nat
  OBVIOUS
<1>2. (c - a) * b = c * b - a * b
  OBVIOUS
<1> QED
  BY <1>1, <1>2

LEMMA DivMod ==
  ASSUME NEW n \in Nat, NEW b \in Nat \ {0}
  PROVE  n \div b \in Nat /\ n % b \in 0 .. b - 1 /\ n = (n \div b) * b + (n % b)
OBVIOUS

\* Quotient and remainder are the only ones.
LEMMA DivModUnique ==
  ASSUME NEW b \in Nat \ {0}, NEW q \in Int, NEW r \in 0 .. b - 1,
         NEW p \in Int, NEW t \in 0 .. b - 1, q * b + r = p * b + t
  PROVE  q = p /\ r = t
<1>1. ASSUME NEW x \in Int, NEW y \in Int, NEW u \in 0 .. b - 1, NEW v \in 0 .. b - 1,
             x * b + u = y * b + v
      PROVE  ~(x < y)
  <2> SUFFICES ASSUME x < y PROVE FALSE
    OBVIOUS
  <2>1. (x + 1) * b <= y * b
    BY Grows
  <2>2. (x + 1) * b = x * b + b
    OBVIOUS
  <2>3. x * b \in Int /\ y * b \in Int
    OBVIOUS
  <2> QED
    BY <1>1, <2>1, <2>2, <2>3
<1>2. ~(q < p) /\ ~(p < q)
  BY <1>1
<1>3. q = p
  BY <1>2
<1> QED
  BY <1>3

LEMMA ModIs ==
  ASSUME NEW b \in Nat \ {0}, NEW q \in Nat, NEW r \in 0 .. b - 1
  PROVE  q * b + r \in Nat /\ (q * b + r) % b = r /\ (q * b + r) \div b = q
<1> DEFINE n == q * b + r
<1>1. n \in Nat
  OBVIOUS
<1>2. n \div b \in Nat /\ n % b \in 0 .. b - 1 /\ n = (n \div b) * b + (n % b)
  BY <1>1, DivMod
<1>3. n = q * b + r
  OBVIOUS
<1> HIDE DEF n
<1>4. q = n \div b /\ r = n % b
  BY <1>2, <1>3, DivModUnique
<1> QED
  BY <1>1, <1>4 DEF n

\* A multiple of z, as a product.
LEMMA MultipleIs ==
  ASSUME NEW z \in Nat \ {0}, NEW x \in Nat, x % z = 0
  PROVE  x \div z \in Nat /\ x = (x \div z) * z
<1>1. x \div z \in Nat /\ x = (x \div z) * z + (x % z)
  BY DivMod
<1>2. (x \div z) * z \in Int
  BY <1>1
<1> QED
  BY <1>1, <1>2

\* Multiples of z are z apart.
LEMMA MultiplesApart ==
  ASSUME NEW z \in Nat \ {0}, NEW x \in Nat, NEW y \in Nat, x % z = 0, y % z = 0, x < y
  PROVE  x + z <= y
<1> DEFINE p == x \div z
           q == y \div z
<1>1. p \in Nat /\ x = p * z /\ q \in Nat /\ y = q * z
  BY MultipleIs
<1> HIDE DEF p, q
<1>2. p < q
  <2> SUFFICES ASSUME q <= p PROVE FALSE
    BY <1>1
  <2>1. q * z <= p * z
    BY <1>1, Grows
  <2> QED
    BY <1>1, <2>1
<1>3. (p + 1) * z <= q * z
  BY <1>1, <1>2, Grows
<1>4. (p + 1) * z = p * z + z
  BY <1>1
<1> QED
  BY <1>1, <1>3, <1>4

\* The remainder of a multiple of z is one, too.
LEMMA RemainderMultiple ==
  ASSUME NEW z \in Nat \ {0}, NEW b \in Nat \ {0}, b % z = 0, NEW x \in Nat, x % z = 0
  PROVE  (x % b) % z = 0
<1> DEFINE p == x \div z
           q == b \div z
           k == x \div b
           r == x % b
<1>1. /\ p \in Nat /\ x = p * z /\ q \in Nat /\ b = q * z
      /\ k \in Nat /\ r \in Nat /\ x = k * b + r
  BY MultipleIs, DivMod
<1>2. r = (p - k * q) * z
  <2>1. /\ p \in Nat /\ x = p * z /\ q \in Nat /\ b = q * z
        /\ k \in Nat /\ r \in Nat /\ x = k * b + r
    BY <1>1
  <2> HIDE DEF p, q, k, r
  <2>2. k * b = (k * q) * z
    BY <2>1
  <2>3. (p - k * q) * z = p * z - (k * q) * z
    BY <2>1
  <2>4. (k * q) * z \in Int /\ p * z \in Int
    BY <2>1
  <2> QED
    BY <2>1, <2>2, <2>3, <2>4
<1>3. p - k * q \in Nat
  <2> DEFINE m == p - k * q
  <2>0. /\ p \in Nat /\ k \in Nat /\ q \in Nat /\ r \in Nat /\ r = m * z
    BY <1>1, <1>2
  <2>1. m \in Int
    <3> HIDE DEF p, k, q
    <3> QED
      BY <2>0
  <2> HIDE DEF m, r, p, k, q
  <2>2. ASSUME m < 0 PROVE FALSE
    <3>1. m * z <= (-1) * z
      BY <2>1, <2>2, Grows
    <3> QED
      BY <2>0, <3>1
  <2>3. m \in Nat
    BY <2>1, <2>2
  <2> QED
    BY <2>3 DEF m
<1> DEFINE m == p - k * q
<1>4. m \in Nat /\ r = m * z
  BY <1>2, <1>3
<1> HIDE DEF m, p, q, k
<1>5. m * z + 0 = r /\ 0 \in 0 .. z - 1
  <2> HIDE DEF r
  <2> QED
    BY <1>4
<1>6. r % z = 0
  <2> HIDE DEF r
  <2>1. (m * z + 0) % z = 0
    BY <1>4, <1>5, ModIs
  <2> QED
    BY <1>5, <2>1
<1> QED
  BY <1>6

\* The remainders of a block of z slots that starts at a multiple of z.
LEMMA BlockMod ==
  ASSUME NEW z \in Nat \ {0}, NEW b \in Nat \ {0}, b % z = 0, NEW x \in Nat, x % z = 0,
         NEW d \in 0 .. z - 1
  PROVE  (x + d) % b = (x % b) + d /\ (x % b) + d \in 0 .. b - 1
<1> DEFINE k == x \div b
           r == x % b
<1>1. k \in Nat /\ r \in 0 .. b - 1 /\ x = k * b + r
  BY DivMod
<1>2. r % z = 0
  BY RemainderMultiple
<1> HIDE DEF k, r
<1>3. r + z <= b
  <2>1. r \in Nat /\ b \in Nat /\ r < b
    BY <1>1
  <2> QED
    BY <1>2, <2>1, MultiplesApart
<1>4. r + d \in 0 .. b - 1
  BY <1>1, <1>3
<1>5. (k * b + (r + d)) % b = r + d
  BY <1>1, <1>4, ModIs
<1>6. x + d = k * b + (r + d)
  <2>1. k * b \in Int
    BY <1>1
  <2> QED
    BY <1>1, <2>1
<1> QED
  BY <1>4, <1>5, <1>6 DEF r

\* A remainder survives that of a longer period.
LEMMA ModMod ==
  ASSUME NEW b \in Nat \ {0}, NEW c \in Nat \ {0}, c % b = 0, NEW t \in Nat
  PROVE  (t % c) % b = t % b
<1> DEFINE q == c \div b
           k == t \div c
           r == t % c
           p == r \div b
           u == r % b
<1>1. /\ q \in Nat /\ c = q * b /\ k \in Nat /\ r \in Nat /\ t = k * c + r
  BY MultipleIs, DivMod
<1>2. /\ p \in Nat /\ u \in 0 .. b - 1 /\ r = p * b + u
  BY <1>1, DivMod
<1> HIDE DEF q, k, r
<1>3. t = (k * q + p) * b + u /\ k * q + p \in Nat
  <2> HIDE DEF p, u
  <2>1. k * c = (k * q) * b
    BY <1>1
  <2>2. (k * q + p) * b = (k * q) * b + p * b
    BY <1>1, <1>2
  <2>3. (k * q) * b \in Int /\ p * b \in Int /\ k * q \in Nat
    BY <1>1, <1>2
  <2> QED
    BY <1>1, <1>2, <2>1, <2>2, <2>3
<1> DEFINE m == k * q + p
<1>4. t = m * b + u /\ m \in Nat
  BY <1>3
<1> HIDE DEF m
<1>5. t % b = u
  <2> HIDE DEF p, u
  <2> QED
    BY <1>2, <1>4, ModIs
<1> QED
  BY <1>5 DEF u, r

-----------------------------------------------------------------------------
(* The slots of one Node, as remainders *)

\* A Node whose transmissions are far enough apart.
Regular(nd) == nd \in Nodes /\ nd.tx \in Rates \ {0} /\ Between(nd) >= nd.size

\* A first slot the search may look at.
Start(nd, s) == s \in Nat /\ s % spacing = 0 /\ s < Between(nd)

LEMMA RegularIs ==
  ASSUME NEW nd, Regular(nd)
  PROVE  /\ nd.size = spacing /\ spacing \in Nat \ {0} /\ spacing > 1 /\ MaxSlots \in Nat \ {0}
         /\ nd.tx \in Nat \ {0} /\ Between(nd) \in Nat \ {0}
         /\ Between(nd) >= spacing /\ Between(nd) % spacing = 0
         /\ nd.tx * Between(nd) = MaxSlots /\ TxRequired(nd) = nd.tx
         /\ Between(nd) <= MaxSlots
<1> DEFINE b == Between(nd)
           tx == nd.tx
<1>1. /\ nd.size = spacing /\ spacing \in Nat \ {0} /\ spacing > 1 /\ MaxSlots \in Nat \ {0}
      /\ tx \in Nat \ {0}
  BY Constants, HarmonicAssumption DEF HarmonicAssumption, Regular, Nodes
<1>2. b = MaxSlots \div tx /\ b >= spacing /\ tx \in Rates \ {0}
  BY <1>1 DEF Regular, Between
<1>3. tx * b = MaxSlots /\ b % spacing = 0
  <2>1. spacing \in Spacings
    BY DEF Regular, Nodes
  <2> QED
    BY <1>2, <2>1, HarmonicAssumption DEF HarmonicAssumption
<1>4. b \in Nat \ {0}
  BY <1>1, <1>2
<1>t. TxRequired(nd) = MaxSlots \div b
  BY DEF TxRequired
<1> HIDE DEF b, tx
<1>5. MaxSlots \div b = tx
  <2>1. 0 \in 0 .. b - 1 /\ tx * b + 0 = MaxSlots
    BY <1>1, <1>3, <1>4
  <2>2. (tx * b + 0) \div b = tx
    BY <1>1, <1>4, <2>1, ModIs
  <2> QED
    BY <2>1, <2>2
<1>6. b <= MaxSlots
  <2>1. 1 * b <= tx * b
    BY <1>1, <1>4, Grows
  <2> QED
    BY <1>3, <1>4, <2>1
<1> QED
  BY <1>1, <1>2, <1>3, <1>4, <1>5, <1>6, <1>t DEF b, tx

\* From a first slot there is room for every transmission.
LEMMA RoomForAll ==
  ASSUME NEW nd, Regular(nd), NEW s, Start(nd, s)
  PROVE  Room(nd, s) = nd.tx /\ s + spacing <= Between(nd)
<1> DEFINE b == Between(nd)
           tx == nd.tx
           m == MaxSlots - nd.size - s
<1>1. /\ nd.size = spacing /\ spacing \in Nat \ {0} /\ MaxSlots \in Nat \ {0}
      /\ tx \in Nat \ {0} /\ b \in Nat \ {0} /\ b % spacing = 0 /\ tx * b = MaxSlots /\ b <= MaxSlots
  BY RegularIs
<1>2. s \in Nat /\ s % spacing = 0 /\ s < b
  BY DEF Start
<1>3. m = MaxSlots - spacing - s
  BY <1>1
<1>4. Room(nd, s) = IF s + spacing > MaxSlots THEN 0 ELSE 1 + (m \div b)
  BY <1>1 DEF Room
<1> HIDE DEF b, tx, m
<1>5. s + spacing <= b
  BY <1>1, <1>2, MultiplesApart
<1>6. m = (tx - 1) * b + (b - spacing - s) /\ b - spacing - s \in 0 .. b - 1 /\ tx - 1 \in Nat
  <2>1. (tx - 1) * b = tx * b - b
    BY <1>1
  <2> QED
    BY <1>1, <1>2, <1>3, <1>5, <2>1
<1>7. m \div b = tx - 1
  <2>1. ((tx - 1) * b + (b - spacing - s)) \div b = tx - 1
    BY <1>1, <1>6, ModIs
  <2> QED
    BY <1>6, <2>1
<1>8. ~(s + spacing > MaxSlots)
  BY <1>1, <1>2, <1>5
<1>9. Room(nd, s) = tx
  BY <1>1, <1>4, <1>7, <1>8
<1> QED
  BY <1>5, <1>9 DEF b, tx

\* Where slot d of transmission k is.
LEMMA PlaceIs ==
  ASSUME NEW nd, Regular(nd), NEW s, Start(nd, s), NEW k \in 0 .. nd.tx - 1, NEW d \in 0 .. spacing - 1
  PROVE  /\ s + k * Between(nd) + d \in 0 .. MaxSlots - 1
         /\ (s + k * Between(nd) + d) % Between(nd) = s + d
         /\ (s + k * Between(nd) + d) \div Between(nd) = k
<1> DEFINE b == Between(nd)
           tx == nd.tx
<1>1. /\ spacing \in Nat \ {0} /\ MaxSlots \in Nat \ {0} /\ tx \in Nat \ {0}
      /\ b \in Nat \ {0} /\ tx * b = MaxSlots /\ s \in Nat /\ s + spacing <= b
      /\ k \in 0 .. tx - 1
  BY RegularIs, RoomForAll DEF Start
<1> HIDE DEF b, tx
<1>2. k \in Nat /\ s + d \in 0 .. b - 1 /\ k * b \in Nat
  BY <1>1
<1>3. k * b + (s + d) = s + k * b + d
  BY <1>1, <1>2
<1>4. (k * b + (s + d)) % b = s + d /\ (k * b + (s + d)) \div b = k
  BY <1>1, <1>2, ModIs
<1>5. (k + 1) * b <= tx * b /\ (k + 1) * b = k * b + b
  <2>1. (k + 1) * b <= tx * b
    BY <1>1, Grows
  <2> QED
    BY <1>1, <2>1
<1>6. s + k * b + d \in 0 .. MaxSlots - 1
  BY <1>1, <1>2, <1>5
<1> QED
  BY <1>3, <1>4, <1>6 DEF b

\* A Node uses the slots whose remainder is in its first block.
LEMMA SlotsAre ==
  ASSUME NEW nd, Regular(nd), NEW s, Start(nd, s)
  PROVE  \A t : t \in SlotsFrom(nd, s) <=>
                 t \in 0 .. MaxSlots - 1 /\ t % Between(nd) \in s .. s + spacing - 1
<1> DEFINE b == Between(nd)
           tx == nd.tx
<1>1. /\ nd.size = spacing /\ spacing \in Nat \ {0} /\ MaxSlots \in Nat \ {0} /\ tx \in Nat \ {0}
      /\ b \in Nat \ {0} /\ tx * b = MaxSlots /\ s \in Nat /\ Room(nd, s) = tx
  BY RegularIs, RoomForAll DEF Start
<1>2. ASSUME NEW t, t \in SlotsFrom(nd, s)
      PROVE  t \in 0 .. MaxSlots - 1 /\ t % b \in s .. s + spacing - 1
  <2>1. PICK k \in 0 .. tx - 1 : t \in Block(s + k * b, spacing)
    BY <1>1, <1>2 DEF SlotsFrom
  <2> DEFINE d == t - (s + k * b)
  <2>2. d \in 0 .. spacing - 1 /\ t = s + k * b + d
    <3>1. k * b \in Int
      BY <1>1, <2>1
    <3> HIDE DEF b
    <3> QED
      BY <1>1, <2>1, <3>1 DEF Block
  <2> HIDE DEF d
  <2>3. t \in 0 .. MaxSlots - 1 /\ t % b = s + d
    BY <2>1, <2>2, PlaceIs
  <2> QED
    BY <1>1, <2>2, <2>3
<1>3. ASSUME NEW t \in 0 .. MaxSlots - 1, t % b \in s .. s + spacing - 1
      PROVE  t \in SlotsFrom(nd, s)
  <2> DEFINE k == t \div b
             d == (t % b) - s
  <2>1. k \in Nat /\ t = k * b + (t % b) /\ d \in 0 .. spacing - 1 /\ t % b = s + d
    <3>0. t \in Nat
      BY <1>1, <1>3
    <3>1. k \in Nat /\ t = k * b + (t % b)
      BY <1>1, <3>0, DivMod
    <3> HIDE DEF b, k
    <3> QED
      BY <1>1, <1>3, <3>1
  <2>2. k <= tx - 1
    <3>1. t \in Nat /\ t < tx * b
      BY <1>1
    <3>2. t % b \in Nat
      <4>1. t % b \in 0 .. b - 1
        BY <1>1, <3>1, DivMod
      <4> HIDE DEF b
      <4> QED
        BY <1>1, <4>1
    <3> HIDE DEF b, tx, k
    <3>3. SUFFICES ASSUME tx <= k PROVE FALSE
      BY <1>1, <2>1
    <3>4. tx * b <= k * b
      BY <1>1, <2>1, <3>3, Grows
    <3> QED
      BY <1>1, <2>1, <3>1, <3>2, <3>4
  <2>3. t = s + k * b + d /\ k * b \in Nat
    <3> HIDE DEF b, k, d
    <3> QED
      BY <1>1, <2>1
  <2>4. t \in Block(s + k * b, spacing)
    <3> HIDE DEF b, k, d
    <3> QED
      BY <1>1, <2>1, <2>3 DEF Block
  <2>5. k \in 0 .. Room(nd, s) - 1
    <3> HIDE DEF k
    <3> QED
      BY <1>1, <2>1, <2>2
  <2> QED
    BY <1>1, <2>4, <2>5 DEF SlotsFrom
<1> QED
  BY <1>2, <1>3

\* Multiples of z that share a block of z slots are the same.
LEMMA SameBlock ==
  ASSUME NEW z \in Nat \ {0}, NEW x \in Nat, NEW y \in Nat, x % z = 0, y % z = 0,
         NEW d \in 0 .. z - 1
  PROVE  x + d \in y .. y + z - 1 <=> x = y
<1>1. x < y => x + z <= y
  BY MultiplesApart
<1>2. y < x => y + z <= x
  BY MultiplesApart
<1> QED
  BY <1>1, <1>2

\* A slot of a block of a longer period is a Node's if the block's first one is:
\* what is taken so far repeats in the period of a slower Node.
LEMMA TakenRepeats ==
  ASSUME NEW nd, Regular(nd), NEW s, Start(nd, s), NEW slow, Regular(slow), slow.tx <= nd.tx,
         NEW x, Start(slow, x), NEW t \in 0 .. MaxSlots - 1, t % Between(slow) \in x .. x + spacing - 1
  PROVE  t \in SlotsFrom(nd, s) <=> x \in SlotsFrom(nd, s)
<1> DEFINE b == Between(nd)
           c == Between(slow)
           d == (t % c) - x
           r == x % b
<1>1. /\ spacing \in Nat \ {0} /\ MaxSlots \in Nat \ {0}
      /\ b \in Nat \ {0} /\ b % spacing = 0 /\ c \in Nat \ {0} /\ c <= MaxSlots
  BY RegularIs
<1>2. s \in Nat /\ s % spacing = 0 /\ x \in Nat /\ x % spacing = 0 /\ x < c
  BY DEF Start
<1>3. c % b = 0
  BY HarmonicAssumption DEF Regular, Between, Nodes
<1>4. t \in Nat /\ t % c \in Nat
  <2>1. t \in Nat
    BY <1>1
  <2>2. t % c \in 0 .. c - 1
    BY <1>1, <2>1, DivMod
  <2> HIDE DEF c
  <2> QED
    BY <1>1, <2>1, <2>2
<1>5. d \in 0 .. spacing - 1 /\ t % c = x + d
  <2>1. t % c \in x .. x + spacing - 1
    OBVIOUS
  <2> HIDE DEF c
  <2> QED
    BY <1>1, <1>2, <1>4, <2>1
<1>6. t % b = (x + d) % b
  <2>1. (t % c) % b = t % b
    BY <1>1, <1>3, <1>4, ModMod
  <2> HIDE DEF b, c, d
  <2> QED
    BY <1>5, <2>1
<1>7. t % b = r + d /\ r \in Nat /\ r % spacing = 0
  <2>1. (x + d) % b = r + d
    <3> HIDE DEF b, c, d
    <3>1. spacing \in Nat \ {0} /\ b \in Nat \ {0} /\ b % spacing = 0 /\ x \in Nat /\ x % spacing = 0
          /\ d \in 0 .. spacing - 1
      BY <1>1, <1>2, <1>5
    <3> QED
      BY <3>1, BlockMod, Zenon
  <2>2. r % spacing = 0
    BY <1>1, <1>2, RemainderMultiple
  <2>3. r \in 0 .. b - 1
    BY <1>1, <1>2, DivMod
  <2>4. r \in Nat
    <3> HIDE DEF b, r
    <3> QED
      BY <1>1, <2>3
  <2> QED
    BY <1>6, <2>1, <2>2, <2>4
<1>8. t \in SlotsFrom(nd, s) <=> t % b \in s .. s + spacing - 1
  BY SlotsAre
<1>9. x \in SlotsFrom(nd, s) <=> r \in s .. s + spacing - 1
  <2>1. x \in 0 .. MaxSlots - 1
    <3> HIDE DEF b, c
    <3> QED
      BY <1>1, <1>2
  <2> QED
    BY <2>1, SlotsAre
<1> HIDE DEF b, c, d, r
<1>10. r + d \in s .. s + spacing - 1 <=> r = s
  BY <1>1, <1>2, <1>5, <1>7, SameBlock
<1>11. r \in s .. s + spacing - 1 <=> r = s
  <2>1. 0 \in 0 .. spacing - 1
    BY <1>1
  <2>2. r + 0 \in s .. s + spacing - 1 <=> r = s
    BY <1>1, <1>2, <1>7, <2>1, SameBlock
  <2> QED
    BY <1>7, <2>2
<1> QED
  BY <1>7, <1>8, <1>9, <1>10, <1>11

\* A Node takes as many slots as it needs.
LEMMA SlotsCount ==
  ASSUME NEW nd, Regular(nd), NEW s, Start(nd, s)
  PROVE  /\ IsFiniteSet(SlotsFrom(nd, s))
         /\ Cardinality(SlotsFrom(nd, s)) = nd.tx * spacing
<1> DEFINE b == Between(nd)
           tx == nd.tx
           D == (0 .. tx - 1) \X (0 .. spacing - 1)
           T == SlotsFrom(nd, s)
           f == [p \in D |-> s + p[1] * b + p[2]]
<1>1. /\ nd.size = spacing /\ spacing \in Nat \ {0} /\ tx \in Nat \ {0} /\ MaxSlots \in Nat
      /\ b \in Nat \ {0} /\ s \in Nat /\ Room(nd, s) = tx
  BY RegularIs, RoomForAll DEF Start
<1>2. ASSUME NEW p \in D
      PROVE  /\ f[p] \in T /\ f[p] % b = s + p[2] /\ f[p] \div b = p[1]
             /\ p[1] \in 0 .. tx - 1 /\ p[2] \in 0 .. spacing - 1 /\ p = <<p[1], p[2]>>
  <2>1. p[1] \in 0 .. tx - 1 /\ p[2] \in 0 .. spacing - 1 /\ p = <<p[1], p[2]>>
    OBVIOUS
  <2>2. f[p] = s + p[1] * b + p[2]
    OBVIOUS
  <2>3. /\ f[p] \in 0 .. MaxSlots - 1 /\ f[p] % b = s + p[2] /\ f[p] \div b = p[1]
    <3>1. PICK k \in 0 .. tx - 1, e \in 0 .. spacing - 1 : k = p[1] /\ e = p[2]
      BY <2>1
    <3>2. /\ s + k * b + e \in 0 .. MaxSlots - 1 /\ (s + k * b + e) % b = s + e
          /\ (s + k * b + e) \div b = k
      BY PlaceIs
    <3> HIDE DEF b, tx, f
    <3> QED
      BY <2>2, <3>1, <3>2
  <2>4. s + p[2] \in s .. s + spacing - 1
    <3> HIDE DEF b, tx, f, D
    <3> QED
      BY <1>1, <2>1
  <2>5. f[p] \in T
    <3>1. f[p] \in 0 .. MaxSlots - 1 /\ f[p] % b \in s .. s + spacing - 1
      <4> HIDE DEF f, b, D
      <4> QED
        BY <2>3, <2>4
    <3> HIDE DEF f
    <3> QED
      BY <3>1, SlotsAre
  <2> HIDE DEF f, T, b, tx, D
  <2> QED
    BY <2>1, <2>3, <2>5
<1>3. f \in [D -> T]
  <2>1. \A p \in D : f[p] \in T
    BY <1>2
  <2> HIDE DEF T, D
  <2> QED
    BY <2>1
<1>4. ASSUME NEW p \in D, NEW q \in D, f[p] = f[q]
      PROVE  p = q
  <2>1. p[1] = q[1] /\ s + p[2] = s + q[2] /\ p[2] \in 0 .. spacing - 1 /\ q[2] \in 0 .. spacing - 1
    <3>1. /\ f[p] % b = s + p[2] /\ f[p] \div b = p[1] /\ f[q] % b = s + q[2] /\ f[q] \div b = q[1]
          /\ p[2] \in 0 .. spacing - 1 /\ q[2] \in 0 .. spacing - 1
      BY <1>2
    <3> HIDE DEF f, D, b
    <3> QED
      BY <1>4, <3>1
  <2>2. p[2] = q[2]
    <3> HIDE DEF f, D, b
    <3> QED
      BY <1>1, <2>1
  <2>3. p = <<p[1], p[2]>> /\ q = <<q[1], q[2]>>
    BY <1>2
  <2> HIDE DEF f, D, b
  <2> QED
    BY <2>1, <2>2, <2>3
<1>5. ASSUME NEW t \in T
      PROVE  \E p \in D : f[p] = t
  <2>1. PICK k \in 0 .. tx - 1 : t \in Block(s + k * b, spacing)
    BY <1>1, <1>5 DEF SlotsFrom
  <2>2. PICK e \in 0 .. spacing - 1 : t = s + k * b + e
    <3> DEFINE e == t - (s + k * b)
    <3>1. k * b \in Int
      BY <1>1, <2>1
    <3>2. e \in 0 .. spacing - 1 /\ t = s + k * b + e
      <4> HIDE DEF b
      <4> QED
        BY <1>1, <2>1, <3>1 DEF Block
    <3> QED
      BY <3>2
  <2>3. <<k, e>> \in D /\ f[<<k, e>>] = s + k * b + e
    OBVIOUS
  <2> QED
    BY <2>2, <2>3
<1>6. ExistsBijection(D, T)
  <2>1. DOMAIN f = D
    OBVIOUS
  <2> HIDE DEF f, D, T
  <2>2. f \in Bijection(D, T)
    BY <1>3, <1>4, <1>5, <2>1 DEF Bijection, Injection, Surjection, IsInjective
  <2> QED
    BY <2>2 DEF ExistsBijection
<1>7. IsFiniteSet(D) /\ Cardinality(D) = tx * spacing
  <2>1. /\ IsFiniteSet(0 .. tx - 1) /\ Cardinality(0 .. tx - 1) = tx
        /\ IsFiniteSet(0 .. spacing - 1) /\ Cardinality(0 .. spacing - 1) = spacing
    <3> HIDE DEF tx
    <3>1. ASSUME NEW n \in Nat \ {0}
          PROVE  IsFiniteSet(0 .. n - 1) /\ Cardinality(0 .. n - 1) = n
      <4>1. 0 \in Int /\ n - 1 \in Int /\ 0 <= n - 1 /\ (n - 1) - 0 + 1 = n
        OBVIOUS
      <4> QED
        BY <4>1, FS_Interval
    <3> QED
      BY <1>1, <3>1
  <2> HIDE DEF tx, b
  <2>2. IsFiniteSet(D) /\ Cardinality(D) = Cardinality(0 .. tx - 1) * Cardinality(0 .. spacing - 1)
    BY <2>1, FS_Product
  <2> QED
    BY <2>1, <2>2
<1> HIDE DEF D, T, tx
<1>8. IsFiniteSet(T) /\ Cardinality(T) = tx * spacing
  BY <1>6, <1>7, FS_Bijection
<1> QED
  BY <1>8 DEF T, tx

-----------------------------------------------------------------------------
(* The count of free transmissions, which the loop never resets *)

\* What holds of 0 and of the next number holds of every number.
LEMMA Every ==
  ASSUME NEW G, 0 \in G, \A n \in Nat : n \in G => n + 1 \in G
  PROVE  Nat \subseteq G
<1> DEFINE Bad == Nat \ G
<1>1. SUFFICES ASSUME Bad # {} PROVE FALSE
  OBVIOUS
<1>2. PICK m \in Bad : \A n \in Bad : m <= n
  BY <1>1, Smallest
<1>3. m \in Nat /\ m # 0 /\ m \notin G
  BY <1>2
<1>4. m - 1 \in Nat /\ m - 1 + 1 = m /\ ~(m <= m - 1)
  BY <1>3
<1>5. m - 1 \in G
  BY <1>2, <1>4
<1> QED
  BY <1>3, <1>4, <1>5

\* The beginning of a count: what every step adds is given by h.
Begins(g, h, n) ==
  /\ g \in [0 .. n -> Nat] /\ g[0] = 0
  /\ \A j \in Nat : j < n => g[j + 1] = h[<<j, g[j]>>]

LEMMA CountExists ==
  ASSUME NEW h \in [Nat \X Nat -> Nat]
  PROVE  \E f \in [Nat -> Nat] : f[0] = 0 /\ \A n \in Nat : f[n + 1] = h[<<n, f[n]>>]
<1>1. \A n \in Nat : \E g : Begins(g, h, n)
  <2> DEFINE G == {n \in Nat : \E g : Begins(g, h, n)}
  <2>1. 0 \in G
    <3>1. Begins([i \in 0 .. 0 |-> 0], h, 0)
      BY DEF Begins
    <3> QED
      BY <3>1
  <2>2. ASSUME NEW n \in Nat, n \in G
        PROVE  n + 1 \in G
    <3>1. PICK g : Begins(g, h, n)
      BY <2>2
    <3> DEFINE k == [i \in 0 .. n + 1 |-> IF i = n + 1 THEN h[<<n, g[n]>>] ELSE g[i]]
    <3>2. h[<<n, g[n]>>] \in Nat
      <4>1. g[n] \in Nat
        BY <3>1 DEF Begins
      <4> QED
        BY <4>1
    <3>3. k \in [0 .. n + 1 -> Nat] /\ k[0] = 0
      BY <3>1, <3>2 DEF Begins
    <3>4. ASSUME NEW j \in Nat, j < n + 1
          PROVE  k[j + 1] = h[<<j, k[j]>>]
      <4>1. CASE j = n
        <5>1. k[n + 1] = h[<<n, g[n]>>] /\ k[n] = g[n]
          OBVIOUS
        <5> QED
          BY <4>1, <5>1
      <4>2. CASE j # n
        <5>1. j < n /\ j \in 0 .. n + 1 /\ j + 1 \in 0 .. n + 1 /\ j # n + 1 /\ j + 1 # n + 1
          BY <3>4, <4>2
        <5>2. k[j + 1] = g[j + 1] /\ k[j] = g[j]
          BY <5>1
        <5>3. g[j + 1] = h[<<j, g[j]>>]
          BY <3>1, <5>1 DEF Begins
        <5> QED
          BY <5>2, <5>3
      <4> QED
        BY <4>1, <4>2
    <3> HIDE DEF k
    <3>5. Begins(k, h, n + 1)
      BY <3>3, <3>4 DEF Begins
    <3> QED
      BY <3>5
  <2> HIDE DEF G
  <2>3. Nat \subseteq G
    BY <2>1, <2>2, Every
  <2> QED
    BY <2>3 DEF G
<1>2. ASSUME NEW n \in Nat, NEW m \in Nat, NEW g, NEW k, Begins(g, h, n), Begins(k, h, m), n <= m
      PROVE  g[n] = k[n]
  <2> DEFINE G == {i \in Nat : i <= n => g[i] = k[i]}
  <2>1. 0 \in G
    BY <1>2 DEF Begins
  <2>2. ASSUME NEW i \in Nat, i \in G
        PROVE  i + 1 \in G
    <3>1. SUFFICES ASSUME i + 1 <= n PROVE g[i + 1] = k[i + 1]
      OBVIOUS
    <3>2. i < n /\ i < m /\ g[i] = k[i]
      BY <1>2, <2>2, <3>1
    <3>3. g[i + 1] = h[<<i, g[i]>>] /\ k[i + 1] = h[<<i, k[i]>>]
      BY <1>2, <3>2 DEF Begins
    <3> QED
      BY <3>2, <3>3
  <2> HIDE DEF G
  <2>3. Nat \subseteq G
    BY <2>1, <2>2, Every
  <2> QED
    BY <2>3 DEF G
<1> DEFINE g(n) == CHOOSE x : Begins(x, h, n)
           f == [n \in Nat |-> g(n)[n]]
<1>3. \A n \in Nat : Begins(g(n), h, n)
  BY <1>1
<1> HIDE DEF g
<1>4. ASSUME NEW n \in Nat
      PROVE  f[n] \in Nat /\ f[n + 1] = h[<<n, f[n]>>]
  <2>1. g(n)[n] \in Nat
    BY <1>3 DEF Begins
  <2>2. Begins(g(n), h, n) /\ Begins(g(n + 1), h, n + 1) /\ n <= n + 1 /\ n < n + 1 /\ n + 1 \in Nat
    BY <1>3
  <2>3. g(n)[n] = g(n + 1)[n]
    BY <1>2, <2>2
  <2>4. g(n + 1)[n + 1] = h[<<n, g(n + 1)[n]>>]
    BY <2>2 DEF Begins
  <2>5. f[n] = g(n)[n] /\ f[n + 1] = g(n + 1)[n + 1]
    BY <2>2
  <2> QED
    BY <2>1, <2>3, <2>4, <2>5
<1>5. f[0] = 0
  BY <1>3 DEF Begins
<1>6. f \in [Nat -> Nat]
  BY <1>4
<1> HIDE DEF f
<1> QED
  BY <1>4, <1>5, <1>6

LEMMA LookedIs ==
  ASSUME NEW table, NEW nd, Regular(nd), NEW s \in Nat, NEW found \in Nat
  PROVE  /\ Looked(nd, s, found) \subseteq Nat
         /\ IsFiniteSet(Looked(nd, s, found)) /\ FreeUpTo(table, nd, s, found) \in Nat
<1>1. Room(nd, s) \in Nat
  BY RegularIs, RoomIs DEF Regular
<1>2. TxRequired(nd) \in Nat
  BY RegularIs
<1> DEFINE top == Smaller(Room(nd, s), Larger(0, TxRequired(nd) - found))
<1>3. top \in Int
  BY <1>1, <1>2 DEF Smaller, Larger
<1>4. Looked(nd, s, found) = 0 .. top - 1
  BY DEF Looked
<1> HIDE DEF top
<1>5. Looked(nd, s, found) \subseteq Nat /\ IsFiniteSet(Looked(nd, s, found))
  BY <1>3, <1>4, FS_Interval
<1> DEFINE F == {k \in Looked(nd, s, found) : \A i \in 0 .. k : ~TakenAt(table, nd, s, i)}
<1>6. IsFiniteSet(F)
  BY <1>5, FS_Subset
<1>7. FreeUpTo(table, nd, s, found) = Cardinality(F)
  BY DEF FreeUpTo
<1> HIDE DEF F
<1>8. Cardinality(F) \in Nat
  BY <1>6, FS_CardinalityType
<1> QED
  BY <1>5, <1>7, <1>8

\* How the count goes on.
LEMMA NumTxFoundIs ==
  ASSUME NEW table, NEW nd, Regular(nd)
  PROVE  /\ NumTxFound(table, nd)[0] = 0
         /\ \A i \in Nat :
              /\ NumTxFound(table, nd)[i] \in Nat
              /\ ~Tried(table, nd, i * nd.size) =>
                    NumTxFound(table, nd)[i + 1] = NumTxFound(table, nd)[i]
              /\ Tried(table, nd, i * nd.size) =>
                    NumTxFound(table, nd)[i + 1] =
                      NumTxFound(table, nd)[i] + FreeUpTo(table, nd, i * nd.size, NumTxFound(table, nd)[i])
<1> DEFINE Behind(s, found) ==
             IF Tried(table, nd, s) THEN found + FreeUpTo(table, nd, s, found) ELSE found
           h == [p \in Nat \X Nat |-> Behind(p[1] * nd.size, p[2])]
           Eq(c) == c = [i \in Nat |-> IF i = 0 THEN 0 ELSE Behind((i - 1) * nd.size, c[i - 1])]
           count == CHOOSE c : Eq(c)
<1>1. ASSUME NEW i \in Nat, NEW found \in Nat
      PROVE  Behind(i * nd.size, found) \in Nat
  <2>1. i * nd.size \in Nat
    <3>1. nd.size \in Nat
      BY RegularIs
    <3> QED
      BY <3>1
  <2>2. FreeUpTo(table, nd, i * nd.size, found) \in Nat
    BY <2>1, LookedIs
  <2> QED
    BY <2>2
<1> HIDE DEF Behind
<1>2. h \in [Nat \X Nat -> Nat]
  BY <1>1
<1>3. PICK f \in [Nat -> Nat] : f[0] = 0 /\ \A n \in Nat : f[n + 1] = h[<<n, f[n]>>]
  <2> HIDE DEF h
  <2> QED
    BY <1>2, CountExists
<1>4. Eq(f)
  <2>1. ASSUME NEW i \in Nat, i # 0
        PROVE  f[i] = Behind((i - 1) * nd.size, f[i - 1])
    <3>1. i - 1 \in Nat /\ (i - 1) + 1 = i /\ f[i - 1] \in Nat
      BY <2>1
    <3>2. f[i] = h[<<i - 1, f[i - 1]>>]
      <4> HIDE DEF h
      <4>1. f[(i - 1) + 1] = h[<<i - 1, f[i - 1]>>]
        BY <1>3, <3>1
      <4> QED
        BY <3>1, <4>1
    <3>3. h[<<i - 1, f[i - 1]>>] = Behind((i - 1) * nd.size, f[i - 1])
      BY <3>1
    <3> QED
      BY <3>2, <3>3
  <2> QED
    BY <1>3, <2>1
<1>5. Eq(count)
  <2> HIDE DEF Eq
  <2> QED
    BY <1>4
<1>6. NumTxFound(table, nd) = count
  BY DEF NumTxFound, Behind
<1> HIDE DEF count
<1>7. count[0] = 0 /\ \A i \in Nat : count[i + 1] = Behind(i * nd.size, count[i])
  <2>1. \A i \in Nat : i + 1 \in Nat /\ i + 1 # 0 /\ (i + 1) - 1 = i
    OBVIOUS
  <2>2. \A i \in Nat : count[i] = IF i = 0 THEN 0 ELSE Behind((i - 1) * nd.size, count[i - 1])
    BY <1>5
  <2> QED
    BY <2>1, <2>2
<1>8. \A i \in Nat : count[i] \in Nat
  <2> DEFINE G == {i \in Nat : count[i] \in Nat}
  <2>1. 0 \in G
    BY <1>7
  <2>2. ASSUME NEW n \in Nat, n \in G
        PROVE  n + 1 \in G
    <3>1. count[n] \in Nat /\ count[n + 1] = Behind(n * nd.size, count[n])
      BY <1>7, <2>2
    <3>2. count[n + 1] \in Nat
      BY <1>1, <3>1
    <3> QED
      BY <3>2
  <2> HIDE DEF G
  <2>3. Nat \subseteq G
    BY <2>1, <2>2, Every
  <2> QED
    BY <2>3 DEF G
<1> QED
  BY <1>6, <1>7, <1>8 DEF Behind

-----------------------------------------------------------------------------
(* What the search finds *)

\* Apart from the reserved slots, what is taken repeats in the Node's period.
Repeats(table, nd, inLegacy) ==
  \A t \in table, x \in Nat :
    Start(nd, x) /\ t % Between(nd) \in x .. x + spacing - 1 =>
      \/ x \in table
      \/ inLegacy /\ t \in ReservedSlots(spacing) /\ ReservedSlots(spacing) \subseteq table

HasMax(nd, inLegacy) == nd.max = MaxTdmaAddress(nd.tx, nd.size, inLegacy)

\* The slots of the loop are first slots.
LEMMA StartIs ==
  ASSUME NEW nd, Regular(nd), NEW inLegacy, HasMax(nd, inLegacy),
         NEW i \in Nat, i * nd.size < Smaller(MaxSlots, nd.max)
  PROVE  Start(nd, i * nd.size)
<1> DEFINE b == Between(nd)
           s == i * spacing
<1>1. /\ nd.size = spacing /\ spacing \in Nat \ {0} /\ spacing > 1 /\ b \in Nat \ {0} /\ b >= spacing
      /\ MaxSlots \in Nat \ {0} /\ nd.tx \in Nat \ {0}
  BY RegularIs
<1>2. nd.max = Larger(1, b - (IF inLegacy THEN spacing ELSE 0))
  BY <1>1 DEF HasMax, MaxTdmaAddress, Between
<1> HIDE DEF b
<1>3. s \in Nat
  BY <1>1
<1>4. s % spacing = 0
  <2>1. 0 \in 0 .. spacing - 1 /\ i * spacing + 0 = s
    BY <1>1
  <2>2. (i * spacing + 0) % spacing = 0
    BY <1>1, <2>1, ModIs
  <2> QED
    BY <2>1, <2>2
<1> HIDE DEF s
<1>5. s < Smaller(MaxSlots, nd.max)
  BY <1>1 DEF s
<1>6. nd.max \in Int /\ nd.max <= b
  BY <1>1, <1>2 DEF Larger
<1>7. s < b
  BY <1>1, <1>3, <1>5, <1>6 DEF Smaller
<1> QED
  BY <1>1, <1>3, <1>4, <1>7 DEF Start, s, b

\* A reserved slot in a Node's period.
LEMMA ReservedHit ==
  ASSUME NEW nd, Regular(nd), NEW x, Start(nd, x), NEW t \in ReservedSlots(spacing),
         t % Between(nd) \in x .. x + spacing - 1
  PROVE  Reserved % Between(nd) = x
<1> DEFINE b == Between(nd)
           r == Reserved % b
           e == t - Reserved
<1>1. /\ spacing \in Nat \ {0} /\ b \in Nat \ {0} /\ b % spacing = 0
      /\ Reserved \in Nat /\ Reserved % spacing = 0 /\ x \in Nat /\ x % spacing = 0
  <2>1. spacing \in Spacings
    BY DEF Regular, Nodes
  <2> QED
    BY <2>1, RegularIs, Constants, HarmonicAssumption DEF HarmonicAssumption, Start
<1>2. e \in 0 .. spacing - 1 /\ t = Reserved + e
  BY <1>1 DEF ReservedSlots, Block
<1>3. r \in Nat /\ r % spacing = 0
  <2>1. r \in 0 .. b - 1 /\ r % spacing = 0
    BY <1>1, DivMod, RemainderMultiple
  <2> HIDE DEF r, b
  <2> QED
    BY <1>1, <2>1
<1> HIDE DEF e, b
<1>4. (Reserved + e) % b = r + e
  BY <1>1, <1>2, BlockMod, Zenon
<1>5. r + e \in x .. x + spacing - 1
  BY <1>2, <1>4 DEF b
<1> HIDE DEF r
<1>6. r = x
  BY <1>1, <1>2, <1>3, <1>5, SameBlock
<1> QED
  BY <1>6 DEF r, b

\* From a slot that is free, all are, or one transmission is in the reserved slots.
LEMMA FreeFrom ==
  ASSUME NEW table, table \subseteq 0 .. MaxSlots - 1, NEW nd, Regular(nd), NEW inLegacy,
         Repeats(table, nd, inLegacy), NEW s, Start(nd, s), s \notin table
  PROVE  \/ SlotsFrom(nd, s) \cap table = {}
         \/ /\ inLegacy /\ Reserved % Between(nd) = s
            /\ ReservedSlots(spacing) \subseteq table /\ Reserved < MaxSlots
<1>1. SUFFICES ASSUME NEW t \in SlotsFrom(nd, s), t \in table
               PROVE  /\ inLegacy /\ Reserved % Between(nd) = s
                      /\ ReservedSlots(spacing) \subseteq table /\ Reserved < MaxSlots
  OBVIOUS
<1>2. t % Between(nd) \in s .. s + spacing - 1
  BY SlotsAre
<1>3. inLegacy /\ t \in ReservedSlots(spacing) /\ ReservedSlots(spacing) \subseteq table
  BY <1>1, <1>2 DEF Repeats, Start
<1>4. Reserved < MaxSlots
  BY <1>3 DEF ReservedSlots
<1> QED
  BY <1>2, <1>3, <1>4, ReservedHit

\* Where everything is free the loop finds as many transmissions as it needs.
LEMMA FreeWhole ==
  ASSUME NEW table, NEW nd, Regular(nd), NEW s, Start(nd, s), SlotsFrom(nd, s) \cap table = {},
         NEW found \in Nat
  PROVE  /\ ~Blocked(table, nd, s, found)
         /\ found + FreeUpTo(table, nd, s, found) >= TxRequired(nd)
<1> DEFINE tx == nd.tx
           top == Smaller(tx, Larger(0, tx - found))
<1>1. /\ nd.size = spacing /\ spacing \in Nat \ {0} /\ tx \in Nat \ {0} /\ TxRequired(nd) = tx
      /\ Room(nd, s) = tx /\ Between(nd) \in Nat \ {0} /\ s \in Nat
  BY RegularIs, RoomForAll DEF Start
<1>2. Looked(nd, s, found) = 0 .. top - 1
  BY <1>1 DEF Looked
<1>3. top \in Nat /\ top <= tx /\ found + top >= tx
  <2> HIDE DEF tx
  <2> QED
    BY <1>1 DEF Smaller, Larger
<1>4. ASSUME NEW k \in 0 .. tx - 1
      PROVE  ~TakenAt(table, nd, s, k)
  <2> SUFFICES ASSUME NEW j \in 1 .. spacing - 1, s + k * Between(nd) + j \in table
               PROVE  FALSE
    BY <1>1 DEF TakenAt
  <2>1. k * Between(nd) \in Nat
    BY <1>1
  <2>2. s + k * Between(nd) + j \in Block(s + k * Between(nd), spacing)
    BY <1>1, <2>1 DEF Block
  <2>3. s + k * Between(nd) + j \in SlotsFrom(nd, s)
    BY <1>1, <2>2 DEF SlotsFrom
  <2> QED
    BY <2>3
<1> HIDE DEF tx, top
<1>5. \A k \in Looked(nd, s, found) : k \in 0 .. tx - 1 /\ 0 .. k \subseteq 0 .. tx - 1
  BY <1>1, <1>2, <1>3
<1>6. ~Blocked(table, nd, s, found)
  BY <1>4, <1>5 DEF Blocked
<1>7. {k \in Looked(nd, s, found) : \A i \in 0 .. k : ~TakenAt(table, nd, s, i)} = Looked(nd, s, found)
  BY <1>4, <1>5
<1>8. FreeUpTo(table, nd, s, found) = Cardinality(0 .. top - 1)
  BY <1>2, <1>7 DEF FreeUpTo
<1>9. Cardinality(0 .. top - 1) = top
  <2>1. 0 \in Int /\ top - 1 \in Int /\ (0 <= top - 1 => (top - 1) - 0 + 1 = top) /\ (~(0 <= top - 1) => top = 0)
    BY <1>3
  <2>2. Cardinality(0 .. top - 1) = IF 0 <= top - 1 THEN (top - 1) - 0 + 1 ELSE 0
    BY <2>1, FS_Interval
  <2> QED
    BY <2>1, <2>2
<1> QED
  BY <1>1, <1>3, <1>6, <1>8, <1>9

\* The smallest of the slots the loop would accept.
LEMMA FoundFirst ==
  ASSUME NEW table, NEW nd, Regular(nd), FoundSlot(table, nd) # MaxSlots
  PROVE  \E i \in Candidates(nd) :
           /\ Accepts(table, nd, i) /\ FoundSlot(table, nd) = i * nd.size
           /\ \A k \in Candidates(nd) : Accepts(table, nd, k) => i <= k
<1> DEFINE accepted == {i \in Candidates(nd) : Accepts(table, nd, i)}
           m == CHOOSE i \in accepted : \A k \in accepted : i <= k
<1>1. accepted # {} /\ FoundSlot(table, nd) = nd.size * m
  BY DEF FoundSlot
<1>2. accepted \in SUBSET Nat
  BY Constants DEF Candidates
<1>3. m \in accepted /\ \A k \in accepted : m <= k
  <2> HIDE DEF accepted
  <2> QED
    BY <1>1, <1>2, Smallest
<1> HIDE DEF m
<1>4. nd.size * m = m * nd.size
  <2>1. nd.size \in Nat /\ m \in Nat
    BY <1>2, <1>3, RegularIs
  <2> QED
    BY <2>1
<1> QED
  BY <1>1, <1>3, <1>4

\* Until the loop ends it finds no transmission that it cannot use, unless in the
\* reserved slots: the count that is never reset is 0 where it decides.
LEMMA FoundFree ==
  ASSUME NEW table, table \subseteq 0 .. MaxSlots - 1, NEW nd, Regular(nd), NEW inLegacy,
         Repeats(table, nd, inLegacy), HasMax(nd, inLegacy), FoundSlot(table, nd) # MaxSlots
  PROVE  /\ Start(nd, FoundSlot(table, nd))
         /\ SlotsFrom(nd, FoundSlot(table, nd)) \cap table = {}
<1> DEFINE b == Between(nd)
           c == NumTxFound(table, nd)
           tx == nd.tx
<1>1. /\ nd.size = spacing /\ spacing \in Nat \ {0} /\ spacing > 1 /\ MaxSlots \in Nat \ {0}
      /\ tx \in Nat \ {0} /\ TxRequired(nd) = tx /\ b \in Nat \ {0} /\ tx * b = MaxSlots
  BY RegularIs
<1>2. PICK i \in Candidates(nd) :
        /\ Accepts(table, nd, i) /\ FoundSlot(table, nd) = i * nd.size
        /\ \A k \in Candidates(nd) : Accepts(table, nd, k) => i <= k
  BY FoundFirst
<1> DEFINE s == i * spacing
<1>3. i \in Nat /\ i < MaxSlots /\ i * nd.size < Smaller(MaxSlots, nd.max)
  BY <1>1, <1>2 DEF Candidates
<1>4. Start(nd, s)
  BY <1>1, <1>3, StartIs
<1>5. s \notin table /\ ~Blocked(table, nd, s, c[i])
  BY <1>1, <1>2 DEF Accepts, Tried
<1>6. SUFFICES ASSUME SlotsFrom(nd, s) \cap table # {}
               PROVE  FALSE
  BY <1>1, <1>2, <1>4
<1>7. Reserved % b = s /\ ReservedSlots(spacing) \subseteq table /\ Reserved < MaxSlots
  BY <1>4, <1>5, <1>6, FreeFrom
<1>8. \A n \in Nat : n <= i => c[n] = 0
  <2> DEFINE G == {n \in Nat : n <= i => c[n] = 0}
  <2>1. 0 \in G
    BY NumTxFoundIs
  <2>2. ASSUME NEW n \in Nat, n \in G
        PROVE  n + 1 \in G
    <3>1. SUFFICES ASSUME n + 1 <= i PROVE c[n + 1] = 0
      OBVIOUS
    <3>2. n < i /\ c[n] = 0
      BY <1>3, <2>2, <3>1
    <3>3. CASE ~Tried(table, nd, n * nd.size)
      BY <3>2, <3>3, NumTxFoundIs
    <3>4. CASE Tried(table, nd, n * nd.size)
      <4>1. n * spacing < s /\ n * spacing \in Nat /\ s \in Nat
        <5>1. (n + 1) * spacing <= i * spacing
          BY <1>1, <1>3, <3>1, Grows
        <5>2. (n + 1) * spacing = n * spacing + spacing /\ n * spacing \in Nat /\ i * spacing \in Nat
          BY <1>1, <1>3
        <5> QED
          BY <1>1, <5>1, <5>2
      <4>2. n * nd.size < Smaller(MaxSlots, nd.max) /\ n < MaxSlots
        <5>1. Smaller(MaxSlots, nd.max) \in Int
          BY <1>1 DEF Smaller, Regular, Nodes
        <5> HIDE DEF s
        <5>2. s < Smaller(MaxSlots, nd.max)
          BY <1>1, <1>3 DEF s
        <5> QED
          BY <1>1, <1>3, <3>2, <4>1, <5>1, <5>2
      <4>3. n \in Candidates(nd)
        BY <1>1, <4>2 DEF Candidates
      <4>4. Start(nd, n * nd.size)
        BY <4>2, StartIs
      <4>5. n * nd.size \notin table
        BY <3>4 DEF Tried
      <4>6. Reserved % b # n * nd.size
        BY <1>1, <1>7, <4>1
      <4>7. SlotsFrom(nd, n * nd.size) \cap table = {}
        BY <4>4, <4>5, <4>6, FreeFrom
      <4>8. c[n] \in Nat
        BY NumTxFoundIs
      <4>9. Accepts(table, nd, n)
        BY <3>4, <4>4, <4>7, <4>8, FreeWhole DEF Accepts
      <4> QED
        BY <1>2, <1>3, <3>2, <4>3, <4>9
    <3> QED
      BY <3>3, <3>4
  <2> HIDE DEF G
  <2>3. Nat \subseteq G
    BY <2>1, <2>2, Every
  <2> QED
    BY <2>3 DEF G
<1>9. c[i] = 0
  BY <1>3, <1>8
<1> DEFINE k == Reserved \div b
<1>10. Reserved \in Nat /\ Reserved + spacing <= MaxSlots
  BY Constants DEF Regular, Nodes
<1>11. k \in Nat /\ Reserved = k * b + s /\ s \in Nat
  <2>1. k \in Nat /\ Reserved = k * b + (Reserved % b)
    BY <1>1, <1>10, DivMod
  <2> QED
    BY <1>4, <1>7, <2>1 DEF Start
<1>12. k \in 0 .. tx - 1
  <2> HIDE DEF b, tx, k, s
  <2>1. SUFFICES ASSUME tx <= k PROVE FALSE
    BY <1>1, <1>11
  <2>2. tx * b <= k * b /\ k * b \in Int
    BY <1>1, <1>11, <2>1, Grows
  <2> QED
    BY <1>1, <1>7, <1>10, <1>11, <2>2
<1>13. TakenAt(table, nd, s, k)
  <2>1. s + k * b + 1 = Reserved + 1
    <3> HIDE DEF b, k, s
    <3>1. k * b \in Int
      BY <1>1, <1>11
    <3> QED
      BY <1>10, <1>11, <3>1
  <2>2. Reserved + 1 \in ReservedSlots(spacing)
    BY <1>1, <1>7, <1>10 DEF ReservedSlots, Block
  <2>3. s + k * b + 1 \in table
    BY <1>7, <2>1, <2>2
  <2>4. 1 \in 1 .. nd.size - 1
    BY <1>1
  <2> QED
    BY <2>3, <2>4 DEF TakenAt
<1>14. k \in Looked(nd, s, 0)
  <2>1. Room(nd, s) = tx
    BY <1>4, RoomForAll
  <2>2. Smaller(tx, Larger(0, tx - 0)) = tx
    BY <1>1 DEF Smaller, Larger
  <2>3. Looked(nd, s, 0) = 0 .. tx - 1
    BY <1>1, <2>1, <2>2 DEF Looked
  <2> QED
    BY <1>12, <2>3
<1> QED
  BY <1>5, <1>9, <1>13, <1>14 DEF Blocked

\* Outside legacy mode the search fails only if every block of the Node's
\* period is taken.
LEMMA NothingFree ==
  ASSUME NEW table, table \subseteq 0 .. MaxSlots - 1, NEW nd, Regular(nd), Repeats(table, nd, FALSE),
         HasMax(nd, FALSE), nd.first, nd.check = 0, FoundSlot(table, nd) = MaxSlots, NEW x, Start(nd, x)
  PROVE  x \in table
<1> DEFINE accepted == {i \in Candidates(nd) : Accepts(table, nd, i)}
           m == CHOOSE i \in accepted : \A k \in accepted : i <= k
           b == Between(nd)
           n == x \div spacing
<1>1. /\ nd.size = spacing /\ spacing \in Nat \ {0} /\ spacing > 1 /\ MaxSlots \in Nat \ {0}
      /\ b \in Nat \ {0} /\ b >= spacing /\ b <= MaxSlots /\ nd.tx \in Nat \ {0}
  BY RegularIs
<1>2. accepted = {}
  <2>1. SUFFICES ASSUME accepted # {} PROVE FALSE
    OBVIOUS
  <2>2. FoundSlot(table, nd) = nd.size * m
    BY <2>1 DEF FoundSlot
  <2>3. accepted \in SUBSET Nat
    BY Constants DEF Candidates
  <2>4. m \in accepted
    <3> HIDE DEF accepted
    <3> QED
      BY <2>1, <2>3, Smallest
  <2> HIDE DEF m
  <2>5. m \in Nat /\ m * nd.size < Smaller(MaxSlots, nd.max) /\ nd.max \in Nat
    BY <2>4, <1>1 DEF Candidates, Regular, Nodes
  <2>6. m * nd.size < MaxSlots
    <3>1. m * nd.size \in Int
      BY <1>1, <2>5
    <3> DEFINE y == m * nd.size
    <3> HIDE DEF y
    <3>2. y \in Int /\ y < Smaller(MaxSlots, nd.max)
      BY <2>5, <3>1 DEF y
    <3>3. y < MaxSlots
      BY <1>1, <2>5, <3>2 DEF Smaller
    <3> QED
      BY <3>3 DEF y
  <2>7. nd.size * m = m * nd.size
    BY <1>1, <2>5
  <2> QED
    BY <1>1, <2>2, <2>6, <2>7
<1>3. x \in Nat /\ x < b /\ n \in Nat /\ x = n * spacing /\ n * spacing = n * nd.size
  BY <1>1, MultipleIs DEF Start
<1>4. nd.max = b
  <2>1. nd.max = Larger(1, b - 0)
    BY <1>1 DEF HasMax, MaxTdmaAddress, Between
  <2> HIDE DEF b
  <2> QED
    BY <1>1, <2>1 DEF Larger
<1>5. n \in Candidates(nd)
  <2> HIDE DEF b, n
  <2>1. n <= x
    <3>1. n * 1 <= n * spacing
      BY <1>1, <1>3
    <3> QED
      BY <1>3, <3>1
  <2>2. n \in 0 .. MaxSlots - 1
    BY <1>1, <1>3, <2>1
  <2>3. n * nd.size < Smaller(MaxSlots, nd.max)
    BY <1>1, <1>3, <1>4 DEF Smaller
  <2> QED
    BY <2>2, <2>3 DEF Candidates
<1>6. SUFFICES ASSUME x \notin table PROVE FALSE
  OBVIOUS
<1>7. Tried(table, nd, n * nd.size)
  BY <1>3, <1>6 DEF Tried, Skipped
<1>8. SlotsFrom(nd, n * nd.size) \cap table = {}
  BY <1>3, <1>6, FreeFrom
<1>9. NumTxFound(table, nd)[n] \in Nat
  BY <1>3, NumTxFoundIs
<1>10. Start(nd, n * nd.size)
  BY <1>3
<1>11. Accepts(table, nd, n)
  <2> HIDE DEF n
  <2> QED
    BY <1>7, <1>8, <1>9, <1>10, FreeWhole DEF Accepts
<1> QED
  BY <1>2, <1>5, <1>11

-----------------------------------------------------------------------------
(* The table of the network *)

NetworkInv ==
  /\ \A i \in DOMAIN network :
       /\ network[i] \in Nodes /\ network[i].tx \in Rates /\ HasMax(network[i], legacy)
       /\ ~legacy => network[i].first /\ network[i].check = 0
  /\ InOrder(network)

\* A Node that is placed starts with a block of its own period.
PlacedInv == \A i \in Placed : Regular(network[i]) /\ Start(network[i], address[i] - 1)

\* What is taken is a Node's, or reserved.
TakenInv ==
  /\ \A i \in Placed : SlotsOf(i) \subseteq slots
  /\ \A t \in slots :
       \/ \E i \in Placed : t \in SlotsOf(i)
       \/ legacy /\ t \in ReservedSlots(spacing) /\ ReservedSlots(spacing) \subseteq slots

SearchInv == Inv /\ NetworkInv /\ PlacedInv /\ TakenInv /\ NoCollision

\* Before the first Node the table is empty.
LEMMA SearchStarts ==
  ASSUME legacy \in BOOLEAN, spacing \in Spacings, network \in Seq(Nodes), NetworkInv,
         slots = {}, available = MaxSlots, address = <<>>, fits = <<>>
  PROVE  SearchInv
<1>1. /\ address \in Seq(0 .. MaxSlots) /\ fits \in Seq(BOOLEAN) /\ Len(address) = 0 /\ Len(fits) = 0
      /\ Len(network) \in Nat /\ available \in Int
  BY Constants
<1>2. Placed = {}
  BY DEF Placed
<1> QED
  BY <1>1, <1>2 DEF SearchInv, Inv, TypeInv, StaysInSecond, PlacedInv, TakenInv, NoCollision

LEMMA SearchInit == Init => SearchInv
<1> SUFFICES ASSUME Init PROVE SearchInv
  OBVIOUS
<1>1. PICK n \in 1 .. MaxNodes :
        \E tx \in [1 .. n -> Rates],
           first \in [1 .. n -> IF legacy THEN BOOLEAN ELSE {TRUE}],
           delay \in [1 .. n -> IF legacy THEN DelayChecks ELSE {<<0, 0>>}] :
          /\ network = [i \in 1 .. n |-> Node(tx[i], first[i], delay[i], legacy)]
          /\ InOrder(network)
  BY DEF Init
<1>2. PICK tx \in [1 .. n -> Rates],
           first \in [1 .. n -> IF legacy THEN BOOLEAN ELSE {TRUE}],
           delay \in [1 .. n -> IF legacy THEN DelayChecks ELSE {<<0, 0>>}] :
          /\ network = [i \in 1 .. n |-> Node(tx[i], first[i], delay[i], legacy)]
          /\ InOrder(network)
  BY <1>1
<1>3. legacy \in BOOLEAN /\ spacing \in Spacings /\ slots = {} /\ address = <<>>
  BY Constants DEF Init
<1>4. ASSUME NEW i \in 1 .. n
      PROVE  /\ network[i] \in Nodes /\ network[i].tx \in Rates /\ HasMax(network[i], legacy)
             /\ ~legacy => network[i].first /\ network[i].check = 0
  <2>1. network[i] = Node(tx[i], first[i], delay[i], legacy)
    BY <1>2
  <2>2. tx[i] \in Rates /\ first[i] \in BOOLEAN
    BY <1>2
  <2>3. delay[i] \in Nat \X Nat
    BY <1>2, Constants
  <2>4. network[i] \in Nodes
    BY <1>3, <2>1, <2>2, <2>3, NodeIs
  <2>5. /\ network[i].tx = tx[i] /\ network[i].size = spacing /\ network[i].first = first[i]
        /\ network[i].max = MaxTdmaAddress(tx[i], spacing, legacy) /\ network[i].check = delay[i][1]
    BY <2>1 DEF Node
  <2>6. ~legacy => first[i] = TRUE /\ delay[i] = <<0, 0>>
    BY <1>2
  <2>7. ~legacy => delay[i][1] = 0
    BY <2>6
  <2> QED
    BY <2>2, <2>4, <2>5, <2>6, <2>7 DEF HasMax
<1>5. DOMAIN network = 1 .. n
  BY <1>2
<1>6. NetworkInv
  BY <1>2, <1>4, <1>5 DEF NetworkInv
<1>7. network \in Seq(Nodes) /\ available = MaxSlots /\ fits = <<>>
  BY InitInv DEF Init, Inv, TypeInv
<1> QED
  BY <1>3, <1>6, <1>7, SearchStarts

\* The Node that is next is no faster than those that are placed.
LEMMA CurrentIs ==
  ASSUME SearchInv, Done < Len(network)
  PROVE  /\ Done \in Nat /\ Done + 1 \in DOMAIN network /\ Current \in Nodes /\ Current.tx \in Rates
         /\ Current.size = spacing /\ HasMax(Current, legacy)
         /\ ~legacy => Current.first /\ Current.check = 0
         /\ Current.tx > 0 /\ ~(Between(Current) < Current.size) => Regular(Current)
         /\ \A i \in Placed : i \in 1 .. Done /\ i \in DOMAIN network /\ Current.tx <= network[i].tx
<1>1. /\ network \in Seq(Nodes) /\ Done \in Nat /\ address \in Seq(0 .. MaxSlots)
      /\ Len(network) \in Nat /\ DOMAIN network = 1 .. Len(network) /\ DOMAIN address = 1 .. Done
  BY DEF SearchInv, Inv, TypeInv, Done
<1>2. Done + 1 \in DOMAIN network /\ Done + 1 \in Nat
  BY <1>1
<1>3. /\ Current \in Nodes /\ Current.tx \in Rates /\ HasMax(Current, legacy)
      /\ ~legacy => Current.first /\ Current.check = 0
  BY <1>2 DEF SearchInv, NetworkInv, Current
<1>4. Current.size = spacing /\ Current.tx \in Nat
  BY <1>3 DEF Nodes
<1>5. ASSUME Current.tx > 0, ~(Between(Current) < Current.size)
      PROVE  Regular(Current)
  <2>1. Between(Current) \in Nat \ {0}
    BY <1>3, <1>5, BetweenIs
  <2>2. Between(Current) >= Current.size /\ Current.tx # 0
    <3>1. Current.size \in Nat
      BY <1>3, Constants DEF Nodes
    <3> QED
      BY <1>4, <1>5, <2>1, <3>1
  <2> QED
    BY <1>3, <2>2 DEF Regular
<1>6. ASSUME NEW i \in Placed
      PROVE  i \in 1 .. Done /\ i \in DOMAIN network /\ Current.tx <= network[i].tx
  <2>1. i \in 1 .. Done
    BY <1>1 DEF Placed
  <2>2. i \in DOMAIN network /\ i < Done + 1
    BY <1>1, <2>1
  <2>3. network[i].tx >= network[Done + 1].tx
    BY <1>2, <2>2 DEF SearchInv, NetworkInv, InOrder
  <2>4. network[i].tx \in Nat /\ network[Done + 1].tx \in Nat
    BY <1>2, <2>2, Constants DEF SearchInv, NetworkInv
  <2> QED
    BY <2>1, <2>2, <2>3, <2>4 DEF Current
<1> QED
  BY <1>1, <1>2, <1>3, <1>4, <1>5, <1>6

\* The table the search looks at repeats in the period of the next Node.
LEMMA TableRepeats ==
  ASSUME SearchInv, Done < Len(network), Regular(Current)
  PROVE  /\ Reserving(slots, Current, legacy) \subseteq 0 .. MaxSlots - 1
         /\ slots \subseteq Reserving(slots, Current, legacy)
         /\ Repeats(Reserving(slots, Current, legacy), Current, legacy)
<1> DEFINE table == Reserving(slots, Current, legacy)
<1>1. table \subseteq 0 .. MaxSlots - 1
  BY CurrentIs, ReservingInSecond DEF SearchInv, Inv
<1>2. Current.size = spacing
  BY CurrentIs
<1>3. slots \subseteq table /\ \A t \in table : t \in slots \/ (legacy /\ t \in ReservedSlots(spacing) /\ ReservedSlots(spacing) \subseteq table)
  BY <1>2 DEF Reserving
<1>4. ASSUME NEW t \in table, NEW x \in Nat, Start(Current, x),
             t % Between(Current) \in x .. x + spacing - 1
      PROVE  \/ x \in table
             \/ legacy /\ t \in ReservedSlots(spacing) /\ ReservedSlots(spacing) \subseteq table
  <2>1. CASE \E i \in Placed : t \in SlotsOf(i)
    <3>1. PICK i \in Placed : t \in SlotsOf(i)
      BY <2>1
    <3>2. Regular(network[i]) /\ Start(network[i], address[i] - 1) /\ Current.tx <= network[i].tx
      BY CurrentIs DEF SearchInv, PlacedInv
    <3>3. t \in 0 .. MaxSlots - 1
      BY <1>1
    <3>4. x \in SlotsOf(i)
      BY <1>4, <3>1, <3>2, <3>3, TakenRepeats DEF SlotsOf
    <3> QED
      BY <1>3, <3>4 DEF SearchInv, TakenInv
  <2>2. CASE ~\E i \in Placed : t \in SlotsOf(i)
    BY <1>3, <2>2 DEF SearchInv, TakenInv
  <2> QED
    BY <2>1, <2>2
<1> HIDE DEF table
<1>5. Repeats(table, Current, legacy)
  BY <1>4 DEF Repeats
<1> QED
  BY <1>1, <1>3, <1>5 DEF table

\* What the address of the next Node changes.
LEMMA Placing ==
  ASSUME SearchInv, Done < Len(network), NEW a \in 0 .. MaxSlots,
         address' = Append(address, a), UNCHANGED <<legacy, spacing, network>>
  PROVE  /\ Placed' = IF a > 0 THEN Placed \cup {Done + 1} ELSE Placed
         /\ Done + 1 \notin Placed
         /\ \A i \in Placed : address'[i] = address[i] /\ SlotsOf(i)' = SlotsOf(i)
         /\ \A i : i = Done + 1 => address'[i] = a /\ SlotsOf(i)' = SlotsFrom(Current, a - 1)
<1>1. /\ address \in Seq(0 .. MaxSlots) /\ Done \in Nat /\ DOMAIN address = 1 .. Done
  BY DEF SearchInv, Inv, TypeInv, Done
<1>2. /\ DOMAIN address' = 1 .. Done + 1 /\ address'[Done + 1] = a
      /\ \A i \in 1 .. Done : address'[i] = address[i]
  BY <1>1 DEF Done
<1>3. Placed' = {i \in 1 .. Done + 1 : address'[i] > 0} /\ Placed = {i \in 1 .. Done : address[i] > 0}
  BY <1>1, <1>2 DEF Placed
<1>4. Done + 1 \notin Placed
  BY <1>1, <1>3
<1>5. Placed' = IF a > 0 THEN Placed \cup {Done + 1} ELSE Placed
  <2>1. 1 .. Done + 1 = (1 .. Done) \cup {Done + 1}
    BY <1>1
  <2> QED
    BY <1>2, <1>3, <2>1
<1>6. \A i \in Placed : address'[i] = address[i] /\ SlotsOf(i)' = SlotsOf(i)
  BY <1>2, <1>3 DEF SlotsOf
<1>7. ASSUME NEW i, i = Done + 1
      PROVE  address'[i] = a /\ SlotsOf(i)' = SlotsFrom(Current, a - 1)
  <2>1. network'[i] = Current /\ address'[i] = a
    BY <1>2, <1>7 DEF Current
  <2> QED
    BY <2>1 DEF SlotsOf
<1> QED
  BY <1>2, <1>4, <1>5, <1>6, <1>7

\* A Node that gets no slot leaves the network as it was.
LEMMA NotPlaced ==
  ASSUME SearchInv, Inv', Done < Len(network), address' = Append(address, 0),
         UNCHANGED <<legacy, spacing, network>>,
         slots' = slots \/ slots' = Reserving(slots, Current, legacy)
  PROVE  SearchInv'
<1>1. /\ Placed' = Placed
      /\ \A i \in Placed : address'[i] = address[i] /\ SlotsOf(i)' = SlotsOf(i)
  <2>1. 0 \in 0 .. MaxSlots /\ ~(0 > 0)
    BY Constants
  <2> QED
    BY <2>1, Placing
<1>2. NetworkInv'
  BY NodesStay DEF SearchInv, NetworkInv, HasMax
<1>3. PlacedInv'
  BY <1>1, NodesStay DEF SearchInv, PlacedInv, Regular, Start, Between
<1>4. NoCollision'
  BY <1>1 DEF SearchInv, NoCollision
<1>5. /\ slots \subseteq slots'
      /\ \A t \in slots' :
           t \in slots \/ (legacy /\ t \in ReservedSlots(spacing') /\ ReservedSlots(spacing') \subseteq slots')
  <2>1. Current.size = spacing
    BY CurrentIs
  <2> QED
    BY <2>1 DEF Reserving
<1>6. TakenInv'
  <2>1. \A i \in Placed' : SlotsOf(i)' \subseteq slots'
    BY <1>1, <1>5 DEF SearchInv, TakenInv
  <2>2. ASSUME NEW t \in slots'
        PROVE  \/ \E i \in Placed' : t \in SlotsOf(i)'
               \/ legacy' /\ t \in ReservedSlots(spacing') /\ ReservedSlots(spacing') \subseteq slots'
    BY <1>1, <1>5 DEF SearchInv, TakenInv
  <2> QED
    BY <2>1, <2>2 DEF TakenInv
<1> QED
  BY <1>2, <1>3, <1>4, <1>6 DEF SearchInv

\* The slots a Node gets were free, and no Node and no reserved slot is among them.
LEMMA GetsFree ==
  ASSUME SearchInv, GetsSlot
  PROVE  LET table == Reserving(slots, Current, legacy)
             s == FoundSlot(table, Current)
         IN  /\ Regular(Current) /\ Start(Current, s) /\ SlotsFrom(Current, s) \cap table = {}
             /\ slots \subseteq table /\ s + 1 \in 1 .. MaxSlots
             /\ legacy => ReservedSlots(spacing) \subseteq table
<1> DEFINE table == Reserving(slots, Current, legacy)
           s == FoundSlot(table, Current)
<1>1. Done < Len(network) /\ Current.tx > 0 /\ ~DoesNotFit(table, Current)
  BY DEF GetsSlot
<1>2. ~(Between(Current) < Current.size) /\ s # MaxSlots
  BY <1>1 DEF DoesNotFit
<1>3. Regular(Current) /\ HasMax(Current, legacy) /\ Current \in Nodes /\ Current.size = spacing
  BY <1>1, <1>2, CurrentIs
<1>4. /\ table \subseteq 0 .. MaxSlots - 1 /\ slots \subseteq table /\ Repeats(table, Current, legacy)
  BY <1>1, <1>3, TableRepeats
<1>5. s \in Nat /\ s + 1 <= MaxSlots
  BY <1>2, <1>3, FoundIs
<1>6. legacy => ReservedSlots(spacing) \subseteq table
  <2>1. Between(Current) >= Current.size
    BY <1>3 DEF Regular
  <2> QED
    BY <1>1, <1>3, <2>1 DEF Reserving
<1> HIDE DEF table
<1>7. Start(Current, s) /\ SlotsFrom(Current, s) \cap table = {}
  BY <1>2, <1>3, <1>4, FoundFree
<1>8. s + 1 \in 1 .. MaxSlots
  BY <1>5, Constants
<1> QED
  BY <1>3, <1>4, <1>6, <1>7, <1>8 DEF table

LEMMA SearchKept ==
  ASSUME SearchInv, [Next]_vars
  PROVE  SearchInv'
<1>1. Inv'
  BY InvKept DEF SearchInv
<1>2. CASE TakesNoSlot
  <2>1. /\ Done < Len(network) /\ address' = Append(address, 0) /\ slots' = slots
        /\ UNCHANGED <<legacy, spacing, network>>
    BY <1>2 DEF TakesNoSlot
  <2> QED
    BY <1>1, <2>1, NotPlaced
<1>3. CASE GetsNoSlot
  <2>1. /\ Done < Len(network) /\ address' = Append(address, 0)
        /\ slots' = Reserving(slots, Current, legacy) /\ UNCHANGED <<legacy, spacing, network>>
    BY <1>3 DEF GetsNoSlot
  <2> QED
    BY <1>1, <2>1, NotPlaced
<1>4. CASE GetsSlot
  <2> DEFINE table == Reserving(slots, Current, legacy)
             s == FoundSlot(table, Current)
  <2>1. /\ Done < Len(network) /\ slots' = table \cup SlotsFrom(Current, s)
        /\ address' = Append(address, s + 1) /\ UNCHANGED <<legacy, spacing, network>>
    BY <1>4 DEF GetsSlot
  <2>2. /\ Regular(Current) /\ Start(Current, s) /\ SlotsFrom(Current, s) \cap table = {}
        /\ slots \subseteq table /\ s + 1 \in 1 .. MaxSlots
        /\ legacy => ReservedSlots(spacing) \subseteq table
    BY <1>4, GetsFree
  <2>3. \A t \in table : t \in slots \/ (legacy /\ t \in ReservedSlots(spacing) /\ ReservedSlots(spacing) \subseteq table)
    <3>1. Current.size = spacing
      BY <2>1, CurrentIs
    <3> QED
      BY <3>1 DEF Reserving
  <2> HIDE DEF table, s
  <2>4. s + 1 \in 0 .. MaxSlots /\ s + 1 > 0 /\ (s + 1) - 1 = s
    BY <2>2, Constants DEF Start
  <2>5. /\ Placed' = Placed \cup {Done + 1} /\ Done + 1 \notin Placed
        /\ \A i \in Placed : address'[i] = address[i] /\ SlotsOf(i)' = SlotsOf(i)
        /\ \A i : i = Done + 1 => address'[i] = s + 1 /\ SlotsOf(i)' = SlotsFrom(Current, s)
    BY <2>1, <2>4, Placing
  <2>6. NetworkInv'
    BY <2>1, NodesStay DEF SearchInv, NetworkInv, HasMax
  <2>7. PlacedInv'
    <3>1. ASSUME NEW i \in Placed'
          PROVE  (Regular(network[i]) /\ Start(network[i], address[i] - 1))'
      <4>1. CASE i \in Placed
        BY <2>1, <2>5, <4>1, NodesStay DEF SearchInv, PlacedInv, Regular, Start, Between
      <4>2. CASE i = Done + 1
        <5>1. network'[i] = Current /\ address'[i] - 1 = s
          BY <2>1, <2>4, <2>5, <4>2 DEF Current
        <5> QED
          BY <2>1, <2>2, <5>1, NodesStay DEF Regular, Start, Between
      <4> QED
        BY <2>5, <3>1, <4>1, <4>2
    <3> QED
      BY <3>1 DEF PlacedInv
  <2>8. \A i \in Placed : SlotsOf(i) \subseteq table
    BY <2>2 DEF SearchInv, TakenInv
  <2>9. TakenInv'
    <3>1. \A i \in Placed' : SlotsOf(i)' \subseteq slots'
      BY <2>1, <2>5, <2>8
    <3>2. ASSUME NEW t \in slots'
          PROVE  \/ \E i \in Placed' : t \in SlotsOf(i)'
                 \/ legacy' /\ t \in ReservedSlots(spacing') /\ ReservedSlots(spacing') \subseteq slots'
      <4>1. CASE t \in SlotsFrom(Current, s)
        BY <2>5, <4>1
      <4>2. CASE t \in slots
        BY <2>1, <2>2, <2>5, <4>2 DEF SearchInv, TakenInv
      <4>3. CASE t \in table /\ t \notin slots
        BY <2>1, <2>3, <4>3
      <4> QED
        BY <2>1, <4>1, <4>2, <4>3
    <3> QED
      BY <3>1, <3>2 DEF TakenInv
  <2>10. NoCollision'
    <3>1. ASSUME NEW i \in Placed', NEW j \in Placed', i # j
          PROVE  SlotsOf(i)' \cap SlotsOf(j)' = {}
      <4>1. CASE i \in Placed /\ j \in Placed
        BY <2>5, <3>1, <4>1 DEF SearchInv, NoCollision
      <4>2. CASE i = Done + 1 /\ j \in Placed
        BY <2>2, <2>5, <2>8, <4>2
      <4>3. CASE j = Done + 1 /\ i \in Placed
        BY <2>2, <2>5, <2>8, <4>3
      <4> QED
        BY <2>5, <3>1, <4>1, <4>2, <4>3
    <3>2. ASSUME legacy', NEW i \in Placed'
          PROVE  SlotsOf(i)' \cap ReservedSlots(spacing') = {}
      <4>1. CASE i \in Placed
        BY <2>1, <2>5, <3>2, <4>1 DEF SearchInv, NoCollision
      <4>2. CASE i = Done + 1
        BY <2>1, <2>2, <2>5, <3>2, <4>2
      <4> QED
        BY <2>5, <3>2, <4>1, <4>2
    <3> QED
      BY <3>1, <3>2 DEF NoCollision
  <2> QED
    BY <1>1, <2>6, <2>7, <2>9, <2>10 DEF SearchInv
<1>5. CASE UNCHANGED vars
  BY <1>1, <1>5, NodesStay DEF vars, SearchInv, NetworkInv, HasMax, PlacedInv, Regular, Start, Between,
                               TakenInv, NoCollision, Placed, SlotsOf
<1> QED
  BY <1>2, <1>3, <1>4, <1>5 DEF Next

\* "none of these slots should already be taken" (SyncSamplingNetwork.cpp:1023):
\* whatever the rates, no two Nodes transmit in the same slot, nor does one in a
\* slot that legacy mode reserves, although the search looks at the first slot of
\* the first transmission only and never resets its count.
THEOREM NodesDoNotCollide == Spec => []NoCollision
<1>1. SearchInv => NoCollision
  BY DEF SearchInv
<1> QED
  BY <1>1, SearchInit, SearchKept, PTL DEF Spec

LEMMA AllTransmissions ==
  ASSUME SearchInv
  PROVE  EveryTransmissionHasSlots
<1>1. ASSUME NEW i \in Placed
      PROVE  Cardinality(SlotsOf(i)) = network[i].tx * network[i].size
  <2>1. Regular(network[i]) /\ Start(network[i], address[i] - 1)
    BY DEF SearchInv, PlacedInv
  <2>2. network[i].size = spacing
    BY <2>1, RegularIs
  <2> QED
    BY <2>1, <2>2, SlotsCount DEF SlotsOf
<1> QED
  BY <1>1 DEF EveryTransmissionHasSlots, SearchInv, Inv

\* A Node that gets a slot has as many as it has to transmit, all in the second.
THEOREM EveryTransmission == Spec => []EveryTransmissionHasSlots
<1>1. SearchInv => EveryTransmissionHasSlots
  BY AllTransmissions
<1> QED
  BY <1>1, SearchInit, SearchKept, PTL DEF Spec

-----------------------------------------------------------------------------
(* The count of free slots, and who is turned away *)

\* All slots the Nodes use.
Used == UNION {SlotsOf(i) : i \in Placed}

CountInv ==
  /\ IsFiniteSet(Used) /\ AvailableCounts
  /\ IsFiniteSet(Demand(Placed)) /\ Load(Placed) = Cardinality(Used)
  /\ TurnedAwayOnlyIfFull

\* The demand of one more Node.
LEMMA DemandOfOneMore ==
  ASSUME NEW S, NEW i, i \notin S, IsFiniteSet(Demand(S)), network[i].tx * spacing \in Nat
  PROVE  /\ IsFiniteSet(Demand(S \cup {i}))
         /\ Load(S \cup {i}) = Load(S) + network[i].tx * spacing
<1> DEFINE n == network[i].tx * spacing
           D == {i} \X (1 .. n)
<1>1. Demand(S \cup {i}) = Demand(S) \cup D /\ Demand(S) \cap D = {}
  <2>1. Demand(S \cup {i}) = Demand(S) \cup D
    BY DEF Demand
  <2>2. ASSUME NEW p \in Demand(S)
        PROVE  p[1] \in S
    BY <2>2 DEF Demand
  <2>3. \A p \in D : p[1] = i
    OBVIOUS
  <2> QED
    BY <2>1, <2>2, <2>3
<1>2. IsFiniteSet(1 .. n) /\ Cardinality(1 .. n) = n
  <2> HIDE DEF n
  <2>1. n \in Nat
    BY DEF n
  <2>2. 1 \in Int /\ n \in Int /\ (1 <= n => n - 1 + 1 = n) /\ (~(1 <= n) => n = 0)
    BY <2>1
  <2> QED
    BY <2>2, FS_Interval
<1>3. IsFiniteSet({i}) /\ Cardinality({i}) = 1
  BY FS_Singleton
<1>4. IsFiniteSet(D) /\ Cardinality(D) = n
  <2> HIDE DEF n
  <2>1. IsFiniteSet(D) /\ Cardinality(D) = 1 * Cardinality(1 .. n)
    BY <1>2, <1>3, FS_Product
  <2>2. n \in Nat
    BY DEF n
  <2> QED
    BY <1>2, <2>1, <2>2
<1> HIDE DEF D, n
<1>5. /\ IsFiniteSet(Demand(S) \cup D)
      /\ Cardinality(Demand(S) \cup D) = Cardinality(Demand(S)) + Cardinality(D) - Cardinality(Demand(S) \cap D)
  BY <1>4, FS_Union
<1>6. Cardinality(Demand(S) \cap D) = 0 /\ Cardinality(Demand(S)) \in Nat /\ n \in Nat
  BY <1>1, FS_EmptySet, FS_CardinalityType DEF n
<1>7. IsFiniteSet(Demand(S \cup {i})) /\ Load(S \cup {i}) = Load(S) + n
  <2>1. IsFiniteSet(Demand(S \cup {i})) /\ Load(S \cup {i}) = Cardinality(Demand(S) \cup D)
    BY <1>1, <1>5, Zenon DEF Load
  <2>2. Load(S) = Cardinality(Demand(S))
    BY DEF Load
  <2>3. Cardinality(Demand(S) \cup D) = Cardinality(Demand(S)) + n
    BY <1>4, <1>5, <1>6
  <2> QED
    BY <2>1, <2>2, <2>3
<1> QED
  BY <1>7 DEF n

LEMMA CountStarts ==
  ASSUME address = <<>>, fits = <<>>, available = MaxSlots
  PROVE  CountInv
<1>1. address = <<>> /\ fits = <<>> /\ available = MaxSlots
  OBVIOUS
<1>2. Placed = {} /\ Used = {} /\ Demand(Placed) = {}
  BY <1>1 DEF Placed, Used, Demand
<1>3. IsFiniteSet({}) /\ Cardinality({}) = 0
  BY FS_EmptySet
<1>4. AvailableCounts
  <2>1. MaxSlots = MaxSlots - 0
    BY Constants
  <2>2. AvailableCounts <=> available = MaxSlots - Cardinality(Used)
    BY Zenon DEF AvailableCounts, Used
  <2> QED
    BY <1>1, <1>2, <1>3, <2>1, <2>2
<1>5. TurnedAwayOnlyIfFull
  BY <1>1 DEF TurnedAwayOnlyIfFull
<1> QED
  BY <1>2, <1>3, <1>4, <1>5 DEF CountInv, Load

LEMMA CountInit == Init => CountInv
BY CountStarts DEF Init

\* The Nodes turned away so far were turned away for what was placed before them.
LEMMA TurnedAwayKept ==
  ASSUME SearchInv, CountInv, Done < Len(network), NEW a \in 0 .. MaxSlots, NEW fit \in BOOLEAN,
         address' = Append(address, a), fits' = Append(fits, fit), UNCHANGED <<legacy, spacing, network>>,
         ~legacy /\ ~fit => a = 0 /\ Load(Placed \cup {Done + 1}) > MaxSlots
  PROVE  TurnedAwayOnlyIfFull'
<1>1. /\ Done \in Nat /\ fits \in Seq(BOOLEAN) /\ Len(fits) = Done /\ DOMAIN fits = 1 .. Done
  BY DEF SearchInv, Inv, TypeInv, Done
<1>2. /\ DOMAIN fits' = 1 .. Done + 1 /\ fits'[Done + 1] = fit
      /\ \A i \in 1 .. Done : fits'[i] = fits[i]
  BY <1>1
<1>3. /\ Placed' = IF a > 0 THEN Placed \cup {Done + 1} ELSE Placed
      /\ \A i \in Placed : i \in 1 .. Done
  BY Placing, CurrentIs
<1>5. ASSUME ~legacy', NEW i \in DOMAIN fits', ~fits'[i]
      PROVE  Load((Placed \cap 1 .. i) \cup {i})' > MaxSlots
  <2>0. Load((Placed \cap 1 .. i) \cup {i})' = Load((Placed' \cap 1 .. i) \cup {i})
    BY DEF Load, Demand
  <2>1. CASE i \in 1 .. Done
    <3>1. Placed' \cap 1 .. i = Placed \cap 1 .. i
      <4>1. Done + 1 \notin 1 .. i
        BY <1>1, <2>1
      <4> QED
        BY <1>3, <4>1
    <3>2. ~legacy /\ i \in DOMAIN fits /\ ~fits[i]
      BY <1>1, <1>2, <1>5, <2>1
    <3> QED
      BY <2>0, <3>1, <3>2 DEF CountInv, TurnedAwayOnlyIfFull
  <2>2. CASE i = Done + 1
    <3>1. ~legacy /\ ~fit
      BY <1>2, <1>5, <2>2
    <3>2. Placed' = Placed
      <4>1. ~(a > 0)
        BY <3>1
      <4> QED
        BY <1>3, <4>1
    <3>3. Placed \cap 1 .. i = Placed
      BY <1>1, <1>3, <2>2
    <3> QED
      BY <2>0, <2>2, <3>1, <3>2, <3>3
  <2> QED
    BY <1>1, <1>2, <1>5, <2>1, <2>2
<1> QED
  BY <1>5 DEF TurnedAwayOnlyIfFull

\* A Node is turned away outside legacy mode: its bandwidth is not left.
LEMMA NoBandwidthLeft ==
  ASSUME SearchInv, CountInv, ~legacy, GetsNoSlot
  PROVE  Load(Placed \cup {Done + 1}) > MaxSlots
<1> DEFINE tx == Current.tx
<1>1. /\ Done < Len(network) /\ Current.tx > 0 /\ DoesNotFit(slots, Current)
      /\ Reserving(slots, Current, legacy) = slots
  BY DEF GetsNoSlot, Reserving
<1>2. /\ Current \in Nodes /\ Current.size = spacing /\ Current.tx \in Nat \ {0}
      /\ network[Done + 1] = Current /\ spacing \in Nat \ {0} /\ MaxSlots \in Nat \ {0}
  BY <1>1, CurrentIs, Constants DEF Nodes, Current
<1>3. /\ Load(Placed \cup {Done + 1}) = Load(Placed) + tx * spacing
      /\ tx * spacing \in Nat /\ tx * spacing > 0 /\ Load(Placed) \in Nat
  <2>1. tx * spacing \in Nat /\ tx * spacing > 0
    <3>1. \A x, y \in Nat \ {0} : x * y \in Nat /\ x * y > 0
      OBVIOUS
    <3> QED
      BY <1>2, <3>1
  <2>2. Done + 1 \notin Placed
    <3>1. Done \in Nat /\ \A i \in Placed : i \in 1 .. Done
      BY <1>1, CurrentIs
    <3> QED
      BY <3>1
  <2>3. network[Done + 1].tx * spacing = tx * spacing /\ network[Done + 1].tx * spacing \in Nat
    BY <1>2, <2>1
  <2> HIDE DEF tx
  <2>4. Load(Placed \cup {Done + 1}) = Load(Placed) + tx * spacing
    BY <2>2, <2>3, DemandOfOneMore DEF CountInv
  <2>5. Load(Placed) \in Nat
    BY FS_CardinalityType DEF CountInv
  <2> QED
    BY <2>1, <2>4, <2>5
<1>4. CASE Between(Current) < Current.size
  <2> DEFINE q == MaxSlots \div tx
  <2>1. q \in Nat /\ MaxSlots % tx \in 0 .. tx - 1 /\ MaxSlots = q * tx + (MaxSlots % tx)
    BY <1>2, DivMod
  <2>2. q + 1 <= spacing
    <3>1. Between(Current) = q
      BY DEF Between
    <3> QED
      BY <1>2, <1>4, <2>1, <3>1
  <2> HIDE DEF q
  <2>3. (q + 1) * tx <= spacing * tx
    BY <1>2, <2>1, <2>2, Grows
  <2>4. (q + 1) * tx = q * tx + tx /\ spacing * tx = tx * spacing /\ q * tx \in Nat
    BY <1>2, <2>1
  <2>5. tx * spacing > MaxSlots
    <3> HIDE DEF tx
    <3>1. tx \in Nat \ {0}
      BY <1>2 DEF tx
    <3> QED
      BY <1>2, <2>1, <2>3, <2>4, <3>1
  <2> QED
    BY <1>2, <1>3, <2>5
<1>5. CASE ~(Between(Current) < Current.size)
  <2> DEFINE b == Between(Current)
  <2>1. Regular(Current) /\ HasMax(Current, FALSE) /\ Current.first /\ Current.check = 0
    <3>1. legacy = FALSE
      BY DEF SearchInv, Inv, TypeInv
    <3> QED
      BY <1>1, <1>5, <3>1, CurrentIs
  <2>2. FoundSlot(slots, Current) = MaxSlots
    BY <1>1, <1>5 DEF DoesNotFit
  <2>3. slots \subseteq 0 .. MaxSlots - 1 /\ Repeats(slots, Current, FALSE)
    <3>1. legacy = FALSE
      BY DEF SearchInv, Inv, TypeInv
    <3> QED
      BY <1>1, <2>1, <3>1, TableRepeats
  <2>4. \A x : Start(Current, x) => x \in slots
    BY <2>1, <2>2, <2>3, NothingFree
  <2>5. b \in Nat \ {0} /\ b % spacing = 0 /\ spacing \in Nat \ {0}
    BY <2>1, RegularIs
  <2>6. ASSUME NEW t \in 0 .. MaxSlots - 1
        PROVE  t \in Used
    <3> DEFINE r == t % b
               d == r % spacing
               x == (r \div spacing) * spacing
    <3>1. t \in Nat /\ r \in 0 .. b - 1
      BY <1>2, <2>5, DivMod
    <3> HIDE DEF r, b
    <3>2. r \in Nat /\ r \div spacing \in Nat /\ d \in 0 .. spacing - 1 /\ r = x + d
      <4>1. r \in Nat
        BY <2>5, <3>1
      <4> QED
        BY <2>5, <4>1, DivMod
    <3>3. x + 0 \in Nat /\ (x + 0) % spacing = 0
      <4>1. 0 \in 0 .. spacing - 1
        BY <2>5
      <4> QED
        BY <2>5, <3>2, <4>1, ModIs
    <3>4. x \in Nat /\ x % spacing = 0
      <4> HIDE DEF x
      <4>1. x \in Int
        BY <2>5, <3>2 DEF x
      <4> QED
        BY <3>3, <4>1
    <3> HIDE DEF x, d
    <3>5. Start(Current, x) /\ r \in x .. x + spacing - 1
      <4>1. x <= r /\ r < x + spacing /\ x < b
        BY <2>5, <3>1, <3>2, <3>4
      <4> QED
        BY <2>5, <3>2, <3>4, <4>1 DEF Start, b
    <3>6. PICK i \in Placed : x \in SlotsOf(i)
      BY <2>4, <3>5 DEF SearchInv, TakenInv
    <3>7. Regular(network[i]) /\ Start(network[i], address[i] - 1) /\ Current.tx <= network[i].tx
      BY <1>1, CurrentIs DEF SearchInv, PlacedInv
    <3>8. t % Between(Current) \in x .. x + spacing - 1
      BY <3>5 DEF r, b
    <3>9. t \in SlotsOf(i)
      BY <2>1, <2>6, <3>5, <3>6, <3>7, <3>8, TakenRepeats DEF SlotsOf
    <3> QED
      BY <3>9 DEF Used
  <2>7. IsFiniteSet(0 .. MaxSlots - 1) /\ Cardinality(0 .. MaxSlots - 1) = MaxSlots
    <3>1. 0 \in Int /\ MaxSlots - 1 \in Int /\ 0 <= MaxSlots - 1 /\ (MaxSlots - 1) - 0 + 1 = MaxSlots
      BY <1>2
    <3> QED
      BY <3>1, FS_Interval
  <2>8. 0 .. MaxSlots - 1 \subseteq Used
    BY <2>6
  <2>9. Cardinality(0 .. MaxSlots - 1) <= Cardinality(Used)
    BY <2>8, FS_Subset DEF CountInv
  <2>10. Load(Placed) >= MaxSlots
    BY <1>2, <1>3, <2>7, <2>9 DEF CountInv
  <2> HIDE DEF tx
  <2> QED
    BY <1>2, <1>3, <2>10
<1> QED
  BY <1>4, <1>5

LEMMA CountKept ==
  ASSUME SearchInv, CountInv, [Next]_vars
  PROVE  CountInv'
<1>1. CASE TakesNoSlot
  <2>1. /\ Done < Len(network) /\ address' = Append(address, 0) /\ fits' = Append(fits, TRUE)
        /\ available' = available /\ UNCHANGED <<legacy, spacing, network>>
    BY <1>1 DEF TakesNoSlot
  <2>2. 0 \in 0 .. MaxSlots /\ ~(0 > 0)
    BY Constants
  <2>3. TurnedAwayOnlyIfFull'
    BY <2>1, <2>2, TurnedAwayKept
  <2>4. Placed' = Placed /\ \A i \in Placed : SlotsOf(i)' = SlotsOf(i)
    BY <2>1, <2>2, Placing
  <2>5. Used' = Used /\ Demand(Placed)' = Demand(Placed)
    BY <2>1, <2>4 DEF Used, Demand
  <2> QED
    BY <2>1, <2>3, <2>5 DEF CountInv, AvailableCounts, Used, Load
<1>2. CASE GetsNoSlot
  <2>1. /\ Done < Len(network) /\ address' = Append(address, 0) /\ fits' = Append(fits, FALSE)
        /\ available' = available /\ UNCHANGED <<legacy, spacing, network>>
    BY <1>2 DEF GetsNoSlot
  <2>2. 0 \in 0 .. MaxSlots /\ ~(0 > 0)
    BY Constants
  <2>3. TurnedAwayOnlyIfFull'
    BY <1>2, <2>1, <2>2, TurnedAwayKept, NoBandwidthLeft
  <2>4. Placed' = Placed /\ \A i \in Placed : SlotsOf(i)' = SlotsOf(i)
    BY <2>1, <2>2, Placing
  <2>5. Used' = Used /\ Demand(Placed)' = Demand(Placed)
    BY <2>1, <2>4 DEF Used, Demand
  <2> QED
    BY <2>1, <2>3, <2>5 DEF CountInv, AvailableCounts, Used, Load
<1>3. CASE GetsSlot
  <2> DEFINE table == Reserving(slots, Current, legacy)
             s == FoundSlot(table, Current)
             T == SlotsFrom(Current, s)
             n == Current.tx * spacing
  <2>1. /\ Done < Len(network) /\ address' = Append(address, s + 1) /\ fits' = Append(fits, TRUE)
        /\ available' = available - Room(Current, s) * Current.size
        /\ UNCHANGED <<legacy, spacing, network>>
    BY <1>3 DEF GetsSlot
  <2>2. /\ Regular(Current) /\ Start(Current, s) /\ T \cap table = {}
        /\ slots \subseteq table /\ s + 1 \in 1 .. MaxSlots
    BY <1>3, GetsFree
  <2>3. Room(Current, s) = Current.tx /\ Current.size = spacing /\ IsFiniteSet(T) /\ Cardinality(T) = n
    BY <2>2, RoomForAll, SlotsCount, RegularIs
  <2>4. Used \cap T = {}
    BY <2>2 DEF Used, SearchInv, TakenInv
  <2> HIDE DEF table, s
  <2>5. s + 1 \in 0 .. MaxSlots /\ s + 1 > 0 /\ (s + 1) - 1 = s
    BY <2>2, Constants DEF Start
  <2>6. TurnedAwayOnlyIfFull'
    BY <2>1, <2>5, TurnedAwayKept
  <2>7. /\ Placed' = Placed \cup {Done + 1} /\ Done + 1 \notin Placed
        /\ \A i \in Placed : SlotsOf(i)' = SlotsOf(i)
        /\ \A i : i = Done + 1 => SlotsOf(i)' = T
    BY <2>1, <2>5, Placing
  <2>8. Used' = Used \cup T
    BY <2>7 DEF Used
  <2> HIDE DEF T
  <2>9. IsFiniteSet(Used \cup T) /\ Cardinality(Used \cup T) = Cardinality(Used) + Cardinality(T) - Cardinality(Used \cap T)
    BY <2>3, FS_Union DEF CountInv
  <2>10. Cardinality(Used \cap T) = 0 /\ Cardinality(Used) \in Nat
    BY <2>4, FS_EmptySet, FS_CardinalityType DEF CountInv
  <2>11. n \in Nat
    <3>1. Current.tx \in Nat /\ spacing \in Nat
      BY <2>2, RegularIs
    <3> QED
      BY <3>1
  <2>12. IsFiniteSet(Demand(Placed \cup {Done + 1})) /\ Load(Placed \cup {Done + 1}) = Load(Placed) + n
    <3>1. network[Done + 1].tx * spacing = n
      BY DEF Current
    <3> HIDE DEF n
    <3> QED
      BY <2>7, <2>11, <3>1, DemandOfOneMore DEF CountInv
  <2>13. Demand(Placed)' = Demand(Placed \cup {Done + 1})
    BY <2>1, <2>7 DEF Demand
  <2>14. IsFiniteSet(Demand(Placed))' /\ Load(Placed)' = Load(Placed) + n
    <3>1. Load(Placed)' = Cardinality(Demand(Placed)')
      BY DEF Load
    <3>2. Load(Placed \cup {Done + 1}) = Cardinality(Demand(Placed \cup {Done + 1}))
      BY DEF Load
    <3> QED
      BY <2>12, <2>13, <3>1, <3>2
  <2>15. available' = available - n /\ available \in Int
    BY <2>1, <2>3 DEF SearchInv, Inv, TypeInv
  <2> HIDE DEF n
  <2>16. Cardinality(Used)' = Cardinality(Used) + n /\ IsFiniteSet(Used)'
    BY <2>3, <2>8, <2>9, <2>10, <2>11
  <2>17. AvailableCounts'
    <3>1. AvailableCounts <=> available = MaxSlots - Cardinality(Used)
      BY Zenon DEF AvailableCounts, Used
    <3>2. AvailableCounts' <=> available' = MaxSlots - Cardinality(Used)'
      BY Zenon DEF AvailableCounts, Used
    <3>3. available = MaxSlots - Cardinality(Used)
      BY <3>1 DEF CountInv
    <3> QED
      BY <2>10, <2>11, <2>15, <2>16, <3>2, <3>3, Constants
  <2> QED
    BY <2>6, <2>14, <2>16, <2>17 DEF CountInv
<1>4. CASE UNCHANGED vars
  <2>1. Placed' = Placed /\ Used' = Used /\ Demand(Placed)' = Demand(Placed)
    BY <1>4 DEF vars, Placed, Used, SlotsOf, Demand
  <2>2. AvailableCounts'
    BY <1>4, <2>1 DEF vars, CountInv, AvailableCounts, Used
  <2>3. TurnedAwayOnlyIfFull'
    BY <1>4, <2>1 DEF vars, CountInv, TurnedAwayOnlyIfFull, Load, Demand
  <2> QED
    BY <2>1, <2>2, <2>3 DEF CountInv, Load
<1> QED
  BY <1>1, <1>2, <1>3, <1>4 DEF Next

LEMMA AvailableIsNat ==
  ASSUME SearchInv, CountInv
  PROVE  available \in 0 .. MaxSlots
<1>1. Used \subseteq 0 .. MaxSlots - 1
  BY DEF Used, SearchInv, Inv, StaysInSecond
<1>2. IsFiniteSet(0 .. MaxSlots - 1) /\ Cardinality(0 .. MaxSlots - 1) = MaxSlots
  <2>1. 0 \in Int /\ MaxSlots - 1 \in Int /\ 0 <= MaxSlots - 1 /\ (MaxSlots - 1) - 0 + 1 = MaxSlots
    BY Constants
  <2> QED
    BY <2>1, FS_Interval
<1>3. IsFiniteSet(Used) /\ Cardinality(Used) \in Nat /\ Cardinality(Used) <= MaxSlots
  BY <1>1, <1>2, FS_Subset, FS_CardinalityType
<1>4. available = MaxSlots - Cardinality(Used)
  <2>1. AvailableCounts <=> available = MaxSlots - Cardinality(Used)
    BY Zenon DEF AvailableCounts, Used
  <2> QED
    BY <2>1 DEF CountInv
<1> QED
  BY <1>3, <1>4, Constants

\* m_availableSlotCount, from which the slots of the event-driven Nodes are
\* shared out (SyncSamplingNetwork.cpp:629), is what the Nodes leave of the second.
THEOREM AvailableIsRight == Spec => []AvailableCounts
<1>1. CountInv => AvailableCounts
  BY DEF CountInv
<1> QED
  BY <1>1, SearchInit, SearchKept, CountInit, CountKept, PTL DEF Spec

\* The status "contention" (SyncSamplingNetwork.cpp:765) needs an old Node:
\* outside legacy mode a Node is turned away only if its bandwidth is not left,
\* so the second is never fragmented.
THEOREM TurnedAwayForBandwidth == Spec => []TurnedAwayOnlyIfFull
<1>1. CountInv => TurnedAwayOnlyIfFull
  BY DEF CountInv
<1> QED
  BY <1>1, SearchInit, SearchKept, CountInit, CountKept, PTL DEF Spec
=============================================================================
