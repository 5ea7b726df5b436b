------------------------- MODULE SyncNetworkProofs -------------------------
(***************************************************************************)
(* For any Nodes, rates, protocols and slots: what a refresh computes, and *)
(* what it leaves behind when it fails.  A network that is marked applied  *)
(* has its schedule on every Node, and in the schedule of a network that   *)
(* is OK no two Nodes use the same slot.                                   *)
(***************************************************************************)
EXTENDS SyncNetwork, FiniteSetTheorems, WellFoundedInduction, TLAPS

-----------------------------------------------------------------------------
(* Numbers and sequences *)

LEMMA Smallest ==
  ASSUME NEW S \in SUBSET Nat, S # {}
  PROVE  \E m \in S : \A n \in S : m <= n
<1> DEFINE R == {ss \in Nat \X Nat : ss[1] < ss[2]}
<1>1. IsWellFoundedOn(R, Nat)
  BY NatLessThanWellFounded DEF OpToRel
<1>2. \A n, m \in Nat : (<<n, m>> \in R) <=> n < m
  OBVIOUS
<1> HIDE DEF R
<1>3. PICK m \in S : \A n \in S : ~(<<n, m>> \in R)
  BY <1>1, WFMin
<1>4. \A n \in S : m <= n
  <2> TAKE n \in S
  <2>1. n \in Nat /\ m \in Nat /\ ~(n < m)
    BY <1>2, <1>3
  <2> QED
    BY <2>1
<1> QED
  BY <1>4

\* What holds of 0 and of the next number holds of every number.
LEMMA Every ==
  ASSUME NEW G, 0 \in G, \A n \in Nat : n \in G => n + 1 \in G
  PROVE  Nat \subseteq G
<1> DEFINE Bad == Nat \ G
<1>1. SUFFICES ASSUME Bad # {} PROVE FALSE
  OBVIOUS
<1>2. PICK m \in Bad : \A n \in Bad : m <= n
  BY <1>1, Smallest
<1>3. m \in Nat /\ m # 0 /\ m \notin G
  BY <1>2
<1>4. m - 1 \in Nat /\ m - 1 + 1 = m /\ ~(m <= m - 1)
  BY <1>3
<1>5. m - 1 \in G
  BY <1>2, <1>4
<1> QED
  BY <1>3, <1>4, <1>5

\* g lists the elements of S among the first n of q.
Lists(g, q, S, n) ==
  g = [i \in 0 .. n |-> IF i = 0 THEN <<>>
                        ELSE IF q[i] \in S THEN Append(g[i - 1], q[i]) ELSE g[i - 1]]

LEMMA ListExists ==
  ASSUME NEW q, NEW S, NEW n \in Nat
  PROVE  \E g : Lists(g, q, S, n)
<1> DEFINE G == {m \in Nat : \E g : Lists(g, q, S, m)}
<1>1. 0 \in G
  <2>1. Lists([i \in 0 .. 0 |-> <<>>], q, S, 0)
    BY DEF Lists
  <2> QED
    BY <2>1
<1>2. ASSUME NEW m \in Nat, m \in G
      PROVE  m + 1 \in G
  <2>1. PICK g : Lists(g, q, S, m)
    BY <1>2
  <2> DEFINE step(i, before) == IF q[i] \in S THEN Append(before, q[i]) ELSE before
             h == [i \in 0 .. m + 1 |-> IF i = m + 1 THEN step(m + 1, g[m]) ELSE g[i]]
             k == [i \in 0 .. m + 1 |-> IF i = 0 THEN <<>> ELSE step(i, h[i - 1])]
  <2> HIDE DEF step
  <2>2. ASSUME NEW i \in 0 .. m + 1
        PROVE  h[i] = IF i = 0 THEN <<>> ELSE step(i, h[i - 1])
    <3>1. CASE i = m + 1
      <4>1. m \in 0 .. m + 1 /\ m # m + 1 /\ i - 1 = m /\ i # 0
        BY <3>1
      <4> QED
        BY <3>1, <4>1
    <3>2. CASE i # m + 1 /\ i # 0
      <4>1. i \in 0 .. m /\ i - 1 \in 0 .. m + 1 /\ i - 1 # m + 1
        BY <3>2
      <4>2. g[i] = step(i, g[i - 1])
        BY <2>1, <3>2, <4>1 DEF Lists, step
      <4> QED
        BY <3>2, <4>1, <4>2
    <3>3. CASE i = 0
      <4>1. 0 \in 0 .. m /\ 0 # m + 1 /\ 0 \in 0 .. m + 1
        OBVIOUS
      <4>2. g[0] = <<>>
        BY <2>1, <4>1 DEF Lists
      <4> QED
        BY <3>3, <4>1, <4>2
    <3> QED
      BY <3>1, <3>2, <3>3
  <2>3. h = k
    <3>1. \A i \in 0 .. m + 1 : h[i] = k[i]
      <4> HIDE DEF h
      <4> QED
        BY <2>2
    <3> QED
      BY <3>1
  <2>4. Lists(h, q, S, m + 1)
    <3> HIDE DEF h
    <3> QED
      BY <2>3 DEF Lists, step
  <2> QED
    BY <2>4
<1> HIDE DEF G
<1>3. Nat \subseteq G
  BY <1>1, <1>2, Every
<1> QED
  BY <1>3 DEF G

\* What Among keeps.
LEMMA AmongIs ==
  ASSUME NEW T, NEW q \in Seq(T), NEW S
  PROVE  /\ Among(q, S) \in Seq(T \cap S)
         /\ \A i \in DOMAIN q : q[i] \in S => \E j \in DOMAIN Among(q, S) : Among(q, S)[j] = q[i]
<1> DEFINE g == CHOOSE g : Lists(g, q, S, Len(q))
<1>1. Lists(g, q, S, Len(q)) /\ Len(q) \in Nat
  BY ListExists
<1>2. Among(q, S) = g[Len(q)]
  BY DEF Among, Lists
<1> HIDE DEF g
<1> DEFINE Good(n) == /\ g[n] \in Seq(T \cap S)
                      /\ \A i \in 1 .. n : q[i] \in S => \E j \in DOMAIN g[n] : g[n][j] = q[i]
           G == {n \in Nat : n <= Len(q) => Good(n)}
<1>3. 0 \in G
  <2>1. 0 \in 0 .. Len(q)
    BY <1>1
  <2>2. g[0] = <<>>
    BY <1>1, <2>1 DEF Lists
  <2>3. Good(0)
    BY <2>2
  <2> QED
    BY <2>3
<1>4. ASSUME NEW n \in Nat, n \in G
      PROVE  n + 1 \in G
  <2> SUFFICES ASSUME n + 1 <= Len(q) PROVE Good(n + 1)
    OBVIOUS
  <2>1. n + 1 \in 1 .. Len(q) /\ n <= Len(q) /\ q[n + 1] \in T
    BY <1>1
  <2>2. Good(n)
    BY <1>4, <2>1
  <2>3. g[n + 1] = IF q[n + 1] \in S THEN Append(g[n], q[n + 1]) ELSE g[n]
    <3>1. n + 1 \in 0 .. Len(q) /\ n + 1 # 0 /\ (n + 1) - 1 = n
      BY <2>1
    <3> QED
      BY <1>1, <3>1 DEF Lists
  <2> HIDE DEF G
  <2>4. CASE q[n + 1] \in S
    <3> DEFINE r == g[n]
    <3>1. r \in Seq(T \cap S) /\ q[n + 1] \in T \cap S
      BY <2>1, <2>2, <2>4
    <3>2. g[n + 1] = Append(r, q[n + 1])
      BY <2>3, <2>4
    <3> HIDE DEF r
    <3>3. /\ g[n + 1] \in Seq(T \cap S) /\ Len(r) + 1 \in DOMAIN g[n + 1]
          /\ g[n + 1][Len(r) + 1] = q[n + 1]
          /\ \A j \in DOMAIN r : j \in DOMAIN g[n + 1] /\ g[n + 1][j] = r[j]
      BY <3>1, <3>2
    <3>4. ASSUME NEW i \in 1 .. n + 1, q[i] \in S
          PROVE  \E j \in DOMAIN g[n + 1] : g[n + 1][j] = q[i]
      <4>1. CASE i = n + 1
        BY <3>3, <4>1
      <4>2. CASE i \in 1 .. n
        <5>1. PICK j \in DOMAIN r : r[j] = q[i]
          BY <2>2, <3>4, <4>2 DEF r
        <5> QED
          BY <3>3, <5>1
      <4> QED
        BY <4>1, <4>2
    <3> QED
      BY <3>3, <3>4
  <2>5. CASE q[n + 1] \notin S
    <3>1. \A i \in 1 .. n + 1 : q[i] \in S => i \in 1 .. n
      BY <2>5
    <3> QED
      BY <2>2, <2>3, <2>5, <3>1
  <2> QED
    BY <2>4, <2>5
<1> HIDE DEF G
<1>5. Nat \subseteq G
  BY <1>3, <1>4, Every
<1>6. Good(Len(q))
  BY <1>1, <1>5 DEF G
<1> QED
  BY <1>2, <1>6

-----------------------------------------------------------------------------
(* The configuration of the network *)

\* The Nodes S, each at least once.
ListsAll(q, S) == q \in Seq(S) /\ \A n \in S : \E i \in DOMAIN q : q[i] = n

\* A sorted list has every Node.
LEMMA SortedIs ==
  ASSUME NEW S, IsFiniteSet(S), NEW infos, NEW q \in Sorted(S, infos)
  PROVE  ListsAll(q, S)
<1> DEFINE D == 1 .. Cardinality(S)
<1>1. q \in [D -> S] /\ \A i, j \in D : i # j => q[i] # q[j]
  BY DEF Sorted, SetToSeqs
<1>2. Cardinality(S) \in Nat
  BY FS_CardinalityType
<1>3. q \in Injection(D, S)
  BY <1>1 DEF Injection, IsInjective
<1>4. Cardinality(D) = Cardinality(S)
  <2>1. 1 \in Int /\ Cardinality(S) \in Int
    BY <1>2
  <2>2. Cardinality(D) = IF 1 > Cardinality(S) THEN 0 ELSE Cardinality(S) - 1 + 1
    BY <2>1, FS_Interval
  <2> QED
    BY <1>2, <2>2
<1>5. q \in Surjection(D, S)
  <2> HIDE DEF D
  <2> QED
    BY <1>3, <1>4, FS_Injection
<1>6. q \in Seq(S) /\ DOMAIN q = D
  BY <1>1, <1>2
<1> QED
  BY <1>5, <1>6 DEF Surjection, ListsAll

IsInfo(r) == {"tx", "tdma", "status", "applied", "started", "optimized"} \subseteq DOMAIN r

IsInfos(f, S) == DOMAIN f = S /\ \A n \in S : IsInfo(f[n])

\* The phases between two refreshes.
Settled == {"idle", "write", "beaconOff", "send", "beaconOn"}

ListsInv ==
  /\ Members \subseteq Nodes /\ IsFiniteSet(Members)
  /\ IsInfos(info, Members)
  /\ ListsAll(allNodes, Members)
  /\ phase \in {"calculate", "write"} => todo \in Seq(Members)
  /\ op = "none" <=> phase = "idle"

DeviceInv == DOMAIN device = Nodes

InTodo(n) == \E i \in DOMAIN todo : todo[i] = n

\* No flag of an earlier schedule outlives the calculation of a new one, unless
\* the network is not OK.
FlagsInv ==
  /\ phase = "calculate" => \A n \in Members : InTodo(n) \/ ~info[n].applied
  /\ phase \in SearchPhases \cup {"optimize"} => \A n \in Members : ~info[n].applied
  /\ phase = "failed" /\ AllOk => \A n \in Members : ~info[n].applied
  /\ phase \in Settled /\ networkOk => \A n \in Members : info[n].applied => device[n] = Computed(n)
  /\ phase = "write" => networkOk /\ \A n \in Members : InTodo(n) \/ info[n].applied
  /\ configApplied => phase \in Settled /\ networkOk /\ \A n \in Members : info[n].applied

Inv == ListsInv /\ DeviceInv /\ FlagsInv

-----------------------------------------------------------------------------
(* What the steps do to the Nodes' entries *)

LEMMA ExceptIs ==
  ASSUME NEW S, NEW f, IsInfos(f, S), NEW h, NEW r, h \in S => IsInfo(r)
  PROVE  /\ IsInfos([f EXCEPT ![h] = r], S) /\ DOMAIN [f EXCEPT ![h] = r] = S
         /\ \A n \in S : [f EXCEPT ![h] = r][n] = IF n = h THEN r ELSE f[n]
<1> DEFINE g == [f EXCEPT ![h] = r]
<1>1. DOMAIN f = S
  BY DEF IsInfos
<1>2. DOMAIN g = S
  BY <1>1
<1>3. \A n \in S : g[n] = IF n = h THEN r ELSE f[n]
  BY <1>1
<1> HIDE DEF g
<1>4. \A n \in S : IsInfo(g[n])
  BY <1>3 DEF IsInfos
<1>5. IsInfos(g, S) /\ DOMAIN g = S /\ \A n \in S : g[n] = IF n = h THEN r ELSE f[n]
  BY <1>2, <1>3, <1>4 DEF IsInfos
<1> QED
  BY <1>5 DEF g

\* An entry with some of its fields changed.
LEMMA EntryIs ==
  ASSUME NEW r, IsInfo(r), NEW x, NEW y
  PROVE  /\ LET c == [r EXCEPT !.tx = x, !.applied = FALSE]
            IN IsInfo(c) /\ ~c.applied
         /\ LET u == [r EXCEPT !.status = x, !.applied = FALSE]
            IN IsInfo(u) /\ ~u.applied /\ u.status = x
         /\ LET o == [r EXCEPT !.optimized = x]
            IN IsInfo(o) /\ o.applied = r.applied /\ o.tx = r.tx /\ o.tdma = r.tdma
         /\ LET s == [r EXCEPT !.status = x]
            IN IsInfo(s) /\ s.applied = r.applied
         /\ LET t == [r EXCEPT !.status = x, !.tdma = y]
            IN IsInfo(t) /\ t.applied = r.applied
         /\ LET b == [r EXCEPT !.started = x]
            IN IsInfo(b) /\ b.applied = r.applied /\ b.tx = r.tx /\ b.tdma = r.tdma
         /\ LET w == [r EXCEPT !.applied = TRUE]
            IN IsInfo(w) /\ w.applied /\ w.tx = r.tx /\ w.tdma = r.tdma
         /\ LET e == [r EXCEPT !.tx = x]
            IN IsInfo(e) /\ e.applied = r.applied
  BY DEF IsInfo

LEMMA CalculatedIs ==
  ASSUME NEW S, NEW f, IsInfos(f, S), NEW h, NEW optimize
  PROVE  /\ IsInfos(Calculated(f, h, optimize), S) /\ DOMAIN Calculated(f, h, optimize) = S
         /\ h \in S => ~Calculated(f, h, optimize)[h].applied
         /\ \A n \in S : n # h => Calculated(f, h, optimize)[n] = f[n]
<1> DEFINE r == [f[h] EXCEPT !.tx = TxPerGroup(h, optimize), !.applied = FALSE]
<1>1. Calculated(f, h, optimize) = [f EXCEPT ![h] = r]
  BY DEF Calculated
<1>2. h \in S => IsInfo(r) /\ ~r.applied
  BY EntryIs DEF IsInfos
<1> HIDE DEF r
<1> DEFINE g == [f EXCEPT ![h] = r]
<1>3. IsInfos(g, S) /\ DOMAIN g = S /\ \A n \in S : g[n] = IF n = h THEN r ELSE f[n]
  BY <1>2, ExceptIs
<1>4. Calculated(f, h, optimize) = g
  BY <1>1
<1> HIDE DEF g
<1> QED
  BY <1>2, <1>3, <1>4

LEMMA UnreachableIs ==
  ASSUME NEW S, NEW f, IsInfos(f, S), NEW h
  PROVE  /\ IsInfos(Unreachable(f, h), S) /\ DOMAIN Unreachable(f, h) = S
         /\ h \in S => ~Unreachable(f, h)[h].applied /\ Unreachable(f, h)[h].status # "OK"
         /\ \A n \in S : n # h => Unreachable(f, h)[n] = f[n]
<1> DEFINE r == [f[h] EXCEPT !.status = "PoorCommunication", !.applied = FALSE]
<1>1. Unreachable(f, h) = [f EXCEPT ![h] = r]
  BY DEF Unreachable
<1>2. h \in S => IsInfo(r) /\ ~r.applied /\ r.status # "OK"
  <2>1. h \in S => IsInfo(f[h])
    BY DEF IsInfos
  <2>2. h \in S => IsInfo(r) /\ ~r.applied /\ r.status = "PoorCommunication"
    BY <2>1 DEF IsInfo
  <2> QED
    BY <2>2
<1> HIDE DEF r
<1> DEFINE g == [f EXCEPT ![h] = r]
<1>3. IsInfos(g, S) /\ DOMAIN g = S /\ \A n \in S : g[n] = IF n = h THEN r ELSE f[n]
  BY <1>2, ExceptIs
<1>4. Unreachable(f, h) = g
  BY <1>1
<1> HIDE DEF g
<1> QED
  BY <1>2, <1>3, <1>4

-----------------------------------------------------------------------------
(* Initially *)

LEMMA InitInv == Init => Inv
<1> SUFFICES ASSUME Init PROVE Inv
  OBVIOUS
<1> USE DEF Init, ScheduleInit
<1>1. Members = {}
  BY DEF Members
<1>2. ListsInv
  BY <1>1, FS_EmptySet DEF ListsInv, IsInfos, ListsAll
<1>3. DeviceInv
  BY DEF DeviceInv
<1>4. FlagsInv
  BY <1>1 DEF FlagsInv, SearchPhases
<1> QED
  BY <1>2, <1>3, <1>4 DEF Inv

-----------------------------------------------------------------------------
(* A refresh begins *)

LEMMA RefreshBegins ==
  ASSUME NEW o \in {"add", "reject", "remove", "refresh"}, NEW n,
         Refreshing(o, n), UNCHANGED device, DeviceInv,
         (Members \subseteq Nodes /\ IsFiniteSet(Members) /\ IsInfos(info, Members))',
         ListsAll(allNodes', Members')
  PROVE  Inv'
<1>1. op' = o /\ phase' = "calculate" /\ todo' = allNodes' /\ configApplied' = FALSE
  BY DEF Refreshing
<1>2. ListsInv'
  BY <1>1 DEF ListsInv, ListsAll
<1>3. DeviceInv'
  BY DEF DeviceInv
<1>4. FlagsInv'
  BY <1>1 DEF FlagsInv, InTodo, ListsAll, SearchPhases, Settled
<1> QED
  BY <1>2, <1>3, <1>4 DEF Inv

LEMMA AddNodeKept ==
  ASSUME Inv, NEW n \in Nodes, NEW p \in BOOLEAN, AddNode(n, p), UNCHANGED device
  PROVE  Inv'
<1>1. /\ n \notin Members /\ info' = [m \in Members \cup {n} |-> IF m = n THEN NewInfo ELSE info[m]]
      /\ allNodes' = Append(allNodes, n) /\ Refreshing("add", n)
  BY DEF AddNode
<1>2. Members' = Members \cup {n}
  BY <1>1 DEF Members
<1>3. Members' \subseteq Nodes /\ IsFiniteSet(Members')
  BY <1>2, FS_AddElement DEF Inv, ListsInv
<1>4. IsInfos(info', Members')
  <2>1. IsInfo(NewInfo)
    BY DEF IsInfo, NewInfo
  <2>2. \A m \in Members : IsInfo(info[m])
    BY DEF Inv, ListsInv, IsInfos
  <2>3. \A m \in Members' : IsInfo(info'[m])
    BY <1>1, <1>2, <2>1, <2>2
  <2> QED
    BY <1>1, <1>2, <2>3 DEF IsInfos
<1>5. ListsAll(allNodes', Members')
  <2> DEFINE q == allNodes
  <2>1. q \in Seq(Members \cup {n}) /\ n \in Members \cup {n} /\ \A m \in Members : \E i \in DOMAIN q : q[i] = m
    BY DEF Inv, ListsInv, ListsAll
  <2>2. allNodes' = Append(q, n)
    BY <1>1
  <2> HIDE DEF q
  <2>3. /\ allNodes' \in Seq(Members \cup {n}) /\ Len(q) + 1 \in DOMAIN allNodes'
        /\ allNodes'[Len(q) + 1] = n
        /\ \A i \in DOMAIN q : i \in DOMAIN allNodes' /\ allNodes'[i] = q[i]
    BY <2>1, <2>2
  <2>4. \A m \in Members \cup {n} : \E i \in DOMAIN allNodes' : allNodes'[i] = m
    BY <2>1, <2>3
  <2> QED
    BY <1>2, <2>3, <2>4 DEF ListsAll
<1> QED
  BY <1>1, <1>3, <1>4, <1>5, RefreshBegins DEF Inv

LEMMA WithoutKept ==
  ASSUME Inv, NEW o \in {"reject", "remove"}, NEW n, Without(o, n), UNCHANGED device
  PROVE  Inv'
<1>1. /\ info' = [m \in Members \ {n} |-> info[m]]
      /\ allNodes' = Among(allNodes, Nodes \ {n}) /\ Refreshing(o, 0)
  BY DEF Without
<1>2. Members' = Members \ {n}
  BY <1>1 DEF Members
<1>3. Members' \subseteq Nodes /\ IsFiniteSet(Members')
  BY <1>2, FS_RemoveElement DEF Inv, ListsInv
<1>4. IsInfos(info', Members')
  BY <1>1, <1>2 DEF Inv, ListsInv, IsInfos
<1>5. ListsAll(allNodes', Members')
  <2> DEFINE q == allNodes
             D == Nodes \ {n}
             r == Among(q, D)
  <2>1. q \in Seq(Members) /\ \A m \in Members : \E i \in DOMAIN q : q[i] = m
    BY DEF Inv, ListsInv, ListsAll
  <2> HIDE DEF q
  <2> HIDE DEF D
  <2>2. /\ r \in Seq(Members \cap D)
        /\ \A i \in DOMAIN q : q[i] \in D => \E j \in DOMAIN r : r[j] = q[i]
    BY <2>1, AmongIs
  <2>3. Members \cap D = Members' /\ Members' \subseteq Members
    BY <1>2, <1>3 DEF Inv, ListsInv, D
  <2>4. \A m \in Members' : \E j \in DOMAIN r : r[j] = m
    BY <2>1, <2>2, <2>3
  <2> HIDE DEF r
  <2>5. allNodes' = r
    BY <1>1 DEF r, q, D
  <2> QED
    BY <2>2, <2>3, <2>4, <2>5 DEF ListsAll
<1> QED
  BY <1>1, <1>3, <1>4, <1>5, RefreshBegins DEF Inv

-----------------------------------------------------------------------------
(* The steps of a refresh *)

\* A step inside the refresh, once every flag is down.
LEMMA FlagsDown ==
  ASSUME Inv, phase \notin Settled, configApplied' = configApplied,
         phase' \in SearchPhases \cup {"optimize", "failed"},
         op' = op, UNCHANGED device, Members' = Members, IsInfos(info', Members),
         \A n \in Members : ~info'[n].applied, ListsAll(allNodes', Members)
  PROVE  Inv'
<1>1. ~configApplied' /\ phase' \notin Settled /\ phase' \notin {"calculate", "write", "idle"} /\ phase # "idle"
  BY DEF Inv, FlagsInv, SearchPhases, Settled
<1>2. ListsInv'
  BY <1>1 DEF Inv, ListsInv
<1>3. FlagsInv'
  BY <1>1 DEF FlagsInv, Settled
<1> QED
  BY <1>2, <1>3 DEF Inv, DeviceInv

\* A refresh returns, or throws.
LEMMA RefreshReturns ==
  ASSUME Inv, phase \notin Settled, Return, UNCHANGED <<device, configApplied, allNodes>>,
         Members' = Members, IsInfos(info', Members),
         networkOk' => \A n \in Members : ~info'[n].applied
  PROVE  Inv'
<1>1. ~configApplied' /\ phase' = "idle" /\ op' = "none" /\ todo' = <<>>
  BY DEF Inv, FlagsInv, Return
<1>2. ListsInv'
  BY <1>1 DEF Inv, ListsInv
<1>3. FlagsInv'
  BY <1>1 DEF FlagsInv, Settled, SearchPhases
<1> QED
  BY <1>2, <1>3 DEF Inv, DeviceInv

LEMMA CalculateNodeKept ==
  ASSUME Inv, CalculateNode, UNCHANGED device
  PROVE  Inv'
<1> DEFINE h == Head(todo)
<1>1. /\ phase = "calculate" /\ todo # <<>> /\ op' = op /\ allNodes' = allNodes
      /\ networkOk' = networkOk /\ configApplied' = configApplied
      /\ IsInfos(info, Members) /\ todo \in Seq(Members)
  BY DEF CalculateNode, lists, status, Inv, ListsInv
<1>2. h \in Members /\ Tail(todo) \in Seq(Members) /\ h = todo[1]
      /\ \A i \in DOMAIN todo : i # 1 => i - 1 \in DOMAIN Tail(todo) /\ Tail(todo)[i - 1] = todo[i]
  BY <1>1
<1>3. CASE info' = Calculated(info, h, FALSE) /\ todo' = Tail(todo) /\ UNCHANGED phase
  <2>1. /\ IsInfos(info', Members) /\ Members' = Members /\ ~info'[h].applied
        /\ \A n \in Members : n # h => info'[n] = info[n]
    <3> DEFINE c == Calculated(info, h, FALSE)
    <3>1. /\ IsInfos(c, Members) /\ DOMAIN c = Members /\ ~c[h].applied
          /\ \A n \in Members : n # h => c[n] = info[n]
      <4>1. \A b : LET d == Calculated(info, h, b)
                  IN  /\ IsInfos(d, Members) /\ DOMAIN d = Members /\ ~d[h].applied
                      /\ \A n \in Members : n # h => d[n] = info[n]
        <5> HIDE DEF h
        <5> QED
          BY <1>1, <1>2, CalculatedIs
      <4> QED
        BY <4>1, Zenon
    <3>2. info' = c
      BY <1>3
    <3> HIDE DEF c
    <3> QED
      BY <3>1, <3>2 DEF Members
  <2>2. \A n \in Members : InTodo(n)' \/ ~info'[n].applied
    <3> TAKE n \in Members
    <3>1. CASE n = h
      BY <2>1, <3>1
    <3>2. CASE n # h /\ ~info[n].applied
      BY <2>1, <3>2
    <3>3. CASE n # h /\ InTodo(n)
      <4>1. PICK i \in DOMAIN todo : todo[i] = n
        BY <3>3 DEF InTodo
      <4>2. i # 1
        BY <1>2, <3>3, <4>1
      <4>3. i - 1 \in DOMAIN todo' /\ todo'[i - 1] = n
        BY <1>2, <1>3, <4>1, <4>2
      <4> QED
        BY <4>3 DEF InTodo
    <3> QED
      BY <1>1, <3>1, <3>2, <3>3 DEF Inv, FlagsInv
  <2>3. ListsInv'
    BY <1>1, <1>2, <1>3, <2>1 DEF Inv, ListsInv
  <2>4. FlagsInv'
    BY <1>1, <1>3, <2>1, <2>2 DEF Inv, FlagsInv, SearchPhases, Settled
  <2> QED
    BY <2>3, <2>4 DEF Inv, DeviceInv
<1>4. CASE info' = Unreachable(info, h) /\ phase' = "failed" /\ UNCHANGED todo
  <2>1. IsInfos(info', Members) /\ Members' = Members /\ info'[h].status # "OK"
    BY <1>1, <1>2, <1>4, UnreachableIs DEF Members
  <2>2. ~AllOk'
    BY <1>2, <2>1 DEF AllOk
  <2>3. ListsInv'
    BY <1>1, <1>4, <2>1 DEF Inv, ListsInv
  <2>4. FlagsInv'
    BY <1>1, <1>4, <2>2 DEF Inv, FlagsInv, SearchPhases, Settled
  <2> QED
    BY <2>3, <2>4 DEF Inv, DeviceInv
<1> QED
  BY <1>3, <1>4 DEF CalculateNode

LEMMA SlotsForOthersKept ==
  ASSUME Inv, SlotsForOthers, UNCHANGED device
  PROVE  Inv'
<1>1. /\ phase = "calculate" /\ todo = <<>> /\ op' = op /\ info' = info /\ allNodes' = allNodes
      /\ configApplied' = configApplied /\ phase' = "others"
  BY DEF SlotsForOthers, lists, status, FindSlots
<1>2. \A n \in Members : ~info[n].applied
  BY <1>1 DEF Inv, FlagsInv, InTodo
<1>3. Members' = Members /\ IsInfos(info', Members) /\ ListsAll(allNodes', Members)
  BY <1>1 DEF Inv, ListsInv, Members
<1> QED
  BY <1>1, <1>2, <1>3, FlagsDown DEF SearchPhases, Settled

LEMMA FindSlotKept ==
  ASSUME Inv, FindSlot, UNCHANGED device
  PROVE  Inv'
<1> DEFINE h == Head(todo)
<1>1. /\ phase \in SearchPhases /\ op' = op /\ phase' = phase /\ allNodes' = allNodes
      /\ configApplied' = configApplied
  BY DEF FindSlot, lists, status
<1>2. \E x, y : \/ info' = [info EXCEPT ![h].status = x]
                \/ info' = [info EXCEPT ![h].status = x, ![h].tdma = y]
  BY DEF FindSlot
<1>3. PICK x, y : \/ info' = [info EXCEPT ![h].status = x]
                  \/ info' = [info EXCEPT ![h].status = x, ![h].tdma = y]
  BY <1>2
<1>4. IsInfos(info, Members) /\ ListsAll(allNodes, Members) /\ \A n \in Members : ~info[n].applied
  BY <1>1 DEF Inv, ListsInv, FlagsInv
<1>5. Members' = Members /\ IsInfos(info', Members) /\ \A n \in Members : ~info'[n].applied
  <2>1. \E r : info' = [info EXCEPT ![h] = r] /\ (h \in Members => IsInfo(r) /\ ~r.applied)
    <3>1. h \in Members => IsInfo(info[h]) /\ ~info[h].applied
      BY <1>4 DEF IsInfos
    <3>2. CASE info' = [info EXCEPT ![h].status = x]
      <4> DEFINE r == [info[h] EXCEPT !.status = x]
      <4>1. info' = [info EXCEPT ![h] = r]
        BY <3>2
      <4>2. h \in Members => IsInfo(r) /\ ~r.applied
        BY <3>1 DEF IsInfo
      <4> QED
        BY <4>1, <4>2
    <3>3. CASE info' = [info EXCEPT ![h].status = x, ![h].tdma = y]
      <4> DEFINE r == [info[h] EXCEPT !.status = x, !.tdma = y]
      <4>1. info' = [info EXCEPT ![h] = r]
        BY <3>3
      <4>2. h \in Members => IsInfo(r) /\ ~r.applied
        BY <3>1 DEF IsInfo
      <4> QED
        BY <4>1, <4>2
    <3> QED
      BY <1>3, <3>2, <3>3
  <2>2. PICK r : info' = [info EXCEPT ![h] = r] /\ (h \in Members => IsInfo(r) /\ ~r.applied)
    BY <2>1
  <2>3. /\ IsInfos(info', Members) /\ DOMAIN info' = Members
        /\ \A n \in Members : info'[n] = IF n = h THEN r ELSE info[n]
    BY <1>4, <2>2, ExceptIs
  <2> QED
    BY <1>4, <2>2, <2>3 DEF Members
<1>6. phase \notin Settled
  BY <1>1 DEF SearchPhases, Settled
<1> QED
  BY <1>1, <1>4, <1>5, <1>6, FlagsDown

LEMMA RereadFailsKept ==
  ASSUME Inv, RereadFails, UNCHANGED device
  PROVE  Inv'
<1>1. /\ phase \in SearchPhases \cup {"optimize"} /\ phase' = "failed" /\ op' = op
      /\ info' = info /\ allNodes' = allNodes /\ configApplied' = configApplied
  BY DEF RereadFails, lists, status
<1>2. Members' = Members /\ IsInfos(info', Members) /\ ListsAll(allNodes', Members)
  BY <1>1 DEF Inv, ListsInv, Members
<1>3. phase \notin Settled /\ \A n \in Members : ~info'[n].applied
  BY <1>1 DEF Inv, FlagsInv, SearchPhases, Settled
<1> QED
  BY <1>1, <1>2, <1>3, FlagsDown

LEMMA SlotsForAllKept ==
  ASSUME Inv, SlotsForAll, UNCHANGED device
  PROVE  Inv'
<1>1. /\ phase = "others" /\ phase' = "all" /\ op' = op /\ configApplied' = configApplied
      /\ allNodes' \in Sorted(Members, info')
  BY DEF SlotsForAll, status, FindSlots
<1>2. PICK tx : info' = [n \in Members |-> IF n \in DOMAIN tx THEN [info[n] EXCEPT !.tx = tx[n]] ELSE info[n]]
  BY DEF SlotsForAll
<1>3. IsInfos(info, Members) /\ IsFiniteSet(Members) /\ \A n \in Members : ~info[n].applied
  BY <1>1 DEF Inv, ListsInv, FlagsInv, SearchPhases
<1>4. Members' = Members /\ IsInfos(info', Members) /\ \A n \in Members : ~info'[n].applied
  <2>1. DOMAIN info' = Members
    BY <1>2
  <2>2. ASSUME NEW n \in Members
        PROVE  IsInfo(info'[n]) /\ ~info'[n].applied
    <3>1. IsInfo(info[n]) /\ ~info[n].applied
      BY <1>3 DEF IsInfos
    <3>2. info'[n] = info[n] \/ \E x : info'[n] = [info[n] EXCEPT !.tx = x]
      BY <1>2
    <3> QED
      BY <3>1, <3>2 DEF IsInfo
  <2> QED
    BY <2>1, <2>2 DEF IsInfos, Members
<1>5. ListsAll(allNodes', Members)
  BY <1>1, <1>3, SortedIs
<1>6. phase \notin Settled /\ "all" \in SearchPhases
  BY <1>1 DEF Settled, SearchPhases
<1> QED
  BY <1>1, <1>4, <1>5, <1>6, FlagsDown

LEMMA SlotsFoundKept ==
  ASSUME Inv, SlotsFound, UNCHANGED device
  PROVE  Inv'
<1>1. /\ phase = "all" /\ allNodes' = allNodes /\ configApplied' = configApplied
      /\ IsInfos(info, Members) /\ ListsAll(allNodes, Members) /\ \A n \in Members : ~info[n].applied
  BY DEF SlotsFound, lists, Inv, ListsInv, FlagsInv, SearchPhases
<1>2. phase \notin Settled
  BY <1>1 DEF Settled
<1>3. CASE /\ info' = [n \in Members |-> [info[n] EXCEPT !.optimized = FALSE]]
           /\ phase' = "optimize" /\ UNCHANGED op
  <2>1. DOMAIN info' = Members
    BY <1>3
  <2>2. ASSUME NEW n \in Members
        PROVE  IsInfo(info'[n]) /\ ~info'[n].applied
    <3>1. IsInfo(info[n]) /\ ~info[n].applied
      BY <1>1 DEF IsInfos
    <3>2. \E x : info'[n] = [info[n] EXCEPT !.optimized = x]
      BY <1>3
    <3> QED
      BY <3>1, <3>2 DEF IsInfo
  <2>3. Members' = Members /\ IsInfos(info', Members)
    BY <2>1, <2>2 DEF IsInfos, Members
  <2> QED
    BY <1>1, <1>2, <1>3, <2>2, <2>3, FlagsDown
<1>4. CASE Return /\ UNCHANGED info
  <2>1. Members' = Members
    BY <1>4 DEF Members
  <2> QED
    BY <1>1, <1>2, <1>4, <2>1, RefreshReturns
<1> QED
  BY <1>3, <1>4 DEF SlotsFound

\* One Node's values are computed again, and the slots are searched again.
LEMMA ResortKept ==
  ASSUME Inv, phase \in SearchPhases \cup {"optimize"}, NEW n, NEW optimize, NEW p \in {"try", "restore"},
         Resort(Calculated(info, n, optimize), p), op' = op, UNCHANGED <<device, configApplied>>
  PROVE  Inv'
<1>1. IsInfos(info, Members) /\ IsFiniteSet(Members) /\ \A m \in Members : ~info[m].applied
  BY DEF Inv, ListsInv, FlagsInv, SearchPhases
<1> DEFINE c == Calculated(info, n, optimize)
<1>2. IsInfos(c, Members) /\ DOMAIN c = Members /\ \A m \in Members : ~c[m].applied
  <2>1. /\ IsInfos(c, Members) /\ DOMAIN c = Members /\ (n \in Members => ~c[n].applied)
        /\ \A m \in Members : m # n => c[m] = info[m]
    BY <1>1, CalculatedIs
  <2> HIDE DEF c
  <2> QED
    BY <1>1, <2>1
<1>3. info' = c /\ allNodes' \in Sorted(Members, c) /\ phase' = p
  BY DEF Resort, FindSlots
<1> HIDE DEF c
<1>4. Members' = Members /\ IsInfos(info', Members) /\ \A m \in Members : ~info'[m].applied
  BY <1>2, <1>3 DEF Members
<1>5. ListsAll(allNodes', Members)
  BY <1>1, <1>3, SortedIs
<1>6. phase \notin Settled /\ phase' \in SearchPhases
  BY <1>3 DEF Settled, SearchPhases
<1> QED
  BY <1>4, <1>5, <1>6, FlagsDown

\* A setting of a Node cannot be read again, or a Node is marked as tried.
LEMMA MarkedKept ==
  ASSUME Inv, phase \in SearchPhases \cup {"optimize"}, NEW n,
         \/ info' = Unreachable(info, n) /\ phase' = "failed"
         \/ info' = [info EXCEPT ![n].optimized = TRUE] /\ phase' = "optimize",
         op' = op, UNCHANGED <<device, configApplied, allNodes>>
  PROVE  Inv'
<1>1. IsInfos(info, Members) /\ ListsAll(allNodes, Members) /\ \A m \in Members : ~info[m].applied
  BY DEF Inv, ListsInv, FlagsInv, SearchPhases
<1>2. IsInfos(info', Members) /\ DOMAIN info' = Members /\ \A m \in Members : ~info'[m].applied
  <2>1. CASE info' = Unreachable(info, n)
    <3> DEFINE u == Unreachable(info, n)
    <3>0. /\ IsInfos(u, Members) /\ DOMAIN u = Members /\ (n \in Members => ~u[n].applied)
          /\ \A m \in Members : m # n => u[m] = info[m]
      BY <1>1, UnreachableIs
    <3> HIDE DEF u
    <3>1. IsInfos(u, Members) /\ DOMAIN u = Members /\ \A m \in Members : ~u[m].applied
      BY <1>1, <3>0
    <3> QED
      BY <2>1, <3>1 DEF u
  <2>2. CASE info' = [info EXCEPT ![n].optimized = TRUE]
    <3> DEFINE r == [info[n] EXCEPT !.optimized = TRUE]
    <3>1. info' = [info EXCEPT ![n] = r]
      BY <2>2
    <3>2. n \in Members => IsInfo(r) /\ ~r.applied
      BY <1>1 DEF IsInfos, IsInfo
    <3> HIDE DEF r
    <3>3. /\ IsInfos(info', Members) /\ DOMAIN info' = Members
          /\ \A m \in Members : info'[m] = IF m = n THEN r ELSE info[m]
      BY <1>1, <3>1, <3>2, ExceptIs
    <3> QED
      BY <1>1, <3>2, <3>3
  <2> QED
    BY <2>1, <2>2
<1>3. Members' = Members
  BY <1>2 DEF Members
<1>4. phase \notin Settled /\ phase' \in {"optimize", "failed"}
  BY DEF Settled, SearchPhases
<1> QED
  BY <1>1, <1>2, <1>3, <1>4, FlagsDown

LEMMA OptimizeKept ==
  ASSUME Inv, Optimize \/ Optimized, UNCHANGED device
  PROVE  Inv'
<1>1. phase \in SearchPhases \cup {"optimize"} /\ op' = op /\ configApplied' = configApplied
  BY DEF Optimize, Optimized, SearchPhases, status
<1>2. \/ \E n : info' = [info EXCEPT ![n].optimized = TRUE] /\ phase' = "optimize" /\ allNodes' = allNodes
      \/ \E n : info' = Unreachable(info, n) /\ phase' = "failed" /\ allNodes' = allNodes
      \/ \E n, optimize : \E p \in {"try", "restore"} : Resort(Calculated(info, n, optimize), p)
  <2>1. CASE Optimize
    <3> DEFINE h == Last(ToOptimize)
    <3>1. \/ info' = [info EXCEPT ![h].optimized = TRUE] /\ phase' = phase /\ allNodes' = allNodes
          \/ Resort(Calculated(info, h, TRUE), "try")
          \/ info' = Unreachable(info, h) /\ phase' = "failed" /\ allNodes' = allNodes
      BY <2>1 DEF Optimize
    <3>2. phase = "optimize"
      BY <2>1 DEF Optimize
    <3> QED
      BY <3>1, <3>2, Zenon
  <2>2. CASE Optimized
    <3>1. \/ info' = [info EXCEPT ![trying].optimized = TRUE] /\ phase' = "optimize" /\ allNodes' = allNodes
          \/ Resort(Calculated(info, trying, FALSE), "restore")
          \/ info' = Unreachable(info, trying) /\ phase' = "failed" /\ allNodes' = allNodes
      BY <2>2 DEF Optimized
    <3> QED
      BY <3>1, Zenon
  <2> QED
    BY <2>1, <2>2
<1>3. CASE \E n, optimize : \E p \in {"try", "restore"} : Resort(Calculated(info, n, optimize), p)
  <2>1. PICK n, optimize : \E p \in {"try", "restore"} : Resort(Calculated(info, n, optimize), p)
    BY <1>3, Zenon
  <2>2. PICK p \in {"try", "restore"} : Resort(Calculated(info, n, optimize), p)
    BY <2>1, Zenon
  <2> QED
    BY <1>1, <2>2, ResortKept, Zenon
<1>4. CASE \/ \E n : info' = [info EXCEPT ![n].optimized = TRUE] /\ phase' = "optimize" /\ allNodes' = allNodes
           \/ \E n : info' = Unreachable(info, n) /\ phase' = "failed" /\ allNodes' = allNodes
  <2>1. PICK n : \/ info' = [info EXCEPT ![n].optimized = TRUE] /\ phase' = "optimize" /\ allNodes' = allNodes
                 \/ info' = Unreachable(info, n) /\ phase' = "failed" /\ allNodes' = allNodes
    BY <1>4, Zenon
  <2> QED
    BY <1>1, <2>1, MarkedKept
<1> QED
  BY <1>2, <1>3, <1>4

LEMMA OptimizationDoneKept ==
  ASSUME Inv, OptimizationDone, UNCHANGED device
  PROVE  Inv'
<1>1. /\ phase \in {"optimize", "restore"} /\ Return
      /\ info' = info /\ allNodes' = allNodes /\ configApplied' = configApplied
  BY DEF OptimizationDone, lists
<1>2. /\ phase \notin Settled /\ Members' = Members /\ IsInfos(info', Members)
      /\ \A n \in Members : ~info'[n].applied
  BY <1>1 DEF Inv, ListsInv, FlagsInv, SearchPhases, Settled, Members
<1> QED
  BY <1>1, <1>2, RefreshReturns

LEMMA ThrowKept ==
  ASSUME Inv, Throw, UNCHANGED device
  PROVE  Inv'
<1>1. phase = "failed" /\ networkOk' = AllOk
  BY DEF Throw
<1>2. CASE Without("reject", adding)
  BY <1>2, WithoutKept
<1>3. CASE Return /\ UNCHANGED <<info, lists, configApplied>>
  <2>1. /\ phase \notin Settled /\ Members' = Members /\ IsInfos(info', Members) /\ allNodes' = allNodes
        /\ networkOk' => \A n \in Members : ~info'[n].applied
    BY <1>1, <1>3 DEF Inv, ListsInv, FlagsInv, Settled, Members, lists
  <2> QED
    BY <1>3, <2>1, RefreshReturns
<1> QED
  BY <1>2, <1>3 DEF Throw

-----------------------------------------------------------------------------
(* Configuring and starting *)

LEMMA SchedulingKept ==
  ASSUME Inv, ScheduleNext, UNCHANGED devices
  PROVE  Inv'
<1>1. UNCHANGED device /\ DeviceInv
  BY DEF devices, Inv
<1>2. ASSUME NEW n \in Nodes, NEW p \in BOOLEAN, AddNode(n, p) PROVE Inv'
  BY <1>1, <1>2, AddNodeKept
<1>3. ASSUME NEW n \in Nodes, AddRejected(n) PROVE Inv'
  BY <1>1, <1>3, WithoutKept DEF AddRejected
<1>4. ASSUME NEW n \in Nodes, RemoveNode(n) PROVE Inv'
  BY <1>1, <1>4, WithoutKept DEF RemoveNode
<1>5. ASSUME NEW n \in Nodes, NEW d \in Demands[n], Reconfigure(n, d) PROVE Inv'
  <2>1. UNCHANGED <<info, allNodes, op, phase, todo, networkOk, configApplied, device>>
    BY <1>1, <1>5 DEF Reconfigure, lists, status, call
  <2>2. ListsInv'
    BY <2>1 DEF Inv, ListsInv, Members
  <2>3. FlagsInv'
    BY <2>1 DEF Inv, FlagsInv, Members, InTodo, AllOk, Computed, InLegacyMode
  <2> QED
    BY <2>1, <2>2, <2>3 DEF Inv, DeviceInv
<1>6. ASSUME Refresh \/ SetLossless \/ \E p \in DOMAIN Spacing : SetCommunicationProtocol(p) PROVE Inv'
  <2>1. UNCHANGED <<info, allNodes>> /\ Refreshing("refresh", 0)
    BY <1>6 DEF Refresh, SetLossless, SetCommunicationProtocol, lists
  <2>2. (Members \subseteq Nodes /\ IsFiniteSet(Members) /\ IsInfos(info, Members))'
    BY <2>1 DEF Inv, ListsInv, Members
  <2>3. ListsAll(allNodes', Members')
    BY <2>1 DEF Inv, ListsInv, Members
  <2> QED
    BY <1>1, <2>1, <2>2, <2>3, RefreshBegins
<1>7. ASSUME RefreshStep PROVE Inv'
  BY <1>1, <1>7, CalculateNodeKept, SlotsForOthersKept, RereadFailsKept, FindSlotKept, SlotsForAllKept,
     SlotsFoundKept, OptimizeKept, OptimizationDoneKept, ThrowKept DEF RefreshStep
<1> QED
  BY <1>2, <1>3, <1>4, <1>5, <1>6, <1>7 DEF ScheduleNext

\* A step between two refreshes that touches no entry and no Node's schedule.
LEMMA SettledKept ==
  ASSUME Inv, phase \in Settled, phase' \in Settled \ {"write"}, op' = "none" <=> phase' = "idle",
         UNCHANGED <<info, allNodes, device, networkOk, configApplied>>
  PROVE  Inv'
<1>1. ListsInv'
  BY DEF Inv, ListsInv, Members, Settled
<1>2. FlagsInv'
  BY DEF Inv, FlagsInv, Members, InTodo, AllOk, Computed, InLegacyMode, Settled, SearchPhases
<1> QED
  BY <1>1, <1>2 DEF Inv, DeviceInv

LEMMA ApplyConfigurationKept ==
  ASSUME Inv, ApplyConfiguration
  PROVE  Inv'
<1>1. /\ op = "none" /\ networkOk /\ op' = "apply" /\ phase' = "write" /\ todo' = Unapplied
      /\ UNCHANGED <<info, allNodes, device, networkOk, configApplied>>
  BY DEF ApplyConfiguration, Idle, lists, status, devices
<1>2. phase = "idle" /\ Members' = Members
  BY <1>1 DEF Inv, ListsInv, Members
<1> DEFINE D == {n \in Members : ~info[n].applied}
           q == allNodes
<1>3. q \in Seq(Members) /\ \A n \in Members : \E i \in DOMAIN q : q[i] = n
  BY DEF Inv, ListsInv, ListsAll
<1>4. todo' = Among(q, D)
  BY <1>1 DEF Unapplied
<1> HIDE DEF q, D
<1>5. /\ todo' \in Seq(Members \cap D)
      /\ \A i \in DOMAIN q : q[i] \in D => \E j \in DOMAIN todo' : todo'[j] = q[i]
  BY <1>3, <1>4, AmongIs
<1>6. todo' \in Seq(Members)
  BY <1>5
<1>7. \A n \in Members : InTodo(n)' \/ info'[n].applied
  <2> TAKE n \in Members
  <2>1. SUFFICES ASSUME ~info[n].applied PROVE InTodo(n)'
    BY <1>1
  <2>2. n \in D
    BY <2>1 DEF D
  <2>3. PICK i \in DOMAIN q : q[i] = n
    BY <1>3
  <2> QED
    BY <1>5, <2>2, <2>3 DEF InTodo
<1>8. ListsInv'
  BY <1>1, <1>2, <1>6 DEF Inv, ListsInv
<1>9. FlagsInv'
  BY <1>1, <1>2, <1>7 DEF Inv, FlagsInv, Computed, InLegacyMode, Settled, SearchPhases
<1> QED
  BY <1>1, <1>8, <1>9 DEF Inv, DeviceInv

LEMMA WriteNodeKept ==
  ASSUME Inv, WriteNode
  PROVE  Inv'
<1> DEFINE h == Head(todo)
<1>1. /\ phase = "write" /\ todo # <<>> /\ networkOk /\ UNCHANGED <<allNodes, networkOk, configApplied>>
      /\ IsInfos(info, Members) /\ todo \in Seq(Members) /\ Members \subseteq Nodes /\ DOMAIN device = Nodes
      /\ \A n \in Members : info[n].applied => device[n] = Computed(n)
      /\ \A n \in Members : InTodo(n) \/ info[n].applied
  BY DEF WriteNode, lists, status, Inv, ListsInv, DeviceInv, FlagsInv, Settled
<1>2. h \in Members /\ Tail(todo) \in Seq(Members) /\ h = todo[1]
      /\ \A i \in DOMAIN todo : i # 1 => i - 1 \in DOMAIN Tail(todo) /\ Tail(todo)[i - 1] = todo[i]
  BY <1>1
<1>3. CASE /\ device' = [device EXCEPT ![h] = Computed(h)]
           /\ info' = [info EXCEPT ![h].applied = TRUE]
           /\ todo' = Tail(todo) /\ UNCHANGED <<op, phase>>
  <2> DEFINE r == [info[h] EXCEPT !.applied = TRUE]
  <2>1. info' = [info EXCEPT ![h] = r]
    BY <1>3
  <2>2. IsInfo(r) /\ r.applied /\ r.tx = info[h].tx /\ r.tdma = info[h].tdma
    BY <1>1, <1>2 DEF IsInfos, IsInfo
  <2> HIDE DEF r
  <2>3. /\ IsInfos(info', Members) /\ DOMAIN info' = Members
        /\ \A n \in Members : info'[n] = IF n = h THEN r ELSE info[n]
    BY <1>1, <2>1, <2>2, ExceptIs
  <2>4. Members' = Members
    BY <2>3 DEF Members
  <2>5. \A n \in Members : Computed(n)' = Computed(n)
    BY <2>2, <2>3, <2>4 DEF Computed, InLegacyMode
  <2>6. DOMAIN device' = Nodes /\ \A n \in Nodes : device'[n] = IF n = h THEN Computed(h) ELSE device[n]
    BY <1>1, <1>2, <1>3
  <2>7. \A n \in Members : info'[n].applied => device'[n] = Computed(n)'
    BY <1>1, <2>3, <2>5, <2>6
  <2>8. \A n \in Members : InTodo(n)' \/ info'[n].applied
    <3> TAKE n \in Members
    <3>1. CASE n = h
      BY <2>2, <2>3, <3>1
    <3>2. CASE n # h /\ info[n].applied
      BY <2>3, <3>2
    <3>3. CASE n # h /\ InTodo(n)
      <4>1. PICK i \in DOMAIN todo : todo[i] = n
        BY <3>3 DEF InTodo
      <4>2. i # 1
        BY <1>2, <3>3, <4>1
      <4>3. i - 1 \in DOMAIN todo' /\ todo'[i - 1] = n
        BY <1>2, <1>3, <4>1, <4>2
      <4> QED
        BY <4>3 DEF InTodo
    <3> QED
      BY <1>1, <3>1, <3>2, <3>3
  <2>9. \A n \in Members : info[n].applied => info'[n].applied
    BY <2>2, <2>3
  <2>10. ListsInv'
    BY <1>1, <1>2, <1>3, <2>3, <2>4 DEF Inv, ListsInv
  <2>11. FlagsInv'
    BY <1>1, <1>3, <2>4, <2>7, <2>8, <2>9 DEF Inv, FlagsInv, SearchPhases, Settled
  <2> QED
    BY <2>6, <2>10, <2>11 DEF Inv, DeviceInv
<1>4. CASE /\ device' \in {device, [device EXCEPT ![h].tx = Computed(h).tx], [device EXCEPT ![h] = Computed(h)]}
           /\ Return /\ UNCHANGED info
  <2>1. op' = "none" /\ phase' = "idle" /\ Members' = Members
    BY <1>4 DEF Return, Members
  <2>2. DOMAIN device' = Nodes /\ \A n \in Nodes : n # h => device'[n] = device[n]
    BY <1>1, <1>4
  <2>3. info[h].applied => device'[h] = Computed(h)
    <3>1. SUFFICES ASSUME info[h].applied PROVE device'[h] = Computed(h)
      OBVIOUS
    <3>2. device[h] = Computed(h) /\ h \in DOMAIN device
      BY <1>1, <1>2, <3>1
    <3>3. CASE device' = [device EXCEPT ![h].tx = Computed(h).tx]
      <4> DEFINE x == info[h].tx
                 y == Computed(h).tdma
      <4>1. Computed(h) = [tx |-> x, tdma |-> y]
        BY DEF Computed
      <4> HIDE DEF y
      <4>2. device'[h] = [device[h] EXCEPT !.tx = x]
        BY <3>2, <3>3, <4>1
      <4> QED
        BY <3>2, <4>1, <4>2
    <3> QED
      BY <1>4, <3>2, <3>3
  <2>4. \A n \in Members : info'[n].applied => device'[n] = Computed(n)'
    BY <1>1, <1>4, <2>1, <2>2, <2>3 DEF Computed, InLegacyMode
  <2>5. ListsInv'
    BY <1>1, <1>4, <2>1 DEF Inv, ListsInv
  <2>6. FlagsInv'
    BY <1>1, <1>4, <2>1, <2>4 DEF Inv, FlagsInv, SearchPhases, Settled
  <2> QED
    BY <2>2, <2>5, <2>6 DEF Inv, DeviceInv
<1> QED
  BY <1>3, <1>4 DEF WriteNode

LEMMA AppliedKept ==
  ASSUME Inv, Applied
  PROVE  Inv'
<1>1. /\ phase = "write" /\ todo = <<>> /\ op' = "none" /\ phase' = "idle"
      /\ UNCHANGED <<info, allNodes, networkOk, device>>
  BY DEF Applied, Return, lists, devices
<1>2. networkOk /\ \A n \in Members : info[n].applied
  BY <1>1 DEF Inv, FlagsInv, InTodo
<1>3. ListsInv'
  BY <1>1 DEF Inv, ListsInv, Members
<1>4. FlagsInv'
  BY <1>1, <1>2 DEF Inv, FlagsInv, Members, Computed, InLegacyMode, Settled, SearchPhases
<1> QED
  BY <1>1, <1>3, <1>4 DEF Inv, DeviceInv

LEMMA SendStartKept ==
  ASSUME Inv, SendStart
  PROVE  Inv'
<1>1. phase = "send" /\ UNCHANGED <<op, phase, allNodes, networkOk, configApplied, device>>
  BY DEF SendStart, lists, status
<1>2. CASE UNCHANGED info
  BY <1>1, <1>2, SettledKept DEF Inv, ListsInv, Settled
<1>3. CASE ~UNCHANGED info
  <2> DEFINE h == Head(todo)
             r == [info[h] EXCEPT !.started = TRUE]
  <2>1. info' = [info EXCEPT ![h] = r]
    BY <1>3 DEF SendStart
  <2>2. IsInfos(info, Members)
    BY DEF Inv, ListsInv
  <2>3. h \in Members => IsInfo(r) /\ r.applied = info[h].applied /\ r.tx = info[h].tx /\ r.tdma = info[h].tdma
    BY <2>2 DEF IsInfos, IsInfo
  <2> HIDE DEF r
  <2>4. /\ IsInfos(info', Members) /\ DOMAIN info' = Members
        /\ \A n \in Members : info'[n] = IF n = h THEN r ELSE info[n]
    BY <2>1, <2>2, <2>3, ExceptIs
  <2>5. /\ Members' = Members
        /\ \A n \in Members : (info'[n].applied <=> info[n].applied) /\ Computed(n)' = Computed(n)
    <3>1. Members' = Members
      BY <2>4 DEF Members
    <3> QED
      BY <2>3, <2>4, <3>1 DEF Computed, InLegacyMode
  <2>6. ListsInv'
    BY <1>1, <2>4, <2>5 DEF Inv, ListsInv
  <2>7. FlagsInv'
    BY <1>1, <2>5 DEF Inv, FlagsInv, Settled, SearchPhases
  <2> QED
    BY <1>1, <2>6, <2>7 DEF Inv, DeviceInv
<1> QED
  BY <1>2, <1>3

LEMMA StartingKept ==
  ASSUME Inv,
         \/ \E o \in {"start", "startNoBeacon"} : StartSampling(o)
         \/ \E n \in Nodes : SetToIdle(n)
         \/ DisableBeacon \/ SendThrows \/ NextAttempt \/ Sent \/ EnableBeacon
  PROVE  Inv'
<1>1. op = "none" <=> phase = "idle"
  BY DEF Inv, ListsInv
<1>2. ASSUME NEW o \in {"start", "startNoBeacon"}, StartSampling(o)
      PROVE  Inv'
  <2>1. /\ phase = "idle" /\ phase' \in {"beaconOff", "send"} /\ op' = o
        /\ UNCHANGED <<info, allNodes, device, networkOk, configApplied>>
    BY <1>1, <1>2 DEF StartSampling, Idle, lists, status, devices
  <2> QED
    BY <2>1, SettledKept DEF Settled
<1>3. ASSUME NEW n \in Nodes, SetToIdle(n)
      PROVE  Inv'
  <2>1. /\ phase = "idle" /\ UNCHANGED <<op, phase, info, allNodes, device, networkOk, configApplied>>
    BY <1>1, <1>3 DEF SetToIdle, Idle, scheduleVars, lists, status, call
  <2> QED
    BY <1>1, <2>1, SettledKept DEF Settled
<1>4. ASSUME DisableBeacon \/ SendThrows \/ NextAttempt \/ Sent \/ EnableBeacon
      PROVE  Inv'
  <2>1. /\ phase \in {"beaconOff", "send", "beaconOn"}
        /\ UNCHANGED <<info, allNodes, device, networkOk, configApplied>>
        /\ \/ op' = "none" /\ phase' = "idle"
           \/ op' = op /\ phase' \in {"send", "beaconOn"}
    BY <1>4 DEF DisableBeacon, SendThrows, NextAttempt, Sent, EnableBeacon, Return, lists, status, devices
  <2> QED
    BY <1>1, <2>1, SettledKept DEF Settled
<1> QED
  BY <1>2, <1>3, <1>4

LEMMA InvKept ==
  ASSUME Inv, [Next]_vars
  PROVE  Inv'
<1>1. CASE ScheduleNext /\ UNCHANGED devices
  BY <1>1, SchedulingKept
<1>2. CASE ApplyConfiguration
  BY <1>2, ApplyConfigurationKept
<1>3. CASE ApplyStep
  BY <1>3, WriteNodeKept, AppliedKept DEF ApplyStep
<1>4. CASE \/ \E o \in {"start", "startNoBeacon"} : StartSampling(o)
           \/ \E n \in Nodes : SetToIdle(n)
           \/ StartStep
  BY <1>4, StartingKept, SendStartKept DEF StartStep
<1>5. CASE UNCHANGED vars
  <2>1. UNCHANGED <<op, phase, todo, info, allNodes, device, networkOk, configApplied>>
    BY <1>5 DEF vars, scheduleVars, lists, status, call, devices
  <2>2. ListsInv'
    BY <2>1 DEF Inv, ListsInv, Members
  <2>3. FlagsInv'
    BY <2>1 DEF Inv, FlagsInv, Members, InTodo, AllOk, Computed, InLegacyMode
  <2> QED
    BY <2>1, <2>2, <2>3 DEF Inv, DeviceInv
<1> QED
  BY <1>1, <1>2, <1>3, <1>4, <1>5 DEF Next

\* m_configApplied is what startSampling asks for (SyncSamplingNetwork.cpp:341):
\* while it is set the network is OK and every Node holds its schedule, whichever
\* write, reset or refresh failed on the way.
THEOREM AppliedIsWritten == Spec => []AppliedMeansWritten
<1>1. Inv => AppliedMeansWritten
  BY DEF Inv, FlagsInv, AppliedMeansWritten
<1> QED
  BY <1>1, InitInv, InvKept, PTL DEF Spec

Powers == {2^k : k \in Nat}

\* 2^k as the library knows it: the number of subsets of k things.
LEMMA PowerIs ==
  /\ 2^0 = 1
  /\ \A k \in Nat : 2^k \in Nat \ {0} /\ 2^(k + 1) = 2 * 2^k
<1>1. \A k \in Nat : IsFiniteSet(SUBSET (1 .. k)) /\ Cardinality(SUBSET (1 .. k)) = 2^k
  <2> TAKE k \in Nat
  <2>1. IsFiniteSet(1 .. k) /\ Cardinality(1 .. k) = k
    <3>1. 1 \in Int /\ k \in Int
      OBVIOUS
    <3>2. Cardinality(1 .. k) = IF 1 > k THEN 0 ELSE k - 1 + 1
      BY <3>1, FS_Interval
    <3> QED
      BY <3>1, <3>2, FS_Interval
  <2> QED
    BY <2>1, FS_SUBSET
<1>2. 2^0 = 1
  <2>1. SUBSET (1 .. 0) = {{}}
    OBVIOUS
  <2>2. Cardinality({{}}) = 1
    BY FS_Singleton
  <2>3. Cardinality(SUBSET (1 .. 0)) = 2^0
    BY <1>1
  <2> QED
    BY <2>1, <2>2, <2>3
<1>3. ASSUME NEW k \in Nat
      PROVE  2^k \in Nat \ {0} /\ 2^(k + 1) = 2 * 2^k
  <2> DEFINE A == SUBSET (1 .. k)
             B == {s \cup {k + 1} : s \in A}
             f == [s \in A |-> s \cup {k + 1}]
  <2>1. IsFiniteSet(A) /\ Cardinality(A) = 2^k /\ {} \in A
    BY <1>1
  <2>2. k + 1 \notin 1 .. k /\ 1 .. k + 1 = (1 .. k) \cup {k + 1} /\ k + 1 \in Nat
    OBVIOUS
  <2>3. f \in Bijection(A, B)
    <3>1. \A s \in A : s \subseteq 1 .. k
      OBVIOUS
    <3> HIDE DEF A
    <3>2. ASSUME NEW s \in A, NEW t \in A, s \cup {k + 1} = t \cup {k + 1}
          PROVE  s = t
      <4>1. k + 1 \notin s /\ k + 1 \notin t
        BY <2>2, <3>1
      <4> QED
        BY <3>2, <4>1
    <3> QED
      BY <3>2 DEF Bijection, Injection, Surjection, IsInjective
  <2>4. IsFiniteSet(B) /\ Cardinality(B) = Cardinality(A)
    <3> HIDE DEF f, A, B
    <3> QED
      BY <2>1, <2>3, FS_Bijection DEF ExistsBijection
  <2>5. A \cap B = {} /\ SUBSET (1 .. k + 1) = A \cup B
    <3>1. A \cap B = {}
      BY <2>2
    <3>2. A \cup B \subseteq SUBSET (1 .. k + 1)
      BY <2>2
    <3>3. ASSUME NEW s \in SUBSET (1 .. k + 1)
          PROVE  s \in A \cup B
      <4>1. CASE k + 1 \in s
        <5>1. s = (s \ {k + 1}) \cup {k + 1} /\ s \ {k + 1} \in A
          BY <2>2, <4>1
        <5> QED
          BY <5>1
      <4>2. CASE k + 1 \notin s
        BY <2>2, <4>2
      <4> QED
        BY <4>1, <4>2
    <3> QED
      BY <3>1, <3>2, <3>3
  <2>6. Cardinality(SUBSET (1 .. k + 1)) = 2^(k + 1)
    BY <1>1, <2>2
  <2> HIDE DEF A, B
  <2>7. Cardinality(A \cup B) = Cardinality(A) + Cardinality(B) - Cardinality(A \cap B)
    BY <2>1, <2>4, FS_Union
  <2>8. Cardinality(A \cap B) = 0 /\ Cardinality(A) \in Nat
    BY <2>1, <2>5, FS_EmptySet, FS_CardinalityType
  <2>9. Cardinality(A) # 0
    BY <2>1, FS_EmptySet
  <2> DEFINE c == Cardinality(A)
             d == Cardinality(SUBSET (1 .. k + 1))
  <2>10. c \in Nat \ {0} /\ d = c + c
    <3>1. d = Cardinality(A \cup B)
      BY <2>5
    <3>2. Cardinality(B) = c
      BY <2>4
    <3> HIDE DEF d
    <3> QED
      BY <2>7, <2>8, <2>9, <3>1, <3>2
  <2>11. c = 2^k /\ d = 2^(k + 1)
    BY <2>1, <2>6
  <2> HIDE DEF c, d
  <2>12. d = 2 * c
    BY <2>10
  <2> QED
    BY <2>10, <2>11, <2>12
<1> QED
  BY <1>2, <1>3

LEMMA PowerGrows ==
  ASSUME NEW k \in Nat
  PROVE  /\ k < 2^k /\ \A n \in Nat : 2^(n + k) = 2^n * 2^k
         /\ \A n \in 0 .. k : 2^n <= 2^k /\ 2^(k - n) * 2^n = 2^k
<1> DEFINE G == {m \in Nat : m < 2^m /\ \A n \in Nat : 2^(n + m) = 2^n * 2^m}
<1>1. 0 \in G
  <2>1. \A n \in Nat : n + 0 = n /\ 2^n * 1 = 2^n
    BY PowerIs
  <2> QED
    BY <2>1, PowerIs
<1>2. ASSUME NEW m \in Nat, m \in G
      PROVE  m + 1 \in G
  <2>1. 2^(m + 1) = 2 * 2^m /\ 2^m \in Nat /\ m < 2^m
    BY <1>2, PowerIs
  <2>2. ASSUME NEW n \in Nat
        PROVE  2^(n + (m + 1)) = 2^n * 2^(m + 1)
    <3>1. n + (m + 1) = (n + m) + 1 /\ n + m \in Nat
      OBVIOUS
    <3>2. 2^((n + m) + 1) = 2 * 2^(n + m) /\ 2^(n + m) = 2^n * 2^m /\ 2^n \in Nat
      BY <1>2, <3>1, PowerIs
    <3> DEFINE x == 2^n
               y == 2^m
    <3>3. x \in Nat /\ y \in Nat /\ 2^(n + (m + 1)) = 2 * (x * y) /\ 2^(m + 1) = 2 * y
      BY <2>1, <3>1, <3>2
    <3> HIDE DEF x, y
    <3>4. 2 * (x * y) = x * (2 * y)
      BY <3>3
    <3> QED
      BY <3>3, <3>4 DEF x
  <2> QED
    BY <2>1, <2>2
<1> HIDE DEF G
<1>3. Nat \subseteq G
  BY <1>1, <1>2, Every
<1>4. k < 2^k /\ \A n \in Nat : 2^(n + k) = 2^n * 2^k
  BY <1>3 DEF G
<1>5. ASSUME NEW n \in 0 .. k
      PROVE  2^n <= 2^k /\ 2^(k - n) * 2^n = 2^k
  <2>1. n \in Nat /\ k - n \in Nat /\ (k - n) + n = k
    OBVIOUS
  <2>2. 2^((k - n) + n) = 2^(k - n) * 2^n
    BY <1>3, <2>1 DEF G
  <2> DEFINE x == 2^(k - n)
             y == 2^n
  <2>3. x \in Nat \ {0} /\ y \in Nat \ {0} /\ 2^k = x * y
    BY <2>1, <2>2, PowerIs
  <2> HIDE DEF x, y
  <2>4. y <= x * y
    <3>1. (x - 1) * y \in Nat /\ x * y = (x - 1) * y + y
      BY <2>3
    <3> QED
      BY <2>3, <3>1
  <2> QED
    BY <2>3, <2>4 DEF x, y
<1> QED
  BY <1>4, <1>5

LEMMA PowersAre ==
  /\ Powers \subseteq Nat \ {0} /\ 1 \in Powers
  /\ \A p \in Powers : p > 1 => p \div 2 \in Powers /\ p \div 2 < p
<1>1. Powers \subseteq Nat \ {0} /\ 1 \in Powers
  BY PowerIs DEF Powers
<1>2. ASSUME NEW p \in Powers, p > 1
      PROVE  p \div 2 \in Powers /\ p \div 2 < p
  <2>1. PICK k \in Nat : p = 2^k
    BY DEF Powers
  <2>2. k # 0
    <3> SUFFICES ASSUME k = 0 PROVE FALSE
      OBVIOUS
    <3>1. p = 2^0
      BY <2>1
    <3> QED
      BY <1>2, <3>1, PowerIs
  <2>3. k - 1 \in Nat /\ (k - 1) + 1 = k
    BY <2>2
  <2>4. 2^(k - 1) \in Nat \ {0} /\ 2^((k - 1) + 1) = 2 * 2^(k - 1)
    BY <2>3, PowerIs
  <2> DEFINE x == 2^(k - 1)
  <2>5. x \in Nat \ {0} /\ p = 2 * x /\ x \in Powers
    BY <2>1, <2>3, <2>4 DEF Powers
  <2> HIDE DEF x
  <2>6. p \div 2 = x /\ x < p
    BY <2>5
  <2> QED
    BY <2>5, <2>6
<1> QED
  BY <1>1, <1>2

LEMMA CeilIs ==
  ASSUME NEW x \in Nat \ {0}
  PROVE  CeilBase2(x) \in Powers /\ x <= CeilBase2(x)
<1> DEFINE K == {k \in Nat : x <= 2^k}
<1>1. K \in SUBSET Nat /\ x \in K
  BY PowerGrows
<1>2. PICK m \in K : \A k \in K : m <= k
  BY <1>1, Smallest
<1>3. m \in 0 .. x /\ x <= 2^m /\ 2^m \in Nat
  BY <1>1, <1>2, PowerIs
<1>4. 2^m <= 2 * x
  <2>1. CASE m = 0
    BY <2>1, PowerIs
  <2>2. CASE m # 0
    <3>1. m - 1 \in Nat /\ (m - 1) + 1 = m /\ ~(m <= m - 1)
      BY <1>3, <2>2
    <3>2. 2^((m - 1) + 1) = 2 * 2^(m - 1) /\ 2^(m - 1) \in Nat /\ m - 1 \notin K
      BY <1>2, <3>1, PowerIs
    <3> DEFINE y == 2^(m - 1)
    <3>3. y \in Nat /\ 2^m = 2 * y /\ ~(x <= y)
      BY <3>1, <3>2
    <3> HIDE DEF y
    <3> QED
      BY <3>3
  <2> QED
    BY <2>1, <2>2
<1>5. \A k \in 0 .. x : x <= 2^k => 2^m <= 2^k
  <2> TAKE k \in 0 .. x
  <2> HAVE x <= 2^k
  <2>1. k \in Nat /\ m \in 0 .. k
    BY <1>2, <1>3
  <2> QED
    BY <2>1, PowerGrows
<1> DEFINE P(p) == /\ x <= p /\ (p = 0 \/ \E k \in 0 .. x : p = 2^k)
                   /\ \A k \in 0 .. x : x <= 2^k => p <= 2^k
<1>6. P(2^m) /\ 2^m \in 0 .. 2 * x
  BY <1>3, <1>4, <1>5
<1>7. CeilBase2(x) = CHOOSE p \in 0 .. 2 * x : P(p)
  BY DEF CeilBase2
<1> HIDE DEF P
<1>8. P(CeilBase2(x)) /\ CeilBase2(x) \in 0 .. 2 * x
  BY <1>6, <1>7
<1> QED
  BY <1>8 DEF P, Powers

LEMMA FloorIs ==
  ASSUME NEW x \in Nat
  PROVE  FloorBase2(x) \in Powers \cup {0} /\ FloorBase2(x) <= x
<1> DEFINE P(p) == /\ p <= x /\ (x = 0 \/ \E k \in 0 .. x : p = 2^k)
                   /\ \A k \in 0 .. x : 2^k <= x => 2^k <= p
<1>1. FloorBase2(x) = CHOOSE p \in 0 .. x : P(p)
  BY DEF FloorBase2
<1>2. \E p \in 0 .. x : P(p)
  <2>1. CASE x = 0
    <3>1. \A k \in 0 .. x : 2^k = 1
      BY <2>1, PowerIs
    <3> QED
      BY <2>1, <3>1
  <2>2. CASE x # 0
    <3> DEFINE K == {k \in Nat : x < 2^k}
    <3>1. K \in SUBSET Nat /\ x \in K
      BY PowerGrows
    <3>2. PICK m \in K : \A k \in K : m <= k
      BY <3>1, Smallest
    <3>3. m \in 1 .. x
      <4>1. m \in 0 .. x
        BY <3>1, <3>2
      <4>2. ASSUME m = 0 PROVE FALSE
        <5>1. x < 2^0
          BY <3>2, <4>2
        <5> QED
          BY <2>2, <5>1, PowerIs
      <4> QED
        BY <4>1, <4>2
    <3>4. m - 1 \in 0 .. x /\ m - 1 \in Nat /\ ~(m <= m - 1)
      BY <3>3
    <3>5. 2^(m - 1) <= x /\ 2^(m - 1) \in Nat
      BY <3>2, <3>4, PowerIs
    <3>6. ASSUME NEW k \in 0 .. x, 2^k <= x
          PROVE  2^k <= 2^(m - 1)
      <4>1. k \in 0 .. m - 1
        <5>1. CASE m <= k
          <6>0. m \in 0 .. k /\ k \in Nat /\ m \in Nat
            BY <3>3, <5>1
          <6>1. 2^m <= 2^k /\ 2^m \in Nat /\ 2^k \in Nat
            BY <6>0, PowerGrows, PowerIs
          <6>2. x < 2^m
            BY <3>2
          <6> QED
            BY <3>6, <6>1, <6>2
        <5> QED
          BY <3>3, <5>1
      <4> QED
        BY <3>4, <4>1, PowerGrows
    <3>7. 2^(m - 1) \in 0 .. x
      BY <3>5
    <3>8. P(2^(m - 1))
      BY <3>4, <3>5, <3>6
    <3> HIDE DEF P
    <3> QED
      BY <3>7, <3>8
  <2> QED
    BY <2>1, <2>2
<1>3. P(FloorBase2(x)) /\ FloorBase2(x) \in 0 .. x
  <2> HIDE DEF P
  <2> QED
    BY <1>1, <1>2
<1> QED
  BY <1>3 DEF Powers

\* A power divides the larger ones, and how often it does is a power.
LEMMA PowersDivide ==
  ASSUME NEW k \in Nat, NEW n \in 0 .. k
  PROVE  2^k \div 2^n = 2^(k - n) /\ 2^k % 2^n = 0
<1> DEFINE x == 2^(k - n)
           y == 2^n
<1>1. x \in Nat \ {0} /\ y \in Nat \ {0} /\ 2^k = x * y
  <2>1. n \in Nat /\ k - n \in Nat
    OBVIOUS
  <2> QED
    BY <2>1, PowerIs, PowerGrows
<1> HIDE DEF x, y
<1> DEFINE z == x * y
<1>2. z \in Nat /\ z \div y \in Nat /\ z % y \in 0 .. y - 1 /\ z = (z \div y) * y + (z % y)
  <2>1. z \in Nat
    BY <1>1
  <2> HIDE DEF z
  <2> QED
    BY <1>1, <2>1
<1>3. z \div y = x /\ z % y = 0
  <2> DEFINE q == z \div y
             r == z % y
  <2>1. q \in Nat /\ r \in 0 .. y - 1 /\ x * y = q * y + r
    BY <1>2
  <2> HIDE DEF q, r
  <2>2. ~(x < q)
    <3>1. ASSUME x < q PROVE FALSE
      <4>1. (q - x) * y = q * y - x * y /\ (q - x - 1) * y \in Nat /\ (q - x) * y = (q - x - 1) * y + y
        BY <1>1, <2>1, <3>1
      <4> QED
        BY <1>1, <2>1, <4>1
    <3> QED
      BY <3>1
  <2>3. ~(q < x)
    <3>1. ASSUME q < x PROVE FALSE
      <4>1. (x - q) * y = x * y - q * y /\ (x - q - 1) * y \in Nat /\ (x - q) * y = (x - q - 1) * y + y
        BY <1>1, <2>1, <3>1
      <4> QED
        BY <1>1, <2>1, <4>1
    <3> QED
      BY <3>1
  <2>4. q = x
    BY <1>1, <2>1, <2>2, <2>3
  <2>5. x * y \in Nat /\ r = 0
    BY <1>1, <2>1, <2>4
  <2> QED
    BY <2>4, <2>5 DEF q, r
<1> QED
  BY <1>1, <1>3 DEF x, y

\* The order findSlotsForNodes is called with, and how far it has come.
Order == IF phase = "others"
         THEN CHOOSE q : q \in Sorted(Members \ ToSet(eventNodes), info)
         ELSE allNodes
Network == [i \in DOMAIN Order |-> Search(Order[i])]
Found == Len(Order) - Len(todo)
Placements == [i \in 1 .. Found |-> IF info[Order[i]].status = "OK" THEN info[Order[i]].tdma ELSE 0]
Fits == [i \in 1 .. Found |-> info[Order[i]].status = "OK"]

\* The search is the one of SlotTable, for Nodes whose rates are powers of two.
Table == INSTANCE SlotTableProofs WITH
  MaxNodes <- 0, Rates <- Powers, Spacings <- {Spacing[p] : p \in DOMAIN Spacing},
  DelayChecks <- {}, Legacies <- BOOLEAN,
  legacy <- InLegacyMode, spacing <- Spacing[protocol], network <- Network,
  address <- Placements, fits <- Fits

LEMMA TableAssumptions ==
  Table!SlotAssumption /\ Table!TableAssumption /\ Table!HarmonicAssumption
<1>1. Table!SlotAssumption
  BY SlotAssumption DEF SlotAssumption, Table!SlotAssumption
<1>2. Table!TableAssumption
  <2>1. Powers \subseteq Nat
    BY PowersAre
  <2> QED
    BY <2>1, ScheduleAssumption, PowersAssumption
       DEF ScheduleAssumption, PowersAssumption, Table!TableAssumption
<1>3. Table!HarmonicAssumption
  <2> SUFFICES ASSUME NEW p \in DOMAIN Spacing
               PROVE  LET z == Spacing[p]
                      IN  /\ z > 1 /\ Reserved % z = 0
                          /\ \A r \in Powers \ {0} : MaxSlots \div r >= z =>
                               /\ r * (MaxSlots \div r) = MaxSlots
                               /\ (MaxSlots \div r) % z = 0
                               /\ \A q \in Powers \ {0} : q <= r => (MaxSlots \div q) % (MaxSlots \div r) = 0
    BY DEF Table!HarmonicAssumption
  <2> DEFINE z == Spacing[p]
  <2>1. PICK c \in 1 .. MaxSlots : z = 2^c
    BY PowersAssumption DEF PowersAssumption
  <2>2. PICK m \in 0 .. MaxSlots : MaxSlots = 2^m
    BY PowersAssumption DEF PowersAssumption
  <2>3. c \in Nat \ {0} /\ m \in Nat
    BY SlotAssumption DEF SlotAssumption
  <2>4. z > 1 /\ z \in Nat /\ Reserved % z = 0
    <3>1. c < 2^c /\ 2^c \in Nat
      BY <2>3, PowerGrows, PowerIs
    <3> QED
      BY <2>1, <2>3, <3>1, PowersAssumption DEF PowersAssumption
  <2>5. ASSUME NEW r \in Powers \ {0}, MaxSlots \div r >= z
        PROVE  /\ r * (MaxSlots \div r) = MaxSlots
               /\ (MaxSlots \div r) % z = 0
               /\ \A q \in Powers \ {0} : q <= r => (MaxSlots \div q) % (MaxSlots \div r) = 0
    <3>1. PICK a \in Nat : r = 2^a
      BY DEF Powers
    <3>2. a \in 0 .. m
      <4> SUFFICES ASSUME m < a PROVE FALSE
        BY <2>3
      <4>1. MaxSlots < r /\ r \in Nat
        <5>1. m + 1 \in 0 .. a /\ m + 1 \in Nat
          BY <2>3
        <5>2. 2^(m + 1) <= 2^a /\ 2^(m + 1) = 2 * 2^m /\ 2^m \in Nat \ {0} /\ 2^a \in Nat
          BY <2>3, <5>1, PowerGrows, PowerIs
        <5> DEFINE x == 2^(m + 1)
        <5>3. x <= r /\ x = 2 * MaxSlots /\ MaxSlots \in Nat \ {0} /\ r \in Nat
          BY <2>2, <3>1, <5>2
        <5> HIDE DEF x
        <5> QED
          BY <5>3
      <4>2. MaxSlots \div r = 0
        BY <4>1, SlotAssumption DEF SlotAssumption
      <4> QED
        BY <2>4, <2>5, <4>2
    <3>3. MaxSlots \div r = 2^(m - a) /\ 2^(m - a) * r = MaxSlots
      BY <2>2, <2>3, <3>1, <3>2, PowersDivide, PowerGrows
    <3>4. m - a \in Nat /\ c \in 0 .. m - a
      <4>1. m - a \in Nat
        BY <2>3, <3>1, <3>2
      <4> SUFFICES ASSUME m - a < c PROVE FALSE
        BY <2>3, <4>1
      <4>2. m - a + 1 \in 0 .. c /\ 2^(m - a + 1) = 2 * 2^(m - a) /\ 2^(m - a) \in Nat \ {0}
        BY <2>3, <4>1, PowerIs
      <4>3. 2^(m - a + 1) <= 2^c /\ 2^c \in Nat
        BY <2>3, <4>2, PowerGrows, PowerIs
      <4> DEFINE x == 2^(m - a)
                 y == 2^(m - a + 1)
      <4>4. y <= z /\ y = 2 * x /\ x \in Nat \ {0} /\ x >= z
        BY <2>1, <2>5, <3>3, <4>2, <4>3
      <4> HIDE DEF x, y
      <4> QED
        BY <2>4, <4>4
    <3>5. (MaxSlots \div r) % z = 0
      BY <2>1, <3>3, <3>4, PowersDivide
    <3>6. r * (MaxSlots \div r) = MaxSlots
      <4> DEFINE x == 2^(m - a)
      <4>1. x \in Nat /\ r \in Nat /\ x * r = MaxSlots /\ MaxSlots \div r = x
        BY <3>1, <3>3, <3>4, PowerIs
      <4> HIDE DEF x
      <4>2. r * x = x * r
        BY <4>1
      <4> QED
        BY <4>1, <4>2
    <3>7. ASSUME NEW q \in Powers \ {0}, q <= r
          PROVE  (MaxSlots \div q) % (MaxSlots \div r) = 0
      <4>1. PICK b \in Nat : q = 2^b
        BY DEF Powers
      <4>2. b \in 0 .. a
        <5> SUFFICES ASSUME a < b PROVE FALSE
          BY <3>1, <4>1
        <5>1. a + 1 \in 0 .. b /\ 2^(a + 1) = 2 * 2^a /\ 2^a \in Nat \ {0}
          BY <3>1, PowerIs
        <5>2. 2^(a + 1) <= 2^b /\ 2^b \in Nat
          BY <4>1, <5>1, PowerGrows, PowerIs
        <5> DEFINE x == 2^(a + 1)
        <5>3. x <= q /\ x = 2 * r /\ r \in Nat \ {0} /\ q \in Nat
          BY <3>1, <4>1, <5>1, <5>2
        <5> HIDE DEF x
        <5> QED
          BY <3>7, <5>3
      <4>3. b \in 0 .. m /\ m - b \in Nat /\ m - a \in 0 .. m - b
        BY <2>3, <3>1, <3>2, <4>1, <4>2
      <4>4. MaxSlots \div q = 2^(m - b)
        BY <2>2, <2>3, <4>1, <4>3, PowersDivide
      <4> QED
        BY <3>3, <4>3, <4>4, PowersDivide
    <3> QED
      BY <3>5, <3>6, <3>7
  <2> QED
    BY <2>4, <2>5
<1> QED
  BY <1>1, <1>2, <1>3

LEMMA OrderIs ==
  ASSUME NEW S, IsFiniteSet(S), NEW q \in SetToSeqs(S)
  PROVE  /\ q \in Seq(S) /\ Len(q) = Cardinality(S) /\ DOMAIN q = 1 .. Len(q) /\ Len(q) \in Nat
         /\ \A i, j \in 1 .. Len(q) : q[i] = q[j] => i = j
         /\ \A n \in S : \E i \in 1 .. Len(q) : q[i] = n
         /\ ToSet(q) = S
<1> DEFINE D == 1 .. Cardinality(S)
<1>1. q \in [D -> S] /\ \A i, j \in D : i # j => q[i] # q[j]
  BY DEF SetToSeqs
<1>2. Cardinality(S) \in Nat
  BY FS_CardinalityType
<1>3. q \in Injection(D, S)
  BY <1>1 DEF Injection, IsInjective
<1>4. Cardinality(D) = Cardinality(S)
  <2>1. 1 \in Int /\ Cardinality(S) \in Int
    BY <1>2
  <2>2. Cardinality(D) = IF 1 > Cardinality(S) THEN 0 ELSE Cardinality(S) - 1 + 1
    BY <2>1, FS_Interval
  <2> QED
    BY <1>2, <2>2
<1>5. q \in Surjection(D, S)
  <2> HIDE DEF D
  <2> QED
    BY <1>3, <1>4, FS_Injection
<1>6. q \in Seq(S) /\ DOMAIN q = D /\ Len(q) = Cardinality(S)
  BY <1>1, <1>2
<1>7. \A n \in S : \E i \in D : q[i] = n
  BY <1>5 DEF Surjection
<1>8. ToSet(q) = S
  BY <1>1, <1>6, <1>7 DEF ToSet
<1> QED
  BY <1>1, <1>2, <1>6, <1>7, <1>8

LEMMA OrderFrom ==
  ASSUME NEW S, IsFiniteSet(S), NEW q \in Seq(S),
         \A i, j \in 1 .. Len(q) : q[i] = q[j] => i = j,
         \A n \in S : \E i \in 1 .. Len(q) : q[i] = n
  PROVE  q \in SetToSeqs(S)
<1> DEFINE D == 1 .. Len(q)
<1>1. q \in [D -> S] /\ Len(q) \in Nat
  OBVIOUS
<1>2. q \in Bijection(D, S)
  BY <1>1 DEF Bijection, Injection, Surjection, IsInjective
<1>3. IsFiniteSet(D) /\ Cardinality(D) = Len(q)
  <2>1. 1 \in Int /\ Len(q) \in Int
    BY <1>1
  <2>2. IsFiniteSet(D) /\ Cardinality(D) = IF 1 > Len(q) THEN 0 ELSE Len(q) - 1 + 1
    BY <2>1, FS_Interval
  <2> QED
    BY <1>1, <2>2
<1>4. Cardinality(S) = Len(q)
  <2> HIDE DEF D
  <2> QED
    BY <1>2, <1>3, FS_Bijection DEF ExistsBijection
<1> QED
  BY <1>1, <1>4 DEF SetToSeqs

LEMMA OrderOfOneMore ==
  ASSUME NEW S, IsFiniteSet(S), NEW q \in SetToSeqs(S), NEW n, n \notin S
  PROVE  Append(q, n) \in SetToSeqs(S \cup {n})
<1> DEFINE r == Append(q, n)
<1>1. /\ q \in Seq(S) /\ Len(q) \in Nat
      /\ \A i, j \in 1 .. Len(q) : q[i] = q[j] => i = j
      /\ \A m \in S : \E i \in 1 .. Len(q) : q[i] = m
  BY OrderIs
<1>2. /\ r \in Seq(S \cup {n}) /\ Len(r) = Len(q) + 1 /\ r[Len(q) + 1] = n
      /\ \A i \in 1 .. Len(q) : r[i] = q[i] /\ q[i] \in S
  <2>1. q \in Seq(S \cup {n}) /\ n \in S \cup {n}
    BY <1>1
  <2> QED
    BY <1>1, <2>1
<1> HIDE DEF r
<1>3. \A i, j \in 1 .. Len(r) : r[i] = r[j] => i = j
  <2> SUFFICES ASSUME NEW i \in 1 .. Len(r), NEW j \in 1 .. Len(r), r[i] = r[j] PROVE i = j
    OBVIOUS
  <2>1. i \in 1 .. Len(q) \/ i = Len(q) + 1
    BY <1>1, <1>2
  <2>2. j \in 1 .. Len(q) \/ j = Len(q) + 1
    BY <1>1, <1>2
  <2> QED
    BY <1>1, <1>2, <2>1, <2>2
<1>4. \A m \in S \cup {n} : \E i \in 1 .. Len(r) : r[i] = m
  <2>1. Len(q) + 1 \in 1 .. Len(r) /\ 1 .. Len(q) \subseteq 1 .. Len(r)
    BY <1>1, <1>2
  <2> QED
    BY <1>1, <1>2, <2>1
<1>5. IsFiniteSet(S \cup {n})
  BY FS_AddElement
<1>6. r \in SetToSeqs(S \cup {n})
  BY <1>2, <1>3, <1>4, <1>5, OrderFrom
<1> QED
  BY <1>6 DEF r

\* Among keeps every element once.
LEMMA AmongOnce ==
  ASSUME NEW T, NEW q \in Seq(T), NEW S,
         \A i, j \in 1 .. Len(q) : q[i] = q[j] => i = j
  PROVE  \A i, j \in 1 .. Len(Among(q, S)) : Among(q, S)[i] = Among(q, S)[j] => i = j
<1> DEFINE g == CHOOSE g : Lists(g, q, S, Len(q))
<1>1. Lists(g, q, S, Len(q)) /\ Len(q) \in Nat
  BY ListExists
<1>2. Among(q, S) = g[Len(q)]
  BY DEF Among, Lists
<1> HIDE DEF g
<1> DEFINE Good(n) == /\ g[n] \in Seq(T)
                      /\ \A i, j \in 1 .. Len(g[n]) : g[n][i] = g[n][j] => i = j
                      /\ \A i \in 1 .. Len(g[n]) : \E k \in 1 .. n : g[n][i] = q[k]
           G == {n \in Nat : n <= Len(q) => Good(n)}
<1>3. 0 \in G
  <2>1. 0 \in 0 .. Len(q)
    BY <1>1
  <2>2. g[0] = <<>>
    BY <1>1, <2>1 DEF Lists
  <2>3. Good(0)
    BY <2>2
  <2> QED
    BY <2>3
<1>4. ASSUME NEW n \in Nat, n \in G
      PROVE  n + 1 \in G
  <2> SUFFICES ASSUME n + 1 <= Len(q) PROVE Good(n + 1)
    OBVIOUS
  <2>1. n + 1 \in 1 .. Len(q) /\ n <= Len(q) /\ q[n + 1] \in T
    BY <1>1
  <2>2. Good(n)
    BY <1>4, <2>1
  <2>3. g[n + 1] = IF q[n + 1] \in S THEN Append(g[n], q[n + 1]) ELSE g[n]
    <3>1. n + 1 \in 0 .. Len(q) /\ n + 1 # 0 /\ (n + 1) - 1 = n
      BY <2>1
    <3> QED
      BY <1>1, <3>1 DEF Lists
  <2> HIDE DEF G
  <2>4. CASE q[n + 1] \in S
    <3> DEFINE r == g[n]
               s == g[n + 1]
    <3>1. r \in Seq(T) /\ s = Append(r, q[n + 1]) /\ Len(r) \in Nat
      BY <2>2, <2>3, <2>4
    <3>2. \A i, j \in 1 .. Len(r) : r[i] = r[j] => i = j
      BY <2>2
    <3>3. \A i \in 1 .. Len(r) : \E k \in 1 .. n : r[i] = q[k]
      BY <2>2
    <3> HIDE DEF r, s
    <3>4. /\ s \in Seq(T) /\ Len(s) = Len(r) + 1 /\ s[Len(r) + 1] = q[n + 1]
          /\ \A i \in 1 .. Len(r) : s[i] = r[i]
      BY <2>1, <3>1
    <3>5. \A i \in 1 .. Len(r) : r[i] # q[n + 1]
      <4> SUFFICES ASSUME NEW i \in 1 .. Len(r), r[i] = q[n + 1] PROVE FALSE
        OBVIOUS
      <4>1. PICK k \in 1 .. n : r[i] = q[k]
        BY <3>3
      <4>2. k \in 1 .. Len(q) /\ k # n + 1
        BY <2>1, <1>1
      <4> QED
        BY <2>1, <4>1, <4>2
    <3>6. \A i, j \in 1 .. Len(s) : s[i] = s[j] => i = j
      <4> SUFFICES ASSUME NEW i \in 1 .. Len(s), NEW j \in 1 .. Len(s), s[i] = s[j] PROVE i = j
        OBVIOUS
      <4>1. i \in 1 .. Len(r) \/ i = Len(r) + 1
        BY <3>1, <3>4
      <4>2. j \in 1 .. Len(r) \/ j = Len(r) + 1
        BY <3>1, <3>4
      <4> QED
        BY <3>2, <3>4, <3>5, <4>1, <4>2
    <3>7. \A i \in 1 .. Len(s) : \E k \in 1 .. n + 1 : s[i] = q[k]
      <4> SUFFICES ASSUME NEW i \in 1 .. Len(s) PROVE \E k \in 1 .. n + 1 : s[i] = q[k]
        OBVIOUS
      <4>1. i \in 1 .. Len(r) \/ i = Len(r) + 1
        BY <3>1, <3>4
      <4>2. n + 1 \in 1 .. n + 1 /\ 1 .. n \subseteq 1 .. n + 1
        OBVIOUS
      <4> QED
        BY <3>3, <3>4, <4>1, <4>2
    <3> QED
      BY <3>4, <3>6, <3>7 DEF s
  <2>5. CASE q[n + 1] \notin S
    <3>1. g[n + 1] = g[n] /\ 1 .. n \subseteq 1 .. n + 1
      BY <2>3, <2>5
    <3> QED
      BY <2>2, <3>1
  <2> QED
    BY <2>4, <2>5
<1> HIDE DEF G
<1>5. Nat \subseteq G
  BY <1>3, <1>4, Every
<1>6. Good(Len(q))
  BY <1>1, <1>5 DEF G
<1> QED
  BY <1>2, <1>6

LEMMA OrderAmong ==
  ASSUME NEW S, IsFiniteSet(S), NEW q \in SetToSeqs(S), NEW T
  PROVE  Among(q, T) \in SetToSeqs(S \cap T)
<1> DEFINE r == Among(q, T)
<1>1. /\ q \in Seq(S) /\ DOMAIN q = 1 .. Len(q)
      /\ \A i, j \in 1 .. Len(q) : q[i] = q[j] => i = j
      /\ \A m \in S : \E i \in 1 .. Len(q) : q[i] = m
  BY OrderIs
<1>2. r \in Seq(S \cap T)
  BY <1>1, AmongIs
<1>2a. \A i \in DOMAIN q : q[i] \in T => \E j \in DOMAIN r : r[j] = q[i]
  <2>1. q \in Seq(S) /\ Among(q, T) = r
    BY <1>1
  <2> HIDE DEF r
  <2>2. /\ r \in Seq(S \cap T)
        /\ \A i \in DOMAIN q : q[i] \in T => \E j \in DOMAIN r : r[j] = q[i]
    BY <2>1, AmongIs
  <2> QED
    BY <2>2
<1>3. \A i, j \in 1 .. Len(r) : r[i] = r[j] => i = j
  BY <1>1, AmongOnce, Zenon
<1> HIDE DEF r
<1>4. DOMAIN r = 1 .. Len(r)
  BY <1>2
<1>5. \A m \in S \cap T : \E i \in 1 .. Len(r) : r[i] = m
  BY <1>1, <1>2a, <1>4
<1>6. IsFiniteSet(S \cap T)
  BY FS_Intersection
<1>7. r \in SetToSeqs(S \cap T)
  BY <1>2, <1>3, <1>5, <1>6, OrderFrom
<1> QED
  BY <1>7 DEF r

-----------------------------------------------------------------------------
(* Sorting *)

LEMMA SortedSame ==
  ASSUME NEW S, NEW f, NEW g, \A n \in S : f[n].tx = g[n].tx
  PROVE  Sorted(S, f) = Sorted(S, g)
<1>1. ASSUME NEW q \in SetToSeqs(S), NEW i \in DOMAIN q, NEW j \in DOMAIN q
      PROVE  Before(f, q[i], q[j]) <=> Before(g, q[i], q[j])
  <2>1. q[i] \in S /\ q[j] \in S
    BY DEF SetToSeqs
  <2> QED
    BY <2>1 DEF Before
<1> QED
  BY <1>1 DEF Sorted

\* There is one order.
LEMMA SortedOnce ==
  ASSUME NEW S, IsFiniteSet(S), S \subseteq Nat, NEW f, \A n \in S : f[n].tx \in Nat,
         NEW q \in Sorted(S, f), NEW r \in Sorted(S, f)
  PROVE  q = r
<1>1. /\ q \in SetToSeqs(S) /\ r \in SetToSeqs(S)
      /\ \A i, j \in DOMAIN q : i < j => Before(f, q[i], q[j])
      /\ \A i, j \in DOMAIN r : i < j => Before(f, r[i], r[j])
  BY DEF Sorted
<1> DEFINE N == Cardinality(S)
<1>2. /\ q \in Seq(S) /\ Len(q) = N /\ DOMAIN q = 1 .. N
      /\ r \in Seq(S) /\ Len(r) = N /\ DOMAIN r = 1 .. N /\ N \in Nat
      /\ \A n \in S : (\E i \in 1 .. N : q[i] = n) /\ (\E i \in 1 .. N : r[i] = n)
      /\ \A i, j \in 1 .. N : (q[i] = q[j] \/ r[i] = r[j]) => i = j
  <2>1. /\ q \in Seq(S) /\ Len(q) = N /\ DOMAIN q = 1 .. N /\ N \in Nat
        /\ \A n \in S : (\E i \in 1 .. N : q[i] = n)
        /\ \A i, j \in 1 .. N : q[i] = q[j] => i = j
    BY <1>1, OrderIs
  <2>2. /\ r \in Seq(S) /\ Len(r) = N /\ DOMAIN r = 1 .. N
        /\ \A n \in S : (\E i \in 1 .. N : r[i] = n)
        /\ \A i, j \in 1 .. N : r[i] = r[j] => i = j
    BY <1>1, OrderIs
  <2> HIDE DEF N
  <2> QED
    BY <2>1, <2>2
<1> HIDE DEF N
<1> DEFINE Bad == {i \in 1 .. N : q[i] # r[i]}
<1>3. CASE Bad # {}
  <2>1. Bad \in SUBSET Nat
    BY <1>2
  <2>2. PICK m \in Bad : \A i \in Bad : m <= i
    BY <1>3, <2>1, Smallest
  <2>3. m \in 1 .. N /\ q[m] # r[m] /\ q[m] \in S /\ r[m] \in S
    BY <1>2, <2>2
  <2>4. PICK k \in 1 .. N : q[k] = r[m]
    BY <1>2, <2>3
  <2>5. PICK l \in 1 .. N : r[l] = q[m]
    BY <1>2, <2>3
  <2>6. m < k
    <3>1. ASSUME k < m PROVE FALSE
      <4>1. k \notin Bad
        BY <2>2, <3>1, <1>2
      <4> QED
        BY <1>2, <2>3, <2>4, <3>1, <4>1
    <3> QED
      BY <1>2, <2>3, <2>4, <3>1
  <2>7. m < l
    <3>1. ASSUME l < m PROVE FALSE
      <4>1. l \notin Bad
        BY <2>2, <3>1, <1>2
      <4> QED
        BY <1>2, <2>3, <2>5, <3>1, <4>1
    <3> QED
      BY <1>2, <2>3, <2>5, <3>1
  <2>8. Before(f, q[m], r[m]) /\ Before(f, r[m], q[m])
    BY <1>1, <1>2, <2>3, <2>4, <2>5, <2>6, <2>7
  <2>9. q[m] \in Nat /\ r[m] \in Nat /\ f[q[m]].tx \in Nat /\ f[r[m]].tx \in Nat
    BY <2>3
  <2> QED
    BY <2>8, <2>9 DEF Before
<1>4. CASE Bad = {}
  <2>1. \A i \in 1 .. N : q[i] = r[i]
    BY <1>4
  <2> QED
    BY <1>2, <2>1
<1> QED
  BY <1>3, <1>4

-----------------------------------------------------------------------------
(* Sums over a set *)

\* What holds of no element, and of a set without the element chosen first,
\* holds of every finite set.
LEMMA EverySubset ==
  ASSUME NEW D, IsFiniteSet(D), NEW G, {} \in G,
         \A s \in SUBSET D : s # {} /\ s \ {CHOOSE x \in s : TRUE} \in G => s \in G
  PROVE  SUBSET D \subseteq G
<1> DEFINE K == {k \in Nat : \A s \in SUBSET D : Cardinality(s) = k => s \in G}
<1>1. \A s \in SUBSET D : IsFiniteSet(s) /\ Cardinality(s) \in Nat
  BY FS_Subset, FS_CardinalityType
<1>2. 0 \in K
  BY <1>1, FS_EmptySet
<1>3. ASSUME NEW k \in Nat, k \in K
      PROVE  k + 1 \in K
  <2> SUFFICES ASSUME NEW s \in SUBSET D, Cardinality(s) = k + 1 PROVE s \in G
    BY <1>3
  <2> DEFINE x == CHOOSE x \in s : TRUE
  <2>1. s # {}
    BY FS_EmptySet
  <2>2. x \in s
    BY <2>1
  <2>3. Cardinality(s \ {x}) = k /\ s \ {x} \in SUBSET D
    <3> HIDE DEF x
    <3>1. Cardinality(s \ {x}) = Cardinality(s) - 1
      BY <1>1, <2>2, FS_RemoveElement
    <3> QED
      BY <3>1
  <2>4. s \ {x} \in G
    BY <1>3, <2>3
  <2> QED
    BY <2>1, <2>4
<1> HIDE DEF K
<1>4. Nat \subseteq K
  BY <1>2, <1>3, Every
<1> QED
  BY <1>1, <1>4 DEF K

\* g adds f up over every subset of D.
Sums(g, f, D) ==
  g = [s \in SUBSET D |-> IF s = {} THEN 0
                          ELSE f[CHOOSE x \in s : TRUE] + g[s \ {CHOOSE x \in s : TRUE}]]

LEMMA SumsAre ==
  ASSUME NEW D, NEW f, NEW g, Sums(g, f, D)
  PROVE  /\ g[{}] = 0
         /\ \A s \in SUBSET D : s # {} =>
              g[s] = f[CHOOSE x \in s : TRUE] + g[s \ {CHOOSE x \in s : TRUE}]
<1>1. \A s \in SUBSET D : g[s] = IF s = {} THEN 0 ELSE f[CHOOSE x \in s : TRUE] + g[s \ {CHOOSE x \in s : TRUE}]
  BY DEF Sums
<1> QED
  BY <1>1

LEMMA SumExists ==
  ASSUME NEW D, IsFiniteSet(D), NEW f
  PROVE  \E g : Sums(g, f, D)
<1> DEFINE step(g, s) == IF s = {} THEN 0 ELSE f[CHOOSE x \in s : TRUE] + g[s \ {CHOOSE x \in s : TRUE}]
           Upto(g, k) == \A s \in SUBSET D : Cardinality(s) <= k => g[s] = step(g, s)
           K == {k \in Nat : \E g : Upto(g, k)}
<1>1. \A s \in SUBSET D : /\ IsFiniteSet(s) /\ Cardinality(s) \in Nat /\ Cardinality(s) <= Cardinality(D)
                          /\ s # {} => Cardinality(s \ {CHOOSE x \in s : TRUE}) = Cardinality(s) - 1
  <2> TAKE s \in SUBSET D
  <2>1. IsFiniteSet(s) /\ Cardinality(s) \in Nat /\ Cardinality(s) <= Cardinality(D)
    BY FS_Subset, FS_CardinalityType
  <2>2. ASSUME s # {} PROVE Cardinality(s \ {CHOOSE x \in s : TRUE}) = Cardinality(s) - 1
    <3> DEFINE x == CHOOSE x \in s : TRUE
    <3>1. x \in s
      BY <2>2
    <3> HIDE DEF x
    <3>2. Cardinality(s \ {x}) = Cardinality(s) - 1
      BY <2>1, <3>1, FS_RemoveElement
    <3> QED
      BY <3>2 DEF x
  <2> QED
    BY <2>1, <2>2
<1>2. 0 \in K
  <2> DEFINE g == [s \in SUBSET D |-> 0]
  <2>1. \A s \in SUBSET D : Cardinality(s) <= 0 => s = {}
    <3> TAKE s \in SUBSET D
    <3>1. IsFiniteSet(s) /\ Cardinality(s) \in Nat
      BY <1>1
    <3> QED
      BY <3>1, FS_EmptySet
  <2>2. Upto(g, 0)
    BY <2>1
  <2> QED
    BY <2>2
<1>3. ASSUME NEW k \in Nat, k \in K
      PROVE  k + 1 \in K
  <2>1. PICK g : Upto(g, k)
    BY <1>3
  <2> DEFINE h == [s \in SUBSET D |-> step(g, s)]
  <2>2. \A s \in SUBSET D : Cardinality(s) <= k => h[s] = g[s]
    BY <2>1
  <2>3. Upto(h, k + 1)
    <3> SUFFICES ASSUME NEW s \in SUBSET D, Cardinality(s) <= k + 1 PROVE h[s] = step(h, s)
      OBVIOUS
    <3>1. CASE s = {}
      BY <3>1
    <3>2. CASE s # {}
      <4> DEFINE t == s \ {CHOOSE x \in s : TRUE}
      <4>1. Cardinality(t) = Cardinality(s) - 1 /\ Cardinality(s) \in Nat
        BY <1>1, <3>2
      <4>2. t \in SUBSET D /\ Cardinality(t) <= k
        BY <4>1
      <4>3. h[t] = g[t]
        <5> HIDE DEF h, t
        <5> QED
          BY <2>2, <4>2
      <4>4. h[s] = f[CHOOSE x \in s : TRUE] + g[t]
        BY <3>2
      <4> HIDE DEF h
      <4> QED
        BY <3>2, <4>3, <4>4
    <3> QED
      BY <3>1, <3>2
  <2> HIDE DEF h, Upto
  <2>4. \E x : Upto(x, k + 1)
    BY <2>3
  <2> QED
    BY <2>4
<1> HIDE DEF K
<1>4. Nat \subseteq K
  BY <1>2, <1>3, Every
<1>5. PICK g : Upto(g, Cardinality(D))
  BY <1>4, FS_CardinalityType DEF K
<1> DEFINE h == [s \in SUBSET D |-> g[s]]
<1>6. \A s \in SUBSET D : h[s] = step(h, s)
  <2> TAKE s \in SUBSET D
  <2>1. g[s] = step(g, s)
    BY <1>1, <1>5
  <2>2. s \ {CHOOSE x \in s : TRUE} \in SUBSET D
    OBVIOUS
  <2> QED
    BY <2>1, <2>2
<1>7. h = [s \in SUBSET D |-> step(h, s)]
  <2> DEFINE k == [s \in SUBSET D |-> step(h, s)]
  <2>1. \A s \in SUBSET D : h[s] = k[s]
    <3> HIDE DEF h
    <3> QED
      BY <1>6
  <2> QED
    BY <2>1
<1> HIDE DEF h
<1> QED
  BY <1>7 DEF Sums

LEMMA SumIs ==
  ASSUME NEW D, IsFiniteSet(D), NEW f, \A x \in D : f[x] \in Nat, NEW g, Sums(g, f, D)
  PROVE  /\ g[D] \in Nat
         /\ (\A x \in D : f[x] = 1) => g[D] = Cardinality(D)
<1> DEFINE G == {s \in SUBSET D : g[s] \in Nat /\ ((\A x \in D : f[x] = 1) => g[s] = Cardinality(s))}
<1>1. {} \in G
  BY SumsAre, FS_EmptySet
<1>2. ASSUME NEW s \in SUBSET D, s # {}, s \ {CHOOSE x \in s : TRUE} \in G
      PROVE  s \in G
  <2> DEFINE x == CHOOSE x \in s : TRUE
  <2>1. x \in s
    BY <1>2
  <2>2. g[s] = f[x] + g[s \ {x}]
    BY <1>2, SumsAre
  <2>3. g[s \ {x}] \in Nat /\ ((\A y \in D : f[y] = 1) => g[s \ {x}] = Cardinality(s \ {x}))
    BY <1>2
  <2> HIDE DEF x
  <2>4. IsFiniteSet(s) /\ Cardinality(s) \in Nat /\ Cardinality(s \ {x}) = Cardinality(s) - 1
    BY <2>1, FS_Subset, FS_CardinalityType, FS_RemoveElement
  <2>5. f[x] \in Nat /\ g[s] \in Nat
    BY <2>1, <2>2, <2>3
  <2>6. (\A y \in D : f[y] = 1) => g[s] = Cardinality(s)
    <3> SUFFICES ASSUME \A y \in D : f[y] = 1 PROVE g[s] = Cardinality(s)
      OBVIOUS
    <3>1. f[x] = 1 /\ g[s \ {x}] = Cardinality(s) - 1
      BY <2>1, <2>3, <2>4
    <3> QED
      BY <2>2, <2>4, <3>1
  <2> QED
    BY <2>5, <2>6
<1> HIDE DEF G
<1>3. SUBSET D \subseteq G
  BY <1>1, <1>2, EverySubset
<1>4. D \in G
  BY <1>3
<1> QED
  BY <1>4 DEF G

\* One smaller summand makes the sum smaller.
LEMMA SumLess ==
  ASSUME NEW D, IsFiniteSet(D), NEW f, NEW h, NEW n \in D, f[n] < h[n],
         \A x \in D : f[x] \in Nat /\ h[x] \in Nat /\ (x # n => f[x] = h[x]),
         NEW g, Sums(g, f, D), NEW k, Sums(k, h, D)
  PROVE  g[D] < k[D] /\ g[D] \in Nat /\ k[D] \in Nat
<1> DEFINE G == {s \in SUBSET D : /\ g[s] \in Nat /\ k[s] \in Nat /\ g[s] <= k[s]
                                  /\ n \in s => g[s] < k[s]}
<1>1. {} \in G
  BY SumsAre
<1>2. ASSUME NEW s \in SUBSET D, s # {}, s \ {CHOOSE x \in s : TRUE} \in G
      PROVE  s \in G
  <2> DEFINE x == CHOOSE x \in s : TRUE
             t == s \ {x}
  <2>1. x \in s
    BY <1>2
  <2>2. g[s] = f[x] + g[t] /\ k[s] = h[x] + k[t]
    <3>1. \A r \in SUBSET D : r # {} =>
            k[r] = h[CHOOSE y \in r : TRUE] + k[r \ {CHOOSE y \in r : TRUE}]
      BY SumsAre
    <3>2. \A r \in SUBSET D : r # {} =>
            g[r] = f[CHOOSE y \in r : TRUE] + g[r \ {CHOOSE y \in r : TRUE}]
      BY SumsAre
    <3> QED
      BY <1>2, <3>1, <3>2
  <2>4. g[t] \in Nat /\ k[t] \in Nat /\ g[t] <= k[t] /\ (n \in t => g[t] < k[t])
    BY <1>2
  <2>5. n \in s => n = x \/ n \in t
    OBVIOUS
  <2> HIDE DEF x, t
  <2>6. f[x] \in Nat /\ h[x] \in Nat /\ (x # n => f[x] = h[x]) /\ (x = n => f[x] < h[x])
    BY <2>1
  <2> QED
    BY <2>2, <2>4, <2>5, <2>6
<1> HIDE DEF G
<1>3. SUBSET D \subseteq G
  BY <1>1, <1>2, EverySubset
<1>4. D \in G
  BY <1>3
<1> QED
  BY <1>4 DEF G

-----------------------------------------------------------------------------
(* The share of the event driven Nodes *)

LEMMA Scale ==
  ASSUME NEW a \in Nat, NEW b \in Nat, NEW c \in Nat \ {0}
  PROVE  a * c \in Nat /\ b * c \in Nat /\ (a < b <=> a * c < b * c)
<1>1. ASSUME NEW x \in Nat, NEW y \in Nat, x <= y PROVE x * c <= y * c
  <2>1. y - x \in Nat /\ (y - x) * c \in Nat
    BY <1>1
  <2>2. (y - x) * c = y * c - x * c
    BY <1>1
  <2>3. x * c \in Nat /\ y * c \in Nat
    OBVIOUS
  <2> QED
    BY <2>1, <2>2, <2>3
<1>2. a < b => (a + 1) * c <= b * c /\ (a + 1) * c = a * c + c
  <2>1. (a + 1) * c = a * c + c
    OBVIOUS
  <2>2. a < b => a + 1 <= b /\ a + 1 \in Nat
    OBVIOUS
  <2> QED
    BY <1>1, <2>1, <2>2
<1>3. a * c \in Nat /\ b * c \in Nat
  OBVIOUS
<1>4. ~(a < b) => b * c <= a * c
  BY <1>1
<1> QED
  BY <1>2, <1>3, <1>4

\* If a Node has a higher duty cycle than one that no other exceeds, it has a
\* higher one than the other.
LEMMA DutyCycles ==
  ASSUME NEW a \in Nat, NEW b \in Nat, NEW c \in Nat,
         NEW d \in Nat \ {0}, NEW e \in Nat \ {0}, NEW f \in Nat \ {0},
         a * e > b * d, ~(c * e > b * f)
  PROVE  a * f > c * d
<1> DEFINE ae == a * e
           bd == b * d
           ce == c * e
           bf == b * f
           af == a * f
           cd == c * d
<1>1. ae \in Nat /\ bd \in Nat /\ ce \in Nat /\ bf \in Nat /\ af \in Nat /\ cd \in Nat
  OBVIOUS
<1>2. bd < ae /\ ~(bf < ce)
  BY <1>1
<1>3. bd * f < ae * f /\ ~(bf * d < ce * d)
  <2> HIDE DEF ae, bd, ce, bf
  <2> QED
    BY <1>1, <1>2, Scale
<1>4. bd * f = bf * d /\ ae * f = af * e /\ ce * d = cd * e
  OBVIOUS
<1>5. bf * d \in Nat /\ ce * d \in Nat /\ ae * f \in Nat
  OBVIOUS
<1> HIDE DEF ae, bd, ce, bf, af, cd
<1>6. cd * e < af * e
  BY <1>3, <1>4, <1>5
<1>7. cd < af
  BY <1>1, <1>6, Scale
<1>8. af > cd
  BY <1>1, <1>7
<1> QED
  BY <1>8 DEF af, cd

\* Among some Nodes there is a first one with the highest duty cycle.
LEMMA HighestExists ==
  ASSUME NEW N \in Nat \ {0}, NEW t \in [1 .. N -> Nat], NEW d \in [1 .. N -> Nat \ {0}]
  PROVE  \E i \in 1 .. N :
           \A k \in 1 .. N : ~(t[k] * d[i] > t[i] * d[k]) /\ (k < i => t[i] * d[k] > t[k] * d[i])
<1> DEFINE Best(i, m) ==
             \A k \in 1 .. m : ~(t[k] * d[i] > t[i] * d[k]) /\ (k < i => t[i] * d[k] > t[k] * d[i])
           G == {m \in Nat : m + 1 <= N => \E i \in 1 .. m + 1 : Best(i, m + 1)}
<1>1. 0 \in G
  <2>1. Best(1, 0 + 1)
    <3> SUFFICES ASSUME NEW k \in 1 .. 1 PROVE ~(t[k] * d[1] > t[1] * d[k]) /\ ~(k < 1)
      OBVIOUS
    <3>1. k = 1 /\ t[1] * d[1] \in Nat
      OBVIOUS
    <3> QED
      BY <3>1
  <2>2. 1 \in 1 .. 0 + 1
    OBVIOUS
  <2> HIDE DEF Best
  <2> QED
    BY <2>1, <2>2
<1>2. ASSUME NEW m \in Nat, m \in G
      PROVE  m + 1 \in G
  <2> SUFFICES ASSUME m + 1 + 1 <= N PROVE \E i \in 1 .. m + 1 + 1 : Best(i, m + 1 + 1)
    OBVIOUS
  <2> DEFINE n == m + 1 + 1
  <2>1. PICK i \in 1 .. m + 1 : Best(i, m + 1)
    BY <1>2
  <2>2. n \in 1 .. N /\ i \in 1 .. N /\ i < n /\ i \in 1 .. n /\ n \in 1 .. n /\ (1 .. n) = (1 .. m + 1) \cup {n}
        /\ \A k \in 1 .. m + 1 : k \in 1 .. N /\ k < n
    OBVIOUS
  <2>3. \A k \in 1 .. N : t[k] \in Nat /\ d[k] \in Nat \ {0}
    OBVIOUS
  <2> HIDE DEF n
  <2>4. CASE t[n] * d[i] > t[i] * d[n]
    <3>1. ASSUME NEW k \in 1 .. m + 1 PROVE t[n] * d[k] > t[k] * d[n]
      <4>1. ~(t[k] * d[i] > t[i] * d[k])
        BY <2>1
      <4> QED
        BY <2>2, <2>3, <2>4, <4>1, DutyCycles
    <3>2. \A k \in 1 .. m + 1 : ~(t[k] * d[n] > t[n] * d[k])
      <4> TAKE k \in 1 .. m + 1
      <4> DEFINE x == t[n] * d[k]
                 y == t[k] * d[n]
      <4>1. x \in Nat /\ y \in Nat /\ x > y
        BY <2>2, <2>3, <3>1
      <4> HIDE DEF x, y
      <4>2. ~(y > x)
        BY <4>1
      <4> QED
        BY <4>2 DEF x, y
    <3>3. ~(t[n] * d[n] > t[n] * d[n])
      <4>1. t[n] * d[n] \in Nat
        BY <2>2, <2>3
      <4> QED
        BY <4>1
    <3>4. Best(n, n)
      <4>1. ~(n < n)
        BY <2>2
      <4> QED
        BY <2>2, <3>1, <3>2, <3>3, <4>1
    <3> HIDE DEF Best
    <3> QED
      BY <2>2, <3>4 DEF n
  <2>5. CASE ~(t[n] * d[i] > t[i] * d[n])
    <3>1. Best(i, n)
      <4>1. ~(n < i)
        BY <2>2
      <4> QED
        BY <2>1, <2>2, <2>5, <4>1
    <3> HIDE DEF Best
    <3> QED
      BY <2>2, <3>1 DEF n
  <2> QED
    BY <2>4, <2>5
<1> HIDE DEF G
<1>3. Nat \subseteq G
  BY <1>1, <1>2, Every
<1>4. N - 1 \in Nat /\ N - 1 + 1 = N
  OBVIOUS
<1>5. \E i \in 1 .. N : Best(i, N)
  <2>1. N - 1 \in G
    BY <1>3, <1>4
  <2> HIDE DEF Best
  <2> QED
    BY <1>4, <2>1 DEF G
<1> QED
  BY <1>5

LEMMA HighestIs ==
  ASSUME NEW D, IsFiniteSet(D), eventNodes \in SetToSeqs(D), \A n \in D : demand[n] \in Nat \ {0},
         NEW tx \in [D -> Powers], \E n \in D : tx[n] > 1
  PROVE  HighestDutyCycle(tx) \in D /\ tx[HighestDutyCycle(tx)] > 1
<1> DEFINE T == {n \in DOMAIN tx : tx[n] > 1}
           often == Among(eventNodes, T)
           Higher(i, k) == tx[often[i]] * demand[often[k]] > tx[often[k]] * demand[often[i]]
           First(i) == \A k \in DOMAIN often : ~Higher(k, i) /\ (k < i => Higher(i, k))
           top == CHOOSE i \in DOMAIN often : First(i)
<1>1. HighestDutyCycle(tx) = often[top]
  BY DEF HighestDutyCycle
<1>2. often \in SetToSeqs(D \cap T)
  <2> HIDE DEF T
  <2> QED
    BY OrderAmong
<1>3. /\ often \in Seq(D \cap T) /\ DOMAIN often = 1 .. Len(often) /\ Len(often) \in Nat
      /\ \A n \in D \cap T : \E i \in 1 .. Len(often) : often[i] = n
  <2> DEFINE E == D \cap T
  <2>1. IsFiniteSet(E)
    <3> HIDE DEF T
    <3> QED
      BY FS_Intersection
  <2> HIDE DEF often
  <2>2. often \in SetToSeqs(E)
    BY <1>2
  <2> HIDE DEF E
  <2>3. /\ often \in Seq(E) /\ DOMAIN often = 1 .. Len(often) /\ Len(often) \in Nat
        /\ \A n \in E : \E i \in 1 .. Len(often) : often[i] = n
    BY <2>1, <2>2, OrderIs
  <2> QED
    BY <2>3 DEF E
<1>4. D \cap T = {n \in D : tx[n] > 1} /\ \E n : n \in D \cap T
  OBVIOUS
<1> HIDE DEF T, often
<1>5. \A i \in 1 .. Len(often) : often[i] \in D /\ tx[often[i]] > 1 /\ tx[often[i]] \in Nat /\ demand[often[i]] \in Nat \ {0}
  <2> TAKE i \in 1 .. Len(often)
  <2>1. often[i] \in D \cap T
    BY <1>3
  <2>2. tx[often[i]] \in Powers
    BY <2>1
  <2> QED
    BY <1>4, <2>1, <2>2, PowersAre
<1>6. Len(often) \in Nat \ {0}
  BY <1>3, <1>4
<1>7. \E i \in DOMAIN often : First(i)
  <2> DEFINE N == Len(often)
             t == [i \in 1 .. N |-> tx[often[i]]]
             d == [i \in 1 .. N |-> demand[often[i]]]
  <2>1. N \in Nat \ {0} /\ t \in [1 .. N -> Nat] /\ d \in [1 .. N -> Nat \ {0}]
    BY <1>5, <1>6
  <2>2. \A i \in 1 .. N : t[i] = tx[often[i]] /\ d[i] = demand[often[i]]
    OBVIOUS
  <2>3. DOMAIN often = 1 .. N
    BY <1>3
  <2> HIDE DEF N, t, d
  <2>4. PICK i \in 1 .. N :
          \A k \in 1 .. N : ~(t[k] * d[i] > t[i] * d[k]) /\ (k < i => t[i] * d[k] > t[k] * d[i])
    BY <2>1, HighestExists
  <2>5. First(i)
    <3> SUFFICES ASSUME NEW k \in DOMAIN often PROVE ~Higher(k, i) /\ (k < i => Higher(i, k))
      OBVIOUS
    <3>1. k \in 1 .. N
      BY <2>3
    <3>2. t[k] = tx[often[k]] /\ d[k] = demand[often[k]] /\ t[i] = tx[often[i]] /\ d[i] = demand[often[i]]
      BY <2>2, <3>1
    <3>3. ~(t[k] * d[i] > t[i] * d[k]) /\ (k < i => t[i] * d[k] > t[k] * d[i])
      BY <2>4, <3>1, Zenon
    <3> QED
      BY <3>2, <3>3
  <2> HIDE DEF First
  <2> QED
    BY <2>3, <2>5
<1> HIDE DEF First
<1>8. top \in DOMAIN often
  BY <1>7
<1> HIDE DEF top
<1> QED
  BY <1>1, <1>3, <1>5, <1>8

LEMMA TotalIs ==
  ASSUME NEW D, IsFiniteSet(D), NEW tx \in [D -> Powers]
  PROVE  /\ TotalTx(tx) \in Nat
         /\ (\A n \in D : ~(tx[n] > 1)) => TotalTx(tx) = Cardinality(D)
         /\ \E g : Sums(g, tx, D) /\ TotalTx(tx) = g[D]
<1>1. DOMAIN tx = D
  OBVIOUS
<1>2. PICK g : Sums(g, tx, D) /\ TotalTx(tx) = g[D]
  <2> DEFINE g == CHOOSE g : Sums(g, tx, D)
  <2>1. Sums(g, tx, D)
    BY SumExists
  <2>2. TotalTx(tx) = g[D]
    BY <1>1 DEF TotalTx, MapThenSumSet, MapThenFoldSet, Sums
  <2> QED
    BY <2>1, <2>2
<1>3. TotalTx(tx) = g[D]
  BY <1>2
<1>4. \A n \in D : tx[n] \in Nat \ {0}
  <2> TAKE n \in D
  <2>1. tx[n] \in Powers
    OBVIOUS
  <2> QED
    BY <2>1, PowersAre
<1>5. (\A n \in D : ~(tx[n] > 1)) => \A n \in D : tx[n] = 1
  <2> SUFFICES ASSUME \A n \in D : ~(tx[n] > 1), NEW n \in D PROVE tx[n] = 1
    OBVIOUS
  <2>1. tx[n] \in Nat \ {0} /\ ~(tx[n] > 1)
    BY <1>4
  <2> QED
    BY <2>1
<1>6. g[D] \in Nat /\ ((\A n \in D : tx[n] = 1) => g[D] = Cardinality(D))
  BY <1>2, <1>4, SumIs
<1> QED
  BY <1>2, <1>3, <1>5, <1>6

LEMMA HalvedIs ==
  ASSUME NEW D, IsFiniteSet(D), eventNodes \in SetToSeqs(D), \A n \in D : demand[n] \in Nat \ {0},
         LargeSlots \in Nat, Cardinality(D) <= LargeSlots, NEW tx \in [D -> Powers]
  PROVE  /\ Halved(tx) \in [D -> Powers]
         /\ ~(TotalTx(tx) > LargeSlots) => Halved(tx) = tx
         /\ TotalTx(tx) > LargeSlots => TotalTx(Halved(tx)) < TotalTx(tx)
<1>1. ~(TotalTx(tx) > LargeSlots) => Halved(tx) = tx
  BY DEF Halved
<1>2. CASE TotalTx(tx) > LargeSlots
  <2> DEFINE h == HighestDutyCycle(tx)
             half == [tx EXCEPT ![h] = tx[h] \div 2]
  <2>1. \E n \in D : tx[n] > 1
    <3> SUFFICES ASSUME \A n \in D : ~(tx[n] > 1) PROVE FALSE
      OBVIOUS
    <3>1. TotalTx(tx) = Cardinality(D) /\ Cardinality(D) \in Nat
      BY TotalIs, FS_CardinalityType
    <3> QED
      BY <1>2, <3>1
  <2>2. h \in D /\ tx[h] > 1
    BY <2>1, HighestIs
  <2>3. Halved(tx) = half
    BY <1>2 DEF Halved
  <2> HIDE DEF h
  <2>4. tx[h] \in Powers /\ tx[h] \div 2 \in Powers /\ tx[h] \div 2 < tx[h]
    BY <2>2, PowersAre
  <2>5. half \in [D -> Powers] /\ half[h] = tx[h] \div 2 /\ \A n \in D : n # h => half[n] = tx[n]
    BY <2>2, <2>4
  <2> HIDE DEF half
  <2>6. PICK g : Sums(g, tx, D) /\ TotalTx(tx) = g[D]
    BY TotalIs
  <2>7. PICK k : Sums(k, half, D) /\ TotalTx(half) = k[D]
    BY <2>5, TotalIs
  <2>8. \A n \in D : half[n] \in Nat /\ tx[n] \in Nat /\ (n # h => half[n] = tx[n])
    <3> TAKE n \in D
    <3>1. half[n] \in Powers /\ tx[n] \in Powers
      BY <2>5
    <3> QED
      BY <2>5, <3>1, PowersAre
  <2>9. half[h] < tx[h]
    BY <2>4, <2>5
  <2>10. k[D] < g[D]
    BY <2>2, <2>6, <2>7, <2>8, <2>9, SumLess
  <2> QED
    BY <1>2, <2>3, <2>5, <2>6, <2>7, <2>10
<1>3. CASE ~(TotalTx(tx) > LargeSlots)
  BY <1>1, <1>3
<1> QED
  BY <1>2, <1>3

Maps(h, S) == h \in [S -> S]

\* h, applied over and over to a.
Repeated(f, h, a) == f = [n \in Nat |-> f[n]] /\ f[0] = a /\ \A n \in Nat : f[n + 1] = h[f[n]]

LEMMA StepsExist ==
  ASSUME NEW S, NEW h, Maps(h, S), NEW a \in S
  PROVE  \E f : Repeated(f, h, a)
<1> USE DEF Maps
<1> DEFINE Steps(g, n) == g \in [0 .. n -> S] /\ g[0] = a /\ \A j \in Nat : j < n => g[j + 1] = h[g[j]]
<1>1. \A n \in Nat : \E g : Steps(g, n)
  <2> DEFINE G == {n \in Nat : \E g : Steps(g, n)}
  <2>1. 0 \in G
    <3>1. Steps([i \in 0 .. 0 |-> a], 0)
      OBVIOUS
    <3> HIDE DEF Steps
    <3> QED
      BY <3>1
  <2>2. ASSUME NEW n \in Nat, n \in G
        PROVE  n + 1 \in G
    <3>1. PICK g : Steps(g, n)
      BY <2>2
    <3> DEFINE k == [i \in 0 .. n + 1 |-> IF i = n + 1 THEN h[g[n]] ELSE g[i]]
    <3>2. h[g[n]] \in S
      <4>1. g[n] \in S
        BY <3>1
      <4> QED
        BY <4>1
    <3>3. k \in [0 .. n + 1 -> S] /\ k[0] = a
      BY <3>1, <3>2
    <3>4. ASSUME NEW j \in Nat, j < n + 1
          PROVE  k[j + 1] = h[k[j]]
      <4>1. CASE j = n
        <5>1. k[n + 1] = h[g[n]] /\ k[n] = g[n]
          OBVIOUS
        <5> QED
          BY <4>1, <5>1
      <4>2. CASE j # n
        <5>1. j < n /\ j \in 0 .. n + 1 /\ j + 1 \in 0 .. n + 1 /\ j # n + 1 /\ j + 1 # n + 1
          BY <3>4, <4>2
        <5>2. k[j + 1] = g[j + 1] /\ k[j] = g[j]
          BY <5>1
        <5>3. g[j + 1] = h[g[j]]
          BY <3>1, <5>1
        <5> QED
          BY <5>2, <5>3
      <4> QED
        BY <4>1, <4>2
    <3> HIDE DEF k
    <3>5. Steps(k, n + 1)
      BY <3>3, <3>4
    <3> HIDE DEF Steps
    <3> QED
      BY <3>5
  <2> HIDE DEF G
  <2>3. Nat \subseteq G
    BY <2>1, <2>2, Every
  <2> HIDE DEF Steps
  <2> QED
    BY <2>3 DEF G
<1>2. ASSUME NEW n \in Nat, NEW m \in Nat, NEW g, NEW k, Steps(g, n), Steps(k, m), n <= m
      PROVE  g[n] = k[n]
  <2> DEFINE G == {i \in Nat : i <= n => g[i] = k[i]}
  <2>1. 0 \in G
    BY <1>2
  <2>2. ASSUME NEW i \in Nat, i \in G
        PROVE  i + 1 \in G
    <3>1. SUFFICES ASSUME i + 1 <= n PROVE g[i + 1] = k[i + 1]
      OBVIOUS
    <3>2. i < n /\ i < m /\ g[i] = k[i]
      BY <1>2, <2>2, <3>1
    <3>3. g[i + 1] = h[g[i]] /\ k[i + 1] = h[k[i]]
      BY <1>2, <3>2
    <3> QED
      BY <3>2, <3>3
  <2> HIDE DEF G
  <2>3. Nat \subseteq G
    BY <2>1, <2>2, Every
  <2> QED
    BY <2>3 DEF G
<1> DEFINE g(n) == CHOOSE x : Steps(x, n)
           f == [n \in Nat |-> g(n)[n]]
<1>3. \A n \in Nat : Steps(g(n), n)
  <2> HIDE DEF Steps
  <2> QED
    BY <1>1
<1> HIDE DEF g
<1>4. ASSUME NEW n \in Nat
      PROVE  f[n] \in S /\ f[n + 1] = h[f[n]]
  <2>1. g(n)[n] \in S
    BY <1>3
  <2>2. Steps(g(n), n) /\ Steps(g(n + 1), n + 1) /\ n <= n + 1 /\ n < n + 1 /\ n + 1 \in Nat
    BY <1>3
  <2>3. g(n)[n] = g(n + 1)[n]
    <3> HIDE DEF Steps
    <3> QED
      BY <1>2, <2>2
  <2>4. g(n + 1)[n + 1] = h[g(n + 1)[n]]
    BY <2>2
  <2>5. f[n] = g(n)[n] /\ f[n + 1] = g(n + 1)[n + 1]
    BY <2>2
  <2> QED
    BY <2>1, <2>3, <2>4, <2>5
<1>5. f[0] = a
  BY <1>3
<1>6. f \in [Nat -> S]
  BY <1>4
<1> HIDE DEF f
<1>7. Repeated(f, h, a)
  BY <1>4, <1>5, <1>6 DEF Repeated
<1> QED
  BY <1>7

Halvings(a, shares) == a = [i \in Nat |-> IF i = 0 THEN shares ELSE Halved(a[i - 1])]

\* After so many steps as there are transmissions the shares are not too much.
LEMMA HalvingsEnd ==
  ASSUME NEW D, IsFiniteSet(D), eventNodes \in SetToSeqs(D), \A n \in D : demand[n] \in Nat \ {0},
         LargeSlots \in Nat, Cardinality(D) <= LargeSlots, NEW shares \in [D -> Powers]
  PROVE  LET after == CHOOSE a : Halvings(a, shares)
         IN  /\ after[TotalTx(shares)] \in [D -> Powers]
             /\ TotalTx(after[TotalTx(shares)]) <= LargeSlots
<1> DEFINE V == [D -> Powers]
           h == [tx \in V |-> Halved(tx)]
           after == CHOOSE a : Halvings(a, shares)
<1>1. \A tx \in V : /\ Halved(tx) \in V /\ TotalTx(tx) \in Nat
                    /\ ~(TotalTx(tx) > LargeSlots) => Halved(tx) = tx
                    /\ TotalTx(tx) > LargeSlots => TotalTx(Halved(tx)) < TotalTx(tx)
  BY HalvedIs, TotalIs
<1>2. shares \in V
  OBVIOUS
<1> HIDE DEF V
<1>3. \E f : Halvings(f, shares)
  <2>1. Maps(h, V)
    BY <1>1 DEF Maps
  <2>2. \A tx \in V : h[tx] = Halved(tx)
    OBVIOUS
  <2> HIDE DEF h
  <2>3. PICK f : Repeated(f, h, shares)
    BY <1>2, <2>1, StepsExist
  <2>3a. DOMAIN f = Nat /\ f[0] = shares /\ \A n \in Nat : f[n + 1] = h[f[n]]
    BY <2>3 DEF Repeated
  <2>3b. \A n \in Nat : f[n] \in V
    <3> DEFINE G == {n \in Nat : f[n] \in V}
    <3>1. 0 \in G
      BY <1>2, <2>3a
    <3>2. ASSUME NEW n \in Nat, n \in G PROVE n + 1 \in G
      BY <1>1, <2>2, <2>3a, <3>2
    <3> HIDE DEF G
    <3>3. Nat \subseteq G
      BY <3>1, <3>2, Every
    <3> QED
      BY <3>3 DEF G
  <2> DEFINE k == [i \in Nat |-> IF i = 0 THEN shares ELSE Halved(f[i - 1])]
  <2>4. ASSUME NEW i \in Nat PROVE f[i] = k[i]
    <3>1. CASE i = 0
      BY <2>3a, <3>1
    <3>2. CASE i # 0
      <4>1. i - 1 \in Nat /\ i - 1 + 1 = i
        BY <3>2
      <4>2. f[i] = h[f[i - 1]] /\ f[i - 1] \in V
        BY <2>3a, <2>3b, <4>1
      <4> QED
        BY <2>2, <3>2, <4>2
    <3> QED
      BY <3>1, <3>2
  <2>5. f = k
    <3>1. DOMAIN f = Nat /\ DOMAIN k = Nat
      BY <2>3a
    <3>2. f = [i \in Nat |-> f[i]]
      BY <3>1, <2>3 DEF Repeated
    <3> QED
      BY <2>4, <3>2
  <2> QED
    BY <2>5 DEF Halvings
<1>4. Halvings(after, shares)
  BY <1>3
<1> HIDE DEF after
<1>5. after[0] = shares /\ \A n \in Nat : after[n + 1] = Halved(after[n])
  <2>1. \A i \in Nat : after[i] = IF i = 0 THEN shares ELSE Halved(after[i - 1])
    BY <1>4 DEF Halvings
  <2>2. \A n \in Nat : n + 1 \in Nat /\ n + 1 # 0 /\ n + 1 - 1 = n
    OBVIOUS
  <2> QED
    BY <2>1, <2>2
<1> DEFINE T == TotalTx(shares)
           G == {n \in Nat : /\ after[n] \in V
                             /\ TotalTx(after[n]) <= LargeSlots \/ TotalTx(after[n]) + n <= T}
<1>6. T \in Nat
  BY <1>1, <1>2
<1>7. 0 \in G
  <2>1. TotalTx(after[0]) + 0 <= T
    <3> DEFINE x == TotalTx(shares)
    <3>1. x \in Nat /\ TotalTx(after[0]) = x
      BY <1>5, <1>6
    <3> HIDE DEF x
    <3>2. TotalTx(after[0]) + 0 <= x
      BY <3>1
    <3> QED
      BY <3>2 DEF x
  <2> HIDE DEF T
  <2> QED
    BY <1>2, <1>5, <2>1
<1>8. ASSUME NEW n \in Nat, n \in G
      PROVE  n + 1 \in G
  <2> DEFINE tx == after[n]
             nx == after[n + 1]
  <2>1. tx \in V /\ nx = Halved(tx) /\ (TotalTx(tx) <= LargeSlots \/ TotalTx(tx) + n <= T)
    BY <1>5, <1>8
  <2> HIDE DEF tx, nx
  <2>2. nx \in V /\ TotalTx(nx) \in Nat /\ TotalTx(tx) \in Nat
    BY <1>1, <2>1
  <2>3. CASE TotalTx(tx) > LargeSlots
    <3>1. TotalTx(nx) < TotalTx(tx)
      BY <1>1, <2>1, <2>3
    <3>2. TotalTx(tx) + n <= T
      BY <2>1, <2>2, <2>3
    <3> HIDE DEF T
    <3>3. TotalTx(nx) + (n + 1) <= T
      BY <1>6, <2>2, <3>1, <3>2
    <3> QED
      BY <2>2, <3>3 DEF nx
  <2>4. CASE ~(TotalTx(tx) > LargeSlots)
    <3>1. nx = tx
      BY <1>1, <2>1, <2>4
    <3>2. TotalTx(nx) <= LargeSlots
      BY <2>2, <2>4, <3>1
    <3> HIDE DEF T
    <3> QED
      BY <2>2, <3>2 DEF nx
  <2> QED
    BY <2>3, <2>4
<1> HIDE DEF G
<1>9. Nat \subseteq G
  BY <1>7, <1>8, Every
<1>10. after[T] \in V /\ (TotalTx(after[T]) <= LargeSlots \/ TotalTx(after[T]) + T <= T)
  <2> HIDE DEF T
  <2>1. T \in G
    BY <1>6, <1>9
  <2> QED
    BY <2>1 DEF G
<1>11. TotalTx(after[T]) \in Nat
  BY <1>1, <1>10
<1> HIDE DEF T
<1>12. TotalTx(after[T]) <= LargeSlots
  BY <1>6, <1>10, <1>11
<1> QED
  BY <1>10, <1>12 DEF T, V, after

LEMMA CeilDivIs ==
  ASSUME NEW a \in Nat \ {0}, NEW b \in Nat \ {0}
  PROVE  CeilDiv(a, b) \in Nat \ {0}
<1> DEFINE n == a + b - 1
<1>1. n \in Nat /\ b <= n
  OBVIOUS
<1> HIDE DEF n
<1>2. n \div b \in Nat /\ n % b \in 0 .. b - 1 /\ n = b * (n \div b) + (n % b)
  BY <1>1
<1>3. n \div b # 0
  BY <1>1, <1>2
<1> QED
  BY <1>2, <1>3 DEF CeilDiv, n

LEMMA RateIs ==
  ASSUME NEW n, demand[n] \in Nat \ {0}, NEW optimize
  PROVE  TxPerGroup(n, optimize) \in Powers
<1> DEFINE x == demand[n] * OverheadFactor(optimize)
<1>1. OverheadFactor(optimize) \in Nat \ {0}
  BY DEF OverheadFactor
<1>2. \A a, b \in Nat \ {0} : a * b \in Nat \ {0}
  OBVIOUS
<1>3. x \in Nat \ {0}
  BY <1>1, <1>2
<1> HIDE DEF x
<1>4. CeilDiv(x, 8) \in Nat \ {0}
  BY <1>3, CeilDivIs
<1>5. CeilBase2(CeilDiv(x, 8)) \in Powers
  BY <1>4, CeilIs
<1> QED
  BY <1>5 DEF TxPerGroup, x

LEMMA ShareIs ==
  ASSUME NEW D, IsFiniteSet(D), ToSet(eventNodes) = D, \A n \in D : demand[n] \in Nat \ {0},
         LargeSlots \in Nat, NEW n \in D
  PROVE  Share(n) \in Powers
<1> DEFINE x == (LargeSlots * demand[n]) \div Larger(1, TotalDemand)
<1>1. TotalDemand \in Nat
  <2> DEFINE g == CHOOSE g : Sums(g, demand, D)
  <2>1. Sums(g, demand, D)
    BY SumExists
  <2>2. TotalDemand = g[D]
    BY DEF TotalDemand, MapThenSumSet, MapThenFoldSet, Sums
  <2> HIDE DEF g
  <2>3. g[D] \in Nat
    BY <2>1, SumIs
  <2> QED
    BY <2>2, <2>3
<1>2. Larger(1, TotalDemand) \in Nat \ {0} /\ LargeSlots * demand[n] \in Nat
  BY <1>1 DEF Larger
<1>3. x \in Nat
  <2> DEFINE y == LargeSlots * demand[n]
             z == Larger(1, TotalDemand)
  <2>1. y \in Nat /\ z \in Nat \ {0}
    BY <1>2
  <2> HIDE DEF y, z
  <2>2. y \div z \in Nat
    BY <2>1
  <2> QED
    BY <2>2 DEF y, z
<1> HIDE DEF x
<1>4. FloorBase2(x) \in Powers \cup {0}
  BY <1>3, FloorIs
<1> DEFINE most == CeilBase2(CeilDiv(demand[n] * OverheadFactor(FALSE), 8))
<1>5. most \in Powers
  <2>1. TxPerGroup(n, FALSE) \in Powers
    BY RateIs
  <2> QED
    BY <2>1 DEF TxPerGroup
<1>6. Share(n) = Larger(1, Smaller(FloorBase2(x), most))
  BY DEF Share, x
<1> HIDE DEF most
<1>7. Powers \subseteq Nat \ {0} /\ 1 \in Powers
  BY PowersAre
<1>8. CASE FloorBase2(x) = 0
  <2>1. Smaller(FloorBase2(x), most) = 0
    BY <1>5, <1>7, <1>8 DEF Smaller
  <2> QED
    BY <1>6, <1>7, <2>1 DEF Larger
<1>9. CASE FloorBase2(x) \in Powers
  <2>1. Smaller(FloorBase2(x), most) \in Powers
    BY <1>5, <1>9 DEF Smaller
  <2> QED
    BY <1>6, <1>7, <2>1 DEF Larger
<1> QED
  BY <1>4, <1>8, <1>9

LEMMA DivvyUpIs ==
  ASSUME NEW D, IsFiniteSet(D), eventNodes \in SetToSeqs(D), \A n \in D : demand[n] \in Nat \ {0},
         \A n \in D : info[n].tx \in Powers, LargeSlots \in Nat
  PROVE  /\ DivvyUp \in [D -> Powers]
         /\ Len(eventNodes) <= LargeSlots => TotalTx(DivvyUp) <= LargeSlots
<1>1. ToSet(eventNodes) = D /\ Len(eventNodes) = Cardinality(D) /\ Cardinality(D) \in Nat
  BY OrderIs, FS_CardinalityType
<1>2. CASE eventNodes = <<>>
  <2>1. D = {} /\ Cardinality(D) = 0
    <3>1. Cardinality(D) = 0
      BY <1>1, <1>2
    <3> QED
      BY <3>1, FS_EmptySet
  <2>2. DivvyUp = [n \in D |-> info[n].tx]
    BY <1>1, <1>2 DEF DivvyUp
  <2>3. DivvyUp \in [D -> Powers]
    BY <2>2
  <2>4. TotalTx(DivvyUp) = 0
    <3> DEFINE tx == DivvyUp
    <3>1. tx \in [D -> Powers] /\ \A n \in D : ~(tx[n] > 1)
      BY <2>1, <2>3
    <3> HIDE DEF tx
    <3>2. TotalTx(tx) = Cardinality(D)
      BY <3>1, TotalIs
    <3> QED
      BY <2>1, <3>2 DEF tx
  <2> QED
    BY <2>3, <2>4
<1>3. CASE eventNodes # <<>> /\ Len(eventNodes) > LargeSlots
  <2>1. DivvyUp = [n \in D |-> info[n].tx]
    BY <1>1, <1>3 DEF DivvyUp
  <2>2. ~(Len(eventNodes) <= LargeSlots)
    BY <1>1, <1>3
  <2> QED
    BY <2>1, <2>2
<1>4. CASE eventNodes # <<>> /\ ~(Len(eventNodes) > LargeSlots)
  <2> DEFINE shares == [n \in D |-> Share(n)]
             after == CHOOSE a : Halvings(a, shares)
  <2>1. DivvyUp = after[TotalTx(shares)]
    BY <1>1, <1>4 DEF DivvyUp, Halvings
  <2>2. shares \in [D -> Powers]
    BY <1>1, ShareIs
  <2>3. Cardinality(D) <= LargeSlots
    BY <1>1, <1>4
  <2> HIDE DEF shares
  <2>4. after[TotalTx(shares)] \in [D -> Powers] /\ TotalTx(after[TotalTx(shares)]) <= LargeSlots
    BY <2>2, <2>3, HalvingsEnd
  <2> HIDE DEF after
  <2> QED
    BY <2>1, <2>4
<1> QED
  BY <1>2, <1>3, <1>4

-----------------------------------------------------------------------------
(* What holds while the schedule is computed *)

Rows == [tx : Nat, tdma : 0 .. MaxSlots, status : {"OK", "DoesNotFit", "PoorCommunication"},
         applied : BOOLEAN, started : BOOLEAN, optimized : BOOLEAN]

TypesInv ==
  /\ Members \subseteq Nodes /\ IsFiniteSet(Members) /\ pending \subseteq Members
  /\ info \in [Members -> Rows]
  /\ allNodes \in SetToSeqs(Members) /\ eventNodes \in SetToSeqs(Members \cap EventNodes)
  /\ demand \in [Nodes -> Nat \ {0}] /\ protocol \in DOMAIN Spacing
  /\ slots \subseteq 0 .. MaxSlots - 1 /\ available \in 0 .. MaxSlots
  /\ todo \in Seq(Members) /\ trying \in Members \cup {0}

\* Where a call is, and what its variables are for.
CallInv ==
  /\ phase \in Settled \cup SearchPhases \cup {"calculate", "optimize", "failed"}
  /\ op = "none" <=> phase = "idle"
  /\ adding # 0 => op = "add"
  /\ op = "add" => adding \in Members
  /\ phase \in {"try", "restore"} => trying \in Members \ EventNodes

\* The Nodes that slots are searched for.
Searched == IF phase = "others" THEN Members \ ToSet(eventNodes) ELSE Members

\* The table of slots is the one SlotTable fills; the Nodes still to be visited
\* are the rest of the order, and the statuses of the others are new.
TableInv ==
  phase \in SearchPhases =>
    /\ \A n \in Members : info[n].tx \in Powers
    /\ Order \in Sorted(Searched, info)
    /\ Len(todo) <= Len(Order) /\ \A j \in 1 .. Len(todo) : todo[j] = Order[Found + j]
    /\ Table!SearchInv /\ Table!CountInv
    /\ \A i \in 1 .. Found : info[Order[i]].status = "OK" => info[Order[i]].tdma > 0
    /\ allFound <=> \A i \in 1 .. Found : info[Order[i]].status = "OK"

\* The operators of TdmaSlots are the same there.
LEMMA TableIs ==
  /\ \A tx, size, legacy : Table!MaxTdmaAddress(tx, size, legacy) = MaxTdmaAddress(tx, size, legacy)
  /\ \A taken, nd, legacy : Table!Reserving(taken, nd, legacy) = Reserving(taken, nd, legacy)
  /\ \A nd, s : Table!SlotsFrom(nd, s) = SlotsFrom(nd, s) /\ Table!Room(nd, s) = Room(nd, s)
  /\ \A taken, nd : /\ Table!FoundSlot(taken, nd) = FoundSlot(taken, nd)
                    /\ Table!DoesNotFit(taken, nd) = DoesNotFit(taken, nd)
  /\ \A S : Table!Cardinality(S) = Cardinality(S)
<1>1. \A tx, size, legacy : Table!MaxTdmaAddress(tx, size, legacy) = MaxTdmaAddress(tx, size, legacy)
  BY DEF Table!MaxTdmaAddress, MaxTdmaAddress, Table!Larger, Larger
<1>2. \A nd : Table!Between(nd) = Between(nd)
  BY DEF Table!Between, Between
<1>3. \A at, size : Table!Block(at, size) = Block(at, size)
  BY DEF Table!Block, Block
<1>4. \A nd, s : Table!Room(nd, s) = Room(nd, s)
  BY <1>2 DEF Table!Room, Room
<1>5. \A nd, s : Table!SlotsFrom(nd, s) = SlotsFrom(nd, s)
  BY <1>2, <1>3, <1>4 DEF Table!SlotsFrom, SlotsFrom
<1>6. \A taken, nd, legacy : Table!Reserving(taken, nd, legacy) = Reserving(taken, nd, legacy)
  BY <1>2, <1>3 DEF Table!Reserving, Reserving, Table!ReservedSlots, ReservedSlots
<1>9. \A S : Table!Cardinality(S) = Cardinality(S)
  BY Zenon DEF Table!Cardinality, Cardinality
<1>7. \A taken, nd : Table!FoundSlot(taken, nd) = FoundSlot(taken, nd)
  <2>1. \A taken, nd : Table!NumTxFound(taken, nd) = NumTxFound(taken, nd)
    BY Zenon DEF Table!NumTxFound, NumTxFound, Table!Tried, Tried, Table!Skipped, Skipped,
           Table!FreeUpTo, FreeUpTo, Table!Looked, Looked, Table!TakenAt, TakenAt, Table!TxRequired, TxRequired,
           Table!Between, Between, Table!Room, Room, Table!Smaller, Smaller, Table!Larger, Larger,
           Table!Cardinality, Cardinality
  <2>2. \A taken, nd, s, found : Table!FreeUpTo(taken, nd, s, found) = FreeUpTo(taken, nd, s, found)
    <3> TAKE taken, nd, s, found
    <3> DEFINE A == {k \in Table!Looked(nd, s, found) : \A i \in 0 .. k : ~Table!TakenAt(taken, nd, s, i)}
               B == {k \in Looked(nd, s, found) : \A i \in 0 .. k : ~TakenAt(taken, nd, s, i)}
    <3>1. A = B
      BY Zenon DEF Table!Looked, Looked, Table!TakenAt, TakenAt, Table!TxRequired, TxRequired,
           Table!Between, Between, Table!Room, Room, Table!Smaller, Smaller, Table!Larger, Larger
    <3>2. Table!FreeUpTo(taken, nd, s, found) = Table!Cardinality(A) /\ FreeUpTo(taken, nd, s, found) = Cardinality(B)
      BY DEF Table!FreeUpTo, FreeUpTo
    <3> HIDE DEF A, B
    <3> QED
      BY <1>9, <3>1, <3>2, Zenon
  <2>3. \A taken, nd, s, found : Table!Blocked(taken, nd, s, found) <=> Blocked(taken, nd, s, found)
    BY Zenon DEF Table!Blocked, Blocked, Table!Looked, Looked, Table!TakenAt, TakenAt, Table!TxRequired, TxRequired,
           Table!Between, Between, Table!Room, Room, Table!Smaller, Smaller, Table!Larger, Larger
  <2>4. \A taken, nd, i : Table!Accepts(taken, nd, i) <=> Accepts(taken, nd, i)
    BY <1>2, <2>1, <2>2, <2>3 DEF Table!Accepts, Accepts, Table!TxRequired, TxRequired,
       Table!Tried, Tried, Table!Skipped, Skipped
  <2>5. \A nd : Table!Candidates(nd) = Candidates(nd)
    BY Zenon DEF Table!Candidates, Candidates, Table!Smaller, Smaller
  <2> TAKE taken, nd
  <2> DEFINE A == {i \in Table!Candidates(nd) : Table!Accepts(taken, nd, i)}
             B == {i \in Candidates(nd) : Accepts(taken, nd, i)}
  <2>6. A = B
    BY <2>4, <2>5
  <2>7. Table!FoundSlot(taken, nd) = IF A = {} THEN MaxSlots ELSE nd.size * (CHOOSE i \in A : \A k \in A : i <= k)
    BY DEF Table!FoundSlot
  <2>8. FoundSlot(taken, nd) = IF B = {} THEN MaxSlots ELSE nd.size * (CHOOSE i \in B : \A k \in B : i <= k)
    BY DEF FoundSlot
  <2> HIDE DEF A, B
  <2> QED
    BY <2>6, <2>7, <2>8
<1>8. \A taken, nd : Table!DoesNotFit(taken, nd) = DoesNotFit(taken, nd)
  BY <1>2, <1>7 DEF Table!DoesNotFit, DoesNotFit
<1> QED
  BY <1>1, <1>4, <1>5, <1>6, <1>7, <1>8, <1>9

LEMMA SearchedIs ==
  ASSUME TypesInv
  PROVE  Searched \subseteq Members /\ IsFiniteSet(Searched)
<1>1. Searched \subseteq Members /\ IsFiniteSet(Members)
  BY DEF Searched, TypesInv
<1> QED
  BY <1>1, FS_Subset

LEMMA SearchedOrder ==
  ASSUME TypesInv, Order \in Sorted(Searched, info)
  PROVE  /\ Order \in Seq(Members) /\ Len(Order) \in Nat /\ DOMAIN Order = 1 .. Len(Order)
         /\ \A i, j \in 1 .. Len(Order) : /\ Order[i] = Order[j] => i = j
                                          /\ i < j => Before(info, Order[i], Order[j])
         /\ \A n \in Searched : \E i \in 1 .. Len(Order) : Order[i] = n
<1> DEFINE q == Order
           S == Searched
<1>1. q \in SetToSeqs(S) /\ \A i, j \in DOMAIN q : i < j => Before(info, q[i], q[j])
  BY DEF Sorted
<1>2. S \subseteq Members /\ IsFiniteSet(S)
  BY SearchedIs
<1> HIDE DEF q, S
<1>3. /\ q \in Seq(S) /\ DOMAIN q = 1 .. Len(q) /\ Len(q) \in Nat
      /\ \A i, j \in 1 .. Len(q) : q[i] = q[j] => i = j
      /\ \A n \in S : \E i \in 1 .. Len(q) : q[i] = n
  BY <1>1, <1>2, OrderIs
<1>4. q \in Seq(Members)
  BY <1>2, <1>3
<1> QED
  BY <1>1, <1>3, <1>4 DEF q, S

LEMMA SearchIs ==
  ASSUME TypesInv, NEW n \in Members
  PROVE  /\ Search(n) \in Table!Nodes /\ Search(n).tx = info[n].tx /\ Search(n).size = Spacing[protocol]
         /\ Search(n).max = MaxTdmaAddress(Search(n).tx, Search(n).size, InLegacyMode)
         /\ ~InLegacyMode => Search(n).first /\ Search(n).check = 0
<1>1. info[n].tx \in Nat /\ Spacing[protocol] \in {Spacing[p] : p \in DOMAIN Spacing} /\ Spacing[protocol] \in Nat \ {0}
  BY ScheduleAssumption DEF TypesInv, Rows, ScheduleAssumption
<1>2. MaxTdmaAddress(info[n].tx, Spacing[protocol], InLegacyMode) \in Nat \ {0}
  <2>1. CASE info[n].tx = 0
    BY <2>1 DEF MaxTdmaAddress
  <2>2. CASE info[n].tx # 0
    <3>1. MaxSlots \div info[n].tx \in Int
      BY <1>1, <2>2, SlotAssumption DEF SlotAssumption
    <3>2. (MaxSlots \div info[n].tx) - (IF InLegacyMode THEN Spacing[protocol] ELSE 0) \in Int
      BY <1>1, <3>1
    <3> QED
      BY <2>2, <3>2 DEF MaxTdmaAddress, Larger
  <2> QED
    BY <2>1, <2>2
<1>3. Search(n) \in Table!Nodes
  BY <1>1, <1>2 DEF Search, Table!Nodes
<1>4. ~InLegacyMode => n \notin NotFirst
  BY ScheduleAssumption DEF InLegacyMode, ScheduleAssumption
<1> QED
  BY <1>3, <1>4 DEF Search

\* A search that has just started.
FreshSearch ==
  /\ TypesInv /\ phase \in SearchPhases /\ \A n \in Members : info[n].tx \in Powers
  /\ Order \in Sorted(Searched, info) /\ todo = Order
  /\ slots = {} /\ available = MaxSlots /\ allFound = TRUE

LEMMA FreshIs == FreshSearch => TableInv
<1> SUFFICES ASSUME FreshSearch PROVE TableInv
  OBVIOUS
<1> USE DEF FreshSearch
<1>1. /\ Order \in Seq(Members) /\ Len(Order) \in Nat /\ DOMAIN Order = 1 .. Len(Order)
      /\ \A i, j \in 1 .. Len(Order) : i < j => Before(info, Order[i], Order[j])
  BY SearchedOrder
<1>2. Found = 0
  BY <1>1 DEF Found
<1>3. Placements = <<>> /\ Fits = <<>>
  BY <1>2 DEF Placements, Fits
<1>4. \A i \in 1 .. Len(Order) : Order[i] \in Members /\ Network[i] = Search(Order[i])
  BY <1>1 DEF Network
<1>5. DOMAIN Network = 1 .. Len(Order)
  BY <1>1 DEF Network
<1>6. Network \in Seq(Table!Nodes)
  <2>1. \A i \in 1 .. Len(Order) : Network[i] \in Table!Nodes
    BY <1>4, SearchIs
  <2>2. Network = [i \in 1 .. Len(Order) |-> Network[i]]
    BY <1>1, <1>4 DEF Network
  <2>3. Network \in [1 .. Len(Order) -> Table!Nodes]
    BY <2>1, <2>2
  <2> QED
    BY <1>1, <2>3
<1>7. Table!NetworkInv
  <2>1. \A i \in 1 .. Len(Order) :
          /\ Network[i] \in Table!Nodes /\ Network[i].tx \in Powers /\ Table!HasMax(Network[i], InLegacyMode)
          /\ ~InLegacyMode => Network[i].first /\ Network[i].check = 0
    <3> TAKE i \in 1 .. Len(Order)
    <3> DEFINE nd == Search(Order[i])
    <3>1. Order[i] \in Members /\ Network[i] = nd /\ info[Order[i]].tx \in Powers
      BY <1>4
    <3>2. /\ nd \in Table!Nodes /\ nd.tx = info[Order[i]].tx
          /\ nd.max = MaxTdmaAddress(nd.tx, nd.size, InLegacyMode)
          /\ ~InLegacyMode => nd.first /\ nd.check = 0
      BY <3>1, SearchIs
    <3> HIDE DEF nd
    <3> QED
      BY <3>1, <3>2, TableIs DEF Table!HasMax
  <2>2. \A i, j \in 1 .. Len(Order) : i < j => Network[i].tx >= Network[j].tx
    <3> SUFFICES ASSUME NEW i \in 1 .. Len(Order), NEW j \in 1 .. Len(Order), i < j
                 PROVE  Network[i].tx >= Network[j].tx
      OBVIOUS
    <3>1. Before(info, Order[i], Order[j])
      BY <1>1
    <3>2. Network[i].tx = info[Order[i]].tx /\ Network[j].tx = info[Order[j]].tx
      BY <1>4, SearchIs
    <3>3. info[Order[i]].tx \in Nat /\ info[Order[j]].tx \in Nat
      BY <1>4 DEF TypesInv, Rows
    <3> QED
      BY <3>1, <3>2, <3>3 DEF Before
  <2> QED
    BY <1>5, <2>1, <2>2 DEF Table!NetworkInv, Table!InOrder
<1>8. InLegacyMode \in BOOLEAN /\ Spacing[protocol] \in {Spacing[p] : p \in DOMAIN Spacing}
  BY DEF InLegacyMode, TypesInv
<1>9. Table!SearchInv
  BY <1>3, <1>6, <1>7, <1>8, TableAssumptions, Table!SearchStarts
<1>10. Table!CountInv
  BY <1>3, TableAssumptions, Table!CountStarts
<1>11. Len(todo) <= Len(Order) /\ \A j \in 1 .. Len(todo) : todo[j] = Order[Found + j]
  BY <1>1, <1>2
<1>12. \A i : i \notin 1 .. Found
  BY <1>2
<1> QED
  BY <1>9, <1>10, <1>11, <1>12 DEF TableInv

LEMMA FreshNext == FreshSearch' => TableInv'
BY FreshIs, PTL

LEMMA AvailableNext == (Table!SearchInv /\ Table!CountInv => available \in 0 .. MaxSlots)'
<1>1. Table!SearchInv /\ Table!CountInv => available \in 0 .. MaxSlots
  BY TableAssumptions, Table!AvailableIsNat
<1> QED
  BY <1>1, PTL

-----------------------------------------------------------------------------
(* One Node of findSlotsForNodes *)

LEMMA Visiting ==
  ASSUME TypesInv, TableInv, phase \in SearchPhases, todo # <<>>
  PROVE  /\ Head(todo) \in Members /\ Tail(todo) \in Seq(Members) /\ Len(Tail(todo)) = Len(todo) - 1
         /\ \A j \in 1 .. Len(Tail(todo)) : Tail(todo)[j] = todo[j + 1]
         /\ Found \in Nat /\ Found + 1 \in 1 .. Len(Order) /\ Order[Found + 1] = Head(todo)
         /\ \A i \in 1 .. Found : Order[i] \in Members /\ Order[i] # Head(todo)
         /\ Len(todo) \in Nat /\ Len(Order) \in Nat /\ Found = Len(Order) - Len(todo)
         /\ Table!Done = Found /\ Len(Network) = Len(Order) /\ Table!Current = Search(Head(todo))
         /\ Search(Head(todo)).tx \in Nat \ {0}
<1>1. todo \in Seq(Members) /\ Len(todo) \in Nat \ {0}
  BY DEF TypesInv
<1>2. /\ Head(todo) = todo[1] /\ todo[1] \in Members /\ Tail(todo) \in Seq(Members)
      /\ Len(Tail(todo)) = Len(todo) - 1
      /\ \A j \in 1 .. Len(Tail(todo)) : Tail(todo)[j] = todo[j + 1]
  BY <1>1
<1>3. /\ Order \in Sorted(Searched, info) /\ Len(todo) <= Len(Order)
      /\ \A j \in 1 .. Len(todo) : todo[j] = Order[Found + j]
      /\ info[todo[1]].tx \in Powers
  BY <1>2 DEF TableInv
<1>4. /\ Order \in Seq(Members) /\ Len(Order) \in Nat /\ DOMAIN Order = 1 .. Len(Order)
      /\ \A i, j \in 1 .. Len(Order) : Order[i] = Order[j] => i = j
  BY <1>3, SearchedOrder
<1>5. Found = Len(Order) - Len(todo)
  BY DEF Found
<1>6. Found \in Nat /\ Found + 1 \in 1 .. Len(Order) /\ Order[Found + 1] = Head(todo)
  BY <1>1, <1>2, <1>3, <1>4, <1>5
<1>7. \A i \in 1 .. Found : Order[i] \in Members /\ Order[i] # Head(todo)
  BY <1>4, <1>6
<1>8. Table!Done = Found
  BY <1>6 DEF Table!Done, Placements
<1>9. Len(Network) = Len(Order) /\ Network[Found + 1] = Search(Head(todo))
  BY <1>4, <1>6 DEF Network
<1>10. Table!Current = Search(Head(todo))
  BY <1>8, <1>9 DEF Table!Current
<1>11. Search(Head(todo)).tx \in Nat \ {0}
  BY <1>2, <1>3, PowersAre DEF Search
<1> QED
  BY <1>1, <1>2, <1>4, <1>5, <1>6, <1>7, <1>8, <1>9, <1>10, <1>11

\* What a step that keeps the rates does to the order.
LEMMA OrderStays ==
  ASSUME TypesInv, Members' = Members, \A n \in Members : info'[n].tx = info[n].tx,
         UNCHANGED <<allNodes, eventNodes, protocol, phase>>
  PROVE  /\ Order' = Order /\ Searched' = Searched /\ InLegacyMode' = InLegacyMode
         /\ Sorted(Searched, info)' = Sorted(Searched, info)
         /\ \A n \in Members : Search(n)' = Search(n)
<1> DEFINE S == Members \ ToSet(eventNodes)
<1>1. \A T : T \subseteq Members => Sorted(T, info') = Sorted(T, info)
  <2> TAKE T
  <2> HAVE T \subseteq Members
  <2>1. \A n \in T : info'[n].tx = info[n].tx
    OBVIOUS
  <2> QED
    BY <2>1, SortedSame
<1>2. S' = S /\ Sorted(S, info') = Sorted(S, info)
  BY <1>1
<1>3. Order' = Order
  <2> DEFINE A == Sorted(S, info)
             B == Sorted(S, info)'
  <2>1. B = Sorted(S', info')
    BY DEF Sorted, Before
  <2>2. A = B
    BY <1>2, <2>1
  <2>3. Order = IF phase = "others" THEN CHOOSE q : q \in A ELSE allNodes
    BY DEF Order
  <2>4. Order' = IF phase' = "others" THEN CHOOSE q : q \in B ELSE allNodes'
    BY DEF Order
  <2> HIDE DEF A, B
  <2> QED
    BY <2>2, <2>3, <2>4
<1>4. Searched' = Searched /\ Searched \subseteq Members
  BY DEF Searched
<1>5. Sorted(Searched, info)' = Sorted(Searched', info')
  BY DEF Sorted, Before
<1>6. InLegacyMode' = InLegacyMode
  BY DEF InLegacyMode
<1>7. \A n \in Members : Search(n)' = Search(n)
  BY <1>6 DEF Search
<1> QED
  BY <1>1, <1>3, <1>4, <1>5, <1>6, <1>7

Statuses == {"OK", "DoesNotFit", "PoorCommunication"}

\* The entries of the Nodes after one of them was changed.
LEMMA RowsAre ==
  ASSUME NEW S, NEW f \in [S -> Rows], NEW h \in S, NEW r \in Rows, NEW g, g = [f EXCEPT ![h] = r]
  PROVE  /\ g \in [S -> Rows] /\ DOMAIN g = S /\ g[h] = r /\ \A n \in S : n # h => g[n] = f[n]
  OBVIOUS

LEMMA StatusIs ==
  ASSUME NEW S, NEW f \in [S -> Rows], NEW h \in S, NEW x \in Statuses, NEW g,
         g = [f EXCEPT ![h].status = x]
  PROVE  /\ g \in [S -> Rows] /\ DOMAIN g = S /\ g[h].status = x
         /\ \A n \in S : g[n].tx = f[n].tx /\ g[n].optimized = f[n].optimized /\ (n # h => g[n] = f[n])
<1> DEFINE r == [f[h] EXCEPT !.status = x]
<1>1. g = [f EXCEPT ![h] = r]
  OBVIOUS
<1>2. r \in Rows /\ r.status = x /\ r.tx = f[h].tx /\ r.optimized = f[h].optimized
  BY DEF Rows, Statuses
<1> HIDE DEF r
<1> QED
  BY <1>1, <1>2, RowsAre

LEMMA Visited ==
  ASSUME TypesInv, TableInv, FindSlot
  PROVE  LET h == Head(todo)
             nd == Search(h)
             taken == Reserving(slots, nd, InLegacyMode)
             s == FoundSlot(taken, nd)
         IN  /\ h \in Members /\ Members' = Members /\ info' \in [Members -> Rows]
             /\ \A n \in Members : /\ info'[n].tx = info[n].tx /\ info'[n].optimized = info[n].optimized
                                   /\ n # h => info'[n] = info[n]
             /\ todo' = Tail(todo) /\ phase \in SearchPhases
             /\ UNCHANGED <<lists, settings, status, op, phase, adding, trying, attempt>>
             /\ \/ /\ DoesNotFit(taken, nd) /\ info'[h].status = "DoesNotFit"
                   /\ slots' = taken /\ allFound' = FALSE /\ available' = available
                \/ /\ ~DoesNotFit(taken, nd) /\ info'[h].status = "OK" /\ info'[h].tdma = s + 1
                   /\ s + 1 \in 1 .. MaxSlots
                   /\ slots' = taken \cup SlotsFrom(nd, s)
                   /\ available' = available - Room(nd, s) * nd.size /\ allFound' = allFound
<1> DEFINE h == Head(todo)
           nd == Search(h)
           taken == Reserving(slots, nd, InLegacyMode)
           s == FoundSlot(taken, nd)
<1>1. phase \in SearchPhases /\ todo # <<>> /\ todo' = Tail(todo)
  BY DEF FindSlot
<1>2. UNCHANGED <<lists, settings, status, op, phase, adding, trying, attempt>>
  BY DEF FindSlot
<1>3. \/ /\ DoesNotFit(taken, nd)
         /\ info' = [info EXCEPT ![h].status = "DoesNotFit"]
         /\ slots' = taken /\ allFound' = FALSE /\ available' = available
      \/ /\ ~DoesNotFit(taken, nd)
         /\ info' = [info EXCEPT ![h].status = "OK", ![h].tdma = s + 1]
         /\ slots' = taken \cup SlotsFrom(nd, s)
         /\ available' = available - Room(nd, s) * nd.size /\ allFound' = allFound
  BY DEF FindSlot
<1>4. h \in Members /\ nd.tx \in Nat \ {0} /\ info \in [Members -> Rows] /\ nd \in Table!Nodes
  BY <1>1, Visiting, SearchIs DEF TypesInv
<1> HIDE DEF h, nd, taken, s
<1>5. ~DoesNotFit(taken, nd) => s + 1 \in 1 .. MaxSlots
  <2> SUFFICES ASSUME ~DoesNotFit(taken, nd) PROVE s + 1 \in 1 .. MaxSlots
    OBVIOUS
  <2>1. s # MaxSlots
    BY <1>4 DEF DoesNotFit, s
  <2>2. Table!FoundSlot(taken, nd) = s
    BY TableIs DEF s
  <2>3. Table!FoundSlot(taken, nd) \in Nat /\ Table!FoundSlot(taken, nd) + 1 <= MaxSlots
    BY <1>4, <2>1, <2>2, TableAssumptions, Table!FoundIs
  <2> QED
    BY <2>2, <2>3, SlotAssumption DEF SlotAssumption
<1>6. /\ Members' = Members /\ info' \in [Members -> Rows]
      /\ \A n \in Members : /\ info'[n].tx = info[n].tx /\ info'[n].optimized = info[n].optimized
                            /\ n # h => info'[n] = info[n]
      /\ \/ DoesNotFit(taken, nd) /\ info'[h].status = "DoesNotFit"
         \/ ~DoesNotFit(taken, nd) /\ info'[h].status = "OK" /\ info'[h].tdma = s + 1
  <2>1. CASE DoesNotFit(taken, nd)
    <3>1. info' = [info EXCEPT ![h].status = "DoesNotFit"] /\ "DoesNotFit" \in Statuses
      BY <1>3, <2>1 DEF Statuses
    <3> QED
      BY <1>4, <2>1, <3>1, StatusIs DEF Members
  <2>2. CASE ~DoesNotFit(taken, nd)
    <3> DEFINE g == info'
               k == [info EXCEPT ![h].status = "OK"]
               y == s + 1
    <3>1. g = [k EXCEPT ![h].tdma = y] /\ k = [info EXCEPT ![h].status = "OK"]
      BY <1>3, <2>2
    <3>2. "OK" \in Statuses /\ y \in 0 .. MaxSlots
      BY <1>5, <2>2 DEF Statuses
    <3> HIDE DEF g, k, y
    <3>3. /\ k \in [Members -> Rows] /\ k[h].status = "OK"
          /\ \A n \in Members : k[n].tx = info[n].tx /\ k[n].optimized = info[n].optimized /\ (n # h => k[n] = info[n])
      BY <1>4, <3>1, <3>2, StatusIs
    <3>4. /\ g \in [Members -> Rows] /\ DOMAIN g = Members /\ g[h].status = k[h].status /\ g[h].tdma = y
          /\ \A n \in Members : g[n].tx = k[n].tx /\ g[n].optimized = k[n].optimized /\ (n # h => g[n] = k[n])
      <4> DEFINE r == [k[h] EXCEPT !.tdma = y]
      <4>1. g = [k EXCEPT ![h] = r]
        BY <3>1
      <4>2. r \in Rows /\ r.status = k[h].status /\ r.tdma = y /\ r.tx = k[h].tx /\ r.optimized = k[h].optimized
        BY <1>4, <3>2, <3>3 DEF Rows
      <4> HIDE DEF r
      <4>3. g \in [Members -> Rows] /\ DOMAIN g = Members /\ g[h] = r /\ \A n \in Members : n # h => g[n] = k[n]
        BY <1>4, <3>3, <4>1, <4>2
      <4> QED
        BY <1>4, <4>2, <4>3
    <3> QED
      BY <2>2, <3>3, <3>4 DEF g, y, Members
  <2> QED
    BY <2>1, <2>2
<1>7. \/ /\ DoesNotFit(taken, nd) /\ info'[h].status = "DoesNotFit"
         /\ slots' = taken /\ allFound' = FALSE /\ available' = available
      \/ /\ ~DoesNotFit(taken, nd) /\ info'[h].status = "OK" /\ info'[h].tdma = s + 1
         /\ s + 1 \in 1 .. MaxSlots
         /\ slots' = taken \cup SlotsFrom(nd, s)
         /\ available' = available - Room(nd, s) * nd.size /\ allFound' = allFound
  BY <1>3, <1>5, <1>6
<1> QED
  BY <1>1, <1>2, <1>4, <1>6, <1>7 DEF h, nd, taken, s

Upto(f, n) == f = [i \in 1 .. n |-> f[i]]

LEMMA Appended ==
  ASSUME NEW n \in Nat, NEW p, Upto(p, n), NEW q, Upto(q, n + 1),
         \A i \in 1 .. n : q[i] = p[i], NEW a, q[n + 1] = a
  PROVE  q = Append(p, a)
<1>1. Len(p) = n /\ DOMAIN p = 1 .. n
  BY DEF Upto
<1>2. Append(p, a) = [i \in 1 .. n + 1 |-> IF i = n + 1 THEN a ELSE p[i]]
  <2> DEFINE T == {p[i] : i \in 1 .. n} \cup {a}
  <2>1. p \in [1 .. n -> T] /\ a \in T
    BY DEF Upto
  <2> HIDE DEF T
  <2>2. p \in Seq(T)
    BY <2>1
  <2>3. /\ Append(p, a) \in Seq(T) /\ Len(Append(p, a)) = n + 1 /\ Append(p, a)[n + 1] = a
        /\ \A i \in 1 .. n : Append(p, a)[i] = p[i]
    BY <1>1, <2>1, <2>2
  <2> DEFINE r == Append(p, a)
  <2>4. r \in Seq(T) /\ Len(r) = n + 1 /\ r[n + 1] = a /\ \A i \in 1 .. n : r[i] = p[i]
    BY <2>3
  <2> HIDE DEF r
  <2>5. r = [i \in 1 .. n + 1 |-> r[i]]
    BY <2>4
  <2>6. \A i \in 1 .. n + 1 : i = n + 1 \/ i \in 1 .. n
    OBVIOUS
  <2>7. r = [i \in 1 .. n + 1 |-> IF i = n + 1 THEN a ELSE p[i]]
    BY <2>4, <2>5, <2>6
  <2> QED
    BY <2>7 DEF r
<1>3. ASSUME NEW i \in 1 .. n + 1
      PROVE  q[i] = IF i = n + 1 THEN a ELSE p[i]
  <2>1. i = n + 1 \/ i \in 1 .. n
    OBVIOUS
  <2> QED
    BY <2>1
<1> QED
  BY <1>2, <1>3 DEF Upto

\* A step of findSlotsForNodes is one of SlotTable's.
LEMMA SearchGoesOn ==
  ASSUME TypesInv, TableInv, FindSlot
  PROVE  /\ Table!Next
         /\ UNCHANGED <<Order, Network, InLegacyMode, Spacing[protocol], Searched, Sorted(Searched, info)>>
         /\ Found' = Found + 1
<1> DEFINE h == Head(todo)
           nd == Search(h)
           taken == Reserving(slots, nd, InLegacyMode)
           s == FoundSlot(taken, nd)
<1>1. /\ h \in Members /\ Members' = Members /\ info' \in [Members -> Rows]
      /\ \A n \in Members : info'[n].tx = info[n].tx /\ (n # h => info'[n] = info[n])
      /\ todo' = Tail(todo) /\ phase \in SearchPhases
      /\ UNCHANGED <<lists, settings, status, op, phase, adding, trying, attempt>>
      /\ \/ /\ DoesNotFit(taken, nd) /\ info'[h].status = "DoesNotFit"
            /\ slots' = taken /\ allFound' = FALSE /\ available' = available
         \/ /\ ~DoesNotFit(taken, nd) /\ info'[h].status = "OK" /\ info'[h].tdma = s + 1
            /\ s + 1 \in 1 .. MaxSlots
            /\ slots' = taken \cup SlotsFrom(nd, s)
            /\ available' = available - Room(nd, s) * nd.size /\ allFound' = allFound
  BY Visited
<1>2. todo # <<>>
  BY DEF FindSlot
<1>3. /\ Len(Tail(todo)) = Len(todo) - 1
      /\ Found \in Nat /\ Found + 1 \in 1 .. Len(Order) /\ Order[Found + 1] = h
      /\ \A i \in 1 .. Found : Order[i] \in Members /\ Order[i] # h
      /\ Len(todo) \in Nat /\ Len(Order) \in Nat /\ Found = Len(Order) - Len(todo)
      /\ Table!Done = Found /\ Len(Network) = Len(Order) /\ Table!Current = nd
      /\ nd.tx \in Nat \ {0}
  BY <1>1, <1>2, Visiting
<1>4. /\ UNCHANGED <<allNodes, eventNodes, protocol, phase>>
      /\ Spacing[protocol]' = Spacing[protocol]
  BY <1>1 DEF lists, settings
<1>5. UNCHANGED <<Order, Searched, InLegacyMode, Sorted(Searched, info)>>
  BY <1>1, <1>4, OrderStays
<1>6. Found' = Found + 1
  <2>1. Found' = Len(Order') - Len(todo')
    BY DEF Found
  <2>2. Order' = Order /\ Len(todo') = Len(todo) - 1
    BY <1>1, <1>3, <1>5
  <2> QED
    BY <1>3, <2>1, <2>2
<1>7. Network' = Network
  <2>1. Order \in Seq(Members) /\ DOMAIN Order = 1 .. Len(Order)
    BY <1>1, SearchedOrder DEF TableInv
  <2>2. \A i \in DOMAIN Order : Order[i] \in Members /\ info'[Order[i]].tx = info[Order[i]].tx
    BY <1>1, <2>1
  <2> QED
    BY <1>4, <1>5, <2>2 DEF Network, Search
<1>8. ASSUME NEW a, NEW b \in BOOLEAN, b <=> info'[h].status = "OK", b => info'[h].tdma = a, ~b => a = 0
      PROVE  Placements' = Append(Placements, a) /\ Fits' = Append(Fits, b)
  <2>1. /\ Placements = [i \in 1 .. Found |-> Placements[i]] /\ Fits = [i \in 1 .. Found |-> Fits[i]]
        /\ \A i \in 1 .. Found : /\ Placements[i] = IF info[Order[i]].status = "OK" THEN info[Order[i]].tdma ELSE 0
                                 /\ Fits[i] = (info[Order[i]].status = "OK")
    BY DEF Placements, Fits
  <2>2. /\ Placements' = [i \in 1 .. Found + 1 |-> Placements'[i]] /\ Fits' = [i \in 1 .. Found + 1 |-> Fits'[i]]
        /\ \A i \in 1 .. Found + 1 : /\ Placements'[i] = IF info'[Order[i]].status = "OK" THEN info'[Order[i]].tdma ELSE 0
                                     /\ Fits'[i] = (info'[Order[i]].status = "OK")
    BY <1>5, <1>6 DEF Placements, Fits
  <2>3. \A i \in 1 .. Found : i \in 1 .. Found + 1 /\ info'[Order[i]] = info[Order[i]]
    BY <1>1, <1>3
  <2>4. \A i \in 1 .. Found : Placements'[i] = Placements[i] /\ Fits'[i] = Fits[i]
    BY <2>1, <2>2, <2>3
  <2>5. Found + 1 \in 1 .. Found + 1
    BY <1>3
  <2>6. Placements'[Found + 1] = a /\ Fits'[Found + 1] = b
    BY <1>3, <1>8, <2>2, <2>5
  <2> DEFINE p == Placements
             q == Placements'
             f == Fits
             g == Fits'
  <2>7. /\ Upto(p, Found) /\ Upto(q, Found + 1) /\ Upto(f, Found) /\ Upto(g, Found + 1)
        /\ \A i \in 1 .. Found : q[i] = p[i] /\ g[i] = f[i]
        /\ q[Found + 1] = a /\ g[Found + 1] = b
    BY <2>1, <2>2, <2>4, <2>6 DEF Upto
  <2> HIDE DEF p, q, f, g
  <2>8. q = Append(p, a)
    BY <1>3, <2>7, Appended
  <2>9. g = Append(f, b)
    BY <1>3, <2>7, Appended
  <2> QED
    BY <2>8, <2>9 DEF p, q, f, g
<1> HIDE DEF h, nd, taken, s
<1>9. /\ Table!Reserving(slots, nd, InLegacyMode) = taken /\ Table!FoundSlot(taken, nd) = s
      /\ Table!DoesNotFit(taken, nd) = DoesNotFit(taken, nd)
      /\ Table!SlotsFrom(nd, s) = SlotsFrom(nd, s) /\ Table!Room(nd, s) = Room(nd, s)
  BY TableIs DEF taken, s
<1>10. Table!Done < Len(Network) /\ Table!Current.tx > 0
  BY <1>3
<1>11. CASE DoesNotFit(taken, nd)
  <2>1. info'[h].status = "DoesNotFit" /\ slots' = taken /\ available' = available
    BY <1>1, <1>11
  <2>2. Placements' = Append(Placements, 0) /\ Fits' = Append(Fits, FALSE)
    BY <1>8, <2>1
  <2>3. Table!GetsNoSlot
    BY <1>3, <1>4, <1>5, <1>7, <1>9, <1>10, <1>11, <2>1, <2>2 DEF Table!GetsNoSlot
  <2> QED
    BY <1>4, <1>5, <1>6, <1>7, <2>3 DEF Table!Next
<1>12. CASE ~DoesNotFit(taken, nd)
  <2>1. /\ info'[h].status = "OK" /\ info'[h].tdma = s + 1
        /\ slots' = taken \cup SlotsFrom(nd, s) /\ available' = available - Room(nd, s) * nd.size
    BY <1>1, <1>12
  <2>2. Placements' = Append(Placements, s + 1) /\ Fits' = Append(Fits, TRUE)
    BY <1>8, <2>1
  <2>3. Table!GetsSlot
    BY <1>3, <1>4, <1>5, <1>7, <1>9, <1>10, <1>12, <2>1, <2>2 DEF Table!GetsSlot
  <2> QED
    BY <1>4, <1>5, <1>6, <1>7, <2>3 DEF Table!Next
<1> QED
  BY <1>11, <1>12

LEMMA FindSlotSearches ==
  ASSUME TypesInv, TableInv, FindSlot
  PROVE  TypesInv' /\ TableInv'
<1> DEFINE h == Head(todo)
           nd == Search(h)
           taken == Reserving(slots, nd, InLegacyMode)
           s == FoundSlot(taken, nd)
<1>1. /\ h \in Members /\ Members' = Members /\ info' \in [Members -> Rows]
      /\ \A n \in Members : info'[n].tx = info[n].tx /\ (n # h => info'[n] = info[n])
      /\ todo' = Tail(todo) /\ phase \in SearchPhases
      /\ UNCHANGED <<lists, settings, status, op, phase, adding, trying, attempt>>
      /\ \/ info'[h].status = "DoesNotFit" /\ allFound' = FALSE
         \/ info'[h].status = "OK" /\ info'[h].tdma \in 1 .. MaxSlots /\ allFound' = allFound
  BY Visited
<1> HIDE DEF h, nd, taken, s
<1>2. todo # <<>>
  BY DEF FindSlot
<1>3. /\ Tail(todo) \in Seq(Members) /\ Len(Tail(todo)) = Len(todo) - 1
      /\ \A j \in 1 .. Len(Tail(todo)) : Tail(todo)[j] = todo[j + 1]
      /\ Found \in Nat /\ Found + 1 \in 1 .. Len(Order) /\ Order[Found + 1] = h
      /\ \A i \in 1 .. Found : Order[i] \in Members /\ Order[i] # h
      /\ Len(todo) \in Nat /\ Len(Order) \in Nat /\ Found = Len(Order) - Len(todo)
  BY <1>1, <1>2, Visiting DEF h
<1>4. /\ UNCHANGED <<pending, allNodes, eventNodes, demand, protocol, phase, trying>>
  BY <1>1 DEF lists, settings
<1>5. /\ Table!Next /\ Order' = Order /\ Sorted(Searched, info)' = Sorted(Searched, info)
      /\ Found' = Found + 1
  BY SearchGoesOn
<1>6. /\ \A n \in Members : info[n].tx \in Powers
      /\ Order \in Sorted(Searched, info)
      /\ Len(todo) <= Len(Order) /\ \A j \in 1 .. Len(todo) : todo[j] = Order[Found + j]
      /\ Table!SearchInv /\ Table!CountInv
      /\ \A i \in 1 .. Found : info[Order[i]].status = "OK" => info[Order[i]].tdma > 0
      /\ allFound <=> \A i \in 1 .. Found : info[Order[i]].status = "OK"
  BY <1>1 DEF TableInv
<1>7. Table!SearchInv' /\ Table!CountInv'
  <2>1. [Table!Next]_Table!vars
    BY <1>5
  <2>2. Table!SearchInv'
    BY <1>6, <2>1, TableAssumptions, Table!SearchKept
  <2> QED
    BY <1>6, <2>1, <2>2, TableAssumptions, Table!CountKept
<1>8. TypesInv'
  <2>1. slots' \subseteq 0 .. MaxSlots - 1
    BY <1>7 DEF Table!SearchInv, Table!Inv, Table!TypeInv
  <2>2. available' \in 0 .. MaxSlots
    BY <1>7, AvailableNext
  <2>3. todo' \in Seq(Members)
    BY <1>1, <1>3
  <2> QED
    BY <1>1, <1>4, <2>1, <2>2, <2>3 DEF TypesInv
<1>9. Len(todo') <= Len(Order') /\ \A j \in 1 .. Len(todo') : todo'[j] = Order'[Found' + j]
  <2>1. Len(todo') = Len(todo) - 1 /\ Len(todo') <= Len(Order)
    BY <1>1, <1>3, <1>6
  <2>2. ASSUME NEW j \in 1 .. Len(todo')
        PROVE  todo'[j] = Order'[Found' + j]
    <3>1. todo'[j] = todo[j + 1] /\ j + 1 \in 1 .. Len(todo)
      BY <1>1, <1>3, <2>1
    <3>2. todo[j + 1] = Order[Found + (j + 1)] /\ Found + (j + 1) = Found' + j
      BY <1>3, <1>5, <1>6, <3>1
    <3> QED
      BY <1>5, <3>1, <3>2
  <2> QED
    BY <1>5, <2>1, <2>2
<1>10. \A i \in 1 .. Found' : (i \in 1 .. Found /\ info'[Order'[i]] = info[Order[i]]) \/ (i = Found + 1 /\ Order'[i] = h)
  <2> TAKE i \in 1 .. Found'
  <2>1. i \in 1 .. Found + 1
    BY <1>5
  <2>2. CASE i = Found + 1
    BY <1>3, <1>5, <2>2
  <2>3. CASE i # Found + 1
    <3>1. i \in 1 .. Found
      BY <1>3, <2>1, <2>3
    <3> QED
      BY <1>1, <1>3, <1>5, <3>1
  <2> QED
    BY <2>2, <2>3
<1>11. \A i \in 1 .. Found' : info'[Order'[i]].status = "OK" => info'[Order'[i]].tdma > 0
  BY <1>1, <1>6, <1>10
<1>12. allFound' <=> \A i \in 1 .. Found' : info'[Order'[i]].status = "OK"
  <2>1. \A i \in 1 .. Found : i \in 1 .. Found' /\ info'[Order'[i]] = info[Order[i]]
    BY <1>1, <1>3, <1>5
  <2>2. Found + 1 \in 1 .. Found' /\ Order'[Found + 1] = h
    BY <1>3, <1>5
  <2>3. CASE info'[h].status = "DoesNotFit" /\ allFound' = FALSE
    BY <2>2, <2>3
  <2>4. CASE info'[h].status = "OK" /\ allFound' = allFound
    BY <1>6, <1>10, <2>1, <2>4
  <2> QED
    BY <1>1, <2>3, <2>4
<1>13. TableInv'
  <2>1. \A n \in Members' : info'[n].tx \in Powers
    BY <1>1, <1>6
  <2>2. Order' \in Sorted(Searched, info)'
    BY <1>5, <1>6
  <2> QED
    BY <1>7, <1>9, <1>11, <1>12, <2>1, <2>2 DEF TableInv
<1> QED
  BY <1>8, <1>13

-----------------------------------------------------------------------------
(* The invariant of the schedule *)

\* The rates of the Nodes, as far as they were calculated.
RatesInv ==
  /\ phase = "calculate" => \A n \in Members : InTodo(n) \/ info[n].tx = TxPerGroup(n, FALSE)
  /\ phase \in SearchPhases \cup {"optimize"} => \A n \in Members : info[n].tx \in Powers
  /\ phase \in {"others", "all"} => \A n \in Members \ EventNodes : info[n].tx = TxPerGroup(n, FALSE)
  /\ phase \in {"optimize", "try"} =>
       \A n \in Members \ EventNodes :
         info[n].optimized \/ info[n].tx = TxPerGroup(n, FALSE) \/ (phase = "try" /\ n = trying)

\* A schedule is only called OK after a search that ended well.
ResultInv ==
  /\ phase = "optimize" => Scheduled
  /\ ~RereadsFail => /\ phase = "failed" => op = "add" \/ ~AllOk
                     /\ phase \in Settled /\ networkOk => Scheduled

\* What getTdmaSlot knows of Node n if the values are infos.
SearchWith(infos, size, legacy, n) ==
  [tx |-> infos[n].tx, size |-> size, max |-> MaxTdmaAddress(infos[n].tx, size, legacy),
   first |-> n \notin NotFirst, check |-> 0, delay |-> 0]

\* T[i] is the table after the i-th Node of q has got its slots, up to the k-th.
Filling(T, infos, size, legacy, q, k) ==
  /\ T[0] = {}
  /\ \A i \in 1 .. k :
       LET nd == SearchWith(infos, size, legacy, q[i])
           taken == Reserving(T[i - 1], nd, legacy)
       IN  ~DoesNotFit(taken, nd) /\ T[i] = taken \cup SlotsFrom(nd, FoundSlot(taken, nd))

\* The values a failed attempt is going to be replaced with are those of a table
\* that was filled.
UndoInv ==
  /\ phase \in {"all", "try"} /\ allFound =>
       \E T : Filling(T, info, Spacing[protocol], InLegacyMode, allNodes, Found) /\ T[Found] = slots
  /\ phase = "optimize" =>
       /\ allNodes \in Sorted(Members, info)
       /\ \E T : Filling(T, info, Spacing[protocol], InLegacyMode, allNodes, Len(allNodes))
  /\ phase = "try" =>
       \E f, q, T :
         /\ \A n \in Members : f[n].tx = IF n = trying THEN TxPerGroup(n, FALSE) ELSE info[n].tx
         /\ q \in Sorted(Members, f) /\ Filling(T, f, Spacing[protocol], InLegacyMode, q, Len(q))
  /\ phase = "restore" =>
       /\ allFound
       /\ \E T : Filling(T, info, Spacing[protocol], InLegacyMode, allNodes, Len(allNodes)) /\ T[Found] = slots

ScheduleInv == TypesInv /\ CallInv /\ TableInv /\ RatesInv /\ ResultInv /\ UndoInv

-----------------------------------------------------------------------------
(* What the steps change *)

LEMMA CalculatedRows ==
  ASSUME NEW S, NEW f \in [S -> Rows], NEW h \in S, demand[h] \in Nat \ {0}, NEW optimize,
         NEW g, g = Calculated(f, h, optimize)
  PROVE  /\ g \in [S -> Rows] /\ DOMAIN g = S /\ g[h].tx = TxPerGroup(h, optimize)
         /\ \A n \in S : n # h => g[n] = f[n]
         /\ TxPerGroup(h, optimize) \in Powers
<1> DEFINE x == TxPerGroup(h, optimize)
           r == [f[h] EXCEPT !.tx = x, !.applied = FALSE]
<1>1. x \in Powers /\ x \in Nat
  BY RateIs, PowersAre
<1> HIDE DEF x
<1>2. g = [f EXCEPT ![h] = r]
  BY DEF Calculated, x
<1>3. r \in Rows /\ r.tx = x
  BY <1>1 DEF Rows
<1> HIDE DEF r
<1>4. g \in [S -> Rows] /\ DOMAIN g = S /\ g[h] = r /\ \A n \in S : n # h => g[n] = f[n]
  BY <1>2, <1>3
<1> QED
  BY <1>1, <1>3, <1>4 DEF x

LEMMA UnreachableRows ==
  ASSUME NEW S, NEW f \in [S -> Rows], NEW h \in S, NEW g, g = Unreachable(f, h)
  PROVE  g \in [S -> Rows] /\ DOMAIN g = S /\ g[h].status # "OK"
<1> DEFINE r == [f[h] EXCEPT !.status = "PoorCommunication", !.applied = FALSE]
<1>1. g = [f EXCEPT ![h] = r]
  BY DEF Unreachable
<1>2. r \in Rows /\ r.status = "PoorCommunication"
  BY DEF Rows
<1> HIDE DEF r
<1>3. g \in [S -> Rows] /\ DOMAIN g = S /\ g[h] = r
  BY <1>1, <1>2
<1> QED
  BY <1>2, <1>3

\* The statuses, addresses and rates of the Nodes are all the schedule depends on.
LEMMA SameSchedule ==
  ASSUME Scheduled, Members' = Members, protocol' = protocol,
         \A n \in Members : /\ info'[n].tx = info[n].tx /\ info'[n].tdma = info[n].tdma
                            /\ info'[n].status = info[n].status
  PROVE  Scheduled'
<1>1. InLegacyMode' = InLegacyMode
  BY DEF InLegacyMode
<1>2. \A n \in Members : SlotsOf(n)' = SlotsOf(n)
  <2> TAKE n \in Members
  <2> DEFINE nd == Search(n)
             md == Search(n)'
             s == info[n].tdma - 1
             z == info'[n].tdma - 1
  <2>1. nd = md /\ s = z
    BY <1>1 DEF Search
  <2>2. SlotsOf(n) = SlotsFrom(nd, s)
    BY DEF SlotsOf
  <2>3. SlotsOf(n)' = SlotsFrom(md, z)
    BY DEF SlotsOf, SlotsFrom, Block, Between, Room
  <2> HIDE DEF nd, md, s, z
  <2> QED
    BY <2>1, <2>2, <2>3
<1> QED
  BY <1>2 DEF Scheduled, Collide

\* After findSlotsForNodes every Node it was called for is scheduled, if all of
\* them have found slots.
LEMMA SearchEnds ==
  ASSUME TypesInv, TableInv, phase \in {"all", "try", "restore"}, todo = <<>>
  PROVE  (allFound <=> AllOk) /\ (AllOk => Scheduled)
<1>1. /\ Order = allNodes /\ Order \in Sorted(Searched, info) /\ Searched = Members /\ phase \in SearchPhases
      /\ Table!SearchInv
      /\ \A i \in 1 .. Found : info[Order[i]].status = "OK" => info[Order[i]].tdma > 0
      /\ allFound <=> \A i \in 1 .. Found : info[Order[i]].status = "OK"
  BY DEF Order, Searched, TableInv, SearchPhases
<1>2. /\ Len(Order) \in Nat /\ DOMAIN Order = 1 .. Len(Order) /\ Order \in Seq(Members)
      /\ \A i, j \in 1 .. Len(Order) : Order[i] = Order[j] => i = j
      /\ \A n \in Members : \E i \in 1 .. Len(Order) : Order[i] = n
  BY <1>1, SearchedOrder
<1>3. Found = Len(Order)
  BY <1>2 DEF Found
<1>4. allFound <=> AllOk
  <2>1. \A i \in 1 .. Len(Order) : Order[i] \in Members
    BY <1>2
  <2> QED
    BY <1>1, <1>2, <1>3, <2>1 DEF AllOk
<1>5. ASSUME AllOk PROVE Scheduled
  <2>1. ASSUME NEW i \in 1 .. Len(Order), NEW n \in Members, Order[i] = n
        PROVE  /\ info[n].status = "OK" /\ info[n].tdma > 0
               /\ i \in Table!Placed /\ Table!SlotsOf(i) = SlotsOf(n)
               /\ Network[i].tx = info[n].tx /\ Network[i].size = Spacing[protocol]
    <3>1. info[n].status = "OK" /\ info[n].tdma > 0
      BY <1>1, <1>3, <1>5, <2>1 DEF AllOk
    <3>2. DOMAIN Placements = 1 .. Len(Order) /\ Placements[i] = info[n].tdma
      BY <1>3, <2>1, <3>1 DEF Placements
    <3>3. Network[i] = Search(n)
      BY <1>2, <2>1 DEF Network
    <3>4. Table!SlotsOf(i) = SlotsOf(n)
      BY <3>2, <3>3, TableIs DEF Table!SlotsOf, SlotsOf
    <3>5. Network[i].tx = info[n].tx /\ Network[i].size = Spacing[protocol]
      BY <3>3 DEF Search
    <3> QED
      BY <3>1, <3>2, <3>4, <3>5 DEF Table!Placed
  <2>2. Table!NoCollision
    BY <1>1 DEF Table!SearchInv
  <2>3. Table!EveryTransmissionHasSlots
    BY <1>1, TableAssumptions, Table!AllTransmissions
  <2>4. ASSUME NEW n \in Members
        PROVE  Cardinality(SlotsOf(n)) = info[n].tx * Spacing[protocol]
    <3>1. PICK i \in 1 .. Len(Order) : Order[i] = n
      BY <1>2
    <3>2. Table!Cardinality(Table!SlotsOf(i)) = Network[i].tx * Network[i].size
      BY <2>1, <2>3, <3>1 DEF Table!EveryTransmissionHasSlots
    <3>3. Table!SlotsOf(i) = SlotsOf(n) /\ Network[i].tx = info[n].tx /\ Network[i].size = Spacing[protocol]
      BY <2>1, <3>1
    <3>4. Table!Cardinality(Table!SlotsOf(i)) = Cardinality(SlotsOf(n))
      BY <3>3, TableIs
    <3> QED
      BY <3>2, <3>3, <3>4
  <2>5. ASSUME NEW m \in Members, NEW n \in Members
        PROVE  ~Collide(m, n)
    <3>1. PICK i \in 1 .. Len(Order) : Order[i] = m
      BY <1>2
    <3>2. PICK j \in 1 .. Len(Order) : Order[j] = n
      BY <1>2
    <3>3. i # j /\ i \in Table!Placed /\ j \in Table!Placed => Table!SlotsOf(i) \cap Table!SlotsOf(j) = {}
      BY <2>2 DEF Table!NoCollision
    <3> QED
      BY <2>1, <3>1, <3>2, <3>3 DEF Collide
  <2> QED
    BY <1>2, <2>1, <2>4, <2>5 DEF Scheduled
<1> QED
  BY <1>4, <1>5

LEMMA FillingSame ==
  ASSUME NEW T, NEW f, NEW g, NEW z, NEW legacy, NEW q, NEW k,
         Filling(T, f, z, legacy, q, k), \A i \in 1 .. k : g[q[i]].tx = f[q[i]].tx
  PROVE  Filling(T, g, z, legacy, q, k)
<1>1. \A i \in 1 .. k : SearchWith(g, z, legacy, q[i]) = SearchWith(f, z, legacy, q[i])
  BY DEF SearchWith
<1> QED
  BY <1>1 DEF Filling

LEMMA FillingStarts ==
  ASSUME NEW f, NEW z, NEW legacy, NEW q
  PROVE  \E T : Filling(T, f, z, legacy, q, 0) /\ T[0] = {}
<1> DEFINE T == [i \in {0} |-> {}]
<1>1. T[0] = {} /\ \A i : i \notin 1 .. 0
  OBVIOUS
<1> HIDE DEF T
<1>2. Filling(T, f, z, legacy, q, 0)
  BY <1>1 DEF Filling
<1> QED
  BY <1>1, <1>2

LEMMA FillingGrows ==
  ASSUME NEW T, NEW f, NEW z, NEW legacy, NEW q, NEW k \in Nat, Filling(T, f, z, legacy, q, k),
         NEW nd, nd = SearchWith(f, z, legacy, q[k + 1]),
         NEW taken, taken = Reserving(T[k], nd, legacy), ~DoesNotFit(taken, nd)
  PROVE  \E U : /\ Filling(U, f, z, legacy, q, k + 1)
                /\ U[k + 1] = taken \cup SlotsFrom(nd, FoundSlot(taken, nd))
<1> DEFINE new == taken \cup SlotsFrom(nd, FoundSlot(taken, nd))
           U == [i \in 0 .. k + 1 |-> IF i = k + 1 THEN new ELSE T[i]]
<1> HIDE DEF new
<1>1. U[k + 1] = new /\ \A i \in 0 .. k : U[i] = T[i]
  OBVIOUS
<1> HIDE DEF U
<1>2. U[0] = {}
  BY <1>1 DEF Filling
<1>3. ASSUME NEW i \in 1 .. k + 1
      PROVE  LET md == SearchWith(f, z, legacy, q[i])
                 tab == Reserving(U[i - 1], md, legacy)
             IN  ~DoesNotFit(tab, md) /\ U[i] = tab \cup SlotsFrom(md, FoundSlot(tab, md))
  <2>1. CASE i = k + 1
    <3>1. i - 1 = k /\ U[i - 1] = T[k]
      BY <1>1, <2>1
    <3> QED
      BY <1>1, <2>1, <3>1 DEF new
  <2>2. CASE i # k + 1
    <3>1. i \in 1 .. k /\ i - 1 \in 0 .. k /\ i \in 0 .. k
      BY <2>2
    <3>2. U[i - 1] = T[i - 1] /\ U[i] = T[i]
      BY <1>1, <3>1
    <3> QED
      BY <3>1, <3>2 DEF Filling
  <2> QED
    BY <2>1, <2>2
<1>4. Filling(U, f, z, legacy, q, k + 1)
  BY <1>2, <1>3 DEF Filling
<1> QED
  BY <1>1, <1>4 DEF new

\* The rates do not depend on the schedule.
LEMMA RatesStay ==
  ASSUME UNCHANGED <<demand, lossless>>
  PROVE  \A n : TxPerGroup(n, FALSE)' = TxPerGroup(n, FALSE)
  BY DEF TxPerGroup, OverheadFactor, CeilDiv

LEMMA FindSlotUndo ==
  ASSUME TypesInv, TableInv, UndoInv, FindSlot
  PROVE  UndoInv'
<1> DEFINE h == Head(todo)
           nd == Search(h)
           taken == Reserving(slots, nd, InLegacyMode)
           s == FoundSlot(taken, nd)
           z == Spacing[protocol]
<1>1. /\ Members' = Members
      /\ \A n \in Members : info'[n].tx = info[n].tx
      /\ todo' = Tail(todo) /\ phase \in SearchPhases
      /\ UNCHANGED <<lists, settings, status, op, phase, adding, trying, attempt>>
      /\ \/ DoesNotFit(taken, nd) /\ allFound' = FALSE
         \/ ~DoesNotFit(taken, nd) /\ slots' = taken \cup SlotsFrom(nd, s) /\ allFound' = allFound
  BY Visited
<1>2. /\ Found \in Nat /\ Found + 1 \in 1 .. Len(Order) /\ Order[Found + 1] = h
      /\ Len(Order) \in Nat
  BY <1>1, Visiting DEF FindSlot
<1>3. /\ InLegacyMode' = InLegacyMode /\ Spacing[protocol]' = z /\ Found' = Found + 1
  BY SearchGoesOn
<1>4. UNCHANGED <<allNodes, demand, lossless, phase, trying>>
  BY <1>1 DEF lists, settings
<1>5. nd = SearchWith(info, z, InLegacyMode, h)
  BY DEF Search, SearchWith
<1>6. phase # "others" => Order = allNodes
  BY DEF Order
<1>7. \A i \in 1 .. Len(Order) : Order[i] \in Members
  BY <1>1, SearchedOrder DEF TableInv
<1> HIDE DEF h, nd, taken, s, z
<1>8. ASSUME phase \in {"all", "try"}, allFound'
      PROVE  \E T : Filling(T, info', z, InLegacyMode, allNodes, Found + 1) /\ T[Found + 1] = slots'
  <2>1. allFound /\ ~DoesNotFit(taken, nd) /\ slots' = taken \cup SlotsFrom(nd, s)
    BY <1>1, <1>8
  <2>2. PICK T : Filling(T, info, z, InLegacyMode, allNodes, Found) /\ T[Found] = slots
    BY <1>8, <2>1 DEF UndoInv, z
  <2> DEFINE k == Found
             l == InLegacyMode
  <2>3. /\ nd = SearchWith(info, z, l, allNodes[k + 1]) /\ taken = Reserving(T[k], nd, l)
        /\ k \in Nat /\ Filling(T, info, z, l, allNodes, k)
    BY <1>2, <1>5, <1>6, <1>8, <2>2 DEF taken
  <2> HIDE DEF k, l
  <2>4. \E U : /\ Filling(U, info, z, l, allNodes, k + 1)
               /\ U[k + 1] = taken \cup SlotsFrom(nd, FoundSlot(taken, nd))
    BY <2>1, <2>3, FillingGrows
  <2>5. PICK U : /\ Filling(U, info, z, InLegacyMode, allNodes, Found + 1)
                 /\ U[Found + 1] = taken \cup SlotsFrom(nd, s)
    BY <2>4 DEF k, l, s
  <2>6. \A i \in 1 .. Found + 1 : info'[allNodes[i]].tx = info[allNodes[i]].tx
    BY <1>1, <1>2, <1>6, <1>7, <1>8
  <2>7. Filling(U, info', z, InLegacyMode, allNodes, Found + 1)
    BY <2>5, <2>6, FillingSame
  <2> QED
    BY <2>1, <2>5, <2>7
<1>9. ASSUME phase = "try"
      PROVE  \E f, q, T :
               /\ \A n \in Members : f[n].tx = IF n = trying THEN TxPerGroup(n, FALSE) ELSE info'[n].tx
               /\ q \in Sorted(Members, f) /\ Filling(T, f, z, InLegacyMode, q, Len(q))
  BY <1>1, <1>9 DEF UndoInv, z
<1>10. ASSUME phase = "restore"
       PROVE  /\ allFound'
              /\ \E T : Filling(T, info', z, InLegacyMode, allNodes, Len(allNodes)) /\ T[Found + 1] = slots'
  <2>1. allFound /\ \E T : Filling(T, info, z, InLegacyMode, allNodes, Len(allNodes)) /\ T[Found] = slots
    BY <1>10 DEF UndoInv, z
  <2>2. PICK T : Filling(T, info, z, InLegacyMode, allNodes, Len(allNodes)) /\ T[Found] = slots
    BY <2>1
  <2>3. allNodes[Found + 1] = h /\ Found + 1 \in 1 .. Len(allNodes) /\ (Found + 1) - 1 = Found
    BY <1>2, <1>6, <1>10
  <2>4. ~DoesNotFit(taken, nd) /\ T[Found + 1] = taken \cup SlotsFrom(nd, s)
    BY <1>5, <2>2, <2>3 DEF Filling, taken, s
  <2>5. \A i \in 1 .. Len(allNodes) : info'[allNodes[i]].tx = info[allNodes[i]].tx
    BY <1>1, <1>6, <1>7, <1>10
  <2>6. Filling(T, info', z, InLegacyMode, allNodes, Len(allNodes))
    BY <2>2, <2>5, FillingSame
  <2> QED
    BY <1>1, <2>1, <2>4, <2>6
<1>11. \A n : TxPerGroup(n, FALSE)' = TxPerGroup(n, FALSE)
  BY <1>4, RatesStay
<1>12. phase' # "optimize"
  BY <1>1 DEF SearchPhases
<1>13. (phase \in {"all", "try"} /\ allFound =>
         \E T : Filling(T, info, Spacing[protocol], InLegacyMode, allNodes, Found) /\ T[Found] = slots)'
  BY <1>3, <1>4, <1>8
<1>14. (phase = "try" =>
         \E f, q, T :
           /\ \A n \in Members : f[n].tx = IF n = trying THEN TxPerGroup(n, FALSE) ELSE info[n].tx
           /\ q \in Sorted(Members, f) /\ Filling(T, f, Spacing[protocol], InLegacyMode, q, Len(q)))'
  <2> SUFFICES ASSUME phase = "try"
               PROVE  (\E f, q, T :
                        /\ \A n \in Members : f[n].tx = IF n = trying THEN TxPerGroup(n, FALSE) ELSE info[n].tx
                        /\ q \in Sorted(Members, f) /\ Filling(T, f, Spacing[protocol], InLegacyMode, q, Len(q)))'
    BY <1>4
  <2>1. PICK f, q, T :
               /\ \A n \in Members : f[n].tx = IF n = trying THEN TxPerGroup(n, FALSE) ELSE info'[n].tx
               /\ q \in Sorted(Members, f) /\ Filling(T, f, z, InLegacyMode, q, Len(q))
    BY <1>9
  <2>2. \A n \in Members : f[n].tx = IF n = trying' THEN TxPerGroup(n, FALSE)' ELSE info'[n].tx
    BY <1>4, <1>11, <2>1
  <2> QED
    BY <1>1, <1>3, <2>1, <2>2
<1>15. (phase = "restore" =>
         /\ allFound
         /\ \E T : Filling(T, info, Spacing[protocol], InLegacyMode, allNodes, Len(allNodes)) /\ T[Found] = slots)'
  BY <1>3, <1>4, <1>10
<1> QED
  BY <1>12, <1>13, <1>14, <1>15 DEF UndoInv

LEMMA FindSlotKeeps ==
  ASSUME ScheduleInv, FindSlot
  PROVE  ScheduleInv'
<1> USE DEF ScheduleInv
<1>1. /\ Members' = Members /\ phase \in SearchPhases
      /\ \A n \in Members : info'[n].tx = info[n].tx /\ info'[n].optimized = info[n].optimized
      /\ UNCHANGED <<lists, settings, status, op, phase, adding, trying, attempt>>
  BY Visited
<1>2. UNCHANGED <<demand, lossless, op, phase, adding, trying>>
  BY <1>1 DEF settings
<1>3. TypesInv' /\ TableInv'
  BY FindSlotSearches
<1>4. UndoInv'
  BY FindSlotUndo
<1>5. CallInv'
  BY <1>1, <1>2 DEF CallInv
<1>6. \A n : TxPerGroup(n, FALSE)' = TxPerGroup(n, FALSE)
  BY <1>2, RatesStay
<1>7. RatesInv'
  BY <1>1, <1>2, <1>6 DEF RatesInv, SearchPhases
<1>8. ResultInv'
  BY <1>1, <1>2 DEF ResultInv, SearchPhases, Settled
<1> QED
  BY <1>3, <1>4, <1>5, <1>7, <1>8

\* The lists as they are at any time.
ListsAre ==
  /\ Members \subseteq Nodes /\ IsFiniteSet(Members) /\ pending \subseteq Members
  /\ info \in [Members -> Rows]
  /\ allNodes \in SetToSeqs(Members) /\ eventNodes \in SetToSeqs(Members \cap EventNodes)
  /\ demand \in [Nodes -> Nat \ {0}] /\ protocol \in DOMAIN Spacing

TableIsIn == slots \subseteq 0 .. MaxSlots - 1 /\ available \in 0 .. MaxSlots

LEMMA RefreshStarts ==
  ASSUME NEW o, NEW n, Refreshing(o, n), ListsAre', TableIsIn',
         o # "none", n # 0 => o = "add", o = "add" => n \in Members'
  PROVE  ScheduleInv'
<1>1. /\ op' = o /\ adding' = n /\ phase' = "calculate" /\ todo' = allNodes' /\ trying' = 0
  BY DEF Refreshing
<1> DEFINE S == Members'
           q == allNodes'
<1>2. IsFiniteSet(S) /\ q \in SetToSeqs(S)
  BY DEF ListsAre
<1> HIDE DEF S, q
<1>3. q \in Seq(S) /\ DOMAIN q = 1 .. Len(q) /\ \A m \in S : \E i \in 1 .. Len(q) : q[i] = m
  BY <1>2, OrderIs
<1>4. todo' \in Seq(Members') /\ \A m \in Members' : \E i \in DOMAIN todo' : todo'[i] = m
  BY <1>1, <1>3 DEF S, q
<1>5. TypesInv'
  BY <1>1, <1>4 DEF TypesInv, ListsAre, TableIsIn
<1>6. CallInv'
  BY <1>1 DEF CallInv, SearchPhases
<1>7. TableInv' /\ ResultInv' /\ UndoInv'
  BY <1>1 DEF TableInv, ResultInv, UndoInv, SearchPhases, Settled
<1>8. RatesInv'
  BY <1>1, <1>4 DEF RatesInv, SearchPhases, InTodo
<1> QED
  BY <1>5, <1>6, <1>7, <1>8 DEF ScheduleInv

LEMMA AddNodeKeeps ==
  ASSUME ScheduleInv, NEW n \in Nodes, NEW p \in BOOLEAN, AddNode(n, p)
  PROVE  ScheduleInv'
<1>1. /\ n \notin Members /\ Refreshing("add", n) /\ UNCHANGED <<demand, protocol, slots, available>>
      /\ info' = [m \in Members \cup {n} |-> IF m = n THEN NewInfo ELSE info[m]]
      /\ pending' = IF p THEN pending \cup {n} ELSE pending
      /\ allNodes' = Append(allNodes, n)
      /\ eventNodes' = IF n \in EventNodes THEN Append(eventNodes, n) ELSE eventNodes
  BY DEF AddNode, settings, table
<1>2. TypesInv
  BY DEF ScheduleInv
<1>3. Members' = Members \cup {n}
  BY <1>1 DEF Members
<1>4. info' \in [Members \cup {n} -> Rows]
  <2>1. NewInfo \in Rows
    BY SlotAssumption DEF NewInfo, Rows, SlotAssumption
  <2> QED
    BY <1>1, <1>2, <2>1 DEF TypesInv
<1>5. IsFiniteSet(Members \cup {n}) /\ IsFiniteSet(Members \cap EventNodes)
  <2>1. IsFiniteSet(Members) /\ Members \cap EventNodes \subseteq Members
    BY <1>2 DEF TypesInv
  <2> QED
    BY <2>1, FS_AddElement, FS_Subset
<1>6. allNodes' \in SetToSeqs(Members \cup {n})
  BY <1>1, <1>2, OrderOfOneMore DEF TypesInv
<1>7. eventNodes' \in SetToSeqs((Members \cup {n}) \cap EventNodes)
  <2>1. CASE n \in EventNodes
    <3> DEFINE D == Members \cap EventNodes
    <3>1. eventNodes \in SetToSeqs(D) /\ IsFiniteSet(D) /\ n \notin D
      BY <1>1, <1>2, <1>5 DEF TypesInv
    <3>2. (Members \cup {n}) \cap EventNodes = D \cup {n}
      BY <2>1
    <3> HIDE DEF D
    <3>3. Append(eventNodes, n) \in SetToSeqs(D \cup {n})
      BY <3>1, OrderOfOneMore
    <3> QED
      BY <1>1, <2>1, <3>2, <3>3
  <2>2. CASE n \notin EventNodes
    <3>1. (Members \cup {n}) \cap EventNodes = Members \cap EventNodes
      BY <2>2
    <3> QED
      BY <1>1, <1>2, <2>2, <3>1 DEF TypesInv
  <2> QED
    BY <2>1, <2>2
<1>8. ListsAre' /\ TableIsIn'
  BY <1>1, <1>2, <1>3, <1>4, <1>5, <1>6, <1>7 DEF ListsAre, TableIsIn, TypesInv
<1> QED
  BY <1>1, <1>3, <1>8, RefreshStarts

LEMMA WithoutKeeps ==
  ASSUME TypesInv, NEW o, NEW n, Without(o, n), UNCHANGED <<demand, protocol, slots, available>>,
         o \notin {"none", "add"}
  PROVE  ScheduleInv'
<1>1. /\ Refreshing(o, 0) /\ info' = [m \in Members \ {n} |-> info[m]] /\ pending' = pending \ {n}
      /\ allNodes' = Among(allNodes, Nodes \ {n}) /\ eventNodes' = Among(eventNodes, Nodes \ {n})
  BY DEF Without
<1>2. Members' = Members \ {n}
  BY <1>1 DEF Members
<1>3. info' \in [Members \ {n} -> Rows]
  BY <1>1 DEF TypesInv
<1> DEFINE D == Members \cap EventNodes
           T == Nodes \ {n}
<1>4. IsFiniteSet(Members) /\ IsFiniteSet(Members \ {n}) /\ IsFiniteSet(D)
  <2>1. IsFiniteSet(Members) /\ Members \ {n} \subseteq Members /\ D \subseteq Members
    BY DEF TypesInv
  <2> HIDE DEF D
  <2> QED
    BY <2>1, FS_Subset
<1>5. /\ Members \cap T = Members \ {n} /\ D \cap T = (Members \ {n}) \cap EventNodes
      /\ allNodes \in SetToSeqs(Members) /\ eventNodes \in SetToSeqs(D)
  BY DEF TypesInv
<1> HIDE DEF D, T
<1>6. Among(allNodes, T) \in SetToSeqs(Members \cap T) /\ Among(eventNodes, T) \in SetToSeqs(D \cap T)
  BY <1>4, <1>5, OrderAmong
<1>7. ListsAre' /\ TableIsIn'
  BY <1>1, <1>2, <1>3, <1>4, <1>5, <1>6 DEF ListsAre, TableIsIn, TypesInv, T
<1> QED
  BY <1>1, <1>7, RefreshStarts

\* The call is over.
LEMMA Returned ==
  ASSUME TypesInv, Return, UNCHANGED <<info, lists, settings, table>>,
         ~RereadsFail /\ networkOk' => Scheduled
  PROVE  ScheduleInv'
<1>1. /\ op' = "none" /\ phase' = "idle" /\ todo' = <<>> /\ adding' = 0 /\ trying' = 0
  BY DEF Return
<1>2. UNCHANGED <<info, pending, allNodes, eventNodes, demand, protocol, slots, available, Members>>
  BY DEF lists, settings, table, Members
<1>3. TypesInv'
  BY <1>1, <1>2 DEF TypesInv
<1>4. CallInv' /\ TableInv' /\ RatesInv' /\ UndoInv'
  BY <1>1 DEF CallInv, TableInv, RatesInv, UndoInv, SearchPhases, Settled
<1>5. ResultInv'
  <2>1. Scheduled => Scheduled'
    BY <1>2, SameSchedule
  <2> QED
    BY <1>1, <2>1 DEF ResultInv, Settled
<1> QED
  BY <1>3, <1>4, <1>5 DEF ScheduleInv

\* The calls that start a refresh.
LEMMA CallsKeep ==
  ASSUME ScheduleInv,
         \/ \E n \in Nodes : AddRejected(n) \/ RemoveNode(n)
         \/ Refresh \/ SetLossless \/ \E p \in DOMAIN Spacing : SetCommunicationProtocol(p)
  PROVE  ScheduleInv'
<1>1. TypesInv
  BY DEF ScheduleInv
<1>2. ASSUME NEW n \in Nodes, AddRejected(n) \/ RemoveNode(n)
      PROVE  ScheduleInv'
  <2>1. UNCHANGED <<demand, protocol, slots, available>> /\ (Without("reject", n) \/ Without("remove", n))
    BY <1>2 DEF AddRejected, RemoveNode, settings, table
  <2> QED
    BY <1>1, <2>1, WithoutKeeps
<1>3. ASSUME Refresh \/ SetLossless \/ \E p \in DOMAIN Spacing : SetCommunicationProtocol(p)
      PROVE  ScheduleInv'
  <2>1. /\ Refreshing("refresh", 0) /\ protocol' \in DOMAIN Spacing
        /\ UNCHANGED <<info, pending, allNodes, eventNodes, demand, slots, available, Members>>
    BY <1>1, <1>3 DEF Refresh, SetLossless, SetCommunicationProtocol, lists, settings, table, Members, TypesInv
  <2>2. ListsAre' /\ TableIsIn'
    BY <1>1, <2>1 DEF ListsAre, TableIsIn, TypesInv
  <2> QED
    BY <2>1, <2>2, RefreshStarts
<1> QED
  BY <1>2, <1>3

LEMMA ReconfigureKeeps ==
  ASSUME ScheduleInv, NEW n \in Nodes, NEW d \in Demands[n], Reconfigure(n, d)
  PROVE  ScheduleInv'
<1>1. /\ op = "none" /\ demand' = [demand EXCEPT ![n] = d]
      /\ UNCHANGED <<info, lists, lossless, protocol, table, status, call>>
  BY DEF Reconfigure, Idle
<1>2. UNCHANGED <<info, pending, allNodes, eventNodes, protocol, slots, available, networkOk, op, phase, todo,
                  adding, trying, Members>>
  BY <1>1 DEF lists, table, status, call, locals, Members
<1>3. demand' \in [Nodes -> Nat \ {0}]
  <2>1. Demands[n] \subseteq Nat \ {0} /\ demand \in [Nodes -> Nat \ {0}]
    BY ScheduleAssumption DEF ScheduleAssumption, ScheduleInv, TypesInv
  <2> QED
    BY <1>1, <2>1
<1>4. TypesInv'
  BY <1>2, <1>3 DEF ScheduleInv, TypesInv
<1>5. phase' = "idle"
  BY <1>1, <1>2 DEF ScheduleInv, CallInv
<1>6. CallInv' /\ TableInv' /\ RatesInv' /\ UndoInv'
  BY <1>2, <1>5 DEF ScheduleInv, CallInv, TableInv, RatesInv, UndoInv, SearchPhases
<1>7. ResultInv'
  <2>1. Scheduled => Scheduled'
    BY <1>2, SameSchedule
  <2> QED
    BY <1>2, <1>5, <2>1 DEF ScheduleInv, ResultInv, Settled
<1> QED
  BY <1>4, <1>6, <1>7 DEF ScheduleInv

LEMMA CalculateNodeKeeps ==
  ASSUME ScheduleInv, CalculateNode
  PROVE  ScheduleInv'
<1> DEFINE h == Head(todo)
<1>1. /\ phase = "calculate" /\ todo # <<>> /\ UNCHANGED <<lists, settings, table, status, op, locals>>
      /\ \/ info' = Calculated(info, h, FALSE) /\ todo' = Tail(todo) /\ phase' = phase
         \/ info' = Unreachable(info, h) /\ phase' = "failed" /\ todo' = todo
  BY DEF CalculateNode
<1>2. UNCHANGED <<pending, allNodes, eventNodes, demand, lossless, protocol, slots, available, op, adding, trying>>
  BY <1>1 DEF lists, settings, table, locals
<1>3. /\ TypesInv /\ info \in [Members -> Rows] /\ todo \in Seq(Members) /\ h \in Members /\ Tail(todo) \in Seq(Members)
      /\ h = todo[1] /\ Len(Tail(todo)) = Len(todo) - 1 /\ Len(todo) \in Nat \ {0}
      /\ \A j \in 1 .. Len(todo) - 1 : Tail(todo)[j] = todo[j + 1]
  BY <1>1 DEF ScheduleInv, TypesInv
<1>4. demand[h] \in Nat \ {0} /\ h \in Members /\ info \in [Members -> Rows]
  BY <1>3 DEF TypesInv
<1> HIDE DEF h
<1>5. \A n : TxPerGroup(n, FALSE)' = TxPerGroup(n, FALSE)
  BY <1>2, RatesStay
<1>6. CASE info' = Calculated(info, h, FALSE) /\ todo' = Tail(todo) /\ phase' = phase
  <2>1. /\ info' \in [Members -> Rows] /\ DOMAIN info' = Members /\ info'[h].tx = TxPerGroup(h, FALSE)
        /\ \A n \in Members : n # h => info'[n] = info[n]
    <3> DEFINE g == info'
               o == FALSE
    <3>1. g = Calculated(info, h, o)
      BY <1>6
    <3> HIDE DEF g, o
    <3>2. /\ g \in [Members -> Rows] /\ DOMAIN g = Members /\ g[h].tx = TxPerGroup(h, o)
          /\ \A n \in Members : n # h => g[n] = info[n]
      BY <1>4, <3>1, CalculatedRows
    <3> QED
      BY <3>2 DEF g, o
  <2>2. Members' = Members
    BY <2>1 DEF Members
  <2>3. TypesInv'
    BY <1>2, <1>3, <1>6, <2>1, <2>2 DEF TypesInv
  <2>4. CallInv' /\ TableInv' /\ ResultInv' /\ UndoInv'
    BY <1>1, <1>2, <1>6, <2>2 DEF ScheduleInv, CallInv, TableInv, ResultInv, UndoInv, SearchPhases, Settled
  <2>5. ASSUME NEW n \in Members
        PROVE  InTodo(n)' \/ info'[n].tx = TxPerGroup(n, FALSE)
    <3>1. CASE n = h
      BY <2>1, <3>1
    <3>2. CASE n # h
      <4>1. CASE InTodo(n)
        <5>1. PICK i \in 1 .. Len(todo) : todo[i] = n
          BY <1>3, <4>1 DEF InTodo
        <5>2. i # 1 /\ i - 1 \in 1 .. Len(todo) - 1 /\ (i - 1) + 1 = i
          BY <1>3, <3>2, <5>1
        <5>3. Tail(todo)[i - 1] = n /\ i - 1 \in DOMAIN Tail(todo)
          BY <1>3, <5>1, <5>2
        <5> QED
          BY <1>6, <5>3 DEF InTodo
      <4>2. CASE ~InTodo(n)
        BY <1>1, <2>1, <3>2, <4>2 DEF ScheduleInv, RatesInv
      <4> QED
        BY <4>1, <4>2
    <3> QED
      BY <3>1, <3>2
  <2>6. RatesInv'
    BY <1>1, <1>5, <1>6, <2>2, <2>5 DEF RatesInv, SearchPhases
  <2> QED
    BY <2>3, <2>4, <2>6 DEF ScheduleInv
<1>7. CASE info' = Unreachable(info, h) /\ phase' = "failed" /\ todo' = todo
  <2>1. /\ info' \in [Members -> Rows] /\ DOMAIN info' = Members /\ info'[h].status # "OK"
    BY <1>3, <1>7, UnreachableRows
  <2>2. Members' = Members
    BY <2>1 DEF Members
  <2>3. TypesInv'
    BY <1>2, <1>3, <1>7, <2>1, <2>2 DEF TypesInv
  <2>4. CallInv' /\ TableInv' /\ RatesInv' /\ UndoInv'
    BY <1>1, <1>2, <1>7, <2>2 DEF ScheduleInv, CallInv, TableInv, RatesInv, UndoInv, SearchPhases, Settled
  <2>5. ~AllOk'
    BY <1>3, <2>1, <2>2 DEF AllOk
  <2>6. ResultInv'
    BY <1>7, <2>5 DEF ResultInv, Settled
  <2> QED
    BY <2>3, <2>4, <2>6 DEF ScheduleInv
<1> QED
  BY <1>1, <1>6, <1>7

\* findSlotsForNodes is called.
LEMMA SearchBegins ==
  ASSUME TypesInv, NEW p \in SearchPhases, NEW q, FindSlots(p, q), info' \in [Members -> Rows],
         \A n \in Members : info'[n].tx \in Powers, UNCHANGED <<pending, eventNodes, demand, protocol>>,
         trying' \in Members \cup {0}, allNodes' \in SetToSeqs(Members),
         IF p = "others" THEN q \in Sorted(Members \ ToSet(eventNodes), info')
         ELSE q = allNodes' /\ q \in Sorted(Members, info')
  PROVE  TypesInv' /\ TableInv' /\ Members' = Members /\ Found' = 0
<1>1. /\ phase' = p /\ todo' = q /\ slots' = {} /\ available' = MaxSlots /\ allFound' = TRUE
  BY DEF FindSlots
<1>2. Members' = Members
  BY DEF Members
<1>3. IsFiniteSet(Members) /\ Members \subseteq Nat /\ \A n \in Members : info'[n].tx \in Nat
  BY ScheduleAssumption DEF ScheduleAssumption, TypesInv, Rows
<1> DEFINE S == IF p = "others" THEN Members \ ToSet(eventNodes) ELSE Members
           f == info'
<1>4. q \in Sorted(S, f) /\ S \subseteq Members
  OBVIOUS
<1>5. IsFiniteSet(S) /\ S \subseteq Nat /\ \A n \in S : f[n].tx \in Nat
  BY <1>3, <1>4, FS_Subset
<1>6. Searched' = S
  BY <1>1, <1>2 DEF Searched
<1>7. Order' = q
  <2>1. CASE p = "others"
    <3> DEFINE A == Sorted(S, f)
    <3>1. Order' = CHOOSE r : r \in A
      BY <1>1, <1>2, <2>1 DEF Order
    <3>2. q \in A
      BY <1>4
    <3> HIDE DEF A
    <3>3. Order' \in A
      BY <3>1, <3>2
    <3> HIDE DEF S, f
    <3> QED
      BY <1>4, <1>5, <3>3, SortedOnce DEF A
  <2>2. CASE p # "others"
    BY <1>1, <2>2 DEF Order
  <2> QED
    BY <2>1, <2>2
<1> HIDE DEF S, f
<1>8. q \in Seq(Members) /\ Len(q) \in Nat
  <2>1. q \in SetToSeqs(S)
    BY <1>4 DEF Sorted
  <2>2. q \in Seq(S) /\ Len(q) \in Nat
    BY <1>5, <2>1, OrderIs
  <2> QED
    BY <1>4, <2>2
<1>9. TypesInv'
  BY <1>1, <1>2, <1>8, SlotAssumption DEF TypesInv, SlotAssumption
<1>10. FreshSearch'
  BY <1>1, <1>2, <1>4, <1>6, <1>7, <1>9 DEF FreshSearch, f
<1>11. Found' = 0
  BY <1>1, <1>7, <1>8 DEF Found
<1> QED
  BY <1>2, <1>9, <1>10, <1>11, FreshNext

LEMMA EventNodesAre ==
  ASSUME TypesInv
  PROVE  /\ ToSet(eventNodes) = Members \cap EventNodes /\ IsFiniteSet(Members \cap EventNodes)
         /\ IsFiniteSet(Members) /\ allNodes \in SetToSeqs(Members) /\ eventNodes \in SetToSeqs(Members \cap EventNodes)
         /\ \A n \in Members : demand[n] \in Nat \ {0}
<1> DEFINE D == Members \cap EventNodes
<1>1. IsFiniteSet(Members) /\ D \subseteq Members /\ eventNodes \in SetToSeqs(D)
  BY DEF TypesInv
<1> HIDE DEF D
<1>2. IsFiniteSet(D)
  BY <1>1, FS_Subset
<1>3. ToSet(eventNodes) = D
  BY <1>1, <1>2, OrderIs
<1> QED
  BY <1>1, <1>2, <1>3 DEF D, TypesInv

LEMMA SlotsForOthersKeeps ==
  ASSUME ScheduleInv, SlotsForOthers
  PROVE  ScheduleInv'
<1>1. PICK q \in Sorted(Members \ ToSet(eventNodes), info) : FindSlots("others", q)
  BY DEF SlotsForOthers
<1>2. /\ phase = "calculate" /\ todo = <<>>
      /\ UNCHANGED <<info, lists, settings, status, op, adding, trying, attempt>>
  BY DEF SlotsForOthers
<1>3. UNCHANGED <<info, pending, allNodes, eventNodes, demand, lossless, protocol, op, adding, trying>>
  BY <1>2 DEF lists, settings
<1>4. \A n \in Members : info[n].tx = TxPerGroup(n, FALSE)
  <2>1. DOMAIN todo = 1 .. 0 /\ 1 .. 0 = {}
    BY <1>2
  <2>2. \A n : ~InTodo(n)
    BY <2>1 DEF InTodo
  <2> QED
    BY <1>2, <2>2 DEF ScheduleInv, RatesInv
<1>5. \A n \in Members : TxPerGroup(n, FALSE) \in Powers
  BY EventNodesAre, RateIs DEF ScheduleInv
<1>6. "others" \in SearchPhases /\ phase' = "others"
  BY <1>1 DEF FindSlots, SearchPhases
<1>7. TypesInv' /\ TableInv' /\ Members' = Members
  <2>1. TypesInv /\ info' \in [Members -> Rows] /\ allNodes' \in SetToSeqs(Members) /\ trying' \in Members \cup {0}
    BY <1>3 DEF ScheduleInv, TypesInv
  <2>2. q \in Sorted(Members \ ToSet(eventNodes), info') /\ \A n \in Members : info'[n].tx \in Powers
    BY <1>1, <1>3, <1>4, <1>5
  <2> QED
    BY <1>1, <1>3, <1>6, <2>1, <2>2, SearchBegins
<1>8. CallInv'
  BY <1>2, <1>3, <1>6, <1>7 DEF ScheduleInv, CallInv
<1>9. RatesInv'
  <2>1. \A n : TxPerGroup(n, FALSE)' = TxPerGroup(n, FALSE)
    BY <1>3, RatesStay
  <2> QED
    BY <1>3, <1>4, <1>5, <1>6, <1>7, <2>1 DEF RatesInv
<1>10. ResultInv' /\ UndoInv'
  BY <1>6 DEF ResultInv, UndoInv, Settled
<1> QED
  BY <1>7, <1>8, <1>9, <1>10 DEF ScheduleInv

LEMMA RereadFailsKeeps ==
  ASSUME ScheduleInv, RereadFails
  PROVE  ScheduleInv'
<1>1. /\ phase' = "failed" /\ UNCHANGED <<info, lists, settings, table, status, op, todo, locals>>
      /\ phase \in SearchPhases \cup {"optimize"}
      /\ RereadsFail \/ (phase \in SearchPhases /\ todo # <<>> /\ Head(todo) = adding)
  BY DEF RereadFails
<1>2. /\ UNCHANGED <<info, pending, allNodes, eventNodes, demand, protocol, slots, available, op, adding, todo, trying>>
      /\ Members' = Members
  BY <1>1 DEF lists, settings, table, locals, Members
<1>3. TypesInv'
  BY <1>2 DEF ScheduleInv, TypesInv
<1>4. CallInv' /\ TableInv' /\ RatesInv' /\ UndoInv'
  BY <1>1, <1>2 DEF ScheduleInv, CallInv, TableInv, RatesInv, UndoInv, SearchPhases, Settled
<1>5. ResultInv'
  <2>1. ~RereadsFail => op = "add"
    <3>1. TypesInv /\ TableInv /\ CallInv
      BY DEF ScheduleInv
    <3>2. ~RereadsFail => adding \in Members
      BY <1>1, <3>1, Visiting
    <3>3. 0 \notin Members
      BY <3>1, ScheduleAssumption DEF TypesInv, ScheduleAssumption
    <3> QED
      BY <3>1, <3>2, <3>3 DEF CallInv
  <2> QED
    BY <1>1, <1>2, <2>1 DEF ResultInv, Settled
<1> QED
  BY <1>3, <1>4, <1>5 DEF ScheduleInv

\* The rates after the event driven Nodes have got their shares.
LEMMA SharedRates ==
  ASSUME TypesInv, NEW tx, tx \in [Members \cap EventNodes -> Powers], \A n \in Members : info[n].tx \in Powers,
         NEW f, f = [n \in Members |-> IF n \in DOMAIN tx THEN [info[n] EXCEPT !.tx = tx[n]] ELSE info[n]]
  PROVE  /\ f \in [Members -> Rows] /\ \A n \in Members : f[n].tx \in Powers
         /\ \A n \in Members \cap EventNodes : f[n].tx = tx[n]
         /\ \A n \in Members \ EventNodes : f[n] = info[n]
<1>1. info \in [Members -> Rows]
  BY DEF TypesInv
<1>2. ASSUME NEW n \in Members \cap EventNodes
      PROVE  f[n] \in Rows /\ f[n].tx = tx[n] /\ tx[n] \in Powers
  <2> DEFINE x == tx[n]
             r == info[n]
  <2>1. x \in Powers /\ x \in Nat /\ r \in Rows /\ f[n] = [r EXCEPT !.tx = x]
    BY <1>1, PowersAre
  <2> HIDE DEF x, r
  <2>2. f[n] \in Rows /\ f[n].tx = x
    BY <2>1 DEF Rows
  <2> QED
    BY <2>1, <2>2 DEF x
<1>3. \A n \in Members \ EventNodes : f[n] = info[n] /\ info[n] \in Rows
  BY <1>1
<1>4. \A n \in Members : n \in Members \cap EventNodes \/ n \in Members \ EventNodes
  OBVIOUS
<1>5. DOMAIN f = Members /\ f = [n \in Members |-> f[n]]
  OBVIOUS
<1>6. \A n \in Members : f[n] \in Rows
  BY <1>2, <1>3, <1>4
<1>7. f \in [Members -> Rows]
  BY <1>5, <1>6
<1> QED
  BY <1>2, <1>3, <1>4, <1>7

LEMMA DivvyUpHere ==
  ASSUME TypesInv, \A n \in Members : info[n].tx \in Powers
  PROVE  /\ DivvyUp \in [Members \cap EventNodes -> Powers]
         /\ Len(eventNodes) <= LargeSlots => TotalTx(DivvyUp) <= LargeSlots
<1>1. LargeSlots \in Nat
  <2>1. available \in Nat /\ Spacing[protocol] \in Nat \ {0}
    BY ScheduleAssumption, SlotAssumption DEF TypesInv, ScheduleAssumption, SlotAssumption
  <2> QED
    BY <2>1 DEF LargeSlots
<1> DEFINE D == Members \cap EventNodes
<1>2. /\ IsFiniteSet(D) /\ eventNodes \in SetToSeqs(D) /\ \A n \in D : demand[n] \in Nat \ {0}
      /\ \A n \in D : info[n].tx \in Powers
  BY EventNodesAre
<1> HIDE DEF D
<1>3. /\ DivvyUp \in [D -> Powers]
      /\ Len(eventNodes) <= LargeSlots => TotalTx(DivvyUp) <= LargeSlots
  BY <1>1, <1>2, DivvyUpIs
<1> QED
  BY <1>3 DEF D

LEMMA SlotsForAllKeeps ==
  ASSUME ScheduleInv, SlotsForAll
  PROVE  ScheduleInv'
<1> DEFINE tx == DivvyUp
           f == info'
<1>1. /\ phase = "others" /\ todo = <<>>
      /\ f = [n \in Members |-> IF n \in DOMAIN tx THEN [info[n] EXCEPT !.tx = tx[n]] ELSE info[n]]
      /\ allNodes' \in Sorted(Members, f) /\ FindSlots("all", allNodes')
      /\ UNCHANGED <<pending, eventNodes, settings, status, op, adding, trying, attempt>>
  BY DEF SlotsForAll
<1>2. UNCHANGED <<pending, eventNodes, demand, lossless, protocol, op, adding, trying>>
  BY <1>1 DEF settings
<1>3. TypesInv /\ \A n \in Members : info[n].tx \in Powers
  BY <1>1 DEF ScheduleInv, RatesInv, SearchPhases
<1>4. tx \in [Members \cap EventNodes -> Powers]
  BY <1>3, DivvyUpHere
<1> HIDE DEF tx, f
<1>5. /\ f \in [Members -> Rows] /\ \A n \in Members : f[n].tx \in Powers
      /\ \A n \in Members \ EventNodes : f[n] = info[n]
  BY <1>1, <1>3, <1>4, SharedRates
<1>6. "all" \in SearchPhases /\ phase' = "all" /\ allFound' = TRUE /\ slots' = {}
  BY <1>1 DEF FindSlots, SearchPhases
<1>7. TypesInv' /\ TableInv' /\ Members' = Members /\ Found' = 0
  <2>1. allNodes' \in SetToSeqs(Members) /\ trying' \in Members \cup {0}
    BY <1>1, <1>2, <1>3 DEF Sorted, TypesInv
  <2> QED
    BY <1>1, <1>2, <1>3, <1>5, <1>6, <2>1, SearchBegins DEF f
<1>8. CallInv'
  BY <1>1, <1>2, <1>6, <1>7 DEF ScheduleInv, CallInv
<1>9. RatesInv'
  <2>1. \A n : TxPerGroup(n, FALSE)' = TxPerGroup(n, FALSE)
    BY <1>2, RatesStay
  <2> QED
    BY <1>1, <1>5, <1>6, <1>7, <2>1 DEF ScheduleInv, RatesInv, f
<1>10. UndoInv'
  <2>1. (\E T : Filling(T, info, Spacing[protocol], InLegacyMode, allNodes, Found) /\ T[Found] = slots)'
    BY <1>6, <1>7, FillingStarts
  <2> QED
    BY <1>6, <2>1 DEF UndoInv
<1>11. ResultInv'
  BY <1>6 DEF ResultInv, Settled
<1> QED
  BY <1>7, <1>8, <1>9, <1>10, <1>11 DEF ScheduleInv

Marked(f, h) == [f EXCEPT ![h].optimized = TRUE]
Unmarked(f, S) == [n \in S |-> [f[n] EXCEPT !.optimized = FALSE]]

\* Changing `optimized' changes nothing else.
LEMMA MarkedIs ==
  ASSUME NEW S, NEW f \in [S -> Rows], NEW h \in S, NEW g, g = Marked(f, h)
  PROVE  g \in [S -> Rows] /\ g[h].optimized = TRUE
<1> DEFINE r == [f[h] EXCEPT !.optimized = TRUE]
<1>1. g = [f EXCEPT ![h] = r]
  BY DEF Marked
<1>2. r \in Rows /\ r.optimized = TRUE
  BY DEF Rows
<1> HIDE DEF r
<1> QED
  BY <1>1, <1>2

LEMMA MarkedRows ==
  ASSUME NEW S, NEW f \in [S -> Rows], NEW h \in S, NEW g, g = Marked(f, h)
  PROVE  \A n \in S : /\ g[n].tx = f[n].tx /\ g[n].tdma = f[n].tdma /\ g[n].status = f[n].status
                      /\ (n # h => g[n] = f[n])
<1> DEFINE r == [f[h] EXCEPT !.optimized = TRUE]
<1>1. g = [f EXCEPT ![h] = r]
  BY DEF Marked
<1>2. /\ r \in Rows
      /\ r.tx = f[h].tx /\ r.tdma = f[h].tdma /\ r.status = f[h].status
  BY DEF Rows
<1> HIDE DEF r
<1>3. DOMAIN g = S /\ g[h] = r /\ \A n \in S : n # h => g[n] = f[n]
  BY <1>1, <1>2
<1> QED
  BY <1>2, <1>3

LEMMA UnmarkedRows ==
  ASSUME NEW S, NEW f \in [S -> Rows], NEW g, g = Unmarked(f, S)
  PROVE  /\ g \in [S -> Rows]
         /\ \A n \in S : g[n].tx = f[n].tx /\ g[n].tdma = f[n].tdma /\ g[n].status = f[n].status
<1>1. ASSUME NEW n \in S
      PROVE  /\ g[n] \in Rows
             /\ g[n].tx = f[n].tx /\ g[n].tdma = f[n].tdma /\ g[n].status = f[n].status
  <2>1. g[n] = [f[n] EXCEPT !.optimized = FALSE] /\ f[n] \in Rows
    BY DEF Unmarked
  <2> QED
    BY <2>1 DEF Rows
<1> QED
  BY <1>1 DEF Unmarked

\* A table that is filled, with a slot for every Node.
Filled ==
  /\ Scheduled /\ \A n \in Members : info[n].tx \in Powers
  /\ allNodes \in Sorted(Members, info)
  /\ \E T : Filling(T, info, Spacing[protocol], InLegacyMode, allNodes, Len(allNodes))

\* Optimization begins, or goes on, with the values the last search ended with.
LEMMA OptimizeGoesOn ==
  ASSUME TypesInv, CallInv, Filled, phase # "idle", phase' = "optimize", info' \in [Members -> Rows],
         \A n \in Members : /\ info'[n].tx = info[n].tx /\ info'[n].tdma = info[n].tdma
                            /\ info'[n].status = info[n].status,
         \A n \in Members \ EventNodes : info'[n].optimized \/ info'[n].tx = TxPerGroup(n, FALSE),
         UNCHANGED <<lists, settings, table, op, todo, adding, trying>>
  PROVE  ScheduleInv'
<1>1. /\ UNCHANGED <<pending, allNodes, eventNodes, demand, lossless, protocol, slots, available>>
      /\ Members' = Members
  BY DEF lists, settings, table, Members
<1>2. TypesInv'
  BY <1>1 DEF TypesInv
<1>3. CallInv' /\ TableInv'
  BY <1>1 DEF CallInv, TableInv, SearchPhases
<1>4. RatesInv'
  <2>1. \A n : TxPerGroup(n, FALSE)' = TxPerGroup(n, FALSE)
    BY <1>1, RatesStay
  <2> QED
    BY <1>1, <2>1 DEF RatesInv, SearchPhases, Filled
<1>5. ResultInv'
  BY <1>1, SameSchedule DEF ResultInv, Filled, Settled
<1>6. UndoInv'
  <2>1. allNodes \in Sorted(Members, info')
    <3> DEFINE f == info
               g == info'
    <3>1. \A n \in Members : f[n].tx = g[n].tx
      OBVIOUS
    <3> HIDE DEF f, g
    <3>2. Sorted(Members, f) = Sorted(Members, g)
      BY <3>1, SortedSame
    <3> QED
      BY <3>2 DEF f, g, Filled
  <2>2. \A i \in 1 .. Len(allNodes) : allNodes[i] \in Members
    BY EventNodesAre, OrderIs
  <2>3. PICK T : Filling(T, info, Spacing[protocol], InLegacyMode, allNodes, Len(allNodes))
    BY DEF Filled
  <2>4. \A i \in 1 .. Len(allNodes) : info'[allNodes[i]].tx = info[allNodes[i]].tx
    BY <2>2
  <2>5. Filling(T, info', Spacing[protocol], InLegacyMode, allNodes, Len(allNodes))
    BY <2>3, <2>4, FillingSame
  <2>6. InLegacyMode' = InLegacyMode
    BY <1>1 DEF InLegacyMode
  <2> QED
    BY <1>1, <2>1, <2>5, <2>6 DEF UndoInv
<1> QED
  BY <1>2, <1>3, <1>4, <1>5, <1>6 DEF ScheduleInv

\* A search that ends well leaves a filled table.
LEMMA SearchFilled ==
  ASSUME ScheduleInv, phase \in {"all", "try"}, allFound, todo = <<>>
  PROVE  Filled
<1>1. TypesInv /\ TableInv /\ phase \in SearchPhases
  BY DEF ScheduleInv, SearchPhases
<1>2. Scheduled
  BY <1>1, SearchEnds
<1>3. Order = allNodes /\ Searched = Members /\ allNodes \in Sorted(Members, info)
  BY <1>1 DEF Order, Searched, TableInv
<1>4. Len(allNodes) \in Nat
  BY <1>1, <1>3, SearchedOrder
<1>5. Found = Len(allNodes)
  BY <1>3, <1>4 DEF Found
<1>6. \E T : Filling(T, info, Spacing[protocol], InLegacyMode, allNodes, Len(allNodes))
  BY <1>5 DEF ScheduleInv, UndoInv
<1> QED
  BY <1>1, <1>2, <1>3, <1>6 DEF Filled, ScheduleInv, RatesInv

LEMMA SlotsFoundKeeps ==
  ASSUME ScheduleInv, SlotsFound
  PROVE  ScheduleInv'
<1>1. phase = "all" /\ todo = <<>> /\ networkOk' = AllOk /\ UNCHANGED <<lists, settings, table>>
  BY DEF SlotsFound
<1>2. TypesInv /\ (allFound <=> AllOk) /\ (AllOk => Scheduled)
  BY <1>1, SearchEnds DEF ScheduleInv
<1>3. CASE /\ AllOk /\ info' = [n \in Members |-> [info[n] EXCEPT !.optimized = FALSE]]
           /\ phase' = "optimize" /\ UNCHANGED <<op, todo, locals>>
  <2> DEFINE g == info'
  <2>1. g = Unmarked(info, Members) /\ info \in [Members -> Rows]
    BY <1>2, <1>3 DEF TypesInv, Unmarked
  <2> HIDE DEF g
  <2>2. /\ g \in [Members -> Rows]
        /\ \A n \in Members : g[n].tx = info[n].tx /\ g[n].tdma = info[n].tdma /\ g[n].status = info[n].status
    BY <2>1, UnmarkedRows
  <2>3. UNCHANGED <<adding, trying>>
    BY <1>3 DEF locals
  <2>4. Filled /\ CallInv /\ \A n \in Members \ EventNodes : info[n].tx = TxPerGroup(n, FALSE)
    BY <1>1, <1>2, <1>3, SearchFilled DEF ScheduleInv, RatesInv
  <2> QED
    BY <1>1, <1>2, <1>3, <2>2, <2>3, <2>4, OptimizeGoesOn DEF g
<1>4. CASE Return /\ info' = info
  BY <1>1, <1>2, <1>4, Returned
<1> QED
  BY <1>3, <1>4 DEF SlotsFound

LEMMA OptimizationDoneKeeps ==
  ASSUME ScheduleInv, OptimizationDone
  PROVE  ScheduleInv'
<1>1. /\ phase = "optimize" \/ (phase = "restore" /\ todo = <<>>)
      /\ networkOk' = AllOk /\ Return /\ UNCHANGED <<info, lists, settings, table>>
  BY DEF OptimizationDone
<1>2. AllOk => Scheduled
  <2>1. CASE phase = "optimize"
    BY <2>1 DEF ScheduleInv, ResultInv, Settled
  <2>2. CASE phase = "restore" /\ todo = <<>>
    BY <2>2, SearchEnds DEF ScheduleInv
  <2> QED
    BY <1>1, <2>1, <2>2
<1>3. TypesInv
  BY DEF ScheduleInv
<1> QED
  BY <1>1, <1>2, <1>3, Returned

LEMMA ThrowKeeps ==
  ASSUME ScheduleInv, Throw
  PROVE  ScheduleInv'
<1>1. phase = "failed" /\ networkOk' = AllOk /\ UNCHANGED <<settings, table>> /\ TypesInv
  BY DEF Throw, ScheduleInv
<1>2. UNCHANGED <<demand, protocol, slots, available>>
  BY <1>1 DEF settings, table
<1>3. CASE op = "add" /\ Without("reject", adding)
  BY <1>1, <1>2, <1>3, WithoutKeeps
<1>4. CASE op # "add" /\ Return /\ UNCHANGED <<info, lists>>
  <2>1. ~RereadsFail => ~AllOk
    BY <1>1, <1>4 DEF ScheduleInv, ResultInv, Settled
  <2> QED
    BY <1>1, <1>4, <2>1, Returned
<1> QED
  BY <1>3, <1>4 DEF Throw

LEMMA ToOptimizeIs ==
  ASSUME TypesInv, ToOptimize # <<>>
  PROVE  Last(ToOptimize) \in Members /\ ~info[Last(ToOptimize)].optimized
<1> DEFINE S == {n \in Members : ~info[n].optimized}
           D == Members \cap S
           q == ToOptimize
<1>1. q = Among(allNodes, S) /\ allNodes \in SetToSeqs(Members) /\ IsFiniteSet(Members) /\ D = S /\ S \subseteq Members
  BY DEF TypesInv, ToOptimize
<1> HIDE DEF S, D
<1>2. q \in SetToSeqs(D) /\ IsFiniteSet(D)
  <2>1. Among(allNodes, S) \in SetToSeqs(Members \cap S)
    BY <1>1, OrderAmong
  <2> QED
    BY <1>1, <2>1, FS_Subset DEF D
<1> HIDE DEF q
<1>3. q \in Seq(D) /\ q # <<>>
  BY <1>2, OrderIs DEF q
<1>4. q[Len(q)] \in D
  BY <1>3
<1> QED
  BY <1>1, <1>4 DEF S, q, Last

\* A setting could not be read again.
LEMMA GivesUp ==
  ASSUME ScheduleInv, phase \in SearchPhases \cup {"optimize"}, RereadsFail,
         NEW h \in Members, info' = Unreachable(info, h), phase' = "failed",
         UNCHANGED <<lists, settings, table, op, todo, adding, trying>>
  PROVE  ScheduleInv'
<1> DEFINE g == info'
<1>1. /\ UNCHANGED <<pending, allNodes, eventNodes, demand, protocol, slots, available>>
      /\ g = Unreachable(info, h) /\ info \in [Members -> Rows]
  BY DEF lists, settings, table, ScheduleInv, TypesInv
<1> HIDE DEF g
<1>2. g \in [Members -> Rows] /\ DOMAIN g = Members
  BY <1>1, UnreachableRows
<1>3. Members' = Members
  BY <1>2 DEF Members, g
<1>4. TypesInv'
  BY <1>1, <1>2, <1>3 DEF ScheduleInv, TypesInv, g
<1>5. CallInv' /\ TableInv' /\ RatesInv' /\ UndoInv' /\ ResultInv'
  BY <1>1, <1>3 DEF ScheduleInv, CallInv, TableInv, RatesInv, UndoInv, ResultInv, SearchPhases, Settled
<1> QED
  BY <1>4, <1>5 DEF ScheduleInv

\* The values of Node n are calculated again, and slots are searched for all.
LEMMA ResortSearches ==
  ASSUME ScheduleInv, NEW n \in Members, NEW optimize, NEW p \in SearchPhases \ {"others"},
         Resort(Calculated(info, n, optimize), p), phase \in SearchPhases \cup {"optimize"},
         UNCHANGED <<pending, eventNodes, demand, protocol>>, trying' \in Members
  PROVE  /\ TypesInv' /\ TableInv' /\ Members' = Members /\ Found' = 0
         /\ phase' = p /\ allFound' = TRUE /\ slots' = {}
         /\ allNodes' \in Sorted(Members, info')
         /\ info'[n].tx = TxPerGroup(n, optimize) /\ \A m \in Members : info'[m].tx \in Powers
         /\ \A m \in Members : m # n => info'[m] = info[m]
<1> DEFINE g == info'
<1>1. /\ g = Calculated(info, n, optimize) /\ allNodes' \in Sorted(Members, info')
      /\ FindSlots(p, allNodes') /\ info \in [Members -> Rows] /\ TypesInv
      /\ \A m \in Members : info[m].tx \in Powers
  BY DEF Resort, ScheduleInv, TypesInv, RatesInv
<1>2. demand[n] \in Nat \ {0}
  BY <1>1, EventNodesAre
<1> HIDE DEF g
<1>3. /\ g \in [Members -> Rows] /\ g[n].tx = TxPerGroup(n, optimize)
      /\ \A m \in Members : m # n => g[m] = info[m]
      /\ TxPerGroup(n, optimize) \in Powers
  BY <1>1, <1>2, CalculatedRows
<1>4. \A m \in Members : g[m].tx \in Powers
  BY <1>1, <1>3
<1>5. /\ phase' = p /\ allFound' = TRUE /\ slots' = {}
  BY <1>1 DEF FindSlots
<1>6. TypesInv' /\ TableInv' /\ Members' = Members /\ Found' = 0
  <2>1. allNodes' \in SetToSeqs(Members) /\ trying' \in Members \cup {0} /\ p # "others"
    BY <1>1 DEF Sorted
  <2> QED
    BY <1>1, <1>3, <1>4, <2>1, SearchBegins DEF g
<1> QED
  BY <1>1, <1>3, <1>4, <1>5, <1>6 DEF g

LEMMA OptimizeKeeps ==
  ASSUME ScheduleInv, Optimize
  PROVE  ScheduleInv'
<1> DEFINE n == Last(ToOptimize)
<1>1. /\ phase = "optimize" /\ TypesInv /\ CallInv /\ n \in Members /\ ~info[n].optimized
      /\ UNCHANGED <<pending, eventNodes, settings, status, op, adding, attempt>>
  BY ToOptimizeIs DEF Optimize, ScheduleInv
<1>2. UNCHANGED <<pending, eventNodes, demand, lossless, protocol, op, adding>>
  BY <1>1 DEF settings
<1>3. \/ /\ KeptAsIs(n) /\ info' = [info EXCEPT ![n].optimized = TRUE]
         /\ UNCHANGED <<allNodes, table, phase, todo, trying, allFound>>
      \/ /\ ~KeptAsIs(n) /\ trying' = n /\ Resort(Calculated(info, n, TRUE), "try")
      \/ /\ RereadsFail /\ info' = Unreachable(info, n) /\ phase' = "failed"
         /\ UNCHANGED <<allNodes, table, todo, trying, allFound>>
  BY DEF Optimize
<1> HIDE DEF n
<1>4. Filled
  BY <1>1 DEF Filled, ScheduleInv, ResultInv, RatesInv, UndoInv, Settled
<1>5. \A m \in Members \ EventNodes : info[m].optimized \/ info[m].tx = TxPerGroup(m, FALSE)
  BY <1>1 DEF ScheduleInv, RatesInv
<1>6. CASE /\ info' = [info EXCEPT ![n].optimized = TRUE]
           /\ UNCHANGED <<allNodes, table, phase, todo, trying, allFound>>
  <2> DEFINE g == info'
  <2>1. g = Marked(info, n) /\ info \in [Members -> Rows] /\ n \in Members
    BY <1>1, <1>6 DEF TypesInv, Marked
  <2> HIDE DEF g
  <2>2. /\ g \in [Members -> Rows] /\ g[n].optimized = TRUE
        /\ \A m \in Members : /\ g[m].tx = info[m].tx /\ g[m].tdma = info[m].tdma /\ g[m].status = info[m].status
                              /\ (m # n => g[m] = info[m])
    <3>1. g \in [Members -> Rows] /\ g[n].optimized = TRUE
      BY <2>1, MarkedIs
    <3>2. \A m \in Members : /\ g[m].tx = info[m].tx /\ g[m].tdma = info[m].tdma /\ g[m].status = info[m].status
                             /\ (m # n => g[m] = info[m])
      BY <2>1, MarkedRows
    <3> QED
      BY <3>1, <3>2
  <2>3. \A m \in Members \ EventNodes : g[m].optimized \/ g[m].tx = TxPerGroup(m, FALSE)
    BY <1>5, <2>2
  <2>4. UNCHANGED <<lists, settings, table, op, todo, adding, trying>> /\ phase' = "optimize"
    BY <1>1, <1>2, <1>6 DEF lists, settings
  <2> QED
    BY <1>1, <1>4, <2>2, <2>3, <2>4, OptimizeGoesOn DEF g
<1>7. CASE ~KeptAsIs(n) /\ trying' = n /\ Resort(Calculated(info, n, TRUE), "try")
  <2>1. n \in Members \ EventNodes /\ info[n].tx = TxPerGroup(n, FALSE)
    BY <1>1, <1>5, <1>7 DEF KeptAsIs
  <2> DEFINE o == TRUE
  <2>2. Resort(Calculated(info, n, o), "try") /\ "try" \in SearchPhases \ {"others"} /\ trying' \in Members
    BY <1>1, <1>7 DEF SearchPhases
  <2> HIDE DEF o
  <2>3. /\ TypesInv' /\ TableInv' /\ Members' = Members /\ Found' = 0
        /\ phase' = "try" /\ allFound' = TRUE /\ slots' = {}
        /\ \A m \in Members : info'[m].tx \in Powers
        /\ \A m \in Members : m # n => info'[m] = info[m]
    BY <1>1, <1>2, <2>2, ResortSearches
  <2>4. \A m : TxPerGroup(m, FALSE)' = TxPerGroup(m, FALSE)
    BY <1>2, RatesStay
  <2>5. CallInv'
    BY <1>1, <1>2, <1>7, <2>1, <2>2, <2>3 DEF CallInv
  <2>6. RatesInv'
    BY <1>5, <1>7, <2>3, <2>4 DEF RatesInv
  <2>7. ResultInv'
    BY <2>3 DEF ResultInv, Settled
  <2>8. UndoInv'
    <3>1. (\E T : Filling(T, info, Spacing[protocol], InLegacyMode, allNodes, Found) /\ T[Found] = slots)'
      BY <2>3, FillingStarts
    <3>2. PICK T : Filling(T, info, Spacing[protocol], InLegacyMode, allNodes, Len(allNodes))
      BY <1>4 DEF Filled
    <3>3. \A m \in Members : info[m].tx = IF m = n THEN TxPerGroup(m, FALSE) ELSE info'[m].tx
      BY <2>1, <2>3
    <3>4. InLegacyMode' = InLegacyMode
      BY <2>3 DEF InLegacyMode
    <3>5. allNodes \in Sorted(Members, info)
      BY <1>4 DEF Filled
    <3> DEFINE f == info
               q == allNodes
    <3>6. /\ \A m \in Members' : f[m].tx = IF m = trying' THEN TxPerGroup(m, FALSE)' ELSE info'[m].tx
          /\ q \in Sorted(Members', f) /\ Filling(T, f, Spacing[protocol'], InLegacyMode', q, Len(q))
      BY <1>2, <1>7, <2>3, <2>4, <3>2, <3>3, <3>4, <3>5
    <3> HIDE DEF f, q
    <3>7. (\E g, r, U :
            /\ \A m \in Members : g[m].tx = IF m = trying THEN TxPerGroup(m, FALSE) ELSE info[m].tx
            /\ r \in Sorted(Members, g) /\ Filling(U, g, Spacing[protocol], InLegacyMode, r, Len(r)))'
      BY <3>6
    <3> QED
      BY <2>3, <3>1, <3>7 DEF UndoInv
  <2> QED
    BY <2>3, <2>5, <2>6, <2>7, <2>8 DEF ScheduleInv
<1>8. CASE /\ RereadsFail /\ info' = Unreachable(info, n) /\ phase' = "failed"
           /\ UNCHANGED <<allNodes, table, todo, trying, allFound>>
  <2>1. UNCHANGED <<lists, settings, table, op, todo, adding, trying>>
    BY <1>2, <1>8 DEF lists, settings
  <2> QED
    BY <1>1, <1>8, <2>1, GivesUp
<1> QED
  BY <1>3, <1>6, <1>7, <1>8

LEMMA OptimizedKeeps ==
  ASSUME ScheduleInv, Optimized
  PROVE  ScheduleInv'
<1>1. /\ phase = "try" /\ todo = <<>> /\ TypesInv /\ CallInv /\ trying \in Members /\ trying \notin EventNodes
      /\ UNCHANGED <<pending, eventNodes, settings, status, op, adding, attempt>>
  BY DEF Optimized, ScheduleInv, CallInv
<1>2. UNCHANGED <<pending, eventNodes, demand, lossless, protocol, op, adding>>
  BY <1>1 DEF settings
<1>3. \/ /\ allFound /\ info' = [info EXCEPT ![trying].optimized = TRUE] /\ phase' = "optimize"
         /\ UNCHANGED <<allNodes, todo, table, trying, allFound>>
      \/ ~allFound /\ Resort(Calculated(info, trying, FALSE), "restore") /\ trying' = trying
      \/ /\ RereadsFail /\ info' = Unreachable(info, trying) /\ phase' = "failed"
         /\ UNCHANGED <<allNodes, todo, table, trying, allFound>>
  BY DEF Optimized
<1>4. \A m \in Members \ EventNodes : info[m].optimized \/ info[m].tx = TxPerGroup(m, FALSE) \/ m = trying
  BY <1>1 DEF ScheduleInv, RatesInv
<1>5. CASE /\ allFound /\ info' = [info EXCEPT ![trying].optimized = TRUE] /\ phase' = "optimize"
           /\ UNCHANGED <<allNodes, todo, table, trying, allFound>>
  <2> DEFINE g == info'
             n == trying
  <2>1. g = Marked(info, n) /\ info \in [Members -> Rows] /\ n \in Members
    BY <1>1, <1>5 DEF TypesInv, Marked
  <2> HIDE DEF g, n
  <2>2. g \in [Members -> Rows] /\ g[n].optimized = TRUE
    BY <2>1, MarkedIs
  <2>3. \A m \in Members : /\ g[m].tx = info[m].tx /\ g[m].tdma = info[m].tdma /\ g[m].status = info[m].status
                           /\ (m # n => g[m] = info[m])
    BY <2>1, MarkedRows
  <2>4. \A m \in Members \ EventNodes : g[m].optimized \/ g[m].tx = TxPerGroup(m, FALSE)
    BY <1>4, <2>2, <2>3 DEF n
  <2>5. UNCHANGED <<lists, settings, table, op, todo, adding, trying>>
    BY <1>2, <1>5 DEF lists, settings
  <2>6. Filled
    BY <1>1, <1>5, SearchFilled
  <2> QED
    BY <1>1, <1>5, <2>2, <2>3, <2>4, <2>5, <2>6, OptimizeGoesOn DEF g
<1>6. CASE ~allFound /\ Resort(Calculated(info, trying, FALSE), "restore") /\ trying' = trying
  <2> DEFINE o == FALSE
             n == trying
  <2>1. /\ Resort(Calculated(info, n, o), "restore") /\ "restore" \in SearchPhases \ {"others"}
        /\ n \in Members /\ trying' \in Members /\ phase \in SearchPhases
    BY <1>1, <1>6 DEF SearchPhases
  <2> HIDE DEF o, n
  <2>2. /\ TypesInv' /\ TableInv' /\ Members' = Members /\ Found' = 0
        /\ phase' = "restore" /\ allFound' = TRUE /\ slots' = {}
        /\ allNodes' \in Sorted(Members, info')
        /\ info'[n].tx = TxPerGroup(n, o) /\ \A m \in Members : info'[m].tx \in Powers
        /\ \A m \in Members : m # n => info'[m] = info[m]
    BY <1>1, <1>2, <2>1, ResortSearches
  <2>3. CallInv'
    BY <1>1, <1>2, <1>6, <2>1, <2>2 DEF CallInv
  <2>4. RatesInv' /\ ResultInv'
    BY <2>2 DEF RatesInv, ResultInv, Settled
  <2>5. UndoInv'
    <3>1. PICK f, q, T : /\ \A m \in Members : f[m].tx = IF m = trying THEN TxPerGroup(m, FALSE) ELSE info[m].tx
                         /\ q \in Sorted(Members, f) /\ Filling(T, f, Spacing[protocol], InLegacyMode, q, Len(q))
      BY <1>1 DEF ScheduleInv, UndoInv
    <3> DEFINE g == info'
               r == allNodes'
    <3>2. \A m \in Members : f[m].tx = g[m].tx
      BY <2>2, <3>1 DEF n, o
    <3>3. r \in Sorted(Members, g)
      BY <2>2
    <3> HIDE DEF g, r
    <3>4. r \in Sorted(Members, f)
      BY <3>2, <3>3, SortedSame
    <3>5. IsFiniteSet(Members) /\ Members \subseteq Nat
      BY <1>1, ScheduleAssumption DEF TypesInv, ScheduleAssumption
    <3>6. r = q
      <4>1. \A m \in Members : g[m].tx \in Nat
        BY <2>2, PowersAre DEF g
      <4>2. \A m \in Members : f[m].tx \in Nat
        BY <3>2, <4>1
      <4>3. q \in Sorted(Members, f)
        BY <3>1
      <4> QED
        BY <3>4, <3>5, <4>2, <4>3, SortedOnce
    <3>7. \A i \in 1 .. Len(q) : q[i] \in Members
      <4>1. q \in SetToSeqs(Members)
        BY <3>1 DEF Sorted
      <4> QED
        BY <3>5, <4>1, OrderIs
    <3>8. \A i \in 1 .. Len(q) : g[q[i]].tx = f[q[i]].tx
      BY <3>2, <3>7
    <3>9. Filling(T, g, Spacing[protocol], InLegacyMode, r, Len(r))
      <4>1. Filling(T, f, Spacing[protocol], InLegacyMode, q, Len(q))
        BY <3>1
      <4>2. Filling(T, g, Spacing[protocol], InLegacyMode, q, Len(q))
        BY <3>8, <4>1, FillingSame
      <4> QED
        BY <3>6, <4>2
    <3>10. T[0] = {}
      BY <3>9 DEF Filling
    <3>11. InLegacyMode' = InLegacyMode
      BY <2>2 DEF InLegacyMode
    <3>12. (\E U : Filling(U, info, Spacing[protocol], InLegacyMode, allNodes, Len(allNodes)) /\ U[Found] = slots)'
      BY <1>2, <2>2, <3>9, <3>10, <3>11 DEF g, r
    <3> QED
      BY <2>2, <3>12 DEF UndoInv
  <2> QED
    BY <2>2, <2>3, <2>4, <2>5 DEF ScheduleInv
<1>7. CASE /\ RereadsFail /\ info' = Unreachable(info, trying) /\ phase' = "failed"
           /\ UNCHANGED <<allNodes, todo, table, trying, allFound>>
  <2>1. UNCHANGED <<lists, settings, table, op, todo, adding, trying>> /\ phase \in SearchPhases \cup {"optimize"}
    BY <1>1, <1>2, <1>7 DEF lists, settings, SearchPhases
  <2> QED
    BY <1>1, <1>7, <2>1, GivesUp
<1> QED
  BY <1>3, <1>5, <1>6, <1>7

-----------------------------------------------------------------------------
(* The invariant holds *)

LEMMA ScheduleStarts == ScheduleInit => ScheduleInv
<1> SUFFICES ASSUME ScheduleInit PROVE ScheduleInv
  OBVIOUS
<1>1. /\ info = <<>> /\ pending = {} /\ allNodes = <<>> /\ eventNodes = <<>> /\ protocol = DeviceProtocol
      /\ slots = {} /\ available = 0 /\ op = "none" /\ phase = "idle" /\ todo = <<>>
      /\ adding = 0 /\ trying = 0
  BY DEF ScheduleInit
<1>2. Members = {}
  BY <1>1 DEF Members
<1>3. TypesInv
  <2>1. IsFiniteSet(Members) /\ IsFiniteSet(Members \cap EventNodes)
    BY <1>2, FS_EmptySet
  <2>2. <<>> \in SetToSeqs({})
    <3>1. {} = 1 .. 0 /\ Cardinality({}) = 0
      BY FS_EmptySet
    <3> QED
      BY <3>1 DEF SetToSeqs, IsInjective
  <2>3. demand \in [Nodes -> Nat \ {0}]
    <3>1. demand \in [Nodes -> UNION {Demands[n] : n \in Nodes}] /\ \A n \in Nodes : demand[n] \in Demands[n]
      BY DEF ScheduleInit
    <3> QED
      BY <3>1, ScheduleAssumption DEF ScheduleAssumption
  <2>4. protocol \in DOMAIN Spacing /\ available \in 0 .. MaxSlots
    BY <1>1, ScheduleAssumption, SlotAssumption DEF ScheduleAssumption, SlotAssumption
  <2>5. info \in [Members -> Rows]
    <3>1. info = [n \in Members |-> info[n]]
      BY <1>1, <1>2
    <3> QED
      BY <1>2, <3>1
  <2> QED
    BY <1>1, <1>2, <2>1, <2>2, <2>3, <2>4, <2>5 DEF TypesInv
<1>4. CallInv
  BY <1>1 DEF CallInv, Settled
<1>5. TableInv /\ RatesInv /\ UndoInv
  BY <1>1 DEF TableInv, RatesInv, UndoInv, SearchPhases
<1>6. ResultInv
  BY <1>1, <1>2 DEF ResultInv, Scheduled, Settled
<1> QED
  BY <1>3, <1>4, <1>5, <1>6 DEF ScheduleInv

LEMMA ScheduleStutters ==
  ASSUME ScheduleInv, UNCHANGED scheduleVars
  PROVE  ScheduleInv'
<1>1. /\ UNCHANGED <<info, lists, settings, table, status, call>>
      /\ UNCHANGED <<pending, allNodes, eventNodes, demand, lossless, protocol, slots, available,
                     networkOk, op, phase, todo, adding, trying, allFound>>
  BY DEF scheduleVars, lists, settings, table, status, call, locals
<1>2. Members' = Members /\ InLegacyMode' = InLegacyMode
  BY <1>1 DEF Members, InLegacyMode
<1>3. TypesInv'
  BY <1>1, <1>2 DEF ScheduleInv, TypesInv
<1>4. CallInv'
  BY <1>1, <1>2 DEF ScheduleInv, CallInv
<1>5. TableInv'
  <2>1. /\ Order' = Order /\ Found' = Found /\ Searched' = Searched
        /\ Sorted(Searched, info)' = Sorted(Searched, info)
    BY <1>1, <1>2 DEF Order, Found, Searched, Sorted, Before
  <2>2. Network' = Network
    BY <1>1, <1>2, <2>1 DEF Network, Search, MaxTdmaAddress
  <2>3. Placements' = Placements /\ Fits' = Fits
    BY <1>1, <2>1 DEF Placements, Fits
  <2>4. UNCHANGED Table!vars
    BY <1>1, <1>2, <2>2, <2>3 DEF Table!vars
  <2>5. Table!SearchInv /\ Table!CountInv => Table!SearchInv' /\ Table!CountInv'
    BY <2>4, TableAssumptions, Table!SearchKept, Table!CountKept
  <2> QED
    BY <1>1, <1>2, <2>1, <2>5 DEF ScheduleInv, TableInv
<1>6. \A n : TxPerGroup(n, FALSE)' = TxPerGroup(n, FALSE)
  BY <1>1, RatesStay
<1>7. RatesInv'
  BY <1>1, <1>2, <1>6 DEF ScheduleInv, RatesInv, InTodo
<1>8. ResultInv'
  BY <1>1, <1>2, SameSchedule DEF ScheduleInv, ResultInv, AllOk, Settled
<1>9. UndoInv'
  <2>1. Found' = Found
    BY <1>1, <1>2 DEF Found, Order, Sorted, Before
  <2> QED
    BY <1>1, <1>2, <1>6, <2>1 DEF ScheduleInv, UndoInv
<1> QED
  BY <1>3, <1>4, <1>5, <1>7, <1>8, <1>9 DEF ScheduleInv

LEMMA ScheduleKept ==
  ASSUME ScheduleInv, [ScheduleNext]_scheduleVars
  PROVE  ScheduleInv'
<1>1. ASSUME NEW n \in Nodes, NEW p \in BOOLEAN, AddNode(n, p)
      PROVE  ScheduleInv'
  BY <1>1, AddNodeKeeps
<1>2. ASSUME NEW n \in Nodes, NEW d \in Demands[n], Reconfigure(n, d)
      PROVE  ScheduleInv'
  BY <1>2, ReconfigureKeeps
<1>3. ASSUME \/ \E n \in Nodes : AddRejected(n) \/ RemoveNode(n)
             \/ Refresh \/ SetLossless \/ \E p \in DOMAIN Spacing : SetCommunicationProtocol(p)
      PROVE  ScheduleInv'
  BY <1>3, CallsKeep
<1>4. ASSUME RefreshStep
      PROVE  ScheduleInv'
  BY <1>4, CalculateNodeKeeps, SlotsForOthersKeeps, RereadFailsKeeps, FindSlotKeeps, SlotsForAllKeeps, SlotsFoundKeeps,
     OptimizeKeeps, OptimizedKeeps, OptimizationDoneKeeps, ThrowKeeps DEF RefreshStep
<1>5. CASE UNCHANGED scheduleVars
  BY <1>5, ScheduleStutters
<1> QED
  BY <1>1, <1>2, <1>3, <1>4, <1>5 DEF ScheduleNext

LEMMA ScheduleHolds == ScheduleSpec => []ScheduleInv
<1>1. ScheduleInit => ScheduleInv
  BY ScheduleStarts
<1>2. ScheduleInv /\ [ScheduleNext]_scheduleVars => ScheduleInv'
  BY ScheduleKept
<1> QED
  BY <1>1, <1>2, PTL DEF ScheduleSpec

-----------------------------------------------------------------------------
(* The schedule: theorems *)

\* Each Node of the network is once in m_allNodes and, if it is in event driven
\* mode, once in m_eventNodes, whichever call of the network threw.
THEOREM ScheduleTypes == ScheduleSpec => []ScheduleTypeOK
<1>1. ASSUME ScheduleInv PROVE ScheduleTypeOK
  <2>1. TypesInv /\ CallInv
    BY <1>1 DEF ScheduleInv
  <2>2. /\ Members \subseteq Nodes /\ pending \subseteq Members /\ IsFiniteSet(Members)
        /\ info \in [Members -> Rows] /\ allNodes \in SetToSeqs(Members)
        /\ eventNodes \in SetToSeqs(Members \cap EventNodes)
        /\ slots \subseteq 0 .. MaxSlots - 1 /\ available \in 0 .. MaxSlots
        /\ todo \in Seq(Members) /\ trying \in Members \cup {0}
    BY <2>1 DEF TypesInv
  <2>3. ToSet(allNodes) = Members /\ Len(allNodes) = Cardinality(Members)
    BY <2>2, OrderIs
  <2>4. ToSet(eventNodes) = Members \cap EventNodes
    BY <2>1, EventNodesAre
  <2>5. IsInjective(eventNodes)
    <3> DEFINE D == Members \cap EventNodes
               q == eventNodes
    <3>1. q \in SetToSeqs(D) /\ IsFiniteSet(D)
      BY <2>1, EventNodesAre
    <3> HIDE DEF D, q
    <3>2. DOMAIN q = 1 .. Len(q) /\ \A i, j \in 1 .. Len(q) : q[i] = q[j] => i = j
      BY <3>1, OrderIs
    <3> QED
      BY <3>2 DEF IsInjective, q
  <2>6. \A n \in Members :
          /\ info[n].tx \in Nat /\ info[n].tdma \in 0 .. MaxSlots
          /\ info[n].status \in {"OK", "DoesNotFit", "PoorCommunication"}
    BY <2>2 DEF Rows
  <2>7. ToSet(todo) \subseteq Members
    BY <2>2 DEF ToSet
  <2>8. adding \in Members \cup {0}
    BY <2>1 DEF CallInv
  <2> QED
    BY <2>2, <2>3, <2>4, <2>5, <2>6, <2>7, <2>8 DEF ScheduleTypeOK
<1> QED
  BY <1>1, ScheduleHolds, PTL

\* ok() returns m_networkOk: between two calls the Nodes of a network that is OK
\* have all their slots, and no two the same, if a setting that was read once
\* need not be read again.
THEOREM OkIsFree ==
  ASSUME RereadsFail = FALSE
  PROVE  ScheduleSpec => []OkMeansNoCollision
<1>1. ASSUME ScheduleInv PROVE OkMeansNoCollision
  BY <1>1 DEF ScheduleInv, CallInv, ResultInv, Scheduled, OkMeansNoCollision, Idle, Settled
<1> QED
  BY <1>1, ScheduleHolds, PTL

\* While a call is running the phases follow each other; from the search for the
\* others only divvyUpRemainingBandwidth leads to the search for all.
LEMMA SharesBegin ==
  ASSUME ScheduleNext, phase = "others", phase' = "all"
  PROVE  SlotsForAll
<1>1. ASSUME NEW n \in Nodes
      PROVE  /\ \A p \in BOOLEAN : ~AddNode(n, p)
             /\ ~AddRejected(n) /\ ~RemoveNode(n) /\ \A d \in Demands[n] : ~Reconfigure(n, d)
  BY DEF AddNode, AddRejected, RemoveNode, Without, Refreshing, Reconfigure, call
<1>2. ~Refresh /\ ~SetLossless /\ \A p \in DOMAIN Spacing : ~SetCommunicationProtocol(p)
  BY DEF Refresh, SetLossless, SetCommunicationProtocol, Refreshing
<1>3. RefreshStep
  BY <1>1, <1>2 DEF ScheduleNext
<1>4. ~CalculateNode /\ ~SlotsForOthers /\ ~RereadFails
  BY DEF CalculateNode, SlotsForOthers, RereadFails
<1>5. ~FindSlot
  BY DEF FindSlot
<1>6. ~SlotsFound /\ ~Optimize /\ ~Optimized /\ ~OptimizationDone /\ ~Throw
  BY DEF SlotsFound, Optimize, Optimized, OptimizationDone, Throw
<1> QED
  BY <1>3, <1>4, <1>5, <1>6 DEF RefreshStep

\* A set has one sum, and it depends on the rates only.
LEMMA SumOnce ==
  ASSUME NEW D, IsFiniteSet(D), NEW f, NEW g, Sums(g, f, D), NEW k, Sums(k, f, D)
  PROVE  g[D] = k[D]
<1> DEFINE G == {s \in SUBSET D : g[s] = k[s]}
<1>1. {} \in G
  BY SumsAre
<1>2. ASSUME NEW s \in SUBSET D, s # {}, s \ {CHOOSE x \in s : TRUE} \in G
      PROVE  s \in G
  <2>1. \A r \in SUBSET D : r # {} => g[r] = f[CHOOSE x \in r : TRUE] + g[r \ {CHOOSE x \in r : TRUE}]
    BY SumsAre
  <2>2. \A r \in SUBSET D : r # {} => k[r] = f[CHOOSE x \in r : TRUE] + k[r \ {CHOOSE x \in r : TRUE}]
    BY SumsAre
  <2> QED
    BY <1>2, <2>1, <2>2
<1> HIDE DEF G
<1>3. SUBSET D \subseteq G
  BY <1>1, <1>2, EverySubset
<1>4. D \in G
  BY <1>3
<1> QED
  BY <1>4 DEF G

\* g adds the rates of the entries of f up over every subset of D.
SumsRates(g, f, D) ==
  g = [s \in SUBSET D |-> IF s = {} THEN 0
                          ELSE f[CHOOSE x \in s : TRUE].tx + g[s \ {CHOOSE x \in s : TRUE}]]
TotalOf(f, D) == (CHOOSE g : SumsRates(g, f, D))[D]

LEMMA SameTotal ==
  ASSUME NEW D, IsFiniteSet(D), NEW tx \in [D -> Powers], NEW f, \A n \in D : f[n].tx = tx[n]
  PROVE  TotalOf(f, D) = TotalTx(tx)
<1> DEFINE P(g) == SumsRates(g, f, D)
           h == CHOOSE g : P(g)
<1>1. ASSUME NEW g
      PROVE  P(g) <=> Sums(g, tx, D)
  <2>1. \A s \in SUBSET D : s # {} => f[CHOOSE x \in s : TRUE].tx = tx[CHOOSE x \in s : TRUE]
    OBVIOUS
  <2>2. \A s \in SUBSET D : (IF s = {} THEN 0 ELSE f[CHOOSE x \in s : TRUE].tx + g[s \ {CHOOSE x \in s : TRUE}])
                           = (IF s = {} THEN 0 ELSE tx[CHOOSE x \in s : TRUE] + g[s \ {CHOOSE x \in s : TRUE}])
    BY <2>1
  <2> QED
    BY <2>2 DEF Sums, SumsRates
<1>2. TotalOf(f, D) = h[D]
  BY DEF TotalOf
<1>3. Sums(h, tx, D)
  <2>1. \E g : Sums(g, tx, D)
    BY SumExists
  <2> HIDE DEF P
  <2>2. \E g : P(g)
    BY <1>1, <2>1
  <2>3. P(h)
    BY <2>2
  <2> QED
    BY <1>1, <2>3
<1>4. PICK k : Sums(k, tx, D) /\ TotalTx(tx) = k[D]
  BY TotalIs
<1> HIDE DEF h
<1>5. h[D] = k[D]
  BY <1>3, <1>4, SumOnce
<1> QED
  BY <1>2, <1>4, <1>5

LEMMA SharesStep ==
  ASSUME ScheduleInv, ScheduleNext, phase = "others", phase' = "all", Len(eventNodes) <= LargeSlots
  PROVE  MapThenSumSet(LAMBDA n : info'[n].tx, ToSet(eventNodes)) <= LargeSlots
<1> DEFINE D == Members \cap EventNodes
           tx == DivvyUp
           f == info'
<1>1. SlotsForAll
  BY SharesBegin
<1>2. TypesInv /\ \A n \in Members : info[n].tx \in Powers
  BY DEF ScheduleInv, RatesInv, SearchPhases
<1>3. /\ tx \in [D -> Powers] /\ TotalTx(tx) <= LargeSlots
  BY <1>2, DivvyUpHere
<1>4. f = [n \in Members |-> IF n \in DOMAIN tx THEN [info[n] EXCEPT !.tx = tx[n]] ELSE info[n]]
  BY <1>1 DEF SlotsForAll
<1>5. ToSet(eventNodes) = D /\ IsFiniteSet(D)
  BY <1>2, EventNodesAre
<1> HIDE DEF tx, f
<1>6. \A n \in D : f[n].tx = tx[n]
  BY <1>2, <1>3, <1>4, SharedRates
<1> HIDE DEF D
<1>7. TotalOf(f, D) = TotalTx(tx)
  BY <1>3, <1>5, <1>6, SameTotal
<1>8. MapThenSumSet(LAMBDA n : f[n].tx, ToSet(eventNodes)) = TotalOf(f, ToSet(eventNodes))
  BY DEF MapThenSumSet, MapThenFoldSet, TotalOf, SumsRates
<1>9. TotalOf(f, ToSet(eventNodes)) <= LargeSlots
  BY <1>3, <1>5, <1>7
<1> QED
  BY <1>8, <1>9 DEF f

\* divvyUpRemainingBandwidth: the event driven Nodes get no more than the others
\* have left, if there is at least a transmission a second for each of them.
THEOREM EventNodesShare == ScheduleSpec => EventNodesShareTheRest
<1>1. ASSUME ScheduleInv, [ScheduleNext]_scheduleVars
      PROVE  [phase = "others" /\ phase' = "all" /\ Len(eventNodes) <= LargeSlots
                => MapThenSumSet(LAMBDA n : info'[n].tx, ToSet(eventNodes)) <= LargeSlots]_scheduleVars
  BY <1>1, SharesStep
<1> QED
  BY <1>1, ScheduleHolds, PTL DEF ScheduleSpec, EventNodesShareTheRest

\* The old values are those of a table that was full: every Node has a slot again.
LEMMA UndoneStep ==
  ASSUME ScheduleInv, ScheduleNext, phase = "restore", todo = <<>>
  PROVE  networkOk'
<1>1. TypesInv /\ CallInv /\ TableInv /\ allFound
  BY DEF ScheduleInv, UndoInv
<1>2. op # "none"
  BY <1>1 DEF CallInv
<1>3. OptimizationDone
  <2>1. RefreshStep
    BY <1>2 DEF ScheduleNext, AddNode, AddRejected, RemoveNode, Reconfigure, Refresh, SetLossless,
                SetCommunicationProtocol, Idle
  <2>2. ~CalculateNode /\ ~SlotsForOthers /\ ~RereadFails /\ ~FindSlot /\ ~SlotsForAll
    BY DEF CalculateNode, SlotsForOthers, RereadFails, FindSlot, SlotsForAll
  <2>3. ~SlotsFound /\ ~Optimize /\ ~Optimized /\ ~Throw
    BY DEF SlotsFound, Optimize, Optimized, Throw
  <2> QED
    BY <2>1, <2>2, <2>3 DEF RefreshStep
<1>4. AllOk
  BY <1>1, SearchEnds
<1> QED
  BY <1>3, <1>4 DEF OptimizationDone

\* When optimization has failed for a Node, going back to its old values finds
\* all the slots again: the network is still OK.
THEOREM OptimizationUndone == ScheduleSpec => OptimizationIsUndone
<1>1. ASSUME ScheduleInv, [ScheduleNext]_scheduleVars
      PROVE  [phase = "restore" /\ todo = <<>> => networkOk']_scheduleVars
  BY <1>1, UndoneStep
<1> QED
  BY <1>1, ScheduleHolds, PTL DEF ScheduleSpec, OptimizationIsUndone

\* A refresh that gets this far with an OK network has found every Node slots of
\* its own.
LEMMA ReturnsFreeStep ==
  ASSUME ScheduleInv, SlotsFound \/ OptimizationDone, networkOk'
  PROVE  Scheduled'
<1>1. TypesInv /\ TableInv /\ networkOk' = AllOk /\ UNCHANGED <<lists, settings, table>>
  BY DEF ScheduleInv, SlotsFound, OptimizationDone
<1>2. Scheduled
  <2>1. CASE phase = "optimize"
    BY <2>1 DEF ScheduleInv, ResultInv
  <2>2. CASE phase \in {"all", "restore"} /\ todo = <<>>
    BY <1>1, <2>2, SearchEnds
  <2> QED
    BY <2>1, <2>2 DEF SlotsFound, OptimizationDone
<1>3. /\ Members' = Members
      /\ \A n \in Members : info'[n].tx = info[n].tx /\ info'[n].tdma = info[n].tdma /\ info'[n].status = info[n].status
  <2> DEFINE g == info'
  <2>1. g = info \/ g = Unmarked(info, Members)
    BY DEF SlotsFound, OptimizationDone, Unmarked
  <2>2. info \in [Members -> Rows]
    BY <1>1 DEF TypesInv
  <2> HIDE DEF g
  <2>3. CASE g = info
    BY <2>3 DEF g, Members
  <2>4. CASE g = Unmarked(info, Members)
    <3>1. /\ g \in [Members -> Rows]
          /\ \A n \in Members : g[n].tx = info[n].tx /\ g[n].tdma = info[n].tdma /\ g[n].status = info[n].status
      BY <2>2, <2>4, UnmarkedRows
    <3>2. DOMAIN g = Members
      BY <3>1
    <3> QED
      BY <3>1, <3>2 DEF g, Members
  <2> QED
    BY <2>1, <2>3, <2>4
<1>4. protocol' = protocol
  BY <1>1 DEF settings
<1> QED
  BY <1>2, <1>3, <1>4, SameSchedule

\* Whatever has to be read again: when refresh returns, and does not throw, a
\* network that it found OK is free of collisions.
THEOREM RefreshReturnsFree ==
  ScheduleSpec => [][(SlotsFound \/ OptimizationDone) /\ networkOk' => Scheduled']_scheduleVars
<1>1. ASSUME ScheduleInv, [ScheduleNext]_scheduleVars
      PROVE  [(SlotsFound \/ OptimizationDone) /\ networkOk' => Scheduled']_scheduleVars
  BY <1>1, ReturnsFreeStep
<1> QED
  BY <1>1, ScheduleHolds, PTL DEF ScheduleSpec

-----------------------------------------------------------------------------
(* The schedule while the network is configured and started *)

\* Writing and starting the Nodes changes nothing the schedule depends on.
LEMMA SettledKeeps ==
  ASSUME ScheduleInv, phase \in Settled, phase' \in Settled, info' \in [Members -> Rows],
         \A n \in Members : /\ info'[n].tx = info[n].tx /\ info'[n].tdma = info[n].tdma
                            /\ info'[n].status = info[n].status,
         UNCHANGED <<lists, settings, table, networkOk>>,
         op' = "none" <=> phase' = "idle", UNCHANGED <<op, adding>> \/ (op' # "add" /\ adding' = 0),
         todo' \in Seq(Members), trying' \in {trying, 0}
  PROVE  ScheduleInv'
<1>1. /\ UNCHANGED <<pending, allNodes, eventNodes, demand, lossless, protocol, slots, available>>
      /\ Members' = Members
  BY DEF lists, settings, table, Members
<1>2. TypesInv'
  BY <1>1 DEF ScheduleInv, TypesInv
<1>3. phase' \notin SearchPhases \cup {"calculate", "optimize", "failed"}
  BY DEF Settled, SearchPhases
<1>4. CallInv'
  BY <1>1, <1>3 DEF ScheduleInv, CallInv, SearchPhases
<1>5. TableInv' /\ RatesInv' /\ UndoInv'
  BY <1>3 DEF TableInv, RatesInv, UndoInv, SearchPhases
<1>6. ResultInv'
  BY <1>1, <1>3, SameSchedule DEF ScheduleInv, ResultInv
<1> QED
  BY <1>2, <1>4, <1>5, <1>6 DEF ScheduleInv

LEMMA SomeNodes ==
  ASSUME ScheduleInv, NEW S
  PROVE  Among(allNodes, S) \in Seq(Members)
<1> DEFINE q == Among(allNodes, S)
           D == Members \cap S
<1>1. allNodes \in SetToSeqs(Members) /\ IsFiniteSet(Members)
  BY DEF ScheduleInv, TypesInv
<1>2. q \in SetToSeqs(D) /\ IsFiniteSet(D)
  BY <1>1, OrderAmong, FS_Subset
<1> HIDE DEF q, D
<1>3. q \in Seq(D)
  BY <1>2, OrderIs
<1>4. D \subseteq Members
  BY DEF D
<1> QED
  BY <1>3, <1>4 DEF q

\* An entry whose flags are set.
Written(f, h) == [f EXCEPT ![h].applied = TRUE]
Started(f, h) == [f EXCEPT ![h].started = TRUE]

LEMMA FlaggedRows ==
  ASSUME NEW S, NEW f \in [S -> Rows], NEW h \in S, NEW g, g = Written(f, h) \/ g = Started(f, h)
  PROVE  /\ g \in [S -> Rows]
         /\ \A n \in S : g[n].tx = f[n].tx /\ g[n].tdma = f[n].tdma /\ g[n].status = f[n].status
<1>1. PICK r \in Rows : /\ g = [f EXCEPT ![h] = r]
                        /\ r.tx = f[h].tx /\ r.tdma = f[h].tdma /\ r.status = f[h].status
  <2>1. CASE g = Written(f, h)
    <3> DEFINE r == [f[h] EXCEPT !.applied = TRUE]
    <3>1. g = [f EXCEPT ![h] = r]
      BY <2>1 DEF Written
    <3>2. r \in Rows /\ r.tx = f[h].tx /\ r.tdma = f[h].tdma /\ r.status = f[h].status
      BY DEF Rows
    <3> HIDE DEF r
    <3> QED
      BY <3>1, <3>2
  <2>2. CASE g = Started(f, h)
    <3> DEFINE r == [f[h] EXCEPT !.started = TRUE]
    <3>1. g = [f EXCEPT ![h] = r]
      BY <2>2 DEF Started
    <3>2. r \in Rows /\ r.tx = f[h].tx /\ r.tdma = f[h].tdma /\ r.status = f[h].status
      BY DEF Rows
    <3> HIDE DEF r
    <3> QED
      BY <3>1, <3>2
  <2> QED
    BY <2>1, <2>2
<1>2. g \in [S -> Rows] /\ g[h] = r /\ \A n \in S : n # h => g[n] = f[n]
  BY <1>1
<1> QED
  BY <1>1, <1>2

LEMMA DevicesKeep ==
  ASSUME ScheduleInv,
         \/ ApplyConfiguration \/ \E o \in {"start", "startNoBeacon"} : StartSampling(o)
         \/ \E n \in Nodes : SetToIdle(n)
         \/ ApplyStep \/ StartStep
  PROVE  ScheduleInv'
<1>1. /\ info \in [Members -> Rows] /\ todo \in Seq(Members) /\ <<>> \in Seq(Members)
      /\ Unapplied \in Seq(Members) /\ NotStarted \in Seq(Members)
      /\ op = "none" <=> phase = "idle"
      /\ adding # 0 => op = "add"
  BY SomeNodes DEF ScheduleInv, TypesInv, CallInv, Unapplied, NotStarted
<1>2. ASSUME todo # <<>> PROVE Head(todo) \in Members /\ Tail(todo) \in Seq(Members)
  BY <1>1, <1>2
<1>3. CASE ApplyConfiguration
  BY <1>1, <1>3, SettledKeeps DEF ApplyConfiguration, Idle, Settled, status, locals
<1>4. CASE \E o \in {"start", "startNoBeacon"} : StartSampling(o)
  BY <1>1, <1>4, SettledKeeps DEF StartSampling, Idle, Settled, status, locals
<1>5. CASE \E n \in Nodes : SetToIdle(n)
  BY <1>5, ScheduleStutters DEF SetToIdle
<1>6. CASE WriteNode
  <2> DEFINE h == Head(todo)
             g == info'
  <2>1. /\ phase = "write" /\ h \in Members /\ Tail(todo) \in Seq(Members)
        /\ UNCHANGED <<lists, settings, table, networkOk>>
        /\ \/ g = Written(info, h) /\ todo' = Tail(todo) /\ UNCHANGED <<op, phase, locals>>
           \/ Return /\ g = info
    BY <1>2, <1>6 DEF WriteNode, status, Written
  <2> HIDE DEF g, h
  <2>2. CASE g = Written(info, h) /\ todo' = Tail(todo) /\ UNCHANGED <<op, phase, locals>>
    <3>1. /\ g \in [Members -> Rows]
          /\ \A n \in Members : g[n].tx = info[n].tx /\ g[n].tdma = info[n].tdma /\ g[n].status = info[n].status
      BY <1>1, <2>1, <2>2, FlaggedRows
    <3>2. UNCHANGED <<adding, trying>>
      BY <2>2 DEF locals
    <3> QED
      BY <1>1, <2>1, <2>2, <3>1, <3>2, SettledKeeps DEF g, Settled
  <2>3. CASE Return /\ g = info
    BY <1>1, <2>1, <2>3, SettledKeeps DEF g, Return, Settled
  <2> QED
    BY <2>1, <2>2, <2>3
<1>7. CASE Applied
  BY <1>1, <1>7, SettledKeeps DEF Applied, Return, Settled
<1>8. CASE DisableBeacon
  BY <1>1, <1>8, SettledKeeps DEF DisableBeacon, Return, Settled, status, locals
<1>9. CASE SendStart
  <2> DEFINE h == Head(todo)
             g == info'
  <2>1. /\ phase = "send" /\ h \in Members /\ todo' \in Seq(Members)
        /\ UNCHANGED <<lists, settings, table, networkOk, op, phase, adding, trying>>
        /\ g = Started(info, h) \/ g = info
    BY <1>2, <1>9 DEF SendStart, status, Started
  <2> HIDE DEF g, h
  <2>2. /\ g \in [Members -> Rows]
        /\ \A n \in Members : g[n].tx = info[n].tx /\ g[n].tdma = info[n].tdma /\ g[n].status = info[n].status
    <3>1. CASE g = Started(info, h)
      BY <1>1, <2>1, <3>1, FlaggedRows
    <3>2. CASE g = info
      BY <1>1, <3>2
    <3> QED
      BY <2>1, <3>1, <3>2
  <2> QED
    BY <1>1, <2>1, <2>2, SettledKeeps DEF g, Settled
<1>10. CASE SendThrows
  BY <1>1, <1>10, SettledKeeps DEF SendThrows, Return, Settled, status
<1>11. CASE NextAttempt
  BY <1>1, <1>11, SettledKeeps DEF NextAttempt, Settled, status
<1>12. CASE Sent
  BY <1>1, <1>12, SettledKeeps DEF Sent, Return, Settled, status, locals
<1>13. CASE EnableBeacon
  BY <1>1, <1>13, SettledKeeps DEF EnableBeacon, Return, Settled, status
<1> QED
  BY <1>3, <1>4, <1>5, <1>6, <1>7, <1>8, <1>9, <1>10, <1>11, <1>12, <1>13 DEF ApplyStep, StartStep

LEMMA NetworkHolds == Spec => []ScheduleInv
<1>1. Init => ScheduleInv
  BY ScheduleStarts DEF Init
<1>2. ScheduleInv /\ [Next]_vars => ScheduleInv'
  <2> SUFFICES ASSUME ScheduleInv, [Next]_vars PROVE ScheduleInv'
    OBVIOUS
  <2>1. CASE ScheduleNext /\ UNCHANGED devices
    BY <2>1, ScheduleKept
  <2>2. CASE \/ ApplyConfiguration \/ \E o \in {"start", "startNoBeacon"} : StartSampling(o)
             \/ \E n \in Nodes : SetToIdle(n)
             \/ ApplyStep \/ StartStep
    BY <2>2, DevicesKeep
  <2>3. CASE UNCHANGED vars
    BY <2>3, ScheduleStutters DEF vars
  <2> QED
    BY <2>1, <2>2, <2>3 DEF Next
<1> QED
  BY <1>1, <1>2, PTL DEF Spec

\* ok() keeps its promise while Nodes are written, started and set to idle, too.
THEOREM NetworkOkIsFree ==
  ASSUME RereadsFail = FALSE
  PROVE  Spec => []OkMeansNoCollision
<1>1. ASSUME ScheduleInv PROVE OkMeansNoCollision
  BY <1>1 DEF ScheduleInv, CallInv, ResultInv, OkMeansNoCollision, Idle, Settled
<1> QED
  BY <1>1, NetworkHolds, PTL

\* A network startSampling is willing to start (m_configApplied): what was
\* written to its Nodes gives each of them its slots, and no two the same.
THEOREM AppliedIsFree ==
  ASSUME RereadsFail = FALSE
  PROVE  Spec => [](configApplied => Scheduled /\ \A n \in Members : device[n] = Computed(n))
<1>1. ASSUME Inv, ScheduleInv
      PROVE  configApplied => Scheduled /\ \A n \in Members : device[n] = Computed(n)
  BY <1>1 DEF Inv, FlagsInv, ScheduleInv, ResultInv
<1>2. Spec => []Inv
  BY InitInv, InvKept, PTL DEF Spec
<1> QED
  BY <1>1, <1>2, NetworkHolds, PTL
=============================================================================
