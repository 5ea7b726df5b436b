----------------------- MODULE CommandExchangeProofs -----------------------
(***************************************************************************)
(* For any number of callers, commands, calls and packets: the patterns in *)
(* the collector are alive, no notification is missed, a packet is taken   *)
(* once, and the positions, which two threads correct, hide no reply and   *)
(* let an old one pass by the bytes of one shift at most.                  *)
(***************************************************************************)
EXTENDS CommandExchange, FiniteSetTheorems, SequenceTheorems, WellFoundedInduction, TLAPS

\* A sequence with an element more.
LEMMA AppendOne ==
  ASSUME NEW S, NEW s \in Seq(S), NEW e \in S
  PROVE  /\ DOMAIN s = 1 .. Len(s) /\ DOMAIN Append(s, e) = 1 .. Len(s) + 1
         /\ \A i \in 1 .. Len(s) : Append(s, e)[i] = s[i]
         /\ Append(s, e)[Len(s) + 1] = e
<1>1. /\ Append(s, e) \in Seq(S) /\ Len(Append(s, e)) = Len(s) + 1
      /\ \A i \in 1 .. Len(s) : Append(s, e)[i] = s[i]
      /\ Append(s, e)[Len(s) + 1] = e
  BY AppendProperties
<1>2. \A r \in Seq(S) : DOMAIN r = 1 .. Len(r)
  OBVIOUS
<1>3. QED
  BY <1>1, <1>2

\* What is left of a sequence when one element is taken out.
LEMMA RemoveAtProps ==
  ASSUME NEW S, NEW s \in Seq(S), NEW i \in 1 .. Len(s)
  PROVE  /\ RemoveAt(s, i) \in Seq(S)
         /\ Len(RemoveAt(s, i)) = Len(s) - 1
         /\ \A j \in 1 .. Len(s) - 1 :
              RemoveAt(s, i)[j] = IF j < i THEN s[j] ELSE s[j + 1]
<1> DEFINE a == SubSeq(s, 1, i - 1)
           b == SubSeq(s, i + 1, Len(s))
<1>1. /\ a \in Seq(S) /\ Len(a) = i - 1
      /\ \A j \in 1 .. i - 1 : a[j] = s[j]
  BY SubSeqProperties
<1>2. /\ b \in Seq(S) /\ Len(b) = Len(s) - i
      /\ \A j \in 1 .. Len(s) - i : b[j] = s[i + j]
  BY SubSeqProperties
<1>3. RemoveAt(s, i) = a \o b
  BY DEF RemoveAt
<1> HIDE DEF a, b
<1>4. /\ a \o b \in Seq(S) /\ Len(a \o b) = Len(a) + Len(b)
      /\ \A j \in 1 .. Len(a) + Len(b) :
           (a \o b)[j] = IF j <= Len(a) THEN a[j] ELSE b[j - Len(a)]
  <2>1. a \in Seq(S) /\ b \in Seq(S)
    BY <1>1, <1>2
  <2>2. QED
    BY <2>1, ConcatProperties, Zenon
<1> DEFINE c == a \o b
<1>5. /\ c \in Seq(S) /\ Len(c) = Len(s) - 1
      /\ \A j \in 1 .. Len(s) - 1 : c[j] = IF j <= i - 1 THEN a[j] ELSE b[j - (i - 1)]
  <2>1. Len(a) = i - 1 /\ Len(a) + Len(b) = Len(s) - 1
    BY <1>1, <1>2
  <2>2. QED
    BY <2>1, <1>4
<1> HIDE DEF c
<1>6. ASSUME NEW j \in 1 .. Len(s) - 1
      PROVE  c[j] = IF j < i THEN s[j] ELSE s[j + 1]
  <2>1. CASE j < i
    <3>1. j <= i - 1 /\ j \in 1 .. i - 1
      BY <2>1
    <3>2. c[j] = a[j]
      BY <3>1, <1>5
    <3>3. a[j] = s[j]
      BY <3>1, <1>1
    <3>4. QED
      BY <3>2, <3>3, <2>1
  <2>2. CASE j >= i
    <3>1. c[j] = b[j - (i - 1)]
      BY <2>2, <1>5
    <3>2. j - (i - 1) \in 1 .. Len(s) - i /\ i + (j - (i - 1)) = j + 1
      BY <2>2
    <3>3. b[j - (i - 1)] = s[j + 1]
      BY <3>2, <1>2
    <3>4. QED
      BY <3>1, <3>3, <2>2
  <2>3. QED
    BY <2>1, <2>2
<1>7. c = RemoveAt(s, i)
  BY <1>3 DEF c
<1>8. QED
  BY <1>7, <1>5, <1>6

\* In a sequence without repetitions, the element taken out is gone and no
\* repetition appears.
LEMMA RemoveAtDistinct ==
  ASSUME NEW S, NEW s \in Seq(S), NEW i \in DOMAIN s, NEW t, t = RemoveAt(s, i)
  PROVE  /\ t \in Seq(S)
         /\ \A j \in DOMAIN t : \E k \in DOMAIN s : t[j] = s[k]
         /\ (\A j, k \in DOMAIN s : s[j] = s[k] => j = k)
              => /\ \A j \in DOMAIN t : t[j] # s[i]
                 /\ \A j, k \in DOMAIN t : t[j] = t[k] => j = k
<1>1. i \in 1 .. Len(s) /\ DOMAIN s = 1 .. Len(s)
  OBVIOUS
<1>2. /\ t \in Seq(S) /\ DOMAIN t = 1 .. Len(s) - 1
      /\ \A j \in 1 .. Len(s) - 1 : t[j] = IF j < i THEN s[j] ELSE s[j + 1]
  BY <1>1, RemoveAtProps
<1> DEFINE From(j) == IF j < i THEN j ELSE j + 1
<1>3. \A j \in DOMAIN t : From(j) \in DOMAIN s /\ From(j) # i /\ t[j] = s[From(j)]
  BY <1>1, <1>2
<1>4. \A j, k \in DOMAIN t : From(j) = From(k) => j = k
  BY <1>2
<1> HIDE DEF From
<1>5. QED
  BY <1>1, <1>2, <1>3, <1>4

-----------------------------------------------------------------------------
\* What a read leaves in the buffer and on the wire are still bytes.
LEMMA SplitSeq ==
  ASSUME NEW S, NEW s \in Seq(S), NEW t \in Seq(S), NEW n \in 0 .. Len(s)
  PROVE  /\ t \o SubSeq(s, 1, n) \in Seq(S)
         /\ SubSeq(s, n + 1, Len(s)) \in Seq(S)
         /\ Len(t \o SubSeq(s, 1, n)) = Len(t) + n
         /\ Len(SubSeq(s, n + 1, Len(s))) = Len(s) - n
<1>1. /\ SubSeq(s, 1, n) \in Seq(S) /\ Len(SubSeq(s, 1, n)) = n
      /\ SubSeq(s, n + 1, Len(s)) \in Seq(S)
      /\ Len(SubSeq(s, n + 1, Len(s))) = Len(s) - n
  BY SubSeqProperties
<1>2. QED
  BY <1>1, ConcatProperties

\* The packet at the read position is one the device sent.
LEMMA HereIsAByte ==
  ASSUME TypeOK, readPos < Len(buffer)
  PROVE  Here \in Byte /\ Here.id \in DOMAIN packets /\ DOMAIN taken = DOMAIN packets
<1>1. buffer \in Seq(Byte) /\ readPos + 1 \in 1 .. Len(buffer)
  BY DEF TypeOK
<1>2. Here \in Byte
  BY <1>1 DEF Here
<1>3. Here.id \in 1 .. Len(packets)
  BY <1>2 DEF Byte
<1>4. DOMAIN packets = 1 .. Len(packets) /\ DOMAIN taken = 1 .. Len(taken) /\ Len(taken) = Len(packets)
  BY DEF TypeOK
<1>5. QED
  BY <1>2, <1>3, <1>4

\* First picks one of them.
LEMMA FirstIsOne ==
  ASSUME TypeOK, NEW S, S \subseteq DOMAIN expected, S # {}
  PROVE  First(S) \in S
<1>1. S \subseteq Nat
  <2>1. expected \in Seq(Callers)
    BY DEF TypeOK
  <2>2. DOMAIN expected = 1 .. Len(expected)
    BY <2>1
  <2>3. QED
    BY <2>2
<1>2. PICK i \in S : \A j \in S : <<j, i>> \notin OpToRel(<, Nat)
  BY <1>1, NatLessThanWellFounded, WFMin
<1>3. \A j \in S : ~ (j < i)
  BY <1>1, <1>2 DEF OpToRel
<1>4. \E k \in S : \A j \in S : k <= j
  BY <1>1, <1>3
<1>5. QED
  BY <1>4, Zenon DEF First

\* What OfferPacket does to the collector and the patterns: nothing, or the
\* first of the takers matches, and leaves the collector if it is complete.
LEMMA OfferPacketEffect ==
  ASSUME TypeOK, readPos < Len(buffer), OfferPacket
  PROVE  \/ UNCHANGED <<expected, baseReceived, fullyMatched, success, notified, taken>>
         \/ \E i \in DOMAIN expected : /\ Answers(packets[Here.id], expected[i])
                                       /\ Match(Here.id, i)
<1> DEFINE S == Takers(packets[Here.id], readPos)
<1>1. CASE S = {}
  BY <1>1 DEF OfferPacket
<1>2. CASE S # {}
  <2>1. Match(Here.id, First(S))
    BY <1>2 DEF OfferPacket
  <2>2. S \subseteq DOMAIN expected /\ \A i \in S : Answers(packets[Here.id], expected[i])
    BY DEF Takers
  <2>3. First(S) \in S
    <3> HIDE DEF S
    <3>1. QED
      BY <1>2, <2>2, FirstIsOne
  <2>4. QED
    BY <2>1, <2>2, <2>3
<1>3. QED
  BY <1>1, <1>2

-----------------------------------------------------------------------------
\* A match changes the pattern it completes or advances, and nothing of the
\* wrong type: the three flags stay Boolean, the collector keeps callers.
LEMMA MatchType ==
  ASSUME TypeOK, readPos < Len(buffer), NEW i \in DOMAIN expected, Match(Here.id, i)
  PROVE  /\ expected' \in Seq(Callers)
         /\ baseReceived' \in [Callers -> BOOLEAN] /\ fullyMatched' \in [Callers -> BOOLEAN]
         /\ success' \in [Callers -> BOOLEAN] /\ notified' \in [Callers -> BOOLEAN]
         /\ taken' \in Seq(SUBSET Callers) /\ Len(taken') = Len(taken)
<1>1. expected[i] \in Callers /\ i \in 1 .. Len(expected)
  BY DEF TypeOK
<1>2. RemoveAt(expected, i) \in Seq(Callers)
  BY <1>1, RemoveAtProps DEF TypeOK
<1>3. taken' \in Seq(SUBSET Callers) /\ Len(taken') = Len(taken)
  <2>1. Here.id \in DOMAIN taken /\ taken \in Seq(SUBSET Callers)
    BY HereIsAByte DEF TypeOK
  <2>2. taken' = [taken EXCEPT ![Here.id] = taken[Here.id] \cup {expected[i]}]
    BY DEF Match
  <2>3. taken[Here.id] \cup {expected[i]} \in SUBSET Callers
    BY <1>1, <2>1
  <2> HIDE DEF Here
  <2>4. QED
    BY <2>1, <2>2, <2>3
<1>4. notified' \in [Callers -> BOOLEAN] /\ baseReceived' \in [Callers -> BOOLEAN]
  BY <1>1 DEF Match, TypeOK
<1>5. fullyMatched' \in [Callers -> BOOLEAN] /\ success' \in [Callers -> BOOLEAN]
  BY <1>1 DEF Match, TypeOK
<1>6. expected' \in Seq(Callers)
  BY <1>2 DEF Match, TypeOK
<1>7. QED
  BY <1>3, <1>4, <1>5, <1>6

\* TypeOK alone is not inductive: what Write adds to `sent' is a command only
\* because a caller that is not idle has one.
BusyHasCommand == \A c \in Callers : pc[c] # "idle" => cmd[c] \in Cmds

\* A caller's step keeps the types.
LEMMA CallerKeepsType ==
  ASSUME TypeOK, BusyHasCommand, NEW c \in Callers, CallerStep(c)
  PROVE  TypeOK'
<1> USE DEF TypeOK, Goto, CallerPc, Byte,
            deviceVars, bufferVars, collectVars, patternVars
<1>1. CASE Constructed(c)
  BY <1>1 DEF Constructed
<1>2. CASE Write(c)
  <2>1. cmd[c] \in Cmds
    BY <1>2 DEF Write, BusyHasCommand
  <2>2. QED
    BY <1>2, <2>1 DEF Write
<1>3. CASE WriteFails(c)
  BY <1>3 DEF WriteFails
<1>4. ASSUME NEW at, NEW to \in CallerPc, Notified(c, at, to)
      PROVE  TypeOK'
  BY <1>4 DEF Notified
<1>5. ASSUME NEW at, NEW to \in CallerPc, TimedOut(c, at, to)
      PROVE  TypeOK'
  BY <1>5 DEF TimedOut
<1>6. CASE FirstWait(c)
  BY <1>4, <1>5, <1>6 DEF FirstWait
<1>7. CASE CheckBaseReceived(c)
  BY <1>7 DEF CheckBaseReceived
<1>8. CASE SecondWait(c)
  BY <1>4, <1>5, <1>8 DEF SecondWait
<1>9. CASE Return(c)
  BY <1>9 DEF Return
<1>10. CASE Unregister(c)
  <2>1. expected' \in Seq(Callers)
    <3>1. CASE c \in Registered
      <4>1. PICK i \in DOMAIN expected : expected' = RemoveAt(expected, i)
        BY <1>10, <3>1 DEF Unregister, Registered
      <4>2. QED
        BY <4>1, RemoveAtProps
    <3>2. CASE c \notin Registered
      BY <1>10, <3>2 DEF Unregister
    <3>3. QED
      BY <3>1, <3>2
  <2>2. QED
    BY <1>10, <2>1 DEF Unregister, Destroyed
<1>11. QED
  BY <1>1, <1>2, <1>3, <1>6, <1>7, <1>8, <1>9, <1>10 DEF CallerStep

\* A new command keeps the types.
LEMMA RegisterKeepsType ==
  ASSUME TypeOK, NEW c \in Callers, NEW k \in Cmds, Register(c, k)
  PROVE  TypeOK'
<1>1. expected' \in Seq(Callers) /\ calls' \in 0 .. MaxCalls
  BY AppendProperties, CommandAssumption DEF TypeOK, Register
<1>2. /\ cmd' \in [Callers -> Cmds \cup {NoCmd}] /\ pc' \in [Callers -> CallerPc]
      /\ minPos' \in [Callers -> Nat] /\ regAt' \in [Callers -> Int]
      /\ early' \in [Callers -> Nat]
  BY DEF TypeOK, Register, Goto, CallerPc
<1>3. QED
  BY <1>1, <1>2 DEF TypeOK, Register, Byte, deviceVars, bufferVars

\* What the device sends are bytes of the packets it sent.
LEMMA DeviceKeepsType ==
  ASSUME TypeOK, NEW kind \in Kinds, NEW k \in Cmds \cup {NoCmd}, DeviceSends(kind, k)
  PROVE  TypeOK'
<1> DEFINE p == [kind |-> kind, cmd |-> k]
<1>1. p \in [kind : Kinds, cmd : Cmds \cup {NoCmd}]
  OBVIOUS
<1>2. /\ packets' \in Seq([kind : Kinds, cmd : Cmds \cup {NoCmd}])
      /\ Len(packets') = Len(packets) + 1 /\ Len(packets') <= MaxPackets
  BY <1>1, AppendProperties, CommandAssumption DEF TypeOK, DeviceSends
<1>3. taken' \in Seq(SUBSET Callers) /\ Len(taken') = Len(packets')
  <2>1. taken \in Seq(SUBSET Callers) /\ Len(taken) = Len(packets) /\ {} \in SUBSET Callers
    BY DEF TypeOK
  <2>2. taken' = Append(taken, {})
    BY DEF DeviceSends
  <2>3. QED
    BY <2>1, <2>2, <1>2, AppendProperties
<1>4. Byte \subseteq Byte'
  BY <1>2 DEF Byte, TypeOK
<1>5. wire' \in Seq(Byte') /\ buffer' \in Seq(Byte')
  <2>1. Bytes(Len(packets) + 1, kind) \in Seq(Byte')
    <3> DEFINE id == Len(packets) + 1
               new(part) == [id |-> id, part |-> part]
    <3>1. id \in 1 .. Len(packets')
      BY <1>2 DEF TypeOK
    <3>2. /\ new("head") \in Byte' /\ new("tail") \in Byte'
          /\ new("junk") \in Byte' /\ new("start") \in Byte'
      BY <3>1 DEF Byte, Parts
    <3>3. /\ <<new("junk")>> \in Seq(Byte') /\ <<new("start")>> \in Seq(Byte')
          /\ <<new("head"), new("tail")>> \in Seq(Byte')
      BY <3>2
    <3>4. QED
      BY <3>3 DEF Bytes
  <2>2. wire \in Seq(Byte') /\ buffer \in Seq(Byte')
    <3> DEFINE B == Byte
               B2 == Byte'
    <3>1. wire \in Seq(B) /\ buffer \in Seq(B) /\ B \subseteq B2
      BY <1>4 DEF TypeOK
    <3> HIDE DEF B, B2
    <3>2. wire \in Seq(B2) /\ buffer \in Seq(B2)
      BY <3>1
    <3>3. QED
      BY <3>2 DEF B2
  <2>3. wire' = wire \o Bytes(Len(packets) + 1, kind) /\ buffer' = buffer
    BY DEF DeviceSends, bufferVars
  <2>4. QED
    BY <2>1, <2>2, <2>3, ConcatProperties
<1>6. QED
  BY <1>2, <1>3, <1>5 DEF TypeOK, DeviceSends, bufferVars, collectVars, patternVars

\* The IO thread keeps the types.
LEMMA IoKeepsType ==
  ASSUME TypeOK, IoStep
  PROVE  TypeOK'
<1> USE DEF deviceVars, bufferVars, collectVars, patternVars
<1>1. CASE ReadSome
  <2>1. PICK n \in 0 .. Len(wire) : Read(n)
    BY <1>1 DEF ReadSome, TypeOK
  <2>2. /\ buffer' \in Seq(Byte) /\ wire' \in Seq(Byte)
        /\ Len(buffer') = Len(buffer) + n
    BY <2>1, SplitSeq DEF TypeOK, Read
  <2>3. readPos' \in 0 .. Len(buffer') /\ savePos' \in 0 .. readPos'
    <3>1. readPos' = readPos /\ savePos' = readPos /\ readPos \in 0 .. Len(buffer)
      BY <2>1 DEF Read, TypeOK
    <3>2. Len(buffer) \in Nat
      BY DEF TypeOK
    <3>3. QED
      BY <2>2, <3>1, <3>2
  <2>4. Byte' = Byte
    BY <2>1 DEF Read, Byte
  <2>5. QED
    BY <2>1, <2>2, <2>3, <2>4 DEF TypeOK, Read
<1>2. CASE ParsePacket \/ SearchFinds
  <2>1. readPos < Len(buffer) /\ readPos + 2 <= Len(buffer) /\ OfferPacket
    BY <1>2 DEF ParsePacket, SearchFinds, PacketHere, Complete, TypeOK
  <2>2. /\ expected' \in Seq(Callers)
        /\ baseReceived' \in [Callers -> BOOLEAN] /\ fullyMatched' \in [Callers -> BOOLEAN]
        /\ success' \in [Callers -> BOOLEAN] /\ notified' \in [Callers -> BOOLEAN]
        /\ taken' \in Seq(SUBSET Callers) /\ Len(taken') = Len(taken)
    <3>1. CASE UNCHANGED <<expected, baseReceived, fullyMatched, success, notified, taken>>
      BY <3>1 DEF TypeOK
    <3>2. CASE \E i \in DOMAIN expected : Match(Here.id, i)
      BY <2>1, <3>2, MatchType
    <3>3. QED
      BY <2>1, <3>1, <3>2, OfferPacketEffect
  <2>3. /\ readPos' \in 0 .. Len(buffer') /\ savePos' \in 0 .. readPos' /\ ioPc' \in {ioPc, "parse"}
        /\ UNCHANGED <<sent, packets, wire, buffer, shifted, minPos, regAt, early, pc, cmd, calls>>
    BY <1>2, <2>1 DEF ParsePacket, SearchFinds, TypeOK
  <2>4. QED
    BY <2>2, <2>3 DEF TypeOK, Byte
<1>3. CASE ParseCorrupt \/ ParseStray
  <2>1. /\ readPos < Len(buffer) /\ readPos' = readPos + 1 /\ savePos' \in {savePos, readPos}
        /\ UNCHANGED <<deviceVars, wire, buffer, shifted, ioPc, collectVars, pc, patternVars, calls, taken>>
    BY <1>3 DEF ParseCorrupt, ParseStray, AtPart
  <2>2. readPos' \in 0 .. Len(buffer) /\ savePos' \in 0 .. readPos'
    BY <2>1 DEF TypeOK
  <2>3. QED
    BY <2>1, <2>2 DEF TypeOK, Byte
<1>4. CASE ParseIncomplete \/ SearchPast \/ ParseEnd
  <2>1. /\ SearchOn \/ Leave
        /\ UNCHANGED <<deviceVars, wire, buffer, savePos, shifted, collectVars, pc, patternVars, calls, taken>>
    BY <1>4 DEF ParseIncomplete, SearchPast, ParseEnd
  <2>2. readPos' \in 0 .. Len(buffer) /\ savePos \in 0 .. readPos' /\ ioPc' \in {"search", "shift"}
    BY <2>1 DEF SearchOn, Leave, TypeOK
  <2>3. QED
    BY <2>1, <2>2 DEF TypeOK, Byte
<1>6. CASE Shift
  <2>1. buffer' \in Seq(Byte)
    BY <1>6, SplitSeq DEF Shift, TypeOK
  <2>2. regAt' \in [Callers -> Int]
    BY <1>6 DEF Shift, TypeOK
  <2>3. shifted' \in Nat /\ readPos' = 0 /\ savePos' = 0 /\ ioPc' \in {"adjust", "read"}
    BY <1>6 DEF Shift, TypeOK
  <2>4. QED
    BY <1>6, <2>1, <2>2, <2>3 DEF Shift, TypeOK, Byte
<1>7. CASE Adjust
  <2>1. minPos' \in [Callers -> Nat]
    BY <1>7 DEF Adjust, TypeOK
  <2>2. QED
    BY <1>7, <2>1 DEF Adjust, TypeOK, Byte
<1>8. QED
  BY <1>1, <1>2, <1>3, <1>4, <1>6, <1>7 DEF IoStep, ParseStep

\* A caller that is not idle expects a command: what Register sets stays
\* until the pattern is destroyed.
LEMMA BusyKeepsCommand ==
  ASSUME TypeOK, BusyHasCommand, [Next]_vars
  PROVE  BusyHasCommand'
<1> SUFFICES ASSUME NEW c \in Callers, pc'[c] # "idle"
             PROVE  cmd'[c] \in Cmds
  BY DEF BusyHasCommand
<1> USE DEF Goto, patternVars, TypeOK, BusyHasCommand
<1>1. CASE \E d \in Callers : CallerStep(d)
  <2>1. PICK d \in Callers : CallerStep(d)
    BY <1>1
  <2>2. CASE Unregister(d)
    BY <2>2 DEF Unregister, Destroyed
  <2>3. CASE ~Unregister(d)
    <3>1. cmd' = cmd /\ pc[d] # "idle" /\ \A e \in Callers \ {d} : pc'[e] = pc[e]
      BY <2>1, <2>3 DEF CallerStep, Constructed, Write, WriteFails, FirstWait, SecondWait,
           Notified, TimedOut, CheckBaseReceived, Return
    <3>2. QED
      BY <3>1
  <2>4. QED
    BY <2>2, <2>3
<1>2. CASE \E d \in Callers, k \in Cmds : Register(d, k)
  BY <1>2 DEF Register
<1>3. CASE IoStep
  BY <1>3 DEF IoStep, ParseStep, ReadSome, Read, ParsePacket, ParseCorrupt, ParseStray,
       ParseIncomplete, SearchPast, SearchFinds, ParseEnd, Shift, Adjust
<1>4. CASE Device
  BY <1>4 DEF Device, DeviceSends
<1>5. CASE UNCHANGED vars
  BY <1>5 DEF vars
<1>6. QED
  BY <1>1, <1>2, <1>3, <1>4, <1>5 DEF Next

\* Types are initially right and every step keeps them.
LEMMA TypeStep ==
  ASSUME TypeOK, BusyHasCommand, [Next]_vars
  PROVE  TypeOK'
<1>1. CASE UNCHANGED vars
  BY <1>1 DEF TypeOK, Byte, vars, deviceVars, bufferVars, collectVars, patternVars
<1>2. QED
  BY <1>1, CallerKeepsType, RegisterKeepsType, DeviceKeepsType, IoKeepsType DEF Next, Device

LEMMA TypeInit == Init => TypeOK /\ BusyHasCommand
BY CommandAssumption DEF Init, TypeOK, BusyHasCommand, CallerPc

\* Every variable keeps its type, and the read and save positions stay inside
\* the buffer, in every behaviour of any number of callers and packets.
THEOREM TypeCorrect == Spec => []TypeOK
<1>1. Init => TypeOK /\ BusyHasCommand
  BY TypeInit
<1>2. TypeOK /\ BusyHasCommand /\ [Next]_vars => (TypeOK /\ BusyHasCommand)'
  BY TypeStep, BusyKeepsCommand
<1>3. QED
  BY <1>1, <1>2, PTL DEF Spec

-----------------------------------------------------------------------------
(* The safety of the patterns.  NoDanglingPattern and ReplyWakesWaiter are  *)
(* not inductive: an idle caller must have no reply (Register would enter a *)
(* matched pattern), and the flag must be set from the match on, before the *)
(* caller reaches its first wait (the reply may beat timedWait).            *)

Waits == {"construct", "write", "wait1", "wait2"}

PatternInv ==
  /\ NoDanglingPattern
  /\ \A c \in Callers : pc[c] = "idle" => ~fullyMatched[c]
  /\ \A c \in Callers : pc[c] \in Waits /\ fullyMatched[c] => notified[c]

\* Steps of a caller that leave its pattern registered as it was.
LEMMA CallerKeepsPattern ==
  ASSUME TypeOK, PatternInv, NEW d \in Callers, CallerStep(d), ~Unregister(d)
  PROVE  PatternInv'
<1> USE DEF Goto, patternVars, collectVars
<1>1. /\ UNCHANGED <<expected, fullyMatched>>
      /\ \A c \in Callers \ {d} : pc'[c] = pc[c] /\ notified'[c] = notified[c]
      /\ pc[d] # "idle" /\ pc'[d] # "idle"
  BY DEF CallerStep, Constructed, Write, WriteFails, FirstWait, SecondWait,
         Notified, TimedOut, CheckBaseReceived, Return, TypeOK
<1>2. pc'[d] \in Waits /\ fullyMatched[d] => pc[d] \in Waits /\ notified'[d] = notified[d]
  BY DEF CallerStep, Constructed, Write, WriteFails, FirstWait, SecondWait,
         Notified, TimedOut, CheckBaseReceived, Return, TypeOK, Waits
<1>3. NoDanglingPattern'
  <2>1. Registered' = Registered /\ Registered \subseteq Callers
    BY <1>1 DEF Registered, TypeOK
  <2>2. QED
    BY <1>1, <2>1 DEF PatternInv, NoDanglingPattern
<1>4. \A c \in Callers : pc'[c] = "idle" => ~fullyMatched'[c]
  BY <1>1 DEF PatternInv
<1>5. \A c \in Callers : pc'[c] \in Waits /\ fullyMatched'[c] => notified'[c]
  BY <1>1, <1>2 DEF PatternInv
<1>6. QED
  BY <1>3, <1>4, <1>5 DEF PatternInv

\* A new pattern is entered once, unmatched.
LEMMA RegisterKeepsPattern ==
  ASSUME TypeOK, PatternInv, NEW d \in Callers, NEW k \in Cmds, Register(d, k)
  PROVE  PatternInv'
<1>1. /\ pc[d] = "idle" /\ pc' = [pc EXCEPT ![d] = "construct"]
      /\ fullyMatched' = fullyMatched /\ notified' = notified
      /\ expected' = Append(expected, d)
  BY DEF Register, Goto
<1>2. ~fullyMatched[d] /\ \A i \in DOMAIN expected : expected[i] # d
  BY <1>1 DEF PatternInv, NoDanglingPattern, Registered
<1>3. /\ DOMAIN expected' = 1 .. Len(expected) + 1 /\ DOMAIN expected = 1 .. Len(expected)
      /\ \A i \in DOMAIN expected : expected'[i] = expected[i]
      /\ expected'[Len(expected) + 1] = d
  <2>1. expected \in Seq(Callers)
    BY DEF TypeOK
  <2>2. QED
    BY <2>1, <1>1, AppendOne
<1>4. \A i \in DOMAIN expected' : i \in DOMAIN expected \/ i = Len(expected) + 1
  <2>1. Len(expected) \in Nat
    BY DEF TypeOK
  <2>2. QED
    BY <1>3, <2>1
<1>5. \A i \in DOMAIN expected' : pc'[expected'[i]] # "idle" /\ ~fullyMatched'[expected'[i]]
  <2> TAKE i \in DOMAIN expected'
  <2>1. CASE i = Len(expected) + 1
    BY <1>1, <1>2, <1>3, <2>1 DEF TypeOK
  <2>2. CASE i \in DOMAIN expected
    <3>1. expected[i] \in Callers /\ expected[i] # d /\ expected[i] \in Registered
      BY <1>2, <2>2 DEF TypeOK, Registered
    <3>2. QED
      BY <1>1, <1>3, <2>2, <3>1 DEF PatternInv, NoDanglingPattern, TypeOK
  <2>3. QED
    BY <1>4, <2>1, <2>2
<1>6. \A i, j \in DOMAIN expected' : expected'[i] = expected'[j] => i = j
  BY <1>2, <1>3, <1>4 DEF PatternInv, NoDanglingPattern
<1>7. \A c \in Callers : pc'[c] = "idle" => ~fullyMatched'[c]
  BY <1>1 DEF PatternInv, TypeOK
<1>8. \A c \in Callers : pc'[c] \in Waits /\ fullyMatched'[c] => notified'[c]
  BY <1>1, <1>2 DEF PatternInv, TypeOK
<1>9. QED
  BY <1>5, <1>6, <1>7, <1>8 DEF PatternInv, NoDanglingPattern, Registered

\* What is left in the collector when one pattern is erased.
LEMMA DistinctRemoval ==
  ASSUME TypeOK, PatternInv, NEW i \in DOMAIN expected, expected' = RemoveAt(expected, i)
  PROVE  /\ \A j \in DOMAIN expected' : expected'[j] # expected[i] /\ expected'[j] \in Registered
         /\ \A j, k \in DOMAIN expected' : expected'[j] = expected'[k] => j = k
<1>1. expected \in Seq(Callers) /\ \A j, k \in DOMAIN expected : expected[j] = expected[k] => j = k
  BY DEF TypeOK, PatternInv, NoDanglingPattern
<1> DEFINE t == RemoveAt(expected, i)
<1>2. /\ \A j \in DOMAIN t : \E k \in DOMAIN expected : t[j] = expected[k]
      /\ \A j \in DOMAIN t : t[j] # expected[i]
      /\ \A j, k \in DOMAIN t : t[j] = t[k] => j = k
  <2>1. t = RemoveAt(expected, i)
    OBVIOUS
  <2> HIDE DEF t
  <2>2. QED
    BY <1>1, <2>1, RemoveAtDistinct
<1> HIDE DEF t
<1>3. expected' = t
  BY DEF t
<1>4. QED
  BY <1>2, <1>3 DEF Registered

\* A pattern that is destroyed is no longer in the collector.
LEMMA UnregisterKeepsPattern ==
  ASSUME TypeOK, PatternInv, NEW d \in Callers, Unregister(d)
  PROVE  PatternInv'
<1>1. /\ pc' = [pc EXCEPT ![d] = "idle"]
      /\ fullyMatched' = [fullyMatched EXCEPT ![d] = FALSE]
      /\ notified' = [notified EXCEPT ![d] = FALSE]
  BY DEF Unregister, Destroyed, Goto
<1>2. /\ \A i \in DOMAIN expected' : expected'[i] # d /\ expected'[i] \in Registered
      /\ \A i, j \in DOMAIN expected' : expected'[i] = expected'[j] => i = j
  <2>1. CASE d \in Registered
    <3>1. PICK i \in DOMAIN expected : expected[i] = d /\ expected' = RemoveAt(expected, i)
      BY <2>1 DEF Unregister, Registered
    <3>2. QED
      BY <3>1, DistinctRemoval
  <2>2. CASE d \notin Registered
    BY <2>2 DEF Unregister, PatternInv, NoDanglingPattern, Registered
  <2>3. QED
    BY <2>1, <2>2
<1>3. \A i \in DOMAIN expected' : pc'[expected'[i]] # "idle" /\ ~fullyMatched'[expected'[i]]
  <2> TAKE i \in DOMAIN expected'
  <2>1. expected'[i] \in Registered /\ expected'[i] # d /\ expected'[i] \in Callers
    BY <1>2 DEF Registered, TypeOK
  <2>2. QED
    BY <1>1, <2>1 DEF PatternInv, NoDanglingPattern, TypeOK
<1>4. \A c \in Callers : /\ pc'[c] = "idle" => ~fullyMatched'[c]
                         /\ pc'[c] \in Waits /\ fullyMatched'[c] => notified'[c]
  BY <1>1 DEF PatternInv, TypeOK, Waits
<1>5. QED
  BY <1>2, <1>3, <1>4 DEF PatternInv, NoDanglingPattern, Registered

\* A match sets the flag, and takes the pattern it completes out.
LEMMA MatchKeepsPattern ==
  ASSUME TypeOK, PatternInv, NEW i \in DOMAIN expected, NEW id, Match(id, i),
         pc' = pc
  PROVE  PatternInv'
<1> DEFINE d == expected[i]
<1>1. d \in Callers /\ d \in Registered /\ pc[d] # "idle"
  BY DEF TypeOK, Registered, PatternInv, NoDanglingPattern
<1>2. notified' = [notified EXCEPT ![d] = TRUE]
  BY DEF Match
<1>3. CASE packets[id].kind = "echo"
  <2>1. UNCHANGED <<fullyMatched, expected>>
    BY <1>3 DEF Match
  <2>2. NoDanglingPattern'
    BY <2>1 DEF PatternInv, NoDanglingPattern, Registered
  <2>3. QED
    BY <1>1, <1>2, <2>1, <2>2 DEF PatternInv, TypeOK
<1>4. CASE packets[id].kind # "echo"
  <2>1. /\ fullyMatched' = [fullyMatched EXCEPT ![d] = TRUE]
        /\ expected' = RemoveAt(expected, i)
    BY <1>4 DEF Match
  <2>2. /\ \A j \in DOMAIN expected' : expected'[j] # d /\ expected'[j] \in Registered
        /\ \A j, k \in DOMAIN expected' : expected'[j] = expected'[k] => j = k
    BY <2>1, DistinctRemoval
  <2>3. \A j \in DOMAIN expected' : pc'[expected'[j]] # "idle" /\ ~fullyMatched'[expected'[j]]
    <3> TAKE j \in DOMAIN expected'
    <3>1. expected'[j] \in Registered /\ expected'[j] # d /\ expected'[j] \in Callers
      BY <2>2 DEF Registered, TypeOK
    <3> HIDE DEF d
    <3>2. QED
      BY <2>1, <3>1 DEF PatternInv, NoDanglingPattern, TypeOK
  <2>4. \A c \in Callers : /\ pc'[c] = "idle" => ~fullyMatched'[c]
                           /\ pc'[c] \in Waits /\ fullyMatched'[c] => notified'[c]
    <3> HIDE DEF d
    <3>1. QED
      BY <1>1, <1>2, <2>1 DEF PatternInv, TypeOK
  <2>5. QED
    BY <2>2, <2>3, <2>4 DEF PatternInv, NoDanglingPattern, Registered
<1>5. QED
  BY <1>3, <1>4

\* PatternInv is inductive.
LEMMA PatternStep ==
  ASSUME TypeOK, PatternInv, [Next]_vars
  PROVE  PatternInv'
<1>1. ASSUME UNCHANGED <<expected, pc, fullyMatched, notified>>
      PROVE  PatternInv'
  BY <1>1 DEF PatternInv, NoDanglingPattern, Registered
<1>2. CASE IoStep
  <2>1. CASE ParsePacket \/ SearchFinds
    <3>1. readPos < Len(buffer) /\ OfferPacket /\ pc' = pc
      BY <2>1 DEF ParsePacket, SearchFinds, PacketHere, Complete, TypeOK
    <3>2. QED
      BY <1>1, <3>1, OfferPacketEffect, MatchKeepsPattern
  <2>2. CASE ~(ParsePacket \/ SearchFinds)
    BY <1>1, <1>2, <2>2 DEF IoStep, ParseStep, ReadSome, Read, ParseCorrupt, ParseStray,
         ParseIncomplete, SearchPast, ParseEnd, Shift, Adjust, collectVars, patternVars
  <2>3. QED
    BY <2>1, <2>2
<1>3. CASE Device
  BY <1>1, <1>3 DEF Device, DeviceSends, collectVars, patternVars
<1>4. CASE UNCHANGED vars
  BY <1>1, <1>4 DEF vars, collectVars, patternVars
<1>5. QED
  BY <1>2, <1>3, <1>4, CallerKeepsPattern, RegisterKeepsPattern, UnregisterKeepsPattern DEF Next

LEMMA PatternAlways == Spec => [](TypeOK /\ PatternInv)
<1>1. Init => TypeOK /\ BusyHasCommand /\ PatternInv
  BY TypeInit DEF Init, PatternInv, NoDanglingPattern, Registered, Waits
<1>2. TypeOK /\ BusyHasCommand /\ PatternInv /\ [Next]_vars
        => (TypeOK /\ BusyHasCommand /\ PatternInv)'
  BY TypeStep, BusyKeepsCommand, PatternStep
<1>3. QED
  BY <1>1, <1>2, PTL DEF Spec

\* The collector never holds a pointer to a destroyed pattern, holds none
\* twice and none that is fully matched, in any interleaving of any number of
\* callers with the IO thread.
THEOREM PatternsAreLive == Spec => []NoDanglingPattern
<1>1. PatternInv => NoDanglingPattern
  BY DEF PatternInv
<1>2. QED
  BY <1>1, PatternAlways, PTL

\* A caller that waits for a reply that has come is woken: no wakeup is lost.
THEOREM NoLostWakeup == Spec => []ReplyWakesWaiter
<1>1. PatternInv => ReplyWakesWaiter
  BY DEF PatternInv, ReplyWakesWaiter, Waits
<1>2. QED
  BY <1>1, PatternAlways, PTL

-----------------------------------------------------------------------------
(* Packets and positions.  What is in the buffer behind the save point, and  *)
(* then on the wire, is one stream; the index of its bytes changes with      *)
(* shiftExtraToStart only.                                                   *)

StreamLen == Len(buffer) + Len(wire)
Stream(k) == IF k <= Len(buffer) THEN buffer[k] ELSE wire[k - Len(buffer)]
Starts(k) == k \in savePos + 1 .. StreamLen /\ Stream(k).part = "head"

\* Nobody has taken a packet that is ahead of the parser, and it comes once.
StreamInv ==
  /\ \A k \in Nat : Starts(k) => taken[Stream(k).id] = {}
  /\ \A k, m \in Nat : Starts(k) /\ Starts(m) /\ Stream(k).id = Stream(m).id => k = m
  /\ \A id \in DOMAIN taken : taken[id] = {} \/ \E c \in Callers : taken[id] = {c}

\* Where the IO thread keeps its positions.
LoopInv ==
  /\ ioPc = "shift" => readPos = savePos
  /\ ioPc \in {"read", "adjust"} => readPos = 0 /\ savePos = 0
  /\ ioPc # "adjust" => shifted = 0

NotNegative(n) == IF n < 0 THEN 0 ELSE n

\* The position of c's pattern when the correction that is due has been made.
Corrected(c) == NotNegative(minPos[c] - shifted)

\* A position is that of the registration, or smaller, by the bytes of one shift
\* at most.
PositionInv ==
  \A c \in Registered :
    /\ regAt[c] <= Len(buffer)
    /\ Corrected(c) <= NotNegative(regAt[c])
    /\ regAt[c] - early[c] <= Corrected(c)

PacketInv == StreamInv /\ LoopInv /\ PositionInv

\* What the invariant needs of the types.
LEMMA PositionTypes ==
  ASSUME TypeOK
  PROVE  /\ Len(buffer) \in Nat /\ Len(wire) \in Nat /\ StreamLen \in Nat
         /\ readPos \in Nat /\ savePos \in Nat /\ shifted \in Nat
         /\ savePos <= readPos /\ readPos <= Len(buffer)
         /\ \A c \in Callers : minPos[c] \in Nat /\ regAt[c] \in Int /\ early[c] \in Nat
         /\ Registered \subseteq Callers
BY DEF TypeOK, StreamLen, Registered

\* Every byte of the stream belongs to a packet the device has sent.
LEMMA StreamOfBytes ==
  ASSUME TypeOK
  PROVE  /\ \A k \in 1 .. StreamLen : Stream(k) \in Byte
         /\ \A k \in 1 .. Len(buffer) : Stream(k) = buffer[k] /\ buffer[k].id \in 1 .. Len(packets)
<1>1. buffer \in Seq(Byte) /\ wire \in Seq(Byte)
  BY DEF TypeOK
<1>2. ASSUME NEW k \in 1 .. StreamLen
      PROVE  Stream(k) \in Byte
  <2>1. CASE k <= Len(buffer)
    <3>1. k \in 1 .. Len(buffer) /\ Stream(k) = buffer[k]
      BY <2>1 DEF Stream
    <3> HIDE DEF Byte
    <3>2. QED
      BY <1>1, <3>1
  <2>2. CASE ~(k <= Len(buffer))
    <3>1. k - Len(buffer) \in 1 .. Len(wire) /\ Stream(k) = wire[k - Len(buffer)]
      BY <2>2, <1>1 DEF Stream, StreamLen
    <3>2. QED
      BY <1>1, <3>1
  <2>3. QED
    BY <2>1, <2>2
<1>3. ASSUME NEW k \in 1 .. Len(buffer)
      PROVE  Stream(k) = buffer[k] /\ buffer[k].id \in 1 .. Len(packets)
  <2>1. buffer[k] \in Byte
    BY <1>1
  <2>2. QED
    BY <2>1 DEF Stream, Byte
<1>4. QED
  BY <1>2, <1>3

\* A step that takes no packet and sends none keeps StreamInv, if the stream
\* behind its save point is (shifted by n) a part of the one before.
LEMMA SameStream ==
  ASSUME StreamInv, taken' = taken, NEW n \in Nat,
         \A k \in Nat : Starts(k)' => Starts(k + n) /\ Stream(k)' = Stream(k + n)
  PROVE  StreamInv'
<1>1. ASSUME NEW k \in Nat, Starts(k)'
      PROVE  taken'[Stream(k)'.id] = {}
  <2>1. Starts(k + n) /\ Stream(k)' = Stream(k + n) /\ k + n \in Nat
    BY <1>1
  <2>2. taken[Stream(k + n).id] = {}
    BY <2>1 DEF StreamInv
  <2>3. QED
    BY <2>1, <2>2
<1>2. ASSUME NEW k \in Nat, NEW m \in Nat, Starts(k)', Starts(m)', Stream(k)'.id = Stream(m)'.id
      PROVE  k = m
  <2>1. /\ Starts(k + n) /\ Stream(k)' = Stream(k + n) /\ k + n \in Nat
        /\ Starts(m + n) /\ Stream(m)' = Stream(m + n) /\ m + n \in Nat
    BY <1>2
  <2>2. k + n = m + n
    BY <1>2, <2>1 DEF StreamInv
  <2>3. QED
    BY <2>2
<1>3. \A id \in DOMAIN taken' : taken'[id] = {} \/ \E c \in Callers : taken'[id] = {c}
  BY DEF StreamInv
<1>4. QED
  BY <1>1, <1>2, <1>3 DEF StreamInv

\* In particular a step that leaves buffer and wire alone and does not move
\* the save point back.
LEMMA SameBytes ==
  ASSUME TypeOK, StreamInv, UNCHANGED <<taken, buffer, wire>>,
         NEW d \in Nat, savePos' = savePos + d
  PROVE  StreamInv'
<1>1. ASSUME NEW k \in Nat, Starts(k)'
      PROVE  Starts(k) /\ Stream(k)' = Stream(k)
  <2>1. Stream(k)' = Stream(k) /\ StreamLen' = StreamLen
    BY DEF Stream, StreamLen
  <2>2. k \in savePos + d + 1 .. StreamLen /\ Stream(k).part = "head"
    BY <1>1, <2>1 DEF Starts
  <2>3. savePos \in Nat /\ StreamLen \in Nat
    BY PositionTypes
  <2>4. k \in savePos + 1 .. StreamLen
    BY <2>2, <2>3
  <2>5. QED
    BY <2>1, <2>2, <2>4 DEF Starts
<1>2. \A k \in Nat : k + 0 = k
  OBVIOUS
<1>3. \A k \in Nat : Starts(k)' => Starts(k + 0) /\ Stream(k)' = Stream(k + 0)
  BY <1>1, <1>2
<1>4. QED
  BY <1>3, SameStream

\* A read moves bytes from the wire to the buffer.
LEMMA ReadStream ==
  ASSUME TypeOK, NEW n \in 0 .. Len(wire), Read(n)
  PROVE  /\ Len(buffer') = Len(buffer) + n /\ StreamLen' = StreamLen
         /\ \A k \in 1 .. Len(buffer) : buffer'[k] = buffer[k]
         /\ \A k \in 1 .. StreamLen : Stream(k)' = Stream(k)
<1> DEFINE a == SubSeq(wire, 1, n)
           b == SubSeq(wire, n + 1, Len(wire))
<1>1. buffer \in Seq(Byte) /\ wire \in Seq(Byte) /\ n \in Nat /\ n <= Len(wire)
  BY DEF TypeOK
<1>2. /\ a \in Seq(Byte) /\ Len(a) = n /\ \A j \in 1 .. n : a[j] = wire[j]
      /\ b \in Seq(Byte) /\ Len(b) = Len(wire) - n
      /\ \A j \in 1 .. Len(wire) - n : b[j] = wire[n + j]
  BY <1>1, SubSeqProperties
<1>3. buffer' = buffer \o a /\ wire' = b
  BY DEF Read
<1> HIDE DEF a, b
<1>4. /\ Len(buffer') = Len(buffer) + Len(a)
      /\ \A k \in 1 .. Len(buffer) + Len(a) :
           buffer'[k] = IF k <= Len(buffer) THEN buffer[k] ELSE a[k - Len(buffer)]
  BY <1>1, <1>2, <1>3, ConcatProperties, Zenon
<1>5. Len(buffer) \in Nat /\ Len(wire) \in Nat
  BY <1>1
<1>6. Len(buffer') = Len(buffer) + n /\ Len(wire') = Len(wire) - n
  BY <1>2, <1>3, <1>4
<1>7. \A k \in 1 .. Len(buffer) : buffer'[k] = buffer[k]
  BY <1>2, <1>4, <1>5
<1>8. ASSUME NEW k \in 1 .. StreamLen
      PROVE  Stream(k)' = Stream(k)
  <2>1. CASE k <= Len(buffer)
    BY <2>1, <1>5, <1>6, <1>7 DEF Stream
  <2>2. CASE k > Len(buffer) /\ k <= Len(buffer) + n
    <3>1. /\ Stream(k)' = a[k - Len(buffer)] /\ Stream(k) = wire[k - Len(buffer)]
      BY <2>2, <1>2, <1>4, <1>5, <1>6 DEF Stream
    <3>2. k - Len(buffer) \in 1 .. n
      BY <2>2, <1>5
    <3>3. QED
      BY <3>1, <3>2, <1>2
  <2>3. CASE k > Len(buffer) + n
    <3>1. /\ Stream(k)' = b[k - (Len(buffer) + n)] /\ Stream(k) = wire[k - Len(buffer)]
      BY <2>3, <1>3, <1>5, <1>6 DEF Stream
    <3>2. k - (Len(buffer) + n) \in 1 .. Len(wire) - n /\ n + (k - (Len(buffer) + n)) = k - Len(buffer)
      BY <2>3, <1>5 DEF StreamLen
    <3>3. QED
      BY <3>1, <3>2, <1>2
  <2>4. QED
    BY <2>1, <2>2, <2>3, <1>5 DEF StreamLen
<1>9. QED
  BY <1>5, <1>6, <1>7, <1>8 DEF StreamLen

\* Shifting drops what is before the read position.
LEMMA ShiftStream ==
  ASSUME TypeOK, Shift
  PROVE  /\ Len(buffer') = Len(buffer) - readPos /\ StreamLen' = StreamLen - readPos
         /\ \A k \in 1 .. Len(buffer') : buffer'[k] = buffer[k + readPos]
         /\ \A k \in 1 .. StreamLen' : Stream(k)' = Stream(k + readPos)
<1>1. buffer \in Seq(Byte) /\ readPos \in 0 .. Len(buffer) /\ Len(buffer) \in Nat /\ Len(wire) \in Nat
  BY DEF TypeOK
<1>2. buffer' = SubSeq(buffer, readPos + 1, Len(buffer)) /\ wire' = wire
  BY DEF Shift
<1>3. /\ Len(buffer') = Len(buffer) - readPos
      /\ \A k \in 1 .. Len(buffer) - readPos : buffer'[k] = buffer[readPos + k]
  BY <1>1, <1>2, SubSeqProperties
<1>4. \A k \in 1 .. Len(buffer') : buffer'[k] = buffer[k + readPos]
  BY <1>1, <1>3
<1>5. StreamLen' = StreamLen - readPos
  BY <1>1, <1>2, <1>3 DEF StreamLen
<1>6. ASSUME NEW k \in 1 .. StreamLen'
      PROVE  Stream(k)' = Stream(k + readPos)
  <2>1. CASE k <= Len(buffer')
    BY <2>1, <1>1, <1>3, <1>4 DEF Stream
  <2>2. CASE ~(k <= Len(buffer'))
    BY <2>2, <1>1, <1>2, <1>3 DEF Stream
  <2>3. QED
    BY <2>1, <2>2
<1>7. QED
  BY <1>3, <1>4, <1>5, <1>6

-----------------------------------------------------------------------------
\* Which of the takers looks at the packet: one that may, by its position.
LEMMA PacketIsOffered ==
  ASSUME TypeOK, ParsePacket \/ SearchFinds
  PROVE  \/ /\ Takers(packets[Here.id], readPos) = {}
            /\ UNCHANGED <<expected, taken>>
         \/ \E i \in Takers(packets[Here.id], readPos) :
              /\ i \in DOMAIN expected
              /\ Match(Here.id, i)
              /\ taken' = [taken EXCEPT ![Here.id] = @ \cup {expected[i]}]
<1> DEFINE S == Takers(packets[Here.id], readPos)
<1>1. OfferPacket
  BY DEF ParsePacket, SearchFinds
<1>2. CASE S = {}
  BY <1>1, <1>2 DEF OfferPacket
<1>3. CASE S # {}
  <2>1. Match(Here.id, First(S))
    BY <1>1, <1>3 DEF OfferPacket
  <2>2. S \subseteq DOMAIN expected
    BY DEF Takers
  <2>3. First(S) \in S
    <3> HIDE DEF S
    <3>1. QED
      BY <1>3, <2>2, FirstIsOne
  <2>4. taken' = [taken EXCEPT ![Here.id] = @ \cup {expected[First(S)]}]
    BY <2>1 DEF Match
  <2>5. QED
    BY <2>1, <2>2, <2>3, <2>4
<1>4. QED
  BY <1>2, <1>3

-----------------------------------------------------------------------------
\* Every step keeps StreamInv: a packet that is offered is passed by, a packet
\* that is sent is new.
LEMMA ParsePacketStream ==
  ASSUME TypeOK, StreamInv, ParsePacket \/ SearchFinds
  PROVE  StreamInv'
<1> DEFINE h == Here.id
<1>1. /\ readPos < Len(buffer) /\ readPos + 2 <= Len(buffer) /\ Here.part = "head"
      /\ UNCHANGED <<buffer, wire>> /\ savePos' = readPos + 2
  BY DEF ParsePacket, SearchFinds, PacketHere, Complete, TypeOK
<1>2. Stream(readPos + 1) = Here /\ Starts(readPos + 1) /\ readPos + 1 \in Nat
  <2>1. Stream(readPos + 1) = Here
    BY <1>1, PositionTypes DEF Stream, Here
  <2>2. readPos + 1 \in savePos + 1 .. StreamLen
    BY <1>1, PositionTypes DEF StreamLen
  <2>3. QED
    BY <1>1, <2>1, <2>2, PositionTypes DEF Starts
<1>3. ASSUME NEW k \in Nat, Starts(k)'
      PROVE  Starts(k) /\ Stream(k)' = Stream(k) /\ Stream(k).id # h
  <2>1. Stream(k)' = Stream(k) /\ StreamLen' = StreamLen
    BY <1>1 DEF Stream, StreamLen
  <2>2. k \in readPos + 3 .. StreamLen /\ Stream(k).part = "head"
    BY <1>1, <1>3, <2>1, PositionTypes DEF Starts
  <2>3. Starts(k) /\ k # readPos + 1
    <3>1. savePos \in Nat /\ readPos \in Nat /\ savePos <= readPos /\ StreamLen \in Nat
      BY PositionTypes
    <3>2. k \in savePos + 1 .. StreamLen /\ k # readPos + 1
      BY <2>2, <3>1
    <3>3. QED
      BY <2>2, <3>2 DEF Starts
  <2>4. Stream(k).id # h
    BY <1>2, <2>3 DEF StreamInv
  <2>5. QED
    BY <2>1, <2>3, <2>4
<1>4. taken[h] = {} /\ h \in DOMAIN taken /\ taken \in Seq(SUBSET Callers)
  BY <1>1, <1>2, HereIsAByte DEF StreamInv, TypeOK
<1>5. taken' = taken \/ \E c \in Callers : taken' = [taken EXCEPT ![h] = {c}]
  <2>1. CASE UNCHANGED <<expected, taken>>
    BY <2>1
  <2>2. CASE \E i \in DOMAIN expected : taken' = [taken EXCEPT ![h] = @ \cup {expected[i]}]
    <3>1. PICK i \in DOMAIN expected : taken' = [taken EXCEPT ![h] = @ \cup {expected[i]}]
      BY <2>2
    <3>2. expected[i] \in Callers
      BY DEF TypeOK
    <3>3. taken' = [taken EXCEPT ![h] = {expected[i]}]
      BY <1>4, <3>1
    <3>4. QED
      BY <3>2, <3>3
  <2>3. QED
    BY <2>1, <2>2, PacketIsOffered
<1>6. /\ DOMAIN taken' = DOMAIN taken
      /\ \A id : id # h => taken'[id] = taken[id]
      /\ taken'[h] = {} \/ \E c \in Callers : taken'[h] = {c}
  <2>1. CASE taken' = taken
    BY <1>4, <2>1
  <2>2. CASE \E c \in Callers : taken' = [taken EXCEPT ![h] = {c}]
    <3> HIDE DEF h
    <3>1. QED
      BY <1>4, <2>2
  <2>3. QED
    BY <1>5, <2>1, <2>2
<1> HIDE DEF h
<1>7. \A k \in Nat : Starts(k)' => taken'[Stream(k)'.id] = {}
  <2> TAKE k \in Nat
  <2>1. ASSUME Starts(k)'
        PROVE  taken'[Stream(k)'.id] = {}
    <3>1. Starts(k) /\ Stream(k)' = Stream(k) /\ Stream(k).id # h
      BY <1>3, <2>1
    <3>2. taken[Stream(k).id] = {}
      BY <3>1 DEF StreamInv
    <3>3. taken'[Stream(k).id] = taken[Stream(k).id]
      BY <1>6, <3>1
    <3>4. QED
      BY <3>1, <3>2, <3>3
  <2>2. QED
    BY <2>1
<1>8. \A k, m \in Nat : Starts(k)' /\ Starts(m)' /\ Stream(k)'.id = Stream(m)'.id => k = m
  BY <1>3 DEF StreamInv
<1>9. \A id \in DOMAIN taken' : taken'[id] = {} \/ \E c \in Callers : taken'[id] = {c}
  BY <1>6 DEF StreamInv
<1>10. QED
  BY <1>7, <1>8, <1>9 DEF StreamInv

LEMMA DeviceStream ==
  ASSUME TypeOK, StreamInv, NEW kind \in Kinds, NEW k \in Cmds \cup {NoCmd}, DeviceSends(kind, k)
  PROVE  StreamInv'
<1> DEFINE N == Len(packets)
           n == StreamLen
           new == Bytes(N + 1, kind)
<1>1. /\ wire' = wire \o new /\ buffer' = buffer /\ savePos' = savePos
      /\ taken' = Append(taken, {})
  BY DEF DeviceSends, bufferVars
<1>2. /\ wire \in Seq(Byte) /\ N \in Nat /\ n \in Nat /\ Len(buffer) \in Nat /\ Len(wire) \in Nat
      /\ taken \in Seq(SUBSET Callers) /\ Len(taken) = N
      /\ savePos \in Nat
  BY PositionTypes DEF TypeOK
<1>3. /\ Len(new) \in {1, 2}
      /\ \A j \in 1 .. Len(new) : new[j].id = N + 1 /\ (new[j].part = "head" => j = 1)
  BY DEF Bytes
<1>4. /\ Len(wire') = Len(wire) + Len(new)
      /\ \A j \in 1 .. Len(wire) + Len(new) :
           wire'[j] = IF j <= Len(wire) THEN wire[j] ELSE new[j - Len(wire)]
  <2> DEFINE T == {new[j] : j \in 1 .. Len(new)}
  <2>1. new \in Seq(Byte \cup T) /\ wire \in Seq(Byte \cup T)
    <3>1. new \in Seq(T)
      <4>1. new = <<new[1]>> \/ new = <<new[1], new[2]>>
        BY DEF Bytes
      <4>2. \A j \in 1 .. Len(new) : new[j] \in T
        OBVIOUS
      <4> HIDE DEF new, T
      <4>3. QED
        BY <1>3, <4>1, <4>2
    <3> HIDE DEF new, T, Byte
    <3>2. QED
      BY <1>2, <3>1
  <2> HIDE DEF new, T, Byte
  <2>2. QED
    BY <1>1, <2>1, ConcatProperties, Zenon
<1> HIDE DEF new
<1>5. StreamLen' = n + Len(new)
  BY <1>1, <1>2, <1>3, <1>4 DEF StreamLen
<1>6. ASSUME NEW j \in 1 .. n
      PROVE  Stream(j)' = Stream(j) /\ Stream(j).id \in 1 .. N
  <2>1. Stream(j)' = Stream(j)
    <3>1. CASE j <= Len(buffer)
      BY <3>1, <1>1 DEF Stream
    <3>2. CASE ~(j <= Len(buffer))
      BY <3>2, <1>1, <1>2, <1>3, <1>4 DEF Stream, StreamLen
    <3>3. QED
      BY <3>1, <3>2
  <2>2. Stream(j) \in Byte
    BY StreamOfBytes
  <2>3. QED
    BY <2>1, <2>2 DEF Byte
<1>7. ASSUME NEW j \in n + 1 .. n + Len(new)
      PROVE  Stream(j)' = new[j - n] /\ j - n \in 1 .. Len(new)
  BY <1>1, <1>2, <1>3, <1>4 DEF Stream, StreamLen
<1>8. ASSUME NEW j \in Nat, Starts(j)'
      PROVE  \/ Starts(j) /\ j \in 1 .. n
             \/ j = n + 1 /\ Stream(j)'.id = N + 1
  <2>1. j \in savePos + 1 .. n + Len(new) /\ Stream(j)'.part = "head"
    BY <1>1, <1>5, <1>8 DEF Starts
  <2>2. CASE j \in 1 .. n
    <3>1. Stream(j)' = Stream(j)
      BY <1>6, <2>2
    <3>2. j \in savePos + 1 .. n
      BY <1>2, <1>3, <2>1, <2>2
    <3>3. QED
      BY <2>1, <2>2, <3>1, <3>2 DEF Starts
  <2>3. CASE j \in n + 1 .. n + Len(new)
    BY <1>2, <1>3, <1>7, <2>1, <2>3
  <2>4. QED
    BY <1>2, <1>3, <2>1, <2>2, <2>3
<1>9. /\ DOMAIN taken = 1 .. N /\ DOMAIN taken' = 1 .. N + 1 /\ taken'[N + 1] = {}
      /\ \A id \in 1 .. N : taken'[id] = taken[id]
  <2>1. taken \in Seq(SUBSET Callers) /\ Len(taken) = N /\ {} \in SUBSET Callers
    BY <1>2
  <2>2. taken' = Append(taken, {})
    BY <1>1
  <2>3. QED
    BY <2>1, <2>2, AppendOne
<1>10. \A j \in Nat : Starts(j)' => taken'[Stream(j)'.id] = {}
  <2> TAKE j \in Nat
  <2>1. ASSUME Starts(j)'
        PROVE  taken'[Stream(j)'.id] = {}
    <3>1. CASE Starts(j) /\ j \in 1 .. n
      <4>1. taken[Stream(j).id] = {}
        BY <3>1 DEF StreamInv
      <4>2. QED
        BY <1>6, <1>9, <3>1, <4>1
    <3>2. CASE j = n + 1 /\ Stream(j)'.id = N + 1
      BY <1>9, <3>2
    <3>3. QED
      BY <1>8, <2>1, <3>1, <3>2
  <2>2. QED
    BY <2>1
<1>11. \A j, m \in Nat : Starts(j)' /\ Starts(m)' /\ Stream(j)'.id = Stream(m)'.id => j = m
  <2> SUFFICES ASSUME NEW j \in Nat, NEW m \in Nat, Starts(j)', Starts(m)',
                      Stream(j)'.id = Stream(m)'.id
               PROVE  j = m
    OBVIOUS
  <2> DEFINE Old(i) == /\ Starts(i) /\ Stream(i)' = Stream(i) /\ Stream(i)'.id \in 1 .. N
             New(i) == i = n + 1 /\ Stream(i)'.id = N + 1
  <2>1. (Old(j) \/ New(j)) /\ (Old(m) \/ New(m))
    BY <1>6, <1>8
  <2>2. CASE Old(j) /\ Old(m)
    <3>1. Starts(j) /\ Starts(m) /\ Stream(j).id = Stream(m).id
      BY <2>2
    <3>2. QED
      BY <3>1 DEF StreamInv
  <2>3. CASE New(j) /\ New(m)
    BY <2>3
  <2>4. (Old(j) /\ New(m) => FALSE) /\ (New(j) /\ Old(m) => FALSE)
    <3>1. N + 1 \notin 1 .. N
      BY <1>2
    <3> HIDE DEF N
    <3>2. QED
      BY <3>1
  <2>5. QED
    BY <2>1, <2>2, <2>3, <2>4
<1>12. \A id \in DOMAIN taken' : taken'[id] = {} \/ \E c \in Callers : taken'[id] = {c}
  <2> TAKE id \in DOMAIN taken'
  <2>1. id \in DOMAIN taken \/ id = N + 1
    BY <1>2, <1>9
  <2>2. QED
    BY <2>1, <1>9 DEF StreamInv
<1>13. QED
  BY <1>10, <1>11, <1>12 DEF StreamInv

-----------------------------------------------------------------------------
\* The positions hold after a step if the due correction leads to the same ones,
\* and no new pattern comes in.
LEMMA SamePositions ==
  ASSUME TypeOK, PositionInv, Len(buffer) <= Len(buffer'), Len(buffer') \in Nat,
         Registered' \subseteq Registered,
         \A c \in Registered' : /\ regAt'[c] = regAt[c] /\ early'[c] = early[c]
                                /\ Corrected(c)' = Corrected(c)
  PROVE  PositionInv'
<1>1. ASSUME NEW c \in Registered'
      PROVE  /\ regAt'[c] <= Len(buffer')
             /\ Corrected(c)' <= NotNegative(regAt'[c])
             /\ regAt'[c] - early'[c] <= Corrected(c)'
  <2>1. c \in Registered /\ regAt[c] \in Int /\ Len(buffer) \in Nat
    BY PositionTypes
  <2>2. /\ regAt[c] <= Len(buffer) /\ Corrected(c) <= NotNegative(regAt[c])
        /\ regAt[c] - early[c] <= Corrected(c)
    BY <2>1 DEF PositionInv
  <2>3. QED
    BY <2>1, <2>2
<1>2. QED
  BY <1>1 DEF PositionInv

\* A step that leaves the stream and the IO thread alone.
LEMMA QuietStep ==
  ASSUME TypeOK, PacketInv,
         UNCHANGED <<wire, buffer, readPos, savePos, shifted, ioPc, taken>>,
         Registered' \subseteq Registered,
         \A c \in Registered' : minPos'[c] = minPos[c] /\ regAt'[c] = regAt[c] /\ early'[c] = early[c]
  PROVE  PacketInv'
<1>1. savePos' = savePos + 0 /\ Len(buffer) \in Nat
  BY PositionTypes
<1>2. StreamInv'
  BY <1>1, SameBytes DEF PacketInv
<1>3. LoopInv'
  BY DEF PacketInv, LoopInv
<1>4. PositionInv'
  BY <1>1, SamePositions DEF PacketInv, Corrected
<1>5. QED
  BY <1>2, <1>3, <1>4 DEF PacketInv

\* The caller's steps, but for the registration.
LEMMA CallerKeepsPackets ==
  ASSUME TypeOK, TypeOK', PatternInv, PacketInv, NEW d \in Callers, CallerStep(d)
  PROVE  PacketInv'
<1>1. UNCHANGED <<packets, wire, buffer, readPos, savePos, shifted, ioPc, taken>>
  BY DEF CallerStep, Constructed, Write, WriteFails, FirstWait, SecondWait, Notified,
         TimedOut, CheckBaseReceived, Return, Unregister, deviceVars, bufferVars
<1>2. CASE Unregister(d)
  <2>1. Registered' \subseteq Registered \ {d}
    <3>1. CASE d \in Registered
      <4>1. PICK i \in DOMAIN expected : expected[i] = d /\ expected' = RemoveAt(expected, i)
        BY <1>2, <3>1 DEF Unregister, Registered
      <4>2. QED
        BY <4>1, DistinctRemoval DEF Registered
    <3>2. CASE d \notin Registered
      BY <1>2, <3>2 DEF Unregister, Registered
    <3>3. QED
      BY <3>1, <3>2
  <2>2. Registered' \subseteq Callers \ {d}
    BY <2>1, PositionTypes
  <2>3. \A c \in Callers \ {d} : minPos'[c] = minPos[c] /\ regAt'[c] = regAt[c] /\ early'[c] = early[c]
    BY <1>2 DEF Unregister, Destroyed, TypeOK
  <2>4. QED
    BY <1>1, <2>1, <2>2, <2>3, QuietStep
<1>3. CASE ~Unregister(d)
  <2>1. UNCHANGED <<expected, minPos, regAt, early>>
    BY <1>3 DEF CallerStep, Constructed, Write, WriteFails, FirstWait, SecondWait, Notified,
         TimedOut, CheckBaseReceived, Return, collectVars
  <2>2. Registered' = Registered
    BY <2>1 DEF Registered
  <2>3. QED
    BY <1>1, <2>1, <2>2, QuietStep
<1>4. QED
  BY <1>2, <1>3

\* A pattern is registered at the append position; the correction that is due
\* makes that smaller by the bytes of the shift.
LEMMA RegisterKeepsPackets ==
  ASSUME TypeOK, PacketInv, NEW d \in Callers, NEW q \in Cmds, Register(d, q)
  PROVE  PacketInv'
<1>1. UNCHANGED <<wire, buffer, readPos, savePos, shifted, ioPc, taken>>
  BY DEF Register, deviceVars, bufferVars
<1>2. /\ expected' = Append(expected, d)
      /\ minPos' = [minPos EXCEPT ![d] = Len(buffer)]
      /\ regAt' = [regAt EXCEPT ![d] = Len(buffer)]
      /\ early' = [early EXCEPT ![d] = shifted]
  BY DEF Register
<1>3. savePos' = savePos + 0
  BY <1>1, PositionTypes
<1>4. StreamInv'
  BY <1>1, <1>3, SameBytes DEF PacketInv
<1>5. LoopInv'
  BY <1>1 DEF PacketInv, LoopInv
<1>6. Registered' \subseteq Registered \cup {d}
  <2>1. /\ DOMAIN expected = 1 .. Len(expected) /\ DOMAIN expected' = 1 .. Len(expected) + 1
        /\ \A i \in DOMAIN expected : expected'[i] = expected[i]
        /\ expected'[Len(expected) + 1] = d /\ Len(expected) \in Nat
    <3>1. expected \in Seq(Callers)
      BY DEF TypeOK
    <3>2. QED
      BY <1>2, <3>1, AppendProperties
  <2>2. \A i \in DOMAIN expected' : i \in DOMAIN expected \/ i = Len(expected) + 1
    BY <2>1
  <2>3. QED
    BY <2>1, <2>2 DEF Registered
<1>7. ASSUME NEW c \in Registered'
      PROVE  /\ regAt'[c] <= Len(buffer')
             /\ Corrected(c)' <= NotNegative(regAt'[c])
             /\ regAt'[c] - early'[c] <= Corrected(c)'
  <2>1. CASE c # d
    <3>1. c \in Registered /\ minPos'[c] = minPos[c] /\ regAt'[c] = regAt[c] /\ early'[c] = early[c]
      BY <1>2, <1>6, <2>1, PositionTypes DEF TypeOK
    <3>2. Corrected(c)' = Corrected(c)
      BY <1>1, <3>1 DEF Corrected
    <3>3. QED
      BY <1>1, <3>1, <3>2 DEF PacketInv, PositionInv
  <2>2. CASE c = d
    <3>1. Len(buffer) \in Nat /\ shifted \in Nat
      BY PositionTypes
    <3>2. minPos'[c] = Len(buffer) /\ regAt'[c] = Len(buffer) /\ early'[c] = shifted
      BY <1>2, <2>2 DEF TypeOK
    <3>3. Corrected(c)' = NotNegative(Len(buffer) - shifted)
      BY <1>1, <3>2 DEF Corrected
    <3>4. QED
      BY <1>1, <3>1, <3>2, <3>3 DEF NotNegative
  <2>3. QED
    BY <2>1, <2>2
<1>8. QED
  BY <1>4, <1>5, <1>7 DEF PacketInv, PositionInv

\* What the device sends is behind everything in the buffer.
LEMMA DeviceKeepsPackets ==
  ASSUME TypeOK, PacketInv, NEW kind \in Kinds, NEW q \in Cmds \cup {NoCmd}, DeviceSends(kind, q)
  PROVE  PacketInv'
<1>1. UNCHANGED <<buffer, readPos, savePos, shifted, ioPc, expected, minPos, regAt, early>>
  BY DEF DeviceSends, bufferVars, collectVars
<1>2. StreamInv'
  BY DeviceStream DEF PacketInv
<1>3. LoopInv'
  BY <1>1 DEF PacketInv, LoopInv
<1>4. PositionInv'
  BY <1>1 DEF PacketInv, PositionInv, Registered, Corrected
<1>5. QED
  BY <1>2, <1>3, <1>4 DEF PacketInv

\* The IO thread reads at an empty parser, and only adds to the stream.
LEMMA ReadKeepsPackets ==
  ASSUME TypeOK, PacketInv, NEW n \in 0 .. Len(wire), Read(n)
  PROVE  PacketInv'
<1>1. /\ UNCHANGED <<readPos, shifted, expected, minPos, regAt, early, taken>>
      /\ readPos = 0 /\ savePos = 0 /\ savePos' = 0 /\ ioPc' = "parse" /\ shifted = 0
  BY DEF Read, deviceVars, collectVars, PacketInv, LoopInv
<1>2. /\ Len(buffer') = Len(buffer) + n /\ StreamLen' = StreamLen
      /\ \A k \in 1 .. StreamLen : Stream(k)' = Stream(k)
  BY ReadStream
<1>3. StreamInv'
  <2>1. \A k \in Nat : Starts(k)' => Starts(k + 0) /\ Stream(k)' = Stream(k + 0)
    <3>1. ASSUME NEW k \in Nat, Starts(k)'
          PROVE  Starts(k) /\ Stream(k)' = Stream(k)
      <4>1. k \in 1 .. StreamLen /\ Stream(k)'.part = "head"
        BY <1>1, <1>2, <3>1 DEF Starts
      <4>2. QED
        BY <1>1, <1>2, <4>1 DEF Starts
    <3>2. \A k \in Nat : k + 0 = k
      OBVIOUS
    <3>3. QED
      BY <3>1, <3>2
  <2>2. QED
    BY <1>1, <2>1, SameStream DEF PacketInv
<1>4. LoopInv'
  BY <1>1 DEF LoopInv
<1>5. PositionInv'
  <2>1. Len(buffer) <= Len(buffer') /\ Len(buffer') \in Nat
    BY <1>2, PositionTypes
  <2>2. Registered' = Registered /\ \A c : Corrected(c)' = Corrected(c)
    BY <1>1 DEF Registered, Corrected
  <2>3. QED
    BY <1>1, <2>1, <2>2, SamePositions DEF PacketInv
<1>6. QED
  BY <1>3, <1>4, <1>5 DEF PacketInv

\* A packet that is parsed, or found and taken, is committed: the parser's
\* positions meet behind it.
LEMMA OfferKeepsPackets ==
  ASSUME TypeOK, PatternInv, PacketInv, ParsePacket \/ SearchFinds
  PROVE  PacketInv'
<1>1. /\ UNCHANGED <<buffer, shifted, minPos, regAt, early>>
      /\ ioPc \in {"parse", "search"} /\ ioPc' = "parse"
  BY DEF ParsePacket, SearchFinds
<1>2. StreamInv'
  BY ParsePacketStream DEF PacketInv
<1>3. LoopInv'
  BY <1>1 DEF PacketInv, LoopInv
<1>4. Registered' \subseteq Registered
  <2>1. CASE expected' = expected
    BY <2>1 DEF Registered
  <2>2. CASE \E i \in DOMAIN expected : Match(Here.id, i)
    <3>1. PICK i \in DOMAIN expected : Match(Here.id, i)
      BY <2>2
    <3>2. expected' = expected \/ expected' = RemoveAt(expected, i)
      BY <3>1 DEF Match
    <3>3. QED
      BY <2>1, <3>2, DistinctRemoval DEF Registered
  <2>3. QED
    BY <2>1, <2>2, PacketIsOffered
<1>5. PositionInv'
  <2>1. Len(buffer) \in Nat
    BY PositionTypes
  <2>2. QED
    BY <1>1, <1>4, <2>1, SamePositions DEF PacketInv, Corrected
<1>6. QED
  BY <1>2, <1>3, <1>5 DEF PacketInv

\* Bytes are passed by, in parse or in the search, and offered to nobody; or
\* parse waits for more of them.
LEMMA PassingKeepsPackets ==
  ASSUME TypeOK, PacketInv,
         ParseCorrupt \/ ParseStray \/ ParseIncomplete \/ SearchPast \/ ParseEnd
  PROVE  PacketInv'
<1>1. /\ UNCHANGED <<wire, buffer, shifted, expected, minPos, regAt, early, taken>>
      /\ ioPc \in {"parse", "search"} /\ savePos' \in {savePos, readPos}
      /\ ioPc' \in {"parse", "search"} \/ (ioPc' = "shift" /\ readPos' = savePos /\ savePos' = savePos)
  BY DEF ParseCorrupt, ParseStray, ParseIncomplete, SearchPast, ParseEnd, SearchOn, Leave, AtPart,
         deviceVars, collectVars
<1>2. \E d \in Nat : savePos' = savePos + d
  <2>1. savePos + 0 = savePos /\ readPos - savePos \in Nat /\ savePos + (readPos - savePos) = readPos
    BY PositionTypes
  <2>2. QED
    BY <1>1, <2>1
<1>3. StreamInv'
  BY <1>1, <1>2, SameBytes DEF PacketInv
<1>4. LoopInv'
  BY <1>1 DEF PacketInv, LoopInv
<1>5. PositionInv'
  BY <1>1 DEF PacketInv, PositionInv, Registered, Corrected
<1>6. QED
  BY <1>3, <1>4, <1>5 DEF PacketInv

\* The read bytes are dropped, and everything is counted from there.
LEMMA ShiftKeepsPackets ==
  ASSUME TypeOK, PatternInv, PacketInv, Shift
  PROVE  PacketInv'
<1>1. /\ UNCHANGED <<expected, minPos, early, taken>>
      /\ readPos = savePos /\ shifted = 0 /\ shifted' = readPos
      /\ readPos' = 0 /\ savePos' = 0
      /\ ioPc' = IF readPos > 0 THEN "adjust" ELSE "read"
      /\ regAt' = [c \in Callers |-> IF pc[c] = "idle" THEN 0 ELSE regAt[c] - readPos]
  BY DEF Shift, deviceVars, PacketInv, LoopInv
<1>2. /\ Len(buffer') = Len(buffer) - readPos /\ StreamLen' = StreamLen - readPos
      /\ \A k \in 1 .. StreamLen' : Stream(k)' = Stream(k + readPos)
  BY ShiftStream
<1>3. /\ readPos \in Nat /\ Len(buffer) \in Nat /\ StreamLen \in Nat /\ readPos <= Len(buffer)
      /\ \A c \in Registered : minPos[c] \in Nat /\ regAt[c] \in Int /\ early[c] \in Nat
  BY PositionTypes
<1>4. StreamInv'
  <2>1. ASSUME NEW k \in Nat, Starts(k)'
        PROVE  Starts(k + readPos) /\ Stream(k)' = Stream(k + readPos)
    <3>1. k \in 1 .. StreamLen' /\ Stream(k)'.part = "head"
      BY <1>1, <2>1 DEF Starts
    <3>2. Stream(k)' = Stream(k + readPos)
      BY <1>2, <3>1
    <3>3. k \in 1 .. StreamLen - readPos
      BY <1>2, <3>1
    <3>4. k + readPos \in savePos + 1 .. StreamLen
      BY <1>1, <1>3, <3>3
    <3>5. QED
      BY <3>1, <3>2, <3>4 DEF Starts
  <2>2. QED
    BY <1>1, <1>3, <2>1, SameStream DEF PacketInv
<1>5. LoopInv'
  BY <1>1, <1>3 DEF LoopInv
<1>6. ASSUME NEW c \in Registered
      PROVE  /\ regAt'[c] <= Len(buffer')
             /\ Corrected(c)' <= NotNegative(regAt'[c])
             /\ regAt'[c] - early'[c] <= Corrected(c)'
  <2>1. regAt'[c] = regAt[c] - readPos
    BY <1>1, PositionTypes DEF PatternInv, NoDanglingPattern
  <2>2. /\ regAt[c] <= Len(buffer)
        /\ minPos[c] <= NotNegative(regAt[c])
        /\ regAt[c] - early[c] <= minPos[c]
    BY <1>1, <1>3 DEF PacketInv, PositionInv, Corrected, NotNegative
  <2>3. Corrected(c)' = NotNegative(minPos[c] - readPos)
    BY <1>1 DEF Corrected
  <2>4. QED
    <3>1. regAt'[c] <= Len(buffer')
      BY <1>2, <1>3, <2>1, <2>2
    <3>2. Corrected(c)' <= NotNegative(regAt'[c])
      <4>1. minPos[c] - readPos <= NotNegative(regAt[c] - readPos)
        <5>1. CASE regAt[c] < 0
          BY <1>3, <2>2, <5>1 DEF NotNegative
        <5>2. CASE ~(regAt[c] < 0)
          BY <1>3, <2>2, <5>2 DEF NotNegative
        <5>3. QED
          BY <5>1, <5>2
      <4>2. QED
        BY <1>3, <2>1, <2>3, <4>1 DEF NotNegative
    <3>3. regAt'[c] - early'[c] <= Corrected(c)'
      <4>1. early'[c] = early[c]
        BY <1>1
      <4>2. regAt'[c] - early'[c] <= minPos[c] - readPos
        BY <1>3, <2>1, <2>2, <4>1
      <4>3. QED
        BY <1>3, <2>1, <2>3, <4>1, <4>2 DEF NotNegative
    <3>4. QED
      BY <3>1, <3>2, <3>3
<1>7. PositionInv'
  BY <1>1, <1>6 DEF PositionInv, Registered
<1>8. QED
  BY <1>4, <1>5, <1>7 DEF PacketInv

\* The correction that was due is made.
LEMMA AdjustKeepsPackets ==
  ASSUME TypeOK, PacketInv, Adjust
  PROVE  PacketInv'
<1>1. /\ UNCHANGED <<wire, buffer, readPos, savePos, expected, regAt, early, taken>>
      /\ ioPc = "adjust" /\ ioPc' = "read" /\ shifted' = 0
  BY DEF Adjust, deviceVars
<1>2. savePos' = savePos + 0 /\ Len(buffer) \in Nat
  BY <1>1, PositionTypes
<1>3. StreamInv'
  BY <1>1, <1>2, SameBytes DEF PacketInv
<1>4. LoopInv'
  BY <1>1 DEF PacketInv, LoopInv
<1>5. ASSUME NEW c \in Registered
      PROVE  Corrected(c)' = Corrected(c)
  <2>1. c \in Callers /\ minPos[c] \in Nat /\ shifted \in Nat
    BY PositionTypes
  <2>2. minPos'[c] = IF shifted > minPos[c] THEN 0 ELSE minPos[c] - shifted
    BY <2>1 DEF Adjust
  <2>3. minPos'[c] = NotNegative(minPos[c] - shifted) /\ minPos'[c] \in Nat
    BY <2>1, <2>2 DEF NotNegative
  <2>4. Corrected(c)' = NotNegative(minPos'[c] - 0)
    BY <1>1 DEF Corrected
  <2>5. QED
    BY <2>3, <2>4 DEF Corrected, NotNegative
<1>6. Registered' = Registered
  BY <1>1 DEF Registered
<1>7. PositionInv'
  BY <1>1, <1>2, <1>5, <1>6, SamePositions DEF PacketInv
<1>8. QED
  BY <1>3, <1>4, <1>7 DEF PacketInv

\* PacketInv is inductive, together with the types and the patterns.
LEMMA PacketStep ==
  ASSUME TypeOK, TypeOK', PatternInv, PacketInv, [Next]_vars
  PROVE  PacketInv'
<1>1. CASE IoStep
  <2>1. CASE ReadSome
    <3>1. PICK n \in 0 .. Len(wire) : Read(n)
      BY <2>1 DEF ReadSome, TypeOK
    <3>2. QED
      BY <3>1, ReadKeepsPackets
  <2>2. QED
    BY <1>1, <2>1, OfferKeepsPackets, PassingKeepsPackets, ShiftKeepsPackets,
       AdjustKeepsPackets DEF IoStep, ParseStep
<1>2. CASE UNCHANGED vars
  <2>1. /\ UNCHANGED <<packets, wire, buffer, readPos, savePos, shifted, ioPc, taken>>
        /\ UNCHANGED <<expected, minPos, regAt, early>>
    BY <1>2 DEF vars, deviceVars, bufferVars, collectVars
  <2>2. QED
    BY <2>1, QuietStep DEF Registered
<1>3. QED
  BY <1>1, <1>2, CallerKeepsPackets, RegisterKeepsPackets, DeviceKeepsPackets DEF Next, Device

LEMMA PacketAlways == Spec => [](TypeOK /\ PatternInv /\ PacketInv)
<1>1. Init => PacketInv
  <2>1. ASSUME Init
        PROVE  /\ buffer = <<>> /\ wire = <<>> /\ expected = <<>> /\ taken = <<>>
               /\ savePos = 0 /\ readPos = 0 /\ shifted = 0 /\ ioPc = "read"
    BY <2>1 DEF Init
  <2>2. ASSUME Init
        PROVE  StreamInv
    BY <2>1, <2>2 DEF StreamInv, Starts, StreamLen
  <2>3. ASSUME Init
        PROVE  LoopInv /\ PositionInv
    BY <2>1, <2>3 DEF LoopInv, PositionInv, Registered
  <2>4. QED
    BY <2>2, <2>3 DEF PacketInv
<1>2. TypeOK /\ PatternInv /\ PacketInv /\ TypeOK' /\ [Next]_vars => PacketInv'
  BY PacketStep
<1>3. Spec => [](TypeOK /\ PatternInv)
  BY PatternAlways
<1>4. QED
  BY <1>1, <1>2, <1>3, PTL DEF Spec

\* A packet completes or advances at most one command, although the parser
\* goes back to its save point and reads bytes again
\* (WirelessParser.cpp:157), and finds packets in bytes it keeps (:229): what
\* was taken is committed with the packet.
THEOREM OneTakerPerPacket == Spec => []PacketTakenOnce
<1>1. ASSUME StreamInv
      PROVE  PacketTakenOnce
  <2>1. SUFFICES ASSUME NEW id \in DOMAIN taken
                 PROVE  Cardinality(taken[id]) <= 1
    BY DEF PacketTakenOnce
  <2>2. CASE taken[id] = {}
    BY <2>2, FS_EmptySet
  <2>3. CASE \E c \in Callers : taken[id] = {c}
    BY <2>3, FS_Singleton
  <2>4. QED
    BY <1>1, <2>2, <2>3 DEF StreamInv
<1>2. PacketInv => PacketTakenOnce
  BY <1>1 DEF PacketInv
<1>3. QED
  BY <1>2, PacketAlways, PTL

\* Where the parser offers a packet no correction is due.
LEMMA OfferedAtPosition ==
  ASSUME TypeOK, PacketInv, Offers, NEW c \in Registered
  PROVE  /\ minPos[c] \in Nat /\ regAt[c] \in Int /\ readPos \in Nat
         /\ minPos[c] <= NotNegative(regAt[c])
         /\ regAt[c] - early[c] <= minPos[c]
<1>1. ioPc \in {"parse", "search"}
  BY DEF Offers, ParsePacket, SearchPast, SearchFinds
<1>2. shifted = 0 /\ minPos[c] \in Nat /\ regAt[c] \in Int /\ readPos \in Nat
  BY <1>1, PositionTypes DEF PacketInv, LoopInv
<1>3. Corrected(c) = minPos[c]
  BY <1>2 DEF Corrected, NotNegative
<1>4. QED
  BY <1>2, <1>3 DEF PacketInv, PositionInv

\* An offer that has a taker is taken, and only then is anything.
LEMMA OfferedOrPassed ==
  ASSUME TypeOK, Offers
  PROVE  /\ readPos < Len(buffer) /\ Here.part = "head" /\ Here.id \in DOMAIN taken
         /\ \/ Takers(packets[Here.id], readPos) = {} /\ taken' = taken
            \/ \E i \in Takers(packets[Here.id], readPos) :
                 i \in DOMAIN expected /\ taken' = [taken EXCEPT ![Here.id] = @ \cup {expected[i]}]
<1>1. readPos < Len(buffer) /\ Here.part = "head"
  BY DEF Offers, PacketHere, Complete, TypeOK
<1>2. Here.id \in DOMAIN taken
  BY <1>1, HereIsAByte
<1>3. CASE SearchPast
  BY <1>1, <1>2, <1>3 DEF Offers, SearchPast
<1>4. CASE ParsePacket \/ SearchFinds
  BY <1>1, <1>2, <1>4, PacketIsOffered
<1>5. QED
  BY <1>3, <1>4 DEF Offers

\* A reply that starts after its command was registered is taken: correcting
\* the positions, late or stopped at zero, never makes the collector pass it
\* by (ResponseCollector.cpp:63, :151).
THEOREM FreshRepliesAreTaken == Spec => FreshReplyIsTaken
<1>1. ASSUME TypeOK, PacketInv, Offers, NEW c \in Registered,
             Answers(packets[Here.id], c), regAt[c] <= readPos
      PROVE  taken'[Here.id] # {}
  <2>1. minPos[c] <= readPos
    BY <1>1, OfferedAtPosition DEF NotNegative
  <2>2. Takers(packets[Here.id], readPos) # {}
    BY <1>1, <2>1 DEF Takers, Registered
  <2>3. PICK i \in DOMAIN expected : taken' = [taken EXCEPT ![Here.id] = @ \cup {expected[i]}]
    BY <1>1, <2>2, OfferedOrPassed
  <2>4. Here.id \in DOMAIN taken
    BY <1>1, OfferedOrPassed
  <2>5. QED
    BY <2>3, <2>4
<1>2. TypeOK /\ PatternInv /\ PacketInv /\ [Next]_vars =>
        [Offers =>
           \A c \in Registered :
             Answers(packets[Here.id], c) /\ regAt[c] <= readPos => taken'[Here.id] # {}]_vars
  BY <1>1
<1>3. QED
  BY <1>2, PacketAlways, PTL DEF Spec, FreshReplyIsTaken

\* A packet that was in the buffer before a command was registered is not taken
\* for its reply, although nobody takes it and parse() offers it again; but for a
\* pattern registered between the shift of the buffer and the correction of the
\* positions, which is corrected as well, and then lets packets match that are
\* before it by the bytes of that shift (BaseStation_Impl.cpp:285).
THEOREM StaleByOneShift == Spec => StaleWithinOneShift
<1>1. ASSUME TypeOK, PacketInv, NEW c \in Callers, Takes(c)
      PROVE  readPos >= regAt[c] - early[c]
  <2>1. /\ Offers /\ c \in taken'[Here.id]
        /\ readPos < Len(buffer) /\ Here.part = "head" /\ Here.id \in DOMAIN taken
    BY <1>1, OfferedOrPassed DEF Takes
  <2>2. taken[Here.id] = {}
    <3>1. readPos + 1 \in savePos + 1 .. StreamLen /\ readPos + 1 \in Nat /\ Stream(readPos + 1) = Here
      BY <1>1, <2>1, PositionTypes DEF StreamLen, Stream, Here
    <3>2. Starts(readPos + 1)
      BY <2>1, <3>1 DEF Starts
    <3>3. QED
      BY <1>1, <3>1, <3>2 DEF PacketInv, StreamInv
  <2>3. PICK i \in Takers(packets[Here.id], readPos) :
               i \in DOMAIN expected /\ taken' = [taken EXCEPT ![Here.id] = @ \cup {expected[i]}]
    BY <1>1, <2>1, <2>2, OfferedOrPassed
  <2>4. expected[i] = c
    BY <2>1, <2>2, <2>3
  <2>5. c \in Registered /\ minPos[c] <= readPos
    BY <2>3, <2>4 DEF Takers, Registered
  <2>6. early[c] \in Nat
    BY <1>1, PositionTypes
  <2>7. QED
    BY <1>1, <2>1, <2>5, <2>6, OfferedAtPosition
<1>2. TypeOK /\ PatternInv /\ PacketInv /\ [Next]_vars =>
        [\A c \in Callers : Takes(c) => readPos >= regAt[c] - early[c]]_vars
  BY <1>1
<1>3. QED
  BY <1>2, PacketAlways, PTL DEF Spec, StaleWithinOneShift
=============================================================================
