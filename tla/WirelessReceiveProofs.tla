------------------------ MODULE WirelessReceiveProofs ------------------------
(***************************************************************************)
(* For every stream, any number of readers and buffers of any size: the    *)
(* positions stay in order and the buffers bounded, no reader sleeps while *)
(* there are sweeps, and nothing that has come is lost or left behind.     *)
(*                                                                         *)
(* That nobody sleeps rests on what a sleeping reader found, nothing, and  *)
(* on the readers that leave sweeps behind being alone.  That nothing is   *)
(* lost rests on the streams too: no byte inside a packet is the first of  *)
(* another.                                                                *)
(***************************************************************************)
EXTENDS WirelessReceive, TLAPS, SequenceTheorems, WellFoundedInduction

Calls == [at : {"idle", "take", "asleep"}, max : Nat, waits : BOOLEAN,
          count : Nat, notified : BOOLEAN]

CallTypes ==
  /\ call \in [Readers -> Calls]
  /\ dataPackets \in Seq(Nat) /\ discoveries \in Seq(Nat)
  /\ stream \in Streams

\* A reader that asks for a number of sweeps is the only one in a call.
LimitedIsAlone ==
  \A r \in Readers : call[r].at # "idle" /\ call[r].max # 0 =>
    \A o \in Readers \ {r} : call[o].at = "idle"

\* Nobody sleeps while a packet is half read.
NoneSleepsOnARest ==
  mutex = Nobody /\ current # <<>> => \A r \in Readers : call[r].at # "asleep"

TypeInv == TypeOK /\ CallTypes
IInv == TypeInv /\ LimitedIsAlone /\ NoneSleepsOnARest /\ ReadersAreWoken

-----------------------------------------------------------------------------
LEMMA StreamType ==
  ASSUME CallTypes, NEW p \in 1 .. Len(stream)
  PROVE  stream \in Seq(Byte) /\ stream[p] \in Byte /\ stream[p].len \in Nat
<1>1. stream \in Seq(Byte)
  BY ReceiveAssumption DEF ReceiveAssumption, CallTypes
<1>2. stream[p] \in Byte
  BY <1>1
<1> QED
  BY <1>1, <1>2 DEF Byte

\* A packet that parse takes has come completely.
LEMMA WholePacket ==
  ASSUME TypeInv, NEW pos \in 0 .. arrived - 1, Result(pos) \in {"complete", "duplicate"}
  PROVE  /\ pos + 1 \in 1 .. Len(stream) /\ stream[pos + 1].kind \in Packets
         /\ pos + stream[pos + 1].len \in pos .. arrived
<1>1. pos + 1 \in 1 .. Len(stream) /\ arrived \in Nat
  BY DEF TypeInv, TypeOK, CallTypes
<1>2. stream[pos + 1].len \in Nat
  BY <1>1, StreamType DEF TypeInv
<1>3. ~(arrived - pos < stream[pos + 1].len) /\ stream[pos + 1].kind \in Packets
  BY DEF Result
<1> QED
  BY <1>1, <1>2, <1>3

LEMMA Bounds == Capacity \in Nat \ {0} /\ Nobody \notin Readers /\ Limits \subseteq Nat
  BY ReceiveAssumption DEF ReceiveAssumption

LEMMA PushedIsBounded ==
  ASSUME NEW b \in Seq(Nat), Len(b) <= Capacity, NEW p \in Nat
  PROVE  Pushed(b, p) \in Seq(Nat) /\ Len(Pushed(b, p)) <= Capacity /\ Pushed(b, p) # <<>>
<1>1. CASE Len(b) = Capacity
  <2>1. b # <<>> /\ Tail(b) \in Seq(Nat) /\ Len(Tail(b)) = Capacity - 1
    BY <1>1, Bounds
  <2> QED
    BY <1>1, <2>1, Bounds DEF Pushed
<1>2. CASE Len(b) # Capacity
  BY <1>2, Bounds DEF Pushed
<1> QED
  BY <1>1, <1>2

\* The notification changes nothing else of a call.
LEMMA NotifyGives ==
  ASSUME CallTypes, NotifyOne
  PROVE  /\ call' \in [Readers -> Calls]
         /\ \A r \in Readers : call'[r].at = call[r].at /\ call'[r].max = call[r].max
         /\ \A r \in Readers : call[r].notified => call'[r].notified
         /\ Asleep # {} => \E r \in Readers : call'[r].at = "asleep" /\ call'[r].notified
<1>1. CASE Asleep = {}
  BY <1>1 DEF NotifyOne, CallTypes
<1>2. CASE Asleep # {}
  <2>1. PICK r \in Asleep : call' = [call EXCEPT ![r].notified = TRUE]
    BY <1>2 DEF NotifyOne
  <2>2. r \in Readers /\ call[r].at = "asleep" /\ call[r] \in Calls
    BY <2>1 DEF Asleep, CallTypes, NoCall
  <2> QED
    BY <2>1, <2>2 DEF CallTypes, Calls
<1> QED
  BY <1>1, <1>2

-----------------------------------------------------------------------------
(* The type invariant *)

LEMMA InitIInv == Init => IInv
  BY Bounds, ReceiveAssumption DEF ReceiveAssumption, Calls, Init, IInv, TypeInv, TypeOK, CallTypes, NoCall, LimitedIsAlone, NoneSleepsOnARest,
         ReadersAreWoken, Asleep, Byte

LEMMA ProcessKeeps ==
  ASSUME TypeInv, NEW p \in 1 .. Len(stream), stream[p].kind \in Packets, Process(p),
         stream' = stream
  PROVE  /\ CallTypes'
         /\ Len(dataPackets') <= Capacity /\ Len(discoveries') <= Capacity
         /\ \A r \in Readers : call'[r].at = call[r].at /\ call'[r].max = call[r].max
<1> USE DEF TypeInv, TypeOK, CallTypes
<1>1. CASE stream[p].kind = "data"
  <2>1. AddDataPacket(p)
    BY <1>1 DEF Process
  <2> QED
    BY <2>1, PushedIsBounded, NotifyGives DEF AddDataPacket
<1>2. CASE stream[p].kind = "discovery"
  <2>1. AddNodeDiscoveryPacket(p)
    BY <1>2 DEF Process
  <2> QED
    BY <2>1, PushedIsBounded DEF AddNodeDiscoveryPacket
<1>3. CASE stream[p].kind = "reply"
  BY <1>3 DEF Process
<1> QED
  BY <1>1, <1>2, <1>3 DEF Packets

LEMMA InsideIsWhole ==
  ASSUME TypeInv, NEW wanted \in BOOLEAN, NEW q \in FoundInside(wanted), readPos < arrived
  PROVE  q \in readPos + 1 .. arrived - 1 /\ Result(q) = "complete"
<1>1. q \in readPos + 1 .. arrived - MinPacket /\ Result(q) = "complete"
  BY DEF FoundInside, Inside
<1>2. MinPacket \in Nat \ {0} /\ arrived \in Nat /\ readPos \in Nat
  BY ReceiveAssumption DEF ReceiveAssumption, TypeInv, TypeOK
<1> QED
  BY <1>1, <1>2

LEMMA ParseKeepsType ==
  ASSUME TypeInv, ParseStep
  PROVE  TypeInv'
<1>0. /\ Len(stream) \in Nat /\ arrived \in 0 .. Len(stream)
      /\ readPos \in 0 .. arrived /\ savePos \in 0 .. readPos
  BY ReceiveAssumption DEF ReceiveAssumption, TypeInv, TypeOK, CallTypes
<1>1. ASSUME NEW q \in readPos .. arrived - 1, Result(q) = "complete", io = "parse",
             Process(q + 1), MoveTo(q + stream[q + 1].len),
             UNCHANGED <<stream, arrived, io, command, current, mutex, returned, listed>>
      PROVE  TypeInv'
  <2>1. /\ q + 1 \in 1 .. Len(stream) /\ stream[q + 1].kind \in Packets
        /\ q + stream[q + 1].len \in q .. arrived
    BY <1>0, <1>1, WholePacket
  <2> QED
    BY <1>0, <1>1, <2>1, ProcessKeeps DEF MoveTo, TypeInv, TypeOK
<1>2. CASE ParseComplete
  BY <1>0, <1>1, <1>2 DEF ParseComplete, Parsing
<1>3. CASE ParseInside
  <2>1. PICK wanted \in BOOLEAN : \E q \in FoundInside(wanted) :
          Process(q + 1) /\ MoveTo(q + stream[q + 1].len)
    BY <1>3 DEF ParseInside
  <2>2. PICK q \in FoundInside(wanted) : Process(q + 1) /\ MoveTo(q + stream[q + 1].len)
    BY <2>1
  <2>3. q \in readPos + 1 .. arrived - 1 /\ Result(q) = "complete"
    BY <1>3, InsideIsWhole DEF ParseInside, Parsing
  <2> QED
    BY <1>0, <1>1, <1>3, <2>2, <2>3 DEF ParseInside, Parsing
<1>4. CASE ParseDuplicate
  <2>1. readPos + stream[readPos + 1].len \in readPos .. arrived
    BY <1>0, <1>4, WholePacket DEF ParseDuplicate, Parsing
  <2> QED
    BY <1>0, <1>4, <2>1 DEF ParseDuplicate, MoveTo, collector, history, TypeInv, TypeOK, CallTypes
<1>5. CASE ParseAnswer
  <2>1. PICK q \in readPos .. arrived - 1 : MoveTo(q + 1)
    BY <1>5 DEF ParseAnswer, Answers
  <2> QED
    BY <1>0, <1>5, <2>1 DEF ParseAnswer, MoveTo, collector, history, TypeInv, TypeOK, CallTypes
<1>6. CASE ParseInvalid
  BY <1>0, <1>6 DEF ParseInvalid, Parsing, collector, history, TypeInv, TypeOK, CallTypes
<1>7. CASE ParseEnd
  BY <1>0, <1>7 DEF ParseEnd, collector, history, TypeInv, TypeOK, CallTypes
<1> QED
  BY <1>2, <1>3, <1>4, <1>5, <1>6, <1>7 DEF ParseStep

LEMMA ReaderKeepsType ==
  ASSUME TypeInv, NEW r \in Readers,
         ReaderStep(r) \/ \E max \in Limits, waits \in BOOLEAN : GetDataSweeps(r, max, waits)
  PROVE  TypeInv'
<1> USE Bounds DEF parser, history, TypeInv, TypeOK, CallTypes
<1>0. ASSUME NEW c \in Calls, call' = [call EXCEPT ![r] = c],
             \/ mutex' = r /\ mutex \in {r, Nobody} /\ c.at = "take"
             \/ mutex' = Nobody /\ mutex \in {r, Nobody} /\ c.at # "take",
             UNCHANGED <<stream, parser, discoveries>>,
             dataPackets' \in Seq(Nat), Len(dataPackets') <= Capacity
      PROVE  TypeInv'
  <2>1. call' \in [Readers -> Calls]
        /\ \A o \in Readers : call'[o] = IF o = r THEN c ELSE call[o]
    BY <1>0
  <2>2. c.at \in {"idle", "take", "asleep"}
    BY <1>0 DEF Calls
  <2> QED
    BY <1>0, <2>1, <2>2
<1>1. CASE \E max \in Limits, waits \in BOOLEAN : GetDataSweeps(r, max, waits)
  <2>1. PICK max \in Nat, waits \in BOOLEAN : GetDataSweeps(r, max, waits)
    BY <1>1
  <2>2. [NoCall EXCEPT !.at = "take", !.max = max, !.waits = waits] \in Calls
    BY DEF NoCall, Calls
  <2> QED
    BY <1>0, <2>1, <2>2 DEF GetDataSweeps, NoCall
<1>2. CASE TakeSweep(r)
  <2>1. call[r] \in Calls /\ call[r].at = "take"
    BY <1>2 DEF TakeSweep, Taking
  <2>2. call[r].count + 1 \in Nat
    BY <2>1 DEF Calls
  <2>3. [call[r] EXCEPT !.count = @ + 1] \in Calls
        /\ [call[r] EXCEPT !.count = @ + 1].at = "take"
    BY <2>1, <2>2 DEF Calls
  <2> QED
    BY <1>0, <1>2, <2>1, <2>3 DEF TakeSweep
<1>3. CASE NextPacket(r)
  BY <1>3 DEF NextPacket, Taking
<1>4. CASE FallAsleep(r)
  <2>1. call[r] \in Calls /\ call[r].at = "take"
    BY <1>4 DEF FallAsleep, Taking
  <2>2. [call[r] EXCEPT !.at = "asleep", !.notified = FALSE] \in Calls
        /\ [call[r] EXCEPT !.at = "asleep", !.notified = FALSE].at = "asleep"
    BY <2>1 DEF Calls
  <2> QED
    BY <1>0, <1>4, <2>1, <2>2 DEF FallAsleep
<1>5. CASE WakeUp(r)
  <2>1. call[r] \in Calls /\ NoCall \in Calls /\ NoCall.at = "idle"
    BY DEF NoCall, Calls
  <2>2. [call[r] EXCEPT !.at = "take"] \in Calls /\ [call[r] EXCEPT !.at = "take"].at = "take"
    BY <2>1 DEF Calls
  <2>3. CASE dataPackets = <<>>
    <3>1. /\ call' = [call EXCEPT ![r] = NoCall]
          /\ mutex = Nobody /\ mutex' = Nobody /\ dataPackets' = dataPackets
          /\ UNCHANGED <<stream, parser, discoveries>>
      BY <1>5, <2>3 DEF WakeUp
    <3> QED
      BY <1>0, <2>1, <3>1
  <2>4. CASE dataPackets # <<>>
    <3>1. /\ call' = [call EXCEPT ![r].at = "take"]
          /\ mutex = Nobody /\ mutex' = r /\ dataPackets' = Tail(dataPackets)
          /\ UNCHANGED <<stream, parser, discoveries>>
      BY <1>5, <2>4 DEF WakeUp
    <3>2. Tail(dataPackets) \in Seq(Nat) /\ Len(Tail(dataPackets)) <= Capacity
      BY <2>4
    <3> QED
      BY <1>0, <2>2, <3>1, <3>2
  <2> QED
    BY <2>3, <2>4
<1>6. CASE Return(r)
  BY <1>6 DEF Return, NoCall, Calls
<1> QED
  BY <1>1, <1>2, <1>3, <1>4, <1>5, <1>6 DEF ReaderStep

LEMMA TypeKept ==
  ASSUME TypeInv, [Next]_vars
  PROVE  TypeInv'
<1>1. CASE Arrive
  BY <1>1, ReceiveAssumption
  DEF ReceiveAssumption, Arrive, collector, history, TypeInv, TypeOK, CallTypes
<1>2. CASE ParseStep
  BY <1>2, ParseKeepsType
<1>3. CASE SendCommand
  BY <1>3, ReceiveAssumption
  DEF ReceiveAssumption, SendCommand, collector, history, TypeInv, TypeOK, CallTypes
<1>4. CASE GetNodeDiscoveries
  BY <1>4, Bounds DEF GetNodeDiscoveries, parser, TypeInv, TypeOK, CallTypes
<1>5. ASSUME NEW r \in Readers,
             ReaderStep(r) \/ \E max \in Limits, waits \in BOOLEAN : GetDataSweeps(r, max, waits)
      PROVE  TypeInv'
  BY <1>5, ReaderKeepsType
<1>6. CASE UNCHANGED vars
  BY <1>6 DEF vars, parser, collector, history, TypeInv, TypeOK, CallTypes
<1> QED
  BY <1>1, <1>2, <1>3, <1>4, <1>5, <1>6 DEF Next

\* For every stream, whatever the readers and the commands do, the positions stay
\* in order, the buffers do not grow, and one reader at a time takes sweeps.
THEOREM TypeCorrect == Spec => []TypeOK
<1>1. Init => TypeInv
  BY InitIInv DEF IInv
<1>2. TypeInv /\ [Next]_vars => TypeInv'
  BY TypeKept
<1>3. TypeInv => TypeOK
  BY DEF TypeInv
<1> QED
  BY <1>1, <1>2, <1>3, PTL DEF Spec

-----------------------------------------------------------------------------
(* Nobody sleeps while there are sweeps *)

\* What the IO thread and discoveries change leaves the readers where they are.
LEMMA ParserKeepsReaders ==
  ASSUME IInv, ParseStep
  PROVE  LimitedIsAlone' /\ NoneSleepsOnARest' /\ ReadersAreWoken'
<1> USE DEF IInv, TypeInv, CallTypes
<1>1. ASSUME NEW p \in 1 .. Len(stream), stream[p].kind \in Packets, Process(p),
             UNCHANGED <<current, mutex>>
      PROVE  LimitedIsAlone' /\ NoneSleepsOnARest' /\ ReadersAreWoken'
  <2>1. CASE stream[p].kind = "data"
    <3>1. AddDataPacket(p)
      BY <1>1, <2>1 DEF Process
    <3>2. /\ \A r \in Readers : call'[r].at = call[r].at /\ call'[r].max = call[r].max
          /\ Asleep # {} => \E r \in Readers : call'[r].at = "asleep" /\ call'[r].notified
          /\ \A r \in Readers : call[r].notified => call'[r].notified
      BY <3>1, NotifyGives DEF AddDataPacket
    <3>3. Asleep' # {} => Asleep # {}
      BY <3>2 DEF Asleep
    <3> QED
      BY <1>1, <3>2, <3>3 DEF LimitedIsAlone, NoneSleepsOnARest, ReadersAreWoken
  <2>2. CASE stream[p].kind # "data"
    <3>1. UNCHANGED <<dataPackets, call>>
      BY <1>1, <2>2 DEF Process, AddNodeDiscoveryPacket, Packets
    <3> QED
      BY <1>1, <3>1 DEF LimitedIsAlone, NoneSleepsOnARest, ReadersAreWoken, Asleep
  <2> QED
    BY <2>1, <2>2
<1>2. CASE ParseComplete \/ ParseInside
  <2>1. PICK q \in readPos .. arrived - 1 : Result(q) = "complete" /\ Process(q + 1)
    <3>0. arrived \in Nat /\ readPos \in Nat
      BY ReceiveAssumption DEF ReceiveAssumption, TypeOK
    <3>1. CASE ParseComplete
      BY <3>0, <3>1 DEF ParseComplete, Parsing
    <3>2. CASE ParseInside
      BY <3>0, <3>2, InsideIsWhole DEF ParseInside, Parsing
    <3> QED
      BY <1>2, <3>1, <3>2
  <2>2. q \in 0 .. arrived - 1
    BY ReceiveAssumption DEF ReceiveAssumption, TypeOK
  <2> QED
    BY <1>1, <1>2, <2>1, <2>2, WholePacket DEF ParseComplete, ParseInside
<1>3. CASE ParseDuplicate \/ ParseAnswer \/ ParseInvalid \/ ParseEnd
  BY <1>3 DEF ParseDuplicate, ParseAnswer, ParseInvalid, ParseEnd, collector,
              LimitedIsAlone, NoneSleepsOnARest, ReadersAreWoken, Asleep
<1> QED
  BY <1>2, <1>3 DEF ParseStep

\* A step of a reader moves no other one.
LEMMA OthersStay ==
  ASSUME IInv, NEW r \in Readers, ReaderStep(r)
  PROVE  /\ \A o \in Readers \ {r} : call'[o] = call[o]
         /\ call[r].at # "idle"
         /\ call'[r].at # "idle" => call'[r].max = call[r].max
<1>1. call \in [Readers -> Calls]
  BY DEF IInv, TypeInv, CallTypes
<1>2. call[r].at # "idle"
  BY DEF ReaderStep, TakeSweep, NextPacket, FallAsleep, WakeUp, Return, Taking
<1>3. CASE TakeSweep(r)
  BY <1>1, <1>2, <1>3 DEF TakeSweep, Calls
<1>4. CASE NextPacket(r)
  BY <1>1, <1>2, <1>4 DEF NextPacket
<1>5. CASE FallAsleep(r)
  BY <1>1, <1>2, <1>5 DEF FallAsleep, Calls
<1>6. CASE WakeUp(r)
  BY <1>1, <1>2, <1>6 DEF WakeUp, Calls, NoCall
<1>7. CASE Return(r)
  BY <1>1, <1>2, <1>7 DEF Return, NoCall
<1> QED
  BY <1>3, <1>4, <1>5, <1>6, <1>7 DEF ReaderStep

LEMMA ReaderWakes ==
  ASSUME IInv, NEW r \in Readers, ReaderStep(r)
  PROVE  LimitedIsAlone' /\ NoneSleepsOnARest' /\ ReadersAreWoken'
<1>1. LimitedIsAlone'
  BY OthersStay DEF IInv, LimitedIsAlone
<1>2. r # Nobody
  BY Bounds
<1>3. CASE TakeSweep(r) \/ NextPacket(r)
  <2>1. mutex' = r
    BY <1>3 DEF TakeSweep, NextPacket, Taking, IInv, TypeInv, TypeOK
  <2> QED
    BY <1>1, <1>2, <2>1 DEF NoneSleepsOnARest, ReadersAreWoken
<1>4. CASE FallAsleep(r)
  BY <1>1, <1>4 DEF FallAsleep, NoneSleepsOnARest, ReadersAreWoken
<1>5. CASE WakeUp(r)
  <2>1. CASE dataPackets = <<>>
    <3>1. current = <<>> /\ current' = <<>> /\ dataPackets' = <<>>
      BY <1>5, <2>1 DEF WakeUp, IInv, NoneSleepsOnARest
    <3> QED
      BY <1>1, <3>1 DEF NoneSleepsOnARest, ReadersAreWoken
  <2>2. CASE dataPackets # <<>>
    <3>1. mutex' = r
      BY <1>5, <2>2 DEF WakeUp
    <3> QED
      BY <1>1, <1>2, <3>1 DEF NoneSleepsOnARest, ReadersAreWoken
  <2> QED
    BY <2>1, <2>2
<1>6. CASE Return(r)
  <2>1. CASE Taking(r)
    BY <1>1, <1>6, <2>1 DEF Return, NoneSleepsOnARest, ReadersAreWoken
  <2>2. CASE ~Taking(r)
    <3>1. call[r].at = "take" /\ call[r].max # 0
      BY <1>6, <2>2 DEF Return, Taking
    <3>2. \A o \in Readers : call'[o].at = "idle"
      BY <1>6, <3>1, OthersStay DEF IInv, LimitedIsAlone, TypeInv, CallTypes, Return, NoCall
    <3> QED
      BY <1>1, <3>2 DEF NoneSleepsOnARest, ReadersAreWoken, Asleep
  <2> QED
    BY <2>1, <2>2
<1> QED
  BY <1>3, <1>4, <1>5, <1>6 DEF ReaderStep

LEMMA CallIsAlone ==
  ASSUME IInv, "alone" \in Rules, NEW r \in Readers, NEW max \in Limits, NEW waits \in BOOLEAN,
         GetDataSweeps(r, max, waits)
  PROVE  LimitedIsAlone' /\ NoneSleepsOnARest' /\ ReadersAreWoken'
<1>1. /\ \A o \in Readers \ {r} : call'[o] = call[o]
      /\ call'[r].max = max
      /\ \A o \in Readers \ {r} : call[o].at = "idle" \/ (max = 0 /\ call[o].max = 0)
  BY DEF GetDataSweeps, IInv, TypeInv, CallTypes, NoCall
<1>2. mutex' = r /\ r # Nobody
  BY Bounds DEF GetDataSweeps
<1> QED
  BY <1>1, <1>2 DEF IInv, LimitedIsAlone, NoneSleepsOnARest, ReadersAreWoken

LEMMA IInvKept ==
  ASSUME "alone" \in Rules
  PROVE  IInv /\ [Next]_vars => IInv'
<1> SUFFICES ASSUME IInv, [Next]_vars
             PROVE  LimitedIsAlone' /\ NoneSleepsOnARest' /\ ReadersAreWoken'
  BY TypeKept DEF IInv
<1>1. CASE Arrive \/ SendCommand \/ GetNodeDiscoveries \/ UNCHANGED vars
  BY <1>1 DEF Arrive, SendCommand, GetNodeDiscoveries, vars, collector,
              IInv, LimitedIsAlone, NoneSleepsOnARest, ReadersAreWoken, Asleep
<1>2. CASE ParseStep
  BY <1>2, ParserKeepsReaders
<1>3. CASE \E r \in Readers : ReaderStep(r)
  BY <1>3, ReaderWakes
<1>4. CASE \E r \in Readers, max \in Limits, waits \in BOOLEAN : GetDataSweeps(r, max, waits)
  BY <1>4, CallIsAlone
<1> QED
  BY <1>1, <1>2, <1>3, <1>4 DEF Next

\* As long as a reader that asks for a number of sweeps is the only one: while
\* there are sweeps, and nobody takes them, no reader sleeps without being woken.
THEOREM NobodySleepsOnData ==
  ASSUME "alone" \in Rules
  PROVE  Spec => []ReadersAreWoken
<1>1. Init => IInv
  BY InitIInv
<1>2. IInv /\ [Next]_vars => IInv'
  BY IInvKept
<1>3. IInv => ReadersAreWoken
  BY DEF IInv
<1> QED
  BY <1>1, <1>2, <1>3, PTL DEF Spec
-----------------------------------------------------------------------------
(* Nothing is lost.  The parser never stands inside a packet, and passes by *)
(* no data and no discovery without a look, so that m_lastPacketMap tells   *)
(* what was sent last; what it takes goes to the end of its buffer.         *)

Kept == {"data", "discovery"}

\* Position n is not inside a packet.
NotInside(n) ==
  \A p \in 1 .. Len(stream) :
    stream[p].kind \in Packets => n < p \/ p - 1 + stream[p].len <= n

\* The last data packet of its Node and type among the first n bytes.
Latest(q, n) ==
  /\ stream[q].kind = "data"
  /\ \A o \in q + 1 .. n : stream[o].kind = "data" => stream[o].key # stream[q].key

\* m_lastPacketMap tells the id of the last one of each Node and type.
LastIs(n) ==
  /\ \A k \in DOMAIN last : \E q \in 1 .. n :
       Latest(q, n) /\ stream[q].key = k /\ stream[q].id = last[k]
  /\ \A q \in 1 .. n : stream[q].kind = "data" => stream[q].key \in DOMAIN last

\* Nothing of interest is between the save point and the read position.
NoneBetween == \A p \in savePos + 1 .. readPos : stream[p].kind \notin Kept

\* What is in the buffers was sent, and not thrown away.
Buffered ==
  /\ Range(dataPackets) \subseteq Sent("data", savePos)
  /\ pushedOut \subseteq 1 .. savePos
  /\ returned \in Seq(Nat \X Nat) /\ current \in Seq(Nat \X Nat) /\ listed \in Seq(Nat)

\* A packet that parse leaves behind is one sent again.
Repeats(n) ==
  \A p \in n + 1 .. Len(stream) :
    stream[p].kind \in Kept /\ p - 1 + stream[p].len <= arrived
      => stream[p].kind = "data" /\ IsRepeated(p)

ReceiveInv ==
  /\ NotInside(readPos) /\ NotInside(savePos) /\ NoneBetween
  /\ LastIs(savePos)
  /\ Buffered
  /\ NothingIsLost
  /\ io = "read" => Repeats(savePos)

LEMMA StreamTypes ==
  ASSUME TypeInv
  PROVE  /\ Len(stream) \in Nat /\ DOMAIN stream = 1 .. Len(stream)
         /\ arrived \in Nat /\ readPos \in Nat /\ savePos \in Nat
         /\ savePos <= readPos /\ readPos <= arrived /\ arrived <= Len(stream)
         /\ \A p \in 1 .. Len(stream) : stream[p].len \in Nat /\ stream[p].sweeps \in Nat
         /\ \A p \in 1 .. Len(stream) : stream[p].kind \in Packets => stream[p].len >= MinPacket
         /\ MinPacket \in Nat /\ MinPacket >= 1
<1>1. stream \in Streams /\ stream \in Seq(Byte)
  BY ReceiveAssumption DEF ReceiveAssumption, TypeInv, CallTypes
<1>2. \A p \in 1 .. Len(stream) : stream[p] \in Byte
  BY <1>1
<1>3. MinPacket \in Nat /\ MinPacket >= 1
  BY ReceiveAssumption DEF ReceiveAssumption
<1>4. \A p \in 1 .. Len(stream) : stream[p].kind \in Packets => stream[p].len >= MinPacket
  BY <1>1, ReceiveAssumption DEF ReceiveAssumption
<1>5. \A p \in 1 .. Len(stream) : stream[p].len \in Nat /\ stream[p].sweeps \in Nat
  BY <1>2 DEF Byte
<1>6. /\ savePos \in 0 .. readPos /\ readPos \in 0 .. arrived /\ arrived \in 0 .. Len(stream)
      /\ Len(stream) \in Nat /\ DOMAIN stream = 1 .. Len(stream)
  BY <1>1 DEF TypeInv, TypeOK
<1> QED
  BY <1>3, <1>4, <1>5, <1>6

LEMMA Greatest ==
  ASSUME NEW n \in Nat, NEW S, S \subseteq 1 .. n, S # {}
  PROVE  \E x \in S : \A y \in S : y <= x
<1> DEFINE T == {n - x : x \in S}
<1>1. T \subseteq Nat /\ T # {}
  <2>1. \A x \in S : n - x \in Nat
    OBVIOUS
  <2> QED
    BY <2>1
<1>2. PICK t \in T : \A u \in T : <<u, t>> \notin OpToRel(<, Nat)
  <2> HIDE DEF T
  <2> QED
    BY <1>1, NatLessThanWellFounded, WFMin
<1>3. \A u \in T : ~(u < t)
  BY <1>1, <1>2 DEF OpToRel
<1>4. PICK x \in S : t = n - x
  OBVIOUS
<1>5. \A y \in S : y <= x
  BY <1>3, <1>4
<1> QED
  BY <1>5

\* Where a data packet of k is, the last one is.
LEMMA LatestExists ==
  ASSUME TypeInv, NEW n \in 0 .. Len(stream), NEW m \in 1 .. n, stream[m].kind = "data"
  PROVE  \E q \in m .. n : Latest(q, n) /\ stream[q].key = stream[m].key
<1> DEFINE S == {q \in m .. n : stream[q].kind = "data" /\ stream[q].key = stream[m].key}
<1>1. n \in Nat /\ S \subseteq 1 .. n /\ m \in S
  OBVIOUS
<1>2. PICK q \in S : \A y \in S : y <= q
  <2> HIDE DEF S
  <2> QED
    BY <1>1, Greatest
<1>3. ASSUME NEW o \in q + 1 .. n, stream[o].kind = "data"
      PROVE  stream[o].key # stream[q].key
  BY <1>2, <1>3
<1> QED
  BY <1>2, <1>3 DEF Latest

\* Packets sent again do not change what was sent last.
LEMMA SkipRepeats ==
  ASSUME TypeInv, NEW n \in 0 .. Len(stream), NEW m \in n .. Len(stream), LastIs(n),
         \A p \in n + 1 .. m : stream[p].kind = "data" => Duplicate(stream[p])
  PROVE  LastIs(m)
<1>0. Len(stream) \in Nat
  BY StreamTypes
<1>1. ASSUME NEW q \in 1 .. m, stream[q].kind = "data"
      PROVE  stream[q].key \in DOMAIN last
  <2>1. CASE q \in 1 .. n
    BY <1>1, <2>1 DEF LastIs
  <2>2. CASE q \in n + 1 .. m
    BY <1>1, <2>2 DEF Duplicate
  <2> QED
    BY <2>1, <2>2
<1>2. ASSUME NEW k \in DOMAIN last
      PROVE  \E q \in 1 .. m : Latest(q, m) /\ stream[q].key = k /\ stream[q].id = last[k]
  <2>1. PICK q \in 1 .. n : Latest(q, n) /\ stream[q].key = k /\ stream[q].id = last[k]
    BY DEF LastIs
  <2>2. PICK o \in q .. m : Latest(o, m) /\ stream[o].key = k
    <3>1. q \in 1 .. m /\ m \in 0 .. Len(stream) /\ stream[q].kind = "data"
      BY <1>0, <2>1 DEF Latest
    <3> QED
      BY <2>1, <3>1, LatestExists
  <2>3. o \in 1 .. m /\ stream[o].kind = "data"
    BY <2>2 DEF Latest
  <2>4. CASE o \in n + 1 .. m
    BY <2>2, <2>3, <2>4 DEF Duplicate
  <2>5. CASE o \in q + 1 .. n
    BY <2>1, <2>2, <2>3, <2>5 DEF Latest
  <2>6. CASE o = q
    BY <2>1, <2>2, <2>3, <2>6
  <2> QED
    BY <2>2, <2>4, <2>5, <2>6
<1> QED
  BY <1>1, <1>2 DEF LastIs

\* A duplicate is a packet sent again, and the other way round.
LEMMA RepeatIsDuplicate ==
  ASSUME TypeInv, NEW p \in 1 .. Len(stream), stream[p].kind = "data", LastIs(p - 1)
  PROVE  Duplicate(stream[p]) <=> IsRepeated(p)
<1> DEFINE b == stream[p]
<1>0. Len(stream) \in Nat
  BY StreamTypes
<1>1. ASSUME Duplicate(b)
      PROVE  IsRepeated(p)
  <2>1. b.key \in DOMAIN last /\ last[b.key] = b.id
    BY <1>1 DEF Duplicate
  <2>2. PICK q \in 1 .. p - 1 : Latest(q, p - 1) /\ stream[q].key = b.key /\ stream[q].id = last[b.key]
    BY <2>1 DEF LastIs
  <2> QED
    BY <2>1, <2>2 DEF IsRepeated, Latest
<1>2. ASSUME IsRepeated(p)
      PROVE  Duplicate(b)
  <2>1. PICK q \in 1 .. p - 1 : /\ Latest(q, p - 1) /\ stream[q].key = b.key /\ stream[q].id = b.id
    BY <1>2 DEF IsRepeated, Latest
  <2>2. b.key \in DOMAIN last
    BY <2>1 DEF LastIs, Latest
  <2>3. PICK o \in 1 .. p - 1 : /\ Latest(o, p - 1) /\ stream[o].key = b.key /\ stream[o].id = last[b.key]
    BY <2>2 DEF LastIs
  <2>4. o = q
    <3>1. ~(o \in q + 1 .. p - 1) /\ ~(q \in o + 1 .. p - 1)
      BY <2>1, <2>3 DEF Latest
    <3> QED
      BY <3>1, <1>0
  <2> QED
    BY <2>1, <2>2, <2>3, <2>4 DEF Duplicate
<1> QED
  BY <1>1, <1>2

\* What the search passes by in front of p are packets sent again.
LEMMA SkippedAreRepeated ==
  ASSUME TypeInv, NEW n \in 0 .. Len(stream), NEW m \in n .. Len(stream), LastIs(n),
         \A p \in n + 1 .. m : stream[p].kind \in Kept => stream[p].kind = "data" /\ Duplicate(stream[p])
  PROVE  \A p \in n + 1 .. m : stream[p].kind \in Kept => stream[p].kind = "data" /\ IsRepeated(p)
<1> SUFFICES ASSUME NEW p \in n + 1 .. m, stream[p].kind \in Kept
             PROVE  stream[p].kind = "data" /\ IsRepeated(p)
  OBVIOUS
<1>1. stream[p].kind = "data" /\ Duplicate(stream[p])
  OBVIOUS
<1>2. p \in 1 .. Len(stream) /\ p - 1 \in n .. Len(stream)
  BY StreamTypes
<1>3. LastIs(p - 1)
  <2>1. \A o \in n + 1 .. p - 1 : stream[o].kind = "data" => Duplicate(stream[o])
    <3>1. n + 1 .. p - 1 \subseteq n + 1 .. m
      OBVIOUS
    <3> QED
      BY <3>1 DEF Kept
  <2> QED
    BY <1>2, <2>1, SkipRepeats
<1> QED
  BY <1>1, <1>2, <1>3, RepeatIsDuplicate

-----------------------------------------------------------------------------
\* The elements of two sequences one after the other.
LEMMA ConcatElements ==
  ASSUME NEW S, NEW a \in Seq(S), NEW b \in Seq(S)
  PROVE  /\ a \o b \in Seq(S) /\ DOMAIN (a \o b) = 1 .. Len(a) + Len(b)
         /\ DOMAIN a = 1 .. Len(a) /\ DOMAIN b = 1 .. Len(b) /\ Len(a) \in Nat /\ Len(b) \in Nat
         /\ \A i \in DOMAIN a : (a \o b)[i] = a[i] /\ i \in DOMAIN (a \o b)
         /\ \A i \in DOMAIN b : (a \o b)[Len(a) + i] = b[i] /\ Len(a) + i \in DOMAIN (a \o b)
         /\ \A i \in DOMAIN (a \o b) :
              \/ i \in DOMAIN a
              \/ i - Len(a) \in DOMAIN b /\ i = Len(a) + (i - Len(a))
         /\ Range(a \o b) = Range(a) \cup Range(b)
<1> DEFINE c == a \o b
<1>1. /\ c \in Seq(S) /\ Len(c) = Len(a) + Len(b)
      /\ \A i \in 1 .. Len(a) + Len(b) : c[i] = IF i <= Len(a) THEN a[i] ELSE b[i - Len(a)]
  BY ConcatProperties, Zenon
<1> HIDE DEF c
<1>2. DOMAIN c = 1 .. Len(a) + Len(b) /\ DOMAIN a = 1 .. Len(a) /\ DOMAIN b = 1 .. Len(b)
      /\ Len(a) \in Nat /\ Len(b) \in Nat
  BY <1>1
<1>3. \A i \in DOMAIN a : c[i] = a[i] /\ i \in DOMAIN c
  BY <1>1, <1>2
<1>4. \A i \in DOMAIN b : c[Len(a) + i] = b[i] /\ Len(a) + i \in DOMAIN c
  <2> TAKE i \in DOMAIN b
  <2>1. Len(a) + i \in 1 .. Len(a) + Len(b) /\ ~(Len(a) + i <= Len(a)) /\ (Len(a) + i) - Len(a) = i
    BY <1>2
  <2> QED
    BY <1>1, <1>2, <2>1
<1>5. \A i \in DOMAIN c : i \in DOMAIN a \/ (i - Len(a) \in DOMAIN b /\ i = Len(a) + (i - Len(a)))
  BY <1>2
<1>6. Range(c) = Range(a) \cup Range(b)
  <2>1. \A i \in DOMAIN c : c[i] \in Range(a) \cup Range(b)
    BY <1>3, <1>4, <1>5 DEF Range
  <2>2. \A x \in Range(a) \cup Range(b) : x \in Range(c)
    BY <1>3, <1>4 DEF Range
  <2> QED
    BY <2>1, <2>2 DEF Range
<1> QED
  BY <1>1, <1>2, <1>3, <1>4, <1>5, <1>6 DEF c

\* Two sequences one after the other increase if each does and the first ends
\* before the second.
LEMMA ConcatIncreasing ==
  ASSUME NEW a \in Seq(Nat), NEW b \in Seq(Nat)
  PROVE  Increasing(a \o b) <=>
           /\ Increasing(a) /\ Increasing(b)
           /\ \A i \in DOMAIN a, j \in DOMAIN b : a[i] < b[j]
<1> DEFINE c == a \o b
<1>1. /\ DOMAIN a = 1 .. Len(a) /\ DOMAIN b = 1 .. Len(b) /\ Len(a) \in Nat /\ Len(b) \in Nat
      /\ \A i \in DOMAIN a : c[i] = a[i] /\ i \in DOMAIN c
      /\ \A i \in DOMAIN b : c[Len(a) + i] = b[i] /\ Len(a) + i \in DOMAIN c
      /\ \A i \in DOMAIN c : \/ i \in DOMAIN a
                             \/ i - Len(a) \in DOMAIN b /\ i = Len(a) + (i - Len(a))
  BY ConcatElements
<1>0. DOMAIN c = 1 .. Len(a) + Len(b)
  BY ConcatElements
<1> HIDE DEF c
<1>2. ASSUME Increasing(c)
      PROVE  /\ Increasing(a) /\ Increasing(b)
             /\ \A i \in DOMAIN a, j \in DOMAIN b : a[i] < b[j]
  <2>1. Increasing(a)
    BY <1>1, <1>2 DEF Increasing
  <2>2. Increasing(b)
    <3>1. ASSUME NEW i \in DOMAIN b, NEW j \in DOMAIN b, i < j
          PROVE  b[i] < b[j]
      <4>1. Len(a) + i < Len(a) + j
        BY <1>1, <3>1
      <4>2. c[Len(a) + i] < c[Len(a) + j]
        BY <1>1, <1>2, <4>1 DEF Increasing
      <4> QED
        BY <1>1, <4>2
    <3> QED
      BY <3>1 DEF Increasing
  <2>3. ASSUME NEW i \in DOMAIN a, NEW j \in DOMAIN b
        PROVE  a[i] < b[j]
    <3>1. i < Len(a) + j
      BY <1>1
    <3>2. c[i] < c[Len(a) + j]
      BY <1>1, <1>2, <3>1 DEF Increasing
    <3> QED
      BY <1>1, <3>2
  <2> QED
    BY <2>1, <2>2, <2>3
<1>3. ASSUME Increasing(a), Increasing(b), \A i \in DOMAIN a, j \in DOMAIN b : a[i] < b[j]
      PROVE  Increasing(c)
  <2> SUFFICES ASSUME NEW i \in DOMAIN c, NEW j \in DOMAIN c, i < j
               PROVE  c[i] < c[j]
    BY DEF Increasing
  <2>1. CASE i \in DOMAIN a /\ j \in DOMAIN a
    BY <1>1, <1>3, <2>1 DEF Increasing
  <2>2. CASE i \in DOMAIN a /\ j - Len(a) \in DOMAIN b /\ j = Len(a) + (j - Len(a))
    BY <1>1, <1>3, <2>2
  <2>3. CASE i - Len(a) \in DOMAIN b /\ j - Len(a) \in DOMAIN b
             /\ i = Len(a) + (i - Len(a)) /\ j = Len(a) + (j - Len(a))
    <3>1. i - Len(a) < j - Len(a)
      BY <1>1, <2>3
    <3>2. b[i - Len(a)] < b[j - Len(a)]
      BY <1>3, <2>3, <3>1 DEF Increasing
    <3>3. c[i] = b[i - Len(a)] /\ c[j] = b[j - Len(a)]
      BY <1>1, <2>3
    <3> QED
      BY <3>2, <3>3
  <2>4. ~(i - Len(a) \in DOMAIN b /\ j \in DOMAIN a)
    BY <1>1, <1>0
  <2> QED
    BY <1>1, <2>1, <2>2, <2>3, <2>4
<1> QED
  BY <1>2, <1>3 DEF c

\* Taking the first element off the second sequence to the end of the first.
LEMMA ConcatMoves ==
  ASSUME NEW S, NEW a \in Seq(S), NEW b \in Seq(S), b # <<>>
  PROVE  Append(a, Head(b)) \o Tail(b) = a \o b
<1>1. /\ Tail(b) \in Seq(S) /\ Len(Tail(b)) = Len(b) - 1 /\ Head(b) = b[1] /\ Head(b) \in S
      /\ \A i \in 1 .. Len(b) - 1 : Tail(b)[i] = b[i + 1]
      /\ Len(a) \in Nat /\ Len(b) \in Nat /\ Len(b) >= 1
  OBVIOUS
<1> DEFINE x == Append(a, Head(b))
           y == Tail(b)
<1>2. /\ x \in Seq(S) /\ Len(x) = Len(a) + 1
      /\ \A i \in 1 .. Len(a) : x[i] = a[i]
      /\ x[Len(a) + 1] = b[1]
  BY <1>1, AppendProperties
<1>3. y \in Seq(S) /\ Len(y) = Len(b) - 1 /\ \A i \in 1 .. Len(b) - 1 : y[i] = b[i + 1]
  BY <1>1
<1> HIDE DEF x, y
<1>4. /\ x \o y \in Seq(S) /\ Len(x \o y) = Len(x) + Len(y)
      /\ \A i \in 1 .. Len(x) + Len(y) : (x \o y)[i] = IF i <= Len(x) THEN x[i] ELSE y[i - Len(x)]
  BY <1>2, <1>3, ConcatProperties, Zenon
<1>5. /\ a \o b \in Seq(S) /\ Len(a \o b) = Len(a) + Len(b)
      /\ \A i \in 1 .. Len(a) + Len(b) : (a \o b)[i] = IF i <= Len(a) THEN a[i] ELSE b[i - Len(a)]
  BY ConcatProperties, Zenon
<1>6. Len(x) + Len(y) = Len(a) + Len(b)
  BY <1>1, <1>2, <1>3
<1>7. ASSUME NEW i \in 1 .. Len(a) + Len(b)
      PROVE  (x \o y)[i] = (a \o b)[i]
  <2>1. CASE i <= Len(a)
    <3>1. i \in 1 .. Len(a) /\ i \in 1 .. Len(x) + Len(y) /\ i <= Len(x)
      BY <1>1, <1>2, <1>6, <2>1
    <3>2. (x \o y)[i] = x[i] /\ (a \o b)[i] = a[i]
      BY <1>4, <1>5, <2>1, <3>1
    <3> QED
      BY <1>2, <3>1, <3>2
  <2>2. CASE i = Len(a) + 1
    <3>1. (x \o y)[i] = x[i] /\ (a \o b)[i] = b[i - Len(a)] /\ i - Len(a) = 1
      BY <1>1, <1>2, <1>4, <1>5, <1>6, <2>2
    <3>2. x[i] = b[1]
      BY <1>2, <2>2
    <3> QED
      BY <3>1, <3>2
  <2>3. CASE i > Len(a) + 1
    <3>1. (x \o y)[i] = y[i - (Len(a) + 1)] /\ (a \o b)[i] = b[i - Len(a)]
      BY <1>1, <1>2, <1>4, <1>5, <1>6, <2>3
    <3>2. i - (Len(a) + 1) \in 1 .. Len(b) - 1 /\ (i - (Len(a) + 1)) + 1 = i - Len(a)
      BY <1>1, <2>3
    <3> QED
      BY <1>3, <3>1, <3>2
  <2>4. i <= Len(a) \/ i = Len(a) + 1 \/ i > Len(a) + 1
    BY <1>1
  <2> QED
    BY <2>1, <2>2, <2>3, <2>4, Zenon
<1>8. x \o y = a \o b
  <2> DEFINE c == x \o y
             d == a \o b
  <2>1. c \in Seq(S) /\ d \in Seq(S) /\ Len(c) = Len(d) /\ \A i \in 1 .. Len(c) : c[i] = d[i]
    BY <1>4, <1>5, <1>6, <1>7
  <2> HIDE DEF c, d
  <2>2. c = d
    BY <2>1, SeqEqual
  <2> QED
    BY <2>2 DEF c, d
<1> QED
  BY <1>8 DEF x, y

\* A packet that is stored is the last one; the one that is thrown away was the
\* first.
LEMMA PushedGives ==
  ASSUME NEW b \in Seq(Nat), NEW p \in Nat, Increasing(b), \A i \in DOMAIN b : b[i] < p
  PROVE  /\ Pushed(b, p) \in Seq(Nat) /\ Increasing(Pushed(b, p))
         /\ Range(Pushed(b, p)) = (Range(b) \ Thrown(b)) \cup {p}
         /\ Thrown(b) \subseteq Range(b)
<1> DEFINE t == IF Len(b) = Capacity THEN Tail(b) ELSE b
<1>1. /\ t \in Seq(Nat) /\ Increasing(t) /\ Range(t) = Range(b) \ Thrown(b)
      /\ Thrown(b) \subseteq Range(b)
  <2>1. CASE Len(b) = Capacity
    <3>1. /\ Tail(b) \in Seq(Nat) /\ DOMAIN Tail(b) = 1 .. Len(b) - 1 /\ Head(b) = b[1]
          /\ \A i \in 1 .. Len(b) - 1 : Tail(b)[i] = b[i + 1]
          /\ Len(b) \in Nat /\ Len(b) >= 1 /\ DOMAIN b = 1 .. Len(b)
      BY <2>1, Bounds
    <3>2. t = Tail(b) /\ Thrown(b) = {b[1]}
      BY <2>1, <3>1 DEF Thrown
    <3>3. Increasing(Tail(b))
      <4>1. ASSUME NEW i \in 1 .. Len(b) - 1, NEW j \in 1 .. Len(b) - 1, i < j
            PROVE  b[i + 1] < b[j + 1]
        BY <3>1, <4>1 DEF Increasing
      <4> QED
        BY <3>1, <4>1 DEF Increasing
    <3>4. Range(Tail(b)) = Range(b) \ {b[1]}
      <4>1. ASSUME NEW i \in 1 .. Len(b) - 1
            PROVE  Tail(b)[i] \in Range(b) \ {b[1]}
        <5>1. 1 \in DOMAIN b /\ i + 1 \in DOMAIN b /\ 1 < i + 1
          BY <3>1
        <5>2. b[1] < b[i + 1] /\ b[1] \in Nat /\ b[i + 1] \in Nat
          BY <5>1 DEF Increasing
        <5> QED
          BY <3>1, <5>1, <5>2 DEF Range
      <4>2. ASSUME NEW i \in DOMAIN b, b[i] # b[1]
            PROVE  b[i] \in Range(Tail(b))
        <5>1. i - 1 \in 1 .. Len(b) - 1 /\ (i - 1) + 1 = i
          BY <3>1, <4>2
        <5> QED
          BY <3>1, <5>1 DEF Range
      <4> QED
        BY <3>1, <4>1, <4>2 DEF Range
    <3>5. b[1] \in Range(b)
      BY <3>1 DEF Range
    <3> QED
      BY <3>1, <3>2, <3>3, <3>4, <3>5
  <2>2. CASE Len(b) # Capacity
    BY <2>2 DEF Thrown
  <2> QED
    BY <2>1, <2>2
<1>2. Pushed(b, p) = Append(t, p)
  BY DEF Pushed
<1> HIDE DEF t
<1>3. \A i \in DOMAIN t : t[i] < p
  <2>1. \A i \in DOMAIN t : t[i] \in Range(b)
    BY <1>1 DEF Range
  <2> QED
    BY <2>1 DEF Range
<1>4. /\ Append(t, p) \in Seq(Nat) /\ DOMAIN Append(t, p) = 1 .. Len(t) + 1 /\ DOMAIN t = 1 .. Len(t)
      /\ \A i \in DOMAIN t : Append(t, p)[i] = t[i] /\ Append(t, p)[Len(t) + 1] = p
      /\ Append(t, p)[Len(t) + 1] = p /\ Len(t) \in Nat
  BY <1>1, AppendProperties
<1> DEFINE a == Append(t, p)
<1>5. \A i \in DOMAIN a : i \in DOMAIN t \/ i = Len(t) + 1
  BY <1>4
<1>6. Increasing(a)
  <2> SUFFICES ASSUME NEW i \in DOMAIN a, NEW j \in DOMAIN a, i < j
               PROVE  a[i] < a[j]
    BY DEF Increasing
  <2>1. CASE j = Len(t) + 1
    <3>1. i \in DOMAIN t
      BY <1>4, <2>1
    <3> QED
      BY <1>3, <1>4, <2>1, <3>1
  <2>2. CASE j \in DOMAIN t
    <3>1. i \in DOMAIN t
      BY <1>4, <2>2
    <3> QED
      BY <1>1, <1>4, <2>2, <3>1 DEF Increasing
  <2> QED
    BY <1>5, <2>1, <2>2
<1>7. Range(a) = Range(t) \cup {p}
  BY <1>4, <1>5 DEF Range
<1> QED
  BY <1>1, <1>2, <1>4, <1>6, <1>7

-----------------------------------------------------------------------------
(* The steps of the parser *)

\* Below a position that is not inside a packet every packet has come whole.
LEMMA SentUpTo ==
  ASSUME TypeInv, NEW n \in 0 .. Len(stream), NotInside(n), NEW kind \in Packets
  PROVE  Sent(kind, n) = {p \in 1 .. n : /\ stream[p].kind = kind /\ p \notin pushedOut
                                         /\ (kind = "data" => ~IsRepeated(p))}
<1>1. ASSUME NEW p \in 1 .. n, stream[p].kind = kind
      PROVE  p - 1 + stream[p].len <= n
  <2>1. p \in 1 .. Len(stream) /\ ~(n < p)
    BY StreamTypes
  <2> QED
    BY <1>1, <2>1 DEF NotInside
<1> QED
  BY <1>1 DEF Sent

\* The sweeps of packets.
LEMMA SweepsMember ==
  ASSUME NEW P
  PROVE  \A x : x \in Sweeps(P) <=> \E p \in P : \E k \in 1 .. stream[p].sweeps : x = <<p, k>>
BY DEF Sweeps

\* Of a packet that has been stored, or was, nothing changes when the save point
\* moves on over packets sent again.
LEMMA PassBy ==
  ASSUME TypeInv, ReceiveInv,
         UNCHANGED <<stream, last, dataPackets, discoveries, current, returned, listed, pushedOut>>,
         NEW m \in savePos .. Len(stream), savePos' = m, NotInside(m),
         \A p \in savePos + 1 .. m :
           stream[p].kind \in Kept => stream[p].kind = "data" /\ Duplicate(stream[p])
  PROVE  NotInside(savePos)' /\ LastIs(savePos)' /\ Buffered' /\ NothingIsLost'
<1>0. /\ Len(stream) \in Nat /\ savePos \in 0 .. Len(stream) /\ m \in 0 .. Len(stream)
      /\ savePos \in Nat /\ m \in Nat /\ savePos <= m
  BY StreamTypes
<1>1. NotInside(savePos)'
  BY DEF NotInside
<1>2. LastIs(savePos)'
  <2>1. LastIs(m)
    BY <1>0, SkipRepeats DEF ReceiveInv, Kept
  <2> QED
    BY <2>1 DEF LastIs, Latest
<1>3. \A p \in savePos + 1 .. m : stream[p].kind \in Kept => stream[p].kind = "data" /\ IsRepeated(p)
  BY <1>0, SkippedAreRepeated DEF ReceiveInv
<1>4. ASSUME NEW kind \in Kept
      PROVE  Sent(kind, m) = Sent(kind, savePos)
  <2>1. kind \in Packets
    BY <1>4 DEF Kept, Packets
  <2>2. Sent(kind, m) = {p \in 1 .. m : /\ stream[p].kind = kind /\ p \notin pushedOut
                                        /\ (kind = "data" => ~IsRepeated(p))}
    BY <1>0, <2>1, SentUpTo
  <2>3. Sent(kind, savePos) = {p \in 1 .. savePos : /\ stream[p].kind = kind /\ p \notin pushedOut
                                                    /\ (kind = "data" => ~IsRepeated(p))}
    BY <1>0, <2>1, SentUpTo DEF ReceiveInv
  <2>4. \A p \in 1 .. m : p \in 1 .. savePos \/ p \in savePos + 1 .. m
    BY <1>0
  <2>5. 1 .. savePos \subseteq 1 .. m
    BY <1>0
  <2> QED
    BY <1>3, <2>2, <2>3, <2>4, <2>5
<1>5. \A kind : Sent(kind, savePos)' = Sent(kind, m)
  BY DEF Sent, IsRepeated
<1>6. Sent("data", savePos)' = Sent("data", savePos) /\ Sent("discovery", savePos)' = Sent("discovery", savePos)
  BY <1>4, <1>5 DEF Kept
<1>7. Buffered'
  <2>1. 1 .. savePos \subseteq 1 .. m
    BY <1>0
  <2> QED
    BY <1>6, <2>1 DEF ReceiveInv, Buffered
<1>8. OnceAndInOrder'
  BY DEF ReceiveInv, NothingIsLost, OnceAndInOrder, Taken, Increasing
<1>9. AllOf(savePos)'
  BY <1>6 DEF ReceiveInv, NothingIsLost, AllOf, Taken, Sweeps
<1> QED
  BY <1>1, <1>2, <1>7, <1>8, <1>9 DEF NothingIsLost

\* What is where, as the invariant has it.
LEMMA WhatIsStored ==
  ASSUME TypeInv, ReceiveInv
  PROVE  /\ Taken \in Seq(Nat \X Nat)
         /\ dataPackets \in Seq(Nat) /\ discoveries \in Seq(Nat) /\ listed \o discoveries \in Seq(Nat)
         /\ \A i \in DOMAIN Taken : /\ Taken[i][1] \in Sent("data", savePos)
                                    /\ Taken[i][1] \in Nat /\ Taken[i][2] \in Nat
         /\ \A i \in DOMAIN dataPackets : dataPackets[i] \in Sent("data", savePos)
         /\ \A i \in DOMAIN discoveries : discoveries[i] \in Sent("discovery", savePos)
         /\ \A i \in DOMAIN listed : listed[i] \in Sent("discovery", savePos)
<1>1. Taken \in Seq(Nat \X Nat)
  BY ConcatProperties DEF ReceiveInv, Buffered, Taken
<1>2. dataPackets \in Seq(Nat) /\ discoveries \in Seq(Nat)
  BY DEF TypeInv, CallTypes
<1>3. listed \o discoveries \in Seq(Nat)
  BY <1>2, ConcatProperties DEF ReceiveInv, Buffered
<1>4. ASSUME NEW i \in DOMAIN Taken
      PROVE  Taken[i][1] \in Sent("data", savePos) /\ Taken[i][1] \in Nat /\ Taken[i][2] \in Nat
  <2>1. Taken[i] \in Sweeps(Sent("data", savePos))
    BY DEF ReceiveInv, NothingIsLost, AllOf, Range
  <2>2. PICK p \in Sent("data", savePos) : \E k \in 1 .. stream[p].sweeps : Taken[i] = <<p, k>>
    BY <2>1, SweepsMember
  <2>3. Taken[i] \in Nat \X Nat
    BY <1>1
  <2> QED
    BY <2>2, <2>3
<1>5. /\ \A i \in DOMAIN dataPackets : dataPackets[i] \in Sent("data", savePos)
      /\ \A i \in DOMAIN discoveries : discoveries[i] \in Sent("discovery", savePos)
      /\ \A i \in DOMAIN listed : listed[i] \in Sent("discovery", savePos)
  BY DEF ReceiveInv, NothingIsLost, AllOf, Buffered, Range
<1> QED
  BY <1>1, <1>2, <1>3, <1>4, <1>5

\* A packet behind the save point that is taken.  p is its first byte, m its end.
LEMMA TakeData ==
  ASSUME TypeInv, ReceiveInv, stream' = stream,
         UNCHANGED <<current, returned, listed>>,
         NEW p \in savePos + 1 .. Len(stream), NEW m \in p .. Len(stream),
         m = p - 1 + stream[p].len, savePos' = m, NotInside(m),
         stream[p].kind = "data", ~Duplicate(stream[p]),
         Process(p),
         \A o \in savePos + 1 .. p - 1 :
           stream[o].kind \in Kept => stream[o].kind = "data" /\ Duplicate(stream[o]),
         \A o \in p + 1 .. m : stream[o].kind \notin Kept
  PROVE  NotInside(savePos)' /\ LastIs(savePos)' /\ Buffered' /\ NothingIsLost'
<1>0. /\ Len(stream) \in Nat /\ savePos \in Nat /\ m \in Nat /\ p \in Nat
      /\ savePos \in 0 .. Len(stream) /\ p - 1 \in savePos .. Len(stream) /\ p \in 1 .. Len(stream)
      /\ p <= m /\ savePos < p
  BY StreamTypes
<1>1. NotInside(savePos)'
  BY DEF NotInside
<1>2. LastIs(p - 1)
  BY <1>0, SkipRepeats DEF ReceiveInv, Kept
<1>3. ~IsRepeated(p)
  BY <1>0, <1>2, RepeatIsDuplicate
<1>4. /\ AddDataPacket(p)
      /\ last' = [k \in DOMAIN last \cup {stream[p].key} |->
                    IF k = stream[p].key THEN stream[p].id ELSE last[k]]
  BY DEF Process
<1>5. LastIs(savePos)'
  <2>1. ASSUME NEW q \in 1 .. m, stream[q].kind = "data"
        PROVE  stream[q].key \in DOMAIN last'
    <3>1. q \in 1 .. p - 1 \/ q = p \/ q \in p + 1 .. m
      BY <1>0
    <3> QED
      BY <1>2, <1>4, <2>1, <3>1 DEF LastIs, Kept
  <2>2. ASSUME NEW k \in DOMAIN last'
        PROVE  \E q \in 1 .. m : Latest(q, m) /\ stream[q].key = k /\ stream[q].id = last'[k]
    <3>1. CASE k = stream[p].key
      <4>1. Latest(p, m) /\ p \in 1 .. m
        BY <1>0 DEF Latest, Kept
      <4> QED
        BY <1>4, <3>1, <4>1
    <3>2. CASE k # stream[p].key
      <4>1. k \in DOMAIN last /\ last'[k] = last[k]
        BY <1>4, <2>2, <3>2
      <4>2. PICK q \in 1 .. p - 1 : Latest(q, p - 1) /\ stream[q].key = k /\ stream[q].id = last[k]
        BY <1>2, <4>1 DEF LastIs
      <4>3. ASSUME NEW o \in q + 1 .. m, stream[o].kind = "data"
            PROVE  stream[o].key # stream[q].key
        <5>1. o \in q + 1 .. p - 1 \/ o = p \/ o \in p + 1 .. m
          BY <1>0
        <5> QED
          BY <3>2, <4>2, <4>3, <5>1 DEF Latest, Kept
      <4>4. q \in 1 .. m /\ Latest(q, m)
        BY <1>0, <4>2, <4>3 DEF Latest
      <4> QED
        BY <4>1, <4>2, <4>4
    <3> QED
      BY <3>1, <3>2
  <2> QED
    BY <2>1, <2>2 DEF LastIs, Latest
<1> DEFINE T == Thrown(dataPackets)
<1>6. /\ dataPackets' = Pushed(dataPackets, p) /\ pushedOut' = pushedOut \cup T
      /\ discoveries' = discoveries
  BY <1>4 DEF AddDataPacket
<1>7. /\ \A i \in DOMAIN dataPackets : dataPackets[i] \in Sent("data", savePos)
      /\ dataPackets \in Seq(Nat) /\ Increasing(dataPackets)
      /\ \A i \in DOMAIN dataPackets : dataPackets[i] < p
  <2>1. dataPackets \in Seq(Nat) /\ \A i \in DOMAIN dataPackets : dataPackets[i] \in Sent("data", savePos)
    BY WhatIsStored
  <2>2. \A i \in DOMAIN dataPackets : dataPackets[i] \in 1 .. savePos
    BY <2>1 DEF Sent
  <2> QED
    BY <1>0, <2>1, <2>2 DEF ReceiveInv, NothingIsLost, OnceAndInOrder
<1>8. /\ dataPackets' \in Seq(Nat) /\ Increasing(dataPackets')
      /\ Range(dataPackets') = (Range(dataPackets) \ T) \cup {p}
      /\ T \subseteq Range(dataPackets)
  BY <1>0, <1>6, <1>7, PushedGives
<1>9. T \subseteq Sent("data", savePos)
  BY <1>7, <1>8 DEF Range
<1>10. T \subseteq 1 .. savePos /\ p \notin T /\ \A o \in T : stream[o].kind = "data"
  BY <1>0, <1>9 DEF Sent
<1> HIDE DEF T
<1>11. p \notin pushedOut'
  BY <1>0, <1>6, <1>10 DEF ReceiveInv, Buffered
<1>12. /\ Sent("data", savePos)' = (Sent("data", savePos) \ T) \cup {p}
       /\ Sent("discovery", savePos)' = Sent("discovery", savePos)
  <2>1. \A o \in savePos + 1 .. p - 1 : stream[o].kind \in Kept => stream[o].kind = "data" /\ IsRepeated(o)
    BY <1>0, SkippedAreRepeated DEF ReceiveInv
  <2>2. ASSUME NEW kind \in Kept
        PROVE  /\ Sent(kind, savePos) = {o \in 1 .. savePos : /\ stream[o].kind = kind /\ o \notin pushedOut
                                                              /\ (kind = "data" => ~IsRepeated(o))}
               /\ Sent(kind, savePos)' = {o \in 1 .. m : /\ stream[o].kind = kind /\ o \notin pushedOut'
                                                         /\ (kind = "data" => ~IsRepeated(o))}
    <3>1. kind \in Packets
      BY <2>2 DEF Kept, Packets
    <3>2. \A o \in 1 .. m : stream[o].kind = kind => o - 1 + stream[o].len <= m
      <4> TAKE o \in 1 .. m
      <4>1. o \in 1 .. Len(stream) /\ ~(m < o)
        BY <1>0
      <4> QED
        BY <3>1, <4>1 DEF NotInside
    <3>3. Sent(kind, savePos)' = {o \in 1 .. m : /\ stream[o].kind = kind /\ o - 1 + stream[o].len <= m
                                                 /\ o \notin pushedOut' /\ (kind = "data" => ~IsRepeated(o))}
      BY DEF Sent, IsRepeated
    <3> QED
      BY <1>0, <3>1, <3>2, <3>3, SentUpTo DEF ReceiveInv
  <2>3. \A o \in 1 .. m : o \in 1 .. savePos \/ o \in savePos + 1 .. p - 1 \/ o = p \/ o \in p + 1 .. m
    BY <1>0
  <2>4. 1 .. savePos \subseteq 1 .. m /\ p \in 1 .. m /\ p \notin 1 .. savePos
    BY <1>0
  <2>5. Sent("data", savePos)' = (Sent("data", savePos) \ T) \cup {p}
    <3>1. "data" \in Kept
      BY DEF Kept
    <3>2. /\ Sent("data", savePos) = {o \in 1 .. savePos : stream[o].kind = "data" /\ o \notin pushedOut /\ ~IsRepeated(o)}
          /\ Sent("data", savePos)' = {o \in 1 .. m : stream[o].kind = "data" /\ o \notin pushedOut' /\ ~IsRepeated(o)}
      BY <2>2, <3>1
    <3>3. \A o \in 1 .. m : stream[o].kind = "data" /\ ~IsRepeated(o) => o \in 1 .. savePos \/ o = p
      BY <2>1, <2>3 DEF Kept
    <3> QED
      BY <1>3, <1>6, <1>10, <1>11, <2>4, <3>2, <3>3
  <2>6. Sent("discovery", savePos)' = Sent("discovery", savePos)
    <3>1. "discovery" \in Kept
      BY DEF Kept
    <3>2. /\ Sent("discovery", savePos) = {o \in 1 .. savePos : stream[o].kind = "discovery" /\ o \notin pushedOut}
          /\ Sent("discovery", savePos)' = {o \in 1 .. m : stream[o].kind = "discovery" /\ o \notin pushedOut'}
      BY <2>2, <3>1
    <3>3. \A o \in 1 .. m : stream[o].kind = "discovery" => o \in 1 .. savePos
      BY <2>1, <2>3 DEF Kept
    <3> QED
      BY <1>6, <1>10, <2>4, <3>2, <3>3
  <2> QED
    BY <2>5, <2>6
<1>13. Buffered'
  <2>1. Range(dataPackets') \subseteq Sent("data", savePos)'
    BY <1>7, <1>8, <1>12 DEF Range
  <2>2. pushedOut' \subseteq 1 .. m
    BY <1>0, <1>6, <1>10 DEF ReceiveInv, Buffered
  <2> QED
    BY <2>1, <2>2 DEF ReceiveInv, Buffered
<1>14. Taken' = Taken
  BY DEF Taken
<1>15. OnceAndInOrder'
  <2>1. \A i \in DOMAIN Taken, j \in DOMAIN dataPackets' : Taken[i][1] < dataPackets'[j]
    <3> SUFFICES ASSUME NEW i \in DOMAIN Taken, NEW j \in DOMAIN dataPackets'
                 PROVE  Taken[i][1] < dataPackets'[j]
      OBVIOUS
    <3>1. Taken[i][1] \in 1 .. savePos
      BY WhatIsStored DEF Sent
    <3>2. dataPackets'[j] = p \/ \E h \in DOMAIN dataPackets : dataPackets'[j] = dataPackets[h]
      BY <1>8 DEF Range
    <3> QED
      BY <1>0, <3>1, <3>2 DEF ReceiveInv, NothingIsLost, OnceAndInOrder
  <2> QED
    BY <1>6, <1>8, <1>14, <2>1 DEF ReceiveInv, NothingIsLost, OnceAndInOrder, Increasing
<1>16. AllOf(savePos)'
  <2>1. Range(Taken) \cup Sweeps(Range(dataPackets')) = Sweeps((Sent("data", savePos) \ T) \cup {p})
    <3>1. \A x \in Range(Taken) : \A o \in T : \A k : x # <<o, k>>
      <4> SUFFICES ASSUME NEW i \in DOMAIN Taken, NEW j \in DOMAIN dataPackets, NEW k
                   PROVE  Taken[i] # <<dataPackets[j], k>>
        BY <1>8 DEF Range
      <4>1. Taken[i][1] < dataPackets[j]
        BY DEF ReceiveInv, NothingIsLost, OnceAndInOrder
      <4>2. Taken[i][1] \in Nat /\ dataPackets[j] \in Nat
        <5>1. Taken[i][1] \in Nat
          BY WhatIsStored
        <5>2. dataPackets[j] \in Nat
          BY <1>7
        <5> QED
          BY <5>1, <5>2
      <4>3. <<dataPackets[j], k>>[1] = dataPackets[j]
        OBVIOUS
      <4>4. Taken[i][1] # dataPackets[j]
        BY <4>1, <4>2
      <4> QED
        BY <4>3, <4>4
    <3>2. Range(Taken) \cup Sweeps(Range(dataPackets)) = Sweeps(Sent("data", savePos))
      BY DEF ReceiveInv, NothingIsLost, AllOf
    <3> DEFINE S == Sent("data", savePos)
               D == Range(dataPackets)
               R == Range(Taken)
    <3>3. \A x : x \in R \cup Sweeps((D \ T) \cup {p}) <=> x \in Sweeps((S \ T) \cup {p})
      <4>1. D \subseteq S
        BY <1>7 DEF Range
      <4>2. \A x \in R : \A o \in T : \A k : x # <<o, k>>
        BY <3>1
      <4>3. R \cup Sweeps(D) = Sweeps(S)
        BY <3>2
      <4> HIDE DEF S, D, R
      <4>4. \A x : x \in Sweeps((S \ T) \cup {p}) <=> \E o \in (S \ T) \cup {p} : \E k \in 1 .. stream[o].sweeps : x = <<o, k>>
        BY SweepsMember
      <4>5. \A x : x \in Sweeps((D \ T) \cup {p}) <=> \E o \in (D \ T) \cup {p} : \E k \in 1 .. stream[o].sweeps : x = <<o, k>>
        BY SweepsMember
      <4>6. \A x : x \in Sweeps(S) <=> \E o \in S : \E k \in 1 .. stream[o].sweeps : x = <<o, k>>
        BY SweepsMember
      <4>7. \A x : x \in Sweeps(D) <=> \E o \in D : \E k \in 1 .. stream[o].sweeps : x = <<o, k>>
        BY SweepsMember
      <4>8. ASSUME NEW x \in R
            PROVE  x \in Sweeps((S \ T) \cup {p})
        <5>1. PICK o \in S : \E k \in 1 .. stream[o].sweeps : x = <<o, k>>
          BY <4>3, <4>6
        <5>2. o \notin T
          BY <4>2, <5>1
        <5> QED
          BY <4>4, <5>1, <5>2
      <4>9. ASSUME NEW x \in Sweeps((D \ T) \cup {p})
            PROVE  x \in Sweeps((S \ T) \cup {p})
        BY <4>1, <4>4, <4>5
      <4>10. ASSUME NEW x \in Sweeps((S \ T) \cup {p})
             PROVE  x \in R \cup Sweeps((D \ T) \cup {p})
        <5>1. PICK o \in (S \ T) \cup {p} : \E k \in 1 .. stream[o].sweeps : x = <<o, k>>
          BY <4>4
        <5>2. CASE o = p
          BY <4>5, <5>1, <5>2
        <5>3. CASE o \in S \ T
          <6>1. x \in R \/ x \in Sweeps(D)
            BY <4>3, <4>6, <5>1, <5>3
          <6>2. CASE x \in Sweeps(D)
            <7>1. PICK h \in D : \E k \in 1 .. stream[h].sweeps : x = <<h, k>>
              BY <4>7, <6>2
            <7>2. h = o
              BY <5>1, <7>1
            <7> QED
              BY <4>5, <5>3, <7>1, <7>2
          <6> QED
            BY <6>1, <6>2
        <5> QED
          BY <5>1, <5>2, <5>3
      <4> QED
        BY <4>8, <4>9, <4>10
    <3> QED
      BY <1>8, <3>3
  <2>2. Range(listed) \cup Range(discoveries) = Sent("discovery", savePos)
    BY DEF ReceiveInv, NothingIsLost, AllOf
  <2> QED
    BY <1>6, <1>12, <1>14, <2>1, <2>2 DEF AllOf, Sweeps
<1> QED
  BY <1>1, <1>5, <1>13, <1>15, <1>16 DEF NothingIsLost

LEMMA TakeDiscovery ==
  ASSUME TypeInv, ReceiveInv, stream' = stream,
         UNCHANGED <<current, returned, listed>>,
         NEW p \in savePos + 1 .. Len(stream), NEW m \in p .. Len(stream),
         m = p - 1 + stream[p].len, savePos' = m, NotInside(m),
         stream[p].kind = "discovery", Process(p),
         \A o \in savePos + 1 .. p - 1 :
           stream[o].kind \in Kept => stream[o].kind = "data" /\ Duplicate(stream[o]),
         \A o \in p + 1 .. m : stream[o].kind \notin Kept
  PROVE  NotInside(savePos)' /\ LastIs(savePos)' /\ Buffered' /\ NothingIsLost'
<1>0. /\ Len(stream) \in Nat /\ savePos \in Nat /\ m \in Nat /\ p \in Nat
      /\ savePos \in 0 .. Len(stream) /\ p - 1 \in savePos .. Len(stream) /\ p \in 1 .. Len(stream)
      /\ m \in savePos .. Len(stream) /\ p <= m /\ savePos < p
  BY StreamTypes
<1>1. NotInside(savePos)'
  BY DEF NotInside
<1>2. \A o \in 1 .. m : o \in 1 .. savePos \/ o \in savePos + 1 .. p - 1 \/ o = p \/ o \in p + 1 .. m
  BY <1>0
<1>3. /\ AddNodeDiscoveryPacket(p) /\ last' = last
  BY DEF Process
<1>4. LastIs(savePos)'
  <2>1. \A o \in savePos + 1 .. m : stream[o].kind = "data" => Duplicate(stream[o])
    <3>1. \A o \in savePos + 1 .. m : o \in savePos + 1 .. p - 1 \/ o = p \/ o \in p + 1 .. m
      BY <1>0
    <3> QED
      BY <3>1 DEF Kept
  <2>2. LastIs(m)
    BY <1>0, <2>1, SkipRepeats DEF ReceiveInv
  <2> QED
    BY <1>3, <2>2 DEF LastIs, Latest
<1> DEFINE T == Thrown(discoveries)
<1>5. /\ discoveries' = Pushed(discoveries, p) /\ pushedOut' = pushedOut \cup T
      /\ dataPackets' = dataPackets
  BY <1>3 DEF AddNodeDiscoveryPacket
<1>6. /\ listed \in Seq(Nat) /\ discoveries \in Seq(Nat)
      /\ Increasing(listed) /\ Increasing(discoveries)
      /\ \A i \in DOMAIN listed, j \in DOMAIN discoveries : listed[i] < discoveries[j]
  <2>1. listed \in Seq(Nat) /\ discoveries \in Seq(Nat) /\ Increasing(listed \o discoveries)
    BY DEF ReceiveInv, Buffered, NothingIsLost, OnceAndInOrder, TypeInv, CallTypes
  <2> QED
    BY <2>1, ConcatIncreasing
<1>7. /\ \A i \in DOMAIN discoveries : discoveries[i] \in 1 .. savePos /\ stream[discoveries[i]].kind = "discovery"
      /\ \A i \in DOMAIN listed : listed[i] \in 1 .. savePos
  BY WhatIsStored DEF Sent
<1>8. \A i \in DOMAIN discoveries : discoveries[i] < p
  BY <1>0, <1>7
<1>9. /\ discoveries' \in Seq(Nat) /\ Increasing(discoveries')
      /\ Range(discoveries') = (Range(discoveries) \ T) \cup {p}
      /\ T \subseteq Range(discoveries)
  BY <1>0, <1>5, <1>6, <1>8, PushedGives
<1>10. T \subseteq 1 .. savePos /\ p \notin T /\ \A o \in T : stream[o].kind = "discovery"
  BY <1>0, <1>7, <1>9 DEF Range
<1> HIDE DEF T
<1>11. p \notin pushedOut'
  BY <1>0, <1>5, <1>10 DEF ReceiveInv, Buffered
<1>12. /\ Sent("data", savePos)' = Sent("data", savePos)
       /\ Sent("discovery", savePos)' = (Sent("discovery", savePos) \ T) \cup {p}
  <2>1. \A o \in savePos + 1 .. p - 1 : stream[o].kind \in Kept => stream[o].kind = "data" /\ IsRepeated(o)
    BY <1>0, SkippedAreRepeated DEF ReceiveInv
  <2>2. ASSUME NEW kind \in Kept
        PROVE  /\ Sent(kind, savePos) = {o \in 1 .. savePos : /\ stream[o].kind = kind /\ o \notin pushedOut
                                                              /\ (kind = "data" => ~IsRepeated(o))}
               /\ Sent(kind, savePos)' = {o \in 1 .. m : /\ stream[o].kind = kind /\ o \notin pushedOut'
                                                         /\ (kind = "data" => ~IsRepeated(o))}
    <3>1. kind \in Packets
      BY <2>2 DEF Kept, Packets
    <3>2. \A o \in 1 .. m : stream[o].kind = kind => o - 1 + stream[o].len <= m
      <4> TAKE o \in 1 .. m
      <4>1. o \in 1 .. Len(stream) /\ ~(m < o)
        BY <1>0
      <4> QED
        BY <3>1, <4>1 DEF NotInside
    <3>3. Sent(kind, savePos)' = {o \in 1 .. m : /\ stream[o].kind = kind /\ o - 1 + stream[o].len <= m
                                                 /\ o \notin pushedOut' /\ (kind = "data" => ~IsRepeated(o))}
      BY DEF Sent, IsRepeated
    <3> QED
      BY <1>0, <3>1, <3>2, <3>3, SentUpTo DEF ReceiveInv
  <2>3. 1 .. savePos \subseteq 1 .. m /\ p \in 1 .. m /\ p \notin 1 .. savePos
    BY <1>0
  <2>4. Sent("data", savePos)' = Sent("data", savePos)
    <3>1. "data" \in Kept
      BY DEF Kept
    <3>2. /\ Sent("data", savePos) = {o \in 1 .. savePos : stream[o].kind = "data" /\ o \notin pushedOut /\ ~IsRepeated(o)}
          /\ Sent("data", savePos)' = {o \in 1 .. m : stream[o].kind = "data" /\ o \notin pushedOut' /\ ~IsRepeated(o)}
      BY <2>2, <3>1
    <3>3. \A o \in 1 .. m : stream[o].kind = "data" /\ ~IsRepeated(o) => o \in 1 .. savePos
      BY <1>2, <2>1 DEF Kept
    <3> QED
      BY <1>5, <1>10, <2>3, <3>2, <3>3
  <2>5. Sent("discovery", savePos)' = (Sent("discovery", savePos) \ T) \cup {p}
    <3>1. "discovery" \in Kept
      BY DEF Kept
    <3>2. /\ Sent("discovery", savePos) = {o \in 1 .. savePos : stream[o].kind = "discovery" /\ o \notin pushedOut}
          /\ Sent("discovery", savePos)' = {o \in 1 .. m : stream[o].kind = "discovery" /\ o \notin pushedOut'}
      BY <2>2, <3>1
    <3>3. \A o \in 1 .. m : stream[o].kind = "discovery" => o \in 1 .. savePos \/ o = p
      BY <1>2, <2>1 DEF Kept
    <3> QED
      BY <1>5, <1>10, <1>11, <2>3, <3>2, <3>3
  <2> QED
    BY <2>4, <2>5
<1>13. Buffered'
  <2>1. pushedOut' \subseteq 1 .. m
    BY <1>0, <1>5, <1>10 DEF ReceiveInv, Buffered
  <2> QED
    BY <1>5, <1>12, <2>1 DEF ReceiveInv, Buffered
<1>14. Taken' = Taken
  BY DEF Taken
<1>15. OnceAndInOrder'
  <2>1. \A i \in DOMAIN listed, j \in DOMAIN discoveries' : listed[i] < discoveries'[j]
    <3> SUFFICES ASSUME NEW i \in DOMAIN listed, NEW j \in DOMAIN discoveries'
                 PROVE  listed[i] < discoveries'[j]
      OBVIOUS
    <3>1. discoveries'[j] = p \/ \E h \in DOMAIN discoveries : discoveries'[j] = discoveries[h]
      BY <1>9 DEF Range
    <3>2. listed[i] < p
      BY <1>0, <1>7
    <3> QED
      BY <1>6, <3>1, <3>2
  <2>2. Increasing(listed \o discoveries')
    BY <1>6, <1>9, <2>1, ConcatIncreasing
  <2>3. Increasing(listed \o discoveries)'
    BY <2>2 DEF Increasing
  <2> QED
    BY <1>5, <1>14, <2>3 DEF ReceiveInv, NothingIsLost, OnceAndInOrder, Increasing
<1>16. AllOf(savePos)'
  <2>1. Range(listed) \cup Range(discoveries') = (Sent("discovery", savePos) \ T) \cup {p}
    <3>1. Range(listed) \cup Range(discoveries) = Sent("discovery", savePos)
      BY DEF ReceiveInv, NothingIsLost, AllOf
    <3>2. ASSUME NEW i \in DOMAIN listed
          PROVE  listed[i] \notin T
      <4>1. \A j \in DOMAIN discoveries : listed[i] # discoveries[j]
        <5> TAKE j \in DOMAIN discoveries
        <5>1. listed[i] < discoveries[j] /\ listed[i] \in Nat /\ discoveries[j] \in Nat
          BY <1>6
        <5> QED
          BY <5>1
      <4> QED
        BY <1>9, <4>1 DEF Range
    <3>3. Range(listed) \cap T = {}
      BY <3>2 DEF Range
    <3> QED
      BY <1>9, <3>1, <3>3
  <2>2. Range(Taken) \cup Sweeps(Range(dataPackets)) = Sweeps(Sent("data", savePos))
    BY DEF ReceiveInv, NothingIsLost, AllOf
  <2> QED
    BY <1>5, <1>12, <1>14, <2>1, <2>2 DEF AllOf, Sweeps
<1> QED
  BY <1>1, <1>4, <1>13, <1>15, <1>16 DEF NothingIsLost

-----------------------------------------------------------------------------
\* Where the parser is in a stream that is tidy.

TidyNow == Tidy(stream)

\* A packet ends outside of every other, and none begins in it.
LEMMA EndOfPacket ==
  ASSUME TypeInv, TidyNow, NEW p \in 1 .. Len(stream), stream[p].kind \in Packets,
         NEW m \in Nat, m = p - 1 + stream[p].len
  PROVE  /\ NotInside(m) /\ p <= m
         /\ \A o \in p + 1 .. m : o \in 1 .. Len(stream) => stream[o].kind \notin Packets \cup {"answer"}
<1>0. /\ Len(stream) \in Nat /\ DOMAIN stream = 1 .. Len(stream)
      /\ \A o \in 1 .. Len(stream) : stream[o].len \in Nat
      /\ stream[p].len >= 1
  BY StreamTypes
<1>1. ASSUME NEW o \in 1 .. Len(stream), NEW i \in 1 .. Len(stream), stream[o].kind \in Packets,
             o < i, i < o + stream[o].len
      PROVE  stream[i].kind \notin Packets \cup {"answer"}
  BY <1>0, <1>1 DEF TidyNow, Tidy
<1>2. \A o \in p + 1 .. m : o \in 1 .. Len(stream) => stream[o].kind \notin Packets \cup {"answer"}
  <2> SUFFICES ASSUME NEW o \in p + 1 .. m, o \in 1 .. Len(stream)
               PROVE  stream[o].kind \notin Packets \cup {"answer"}
    OBVIOUS
  <2>1. p < o /\ o < p + stream[p].len
    BY <1>0
  <2> QED
    BY <1>1, <2>1
<1>3. NotInside(m)
  <2> SUFFICES ASSUME NEW o \in 1 .. Len(stream), stream[o].kind \in Packets,
                      ~(m < o), ~(o - 1 + stream[o].len <= m)
               PROVE  FALSE
    BY DEF NotInside
  <2>0. stream[o].len \in Nat /\ stream[p].len \in Nat
    BY <1>0
  <2>1. CASE o = p
    BY <2>0, <2>1
  <2>2. CASE p < o
    <3>1. o < p + stream[p].len
      BY <2>0, <2>2
    <3> QED
      BY <1>1, <2>2, <3>1
  <2>3. CASE o < p
    <3>1. p < o + stream[o].len
      BY <1>0, <2>0, <2>3
    <3> QED
      BY <1>1, <2>3, <3>1
  <2> QED
    BY <2>1, <2>2, <2>3
<1>4. p <= m
  BY <1>0
<1> QED
  BY <1>2, <1>3, <1>4

\* Stepping over a byte that starts no packet stays outside of them.
LEMMA StepOutside ==
  ASSUME TypeInv, NEW n \in 0 .. Len(stream) - 1, NotInside(n), stream[n + 1].kind \notin Packets
  PROVE  NotInside(n + 1)
<1>0. Len(stream) \in Nat /\ \A o \in 1 .. Len(stream) : stream[o].len \in Nat
  BY StreamTypes
<1> SUFFICES ASSUME NEW o \in 1 .. Len(stream), stream[o].kind \in Packets,
                    ~(n + 1 < o), ~(o - 1 + stream[o].len <= n + 1)
             PROVE  FALSE
  BY DEF NotInside
<1>1. o # n + 1
  OBVIOUS
<1>2. ~(n < o) /\ ~(o - 1 + stream[o].len <= n)
  BY <1>0, <1>1
<1> QED
  BY <1>2 DEF NotInside

\* A packet is only waited for while it has not come.
LEMMA WholeIsLooked ==
  ASSUME TypeInv, NEW o \in 1 .. Len(stream), stream[o].kind \in Packets, o - 1 + stream[o].len <= arrived
  PROVE  /\ o - 1 \in 0 .. arrived - MinPacket
         /\ Result(o - 1) = IF Duplicate(stream[o]) THEN "duplicate" ELSE "complete"
<1>0. /\ stream[o].len \in Nat /\ stream[o].len >= MinPacket /\ MinPacket \in Nat /\ arrived \in Nat
      /\ Len(stream) \in Nat
  BY StreamTypes
<1>1. ~(arrived - (o - 1) < MinPacket) /\ ~(arrived - (o - 1) < stream[o].len) /\ (o - 1) + 1 = o
  BY <1>0
<1>2. stream[o].kind # "start"
  BY DEF Packets
<1>3. Result(o - 1) = IF Duplicate(stream[o]) THEN "duplicate" ELSE "complete"
  BY <1>1, <1>2 DEF Result
<1> QED
  BY <1>0, <1>1, <1>3

\* While the parser waits for a packet that has begun, the packet is no whole one.
LEMMA WaitsForMore ==
  ASSUME TypeInv, readPos < arrived, Result(readPos) = "more", stream[readPos + 1].kind \in Packets
  PROVE  arrived < readPos + stream[readPos + 1].len
<1>1. readPos + 1 \in 1 .. Len(stream) /\ (readPos + 1) - 1 = readPos /\ readPos \in Nat /\ arrived \in Nat
  BY StreamTypes
<1>2. CASE readPos + stream[readPos + 1].len <= arrived
  <2>1. Result(readPos) # "more"
    <3>1. ((readPos + 1) - 1) + stream[readPos + 1].len <= arrived
      BY <1>1, <1>2
    <3>2. Result((readPos + 1) - 1) \in {"duplicate", "complete"}
      BY <1>1, <3>1, WholeIsLooked
    <3> QED
      BY <1>1, <3>2
  <2> QED
    BY <2>1
<1>3. stream[readPos + 1].len \in Nat
  BY <1>1, StreamTypes
<1> QED
  BY <1>1, <1>2, <1>3

\* A packet that is taken: p is its first byte.
LEMMA TakePacket ==
  ASSUME TypeInv, TidyNow, ReceiveInv, UNCHANGED <<stream, current, returned, listed>>,
         NEW q \in readPos .. arrived - 1, Result(q) = "complete",
         Process(q + 1), MoveTo(q + stream[q + 1].len),
         \A o \in savePos + 1 .. q :
           stream[o].kind \in Kept => stream[o].kind = "data" /\ Duplicate(stream[o]),
         io' = "parse"
  PROVE  ReceiveInv'
<1> DEFINE p == q + 1
           m == q + stream[q + 1].len
<1>0. /\ Len(stream) \in Nat /\ savePos \in Nat /\ readPos \in Nat /\ arrived \in Nat
      /\ savePos <= readPos /\ arrived <= Len(stream)
  BY StreamTypes
<1>1. /\ stream[p].kind \in Packets /\ m \in q .. arrived /\ p \in 1 .. Len(stream)
  BY <1>0, WholePacket
<1>2. /\ p \in savePos + 1 .. Len(stream) /\ m \in Nat /\ m = p - 1 + stream[p].len /\ p - 1 = q
  BY <1>0, <1>1, StreamTypes
<1>3. /\ NotInside(m) /\ p <= m
      /\ \A o \in p + 1 .. m : o \in 1 .. Len(stream) => stream[o].kind \notin Packets \cup {"answer"}
  BY <1>1, <1>2, EndOfPacket
<1>4. m \in p .. Len(stream) /\ savePos' = m /\ readPos' = m
  BY <1>0, <1>1, <1>2, <1>3 DEF MoveTo
<1>5. \A o \in p + 1 .. m : stream[o].kind \notin Kept
  <2> TAKE o \in p + 1 .. m
  <2>1. o \in 1 .. Len(stream)
    BY <1>0, <1>1, <1>2
  <2> QED
    BY <1>3, <2>1 DEF Kept, Packets
<1>6. \A o \in savePos + 1 .. p - 1 :
        stream[o].kind \in Kept => stream[o].kind = "data" /\ Duplicate(stream[o])
  BY <1>2
<1>7. stream[p].kind = "data" => ~Duplicate(stream[p])
  BY DEF Result
<1>8. Process(p)
  OBVIOUS
<1> HIDE DEF p, m
<1>9. NotInside(savePos)' /\ LastIs(savePos)' /\ Buffered' /\ NothingIsLost'
  <2>1. CASE stream[p].kind = "data"
    BY <1>2, <1>3, <1>4, <1>5, <1>6, <1>7, <1>8, <2>1, TakeData
  <2>2. CASE stream[p].kind = "discovery"
    BY <1>2, <1>3, <1>4, <1>5, <1>6, <1>8, <2>2, TakeDiscovery
  <2>3. CASE stream[p].kind = "reply"
    <3>1. UNCHANGED <<stream, last, dataPackets, discoveries, current, returned, listed, pushedOut>>
      BY <1>8, <2>3 DEF Process
    <3>2. \A o \in savePos + 1 .. m :
            stream[o].kind \in Kept => stream[o].kind = "data" /\ Duplicate(stream[o])
      <4>1. \A o \in savePos + 1 .. m : o \in savePos + 1 .. p - 1 \/ o = p \/ o \in p + 1 .. m
        BY <1>0, <1>2
      <4> QED
        BY <1>5, <1>6, <2>3, <4>1 DEF Kept
    <3>3. m \in savePos .. Len(stream)
      BY <1>0, <1>2, <1>4
    <3> QED
      BY <1>3, <1>4, <3>1, <3>2, <3>3, PassBy
  <2> QED
    BY <1>1, <2>1, <2>2, <2>3 DEF Packets
<1>10. NotInside(readPos)'
  BY <1>4, <1>9 DEF NotInside
<1>11. NoneBetween'
  <2>1. savePos' + 1 .. readPos' = {}
    BY <1>2, <1>4
  <2> QED
    BY <2>1 DEF NoneBetween
<1> QED
  BY <1>9, <1>10, <1>11 DEF ReceiveInv

\* Steps that take no packet and move on over bytes.
LEMMA MovesOn ==
  ASSUME TypeInv, ReceiveInv, UNCHANGED <<stream, last, collector, history>>,
         NEW m \in savePos .. Len(stream), savePos' = m, NotInside(m),
         \A p \in savePos + 1 .. m :
           stream[p].kind \in Kept => stream[p].kind = "data" /\ Duplicate(stream[p]),
         NEW n \in m .. Len(stream), readPos' = n, NotInside(n),
         \A p \in m + 1 .. n : stream[p].kind \notin Kept,
         io' = "read" => Repeats(m)'
  PROVE  ReceiveInv'
<1>1. UNCHANGED <<stream, last, dataPackets, discoveries, current, returned, listed, pushedOut>>
  BY DEF collector, history
<1>2. NotInside(savePos)' /\ LastIs(savePos)' /\ Buffered' /\ NothingIsLost'
  BY <1>1, PassBy
<1>3. NotInside(readPos)'
  BY DEF NotInside
<1>4. NoneBetween'
  BY DEF NoneBetween
<1>5. io' = "read" => Repeats(savePos)'
  BY DEF Repeats
<1> QED
  BY <1>2, <1>3, <1>4, <1>5 DEF ReceiveInv

LEMMA DuplicateMovesOn ==
  ASSUME TypeInv, TidyNow, ReceiveInv, ParseDuplicate
  PROVE  ReceiveInv'
<1> DEFINE p == readPos + 1
           m == readPos + stream[readPos + 1].len
<1>0. /\ Len(stream) \in Nat /\ savePos \in Nat /\ readPos \in Nat /\ arrived \in Nat
      /\ savePos <= readPos /\ arrived <= Len(stream) /\ readPos < arrived
  BY StreamTypes DEF ParseDuplicate, Parsing
<1>1. /\ stream[p].kind = "data" /\ Duplicate(stream[p]) /\ io' = "parse"
      /\ m \in readPos .. arrived /\ p \in 1 .. Len(stream) /\ stream[p].kind \in Packets
  <2>1. Result(readPos) = "duplicate" /\ readPos \in 0 .. arrived - 1
    BY <1>0 DEF ParseDuplicate, Parsing
  <2>2. m \in readPos .. arrived /\ p \in 1 .. Len(stream) /\ stream[p].kind \in Packets
    BY <2>1, WholePacket
  <2>3. Duplicate(stream[p]) /\ stream[p].kind = "data"
    BY <2>1 DEF Result, Duplicate
  <2> QED
    BY <2>2, <2>3 DEF ParseDuplicate, Parsing
<1>2. m \in Nat /\ m = p - 1 + stream[p].len
  BY <1>0, <1>1, StreamTypes
<1>3. /\ NotInside(m) /\ p <= m
      /\ \A o \in p + 1 .. m : o \in 1 .. Len(stream) => stream[o].kind \notin Packets \cup {"answer"}
  BY <1>1, <1>2, EndOfPacket
<1>4. \A o \in savePos + 1 .. m :
        stream[o].kind \in Kept => stream[o].kind = "data" /\ Duplicate(stream[o])
  <2> TAKE o \in savePos + 1 .. m
  <2>1. o \in savePos + 1 .. readPos \/ o = p \/ (o \in p + 1 .. m /\ o \in 1 .. Len(stream))
    BY <1>0, <1>1, <1>2
  <2>2. CASE o \in savePos + 1 .. readPos
    BY <2>2 DEF ReceiveInv, NoneBetween
  <2>3. CASE o = p
    BY <1>1, <2>3
  <2>4. CASE o \in p + 1 .. m /\ o \in 1 .. Len(stream)
    BY <1>3, <2>4 DEF Kept, Packets
  <2> QED
    BY <2>1, <2>2, <2>3, <2>4
<1>5. m \in savePos .. Len(stream) /\ m \in m .. Len(stream) /\ savePos' = m /\ readPos' = m
  BY <1>0, <1>1 DEF ParseDuplicate, MoveTo
<1>6. UNCHANGED <<stream, last, collector, history>>
  BY DEF ParseDuplicate
<1> HIDE DEF p, m
<1>7. \A o \in m + 1 .. m : stream[o].kind \notin Kept
  BY <1>2
<1> QED
  BY <1>1, <1>3, <1>4, <1>5, <1>6, <1>7, MovesOn

LEMMA InvalidMovesOn ==
  ASSUME TypeInv, TidyNow, ReceiveInv, ParseInvalid
  PROVE  ReceiveInv'
<1>0. /\ Len(stream) \in Nat /\ savePos \in Nat /\ readPos \in Nat /\ arrived \in Nat
      /\ savePos <= readPos /\ arrived <= Len(stream) /\ readPos < arrived
  BY StreamTypes DEF ParseInvalid, Parsing
<1>1. /\ stream[readPos + 1].kind \notin Packets
      /\ io' = "parse" /\ readPos' = readPos + 1 /\ savePos' \in {savePos, readPos}
      /\ UNCHANGED <<stream, last, collector, history>>
  <2>1. Result(readPos) = "invalid"
    BY DEF ParseInvalid, Parsing
  <2>2. stream[readPos + 1].kind \notin Packets
    BY <2>1 DEF Result, Packets
  <2> QED
    BY <2>2 DEF ParseInvalid, Parsing
<1>2. NotInside(readPos) /\ NotInside(savePos) /\ NotInside(readPos + 1)
  <2>1. readPos \in 0 .. Len(stream) - 1
    BY <1>0
  <2> QED
    BY <1>1, <2>1, StepOutside DEF ReceiveInv
<1>3. PICK m \in {savePos, readPos} : savePos' = m
  BY <1>1
<1>4. m \in savePos .. Len(stream) /\ readPos + 1 \in m .. Len(stream) /\ NotInside(m)
  BY <1>0, <1>2, <1>3
<1>5. \A o \in savePos + 1 .. m : stream[o].kind \notin Kept
  BY <1>0 DEF ReceiveInv, NoneBetween
<1>6. \A o \in m + 1 .. readPos + 1 : stream[o].kind \notin Kept
  <2> TAKE o \in m + 1 .. readPos + 1
  <2>1. o \in savePos + 1 .. readPos \/ o = readPos + 1
    BY <1>0, <1>3
  <2> QED
    BY <1>1, <2>1 DEF ReceiveInv, NoneBetween, Kept, Packets
<1> QED
  BY <1>1, <1>2, <1>3, <1>4, <1>5, <1>6, MovesOn

LEMMA AnswerMovesOn ==
  ASSUME TypeInv, TidyNow, ReceiveInv, ParseAnswer
  PROVE  ReceiveInv'
<1> DEFINE r == readPos + 1
<1>0. /\ Len(stream) \in Nat /\ savePos \in Nat /\ readPos \in Nat /\ arrived \in Nat
      /\ savePos <= readPos /\ arrived <= Len(stream) /\ readPos < arrived
      /\ \A o \in 1 .. Len(stream) : stream[o].len \in Nat
      /\ DOMAIN stream = 1 .. Len(stream)
  BY StreamTypes DEF ParseAnswer, Parsing
<1>1. PICK q \in Answers : MoveTo(q + 1)
  BY DEF ParseAnswer
<1> DEFINE m == q + 1
<1>2. /\ q \in readPos .. arrived - 1 /\ stream[m].kind = "answer"
      /\ io' = "parse" /\ UNCHANGED <<stream, last, collector, history>>
  BY DEF ParseAnswer, Answers, Parsing
<1>3. /\ m \in r .. arrived /\ m \in savePos .. Len(stream) /\ m \in 1 .. Len(stream)
      /\ r \in 1 .. Len(stream) /\ m \in Nat /\ savePos' = m /\ readPos' = m
  BY <1>0, <1>1, <1>2 DEF MoveTo
<1>4. \A o, i \in 1 .. Len(stream) :
        stream[o].kind \in Packets /\ o < i /\ i < o + stream[o].len => stream[i].kind \notin Packets \cup {"answer"}
  BY <1>0 DEF TidyNow, Tidy
<1>5. stream[r].kind \in Packets => arrived < readPos + stream[r].len
  <2>1. Result(readPos) = "more" \/ Result(readPos) = "invalid"
    BY DEF ParseAnswer, Parsing
  <2>2. CASE Result(readPos) = "more"
    BY <1>0, <2>2, WaitsForMore
  <2>3. CASE Result(readPos) = "invalid"
    BY <2>3 DEF Result, Packets
  <2> QED
    BY <2>1, <2>2, <2>3
<1> HIDE DEF r, m
<1>6. NotInside(m)
  <2> SUFFICES ASSUME NEW o \in 1 .. Len(stream), stream[o].kind \in Packets,
                      ~(m < o), ~(o - 1 + stream[o].len <= m)
               PROVE  FALSE
    BY DEF NotInside
  <2>1. o # m
    BY <1>2 DEF Packets
  <2>2. o < m /\ m < o + stream[o].len
    BY <1>0, <1>3, <2>1
  <2> QED
    BY <1>2, <1>3, <1>4, <2>2
<1>7. m = r \/ r < m
  BY <1>0, <1>3 DEF r
<1>8. ASSUME r < m, NEW o \in r .. m
      PROVE  stream[o].kind \notin Kept
  <2>1. stream[r].kind \notin Packets
    <3>1. stream[r].kind \in Packets => m < r + stream[r].len
      BY <1>0, <1>3, <1>5 DEF r
    <3> QED
      BY <1>2, <1>3, <1>4, <1>8, <3>1
  <2>2. ASSUME NEW h \in 1 .. r, stream[h].kind \in Packets, r < h + stream[h].len
        PROVE  FALSE
    <3>1. h # r
      BY <2>1, <2>2
    <3>2. h \in 1 .. Len(stream) /\ ~(readPos < h) /\ ~(h - 1 + stream[h].len <= readPos)
      BY <1>0, <1>3, <2>2, <3>1 DEF r
    <3> QED
      BY <2>2, <3>2 DEF ReceiveInv, NotInside
  <2>3. \A h \in DOMAIN stream : r < h /\ h < m => stream[h].kind \notin Kept
    BY <1>0, <1>2, <1>3, <2>2, Zenon DEF TidyNow, Tidy, Kept
  <2>4. o = r \/ o = m \/ (o \in DOMAIN stream /\ r < o /\ o < m)
    BY <1>0, <1>3
  <2> QED
    BY <1>2, <2>1, <2>3, <2>4 DEF Kept, Packets
<1>9. \A o \in savePos + 1 .. m : stream[o].kind \notin Kept
  <2> TAKE o \in savePos + 1 .. m
  <2>1. CASE o \in savePos + 1 .. readPos
    BY <2>1 DEF ReceiveInv, NoneBetween
  <2>2. CASE o \in r .. m
    <3>1. CASE m = r
      <4>1. o = m
        BY <1>3, <2>2, <3>1
      <4> QED
        BY <1>2, <4>1 DEF Kept
    <3> QED
      BY <1>7, <1>8, <2>2, <3>1
  <2> QED
    BY <1>0, <1>3, <2>1, <2>2 DEF r
<1>10. m \in m .. Len(stream) /\ \A o \in m + 1 .. m : stream[o].kind \notin Kept
  BY <1>3
<1> QED
  BY <1>2, <1>3, <1>6, <1>9, <1>10, MovesOn

\* In front of a packet that has come, behind one that has begun, all have come.
LEMMA BeforeAWhole ==
  ASSUME TypeInv, TidyNow, Parsing("more"),
         NEW i \in readPos + 2 .. Len(stream), stream[i].kind \in Packets, i - 1 + stream[i].len <= arrived,
         NEW o \in readPos + 1 .. i - 1, stream[o].kind \in Packets
  PROVE  /\ o \in 1 .. Len(stream) /\ o - 1 + stream[o].len <= arrived
         /\ o - 1 \in readPos + 1 .. i - 2
<1> DEFINE r == readPos + 1
<1>0. /\ Len(stream) \in Nat /\ DOMAIN stream = 1 .. Len(stream) /\ readPos \in Nat /\ arrived \in Nat
      /\ \A p \in 1 .. Len(stream) : stream[p].len \in Nat
      /\ stream[i].len >= 1
      /\ i \in 1 .. Len(stream) /\ o \in 1 .. Len(stream) /\ r \in 1 .. Len(stream)
  BY StreamTypes
<1>1. \A p \in 1 .. Len(stream) :
        stream[p].kind \in Packets /\ p < i /\ i < p + stream[p].len => FALSE
  BY <1>0 DEF TidyNow, Tidy
<1>2. i <= arrived
  BY <1>0
<1>3. stream[r].kind \notin Packets
  <2>1. ASSUME stream[r].kind \in Packets
        PROVE  FALSE
    <3>1. arrived < readPos + stream[r].len
      BY <2>1, WaitsForMore DEF Parsing
    <3>2. r < i /\ i < r + stream[r].len
      BY <1>0, <1>2, <3>1
    <3> QED
      BY <1>0, <1>1, <2>1, <3>2
  <2> QED
    BY <2>1
<1>4. o # r
  BY <1>3
<1>5. o - 1 + stream[o].len <= i - 1
  <2>1. o < i /\ ~(i < o + stream[o].len)
    BY <1>0, <1>1
  <2> QED
    BY <1>0, <2>1
<1> QED
  BY <1>0, <1>2, <1>4, <1>5

\* The kept packets in front of the one that is found, or of any if none is, are
\* packets sent again.
LEMMA PassedInside ==
  ASSUME TypeInv, TidyNow, ReceiveInv, Parsing("more"), NEW wanted \in BOOLEAN,
         NEW i \in readPos + 2 .. Len(stream), stream[i].kind \in Packets, i - 1 + stream[i].len <= arrived,
         \A p \in Inside(wanted) : i - 1 <= p
  PROVE  \A o \in savePos + 1 .. i - 1 :
           stream[o].kind \in Kept => stream[o].kind = "data" /\ Duplicate(stream[o])
<1>0. savePos \in Nat /\ readPos \in Nat /\ savePos <= readPos
  BY StreamTypes
<1> SUFFICES ASSUME NEW o \in savePos + 1 .. i - 1, stream[o].kind \in Kept
             PROVE  Duplicate(stream[o])
  BY DEF Duplicate
<1>1. o \in readPos + 1 .. i - 1
  BY <1>0 DEF ReceiveInv, NoneBetween
<1>2. stream[o].kind \in Packets /\ stream[o].kind # "reply"
  BY DEF Kept, Packets
<1>3. /\ o \in 1 .. Len(stream) /\ o - 1 + stream[o].len <= arrived
      /\ o - 1 \in readPos + 1 .. i - 2
  BY <1>1, <1>2, BeforeAWhole
<1>4. /\ o - 1 \in 0 .. arrived - MinPacket
      /\ Result(o - 1) = IF Duplicate(stream[o]) THEN "duplicate" ELSE "complete"
  BY <1>2, <1>3, WholeIsLooked
<1>5. o - 1 \notin Inside(wanted)
  BY <1>0, <1>3
<1>6. o - 1 \in readPos + 1 .. arrived - MinPacket /\ (o - 1) + 1 = o
  BY <1>0, <1>3, <1>4
<1>7. Result(o - 1) # "complete"
  BY <1>2, <1>5, <1>6 DEF Inside
<1> QED
  BY <1>4, <1>7

LEMMA CompleteIsTaken ==
  ASSUME TypeInv, TidyNow, ReceiveInv, ParseComplete
  PROVE  ReceiveInv'
<1>1. /\ Result(readPos) = "complete" /\ io' = "parse" /\ readPos < arrived
      /\ UNCHANGED <<stream, current, returned, listed>>
      /\ Process(readPos + 1) /\ MoveTo(readPos + stream[readPos + 1].len)
  BY DEF ParseComplete, Parsing
<1>2. readPos \in readPos .. arrived - 1
  BY <1>1, StreamTypes
<1>3. \A o \in savePos + 1 .. readPos :
        stream[o].kind \in Kept => stream[o].kind = "data" /\ Duplicate(stream[o])
  BY DEF ReceiveInv, NoneBetween
<1> QED
  BY <1>1, <1>2, <1>3, TakePacket

LEMMA InsideIsTaken ==
  ASSUME TypeInv, TidyNow, ReceiveInv, ParseInside
  PROVE  ReceiveInv'
<1>0. /\ readPos < arrived /\ Parsing("more") /\ io' = "parse"
      /\ UNCHANGED <<stream, current, returned, listed>>
  BY DEF ParseInside, Parsing
<1>1. PICK wanted \in BOOLEAN : \E q \in FoundInside(wanted) :
        Process(q + 1) /\ MoveTo(q + stream[q + 1].len)
  BY DEF ParseInside
<1>2. PICK q \in FoundInside(wanted) : Process(q + 1) /\ MoveTo(q + stream[q + 1].len)
  BY <1>1
<1>3. q \in readPos + 1 .. arrived - 1 /\ Result(q) = "complete"
  BY <1>0, InsideIsWhole
<1>4. /\ Len(stream) \in Nat /\ readPos \in Nat /\ arrived \in Nat /\ arrived <= Len(stream)
      /\ savePos \in Nat
  BY StreamTypes
<1>5. /\ q + 1 \in 1 .. Len(stream) /\ stream[q + 1].kind \in Packets
      /\ q + stream[q + 1].len \in q .. arrived /\ stream[q + 1].len \in Nat
  <2>1. q \in 0 .. arrived - 1
    BY <1>3, <1>4
  <2> QED
    BY <1>3, <2>1, WholePacket, StreamTypes
<1>6. /\ q + 1 \in readPos + 2 .. Len(stream) /\ (q + 1) - 1 = q
      /\ (q + 1) - 1 + stream[q + 1].len <= arrived
  BY <1>3, <1>4, <1>5
<1>7. \A p \in Inside(wanted) : (q + 1) - 1 <= p
  BY <1>6 DEF FoundInside
<1>8. \A o \in savePos + 1 .. (q + 1) - 1 :
        stream[o].kind \in Kept => stream[o].kind = "data" /\ Duplicate(stream[o])
  BY <1>0, <1>5, <1>6, <1>7, PassedInside
<1>9. q \in readPos .. arrived - 1
  BY <1>3, <1>4
<1> QED
  BY <1>0, <1>2, <1>3, <1>6, <1>8, <1>9, TakePacket

\* Where nothing is found there is nothing.
LEMMA NothingInside ==
  ASSUME TypeInv, NEW wanted \in BOOLEAN, FoundInside(wanted) = {}
  PROVE  Inside(wanted) = {}
<1> SUFFICES ASSUME Inside(wanted) # {}
             PROVE  FALSE
  OBVIOUS
<1>1. Inside(wanted) \subseteq Nat
  BY StreamTypes DEF Inside
<1>2. PICK q \in Inside(wanted) : \A p \in Inside(wanted) : <<p, q>> \notin OpToRel(<, Nat)
  <2> DEFINE S == Inside(wanted)
  <2>1. S \subseteq Nat /\ S # {}
    BY <1>1
  <2> HIDE DEF S
  <2>2. \E q \in S : \A p \in S : <<p, q>> \notin OpToRel(<, Nat)
    BY <2>1, NatLessThanWellFounded, WFMin
  <2> QED
    BY <2>2 DEF S
<1>3. \A p \in Inside(wanted) : ~(p < q)
  BY <1>1, <1>2 DEF OpToRel
<1>4. q \in FoundInside(wanted)
  BY <1>1, <1>3 DEF FoundInside
<1> QED
  BY <1>4

\* When parse returns, what has come and is not taken was sent again.
LEMMA EndLeavesRepeats ==
  ASSUME TypeInv, TidyNow, ReceiveInv, ParseEnd
  PROVE  Repeats(savePos)
<1>0. /\ Len(stream) \in Nat /\ readPos \in Nat /\ arrived \in Nat /\ arrived <= Len(stream)
      /\ savePos \in Nat /\ savePos <= readPos
      /\ \A p \in 1 .. Len(stream) : stream[p].len \in Nat
      /\ \A p \in 1 .. Len(stream) : stream[p].kind \in Packets => stream[p].len >= MinPacket
      /\ MinPacket >= 1 /\ MinPacket \in Nat
  BY StreamTypes
<1> SUFFICES ASSUME NEW p \in savePos + 1 .. Len(stream),
                    stream[p].kind \in Kept, p - 1 + stream[p].len <= arrived
             PROVE  stream[p].kind = "data" /\ IsRepeated(p)
  BY DEF Repeats
<1>1. stream[p].kind \in Packets /\ stream[p].kind # "reply"
  BY DEF Kept, Packets
<1>2. p \in 1 .. Len(stream)
  BY <1>0
<1>3. stream[p].len \in Nat /\ stream[p].len >= 1
  BY <1>0, <1>1, <1>2
<1>4. p <= arrived /\ p > readPos
  <2>1. p <= arrived
    BY <1>0, <1>2, <1>3
  <2>2. p \notin savePos + 1 .. readPos
    BY DEF ReceiveInv, NoneBetween
  <2> QED
    BY <1>0, <2>1, <2>2
<1>5. /\ Parsing("more") /\ \E wanted \in BOOLEAN : FoundInside(wanted) = {}
  BY <1>0, <1>4 DEF ParseEnd
<1>6. PICK wanted \in BOOLEAN : Inside(wanted) = {}
  BY <1>5, NothingInside
<1>7. p # readPos + 1
  <2>1. ASSUME p = readPos + 1
        PROVE  FALSE
    <3>1. arrived < readPos + stream[readPos + 1].len
      BY <1>1, <1>5, <2>1, WaitsForMore DEF Parsing
    <3> QED
      BY <1>0, <1>3, <2>1, <3>1
  <2> QED
    BY <2>1
<1>8. p \in readPos + 2 .. Len(stream)
  BY <1>0, <1>4, <1>7
<1>9. \A o \in savePos + 1 .. p - 1 :
        stream[o].kind \in Kept => stream[o].kind = "data" /\ Duplicate(stream[o])
  BY <1>1, <1>5, <1>6, <1>8, PassedInside
<1>10. stream[p].kind = "data" /\ Duplicate(stream[p])
  <2>1. /\ p - 1 \in 0 .. arrived - MinPacket
        /\ Result(p - 1) = IF Duplicate(stream[p]) THEN "duplicate" ELSE "complete"
    BY <1>1, <1>2, WholeIsLooked
  <2>2. p - 1 \in readPos + 1 .. arrived - MinPacket /\ (p - 1) + 1 = p
    BY <1>0, <1>8, <2>1
  <2>3. Result(p - 1) # "complete"
    BY <1>1, <1>6, <2>2 DEF Inside
  <2> QED
    BY <2>1, <2>3 DEF Duplicate
<1>11. \A o \in savePos + 1 .. p :
         stream[o].kind \in Kept => stream[o].kind = "data" /\ Duplicate(stream[o])
  <2>1. \A o \in savePos + 1 .. p : o \in savePos + 1 .. p - 1 \/ o = p
    BY <1>0, <1>2
  <2> QED
    BY <1>9, <1>10, <2>1
<1>12. savePos \in 0 .. Len(stream) /\ p \in savePos .. Len(stream) /\ p \in savePos + 1 .. p
  BY <1>0
<1> QED
  BY <1>11, <1>12, SkippedAreRepeated DEF ReceiveInv

LEMMA EndMovesBack ==
  ASSUME TypeInv, TidyNow, ReceiveInv, ParseEnd
  PROVE  ReceiveInv'
<1>0. /\ Len(stream) \in Nat /\ savePos \in Nat /\ savePos <= Len(stream)
  BY StreamTypes
<1>1. /\ UNCHANGED <<stream, arrived, last, collector, history>>
      /\ savePos' = savePos /\ readPos' = savePos
  BY DEF ParseEnd
<1>2. Repeats(savePos)
  BY EndLeavesRepeats
<1>3. PICK n \in Nat : n = savePos
  BY <1>0
<1>4. n \in savePos .. Len(stream) /\ n \in n .. Len(stream) /\ savePos' = n /\ readPos' = n /\ NotInside(n)
  BY <1>0, <1>1, <1>3 DEF ReceiveInv
<1>5. /\ \A p \in savePos + 1 .. n :
           stream[p].kind \in Kept => stream[p].kind = "data" /\ Duplicate(stream[p])
      /\ \A p \in n + 1 .. n : stream[p].kind \notin Kept
  BY <1>0, <1>3
<1>6. Repeats(n)'
  BY <1>1, <1>2, <1>3 DEF Repeats, IsRepeated
<1> QED
  BY <1>1, <1>4, <1>5, <1>6, MovesOn

-----------------------------------------------------------------------------
(* The steps of the readers *)

LEMMA ParserKnows ==
  ASSUME ReceiveInv, UNCHANGED <<stream, parser>>
  PROVE  /\ NotInside(readPos)' /\ NotInside(savePos)' /\ NoneBetween' /\ LastIs(savePos)'
         /\ io' = "read" => Repeats(savePos)'
BY DEF ReceiveInv, NotInside, NoneBetween, LastIs, Latest, Repeats, IsRepeated, parser

\* The packet m_currentDataPacket becomes is the first one of the buffer.
LEMMA NextIsFirst ==
  ASSUME TypeInv, ReceiveInv, current = <<>>, dataPackets # <<>>,
         current' = SweepsOf(Head(dataPackets)), dataPackets' = Tail(dataPackets),
         UNCHANGED <<stream, parser, discoveries, history>>
  PROVE  ReceiveInv'
<1> DEFINE h == dataPackets[1]
           t == Tail(dataPackets)
           c == SweepsOf(h)
<1>1. /\ dataPackets \in Seq(Nat) /\ Len(dataPackets) \in Nat /\ Len(dataPackets) >= 1
      /\ DOMAIN dataPackets = 1 .. Len(dataPackets) /\ Head(dataPackets) = h /\ h \in Nat
  BY DEF TypeInv, CallTypes
<1>2. /\ t \in Seq(Nat) /\ DOMAIN t = 1 .. Len(dataPackets) - 1
      /\ \A j \in DOMAIN t : t[j] = dataPackets[j + 1] /\ j + 1 \in DOMAIN dataPackets
  BY <1>1
<1>3. h \in Sent("data", savePos)
  BY <1>1, WhatIsStored
<1>4. h \in 1 .. Len(stream) /\ stream[h].sweeps \in Nat
  BY <1>3, StreamTypes DEF Sent
<1>5. /\ c \in Seq(Nat \X Nat) /\ DOMAIN c = 1 .. stream[h].sweeps
      /\ \A k \in DOMAIN c : c[k] = <<h, k>>
  <2>1. c = [k \in 1 .. stream[h].sweeps |-> <<h, k>>]
    BY DEF SweepsOf
  <2> HIDE DEF c
  <2>2. \A k \in 1 .. stream[h].sweeps : <<h, k>> \in Nat \X Nat
    BY <1>1, <1>4
  <2>3. c \in [1 .. stream[h].sweeps -> Nat \X Nat]
    BY <2>1, <2>2
  <2>4. c \in Seq(Nat \X Nat)
    BY <1>4, <2>3, SeqDef
  <2> QED
    BY <2>1, <2>4
<1>6. returned \in Seq(Nat \X Nat) /\ Taken = returned
  BY DEF ReceiveInv, Buffered, Taken
<1>7. Taken' = returned \o c /\ dataPackets' = t
  BY <1>1 DEF history, Taken
<1> HIDE DEF t, c
<1> DEFINE d == returned \o c
<1>8. /\ d \in Seq(Nat \X Nat)
      /\ \A i \in DOMAIN returned : d[i] = returned[i]
      /\ \A i \in DOMAIN c : d[Len(returned) + i] = c[i]
      /\ \A i \in DOMAIN d : \/ i \in DOMAIN returned
                             \/ i - Len(returned) \in DOMAIN c /\ i = Len(returned) + (i - Len(returned))
      /\ Range(d) = Range(returned) \cup Range(c)
      /\ DOMAIN returned = 1 .. Len(returned) /\ Len(returned) \in Nat /\ DOMAIN d \subseteq Nat
  <2> DEFINE S == Nat \X Nat
  <2>1. returned \in Seq(S) /\ c \in Seq(S)
    BY <1>5, <1>6
  <2> HIDE DEF S
  <2>2. /\ d \in Seq(S) /\ DOMAIN d = 1 .. Len(returned) + Len(c)
        /\ \A i \in DOMAIN returned : d[i] = returned[i]
        /\ \A i \in DOMAIN c : d[Len(returned) + i] = c[i]
        /\ \A i \in DOMAIN d : \/ i \in DOMAIN returned
                               \/ i - Len(returned) \in DOMAIN c /\ i = Len(returned) + (i - Len(returned))
        /\ Range(d) = Range(returned) \cup Range(c)
        /\ DOMAIN returned = 1 .. Len(returned) /\ Len(returned) \in Nat /\ Len(c) \in Nat
    <3> HIDE DEF c
    <3>1. d = returned \o c
      OBVIOUS
    <3> HIDE DEF d
    <3> QED
      BY <2>1, <3>1, ConcatElements
  <2> HIDE DEF d
  <2>3. DOMAIN d \subseteq Nat
    BY <2>2
  <2> QED
    BY <2>2, <2>3, Zenon DEF S
<1> HIDE DEF d
<1>9. \A i \in DOMAIN returned : returned[i][1] < h
  BY <1>1, <1>6 DEF ReceiveInv, NothingIsLost, OnceAndInOrder
<1>10. \A i, j \in DOMAIN returned : i < j => Before(returned[i], returned[j])
  BY <1>6 DEF ReceiveInv, NothingIsLost, OnceAndInOrder
<1>11. \A i \in DOMAIN dataPackets, j \in DOMAIN dataPackets : i < j => dataPackets[i] < dataPackets[j]
  BY DEF ReceiveInv, NothingIsLost, OnceAndInOrder, Increasing
<1>12. \A i \in DOMAIN d : \/ i \in DOMAIN returned /\ d[i] = returned[i] /\ d[i][1] < h
                           \/ /\ i - Len(returned) \in DOMAIN c /\ d[i] = <<h, i - Len(returned)>>
                              /\ i > Len(returned)
  <2> TAKE i \in DOMAIN d
  <2>1. CASE i \in DOMAIN returned
    BY <1>8, <1>9, <2>1
  <2>2. CASE i - Len(returned) \in DOMAIN c /\ i = Len(returned) + (i - Len(returned))
    <3>1. d[i] = c[i - Len(returned)]
      BY <1>8, <2>2
    <3>2. i - Len(returned) \in 1 .. stream[h].sweeps /\ i \in Nat /\ Len(returned) \in Nat
      BY <1>5, <1>8, <2>2
    <3>3. i > Len(returned)
      BY <1>4, <3>2
    <3> QED
      BY <1>5, <2>2, <3>1, <3>3
  <2> QED
    BY <1>8, <2>1, <2>2
<1>13. \A i, j \in DOMAIN d : i < j => Before(d[i], d[j])
  <2> SUFFICES ASSUME NEW i \in DOMAIN d, NEW j \in DOMAIN d, i < j
               PROVE  Before(d[i], d[j])
    OBVIOUS
  <2>0. i \in Nat /\ j \in Nat /\ Len(returned) \in Nat
    BY <1>8
  <2>1. CASE i \in DOMAIN returned /\ j \in DOMAIN returned
    BY <1>8, <1>10, <2>1
  <2>2. CASE d[i][1] < h /\ d[j] = <<h, j - Len(returned)>>
    BY <2>2 DEF Before
  <2>3. CASE d[i] = <<h, i - Len(returned)>> /\ d[j] = <<h, j - Len(returned)>>
    <3>1. i - Len(returned) < j - Len(returned)
      BY <2>0
    <3> QED
      BY <2>3, <3>1 DEF Before
  <2>4. ~(i > Len(returned) /\ j \in DOMAIN returned)
    BY <1>8, <2>0
  <2> QED
    BY <1>12, <2>1, <2>2, <2>3, <2>4
<1>14. \A i \in DOMAIN d, j \in DOMAIN t : d[i][1] < t[j]
  <2> SUFFICES ASSUME NEW i \in DOMAIN d, NEW j \in DOMAIN t
               PROVE  d[i][1] < t[j]
    OBVIOUS
  <2>1. t[j] = dataPackets[j + 1] /\ j + 1 \in DOMAIN dataPackets /\ j \in Nat /\ j >= 1
    BY <1>1, <1>2
  <2>2. h < t[j]
    <3>1. 1 \in DOMAIN dataPackets /\ 1 < j + 1
      BY <1>1, <2>1
    <3> QED
      BY <1>11, <2>1, <3>1
  <2>3. CASE d[i] = <<h, i - Len(returned)>>
    BY <2>2, <2>3
  <2>4. CASE i \in DOMAIN returned /\ d[i] = returned[i]
    BY <1>6, <2>1, <2>4 DEF ReceiveInv, NothingIsLost, OnceAndInOrder
  <2> QED
    BY <1>12, <2>3, <2>4
<1>15. Increasing(t)
  <2> SUFFICES ASSUME NEW i \in DOMAIN t, NEW j \in DOMAIN t, i < j
               PROVE  t[i] < t[j]
    BY DEF Increasing
  <2>1. i + 1 < j + 1
    BY <1>2
  <2> QED
    BY <1>2, <1>11, <2>1
<1>16. OnceAndInOrder'
  BY <1>7, <1>13, <1>14, <1>15 DEF d, ReceiveInv, NothingIsLost, OnceAndInOrder, history, Increasing
<1>17. Range(dataPackets) = {h} \cup Range(t)
  <2>1. \A i \in DOMAIN dataPackets : i = 1 \/ (i - 1 \in DOMAIN t /\ (i - 1) + 1 = i)
    BY <1>1, <1>2
  <2>2. 1 \in DOMAIN dataPackets
    BY <1>1
  <2>3. \A x \in Range(dataPackets) : x \in {h} \cup Range(t)
    BY <1>2, <2>1 DEF Range
  <2>4. \A x \in {h} \cup Range(t) : x \in Range(dataPackets)
    BY <1>2, <2>2 DEF Range
  <2> QED
    BY <2>3, <2>4
<1>18. Range(d) \cup Sweeps(Range(t)) = Range(returned) \cup Sweeps(Range(dataPackets))
  <2>1. \A x : x \in Range(c) <=> \E k \in 1 .. stream[h].sweeps : x = <<h, k>>
    BY <1>5 DEF Range
  <2>2. \A x : x \in Sweeps(Range(t)) <=> \E o \in Range(t) : \E k \in 1 .. stream[o].sweeps : x = <<o, k>>
    BY SweepsMember
  <2>3. \A x : x \in Sweeps({h} \cup Range(t)) <=> \E o \in {h} \cup Range(t) : \E k \in 1 .. stream[o].sweeps : x = <<o, k>>
    BY SweepsMember
  <2> HIDE DEF h
  <2>4. \A x : x \in Sweeps({h} \cup Range(t)) <=> x \in Range(c) \/ x \in Sweeps(Range(t))
    BY <2>1, <2>2, <2>3
  <2> QED
    BY <1>8, <1>17, <2>4
<1>19. \A kind : Sent(kind, savePos)' = Sent(kind, savePos)
  BY DEF Sent, IsRepeated, parser, history
<1>20. AllOf(savePos)'
  <2>1. Range(Taken') \cup Sweeps(Range(dataPackets')) = Sweeps(Sent("data", savePos))
    BY <1>6, <1>7, <1>18 DEF d, ReceiveInv, NothingIsLost, AllOf
  <2>2. Range(listed') \cup Range(discoveries') = Sent("discovery", savePos)
    BY DEF ReceiveInv, NothingIsLost, AllOf, history
  <2> QED
    BY <1>19, <2>1, <2>2 DEF AllOf, Sweeps
<1>21. Buffered'
  <2>1. Range(t) \subseteq Sent("data", savePos)'
    BY <1>17, <1>19 DEF ReceiveInv, Buffered
  <2>2. current' \in Seq(Nat \X Nat)
    BY <1>1, <1>5 DEF c
  <2> QED
    BY <1>7, <2>1, <2>2 DEF ReceiveInv, Buffered, parser, history
<1>22. /\ NotInside(readPos)' /\ NotInside(savePos)' /\ NoneBetween' /\ LastIs(savePos)'
       /\ io' = "read" => Repeats(savePos)'
  BY ParserKnows
<1> QED
  BY <1>16, <1>20, <1>21, <1>22 DEF ReceiveInv, NothingIsLost

\* What is in the buffers stays, and so does all the parser knows.
LEMMA NothingMoves ==
  ASSUME ReceiveInv, UNCHANGED <<stream, readPos, savePos, last, dataPackets, discoveries, current, history>>,
         io' = "read" => (io = "read" /\ arrived' = arrived)
  PROVE  ReceiveInv'
<1>1. \A kind : Sent(kind, savePos)' = Sent(kind, savePos)
  BY DEF Sent, IsRepeated, history
<1>2. NothingIsLost'
  BY <1>1 DEF ReceiveInv, NothingIsLost, OnceAndInOrder, AllOf, Taken, Increasing, Sweeps, history
<1>3. Buffered'
  BY <1>1 DEF ReceiveInv, Buffered, history
<1>4. /\ NotInside(readPos)' /\ NotInside(savePos)' /\ NoneBetween' /\ LastIs(savePos)'
      /\ io' = "read" => Repeats(savePos)'
  BY DEF ReceiveInv, NotInside, NoneBetween, LastIs, Latest, Repeats, IsRepeated
<1> QED
  BY <1>2, <1>3, <1>4 DEF ReceiveInv

LEMMA SweepIsHandedOut ==
  ASSUME TypeInv, ReceiveInv, NEW r \in Readers, TakeSweep(r)
  PROVE  ReceiveInv'
<1> DEFINE S == Nat \X Nat
<1>1. /\ returned \in Seq(S) /\ current \in Seq(S) /\ current # <<>>
      /\ returned' = Append(returned, Head(current)) /\ current' = Tail(current)
      /\ UNCHANGED <<stream, parser, dataPackets, discoveries, listed, pushedOut>>
  BY DEF TakeSweep, ReceiveInv, Buffered
<1> HIDE DEF S
<1>2. returned' \in Seq(S) /\ current' \in Seq(S)
  BY <1>1
<1>3. Taken' = Taken
  BY <1>1, ConcatMoves DEF Taken
<1>4. \A kind : Sent(kind, savePos)' = Sent(kind, savePos)
  BY <1>1 DEF Sent, IsRepeated, parser
<1>5. NothingIsLost'
  <2>1. OnceAndInOrder'
    BY <1>1, <1>3 DEF ReceiveInv, NothingIsLost, OnceAndInOrder, Increasing
  <2>2. AllOf(savePos)'
    BY <1>1, <1>3, <1>4 DEF ReceiveInv, NothingIsLost, AllOf, Sweeps
  <2> QED
    BY <2>1, <2>2 DEF NothingIsLost
<1>6. Buffered'
  BY <1>1, <1>2, <1>4 DEF S, ReceiveInv, Buffered, parser
<1>7. /\ NotInside(readPos)' /\ NotInside(savePos)' /\ NoneBetween' /\ LastIs(savePos)'
      /\ io' = "read" => Repeats(savePos)'
  BY <1>1, ParserKnows
<1> QED
  BY <1>5, <1>6, <1>7 DEF ReceiveInv

LEMMA DiscoveriesAreListed ==
  ASSUME TypeInv, ReceiveInv, GetNodeDiscoveries
  PROVE  ReceiveInv'
<1>1. /\ listed \in Seq(Nat) /\ discoveries \in Seq(Nat)
      /\ listed' = listed \o discoveries /\ discoveries' = <<>>
      /\ UNCHANGED <<stream, parser, dataPackets, current, returned, pushedOut>>
  BY DEF GetNodeDiscoveries, ReceiveInv, Buffered, TypeInv, CallTypes
<1>2. /\ listed' \in Seq(Nat) /\ listed' \o discoveries' = listed \o discoveries
      /\ Range(listed') \cup Range(discoveries') = Range(listed) \cup Range(discoveries)
  <2>1. listed \o discoveries \in Seq(Nat) /\ Range(listed \o discoveries) = Range(listed) \cup Range(discoveries)
    BY <1>1, ConcatElements
  <2>2. (listed \o discoveries) \o <<>> = listed \o discoveries
    BY <2>1, ConcatEmptySeq
  <2>3. Range(discoveries') = {}
    BY <1>1 DEF Range
  <2> QED
    BY <1>1, <2>1, <2>2, <2>3
<1>3. \A kind : Sent(kind, savePos)' = Sent(kind, savePos)
  BY <1>1 DEF Sent, IsRepeated, parser
<1>4. OnceAndInOrder'
  BY <1>1, <1>2 DEF ReceiveInv, NothingIsLost, OnceAndInOrder, Increasing, Taken
<1>5. AllOf(savePos)'
  BY <1>1, <1>2, <1>3 DEF ReceiveInv, NothingIsLost, AllOf, Taken, Sweeps, parser
<1>6. Buffered'
  BY <1>1, <1>2, <1>3 DEF ReceiveInv, Buffered, parser
<1>7. /\ NotInside(readPos)' /\ NotInside(savePos)' /\ NoneBetween' /\ LastIs(savePos)'
      /\ io' = "read" => Repeats(savePos)'
  BY <1>1, ParserKnows
<1> QED
  BY <1>4, <1>5, <1>6, <1>7 DEF ReceiveInv, NothingIsLost

LEMMA ReaderTakesNothingAway ==
  ASSUME IInv, ReceiveInv, NEW r \in Readers,
         ReaderStep(r) \/ \E max \in Limits, waits \in BOOLEAN : GetDataSweeps(r, max, waits)
  PROVE  ReceiveInv'
<1>0. TypeInv
  BY DEF IInv
<1>1. CASE TakeSweep(r)
  BY <1>0, <1>1, SweepIsHandedOut
<1>2. CASE NextPacket(r)
  BY <1>0, <1>2, NextIsFirst DEF NextPacket
<1>3. CASE WakeUp(r) /\ dataPackets # <<>>
  <2>1. current = <<>>
    BY <1>3 DEF WakeUp, IInv, NoneSleepsOnARest
  <2>2. /\ current' = SweepsOf(Head(dataPackets)) /\ dataPackets' = Tail(dataPackets)
        /\ UNCHANGED <<stream, parser, discoveries, history>>
    BY <1>3 DEF WakeUp
  <2> QED
    BY <1>0, <1>3, <2>1, <2>2, NextIsFirst
<1>4. CASE \/ FallAsleep(r) \/ Return(r) \/ (WakeUp(r) /\ dataPackets = <<>>)
           \/ \E max \in Limits, waits \in BOOLEAN : GetDataSweeps(r, max, waits)
  <2>1. UNCHANGED <<stream, parser, dataPackets, discoveries, current, history>>
    BY <1>4 DEF FallAsleep, Return, WakeUp, GetDataSweeps
  <2> QED
    BY <2>1, NothingMoves DEF parser
<1> QED
  BY <1>1, <1>2, <1>3, <1>4 DEF ReaderStep

-----------------------------------------------------------------------------
LEMMA NothingIsLostAtFirst == Init => ReceiveInv
<1> SUFFICES ASSUME Init PROVE ReceiveInv
  OBVIOUS
<1>0. TypeInv
  BY InitIInv DEF IInv
<1>1. /\ stream \in Streams /\ arrived = 0 /\ readPos = 0 /\ savePos = 0
      /\ last = [k \in {} |-> 0] /\ dataPackets = <<>> /\ discoveries = <<>> /\ current = <<>>
      /\ returned = <<>> /\ listed = <<>> /\ pushedOut = {}
  BY DEF Init
<1>2. /\ Len(stream) \in Nat /\ \A p \in 1 .. Len(stream) : stream[p].len \in Nat
      /\ \A p \in 1 .. Len(stream) : stream[p].kind \in Packets => stream[p].len >= 1
  BY <1>0, StreamTypes
<1>3. NotInside(0)
  BY <1>2 DEF NotInside
<1>4. /\ NoneBetween /\ LastIs(0)
  BY <1>1 DEF NoneBetween, LastIs
<1>5. \A kind : Sent(kind, 0) = {}
  BY DEF Sent
<1>6. Taken = <<>> /\ listed \o discoveries = <<>>
  BY <1>1 DEF Taken
<1>7. Range(<<>>) = {} /\ Sweeps({}) = {}
  BY DEF Range, Sweeps
<1>8. Buffered
  BY <1>1, <1>7 DEF Buffered
<1>9. AllOf(0)
  BY <1>1, <1>5, <1>6, <1>7 DEF AllOf
<1>10. OnceAndInOrder
  BY <1>1, <1>6 DEF OnceAndInOrder, Increasing
<1>11. Repeats(0)
  <2>1. ASSUME NEW p \in 0 + 1 .. Len(stream), stream[p].kind \in Kept, p - 1 + stream[p].len <= 0
        PROVE  FALSE
    <3>1. stream[p].kind \in Packets /\ p \in 1 .. Len(stream)
      BY <1>2, <2>1 DEF Kept, Packets
    <3> QED
      BY <1>2, <2>1, <3>1
  <2> QED
    BY <1>1, <2>1 DEF Repeats
<1> QED
  BY <1>1, <1>3, <1>4, <1>8, <1>9, <1>10, <1>11 DEF ReceiveInv, NothingIsLost

LEMMA ReceiveKept ==
  ASSUME IInv, TidyNow, ReceiveInv, [Next]_vars
  PROVE  ReceiveInv'
<1>0. TypeInv
  BY DEF IInv
<1>1. CASE Arrive
  <2>1. io' = "parse" /\ UNCHANGED <<stream, readPos, savePos, last, dataPackets, discoveries, current, history>>
    BY <1>1 DEF Arrive, collector
  <2> QED
    BY <2>1, NothingMoves
<1>2. CASE ParseStep
  BY <1>0, <1>2, CompleteIsTaken, DuplicateMovesOn, AnswerMovesOn, InvalidMovesOn, InsideIsTaken, EndMovesBack
  DEF ParseStep
<1>3. CASE SendCommand \/ UNCHANGED vars
  <2>1. UNCHANGED <<stream, arrived, readPos, savePos, io, last, dataPackets, discoveries, current, history>>
    BY <1>3 DEF SendCommand, vars, parser, collector
  <2> QED
    BY <2>1, NothingMoves
<1>4. CASE GetNodeDiscoveries
  BY <1>0, <1>4, DiscoveriesAreListed
<1>5. CASE \E r \in Readers :
             ReaderStep(r) \/ \E max \in Limits, waits \in BOOLEAN : GetDataSweeps(r, max, waits)
  BY <1>5, ReaderTakesNothingAway
<1> QED
  BY <1>1, <1>2, <1>3, <1>4, <1>5 DEF Next

\* The stream does not change, and all that is sent is tidy.
LEMMA StaysTidy ==
  ASSUME \A s \in Streams : Tidy(s)
  PROVE  IInv => TidyNow
BY DEF IInv, TypeInv, CallTypes, TidyNow

\* When parse has returned, all that has come is taken, but for what was sent again.
LEMMA NothingWaits ==
  ASSUME IInv, TidyNow, ReceiveInv
  PROVE  NothingIsLeft
<1> SUFFICES ASSUME io = "read"
             PROVE  AllOf(arrived)
  BY DEF NothingIsLeft
<1>0. /\ Len(stream) \in Nat /\ arrived \in Nat /\ savePos \in Nat
      /\ savePos <= arrived /\ arrived <= Len(stream)
  BY StreamTypes DEF IInv
<1>1. ASSUME NEW kind \in Kept
      PROVE  Sent(kind, arrived) = Sent(kind, savePos)
  <2>1. \A p \in 1 .. arrived : p \in 1 .. savePos \/ p \in savePos + 1 .. Len(stream)
    BY <1>0
  <2>2. \A p \in Sent(kind, arrived) : p \in 1 .. savePos
    BY <1>1, <2>1 DEF ReceiveInv, Repeats, Sent, Kept
  <2>3. ASSUME NEW p \in 1 .. savePos, stream[p].kind = kind
        PROVE  p - 1 + stream[p].len <= savePos /\ p - 1 + stream[p].len <= arrived /\ p \in 1 .. arrived
    <3>1. p \in 1 .. Len(stream) /\ ~(savePos < p) /\ stream[p].kind \in Packets
      BY <1>0, <1>1, <2>3 DEF Kept, Packets
    <3>2. p - 1 + stream[p].len <= savePos
      BY <3>1 DEF ReceiveInv, NotInside
    <3>3. stream[p].len \in Nat
      BY <3>1, StreamTypes DEF IInv
    <3> QED
      BY <1>0, <3>1, <3>2, <3>3
  <2> QED
    BY <2>2, <2>3 DEF Sent
<1> QED
  BY <1>1 DEF ReceiveInv, NothingIsLost, AllOf, Kept

\* WirelessParser::parse (WirelessParser.cpp:111), WirelessPacketCollector.cpp: as
\* long as a reader that asks for a number of sweeps is the only one, and in what is
\* sent no byte inside a packet is the first of another, nothing is lost: of what the
\* parser is done with, however the reads cut it, every sweep and every discovery has
\* been handed out, in order and once, or is there, or was pushed out by others.
THEOREM NothingGetsLost ==
  ASSUME "alone" \in Rules, \A s \in Streams : Tidy(s)
  PROVE  Spec => []NothingIsLost
<1>1. Init => IInv /\ ReceiveInv
  BY InitIInv, NothingIsLostAtFirst
<1>2. IInv /\ ReceiveInv /\ [Next]_vars => IInv' /\ ReceiveInv'
  BY IInvKept, StaysTidy, ReceiveKept
<1>3. IInv /\ ReceiveInv => NothingIsLost
  BY DEF ReceiveInv
<1> QED
  BY <1>1, <1>2, <1>3, PTL DEF Spec

\* WirelessParser::parse, findPacketInBytes (WirelessParser.cpp:281): under the same
\* conditions, when parse returns no packet that has come completely is left for the
\* next read, not even one behind bytes that look like the start of a longer one.
THEOREM NothingStaysBehind ==
  ASSUME "alone" \in Rules, \A s \in Streams : Tidy(s)
  PROVE  Spec => []NothingIsLeft
<1>1. Init => IInv /\ ReceiveInv
  BY InitIInv, NothingIsLostAtFirst
<1>2. IInv /\ ReceiveInv /\ [Next]_vars => IInv' /\ ReceiveInv'
  BY IInvKept, StaysTidy, ReceiveKept
<1>3. IInv /\ ReceiveInv => NothingIsLeft
  BY StaysTidy, NothingWaits
<1> QED
  BY <1>1, <1>2, <1>3, PTL DEF Spec
=============================================================================
