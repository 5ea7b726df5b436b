--------------------------- MODULE WirelessReceive ---------------------------
(***************************************************************************)
(* From the bytes of a BaseStation to the sweeps an application gets.  The *)
(* IO thread (WirelessParser::parse) looks for packets in the bytes that   *)
(* have arrived, throws duplicates away and stores data and discoveries in *)
(* bounded buffers (WirelessPacketCollector); readers take sweeps out, and *)
(* wait for them up to a timeout.                                          *)
(*                                                                         *)
(* A position is the number of bytes before it since the connection was    *)
(* opened; that the buffer is shifted is the matter of ReadBuffer.         *)
(***************************************************************************)
EXTENDS Integers, FiniteSets, Sequences, Functions

CONSTANTS
  Readers, Nobody,
  Streams,     \* what the BaseStation may send
  MinPacket,   \* ASPP_MIN_RESPONSE_PACKET_SIZE
  Capacity,    \* MAX_DATA_BUFFER_SIZE, MAX_DISCOVERY_BUFFER_SIZE: one for both
  Limits,      \* the maxSweeps readers ask for; 0: all
  Rules        \* what the application keeps to

(* The rules:                                                              *)
(*   "alone"   a reader that asks for a number of sweeps is the only one   *)

Packets == {"data", "discovery", "reply"}

(* A byte.  The first one of a packet carries what the packet says; a      *)
(* "start" looks like the first byte of a packet of len bytes and is not   *)
(* (noise, or a packet whose checksum is wrong); an "answer" is an answer  *)
(* of the oldest protocol, which is no packet.                             *)
Byte == [kind : Packets \cup {"start", "answer", "junk"}, len : Nat,
         key : Nat,      \* the address of the Node and the type of the packet
         id : Nat,       \* its unique id
         sweeps : Nat]

ASSUME ReceiveAssumption ==
  /\ Nobody \notin Readers
  /\ {MinPacket, Capacity} \subseteq Nat \ {0} /\ Limits \subseteq Nat
  /\ Rules \subseteq {"alone"}
  /\ \A s \in Streams : /\ s \in Seq(Byte)
                        /\ \A i \in DOMAIN s : s[i].kind \in Packets => s[i].len >= MinPacket

\* What some properties ask of a stream: no byte inside a packet is the first of
\* another or an answer, and what stands outside a packet before an answer has no
\* data or discovery between it and the answer.
Tidy(s) ==
  LET Within(i) == \E p \in 1 .. i : s[p].kind \in Packets /\ i < p + s[p].len
  IN /\ \A p, i \in DOMAIN s :
          s[p].kind \in Packets /\ p < i /\ i < p + s[p].len => s[i].kind \notin Packets \cup {"answer"}
     /\ \A i, p, a \in DOMAIN s :
          s[a].kind = "answer" /\ ~Within(i) /\ i < p /\ p < a => s[p].kind \notin {"data", "discovery"}

VARIABLES
  stream,       \* what the BaseStation sends: it does not change
  arrived,      \* how much of it is in the buffer
  readPos,      \* the read position of the DataBuffer
  savePos,      \* the save point of parse
  io,           \* the IO thread: "read" or "parse"
  last,         \* m_lastPacketMap
  command,      \* the position from which a command looks for its one byte answer, or -1
  dataPackets,  \* m_dataPackets: where each packet is in the stream
  discoveries,  \* m_nodeDiscoveryPackets
  current,      \* what m_currentDataPacket has left
  mutex,        \* m_packetMutex, between the steps of a reader
  call,         \* where each reader is
  returned,     \* history: the sweeps readers got
  listed,       \* history: the discoveries the application got
  pushedOut     \* history: the packets a full buffer threw away

parser    == <<arrived, readPos, savePos, io, last, command>>
collector == <<dataPackets, discoveries, current, mutex>>
history   == <<returned, listed, pushedOut>>
vars      == <<stream, parser, collector, call, history>>

NoCall == [at |-> "idle", max |-> 0, waits |-> FALSE, count |-> 0, notified |-> FALSE]

Init ==
  /\ stream \in Streams
  /\ arrived = 0 /\ readPos = 0 /\ savePos = 0 /\ io = "read"
  /\ last = [k \in {} |-> 0] /\ command = -1
  /\ dataPackets = <<>> /\ discoveries = <<>> /\ current = <<>> /\ mutex = Nobody
  /\ call = [r \in Readers |-> NoCall]
  /\ returned = <<>> /\ listed = <<>> /\ pushedOut = {}

-----------------------------------------------------------------------------
(* WirelessPacketCollector: the IO thread *)

SweepsOf(p) == [k \in 1 .. stream[p].sweeps |-> <<p, k>>]

\* Mutant of Pushed: the buffer grows.
PushedUnbounded(buffer, p) == Append(buffer, p)

\* A circular buffer: the oldest packet goes when it is full.
Pushed(buffer, p) == Append(IF Len(buffer) = Capacity THEN Tail(buffer) ELSE buffer, p)

Thrown(buffer) == IF Len(buffer) = Capacity THEN {Head(buffer)} ELSE {}

Asleep == {r \in Readers : call[r].at = "asleep" /\ ~call[r].notified}

\* Mutant of NotifyOne: nobody is notified.
NotifyNobody == UNCHANGED call

NotifyOne ==
  IF Asleep = {} THEN UNCHANGED call
  ELSE \E r \in Asleep : call' = [call EXCEPT ![r].notified = TRUE]

AddDataPacket(p) ==
  /\ mutex = Nobody
  /\ dataPackets' = Pushed(dataPackets, p)
  /\ pushedOut' = pushedOut \cup Thrown(dataPackets)
  /\ NotifyOne
  /\ UNCHANGED discoveries

AddNodeDiscoveryPacket(p) ==
  /\ discoveries' = Pushed(discoveries, p)
  /\ pushedOut' = pushedOut \cup Thrown(discoveries)
  /\ UNCHANGED <<dataPackets, call>>

\* A packet that is no duplicate is processed; p is the index of its first byte.
\* What a reply does is the matter of CommandExchange.
Process(p) ==
  CASE stream[p].kind = "data" ->
         /\ AddDataPacket(p)
         /\ last' = [k \in DOMAIN last \cup {stream[p].key} |->
                       IF k = stream[p].key THEN stream[p].id ELSE last[k]]
    [] stream[p].kind = "discovery" -> AddNodeDiscoveryPacket(p) /\ UNCHANGED last
    [] stream[p].kind = "reply" -> UNCHANGED <<last, dataPackets, discoveries, pushedOut, call>>

-----------------------------------------------------------------------------
(* WirelessParser::parse *)

\* Mutant of Duplicate: packets of one id are duplicates whoever sends them.
DuplicateOfAny(b) == b.kind = "data" /\ \E k \in DOMAIN last : last[k] = b.id

Duplicate(b) == b.kind = "data" /\ b.key \in DOMAIN last /\ last[b.key] = b.id

\* parseAsPacket at a position.
Result(pos) ==
  LET b == stream[pos + 1] IN
  IF b.kind \notin Packets \cup {"start"} THEN "invalid"
  ELSE IF arrived - pos < MinPacket \/ arrived - pos < b.len THEN "more"
  ELSE IF b.kind = "start" THEN "invalid"
  ELSE IF Duplicate(b) THEN "duplicate"
  ELSE "complete"

\* What findPacketInBytes takes: it looks from the next byte on while a packet of
\* the smallest size may follow; replies count only if a command wants them.
Inside(wanted) ==
  {q \in readPos + 1 .. arrived - MinPacket :
     Result(q) = "complete" /\ (stream[q + 1].kind = "reply" => wanted)}

\* Mutant of FoundInside: the search ends where another packet seems to start.
FoundBeforeNext(wanted) ==
  {q \in Inside(wanted) : \A p \in readPos + 1 .. q - 1 : p \notin Inside(wanted) /\ Result(p) # "more"}

FoundInside(wanted) == {q \in Inside(wanted) : \A p \in Inside(wanted) : q <= p}

\* matchExpected(DataBuffer&) looks for the answer in all the bytes there are.
Answers == {q \in readPos .. arrived - 1 :
              command # -1 /\ q >= command /\ stream[q + 1].kind = "answer"}

Arrive ==
  /\ io = "read"
  /\ \E n \in 1 .. Len(stream) - arrived : arrived' = arrived + n
  /\ io' = "parse"
  /\ UNCHANGED <<stream, readPos, savePos, last, command, collector, call, history>>

Parsing(result) == io = "parse" /\ readPos < arrived /\ Result(readPos) = result

MoveTo(pos) == readPos' = pos /\ savePos' = pos

ParseComplete ==
  /\ Parsing("complete")
  /\ Process(readPos + 1)
  /\ MoveTo(readPos + stream[readPos + 1].len)
  /\ UNCHANGED <<stream, arrived, io, command, current, mutex, returned, listed>>

\* Mutant of ParseDuplicate: the position stays where it is.
ParseDuplicateKept ==
  /\ Parsing("duplicate")
  /\ savePos' = readPos
  /\ UNCHANGED <<stream, arrived, readPos, io, last, command, collector, call, history>>

ParseDuplicate ==
  /\ Parsing("duplicate")
  /\ MoveTo(readPos + stream[readPos + 1].len)
  /\ UNCHANGED <<stream, arrived, io, last, command, collector, call, history>>

\* The bytes answer a command that waits for bytes; what is before them is skipped.
ParseAnswer ==
  /\ Parsing("invalid") \/ Parsing("more")
  /\ \E q \in Answers : (\A p \in Answers : q <= p) /\ MoveTo(q + 1)
  /\ command' = -1
  /\ UNCHANGED <<stream, arrived, io, last, collector, call, history>>

\* Not a packet: on to the next byte.  One that looked like a packet is committed.
ParseInvalid ==
  /\ Parsing("invalid") /\ Answers = {}
  /\ readPos' = readPos + 1
  /\ savePos' = IF stream[readPos + 1].kind = "start" THEN readPos ELSE savePos
  /\ UNCHANGED <<stream, arrived, io, last, command, collector, call, history>>

\* Part of a packet, perhaps.  A packet behind its first byte is taken.
ParseInside ==
  /\ Parsing("more") /\ Answers = {}
  /\ \E wanted \in BOOLEAN : \E q \in FoundInside(wanted) :
       /\ Process(q + 1)
       /\ MoveTo(q + stream[q + 1].len)
  /\ UNCHANGED <<stream, arrived, io, command, current, mutex, returned, listed>>

\* The bytes behind the save point are looked at again when more arrive.
ParseEnd ==
  /\ io = "parse"
  /\ \/ readPos = arrived
     \/ /\ Parsing("more") /\ Answers = {}
        /\ \E wanted \in BOOLEAN : FoundInside(wanted) = {}
  /\ readPos' = savePos /\ io' = "read"
  /\ UNCHANGED <<stream, arrived, savePos, last, command, collector, call, history>>

ParseStep ==
  ParseComplete \/ ParseDuplicate \/ ParseAnswer \/ ParseInvalid \/ ParseInside \/ ParseEnd

\* A command that is answered by a byte is sent, or gives up.  What it looks for
\* changes nothing where no byte is an answer.
SendCommand ==
  /\ \E i \in DOMAIN stream : stream[i].kind = "answer"
  /\ command' = IF command = -1 THEN arrived ELSE -1
  /\ UNCHANGED <<stream, arrived, readPos, savePos, io, last, collector, call, history>>

-----------------------------------------------------------------------------
(* WirelessPacketCollector: the readers *)

GetDataSweeps(r, max, waits) ==
  /\ call[r].at = "idle" /\ mutex = Nobody
  /\ "alone" \in Rules =>
       \A o \in Readers \ {r} : call[o].at = "idle" \/ (max = 0 /\ call[o].max = 0)
  /\ mutex' = r
  /\ call' = [call EXCEPT ![r] = [NoCall EXCEPT !.at = "take", !.max = max, !.waits = waits]]
  /\ UNCHANGED <<stream, parser, dataPackets, discoveries, current, history>>

Taking(r) == call[r].at = "take" /\ (call[r].max = 0 \/ call[r].count < call[r].max)

TakeSweep(r) ==
  /\ Taking(r) /\ current # <<>>
  /\ returned' = Append(returned, Head(current)) /\ current' = Tail(current)
  /\ call' = [call EXCEPT ![r].count = @ + 1]
  /\ UNCHANGED <<stream, parser, dataPackets, discoveries, mutex, listed, pushedOut>>

NextPacket(r) ==
  /\ Taking(r) /\ current = <<>> /\ dataPackets # <<>>
  /\ current' = SweepsOf(Head(dataPackets)) /\ dataPackets' = Tail(dataPackets)
  /\ UNCHANGED <<stream, parser, discoveries, mutex, call, history>>

FallAsleep(r) ==
  /\ Taking(r) /\ current = <<>> /\ dataPackets = <<>> /\ call[r].waits /\ call[r].count = 0
  /\ mutex' = Nobody
  /\ call' = [call EXCEPT ![r].at = "asleep", ![r].notified = FALSE]
  /\ UNCHANGED <<stream, parser, dataPackets, discoveries, current, history>>

\* Mutant of WakeUp: there is no timeout.
WakeUpNotified(r) ==
  /\ call[r].at = "asleep" /\ call[r].notified /\ mutex = Nobody
  /\ IF dataPackets = <<>>
     THEN call' = [call EXCEPT ![r] = NoCall] /\ UNCHANGED <<mutex, current, dataPackets>>
     ELSE /\ call' = [call EXCEPT ![r].at = "take"]
          /\ current' = SweepsOf(Head(dataPackets)) /\ dataPackets' = Tail(dataPackets)
          /\ mutex' = r
  /\ UNCHANGED <<stream, parser, discoveries, history>>

\* Notified, timed out or for no reason: the wait is not repeated.
WakeUp(r) ==
  /\ call[r].at = "asleep" /\ mutex = Nobody
  /\ IF dataPackets = <<>>
     THEN call' = [call EXCEPT ![r] = NoCall] /\ UNCHANGED <<mutex, current, dataPackets>>
     ELSE /\ call' = [call EXCEPT ![r].at = "take"]
          /\ current' = SweepsOf(Head(dataPackets)) /\ dataPackets' = Tail(dataPackets)
          /\ mutex' = r
  /\ UNCHANGED <<stream, parser, discoveries, history>>

Return(r) ==
  /\ call[r].at = "take"
  /\ \/ ~Taking(r)
     \/ current = <<>> /\ dataPackets = <<>> /\ ~(call[r].waits /\ call[r].count = 0)
  /\ call' = [call EXCEPT ![r] = NoCall] /\ mutex' = Nobody
  /\ UNCHANGED <<stream, parser, dataPackets, discoveries, current, history>>

ReaderStep(r) == TakeSweep(r) \/ NextPacket(r) \/ FallAsleep(r) \/ WakeUp(r) \/ Return(r)

GetNodeDiscoveries ==
  /\ discoveries # <<>>
  /\ listed' = listed \o discoveries /\ discoveries' = <<>>
  /\ UNCHANGED <<stream, parser, dataPackets, current, mutex, call, returned, pushedOut>>

-----------------------------------------------------------------------------
Next ==
  \/ Arrive \/ ParseStep \/ SendCommand \/ GetNodeDiscoveries
  \/ \E r \in Readers :
       ReaderStep(r) \/ \E max \in Limits, waits \in BOOLEAN : GetDataSweeps(r, max, waits)

Spec == Init /\ [][Next]_vars

\* The threads run, and a thread that asks for the mutex again and again gets it.
FairSpec == Spec /\ SF_vars(ParseStep) /\ \A r \in Readers : SF_vars(ReaderStep(r))

-----------------------------------------------------------------------------
(* Properties *)

\* The positions are in order, the buffers bounded, and only the owner of the mutex
\* is between two sweeps.
TypeOK ==
  /\ savePos \in 0 .. readPos /\ readPos \in 0 .. arrived /\ arrived \in 0 .. Len(stream)
  /\ io \in {"read", "parse"} /\ command \in -1 .. Len(stream)
  /\ Len(dataPackets) <= Capacity /\ Len(discoveries) <= Capacity
  /\ mutex \in Readers \cup {Nobody}
  /\ \A r \in Readers : call[r].at \in {"idle", "take", "asleep"} /\ (call[r].at = "take" <=> mutex = r)

IsRepeated(p) ==
  \E q \in 1 .. p - 1 :
    /\ stream[q].kind = "data" /\ stream[q].key = stream[p].key /\ stream[q].id = stream[p].id
    /\ \A o \in q + 1 .. p - 1 : stream[o].kind = "data" => stream[o].key # stream[p].key

\* The packets among the first n bytes that no full buffer threw away, but for the
\* data packets that repeat the one before of the same Node and type.
Sent(kind, n) ==
  {p \in 1 .. n : /\ stream[p].kind = kind /\ p - 1 + stream[p].len <= n
                  /\ p \notin pushedOut /\ (kind = "data" => ~IsRepeated(p))}

Sweeps(packets) == UNION {{<<p, k>> : k \in 1 .. stream[p].sweeps} : p \in packets}

Before(a, b) == a[1] < b[1] \/ (a[1] = b[1] /\ a[2] < b[2])

Increasing(packets) == \A i, j \in DOMAIN packets : i < j => packets[i] < packets[j]

Taken == returned \o current

OnceAndInOrder ==
  /\ \A i, j \in DOMAIN Taken : i < j => Before(Taken[i], Taken[j])
  /\ \A i \in DOMAIN Taken, j \in DOMAIN dataPackets : Taken[i][1] < dataPackets[j]
  /\ Increasing(dataPackets) /\ Increasing(listed \o discoveries)

AllOf(n) ==
  /\ Range(Taken) \cup Sweeps(Range(dataPackets)) = Sweeps(Sent("data", n))
  /\ Range(listed) \cup Range(discoveries) = Sent("discovery", n)

\* Of what the parser is done with, every sweep and every discovery has been
\* handed out or is still there, once and in order, unless a full buffer threw it
\* away: whatever comes between the packets, and however the reads cut them.
NothingIsLost == OnceAndInOrder /\ AllOf(savePos)

\* When parse returns no packet that has come completely is left for the next
\* read, not even one behind bytes that look like the start of another.
NothingIsLeft == io = "read" => AllOf(arrived)

\* While there are sweeps no reader sleeps, unless one has been woken that will
\* take them.
ReadersAreWoken ==
  (current # <<>> \/ dataPackets # <<>>) /\ mutex = Nobody /\ Asleep # {}
    => \E r \in Readers : call[r].at = "asleep" /\ call[r].notified

\* A reader that waits returns without a sweep only when its time is up: "The
\* timeout, in milliseconds, to wait for data if necessary" (BaseStation.h:320).
WaitsForItsTimeout ==
  [][\A r \in Readers : call[r].at = "asleep" /\ call[r].notified => call'[r].at # "idle"]_vars

\* parse returns: every way round its loop moves the position on, or ends it.
ParseEnds == io = "parse" ~> io = "read"

\* Every call of getDataSweeps returns, whether or not data comes.
CallsReturn == \A r \in Readers : call[r].at # "idle" ~> call[r].at = "idle"
=============================================================================
