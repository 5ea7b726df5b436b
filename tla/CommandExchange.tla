-------------------------- MODULE CommandExchange --------------------------
(***************************************************************************)
(* A command to a BaseStation, from the caller that sends it to the reply  *)
(* that completes it.  Caller threads run doBaseCommand / doNodeCommand:   *)
(* they build a ResponsePattern (whose constructor registers it with the   *)
(* ResponseCollector), write the command, wait on the pattern's            *)
(* TimedCondition and destroy the pattern.  The connection's IO thread     *)
(* appends the bytes it reads to the DataBuffer, parses packets out of it, *)
(* offers them to the registered patterns, shifts the unread bytes to the  *)
(* front and corrects the positions the patterns were registered with.     *)
(*                                                                         *)
(* A packet is two bytes, <<id, "head">> and <<id, "tail">>, so that a     *)
(* read can end inside it; a stray byte is <<id, "junk">>, or <<id,        *)
(* "start">> if it looks like the first byte of a packet of Span bytes:    *)
(* until they have come there may be packets behind it.  `regAt', `early'  *)
(* and `taken' are history: they record what really happened, no code      *)
(* reads them.                                                             *)
(***************************************************************************)
EXTENDS Integers, Sequences, FiniteSets, SequencesExt

CONSTANTS
  Callers,      \* the threads that issue commands
  BaseCmds,     \* commands the BaseStation answers itself
  NodeCmds,     \* commands the BaseStation forwards to a Node
  NoCmd,        \* what a caller without a pattern expects
  Span,         \* the bytes a stray start byte asks for
  MaxCalls,     \* bound: commands issued in a behaviour
  MaxPackets    \* bound: packets and stray bytes the device sends

ASSUME CommandAssumption ==
  /\ BaseCmds \cap NodeCmds = {}
  /\ NoCmd \notin BaseCmds \cup NodeCmds
  /\ Span \in Nat \ {0}
  /\ MaxCalls \in Nat
  /\ MaxPackets \in Nat

Cmds == BaseCmds \cup NodeCmds

VARIABLES
  sent,          \* commands written so far
  packets,       \* what the device has sent: packet id -> [kind, cmd]
  wire,          \* bytes sent by the device and not read yet
  buffer,        \* DataBuffer contents up to the append position
  readPos,       \* DataBuffer.m_readPosition
  savePos,       \* the parser's ReadBufferSavePoint
  shifted,       \* bytesShifted in parseData
  ioPc,          \* where the IO thread is
  expected,      \* ResponseCollector.m_expectedResponses, in order
  minPos,        \* ResponseEntry.minBytePosition of a caller's pattern
  pc,            \* where each caller is
  cmd,           \* the command a caller's pattern expects
  baseReceived,  \* WirelessResponsePattern.m_baseReceived
  fullyMatched,  \* ResponsePattern.m_fullyMatched
  success,       \* ResponsePattern.m_success
  notified,      \* TimedCondition.m_isNotified
  calls,         \* history: commands issued
  regAt,         \* history: the append position at registration, as an index into
                 \* the buffer as it is now (negative once that byte is shifted out)
  early,         \* history: the bytes of the shift the registration came behind, if
                 \* the positions were still to be corrected by it, or 0
  taken          \* history: packet id -> callers whose pattern it matched

deviceVars  == <<sent, packets>>
bufferVars  == <<buffer, readPos, savePos, shifted, ioPc>>
collectVars == <<expected, minPos, regAt, early>>
patternVars == <<cmd, baseReceived, fullyMatched, success, notified>>
vars == <<deviceVars, wire, bufferVars, collectVars, pc, patternVars, calls, taken>>

Kinds  == {"echo", "ok", "fail", "corrupt", "junk", "start"}
Noise  == {"corrupt", "junk", "start"}   \* of no command
Parts  == {"head", "tail", "junk", "start"}
CallerPc == {"idle", "construct", "write", "wait1", "check", "wait2", "return", "destroy"}

Registered == {expected[i] : i \in DOMAIN expected}

(***************************************************************************)
(* Virtual dispatch: while the base class is being constructed or          *)
(* destroyed a registered pattern's match functions are those of           *)
(* ResponsePattern, which match nothing.                                   *)
(***************************************************************************)
Live(c) == pc[c] \in {"write", "wait1", "check", "wait2", "return"}

Init ==
  /\ sent = {} /\ packets = <<>> /\ wire = <<>>
  /\ buffer = <<>> /\ readPos = 0 /\ savePos = 0 /\ shifted = 0 /\ ioPc = "read"
  /\ expected = <<>>
  /\ minPos = [c \in Callers |-> 0]
  /\ pc = [c \in Callers |-> "idle"]
  /\ cmd = [c \in Callers |-> NoCmd]
  /\ baseReceived = [c \in Callers |-> FALSE]
  /\ fullyMatched = [c \in Callers |-> FALSE]
  /\ success = [c \in Callers |-> FALSE]
  /\ notified = [c \in Callers |-> FALSE]
  /\ calls = 0
  /\ regAt = [c \in Callers |-> 0]
  /\ early = [c \in Callers |-> 0]
  /\ taken = <<>>

-----------------------------------------------------------------------------
(* Caller threads *)

Goto(c, from, to) == pc[c] = from /\ pc' = [pc EXCEPT ![c] = to]

\* The base class constructor registers the pattern, at the append position
\* of the read buffer.
Register(c, k) ==
  /\ calls < MaxCalls
  /\ Goto(c, "idle", "construct")
  /\ calls' = calls + 1
  /\ cmd' = [cmd EXCEPT ![c] = k]
  /\ expected' = Append(expected, c)
  /\ minPos' = [minPos EXCEPT ![c] = Len(buffer)]
  /\ regAt' = [regAt EXCEPT ![c] = Len(buffer)]
  /\ early' = [early EXCEPT ![c] = shifted]
  /\ UNCHANGED <<deviceVars, wire, bufferVars, baseReceived, fullyMatched, success,
                 notified, taken>>

Constructed(c) ==
  /\ Goto(c, "construct", "write")
  /\ UNCHANGED <<deviceVars, wire, bufferVars, collectVars, patternVars, calls, taken>>

Write(c) ==
  /\ Goto(c, "write", "wait1")
  /\ sent' = sent \cup {cmd[c]}
  /\ UNCHANGED <<packets, wire, bufferVars, collectVars, patternVars, calls, taken>>

\* Connection::write throws; the pattern is destroyed on the way out.
WriteFails(c) ==
  /\ Goto(c, "write", "destroy")
  /\ UNCHANGED <<deviceVars, wire, bufferVars, collectVars, patternVars, calls, taken>>

\* timedWait returns true and clears the flag.
Notified(c, at, to) ==
  /\ Goto(c, at, to)
  /\ notified[c]
  /\ notified' = [notified EXCEPT ![c] = FALSE]
  /\ UNCHANGED <<deviceVars, wire, bufferVars, collectVars, cmd, baseReceived,
                 fullyMatched, success, calls, taken>>

\* Mutant of TimedOut: the wait has no timeout.
WaitsForever(c, at, to) == FALSE

\* timedWait returns false: the time is up, or wait_for woke spuriously (the
\* code waits without a predicate and cannot tell the two apart).
TimedOut(c, at, to) ==
  /\ Goto(c, at, to)
  /\ ~notified[c]
  /\ UNCHANGED <<deviceVars, wire, bufferVars, collectVars, patternVars, calls, taken>>

FirstWait(c)  == Notified(c, "wait1", "check") \/ TimedOut(c, "wait1", "check")
SecondWait(c) == Notified(c, "wait2", "return") \/ TimedOut(c, "wait2", "return")

\* doNodeCommand waits again once the BaseStation has forwarded the command;
\* doBaseCommand does not.
CheckBaseReceived(c) ==
  /\ Goto(c, "check", IF cmd[c] \in NodeCmds /\ baseReceived[c] /\ ~fullyMatched[c]
                      THEN "wait2" ELSE "return")
  /\ UNCHANGED <<deviceVars, wire, bufferVars, collectVars, patternVars, calls, taken>>

\* The command returns success(); the derived part of the pattern is destroyed.
Return(c) ==
  /\ Goto(c, "return", "destroy")
  /\ UNCHANGED <<deviceVars, wire, bufferVars, collectVars, patternVars, calls, taken>>

\* The pattern and what was recorded about it are gone.
Destroyed(c) ==
  /\ cmd' = [cmd EXCEPT ![c] = NoCmd]
  /\ minPos' = [minPos EXCEPT ![c] = 0]
  /\ regAt' = [regAt EXCEPT ![c] = 0]
  /\ early' = [early EXCEPT ![c] = 0]
  /\ baseReceived' = [baseReceived EXCEPT ![c] = FALSE]
  /\ fullyMatched' = [fullyMatched EXCEPT ![c] = FALSE]
  /\ success' = [success EXCEPT ![c] = FALSE]
  /\ notified' = [notified EXCEPT ![c] = FALSE]

\* Mutant of Unregister: the destructor leaves the entry behind.
DestroyOnly(c) ==
  /\ Goto(c, "destroy", "idle")
  /\ Destroyed(c)
  /\ UNCHANGED <<deviceVars, wire, bufferVars, expected, calls, taken>>

\* ~ResponsePattern: a pattern that was fully matched is already erased.
Unregister(c) ==
  /\ Goto(c, "destroy", "idle")
  /\ expected' = IF c \in Registered
                 THEN RemoveAt(expected, CHOOSE i \in DOMAIN expected : expected[i] = c)
                 ELSE expected
  /\ Destroyed(c)
  /\ UNCHANGED <<deviceVars, wire, bufferVars, calls, taken>>

-----------------------------------------------------------------------------
(* The BaseStation and the Nodes behind it: replies may be missing, late or *)
(* repeated, packets may be corrupted and stray bytes may appear.           *)

Bytes(id, kind) == IF kind \in {"junk", "start"} THEN <<[id |-> id, part |-> kind]>>
                   ELSE <<[id |-> id, part |-> "head"], [id |-> id, part |-> "tail"]>>

\* The device is not heard before the first command is written: a bound.
DeviceSends(kind, k) ==
  /\ Len(packets) < MaxPackets /\ sent # {}
  /\ IF kind \in Noise THEN k = NoCmd ELSE k \in sent
  /\ kind = "echo" => k \in NodeCmds
  /\ packets' = Append(packets, [kind |-> kind, cmd |-> k])
  /\ taken' = Append(taken, {})
  /\ wire' = wire \o Bytes(Len(packets) + 1, kind)
  /\ UNCHANGED <<sent, bufferVars, collectVars, pc, patternVars, calls>>

-----------------------------------------------------------------------------
(* The IO thread *)

\* readLoopHandler: commit the bytes transferred, call the parse function.
Read(n) ==
  /\ ioPc = "read"
  /\ buffer' = buffer \o SubSeq(wire, 1, n)
  /\ wire' = SubSeq(wire, n + 1, Len(wire))
  /\ savePos' = readPos
  /\ ioPc' = "parse"
  /\ UNCHANGED <<deviceVars, readPos, shifted, collectVars, pc, patternVars, calls, taken>>

Here == buffer[readPos + 1]
AtPart(p) == ioPc = "parse" /\ readPos < Len(buffer) /\ Here.part = p
Complete == readPos + 2 <= Len(buffer)
Spanned == readPos + Span <= Len(buffer)

\* A complete packet begins at the read position.
PacketHere == Complete /\ Here.part = "head" /\ packets[Here.id].kind # "corrupt"

\* WirelessResponsePattern::match
Answers(packet, c) ==
  /\ Live(c)
  /\ packet.cmd = cmd[c]
  /\ packet.kind \in {"echo", "ok", "fail"}

\* Mutant of Takers: every pattern looks at every packet.
AllTakers(packet, pos) == {i \in DOMAIN expected : Answers(packet, expected[i])}

\* The patterns that matchExpected(packet, lastReadPos) lets look at a packet
\* that starts at `pos', and would match.
Takers(packet, pos) ==
  {i \in DOMAIN expected : minPos[expected[i]] <= pos /\ Answers(packet, expected[i])}

First(S) == CHOOSE i \in S : \A j \in S : i <= j

\* Mutant of Match: the fail branch forgets to notify.
MatchQuietly(id, i) ==
  LET c == expected[i]
      kind == packets[id].kind
  IN /\ taken' = [taken EXCEPT ![id] = @ \cup {c}]
     /\ notified' = [notified EXCEPT ![c] = @ \/ kind # "fail"]
     /\ IF kind = "echo"
        THEN /\ baseReceived' = [baseReceived EXCEPT ![c] = TRUE]
             /\ UNCHANGED <<fullyMatched, success, expected>>
        ELSE /\ fullyMatched' = [fullyMatched EXCEPT ![c] = TRUE]
             /\ success' = [success EXCEPT ![c] = (kind = "ok")]
             /\ expected' = RemoveAt(expected, i)
             /\ UNCHANGED baseReceived

Match(id, i) ==
  LET c == expected[i]
      kind == packets[id].kind
  IN /\ taken' = [taken EXCEPT ![id] = @ \cup {c}]
     /\ notified' = [notified EXCEPT ![c] = TRUE]
     /\ IF kind = "echo"
        THEN /\ baseReceived' = [baseReceived EXCEPT ![c] = TRUE]
             /\ UNCHANGED <<fullyMatched, success, expected>>
        ELSE /\ fullyMatched' = [fullyMatched EXCEPT ![c] = TRUE]
             /\ success' = [success EXCEPT ![c] = (kind = "ok")]
             /\ expected' = RemoveAt(expected, i)
             /\ UNCHANGED baseReceived

\* findMatchingResponse(packet, lastReadPosition)
OfferPacket ==
  LET S == Takers(packets[Here.id], readPos)
  IN IF S = {} THEN UNCHANGED <<expected, baseReceived, fullyMatched, success, notified, taken>>
               ELSE Match(Here.id, First(S))

\* Mutant of ParsePacket: the save point is not committed after a packet.
ParsePacketUncommitted ==
  /\ ioPc = "parse" /\ PacketHere
  /\ readPos' = readPos + 2
  /\ OfferPacket
  /\ UNCHANGED <<deviceVars, wire, buffer, savePos, shifted, ioPc, minPos, regAt, early, pc, cmd, calls>>

\* parsePacketResult_completePacket: offer the packet, commit past it.
ParsePacket ==
  /\ ioPc = "parse" /\ PacketHere
  /\ readPos' = readPos + 2
  /\ savePos' = readPos + 2
  /\ OfferPacket
  /\ UNCHANGED <<deviceVars, wire, buffer, shifted, ioPc, minPos, regAt, early, pc, cmd, calls>>

\* parsePacketResult_badChecksum: commit up to the start byte, step past it.
ParseCorrupt ==
  /\ \/ AtPart("head") /\ Complete /\ packets[Here.id].kind = "corrupt"
     \/ AtPart("start") /\ Spanned
  /\ savePos' = readPos
  /\ readPos' = readPos + 1
  /\ UNCHANGED <<deviceVars, wire, buffer, shifted, ioPc, collectVars, pc, patternVars, calls, taken>>

\* Mutant of ParseStray: the parser does not step over a stray byte.
ParseStrayStuck == (AtPart("junk") \/ AtPart("tail")) /\ UNCHANGED vars

\* A byte that starts no packet is stepped over and not committed.
ParseStray ==
  /\ AtPart("junk") \/ AtPart("tail")
  /\ readPos' = readPos + 1
  /\ UNCHANGED <<deviceVars, wire, buffer, savePos, shifted, ioPc, collectVars, pc, patternVars, calls, taken>>

\* Leaving parse() reverts to the save point.
Leave == readPos' = savePos /\ ioPc' = "shift"

\* findPacketInBytes goes on to the next byte while a packet may follow it, and
\* else parse() waits for more data.
SearchOn ==
  \/ readPos + 2 < Len(buffer) /\ readPos' = readPos + 1 /\ ioPc' = "search"
  \/ readPos + 2 >= Len(buffer) /\ Leave

\* parsePacketResult_notEnoughData: look for packets behind this byte.
ParseIncomplete ==
  /\ \/ AtPart("head") /\ ~Complete
     \/ AtPart("start") /\ ~Spanned
  /\ SearchOn
  /\ UNCHANGED <<deviceVars, wire, buffer, savePos, shifted, collectVars, pc, patternVars, calls, taken>>

\* There is no packet at this byte, or nobody expects it: it stays in the buffer.
SearchPast ==
  /\ ioPc = "search"
  /\ PacketHere => Takers(packets[Here.id], readPos) = {}
  /\ SearchOn
  /\ UNCHANGED <<deviceVars, wire, buffer, savePos, shifted, collectVars, pc, patternVars, calls, taken>>

\* A packet that is expected is taken, and parse() goes on behind it.
SearchFinds ==
  /\ ioPc = "search" /\ PacketHere
  /\ Takers(packets[Here.id], readPos) # {}
  /\ OfferPacket
  /\ readPos' = readPos + 2 /\ savePos' = readPos + 2 /\ ioPc' = "parse"
  /\ UNCHANGED <<deviceVars, wire, buffer, shifted, minPos, regAt, early, pc, cmd, calls>>

\* No more data.
ParseEnd ==
  /\ ioPc = "parse" /\ readPos = Len(buffer)
  /\ Leave
  /\ UNCHANGED <<deviceVars, wire, buffer, savePos, shifted, collectVars, pc, patternVars, calls, taken>>

\* shiftExtraToStart
Shift ==
  /\ ioPc = "shift"
  /\ buffer' = SubSeq(buffer, readPos + 1, Len(buffer))
  /\ shifted' = readPos
  /\ regAt' = [c \in Callers |-> IF pc[c] = "idle" THEN 0 ELSE regAt[c] - readPos]
  /\ readPos' = 0
  /\ savePos' = 0
  /\ ioPc' = IF readPos > 0 THEN "adjust" ELSE "read"
  /\ UNCHANGED <<deviceVars, wire, expected, minPos, early, pc, patternVars, calls, taken>>

\* Mutant of Adjust: the subtraction is not stopped at zero.
AdjustUnclamped ==
  /\ ioPc = "adjust"
  /\ minPos' = [c \in Callers |-> IF c \in Registered THEN minPos[c] - shifted ELSE minPos[c]]
  /\ shifted' = 0
  /\ ioPc' = "read"
  /\ UNCHANGED <<deviceVars, wire, buffer, readPos, savePos,
                 expected, regAt, early, pc, patternVars, calls, taken>>

\* Mutant of Adjust: a position smaller than the shift is left as it is.
AdjustSkipped ==
  /\ ioPc = "adjust"
  /\ minPos' = [c \in Callers |->
                  IF c \in Registered /\ shifted <= minPos[c] THEN minPos[c] - shifted ELSE minPos[c]]
  /\ shifted' = 0
  /\ ioPc' = "read"
  /\ UNCHANGED <<deviceVars, wire, buffer, readPos, savePos,
                 expected, regAt, early, pc, patternVars, calls, taken>>

\* adjustResponsesMinBytePos
Adjust ==
  /\ ioPc = "adjust"
  /\ minPos' = [c \in Callers |->
                  IF c \notin Registered THEN minPos[c]
                  ELSE IF shifted > minPos[c] THEN 0 ELSE minPos[c] - shifted]
  /\ shifted' = 0
  /\ ioPc' = "read"
  /\ UNCHANGED <<deviceVars, wire, buffer, readPos, savePos,
                 expected, regAt, early, pc, patternVars, calls, taken>>

-----------------------------------------------------------------------------
CallerStep(c) ==
  \/ Constructed(c) \/ Write(c) \/ WriteFails(c) \/ FirstWait(c)
  \/ CheckBaseReceived(c) \/ SecondWait(c) \/ Return(c) \/ Unregister(c)

ReadSome == \E n \in 1 .. Len(wire) : Read(n)

ParseStep ==
  \/ ParsePacket \/ ParseCorrupt \/ ParseStray \/ ParseIncomplete
  \/ SearchPast \/ SearchFinds \/ ParseEnd

IoStep == ReadSome \/ ParseStep \/ Shift \/ Adjust

Device == \E kind \in Kinds, k \in Cmds \cup {NoCmd} : DeviceSends(kind, k)

Next ==
  \/ \E c \in Callers : CallerStep(c) \/ \E k \in Cmds : Register(c, k)
  \/ IoStep
  \/ Device

Spec == Init /\ [][Next]_vars

\* A thread that can run does run, and a timed wait ends.  Nothing makes a
\* caller issue a command, or the device answer one.
Fairness == WF_vars(IoStep) /\ \A c \in Callers : WF_vars(CallerStep(c))

FairSpec == Spec /\ Fairness

-----------------------------------------------------------------------------
(* Properties *)

Byte == [id : 1 .. Len(packets), part : Parts]

\* Every variable has its type; positions stay inside the buffer, and every
\* byte belongs to something the device sent.
TypeOK ==
  /\ sent \subseteq Cmds
  /\ packets \in Seq([kind : Kinds, cmd : Cmds \cup {NoCmd}]) /\ Len(packets) <= MaxPackets
  /\ wire \in Seq(Byte) /\ buffer \in Seq(Byte)
  /\ readPos \in 0 .. Len(buffer) /\ savePos \in 0 .. readPos
  /\ shifted \in Nat
  /\ ioPc \in {"read", "parse", "search", "shift", "adjust"}
  /\ expected \in Seq(Callers)
  /\ minPos \in [Callers -> Nat] /\ regAt \in [Callers -> Int]
  /\ early \in [Callers -> Nat]
  /\ pc \in [Callers -> CallerPc] /\ cmd \in [Callers -> Cmds \cup {NoCmd}]
  /\ baseReceived \in [Callers -> BOOLEAN] /\ fullyMatched \in [Callers -> BOOLEAN]
  /\ success \in [Callers -> BOOLEAN] /\ notified \in [Callers -> BOOLEAN]
  /\ calls \in 0 .. MaxCalls
  /\ taken \in Seq(SUBSET Callers) /\ Len(taken) = Len(packets)

\* The collector holds pointers to patterns on the callers' stacks: an entry
\* never outlives its pattern, no pattern is entered twice, and one that was
\* fully matched is gone (ResponseCollector.cpp:38, :115, :159).
NoDanglingPattern ==
  /\ \A c \in Registered : pc[c] # "idle" /\ ~fullyMatched[c]
  /\ \A i, j \in DOMAIN expected : expected[i] = expected[j] => i = j

\* No lost wakeup: a caller in timedWait whose pattern is fully matched finds
\* the flag set, whichever of the echo and the reply came first and however
\* the flag was consumed in between (TimedCondition.cpp:15, :48).
ReplyWakesWaiter ==
  \A c \in Callers : pc[c] \in {"wait1", "wait2"} /\ fullyMatched[c] => notified[c]

\* A packet completes or advances at most one command, although the parser
\* reverts the read position and reads bytes again, and looks for packets in
\* bytes it will look at once more (WirelessParser.cpp:157, :229).
PacketTakenOnce == \A id \in DOMAIN taken : Cardinality(taken[id]) <= 1

\* The parser offers the packet at the read position to the patterns.
Offers == PacketHere /\ (ParsePacket \/ SearchPast \/ SearchFinds)

\* Position corrections never make the collector ignore a reply: if a packet
\* that starts after the pattern was registered answers it, some pattern
\* takes the packet (ResponseCollector.cpp:63, :151).
FreshReplyIsTaken ==
  [][Offers =>
       \A c \in Registered :
         Answers(packets[Here.id], c) /\ regAt[c] <= readPos => taken'[Here.id] # {}]_vars

\* c's pattern matches, in this step, the packet at the read position.
Takes(c) == Offers /\ c \in taken'[Here.id]

\* A packet that was in the buffer before the command was registered, or began
\* there, is not taken for its reply, however often the bytes that no command
\* expects are shifted and offered again (WirelessParser.cpp:311); for a command
\* registered between a shift and its correction the limit is too low by the
\* bytes of that shift, and never by more (BaseStation_Impl.cpp:285, :290).
StaleWithinOneShift ==
  [][\A c \in Callers : Takes(c) => readPos >= regAt[c] - early[c]]_vars

\* "don't try to match bytes/packets that were in the buffer before the
\* command was sent" (ResponseCollector.cpp:150): the end of the packet, at
\* least, came after the pattern was registered.
NoStaleMatch ==
  [][\A c \in Callers : Takes(c) => readPos + 2 > regAt[c]]_vars

\* "base received the command and sent to node, wait for the new timeout for
\* the Node's response" (BaseStation_Impl.cpp:603): only the response itself
\* ends the second wait before its time.
SecondWaitIsForTheNode ==
  [][\A c \in Callers : Notified(c, "wait2", "return") => fullyMatched[c]]_vars

\* Every command returns to its caller: no wait lasts for ever, whatever the
\* device does not send (BaseStation_Impl.cpp:588, :599, :604).
EveryCallReturns == \A c \in Callers : pc[c] # "idle" ~> pc[c] = "idle"

\* The parser always gets through its buffer and back to the port: bytes the
\* device sent are all read in the end (WirelessParser.cpp:129, BoostCommunication.h:361).
EveryByteIsRead == wire # <<>> ~> wire = <<>>
=============================================================================
