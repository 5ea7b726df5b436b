----------------------------- MODULE Connection -----------------------------
(***************************************************************************)
(* The life of a connection and its locks.  Application threads call the   *)
(* functions of Connection_Impl and register commands; the IO thread       *)
(* reads and parses.  Three mutexes:                                       *)
(*   comm      Connection_Impl::m_commMutex                                *)
(*   parse     BoostCommunication::m_parseFunctionMutex                    *)
(*   response  ResponseCollector::m_responseMutex                          *)
(* Debug mode takes the locks clearBuffer takes; the mutexes of the raw    *)
(* and the debug data are always taken last and are left out.              *)
(***************************************************************************)
EXTENDS FiniteSets

CONSTANTS
  Apps,        \* application threads
  IO,          \* the IO thread
  NoThread,
  Ops,         \* the functions the applications call
  OpenFails    \* whether opening the port may fail

AllOps == {"register", "unregister", "write", "clear", "attach", "detach",
               "rawOn", "rawOff", "disconnect", "reconnect"}

ASSUME ConnectionAssumption ==
  /\ IO \notin Apps /\ NoThread \notin Apps \cup {IO}
  /\ Ops \subseteq AllOps /\ OpenFails \in BOOLEAN

VARIABLES
  pc,           \* where each application thread is
  op,           \* the function it is in
  owner,        \* the thread that holds each mutex
  io,           \* where the IO thread is
  stop,         \* whether the IO thread has been asked to stop
  comm,         \* m_comm exists
  established,  \* m_established
  error,        \* m_connectionError
  raw,          \* m_rawByteMode
  parser,       \* m_parseFunction: of the device, or none
  installed     \* m_comm's m_parseDataFunction

vars == <<pc, op, owner, io, stop, comm, established, error, raw, parser, installed>>
link == <<comm, established>>
functions == <<raw, parser, installed>>

Locks == {"comm", "parse", "response"}
Threads == Apps \cup {IO}

\* Whether a function of the collector asks the connection for a byte position.
NeedsPosition(o) == o = "register"

\* A connection that has just been made, with no device attached.
Init ==
  /\ pc = [a \in Apps |-> "idle"] /\ op = [a \in Apps |-> "none"]
  /\ owner = [l \in Locks |-> NoThread]
  /\ io = "reading" /\ stop = FALSE
  /\ comm = TRUE /\ established = TRUE /\ error = FALSE
  /\ raw = FALSE /\ parser = "none" /\ installed = "none"

Take(t, l) == owner[l] = NoThread /\ owner' = [owner EXCEPT ![l] = t]
Drop(ls) == owner' = [l \in Locks |-> IF l \in ls THEN NoThread ELSE owner[l]]
Goto(a, to) == pc' = [pc EXCEPT ![a] = to]

-----------------------------------------------------------------------------
(* Calls of the application *)

\* Threads in a call of one of these functions.
Busy(ops) == {a \in Apps : pc[a] # "idle" /\ op[a] \in ops}

\* Commands are members of the device: there are none before its constructor
\* has registered the parser, or once its destructor unregisters it.
Call(a, o) ==
  /\ pc[a] = "idle"
  /\ o \in {"register", "unregister"} => parser = "device" /\ Busy({"attach", "detach"}) = {}
  /\ o = "detach" => parser = "device" /\ Busy({"attach", "detach", "register", "unregister"}) = {}
  /\ op' = [op EXCEPT ![a] = o]
  /\ Goto(a, IF o \in {"register", "unregister"} THEN "wantResponse" ELSE "wantComm")
  /\ UNCHANGED <<owner, io, stop, link, error, functions>>

\* registerResponse needs the append position, and so the comm mutex, too.
TakeResponse(a) ==
  /\ pc[a] = "wantResponse"
  /\ Take(a, "response")
  /\ Goto(a, IF NeedsPosition(op[a]) THEN "wantComm" ELSE "inResponse")
  /\ UNCHANGED <<op, io, stop, link, error, functions>>

DropResponse(a) ==
  /\ pc[a] = "inResponse"
  /\ Drop({"response"}) /\ Goto(a, "idle")
  /\ UNCHANGED <<op, io, stop, link, error, functions>>

TakeComm(a) ==
  /\ pc[a] = "wantComm"
  /\ Take(a, "comm") /\ Goto(a, "inComm")
  /\ UNCHANGED <<op, io, stop, link, error, functions>>

\* byteAppendPos returns, or throws.
Position(a) ==
  /\ pc[a] = "inComm" /\ NeedsPosition(op[a])
  /\ Drop({"comm"}) /\ Goto(a, "inResponse")
  /\ UNCHANGED <<op, io, stop, link, error, functions>>

\* A write fails, which is noted, or succeeds, or is not tried.
Write(a) ==
  /\ pc[a] = "inComm" /\ op[a] = "write"
  /\ \/ error' = TRUE /\ ~error /\ comm
     \/ UNCHANGED error
  /\ Drop({"comm"}) /\ Goto(a, "idle")
  /\ UNCHANGED <<op, io, stop, link, functions>>

\* The function ends without touching m_comm: it throws, or has nothing to do.
Refuses(a) ==
  \/ op[a] = "clear" /\ (error \/ ~comm)
  \/ op[a] = "attach" /\ (parser # "none" \/ ~comm)
  \/ op[a] = "rawOn" /\ (raw \/ ~established \/ ~comm)
  \/ op[a] = "rawOff" /\ (~raw \/ ~established \/ ~comm)

Refuse(a) ==
  /\ pc[a] = "inComm" /\ Refuses(a)
  /\ Drop({"comm"}) /\ Goto(a, "idle")
  /\ UNCHANGED <<op, io, stop, link, error, functions>>

\* Mutant of StoreParser: the function is passed on in raw byte mode, too.
StoreParserAlways(a) ==
  /\ pc[a] = "inComm" /\ op[a] \in {"attach", "detach"} /\ ~Refuses(a)
  /\ parser' = IF op[a] = "attach" THEN "device" ELSE "none"
  /\ \/ comm /\ Goto(a, "wantParse") /\ UNCHANGED owner
     \/ ~comm /\ Drop({"comm"}) /\ Goto(a, "idle")
  /\ UNCHANGED <<op, io, stop, link, error, raw, installed>>

\* The device's function is stored; in raw byte mode it is not passed on.
StoreParser(a) ==
  /\ pc[a] = "inComm" /\ op[a] \in {"attach", "detach"} /\ ~Refuses(a)
  /\ parser' = IF op[a] = "attach" THEN "device" ELSE "none"
  /\ \/ ~raw /\ comm /\ Goto(a, "wantParse") /\ UNCHANGED owner
     \/ (raw \/ ~comm) /\ Drop({"comm"}) /\ Goto(a, "idle")
  /\ UNCHANGED <<op, io, stop, link, error, raw, installed>>

ChangeMode(a) ==
  /\ pc[a] = "inComm" /\ op[a] \in {"clear", "rawOn", "rawOff"} /\ ~Refuses(a)
  /\ Goto(a, "wantParse")
  /\ UNCHANGED <<op, owner, io, stop, link, error, functions>>

\* Mutant of TakeParse: unregisterParser does not reset the function of m_comm.
TakeParseKept(a) ==
  /\ pc[a] = "wantParse"
  /\ Take(a, "parse") /\ Goto(a, "inParse")
  /\ installed' = IF op[a] = "rawOn" THEN "raw"
                  ELSE IF op[a] \in {"clear", "detach"} THEN installed ELSE parser
  /\ UNCHANGED <<op, io, stop, link, error, raw, parser>>

\* setParseFunction, or clearBuffer.
TakeParse(a) ==
  /\ pc[a] = "wantParse"
  /\ Take(a, "parse") /\ Goto(a, "inParse")
  /\ installed' = IF op[a] = "rawOn" THEN "raw"
                  ELSE IF op[a] = "clear" THEN installed ELSE parser
  /\ UNCHANGED <<op, io, stop, link, error, raw, parser>>

DropParse(a) ==
  /\ pc[a] = "inParse"
  /\ raw' = IF op[a] = "rawOn" THEN TRUE ELSE IF op[a] = "rawOff" THEN FALSE ELSE raw
  /\ error' = (error /\ op[a] # "reconnect")
  /\ Drop({"parse", "comm"}) /\ Goto(a, "idle")
  /\ UNCHANGED <<op, io, stop, link, parser, installed>>

-----------------------------------------------------------------------------
(* Disconnecting and reconnecting *)

\* Mutant of Disconnect: the thread is joined without being asked to stop.
DisconnectUnasked(a) ==
  /\ pc[a] = "inComm" /\ op[a] = "disconnect" /\ io # "none"
  /\ Goto(a, "joining")
  /\ UNCHANGED <<op, owner, io, stop, link, error, functions>>

\* The IO thread is asked to stop and waited for, if there is one.
Disconnect(a) ==
  /\ pc[a] = "inComm" /\ op[a] = "disconnect" /\ io # "none"
  /\ stop' = TRUE
  /\ Goto(a, "joining")
  /\ UNCHANGED <<op, owner, io, link, error, functions>>

Disconnected(a) ==
  /\ \/ pc[a] = "joining" /\ io = "ended"
     \/ pc[a] = "inComm" /\ op[a] = "disconnect" /\ io = "none"
  /\ io' = "none" /\ stop' = FALSE
  /\ comm' = FALSE /\ established' = FALSE /\ installed' = "none"
  /\ Drop({"comm"}) /\ Goto(a, "idle")
  /\ UNCHANGED <<op, error, raw, parser>>

\* establishConnection opens the port if the connection is not established.  If
\* that fails it calls disconnect(), which locks the comm mutex its thread holds:
\* the thread waits for itself, or the mutex of the platform throws.
Establish(a) ==
  /\ pc[a] = "inComm" /\ op[a] = "reconnect"
  /\ \/ /\ ~established
        /\ comm' = TRUE /\ established' = TRUE /\ installed' = "none"
        /\ io' = "reading" /\ stop' = FALSE
        /\ Goto(a, "opened")
        /\ UNCHANGED owner
     \/ established /\ Goto(a, "opened") /\ UNCHANGED <<owner, link, installed, io, stop>>
     \/ /\ ~established /\ OpenFails
        /\ \/ Goto(a, "wantComm") /\ UNCHANGED owner
           \/ Drop({"comm"}) /\ Goto(a, "idle")
        /\ UNCHANGED <<link, installed, io, stop>>
  /\ UNCHANGED <<op, error, raw, parser>>

Reconnected(a) ==
  /\ pc[a] = "opened"
  /\ \/ parser # "none" /\ Goto(a, "wantParse") /\ UNCHANGED <<owner, error>>
     \/ parser = "none" /\ error' = FALSE /\ Drop({"comm"}) /\ Goto(a, "idle")
  /\ UNCHANGED <<op, io, stop, link, functions>>

-----------------------------------------------------------------------------
(* The IO thread *)

Arrive ==
  /\ io = "reading" /\ io' = "wantParse"
  /\ UNCHANGED <<pc, op, owner, stop, link, error, functions>>

\* The parser offers packets to the commands, raw byte mode does not.
Parse ==
  /\ io = "wantParse"
  /\ Take(IO, "parse")
  /\ io' = IF installed = "device" THEN "wantResponse" ELSE "parsed"
  /\ UNCHANGED <<pc, op, stop, link, error, functions>>

TakePacket ==
  /\ io = "wantResponse"
  /\ Take(IO, "response") /\ io' = "matching"
  /\ UNCHANGED <<pc, op, stop, link, error, functions>>

\* Mutant of Matched: the pattern is removed with unregisterResponse.
MatchedUnregisters(next) ==
  /\ io = "matching"
  /\ io' = "wantResponse"
  /\ UNCHANGED <<pc, op, owner, stop, link, error, functions>>

\* The packet has been offered, and was or was not the last one that was read.
Matched(next) ==
  /\ io = "matching"
  /\ Drop({"response"}) /\ io' = next
  /\ UNCHANGED <<pc, op, stop, link, error, functions>>

Parsed ==
  /\ io = "parsed"
  /\ Drop({"parse"}) /\ io' = "reading"
  /\ UNCHANGED <<pc, op, stop, link, error, functions>>

Stopped ==
  /\ io = "reading" /\ stop
  /\ io' = "ended"
  /\ UNCHANGED <<pc, op, owner, stop, link, error, functions>>

\* Mutant of PortFails: the thread ends and nobody is told.
PortFailsSilently ==
  /\ io = "reading"
  /\ io' = "ended"
  /\ UNCHANGED <<pc, op, owner, stop, link, error, functions>>

\* The port reports an error: the thread notes it and ends.
PortFails ==
  /\ io = "reading"
  /\ io' = "ended" /\ error' = TRUE
  /\ UNCHANGED <<pc, op, owner, stop, link, functions>>

IoStep == Parse \/ TakePacket \/ Matched("wantResponse") \/ Matched("parsed") \/ Parsed

AppStep(a) ==
  \/ TakeResponse(a) \/ DropResponse(a) \/ TakeComm(a) \/ Position(a) \/ Write(a)
  \/ Refuse(a) \/ StoreParser(a) \/ ChangeMode(a) \/ TakeParse(a) \/ DropParse(a)
  \/ Disconnect(a) \/ Disconnected(a) \/ Establish(a) \/ Reconnected(a)

Next ==
  \/ \E a \in Apps : AppStep(a) \/ \E o \in Ops : Call(a, o)
  \/ Arrive \/ IoStep \/ Stopped \/ PortFails

Spec == Init /\ [][Next]_vars

\* Threads run, no mutex starves one that waits for it, what was read holds
\* finitely many packets, and the request to stop is queued with the reads.
FairSpec ==
  /\ Spec
  /\ WF_vars(IoStep) /\ SF_vars(Parse) /\ SF_vars(TakePacket) /\ SF_vars(Matched("parsed"))
  /\ SF_vars(Stopped)
  /\ \A a \in Apps : WF_vars(AppStep(a)) /\ SF_vars(TakeComm(a)) /\ SF_vars(TakeParse(a))

-----------------------------------------------------------------------------
(* Properties *)

\* Types, and that the IO thread, m_comm and m_established come and go together.
TypeOK ==
  /\ pc \in [Apps -> {"idle", "wantResponse", "inResponse", "wantComm", "inComm",
                      "wantParse", "inParse", "joining", "opened"}]
  /\ op \in [Apps -> Ops \cup {"none"}]
  /\ owner \in [Locks -> Threads \cup {NoThread}]
  /\ io \in {"none", "reading", "wantParse", "wantResponse", "matching", "parsed", "ended"}
  /\ {stop, comm, established, error, raw} \subseteq BOOLEAN
  /\ parser \in {"none", "device"} /\ installed \in {"none", "device", "raw"}
  /\ (comm <=> established) /\ (comm <=> io # "none")

\* The threads thread t waits for.
BlockedBy(t) ==
  (IF t = IO
   THEN CASE io = "wantParse" -> {owner["parse"]}
          [] io = "wantResponse" -> {owner["response"]}
          [] OTHER -> {}
   ELSE CASE pc[t] = "wantResponse" -> {owner["response"]}
          [] pc[t] = "wantComm" -> {owner["comm"]}
          [] pc[t] = "wantParse" -> {owner["parse"]}
          [] pc[t] = "joining" /\ io # "ended" -> {IO}
          [] OTHER -> {}) \ {NoThread}

\* A thread that asks for the comm mutex with another mutex held, or with that
\* one: in registerResponse, or in a reconnect that could not open its port.
OutOfOrder(t) == t # IO /\ pc[t] = "wantComm" /\ \E l \in Locks : owner[l] = t

\* Threads wait for each other in a circle only through such a thread: the order
\* in which all other functions and the read handler take their mutexes, or wait
\* for the IO thread, has no cycle.
NoDeadlock ==
  \A S \in SUBSET {t \in Threads : ~OutOfOrder(t)} :
    S # {} => \E t \in S : BlockedBy(t) \cap S = {}

\* Between two calls the read handler calls the function of a device only while
\* that device is attached: a destroyed device is never called.
ParserIsRegistered ==
  owner["comm"] = NoThread /\ installed = "device" => parser = "device"

\* An IO thread that has ended because of its port has left an error for the
\* next call to throw.
ErrorIsReported ==
  owner["comm"] = NoThread /\ io = "ended" => error

\* In raw byte mode no data is parsed for a device.
RawModeStopsParsing ==
  owner["comm"] = NoThread /\ raw => installed # "device"

\* A thread that disconnects does not wait for the IO thread for ever.
ThreadStops == \A a \in Apps : pc[a] = "joining" ~> pc[a] = "idle"

\* reconnect returns, or throws.
ReconnectReturns ==
  \A a \in Apps : op[a] = "reconnect" /\ pc[a] # "idle" ~> pc[a] = "idle"
=============================================================================
