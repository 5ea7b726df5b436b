----------------------------- MODULE ReadBuffer -----------------------------
(***************************************************************************)
(* The read buffer of a connection: a DataBuffer, the BufferWriter that    *)
(* appends to it, and the read loop of BoostCommunication.  The port       *)
(* writes into the memory the pending read was given; the handler commits  *)
(* the bytes, lets the parse function consume some and asks for the next   *)
(* piece of memory.  The handler and clearBuffer hold m_parseFunctionMutex *)
(* and are therefore atomic; the start of the next read and the arrival of *)
(* bytes are not under the mutex.                                          *)
(*                                                                         *)
(* Bytes are numbered in the order of their arrival.                       *)
(***************************************************************************)
EXTENDS Integers, Sequences

CONSTANTS
  Capacity,      \* the size of the buffer
  MaxBytes,      \* bound: bytes that arrive at the port
  ClearAnytime   \* whether clearBuffer is called with bytes in the buffer, too

ASSUME BufferAssumption ==
  /\ Capacity \in Nat \ {0}
  /\ MaxBytes \in Nat
  /\ ClearAnytime \in BOOLEAN

VARIABLES
  mem,           \* DataBuffer.m_data
  appendPos,     \* DataBuffer.m_appendPosition
  readPos,       \* DataBuffer.m_readPosition
  writer,        \* m_bufferWriter: where it starts and how much fits
  reading,       \* whether a read has been started and not been handled
  pending,       \* the memory given to async_read_some
  transferred,   \* bytes the port has written there, 0 while the read waits
  parser,        \* m_parseDataFunction: none, a device's, or collectRawData
  debug,         \* whether m_debugDataFunction is set
  arrived,       \* history: bytes that have arrived
  parsed         \* history: bytes the parse function has consumed

vars == <<mem, appendPos, readPos, writer, reading, pending, transferred, parser, debug, arrived, parsed>>

Parsers == {"none", "device", "raw"}
Whole == [start |-> 0, size |-> Capacity]

Init ==
  /\ mem = [i \in 0 .. Capacity - 1 |-> 0]
  /\ appendPos = 0 /\ readPos = 0
  /\ writer = Whole /\ reading = FALSE /\ pending = Whole /\ transferred = 0
  /\ parser = "none" /\ debug = FALSE
  /\ arrived = 0 /\ parsed = 0

\* The next read is started, with the writer as it is now.
ReadSome ==
  /\ ~reading
  /\ reading' = TRUE
  /\ pending' = writer
  /\ UNCHANGED <<mem, appendPos, readPos, writer, transferred, parser, debug, arrived, parsed>>

\* async_read_some completes with n bytes.
Arrive(n) ==
  /\ reading /\ transferred = 0
  /\ n <= pending.size /\ n <= MaxBytes - arrived
  /\ mem' = [i \in DOMAIN mem |->
               IF pending.start <= i /\ i < pending.start + n
               THEN arrived + 1 + i - pending.start ELSE mem[i]]
  /\ transferred' = n
  /\ arrived' = arrived + n
  /\ UNCHANGED <<appendPos, readPos, writer, reading, pending, parser, debug, parsed>>

Writer(a) == [start |-> a, size |-> Capacity - a]

\* Mutant of Renew: the next read keeps the writer of the last one.
RenewNot(a, r) ==
  /\ appendPos' = a /\ readPos' = r
  /\ reading' = FALSE /\ transferred' = 0
  /\ UNCHANGED <<writer, pending>>

\* Mutant of Renew: a full buffer is not thrown out.
RenewFull(a, r) ==
  /\ appendPos' = a /\ readPos' = r
  /\ writer' = Writer(a)
  /\ reading' = FALSE /\ transferred' = 0
  /\ UNCHANGED pending

\* The end of the handler: a new writer; a full buffer is thrown out.
Renew(a, r) ==
  LET full == a = Capacity
      top == IF full THEN 0 ELSE a
  IN /\ appendPos' = top
     /\ readPos' = IF full THEN 0 ELSE r
     /\ writer' = Writer(top)
     /\ reading' = FALSE /\ transferred' = 0
     /\ UNCHANGED pending

\* commit(bytes_transferred)
Committed == appendPos + transferred

\* Mutant of DeviceParses: the extra bytes are not copied to the front.
DeviceParsesNoCopy(k) ==
  /\ transferred > 0 /\ parser = "device"
  /\ readPos + k <= Committed
  /\ mem' = mem
  /\ Renew(Committed - (readPos + k), 0)
  /\ parsed' = parsed + k
  /\ UNCHANGED <<parser, debug, arrived>>

\* A device's parseData consumes k bytes and shifts the rest to the front.
DeviceParses(k) ==
  /\ transferred > 0 /\ parser = "device"
  /\ readPos + k <= Committed
  /\ LET extra == Committed - (readPos + k)
     IN /\ mem' = [i \in DOMAIN mem |-> IF i < extra THEN mem[readPos + k + i] ELSE mem[i]]
        /\ Renew(extra, 0)
  /\ parsed' = parsed + k
  /\ UNCHANGED <<parser, debug, arrived>>

\* collectRawData consumes everything and shifts nothing.
RawCollects ==
  /\ transferred > 0 /\ parser = "raw"
  /\ Renew(Committed, Committed)
  /\ parsed' = parsed + Committed - readPos
  /\ UNCHANGED <<mem, parser, debug, arrived>>

\* Without a parse function the bytes are committed only for the debug function.
NobodyParses ==
  /\ transferred > 0 /\ parser = "none"
  /\ Renew(IF debug THEN Committed ELSE appendPos, readPos)
  /\ UNCHANGED <<mem, parser, debug, arrived, parsed>>

\* The application clears the buffer.  The pending read keeps its memory, which
\* is at the front only if there is nothing before it.
ClearBuffer ==
  /\ ClearAnytime \/ appendPos = 0
  /\ appendPos' = 0 /\ readPos' = 0
  /\ writer' = Whole
  /\ UNCHANGED <<mem, reading, pending, transferred, parser, debug, arrived, parsed>>

\* registerParser, unregisterParser and rawByteMode
SetParseFunction(p) ==
  /\ parser' = p
  /\ UNCHANGED <<mem, appendPos, readPos, writer, reading, pending, transferred, debug, arrived, parsed>>

SetDebugMode(b) ==
  /\ debug' = b
  /\ UNCHANGED <<mem, appendPos, readPos, writer, reading, pending, transferred, parser, arrived, parsed>>

Handle == (\E k \in 0 .. Capacity : DeviceParses(k)) \/ RawCollects \/ NobodyParses

Next ==
  \/ ReadSome
  \/ \E n \in 1 .. Capacity : Arrive(n)
  \/ Handle
  \/ ClearBuffer
  \/ \E p \in Parsers : SetParseFunction(p)
  \/ \E b \in BOOLEAN : SetDebugMode(b)

Spec == Init /\ [][Next]_vars

-----------------------------------------------------------------------------
(* Properties *)

Region == [start : 0 .. Capacity, size : 0 .. Capacity]

\* Types; the positions are ordered (DataBuffer.cpp:65 asserts it), and what
\* the port writes stays inside the buffer.
TypeOK ==
  /\ mem \in [0 .. Capacity - 1 -> 0 .. MaxBytes]
  /\ appendPos \in 0 .. Capacity /\ readPos \in 0 .. appendPos
  /\ writer \in Region /\ pending \in Region /\ reading \in BOOLEAN
  /\ writer.start + writer.size = Capacity
  /\ pending.start + pending.size = Capacity
  /\ transferred \in 0 .. pending.size
  /\ parser \in Parsers /\ debug \in BOOLEAN
  /\ arrived \in 0 .. MaxBytes /\ parsed \in 0 .. MaxBytes

\* A read is never started without room: it would complete with no bytes, and
\* the read loop would spin for ever (BoostCommunication.h:345).
RoomToRead == reading => pending.size > 0

\* "commit any bytes that were read" (BoostCommunication.h:326): the bytes that
\* the handler is about to commit are those that have just arrived.
CommitsWhatWasRead ==
  /\ Committed <= Capacity
  /\ \A i \in 0 .. transferred - 1 : mem[appendPos + i] = arrived - transferred + 1 + i

\* What is between the read and the append position.
Unparsed == [i \in 1 .. appendPos - readPos |-> mem[readPos + i - 1]]

Stream == INSTANCE ByteStream WITH
  port <- [i \in 1 .. transferred |-> arrived - transferred + i],
  queue <- Unparsed,
  parsing <- parser # "none"

\* The parser gets the bytes of the port in order, each once, none is lost
\* while it is registered and makes progress: buffer, writer and read loop implement a stream
\* (DataBuffer.cpp:275, :299, BoostCommunication.h:311).
ImplementsStream == Stream!Spec
=============================================================================
