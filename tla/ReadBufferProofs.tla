-------------------------- MODULE ReadBufferProofs --------------------------
(***************************************************************************)
(* Proofs about ReadBuffer, for any capacity and any number of bytes.      *)
(***************************************************************************)
EXTENDS ReadBuffer, SequenceTheorems, TLAPS

\* Outside the handler the writer starts at the append position and has room.
\* The append position never passes the place where the pending read writes:
\* this bounds what a commit can add, also after clearBuffer has moved the
\* position back under a read in flight.
BufferInv ==
  /\ TypeOK
  /\ RoomToRead
  /\ appendPos < Capacity /\ writer = Writer(appendPos)
  /\ reading => appendPos <= pending.start
  /\ ~reading => transferred = 0
  /\ parsed + (appendPos - readPos) + transferred <= arrived

\* Initially nothing is in the buffer.
LEMMA BufferInit == Init => BufferInv
<1> SUFFICES ASSUME Init
             PROVE  BufferInv
  OBVIOUS
<1>1. Whole \in Region /\ Whole.start = 0 /\ Whole.size = Capacity /\ Whole = Writer(0)
  BY BufferAssumption DEF Whole, Region, Writer
<1>2. /\ writer = Whole /\ pending = Whole /\ reading = FALSE /\ appendPos = 0 /\ readPos = 0
      /\ transferred = 0 /\ parsed = 0 /\ arrived = 0
  BY DEF Init
<1>3. mem \in [0 .. Capacity - 1 -> 0 .. MaxBytes]
  BY BufferAssumption DEF Init
<1>4. parser \in Parsers /\ debug \in BOOLEAN
  BY Zenon DEF Init, Parsers
<1>5. /\ writer = Writer(appendPos)
      /\ writer \in Region /\ writer.start + writer.size = Capacity
      /\ pending \in Region /\ pending.start + pending.size = Capacity
  BY <1>1, <1>2, BufferAssumption
<1>6. /\ appendPos \in 0 .. Capacity /\ readPos \in 0 .. appendPos /\ appendPos < Capacity
      /\ arrived \in 0 .. MaxBytes /\ parsed \in 0 .. MaxBytes
      /\ parsed + (appendPos - readPos) + transferred <= arrived
  BY <1>2, BufferAssumption
<1>7. transferred \in 0 .. pending.size
  BY <1>1, <1>2, BufferAssumption
<1>8. QED
  BY <1>2, <1>3, <1>4, <1>5, <1>6, <1>7 DEF BufferInv, TypeOK, RoomToRead

\* The writer at a position that is not the end has room.
LEMMA WriterFits ==
  ASSUME NEW a \in 0 .. Capacity - 1
  PROVE  /\ Writer(a) \in Region /\ Writer(a).start = a /\ Writer(a).size > 0
         /\ Writer(a).start + Writer(a).size = Capacity
BY BufferAssumption DEF Writer, Region

\* The end of the handler leaves a buffer with room, and a writer that starts
\* behind what is in it.
LEMMA RenewEffect ==
  ASSUME NEW a \in 0 .. Capacity, NEW r \in 0 .. a, Renew(a, r)
  PROVE  /\ appendPos' \in 0 .. Capacity - 1 /\ readPos' \in 0 .. appendPos'
         /\ appendPos' - readPos' <= a - r
         /\ writer' = Writer(appendPos')
         /\ reading' = FALSE /\ transferred' = 0 /\ pending' = pending
<1>1. CASE a = Capacity
  BY <1>1, BufferAssumption DEF Renew
<1>2. CASE a # Capacity
  BY <1>2, BufferAssumption DEF Renew
<1>3. QED
  BY <1>1, <1>2

\* What has been parsed and what is left do not add up to more after less is left.
LEMMA SumBound ==
  ASSUME NEW p \in Nat, NEW k \in Nat, NEW m \in Nat, NEW x \in Int, NEW y \in Int,
         NEW a \in Int, NEW r \in Int, x <= y, y - x <= a - r, p + k + (a - r) <= m
  PROVE  p + k + (y - x) <= m /\ p + k <= m
OBVIOUS

\* The bytes parsed and the bytes left are no more than those that arrived.
LEMMA RenewCounts ==
  ASSUME NEW a \in 0 .. Capacity, NEW r \in 0 .. a, NEW k \in Nat, Renew(a, r),
         parsed \in Nat, arrived \in 0 .. MaxBytes, arrived' = arrived,
         parsed' = parsed + k, parsed + k + (a - r) <= arrived
  PROVE  /\ parsed' + (appendPos' - readPos') + transferred' <= arrived'
         /\ parsed' \in 0 .. MaxBytes /\ appendPos' \in 0 .. Capacity
<1>1. /\ appendPos' \in 0 .. Capacity - 1 /\ readPos' \in 0 .. appendPos'
      /\ appendPos' - readPos' <= a - r /\ transferred' = 0
  BY RenewEffect
<1>2. Capacity \in Nat /\ MaxBytes \in Nat
  BY BufferAssumption
<1>3. /\ readPos' \in Int /\ appendPos' \in Int /\ a \in Int /\ r \in Int
      /\ readPos' <= appendPos' /\ arrived \in Nat /\ arrived <= MaxBytes
  BY <1>1, <1>2
<1>4. parsed + k + (appendPos' - readPos') <= arrived /\ parsed + k <= arrived
  BY <1>1, <1>3, SumBound
<1>5. parsed' \in Nat /\ parsed' <= MaxBytes
  BY <1>2, <1>3, <1>4
<1>6. parsed' + (appendPos' - readPos') <= arrived'
  BY <1>4
<1>7. parsed' + (appendPos' - readPos') + transferred' = parsed' + (appendPos' - readPos')
  BY <1>1, <1>3, <1>5
<1>8. parsed' + (appendPos' - readPos') + transferred' <= arrived'
  BY <1>6, <1>7, Zenon
<1>9. parsed' \in 0 .. MaxBytes
  BY <1>2, <1>5
<1>10. appendPos' \in 0 .. Capacity
  BY <1>1, <1>2
<1>11. QED
  BY <1>8, <1>9, <1>10, Zenon

\* A handler that consumes k bytes, and no more than there are, keeps the
\* invariant.
LEMMA RenewKeepsInv ==
  ASSUME BufferInv, NEW a \in 0 .. Capacity, NEW r \in 0 .. a, NEW k \in Nat, Renew(a, r),
         parsed' = parsed + k, parsed + k + (a - r) <= arrived,
         mem' \in [0 .. Capacity - 1 -> 0 .. MaxBytes],
         UNCHANGED <<parser, debug, arrived>>
  PROVE  BufferInv'
<1>1. /\ appendPos' \in 0 .. Capacity - 1 /\ readPos' \in 0 .. appendPos'
      /\ appendPos' - readPos' <= a - r
      /\ transferred' = 0
  BY RenewEffect
<1>2. writer' = Writer(appendPos') /\ reading' = FALSE /\ transferred' = 0 /\ pending' = pending
  BY RenewEffect
<1>3. /\ parsed \in Nat /\ arrived \in 0 .. MaxBytes /\ arrived' = arrived
  BY BufferAssumption DEF BufferInv, TypeOK
<1>4. parser' \in Parsers /\ debug' \in BOOLEAN
  BY DEF BufferInv, TypeOK
<1>5. /\ parsed' + (appendPos' - readPos') + transferred' <= arrived'
      /\ parsed' \in 0 .. MaxBytes /\ appendPos' \in 0 .. Capacity
  BY <1>3, RenewCounts
<1>6. writer' \in Region /\ writer'.start + writer'.size = Capacity /\ appendPos' < Capacity
  BY <1>1, <1>2, WriterFits, BufferAssumption
<1>7. /\ pending' \in Region /\ pending'.start + pending'.size = Capacity
      /\ transferred' \in 0 .. pending'.size
  BY <1>2 DEF BufferInv, TypeOK, Region
<1>8. QED
  BY <1>1, <1>2, <1>3, <1>4, <1>5, <1>6, <1>7 DEF BufferInv, TypeOK, RoomToRead

\* What the handler finds: a commit stays in the buffer.
LEMMA CommitFits ==
  ASSUME BufferInv
  PROVE  /\ Committed \in 0 .. Capacity /\ appendPos <= Committed
         /\ readPos \in 0 .. Committed
         /\ parsed + (Committed - readPos) <= arrived
         /\ pending.start \in Nat /\ pending.size \in Nat
         /\ pending.start + pending.size = Capacity
<1> DEFINE st == pending.start
           sz == pending.size
<1>1. /\ st \in 0 .. Capacity /\ sz \in 0 .. Capacity /\ st + sz = Capacity
      /\ transferred \in 0 .. sz /\ (appendPos <= st \/ transferred = 0)
      /\ appendPos \in 0 .. Capacity /\ readPos \in 0 .. appendPos
      /\ parsed \in 0 .. MaxBytes /\ arrived \in 0 .. MaxBytes
      /\ parsed + (appendPos - readPos) + transferred <= arrived
  BY DEF BufferInv, TypeOK, Region
<1> HIDE DEF st, sz
<1>2. /\ Committed \in 0 .. Capacity /\ appendPos <= Committed /\ readPos \in 0 .. Committed
      /\ parsed + (Committed - readPos) <= arrived
      /\ st \in Nat /\ sz \in Nat /\ st + sz = Capacity
  BY <1>1, BufferAssumption DEF Committed
<1>3. QED
  BY <1>2 DEF st, sz

\* BufferInv is inductive.
LEMMA BufferStep ==
  ASSUME BufferInv, [Next]_vars
  PROVE  BufferInv'
<1>0. /\ Committed \in 0 .. Capacity /\ readPos \in 0 .. Committed /\ appendPos <= Committed
      /\ parsed + (Committed - readPos) <= arrived
      /\ pending.start \in Nat /\ pending.size \in Nat
      /\ pending.start + pending.size = Capacity
  BY CommitFits
<1>a. CASE ReadSome
  <2>1. writer \in Region /\ writer.size > 0 /\ writer.start = appendPos /\ transferred = 0
        /\ writer.start + writer.size = Capacity
    BY <1>a, WriterFits, BufferAssumption DEF ReadSome, BufferInv, TypeOK
  <2>2. pending' = writer /\ reading' = TRUE
    BY <1>a DEF ReadSome
  <2>3. 0 \in 0 .. writer.size
    BY <2>1, BufferAssumption DEF Region
  <2>4. appendPos <= writer.start
    BY <2>1, BufferAssumption DEF BufferInv, TypeOK
  <2>5. QED
    BY <1>a, <2>1, <2>2, <2>3, <2>4 DEF ReadSome, BufferInv, TypeOK, RoomToRead
<1>1. ASSUME NEW n \in 1 .. Capacity, Arrive(n)
      PROVE  BufferInv'
  <2>1. mem' \in [0 .. Capacity - 1 -> 0 .. MaxBytes]
    <3>1. \A i \in DOMAIN mem : pending.start <= i /\ i < pending.start + n
             => arrived + 1 + i - pending.start \in 0 .. MaxBytes
      <4>1. n <= MaxBytes - arrived /\ arrived \in Nat /\ MaxBytes \in Nat /\ DOMAIN mem \subseteq Int
        BY <1>1, BufferAssumption DEF Arrive, BufferInv, TypeOK
      <4> DEFINE st == pending.start
      <4>2. st \in Nat
        BY <1>0
      <4> HIDE DEF st
      <4>3. \A i \in Int : st <= i /\ i < st + n => arrived + 1 + i - st \in 0 .. MaxBytes
        BY <4>1, <4>2
      <4>4. QED
        BY <4>1, <4>3 DEF st
    <3>2. QED
      BY <1>1, <3>1 DEF Arrive, BufferInv, TypeOK
  <2>2. arrived' \in 0 .. MaxBytes /\ transferred' \in 0 .. pending.size
        /\ parsed + (appendPos - readPos) + transferred' <= arrived'
    BY <1>0, <1>1, BufferAssumption DEF Arrive, BufferInv, TypeOK
  <2>3. QED
    BY <1>1, <2>1, <2>2 DEF Arrive, BufferInv, TypeOK, RoomToRead
<1>2. ASSUME NEW k \in 0 .. Capacity, DeviceParses(k)
      PROVE  BufferInv'
  <2> DEFINE extra == Committed - (readPos + k)
  <2>1. extra \in 0 .. Capacity /\ 0 \in 0 .. extra /\ parsed + k + (extra - 0) <= arrived
    BY <1>0, <1>2, BufferAssumption DEF DeviceParses, BufferInv, TypeOK
  <2>2. mem' \in [0 .. Capacity - 1 -> 0 .. MaxBytes]
    <3>1. \A i \in DOMAIN mem : i < extra => readPos + k + i \in DOMAIN mem
      BY <1>0, <1>2, BufferAssumption DEF DeviceParses, BufferInv, TypeOK
    <3>2. QED
      BY <1>2, <3>1 DEF DeviceParses, BufferInv, TypeOK
  <2>3. Renew(extra, 0) /\ parsed' = parsed + k /\ UNCHANGED <<parser, debug, arrived>>
    BY <1>2 DEF DeviceParses
  <2> HIDE DEF extra
  <2>4. QED
    BY <2>1, <2>2, <2>3, RenewKeepsInv
<1>3. CASE RawCollects
  <2> DEFINE k == Committed - readPos
  <2>1. /\ k \in Nat /\ Committed \in 0 .. Committed
        /\ parsed + k + (Committed - Committed) <= arrived /\ parsed' = parsed + k
    BY <1>0, <1>3, BufferAssumption DEF RawCollects, BufferInv, TypeOK
  <2>2. /\ Renew(Committed, Committed) /\ UNCHANGED <<parser, debug, arrived>>
        /\ mem' \in [0 .. Capacity - 1 -> 0 .. MaxBytes]
    BY <1>3 DEF RawCollects, BufferInv, TypeOK
  <2> HIDE DEF k
  <2>3. QED
    BY <1>0, <2>1, <2>2, RenewKeepsInv
<1>4. CASE NobodyParses
  <2> DEFINE a == IF debug THEN Committed ELSE appendPos
  <2>1. /\ a \in 0 .. Capacity /\ readPos \in 0 .. a
        /\ parsed + 0 + (a - readPos) <= arrived /\ parsed' = parsed + 0
    BY <1>0, <1>4, BufferAssumption DEF NobodyParses, BufferInv, TypeOK
  <2>2. /\ Renew(a, readPos) /\ UNCHANGED <<parser, debug, arrived>>
        /\ mem' \in [0 .. Capacity - 1 -> 0 .. MaxBytes]
    BY <1>4 DEF NobodyParses, BufferInv, TypeOK
  <2> HIDE DEF a
  <2>3. QED
    BY <2>1, <2>2, RenewKeepsInv
<1>5. CASE ClearBuffer
  <2>1. Whole \in Region /\ Whole = Writer(0) /\ Whole.start + Whole.size = Capacity
    BY BufferAssumption DEF Whole, Region, Writer
  <2>2. 0 <= pending.start /\ parsed + (0 - 0) + transferred <= arrived
    BY <1>0, BufferAssumption DEF BufferInv, TypeOK
  <2>3. QED
    BY <1>5, <2>1, <2>2, BufferAssumption DEF ClearBuffer, BufferInv, TypeOK, RoomToRead
<1>6. ASSUME NEW p \in Parsers, SetParseFunction(p)
      PROVE  BufferInv'
  BY <1>6 DEF SetParseFunction, BufferInv, TypeOK, RoomToRead
<1>7. ASSUME NEW b \in BOOLEAN, SetDebugMode(b)
      PROVE  BufferInv'
  BY <1>7 DEF SetDebugMode, BufferInv, TypeOK, RoomToRead
<1>8. CASE UNCHANGED vars
  BY <1>8 DEF vars, BufferInv, TypeOK, RoomToRead
<1>9. QED
  BY <1>1, <1>2, <1>3, <1>4, <1>5, <1>6, <1>7, <1>8, <1>a DEF Next, Handle

\* Whatever the application does, the port writes inside the buffer, the
\* positions stay ordered and a read is never started without room.
THEOREM MemorySafe == Spec => [](TypeOK /\ RoomToRead)
<1>1. BufferInv => TypeOK /\ RoomToRead
  BY DEF BufferInv
<1>2. QED
  BY <1>1, BufferInit, BufferStep, PTL DEF Spec

-----------------------------------------------------------------------------
(* Unless it is cleared, the pending read writes where the commit will count. *)

LinkInv == (reading => pending.start = appendPos) /\ CommitsWhatWasRead

LEMMA LinkInit == Init => LinkInv
<1> SUFFICES ASSUME Init
             PROVE  LinkInv
  OBVIOUS
<1>1. reading = FALSE /\ appendPos = 0 /\ transferred = 0
  BY DEF Init
<1>2. QED
  BY <1>1, BufferAssumption DEF LinkInv, CommitsWhatWasRead, Committed

LEMMA LinkStep ==
  ASSUME ~ClearAnytime, BufferInv, LinkInv, [Next]_vars
  PROVE  LinkInv'
<1>0. /\ Committed \in 0 .. Capacity /\ readPos \in 0 .. Committed /\ appendPos <= Committed
      /\ appendPos \in 0 .. Capacity
  BY CommitFits DEF BufferInv, TypeOK
<1>1. ASSUME NEW n \in 1 .. Capacity, Arrive(n)
      PROVE  LinkInv'
  <2>1. /\ reading /\ pending.start = appendPos /\ n <= pending.size /\ appendPos + pending.size = Capacity
        /\ appendPos' = appendPos /\ pending' = pending /\ transferred' = n /\ arrived' = arrived + n
        /\ DOMAIN mem = 0 .. Capacity - 1 /\ appendPos \in Nat /\ pending.size \in Nat
        /\ arrived \in Nat
    BY <1>0, <1>1, CommitFits, BufferAssumption DEF Arrive, LinkInv, BufferInv, TypeOK
  <2>2. mem' = [i \in DOMAIN mem |->
                  IF appendPos <= i /\ i < appendPos + n THEN arrived + 1 + i - appendPos ELSE mem[i]]
    BY <1>1, <2>1 DEF Arrive
  <2>3. ASSUME NEW i \in 0 .. n - 1
        PROVE  mem'[appendPos + i] = arrived' - n + 1 + i
    <3>1. appendPos + i \in DOMAIN mem /\ appendPos <= appendPos + i /\ appendPos + i < appendPos + n
      BY <2>1, BufferAssumption
    <3>2. mem'[appendPos + i] = arrived + 1 + (appendPos + i) - appendPos
      BY <2>2, <3>1
    <3>3. QED
      BY <2>1, <3>2
  <2>4. appendPos + n <= Capacity
    BY <2>1, BufferAssumption
  <2>5. QED
    BY <2>1, <2>3, <2>4 DEF LinkInv, CommitsWhatWasRead, Committed
<1>2. ASSUME NEW a \in 0 .. Capacity, NEW r \in 0 .. a, Renew(a, r)
      PROVE  LinkInv'
  <2>1. reading' = FALSE /\ appendPos' \in 0 .. Capacity - 1 /\ transferred' = 0
    BY <1>2, RenewEffect
  <2>2. Committed' <= Capacity
    <3> DEFINE x == appendPos'
    <3>0. x \in 0 .. Capacity - 1
      BY <2>1, Zenon
    <3> HIDE DEF x
    <3>1. x + 0 <= Capacity
      BY <3>0, BufferAssumption
    <3> USE DEF x
    <3>2. Committed' = appendPos' + 0
      BY <2>1, Zenon DEF Committed
    <3>3. QED
      BY <3>1, <3>2, Zenon
  <2>3. QED
    BY <2>1, <2>2 DEF LinkInv, CommitsWhatWasRead
<1>3. ASSUME NEW k \in 0 .. Capacity, DeviceParses(k)
      PROVE  LinkInv'
  <2> DEFINE extra == Committed - (readPos + k)
  <2>1. extra \in 0 .. Capacity /\ 0 \in 0 .. extra /\ Renew(extra, 0)
    BY <1>0, <1>3, BufferAssumption DEF DeviceParses
  <2> HIDE DEF extra
  <2>2. QED
    BY <1>2, <2>1
<1>4. CASE RawCollects
  BY <1>0, <1>2, <1>4, BufferAssumption DEF RawCollects
<1>5. CASE NobodyParses
  <2> DEFINE a == IF debug THEN Committed ELSE appendPos
  <2>1. a \in 0 .. Capacity /\ readPos \in 0 .. a /\ Renew(a, readPos)
    BY <1>0, <1>5 DEF NobodyParses, BufferInv, TypeOK
  <2> HIDE DEF a
  <2>2. QED
    BY <1>2, <2>1
<1>a. CASE ReadSome
  <2>1. pending' = writer /\ writer.start = appendPos
    BY <1>a, WriterFits, BufferAssumption DEF ReadSome, BufferInv, TypeOK
  <2>2. UNCHANGED <<mem, appendPos, transferred, arrived>>
    BY <1>a DEF ReadSome
  <2>3. CommitsWhatWasRead'
    BY <2>2 DEF LinkInv, CommitsWhatWasRead, Committed
  <2>4. pending'.start = appendPos'
    BY <2>1, <2>2
  <2>5. QED
    BY <2>3, <2>4 DEF LinkInv
<1>6. CASE \/ UNCHANGED vars \/ (\E p \in Parsers : SetParseFunction(p))
           \/ (\E b \in BOOLEAN : SetDebugMode(b))
  <2>1. UNCHANGED <<mem, appendPos, reading, pending, transferred, arrived>>
    BY <1>6 DEF SetParseFunction, SetDebugMode, vars
  <2>2. QED
    BY <2>1 DEF LinkInv, CommitsWhatWasRead, Committed
<1>7. CASE ClearBuffer
  <2>1. UNCHANGED <<mem, appendPos, reading, pending, transferred, arrived>>
    BY <1>7 DEF ClearBuffer
  <2>2. QED
    BY <2>1 DEF LinkInv, CommitsWhatWasRead, Committed
<1>8. QED
  BY <1>1, <1>3, <1>4, <1>5, <1>6, <1>7, <1>a DEF Next, Handle

\* As long as the application clears the buffer only when it is empty, what the
\* handler commits are the bytes that have just arrived.
THEOREM CommitsRead ==
  ASSUME ~ClearAnytime
  PROVE  Spec => []CommitsWhatWasRead
<1>1. Init => BufferInv /\ LinkInv
  BY BufferInit, LinkInit
<1>2. BufferInv /\ LinkInv /\ [Next]_vars => (BufferInv /\ LinkInv)'
  BY BufferStep, LinkStep
<1>3. LinkInv => CommitsWhatWasRead
  BY DEF LinkInv
<1>4. QED
  BY <1>1, <1>2, <1>3, PTL DEF Spec

-----------------------------------------------------------------------------
(* The buffer implements the stream of its parser.                         *)

\* The port of the stream: what has arrived and is not committed.
Port == [i \in 1 .. transferred |-> arrived - transferred + i]

\* What the handler offers the parse function.
Offered == [i \in 1 .. Committed - readPos |-> mem[readPos + i - 1]]

\* A function on 1 .. n is a sequence of that length.
LEMMA FunctionIsSequence ==
  ASSUME NEW S, NEW n \in Nat, NEW f \in [1 .. n -> S]
  PROVE  f \in Seq(S) /\ Len(f) = n
OBVIOUS

\* The queue and the port are sequences of numbers.
LEMMA StreamTypes ==
  ASSUME BufferInv
  PROVE  /\ Unparsed \in Seq(Int) /\ Len(Unparsed) = appendPos - readPos
         /\ Port \in Seq(Int) /\ Len(Port) = transferred
         /\ Offered \in Seq(Int) /\ Len(Offered) = Committed - readPos
         /\ transferred \in Nat /\ appendPos - readPos \in Nat
<1>1. /\ mem \in [0 .. Capacity - 1 -> 0 .. MaxBytes]
      /\ appendPos \in 0 .. Capacity /\ readPos \in 0 .. appendPos
      /\ arrived \in 0 .. MaxBytes
  BY DEF BufferInv, TypeOK
<1>2. Committed \in 0 .. Capacity /\ readPos \in 0 .. Committed
  BY CommitFits
<1>3. transferred \in Nat
  <2>1. pending.size \in Nat /\ transferred \in 0 .. pending.size
    BY CommitFits DEF BufferInv, TypeOK
  <2>2. QED
    BY <2>1
<1>4. \A i \in 0 .. Capacity - 1 : mem[i] \in Int
  BY <1>1, BufferAssumption
<1>5. Unparsed \in [1 .. appendPos - readPos -> Int]
  BY <1>1, <1>4, BufferAssumption DEF Unparsed
<1>6. Offered \in [1 .. Committed - readPos -> Int]
  BY <1>2, <1>4, BufferAssumption DEF Offered
<1>7. Port \in [1 .. transferred -> Int]
  BY <1>1, <1>3, BufferAssumption DEF Port
<1>8. appendPos - readPos \in Nat /\ Committed - readPos \in Nat
  BY <1>1, <1>2, BufferAssumption
<1>9. QED
  BY <1>3, <1>5, <1>6, <1>7, <1>8, FunctionIsSequence

\* What is left of a sequence, as a function.
LEMMA Rest ==
  ASSUME NEW s \in Seq(Int), NEW k \in 0 .. Len(s)
  PROVE  /\ SubSeq(s, k + 1, Len(s)) \in Seq(Int)
         /\ Len(SubSeq(s, k + 1, Len(s))) = Len(s) - k
         /\ \A i \in 1 .. Len(s) - k : SubSeq(s, k + 1, Len(s))[i] = s[k + i]
<1>1. Len(s) \in Nat /\ \A i \in k + 1 .. Len(s) : s[i] \in Int
  BY LenProperties
<1>2. k + 1 \in Int /\ Len(s) \in Int
  BY <1>1
<1>3. /\ SubSeq(s, k + 1, Len(s)) \in Seq(Int)
      /\ Len(SubSeq(s, k + 1, Len(s))) = IF k + 1 <= Len(s) THEN Len(s) - (k + 1) + 1 ELSE 0
      /\ \A i \in 1 .. Len(s) - (k + 1) + 1 : SubSeq(s, k + 1, Len(s))[i] = s[k + 1 + i - 1]
  BY <1>1, <1>2, SubSeqProperties
<1>4. QED
  BY <1>1, <1>3

\* The handler offers what was left, followed by what has just arrived.
LEMMA OfferedIs ==
  ASSUME BufferInv, LinkInv
  PROVE  Unparsed \o Port = Offered
<1>1. /\ Unparsed \in Seq(Int) /\ Len(Unparsed) = appendPos - readPos
      /\ Port \in Seq(Int) /\ Len(Port) = transferred
      /\ Offered \in Seq(Int) /\ Len(Offered) = Committed - readPos
      /\ transferred \in Nat /\ appendPos - readPos \in Nat
  BY StreamTypes
<1>2. /\ Unparsed \o Port \in Seq(Int)
      /\ Len(Unparsed \o Port) = (appendPos - readPos) + transferred
      /\ \A i \in 1 .. (appendPos - readPos) + transferred :
           (Unparsed \o Port)[i] = IF i <= appendPos - readPos THEN Unparsed[i]
                                   ELSE Port[i - (appendPos - readPos)]
  <2>1. /\ Unparsed \o Port \in Seq(Int)
        /\ Len(Unparsed \o Port) = Len(Unparsed) + Len(Port)
        /\ \A i \in 1 .. Len(Unparsed) + Len(Port) :
             (Unparsed \o Port)[i] = IF i <= Len(Unparsed) THEN Unparsed[i]
                                     ELSE Port[i - Len(Unparsed)]
    BY <1>1, ConcatProperties
  <2>2. QED
    BY <1>1, <2>1
<1>3. appendPos \in Nat /\ readPos \in Nat /\ arrived \in Nat
  BY BufferAssumption DEF BufferInv, TypeOK
<1>4. Committed - readPos = (appendPos - readPos) + transferred
  BY <1>1, <1>3 DEF Committed
<1>5. ASSUME NEW i \in 1 .. Committed - readPos
      PROVE  (Unparsed \o Port)[i] = Offered[i]
  <2>1. Offered[i] = mem[readPos + i - 1]
    BY <1>5 DEF Offered
  <2>2. CASE i <= appendPos - readPos
    <3>1. Unparsed[i] = mem[readPos + i - 1]
      BY <1>1, <1>3, <2>2 DEF Unparsed
    <3>2. QED
      BY <1>2, <1>4, <2>1, <2>2, <3>1
  <2>3. CASE ~(i <= appendPos - readPos)
    <3> DEFINE j == i - (appendPos - readPos)
    <3>1. j \in 1 .. transferred /\ j - 1 \in 0 .. transferred - 1
          /\ appendPos + (j - 1) = readPos + i - 1
      BY <1>1, <1>3, <1>4, <2>3
    <3>2. Port[j] = arrived - transferred + j
      BY <3>1 DEF Port
    <3>3. mem[appendPos + (j - 1)] = arrived - transferred + 1 + (j - 1)
      BY <3>1 DEF LinkInv, CommitsWhatWasRead
    <3>4. arrived - transferred + 1 + (j - 1) = arrived - transferred + j
      BY <1>1, <1>3, <3>1
    <3>5. (Unparsed \o Port)[i] = Port[j]
      BY <1>2, <1>4, <2>3
    <3>6. QED
      BY <2>1, <3>1, <3>2, <3>3, <3>4, <3>5
  <2>4. QED
    BY <2>2, <2>3
<1>6. QED
  BY <1>1, <1>2, <1>4, <1>5, SeqEqual

\* Whether the port of the stream is empty.
LEMMA PortIs ==
  ASSUME BufferInv
  PROVE  /\ transferred = 0 => Port = <<>>
         /\ transferred > 0 => Port # <<>>
<1>1. Port \in Seq(Int) /\ Len(Port) = transferred /\ transferred \in Nat
  BY StreamTypes
<1>2. QED
  BY <1>1, EmptySeq

\* Nothing is at the port after the handler.
LEMMA PortTaken ==
  ASSUME transferred' = 0
  PROVE  Port' = <<>>
BY DEF Port

\* Nothing is left when the positions are equal.
LEMMA NothingLeft ==
  ASSUME NEW a \in Int, appendPos' = a, readPos' = a
  PROVE  Unparsed' = <<>>
<1>1. Unparsed' = [i \in 1 .. a - a |-> mem'[a + i - 1]]
  BY Zenon DEF Unparsed
<1>2. a - a = 0
  OBVIOUS
<1>3. QED
  BY <1>1, <1>2

\* What a device's parser leaves is shifted to the front.
LEMMA DeviceLeaves ==
  ASSUME BufferInv, NEW k \in 0 .. Committed - readPos, transferred > 0,
         DeviceParses(k), Committed - (readPos + k) # Capacity
  PROVE  Unparsed' = SubSeq(Offered, k + 1, Len(Offered))
<1> DEFINE extra == Committed - (readPos + k)
<1>1. /\ Committed \in 0 .. Capacity /\ readPos \in 0 .. Committed
      /\ mem \in [0 .. Capacity - 1 -> 0 .. MaxBytes] /\ Capacity \in Nat
  BY CommitFits, BufferAssumption DEF BufferInv, TypeOK
<1>2. /\ mem' = [i \in DOMAIN mem |-> IF i < extra THEN mem[readPos + k + i] ELSE mem[i]]
      /\ Renew(extra, 0)
  BY DEF DeviceParses
<1>3. extra \in 0 .. Capacity - 1 /\ extra <= Committed - readPos
  BY <1>1
<1>4. appendPos' = extra /\ readPos' = 0
  BY <1>2, <1>3 DEF Renew
<1>5. /\ Offered \in Seq(Int) /\ Len(Offered) = Committed - readPos
  BY StreamTypes
<1>6. Len(Offered) - k = extra
  BY <1>1, <1>5
<1>7. Unparsed' = [i \in 1 .. extra |-> mem'[i - 1]]
  <2>1. appendPos' - readPos' = extra
    BY <1>3, <1>4
  <2>2. \A i \in 1 .. extra : readPos' + i - 1 = i - 1
    BY <1>3, <1>4
  <2>3. Unparsed' = [i \in 1 .. appendPos' - readPos' |-> mem'[readPos' + i - 1]]
    BY DEF Unparsed
  <2> HIDE DEF extra
  <2>4. QED
    BY <2>1, <2>2, <2>3
<1>8. ASSUME NEW i \in 1 .. extra
      PROVE  mem'[i - 1] = Offered[k + i]
  <2>1. i - 1 \in DOMAIN mem /\ i - 1 < extra /\ k + i \in 1 .. Committed - readPos
        /\ readPos + k + (i - 1) = readPos + (k + i) - 1
    BY <1>1, <1>3
  <2>2. mem'[i - 1] = mem[readPos + k + (i - 1)]
    BY <1>2, <2>1
  <2>3. Offered[k + i] = mem[readPos + (k + i) - 1]
    BY <2>1 DEF Offered
  <2>4. QED
    BY <2>1, <2>2, <2>3
<1> HIDE DEF extra
<1>9. \A i \in 1 .. extra : Offered[k + i] \in Int
  <2>1. \A i \in 1 .. extra : k + i \in 1 .. Len(Offered)
    BY <1>1, <1>3, <1>5, <1>6
  <2>2. QED
    BY <1>5, <2>1, ElementOfSeq
<1>10. Unparsed' \in Seq(Int) /\ Len(Unparsed') = extra /\ \A i \in 1 .. extra : Unparsed'[i] = Offered[k + i]
  <2>1. Unparsed' \in [1 .. extra -> Int] /\ \A i \in 1 .. extra : Unparsed'[i] = Offered[k + i]
    BY <1>7, <1>8, <1>9
  <2>2. extra \in Nat
    BY <1>1, <1>3
  <2>3. QED
    BY <2>1, <2>2, FunctionIsSequence
<1>11. /\ SubSeq(Offered, k + 1, Len(Offered)) \in Seq(Int)
       /\ Len(SubSeq(Offered, k + 1, Len(Offered))) = extra
       /\ \A i \in 1 .. extra : SubSeq(Offered, k + 1, Len(Offered))[i] = Offered[k + i]
  <2>1. k \in 0 .. Len(Offered)
    BY <1>5
  <2>2. QED
    BY <1>5, <1>6, <2>1, Rest
<1>12. QED
  BY <1>10, <1>11, SeqEqual

\* The handler of a device's parser is a step of the stream.
LEMMA DeviceStep ==
  ASSUME BufferInv, LinkInv, NEW k \in 0 .. Capacity, DeviceParses(k)
  PROVE  Stream!Parse \/ Stream!Overflow
<1> DEFINE extra == Committed - (readPos + k)
<1>1. /\ Committed \in 0 .. Capacity /\ readPos \in 0 .. Committed /\ Capacity \in Nat
      /\ readPos + k <= Committed /\ transferred > 0 /\ k \in 0 .. Committed - readPos
  BY CommitFits, BufferAssumption DEF DeviceParses
<1>2. Unparsed \o Port = Offered /\ Len(Offered) = Committed - readPos
  BY OfferedIs, StreamTypes
<1>3. /\ parser = "device" /\ Renew(extra, 0) /\ parsed' = parsed + k
      /\ parser' = parser /\ arrived' = arrived
  BY DEF DeviceParses
<1>4. parser # "none" /\ Port # <<>> /\ Port' = <<>> /\ (parser # "none")' = (parser # "none")
  <2>1. transferred' = 0
    BY <1>3 DEF Renew
  <2>2. QED
    BY <1>1, <1>3, <2>1, PortIs, PortTaken
<1>5. CASE extra = Capacity
  <2>1. k = 0 /\ Len(Unparsed \o Port) = Capacity
    BY <1>1, <1>2, <1>5
  <2>2. appendPos' = 0 /\ readPos' = 0
    BY <1>3, <1>5 DEF Renew
  <2>3. Unparsed' = <<>>
    BY <2>2, NothingLeft
  <2>4. parsed' = parsed
    BY <1>3, <2>1, BufferAssumption DEF BufferInv, TypeOK
  <2>5. Stream!Overflow
    BY <1>3, <1>4, <2>1, <2>3, <2>4, Zenon DEF Stream!Overflow, Stream!Take, Port
  <2>6. QED
    BY <2>5
<1>6. CASE extra # Capacity
  <2>1. Unparsed' = SubSeq(Unparsed \o Port, k + 1, Len(Unparsed \o Port))
    BY <1>1, <1>2, <1>6, DeviceLeaves
  <2>2. k \in 0 .. Len(Unparsed \o Port)
    BY <1>1, <1>2
  <2>3. Stream!Parse
    BY <1>3, <1>4, <2>1, <2>2, Zenon DEF Stream!Parse, Stream!Take, Port
  <2>4. QED
    BY <2>3
<1>7. QED
  BY <1>5, <1>6

\* collectRawData consumes everything that is offered.
LEMMA RawStep ==
  ASSUME BufferInv, LinkInv, RawCollects
  PROVE  Stream!Parse
<1>1. /\ Committed \in 0 .. Capacity /\ readPos \in 0 .. Committed /\ Capacity \in Nat
      /\ transferred > 0
  BY CommitFits, BufferAssumption DEF RawCollects
<1>2. Unparsed \o Port = Offered /\ Offered \in Seq(Int) /\ Len(Offered) = Committed - readPos
  BY OfferedIs, StreamTypes
<1>3. /\ parser = "raw" /\ Renew(Committed, Committed) /\ parsed' = parsed + Committed - readPos
      /\ parser' = parser /\ arrived' = arrived
  BY DEF RawCollects
<1>4. parser # "none" /\ Port # <<>> /\ Port' = <<>> /\ (parser # "none")' = (parser # "none")
  <2>1. transferred' = 0
    BY <1>3 DEF Renew
  <2>2. QED
    BY <1>1, <1>3, <2>1, PortIs, PortTaken
<1>5. Unparsed' = <<>>
  <2>1. PICK a \in Int : appendPos' = a /\ readPos' = a
    BY <1>1, <1>3 DEF Renew
  <2>2. QED
    BY <2>1, NothingLeft
<1>6. SubSeq(Offered, Len(Offered) + 1, Len(Offered)) = <<>>
  <2>1. Len(Offered) \in Int /\ Len(Offered) + 1 \in Int /\ Len(Offered) < Len(Offered) + 1
    BY <1>1, <1>2
  <2>2. QED
    BY <2>1, SubSeqEmpty
<1>7. Len(Offered) \in 0 .. Len(Offered) /\ parsed' = parsed + Len(Offered)
  BY <1>1, <1>2, <1>3, BufferAssumption DEF BufferInv, TypeOK
<1>8. QED
  BY <1>2, <1>3, <1>4, <1>5, <1>6, <1>7, Zenon DEF Stream!Parse, Stream!Take, Port

\* Without a parse function the queue is kept, extended or thrown out.
LEMMA IgnoreStep ==
  ASSUME BufferInv, LinkInv, NobodyParses
  PROVE  Stream!Ignore
<1>1. /\ Committed \in 0 .. Capacity /\ readPos \in 0 .. Committed /\ Capacity \in Nat
      /\ transferred > 0 /\ appendPos # Capacity
  BY CommitFits, BufferAssumption DEF NobodyParses, BufferInv, TypeOK
<1>2. Unparsed \o Port = Offered
  BY OfferedIs
<1>3. /\ parser = "none" /\ Renew(IF debug THEN Committed ELSE appendPos, readPos)
      /\ parser' = parser /\ arrived' = arrived /\ mem' = mem /\ parsed' = parsed
  BY DEF NobodyParses
<1>4. ~(parser # "none") /\ Port # <<>> /\ Port' = <<>> /\ (parser # "none")' = (parser # "none")
  <2>1. transferred' = 0
    BY <1>3 DEF Renew
  <2>2. QED
    BY <1>1, <1>3, <2>1, PortIs, PortTaken
<1>5. Unparsed' \in {Unparsed, Unparsed \o Port, <<>>}
  <2>1. CASE debug /\ Committed = Capacity
    <3>1. appendPos' = 0 /\ readPos' = 0
      BY <1>3, <2>1 DEF Renew
    <3>2. QED
      BY <3>1, NothingLeft
  <2>2. CASE debug /\ Committed # Capacity
    <3>1. appendPos' = Committed /\ readPos' = readPos
      BY <1>3, <2>2 DEF Renew
    <3>2. Unparsed' = Offered
      BY <1>3, <3>1 DEF Unparsed, Offered
    <3>3. QED
      BY <1>2, <3>2
  <2>3. CASE ~debug
    <3>1. appendPos' = appendPos /\ readPos' = readPos
      BY <1>1, <1>3, <2>3 DEF Renew
    <3>2. Unparsed' = Unparsed
      BY <1>3, <3>1 DEF Unparsed
    <3>3. QED
      BY <3>2
  <2>4. QED
    BY <2>1, <2>2, <2>3
<1>6. QED
  BY <1>3, <1>4, <1>5, Zenon DEF Stream!Ignore, Stream!Take, Port

\* The port writes behind what is left: bytes that arrive go to the port.
LEMMA ArriveStep ==
  ASSUME BufferInv, LinkInv, NEW n \in 1 .. Capacity, Arrive(n)
  PROVE  Stream!Arrive
<1>1. /\ reading /\ transferred = 0 /\ n <= MaxBytes - arrived
      /\ transferred' = n /\ arrived' = arrived + n
      /\ UNCHANGED <<appendPos, readPos, parser, parsed>>
      /\ arrived \in Nat /\ MaxBytes \in Nat
  BY BufferAssumption DEF Arrive, BufferInv, TypeOK
<1>2. pending.start = appendPos /\ appendPos \in 0 .. Capacity /\ readPos \in 0 .. appendPos
      /\ DOMAIN mem = 0 .. Capacity - 1 /\ Capacity \in Nat
  BY <1>1, BufferAssumption DEF LinkInv, BufferInv, TypeOK
<1>3. Unparsed' = Unparsed
  <2>1. ASSUME NEW i \in 1 .. appendPos - readPos
        PROVE  mem'[readPos + i - 1] = mem[readPos + i - 1]
    <3>1. readPos + i - 1 \in DOMAIN mem /\ ~(appendPos <= readPos + i - 1)
      BY <1>2
    <3>2. mem' = [j \in DOMAIN mem |->
                    IF appendPos <= j /\ j < appendPos + n THEN arrived + 1 + j - appendPos ELSE mem[j]]
      BY <1>2 DEF Arrive
    <3>3. QED
      BY <3>1, <3>2
  <2>2. QED
    BY <1>1, <2>1 DEF Unparsed
<1>4. Port = <<>>
  BY <1>1, PortIs
<1>5. n \in 1 .. MaxBytes - arrived
  BY <1>1, <1>2
<1>6. Port' = Stream!Fresh(n)
  <2>1. arrived' - n = arrived
    BY <1>1
  <2>2. Port' = [i \in 1 .. n |-> arrived' - n + i]
    BY <1>1 DEF Port
  <2>3. QED
    BY <2>1, <2>2 DEF Stream!Fresh
<1>7. QED
  BY <1>1, <1>3, <1>4, <1>5, <1>6, Zenon DEF Stream!Arrive, Port

\* Every step of the buffer is one of the stream, or changes nothing of it.
LEMMA StreamStep ==
  ASSUME ~ClearAnytime, BufferInv, LinkInv, [Next]_vars
  PROVE  [Stream!Next]_(Stream!vars)
<1>1. ASSUME UNCHANGED <<mem, appendPos, readPos, transferred, parser, arrived, parsed>>
      PROVE  UNCHANGED Stream!vars
  BY <1>1 DEF Stream!vars, Unparsed
<1>2. CASE ReadSome
  BY <1>1, <1>2 DEF ReadSome
<1>3. ASSUME NEW n \in 1 .. Capacity, Arrive(n)
      PROVE  Stream!Next
  BY <1>3, ArriveStep DEF Stream!Next
<1>4. ASSUME NEW k \in 0 .. Capacity, DeviceParses(k)
      PROVE  Stream!Next
  BY <1>4, DeviceStep DEF Stream!Next
<1>5. CASE RawCollects
  BY <1>5, RawStep DEF Stream!Next
<1>6. CASE NobodyParses
  BY <1>6, IgnoreStep DEF Stream!Next
<1>7. CASE ClearBuffer
  <2>1. appendPos = 0 /\ readPos = 0
    BY <1>7 DEF ClearBuffer, BufferInv, TypeOK
  <2>2. QED
    BY <1>1, <1>7, <2>1 DEF ClearBuffer
<1>8. ASSUME NEW p \in Parsers, SetParseFunction(p)
      PROVE  Stream!Next
  <2>1. Unparsed' = Unparsed /\ Port' = Port /\ UNCHANGED <<arrived, parsed>>
    BY <1>8 DEF SetParseFunction, Unparsed, Port
  <2>2. (parser # "none")' \in BOOLEAN
    OBVIOUS
  <2>3. Stream!SetParsing
    BY <2>1, <2>2, Zenon DEF Stream!SetParsing, Port
  <2>4. QED
    BY <2>3 DEF Stream!Next
<1>9. ASSUME NEW b \in BOOLEAN, SetDebugMode(b)
      PROVE  UNCHANGED Stream!vars
  BY <1>1, <1>9 DEF SetDebugMode
<1>10. CASE UNCHANGED vars
  BY <1>1, <1>10 DEF vars
<1>11. QED
  BY <1>2, <1>3, <1>4, <1>5, <1>6, <1>7, <1>8, <1>9, <1>10 DEF Next, Handle

\* As long as the application clears the buffer only when it is empty, the
\* parser gets the bytes of the port in order and each once: buffer, writer and
\* read loop implement the stream of ByteStream.
THEOREM BufferIsStream ==
  ASSUME ~ClearAnytime
  PROVE  Spec => ImplementsStream
<1>1. Init => BufferInv /\ LinkInv
  BY BufferInit, LinkInit
<1>2. BufferInv /\ LinkInv /\ [Next]_vars => (BufferInv /\ LinkInv)'
  BY BufferStep, LinkStep
<1>3. Init => Stream!Init
  <2> SUFFICES ASSUME Init
               PROVE  Stream!Init
    OBVIOUS
  <2>1. /\ arrived = 0 /\ parsed = 0 /\ transferred = 0 /\ appendPos = 0 /\ readPos = 0
        /\ parser = "none"
    BY DEF Init
  <2>2. Port = <<>> /\ Unparsed = <<>>
    BY <2>1 DEF Port, Unparsed
  <2>3. (parser # "none") = FALSE
    BY <2>1
  <2>4. QED
    BY <2>1, <2>2, <2>3, Zenon DEF Stream!Init, Port
<1>4. BufferInv /\ LinkInv /\ [Next]_vars => [Stream!Next]_(Stream!vars)
  BY StreamStep
<1>5. QED
  BY <1>1, <1>2, <1>3, <1>4, PTL DEF Spec, ImplementsStream, Stream!Spec
=============================================================================
