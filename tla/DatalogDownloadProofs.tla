----------------------- MODULE DatalogDownloadProofs -----------------------
(***************************************************************************)
(* For any flash, piece, header and logs: the addresses stay on the flash, *)
(* no more of a section is read than there is, and of a log that is Clear  *)
(* every intact sweep is handed out, once and in order.                    *)
(*                                                                         *)
(* The proof gives what the downloader keeps as addresses its place in the *)
(* log, an offset.  DataInv says that its buffers are intact sections that *)
(* follow each other, then what has been downloaded and not looked at,     *)
(* with no intact section between; PhaseInv what is in them at each place  *)
(* of a call; SessionInv what was parsed last; HistoryInv that what has    *)
(* been handed out are the sweeps before the place that is read.           *)
(***************************************************************************)
EXTENDS DatalogDownload, WellFoundedInduction, TLAPS

Places == {"idle", "outOfRange", "byte", "swap", "take",
           "fillCurrent", "fillFirst", "fillAgain", "fillNext"}

Calls == [at : Places, header : BOOLEAN, got : Seq(Address), fetched : BOOLEAN]

TypeInv ==
  /\ log \in Logs
  /\ download \in 0 .. StorageSize /\ previous \in 0 .. StorageSize
  /\ extraData \in Seq(Address) /\ currentData \in Seq(Address) /\ nextData \in Seq(Address)
  /\ readIndex \in 0 .. Len(currentData)
  /\ partial \in BOOLEAN /\ done \in BOOLEAN /\ started \in BOOLEAN /\ outOfMemory \in BOOLEAN
  /\ session \in [index : Nat, starts : BOOLEAN, found : BOOLEAN]
  /\ call \in Calls
  /\ call.at = "fillCurrent" => readIndex = 0

LEMMA Constants ==
  /\ StorageSize \in Nat \ {0} /\ BlockSize \in Nat \ {0} /\ ChunkSize \in Nat \ {0}
  /\ \A l \in Logs : l.start \in Address /\ l.size \in Nat /\ l.sections \subseteq Section
<1>1. StorageSize \in Nat \ {0}
  BY DatalogAssumption DEF DatalogAssumption
<1>2. ASSUME NEW l \in Logs PROVE l.size \in Nat
  <2>1. l.size \in 1 .. StorageSize
    BY DatalogAssumption DEF DatalogAssumption
  <2> QED
    BY <1>1, <2>1
<1> QED
  BY <1>1, <1>2, DatalogAssumption DEF DatalogAssumption

LEMMA Remainder ==
  ASSUME NEW a \in Nat, NEW b \in Nat \ {0}
  PROVE  a % b \in 0 .. b - 1
  OBVIOUS

LEMMA BytesAreAddresses ==
  ASSUME NEW a \in Nat, NEW n \in Nat
  PROVE  Bytes(a, n) \in Seq(Address)
<1>1. ASSUME NEW i \in 1 .. n
      PROVE  (a + i - 1) % StorageSize \in Address
  <2>1. a + i - 1 \in Nat
    OBVIOUS
  <2> QED
    BY <2>1, Constants, Remainder DEF Address
<1>2. Bytes(a, n) \in [1 .. n -> Address]
  BY <1>1 DEF Bytes
<1> QED
  BY <1>2

\* Where the next piece is fetched is on the flash, or right behind it.
LEMMA NormalizedIsOnFlash ==
  ASSUME NEW a \in Nat
  PROVE  Normalized(a) \in 0 .. StorageSize
  BY Constants, Remainder DEF Normalized

LEMMA NextBlockIsBehind ==
  ASSUME NEW a \in Nat
  PROVE  NextBlockAddress(a) \in Nat
<1>1. a % BlockSize \in 0 .. BlockSize - 1
  BY Constants, Remainder
<1> DEFINE r == a % BlockSize
<1>2. r \in 0 .. BlockSize - 1 /\ NextBlockAddress(a) = a + (BlockSize - r)
  BY <1>1 DEF NextBlockAddress
<1> HIDE DEF r
<1> QED
  BY <1>2, Constants

LEMMA SectionIs ==
  ASSUME TypeInv, NEW a, SectionsAt(a) # {}
  PROVE  SectionAt(a) \in Section
<1>2. log.sections \subseteq Section
  BY Constants DEF TypeInv
<1>3. SectionAt(a) \in SectionsAt(a)
  BY DEF SectionAt
<1> QED
  BY <1>2, <1>3 DEF SectionsAt

LEMMA NoCallIs == /\ NoCall \in Calls /\ NoCall.at # "fillCurrent"
                  /\ [NoCall EXCEPT !.at = "outOfRange"] \in Calls
                  /\ [NoCall EXCEPT !.at = "outOfRange"].at # "fillCurrent"
<1>1. <<>> \in Seq(Address)
  OBVIOUS
<1> QED
  BY <1>1 DEF NoCall, Calls, Places

LEMMA InitType == Init => TypeInv
<1> SUFFICES ASSUME Init PROVE TypeInv
  OBVIOUS
<1>1. log.start \in 0 .. StorageSize
  <2>1. log.start \in Address
    BY Constants DEF Init
  <2> QED
    BY <2>1, Constants DEF Address
<1>2. <<>> \in Seq(Address) /\ Len(<<>>) = 0
  OBVIOUS
<1>3. call \in Calls /\ call.at # "fillCurrent"
  BY NoCallIs DEF Init
<1>4. [index |-> 0, starts |-> FALSE, found |-> FALSE] \in [index : Nat, starts : BOOLEAN, found : BOOLEAN]
  OBVIOUS
<1>5. /\ log \in Logs /\ download = log.start /\ previous = log.start
      /\ extraData = <<>> /\ currentData = <<>> /\ nextData = <<>> /\ readIndex = 0
      /\ partial = FALSE /\ done = FALSE /\ started = FALSE /\ outOfMemory = FALSE
      /\ session \in [index : Nat, starts : BOOLEAN, found : BOOLEAN]
  BY <1>4 DEF Init
<1>6. readIndex \in 0 .. Len(currentData)
  BY <1>2, <1>5
<1> QED
  BY <1>1, <1>2, <1>3, <1>5, <1>6 DEF TypeInv

\* What fillBuffer leaves to nextByte.
LEMMA FilledIs ==
  ASSUME TypeInv, Filled
  PROVE  /\ partial' \in BOOLEAN /\ readIndex' \in {0, readIndex}
         /\ call' \in Calls /\ call'.at # "fillCurrent"
<1>1. call \in Calls
  BY DEF TypeInv
<1>2. CASE call.at = "fillCurrent" /\ nextData = <<>>
  <2>1. call' = [call EXCEPT !.at = "fillFirst", !.fetched = FALSE] /\ partial' = TRUE /\ readIndex' = readIndex
    BY <1>2 DEF Filled, Fill
  <2> QED
    BY <1>1, <2>1 DEF Calls, Places
<1>3. CASE ~(call.at = "fillCurrent" /\ nextData = <<>>)
  <2>1. /\ partial' = FALSE /\ readIndex' \in {0, readIndex}
        /\ \E to \in {"take", "swap"} : call' = [call EXCEPT !.at = to]
    BY <1>3 DEF Filled, Goto
  <2> QED
    BY <1>1, <2>1 DEF Calls, Places
<1> QED
  BY <1>2, <1>3

LEMMA TypeKept == TypeInv /\ [Next]_vars => TypeInv'
<1> SUFFICES ASSUME TypeInv, [Next]_vars
             PROVE  TypeInv'
  OBVIOUS
<1> USE DEF place, buffer, flags, memory
<1>0. /\ call \in Calls /\ readIndex \in Nat /\ readIndex <= Len(currentData)
      /\ session \in [index : Nat, starts : BOOLEAN, found : BOOLEAN]
  BY DEF TypeInv
<1>1. CASE GetNextData
  <2>1. call' \in Calls /\ (call'.at = "fillCurrent" => call' = call)
    BY <1>0, <1>1, NoCallIs DEF GetNextData, NoCall, Calls, Places
  <2>2. outOfMemory' \in BOOLEAN /\ session' \in [index : Nat, starts : BOOLEAN, found : BOOLEAN]
    BY <1>0, <1>1 DEF GetNextData, TypeInv
  <2> QED
    BY <1>1, <2>1, <2>2 DEF GetNextData, TypeInv
<1>2. CASE NextByte
  <2>1. partial' \in BOOLEAN
    BY <1>2 DEF NextByte, Fill, TypeInv
  <2>2. call' \in Calls /\ (call'.at = "fillCurrent" => currentData = <<>>)
    BY <1>0, <1>2, NoCallIs DEF NextByte, Throw, Fill, Goto, Calls, Places
  <2>3. currentData = <<>> => readIndex = 0
    BY <1>0
  <2> QED
    BY <1>2, <2>1, <2>2, <2>3 DEF NextByte, TypeInv
<1>3. CASE Swap
  <2>1. partial' \in BOOLEAN /\ currentData' \in Seq(Address) /\ nextData' \in Seq(Address)
    <3>1. <<>> \in Seq(Address)
      OBVIOUS
    <3> QED
      BY <1>3, <3>1 DEF Swap, Fill, TypeInv
  <2>2. readIndex' \in 0 .. Len(currentData')
    BY <1>3 DEF Swap, TypeInv
  <2>3. call' \in Calls /\ call'.at # "fillCurrent"
    BY <1>0, <1>3 DEF Swap, Fill, Goto, Calls, Places
  <2> QED
    BY <1>3, <2>1, <2>2, <2>3 DEF Swap, TypeInv
<1>4. CASE Take
  <2>1. CASE readIndex >= Len(currentData)
    <3>1. call' \in Calls /\ call'.at # "fillCurrent"
      BY <1>4, <2>1, NoCallIs DEF Take, ThrowOutOfRange
    <3> QED
      BY <1>4, <2>1, <3>1 DEF Take, TypeInv
  <2>2. CASE ~(readIndex >= Len(currentData))
    <3> DEFINE got == Append(call.got, currentData[readIndex + 1])
    <3>1. readIndex' = readIndex + 1 /\ readIndex' \in 0 .. Len(currentData)
      BY <1>0, <1>4, <2>2 DEF Take, TypeInv
    <3>2. got \in Seq(Address)
      <4>1. readIndex + 1 \in 1 .. Len(currentData) /\ currentData \in Seq(Address)
        BY <1>0, <2>2 DEF TypeInv
      <4>2. currentData[readIndex + 1] \in Address
        BY <4>1
      <4>3. call.got \in Seq(Address)
        BY <1>0 DEF Calls
      <4> QED
        BY <4>2, <4>3
    <3>3. session' \in {session} \cup {Parsed(SectionAt(a)) : a \in {x \in Nat : SectionsAt(x) # {}}}
      <4>1. CASE call.header /\ Len(got) = HeaderSize /\ SectionsAt(got[1]) # {}
        <5>1. session' = Parsed(SectionAt(got[1]))
          BY <1>4, <2>2, <4>1 DEF Take
        <5>2. got[1] \in Nat
          <6>1. call.got \in Seq(Address) /\ Len(got) = Len(call.got) + 1 /\ 1 \in 1 .. Len(got)
            BY <1>0 DEF Calls
          <6> HIDE DEF got
          <6>2. got[1] \in Address
            BY <3>2, <6>1
          <6> QED
            BY <6>2, Constants DEF Address
        <5> QED
          BY <4>1, <5>1, <5>2
      <4>2. CASE ~(call.header /\ Len(got) = HeaderSize /\ SectionsAt(got[1]) # {})
        BY <1>4, <2>2, <4>2 DEF Take
      <4> QED
        BY <4>1, <4>2
    <3>4. session' \in [index : Nat, starts : BOOLEAN, found : BOOLEAN]
      <4>1. ASSUME NEW s \in Section
            PROVE  Parsed(s) \in [index : Nat, starts : BOOLEAN, found : BOOLEAN]
        BY <1>0, <4>1 DEF Parsed, Section
      <4> QED
        BY <1>0, <3>3, <4>1, SectionIs
    <3>5. \/ call' = NoCall
          \/ call' = [call EXCEPT !.at = "byte", !.got = got]
      BY <1>4, <2>2 DEF Take
    <3> HIDE DEF got
    <3>6. call' \in Calls /\ call'.at # "fillCurrent"
      BY <1>0, <3>2, <3>5, NoCallIs DEF Calls, Places
    <3> QED
      BY <1>4, <3>1, <3>4, <3>6 DEF Take, TypeInv
  <2> QED
    BY <2>1, <2>2
<1>5. CASE FillSection
  <2> DEFINE n == Length(SectionAt(Head(extraData)))
             section == SubSeq(extraData, 1, n - 1)
             kept == SubSeq(extraData, n + 1, Len(extraData) - Behind)
  <2>1. CASE Behind \in 0 .. Len(extraData) - n
    <3>1. n \in Nat \ {0}
      <4>1. SectionAt(Head(extraData)) \in Section
        BY <1>5, SectionIs DEF FillSection, Verify
      <4> QED
        BY <4>1, DatalogAssumption DEF DatalogAssumption, Length, Section
    <3>2. Filled
      BY <1>5, <2>1 DEF FillSection
    <3>3. \/ currentData' = section /\ nextData' = nextData /\ call.at = "fillCurrent"
          \/ nextData' = section /\ currentData' = currentData
      BY <1>5, <2>1 DEF FillSection
    <3>4. extraData' = kept
      BY <1>5, <2>1 DEF FillSection
    <3> HIDE DEF n
    <3>5. section \in Seq(Address) /\ kept \in Seq(Address)
      BY <2>1, <3>1 DEF TypeInv
    <3> HIDE DEF section, kept
    <3>6. readIndex' \in 0 .. Len(currentData')
      BY <1>0, <3>2, <3>3, <3>5, FilledIs DEF TypeInv
    <3> QED
      BY <1>5, <3>2, <3>3, <3>4, <3>5, <3>6, FilledIs DEF FillSection, TypeInv
  <2>2. CASE ~(Behind \in 0 .. Len(extraData) - n)
    BY <1>5, <2>2, NoCallIs DEF FillSection, ThrowOutOfRange, TypeInv
  <2> QED
    BY <2>1, <2>2
<1>6. CASE FillNothing
  <2>1. Filled
    BY <1>6 DEF FillNothing
  <2>2. readIndex' \in 0 .. Len(currentData)
    BY <1>0, <2>1, FilledIs DEF TypeInv
  <2>3. extraData' = <<>> /\ done' = TRUE
    BY <1>6 DEF FillNothing
  <2> QED
    BY <1>6, <2>1, <2>2, <2>3, FilledIs DEF FillNothing, TypeInv
<1>7. CASE Download
  <2>1. call' \in Calls /\ call'.at = call.at
    BY <1>0, <1>7 DEF Download, Calls
  <2>2. extraData' \in Seq(Address)
    <3>1. Bytes(download, ChunkSize) \in Seq(Address)
      BY Constants, BytesAreAddresses DEF TypeInv
    <3>2. extraData \o Bytes(download, ChunkSize) \in Seq(Address)
      BY <3>1 DEF TypeInv
    <3>3. extraData' \in {<<>>, extraData \o Bytes(download, ChunkSize)}
      BY <1>7 DEF Download
    <3> QED
      <4>1. <<>> \in Seq(Address)
        OBVIOUS
      <4> QED
        BY <3>2, <3>3, <4>1
  <2>3. download' \in 0 .. StorageSize
    <3>1. download + ChunkSize \in Nat
      BY Constants DEF TypeInv
    <3>2. NextBlockAddress(previous) \in Nat
      <4>1. previous \in Nat
        BY Constants DEF TypeInv
      <4> QED
        BY <4>1, NextBlockIsBehind
    <3> QED
      BY <1>7, <3>1, <3>2, NormalizedIsOnFlash DEF Download
  <2> QED
    BY <1>7, <2>1, <2>2, <2>3 DEF Download, TypeInv
<1>8. CASE DownloadFails
  BY <1>8, NoCallIs DEF DownloadFails, Throw, TypeInv
<1>9. CASE UNCHANGED vars
  BY <1>9 DEF vars, TypeInv
<1> QED
  BY <1>1, <1>2, <1>3, <1>4, <1>5, <1>6, <1>7, <1>8, <1>9 DEF Next

\* The addresses of a download stay on the flash, whatever damage the log has
\* and wherever it wraps, and m_readIndex stays inside the section.
THEOREM TypeCorrect == Spec => []TypeOK
<1>1. TypeInv => TypeOK
  BY DEF TypeInv, TypeOK
<1> QED
  BY <1>1, InitType, TypeKept, PTL DEF Spec

-----------------------------------------------------------------------------
(* Every sweep once and in order *)

Off(s) == Offset(log, s)
End(s) == EndOf(log, s)

\* The byte at an offset, and the address a piece from there is asked for with.
Place(n) == IF log.start + n < StorageSize THEN log.start + n ELSE log.start + n - StorageSize
Adr(n) == IF log.start + n <= StorageSize THEN log.start + n ELSE log.start + n - StorageSize

Offsets == 0 .. 2 * StorageSize

\* A section may begin at an offset, and all in its block before it are good.
Boundary(x) == x % BlockSize = 0 \/ \E s \in Inside(log) : End(s) = x
GoodUpTo(x) == \A s \in log.sections : BlockOf(Off(s)) = BlockOf(x) /\ Off(s) < x => s.good

\* What has been downloaded and not looked at is from offset x up to e.
Held(x, e) ==
  /\ Len(extraData) = e - x
  /\ \A i \in 1 .. e - x : extraData[i] = Place(x + i - 1)

\* The search has gone on at a block, and nothing of it has been fetched.
Jumped(x, d) == x = d /\ d % BlockSize = 0 /\ d < log.size + BlockSize

\* The last piece, which began at p, holds something of the block of x, or the
\* block before is full.
Near(x, p) ==
  \/ BlockOf(p) = BlockOf(x)
  \/ BlockOf(p) + BlockSize = BlockOf(x) /\ \E s \in Inside(log) : End(s) = BlockOf(x)

Fetched(x, d) ==
  /\ ChunkSize <= d /\ previous = Adr(d - ChunkSize)
  /\ d - ChunkSize < log.size /\ x <= log.size /\ Near(x, d - ChunkSize)

\* d: up to where has been downloaded.  What is behind the log has been cut off, or
\* is about to be.
View(x, e, d) ==
  /\ x <= e /\ e <= d /\ download = Adr(d)
  /\ Held(x, e) /\ Boundary(x) /\ GoodUpTo(x)
  /\ e # d => e = log.size /\ BytesLeft = 0 /\ (Filling => ~call.fetched)
  /\ x < e => x < StorageSize
  /\ x < e /\ log.size < e => StorageSize <= d \/ (x < log.size /\ Filling /\ call.fetched)
  /\ Jumped(x, d) \/ Fetched(x, d)

\* data holds an intact section without its checksum.
Sec(data) == SectionAt(Head(data))
IsData(data) ==
  /\ data # <<>> /\ SectionsAt(Head(data)) # {} /\ Sec(data) \in Intact
  /\ data = Bytes(Head(data), Length(Sec(data)) - 1)

\* No intact section begins at an offset from a up to b.
NoneIn(a, b) == \A s \in Intact : ~(a <= Off(s) /\ Off(s) < b)

UpTo(data, x) == End(Sec(data)) <= x /\ NoneIn(End(Sec(data)), x)

Chain(x) ==
  IF currentData = <<>> THEN nextData = <<>> /\ NoneIn(0, x)
  ELSE /\ IsData(currentData)
       /\ IF nextData = <<>> THEN UpTo(currentData, x)
          ELSE IsData(nextData) /\ UpTo(currentData, Off(Sec(nextData))) /\ UpTo(nextData, x)

DataInv ==
  IF done
  THEN /\ nextData = <<>> /\ extraData = <<>> /\ BytesLeft = 0
       /\ IsData(currentData) /\ NoneIn(End(Sec(currentData)), StorageSize)
  ELSE \E x, e, d \in Offsets : View(x, e, d) /\ Chain(x)

\* The first byte is not taken before two sections have been found.
StartInv ==
  /\ started => currentData # <<>>
  /\ ~started => readIndex = 0
  /\ ~started /\ currentData # <<>> => \A s \in Intact : Off(Sec(currentData)) <= Off(s)

\* What is in the buffers at a place.
Fills == {"fillCurrent", "fillFirst", "fillAgain", "fillNext"}

InHeader == call.got = SubSeq(currentData, 1, readIndex) /\ readIndex <= HeaderSize
InSweeps == call.got = <<>> /\ HeaderSize < readIndex /\ readIndex < Len(currentData)

PhaseInv ==
  /\ call.at # "outOfRange"
  /\ partial => ~done /\ nextData = <<>> /\ readIndex = 0
  /\ currentData = <<>> => ~done /\ ~started /\ readIndex = 0 /\ call.got = <<>>
  /\ currentData # <<>> /\ ~partial /\ nextData = <<>> => done
  /\ call.at \in Fills => partial /\ call.header /\ call.got = <<>>
  /\ call.at \in {"fillFirst", "fillAgain", "fillNext"} => currentData # <<>>
  /\ call.at = "fillCurrent" => currentData = <<>>
  /\ call.at \in {"swap", "take"} => ~partial /\ currentData # <<>>
  /\ call.at = "idle" /\ ~partial /\ currentData # <<>> => HeaderSize < readIndex
  /\ call.at = "byte" => BytesRemaining # 0 /\ (partial => call.header /\ call.got = <<>>)
  /\ call.at \in {"byte", "swap", "take"} /\ ~call.header => InSweeps
  /\ call.at \in {"byte", "swap", "take"} /\ call.header /\ ~partial /\ currentData # <<>> =>
       \/ InHeader /\ (call.at = "byte" => call.got # <<>>)
       \/ /\ call.got = <<>> /\ readIndex = Len(currentData) /\ call.at # "take"
          /\ call.at = "swap" => nextData # <<>>
  /\ outOfMemory => call.at = "idle" /\ BytesRemaining = 0

\* How far the sections have been handed out.
Frontier == IF currentData = <<>> THEN 0 ELSE Off(Sec(currentData)) + readIndex

HistoryInv ==
  /\ returned \in Seq(Sweeps)
  /\ \A i, j \in DOMAIN returned : i < j => Earlier(returned[i], returned[j])
  /\ Range(returned) = {w \in Sweeps : Into(log, w.at) < Frontier}

\* The section whose header was parsed last.
Parsing(s) ==
  /\ Off(s) + HeaderSize <= Frontier
  /\ \A t \in Intact : Off(t) + HeaderSize <= Frontier => Off(t) <= Off(s)

SessionInv ==
  /\ session.found <=> \E s \in Intact : Off(s) + HeaderSize <= Frontier
  /\ \A s \in Intact : Parsing(s) => session.index = s.session
  /\ call.got # <<>> /\ readIndex = HeaderSize => (session.starts <=> StartsSession(Sec(currentData)))
  /\ call.at \in {"byte", "swap", "take"} /\ ~call.header => ~session.starts

-----------------------------------------------------------------------------
(* Remainders and blocks *)

LEMMA Smallest ==
  ASSUME NEW S \in SUBSET Nat, S # {}
  PROVE  \E m \in S : \A n \in S : m <= n
<1> DEFINE R == {ss \in Nat \X Nat : ss[1] < ss[2]}
<1>1. IsWellFoundedOn(R, Nat)
  BY NatLessThanWellFounded DEF OpToRel
<1>2. \A n, m \in Nat : (<<n, m>> \in R) <=> n < m
  OBVIOUS
<1> HIDE DEF R
<1>3. PICK m \in S : \A n \in S : ~(<<n, m>> \in R)
  BY <1>1, WFMin
<1>4. \A n \in S : m <= n
  <2> TAKE n \in S
  <2>1. n \in Nat /\ m \in Nat /\ ~(n < m)
    BY <1>2, <1>3
  <2> QED
    BY <2>1
<1> QED
  BY <1>4

LEMMA Grows ==
  ASSUME NEW a \in Int, NEW c \in Int, NEW b \in Nat, a <= c
  PROVE  a * b \in Int /\ c * b \in Int /\ a * b <= c * b
<1>1. (c - a) * b >= 0
  OBVIOUS
<1>2. (c - a) * b = c * b - a * b
  OBVIOUS
<1> QED
  BY <1>1, <1>2

LEMMA DivMod ==
  ASSUME NEW n \in Nat, NEW b \in Nat \ {0}
  PROVE  n \div b \in Nat /\ n % b \in 0 .. b - 1 /\ n = (n \div b) * b + (n % b)
OBVIOUS

\* Quotient and remainder are the only ones.
LEMMA RemainderIs ==
  ASSUME NEW b \in Nat \ {0}, NEW n \in Nat, NEW q \in Nat, NEW r \in 0 .. b - 1, n = q * b + r
  PROVE  n % b = r
<1> DEFINE p == n \div b
           t == n % b
<1>1. p \in Nat /\ t \in 0 .. b - 1 /\ n = p * b + t
  BY DivMod
<1> HIDE DEF p, t
<1>2. ASSUME NEW x \in Nat, NEW y \in Nat, NEW u \in 0 .. b - 1, NEW v \in 0 .. b - 1,
             x * b + u = y * b + v
      PROVE  ~(x < y)
  <2> SUFFICES ASSUME x < y PROVE FALSE
    OBVIOUS
  <2>1. (x + 1) * b <= y * b
    BY Grows
  <2>2. (x + 1) * b = x * b + b /\ x * b \in Int /\ y * b \in Int
    OBVIOUS
  <2> QED
    BY <1>2, <2>1, <2>2
<1>3. ~(p < q)
  BY <1>1, <1>2
<1>4. ~(q < p)
  BY <1>1, <1>2
<1>5. p = q
  BY <1>1, <1>3, <1>4
<1>6. t = r
  BY <1>1, <1>5
<1> QED
  BY <1>6 DEF t

LEMMA SmallRemainder ==
  ASSUME NEW b \in Nat \ {0}, NEW n \in Nat
  PROVE  /\ n < b => n % b = n
         /\ b <= n /\ n < b + b => n % b = n - b
<1>1. n < b => n % b = n
  <2>1. n < b => n = 0 * b + n /\ n \in 0 .. b - 1
    OBVIOUS
  <2> QED
    BY <2>1, RemainderIs
<1>2. b <= n /\ n < b + b => n % b = n - b
  <2>1. b <= n /\ n < b + b => n = 1 * b + (n - b) /\ n - b \in 0 .. b - 1
    OBVIOUS
  <2> QED
    BY <2>1, RemainderIs
<1> QED
  BY <1>1, <1>2

\* A number of whole blocks.
Whole(n) == n \in Nat /\ n % BlockSize = 0

LEMMA WholeIs ==
  ASSUME NEW n, Whole(n)
  PROVE  \E q \in Nat : n = q * BlockSize
<1>1. n = (n \div BlockSize) * BlockSize + (n % BlockSize) /\ n \div BlockSize \in Nat
  BY Constants, DivMod DEF Whole
<1>2. (n \div BlockSize) * BlockSize \in Int
  BY <1>1, Constants
<1> QED
  BY <1>1, <1>2 DEF Whole

LEMMA TimesIsWhole ==
  ASSUME NEW q \in Nat
  PROVE  Whole(q * BlockSize)
<1>1. q * BlockSize \in Nat
  BY Constants
<1>2. q * BlockSize = q * BlockSize + 0 /\ 0 \in 0 .. BlockSize - 1
  BY <1>1, Constants
<1>3. (q * BlockSize) % BlockSize = 0
  BY <1>1, <1>2, Constants, RemainderIs
<1> QED
  BY <1>1, <1>3 DEF Whole

LEMMA WholeSum ==
  ASSUME NEW m, NEW n, Whole(m), Whole(n)
  PROVE  /\ Whole(m + n) /\ Whole(m + BlockSize)
         /\ n <= m => Whole(m - n)
<1>1. PICK p \in Nat : m = p * BlockSize
  BY WholeIs
<1>2. PICK q \in Nat : n = q * BlockSize
  BY WholeIs
<1>3. m + n = (p + q) * BlockSize /\ m + BlockSize = (p + 1) * BlockSize
  BY <1>1, <1>2, Constants
<1>4. Whole(m + n) /\ Whole(m + BlockSize)
  BY <1>3, TimesIsWhole
<1>5. ASSUME n <= m PROVE Whole(m - n)
  <2>1. m - n = (p - q) * BlockSize
    BY <1>1, <1>2, Constants
  <2>2. p - q \in Nat
    <3>1. CASE q <= p
      BY <3>1
    <3>2. CASE p < q
      <4>1. (p + 1) * BlockSize <= q * BlockSize
        BY <3>2, Grows, Constants
      <4>2. (p + 1) * BlockSize = p * BlockSize + BlockSize
        BY Constants
      <4> QED
        BY <1>1, <1>2, <1>5, <4>1, <4>2, Constants DEF Whole
    <3> QED
      BY <3>1, <3>2
  <2> QED
    BY <2>1, <2>2, TimesIsWhole
<1> QED
  BY <1>4, <1>5

\* Blocks are BlockSize apart.
LEMMA WholesApart ==
  ASSUME NEW m, NEW n, Whole(m), Whole(n), m < n
  PROVE  m + BlockSize <= n
<1>1. PICK p \in Nat : m = p * BlockSize
  BY WholeIs
<1>2. PICK q \in Nat : n = q * BlockSize
  BY WholeIs
<1>3. CASE p < q
  <2>1. (p + 1) * BlockSize <= q * BlockSize
    BY <1>3, Grows, Constants
  <2>2. (p + 1) * BlockSize = p * BlockSize + BlockSize
    BY Constants
  <2> QED
    BY <1>1, <1>2, <2>1, <2>2
<1>4. CASE q <= p
  <2>1. q * BlockSize <= p * BlockSize
    BY <1>4, Grows, Constants
  <2> QED
    BY <1>1, <1>2, <2>1 DEF Whole
<1> QED
  BY <1>3, <1>4

LEMMA BlockIs ==
  ASSUME NEW n \in Nat
  PROVE  /\ Whole(BlockOf(n)) /\ BlockOf(n) \in Nat
         /\ BlockOf(n) <= n /\ n < BlockOf(n) + BlockSize
<1> DEFINE r == n % BlockSize
           q == n \div BlockSize
<1>1. q \in Nat /\ r \in 0 .. BlockSize - 1 /\ n = q * BlockSize + r
  BY Constants, DivMod
<1>2. BlockOf(n) = n - r
  BY DEF BlockOf
<1> HIDE DEF r, q
<1>3. q * BlockSize \in Nat
  BY <1>1, Constants
<1>4. BlockOf(n) = q * BlockSize
  BY <1>1, <1>2, <1>3, Constants
<1> QED
  BY <1>1, <1>3, <1>4, TimesIsWhole, Constants

LEMMA BlockUnique ==
  ASSUME NEW n \in Nat, NEW m, Whole(m), m <= n, n < m + BlockSize
  PROVE  BlockOf(n) = m
<1>1. /\ Whole(BlockOf(n)) /\ BlockOf(n) \in Nat
      /\ BlockOf(n) <= n /\ n < BlockOf(n) + BlockSize
  BY BlockIs
<1>2. m \in Nat
  BY DEF Whole
<1>3. ~(m < BlockOf(n))
  <2> SUFFICES ASSUME m < BlockOf(n) PROVE FALSE
    OBVIOUS
  <2>1. m + BlockSize <= BlockOf(n)
    BY <1>1, WholesApart
  <2> QED
    BY <1>1, <1>2, <2>1, Constants
<1>4. ~(BlockOf(n) < m)
  <2> SUFFICES ASSUME BlockOf(n) < m PROVE FALSE
    OBVIOUS
  <2>1. BlockOf(n) + BlockSize <= m
    BY <1>1, WholesApart
  <2> QED
    BY <1>1, <1>2, <2>1, Constants
<1> QED
  BY <1>1, <1>2, <1>3, <1>4

\* A whole number of blocks is where a block begins.
LEMMA WholeIsBlock ==
  ASSUME NEW n, Whole(n)
  PROVE  BlockOf(n) = n
<1>1. n \in Nat /\ n < n + BlockSize
  BY Constants DEF Whole
<1> QED
  BY <1>1, BlockUnique

\* A piece is not longer than a block.
LEMMA Pieces ==
  /\ ChunkSize \in Nat /\ 2 <= ChunkSize /\ ChunkSize <= BlockSize /\ HeaderSize \in Nat /\ 2 <= HeaderSize
  /\ Whole(StorageSize) /\ BlockSize <= StorageSize
<1>1. /\ ChunkSize \in 2 .. BlockSize /\ HeaderSize \in Nat \ {0} /\ HeaderSize > 1
      /\ StorageSize % BlockSize = 0
  BY DatalogAssumption DEF DatalogAssumption
<1>2. Whole(StorageSize)
  BY <1>1, Constants DEF Whole
<1>3. Whole(0)
  <2>1. 0 = 0 * BlockSize
    BY Constants
  <2> QED
    BY <2>1, TimesIsWhole
<1>4. 0 + BlockSize <= StorageSize
  BY <1>2, <1>3, WholesApart, Constants
<1> QED
  BY <1>1, <1>2, <1>4, Constants

-----------------------------------------------------------------------------
(* The log *)

GoodLog == TypeInv /\ Clear(log)

LEMMA LogIs ==
  ASSUME TypeInv
  PROVE  /\ log.start \in Nat /\ log.start < StorageSize
         /\ log.size \in Nat /\ 1 <= log.size /\ log.size <= StorageSize
         /\ log.sections \subseteq Section
<1>1. log.start \in Address /\ log.size \in 1 .. StorageSize /\ log.sections \subseteq Section
  BY DatalogAssumption DEF DatalogAssumption, TypeInv
<1> QED
  BY <1>1, Constants DEF Address

LEMMA PlaceIs ==
  ASSUME TypeInv, NEW n \in Nat, n < StorageSize
  PROVE  Place(n) \in Address /\ Into(log, Place(n)) = n
  BY LogIs, Constants DEF Place, Into, Address

LEMMA IntoIs ==
  ASSUME TypeInv, NEW a \in Address
  PROVE  Into(log, a) \in Nat /\ Into(log, a) < StorageSize /\ Place(Into(log, a)) = a
  BY LogIs, Constants DEF Place, Into, Address

LEMMA SectionHas ==
  ASSUME TypeInv, WellFormed(log), NEW s \in log.sections
  PROVE  /\ s.at \in Address /\ s.sweeps \in Nat /\ s.session \in Nat /\ 1 <= s.sweeps
         /\ Length(s) \in Nat /\ Length(s) = HeaderSize + s.sweeps + 1
         /\ Off(s) \in Nat /\ Off(s) < StorageSize /\ Place(Off(s)) = s.at
         /\ End(s) \in Nat /\ End(s) = Off(s) + Length(s) /\ Off(s) < End(s)
         /\ End(s) <= BlockOf(Off(s)) + BlockSize
         /\ s.kind \in {"block", "refresh", "session"}
<1>1. s \in Section
  BY LogIs
<1>2. s.at \in Address /\ s.sweeps \in Nat /\ s.session \in Nat /\ s.kind \in {"block", "refresh", "session"}
  BY <1>1 DEF Section
<1>3. s.sweeps > 0 /\ End(s) <= BlockOf(Off(s)) + BlockSize
  BY DEF WellFormed, End, Off
<1>4. Off(s) \in Nat /\ Off(s) < StorageSize /\ Place(Off(s)) = s.at
  BY <1>2, IntoIs DEF Off, Offset
<1>5. Length(s) \in Nat /\ Length(s) = HeaderSize + s.sweeps + 1 /\ 0 < Length(s)
  BY <1>2, Pieces DEF Length
<1>6. End(s) = Off(s) + Length(s)
  BY DEF End, Off, EndOf
<1>7. End(s) \in Nat /\ Off(s) < End(s)
  BY <1>4, <1>5, <1>6
<1>8. 1 <= s.sweeps
  BY <1>2, <1>3
<1> QED
  BY <1>2, <1>3, <1>4, <1>5, <1>6, <1>7, <1>8

\* Sections do not overlap.
LEMMA SectionsApart ==
  ASSUME TypeInv, WellFormed(log), NEW s \in log.sections, NEW t \in log.sections
  PROVE  /\ Off(s) < Off(t) => End(s) <= Off(t)
         /\ Off(s) = Off(t) => s = t
         /\ Off(s) <= Off(t) /\ Off(t) < End(s) => s = t
<1>1. s = t \/ End(s) <= Off(t) \/ End(t) <= Off(s)
  BY DEF WellFormed, End, Off
<1>2. Off(s) \in Nat /\ End(s) \in Nat /\ Off(s) < End(s)
  BY SectionHas
<1>3. Off(t) \in Nat /\ End(t) \in Nat /\ Off(t) < End(t)
  BY SectionHas
<1> QED
  BY <1>1, <1>2, <1>3

LEMMA SectionAtIs ==
  ASSUME TypeInv, WellFormed(log), NEW s \in log.sections
  PROVE  SectionsAt(s.at) # {} /\ SectionAt(s.at) = s
<1>1. s \in SectionsAt(s.at)
  BY DEF SectionsAt
<1>2. SectionAt(s.at) \in SectionsAt(s.at)
  BY <1>1 DEF SectionAt
<1>3. SectionAt(s.at) \in log.sections /\ Off(SectionAt(s.at)) = Off(s)
  BY <1>2 DEF SectionsAt, Off, Offset
<1> QED
  BY <1>1, <1>3, SectionsApart

\* The section at an offset, if there is one.
LEMMA SectionAtPlace ==
  ASSUME TypeInv, WellFormed(log), NEW x \in Nat, x < StorageSize
  PROVE  /\ SectionsAt(Place(x)) # {} =>
              SectionAt(Place(x)) \in log.sections /\ Off(SectionAt(Place(x))) = x
         /\ \A s \in log.sections : Off(s) = x => SectionsAt(Place(x)) # {} /\ SectionAt(Place(x)) = s
<1>1. ASSUME SectionsAt(Place(x)) # {}
      PROVE  SectionAt(Place(x)) \in log.sections /\ Off(SectionAt(Place(x))) = x
  <2>1. SectionAt(Place(x)) \in SectionsAt(Place(x))
    BY <1>1 DEF SectionAt
  <2>2. SectionAt(Place(x)) \in log.sections /\ SectionAt(Place(x)).at = Place(x)
    BY <2>1 DEF SectionsAt
  <2> QED
    BY <2>2, PlaceIs DEF Off, Offset
<1>2. ASSUME NEW s \in log.sections, Off(s) = x
      PROVE  SectionsAt(Place(x)) # {} /\ SectionAt(Place(x)) = s
  <2>1. s.at = Place(x)
    BY <1>2, SectionHas
  <2> QED
    BY <2>1, SectionAtIs
<1> QED
  BY <1>1, <1>2

\* A section begins at the start of its block or where another one ends.
LEMMA HasOneBefore ==
  ASSUME TypeInv, WellFormed(log), NEW s \in log.sections, Off(s) # BlockOf(Off(s))
  PROVE  s.kind # "block" /\ \E t \in log.sections :
           /\ End(t) = Off(s) /\ BlockOf(Off(t)) = BlockOf(Off(s)) /\ Off(t) < Off(s)
           /\ s.kind = "refresh" => t.session = s.session
<1>1. Off(s) \in Nat /\ Whole(BlockOf(Off(s))) /\ BlockOf(Off(s)) < Off(s) /\ BlockOf(Off(s)) \in Nat
  <2>1. Off(s) \in Nat
    BY SectionHas
  <2> QED
    BY <2>1, BlockIs
<1>2. s.kind # "block"
  <2> SUFFICES ASSUME s.kind = "block" PROVE FALSE
    OBVIOUS
  <2>1. Off(s) % BlockSize = 0
    BY DEF WellFormed, Off
  <2>2. Whole(Off(s))
    BY <1>1, <2>1 DEF Whole
  <2> QED
    BY <2>2, WholeIsBlock
<1>3. PICK t \in log.sections : End(t) = Off(s) /\ (s.kind = "refresh" => t.session = s.session)
  BY <1>2 DEF WellFormed, End, Off
<1>4. Off(t) \in Nat /\ Off(t) < Off(s) /\ Off(s) <= BlockOf(Off(t)) + BlockSize /\ BlockOf(Off(t)) \in Nat
      /\ Whole(BlockOf(Off(t))) /\ BlockOf(Off(t)) <= Off(t)
  <2>1. Off(t) \in Nat /\ Off(t) < End(t) /\ End(t) <= BlockOf(Off(t)) + BlockSize
    BY SectionHas
  <2> QED
    BY <1>3, <2>1, BlockIs
<1>5. BlockOf(Off(s)) = BlockOf(Off(t))
  <2>1. CASE Off(s) < BlockOf(Off(t)) + BlockSize
    <3>1. BlockOf(Off(t)) <= Off(s)
      BY <1>1, <1>4
    <3> QED
      BY <1>1, <1>4, <2>1, <3>1, BlockUnique
  <2>2. CASE Off(s) = BlockOf(Off(t)) + BlockSize
    <3>1. Whole(Off(s))
      BY <1>4, <2>2, WholeSum
    <3> QED
      BY <3>1, WholeIsBlock
  <2> QED
    BY <1>1, <1>4, <2>1, <2>2, Constants
<1> QED
  BY <1>2, <1>3, <1>4, <1>5

\* Where no section begins, although one might, there are none in the rest of the block.
LEMMA NothingBehind ==
  ASSUME TypeInv, WellFormed(log), NEW x \in Nat, Boundary(x), \A s \in log.sections : Off(s) # x
  PROVE  \A s \in log.sections : ~(x <= Off(s) /\ Off(s) < BlockOf(x) + BlockSize)
<1> SUFFICES ASSUME NEW r \in log.sections, x <= Off(r), Off(r) < BlockOf(x) + BlockSize
             PROVE  FALSE
  OBVIOUS
<1> DEFINE S == {n \in Nat : x <= n /\ n < BlockOf(x) + BlockSize /\ \E s \in log.sections : Off(s) = n}
<1>1. Whole(BlockOf(x)) /\ BlockOf(x) \in Nat /\ BlockOf(x) <= x /\ x < BlockOf(x) + BlockSize
  BY BlockIs
<1>2. S \in SUBSET Nat /\ Off(r) \in S
  BY SectionHas
<1>3. PICK m \in S : \A n \in S : m <= n
  BY <1>2, Smallest
<1>4. PICK s \in log.sections : Off(s) = m /\ x <= m /\ m < BlockOf(x) + BlockSize /\ m \in Nat
  BY <1>3
<1>5. x < m
  BY <1>4
<1>6. BlockOf(m) = BlockOf(x)
  BY <1>1, <1>4, BlockUnique
<1>7. Off(s) # BlockOf(Off(s))
  BY <1>1, <1>4, <1>5, <1>6
<1>8. PICK t \in log.sections : End(t) = m /\ BlockOf(Off(t)) = BlockOf(x) /\ Off(t) < m
  BY <1>4, <1>6, <1>7, HasOneBefore
<1>9. Off(t) \in Nat /\ BlockOf(x) <= Off(t)
  <2>1. Off(t) \in Nat
    BY SectionHas
  <2> QED
    BY <1>8, <2>1, BlockIs
<1>10. Off(t) < x
  <2>1. Off(t) \in S \/ Off(t) < x
    BY <1>1, <1>4, <1>8, <1>9, Constants
  <2> QED
    BY <1>3, <1>4, <1>8, <1>9, <2>1
<1>11. PICK u \in log.sections : End(u) = x
  <2>1. x % BlockSize # 0
    <3> SUFFICES ASSUME Whole(x) PROVE FALSE
      BY DEF Whole
    <3> QED
      BY <1>9, <1>10, WholeIsBlock
  <2> QED
    BY <2>1 DEF Boundary, Inside
<1>12. Off(u) \in Nat /\ Off(u) < x /\ End(t) \in Nat
  BY <1>11, SectionHas
<1>13. Off(t) <= Off(u)
  <2>1. ~(Off(u) < Off(t))
    <3>1. Off(u) < Off(t) => u # t
      BY <1>9
    <3> SUFFICES ASSUME Off(u) < Off(t) PROVE FALSE
      OBVIOUS
    <3>2. End(u) <= Off(t)
      BY SectionsApart
    <3> QED
      BY <1>9, <1>10, <1>11, <3>2
  <2> QED
    BY <1>9, <1>12, <2>1
<1>14. u = t
  BY <1>5, <1>8, <1>12, <1>13, <1>4, SectionsApart
<1> QED
  BY <1>5, <1>8, <1>11, <1>14, <1>4

\* The flash may hold older sections, in the blocks behind those of the log.
LEMMA InsideIs ==
  ASSUME TypeInv, WellFormed(log), NEW s \in log.sections
  PROVE  /\ s \in Inside(log) <=> End(s) <= log.size
         /\ Off(s) < log.size => s \in Inside(log)
<1>1. End(s) <= log.size \/ log.size <= BlockOf(Off(s))
  BY DEF WellFormed, End, Off
<1>2. Off(s) \in Nat /\ BlockOf(Off(s)) \in Nat /\ BlockOf(Off(s)) <= Off(s)
  <2>1. Off(s) \in Nat
    BY SectionHas
  <2> QED
    BY <2>1, BlockIs
<1>3. s \in Inside(log) <=> End(s) <= log.size
  BY DEF Inside, End
<1> QED
  BY <1>1, <1>2, <1>3, LogIs

LEMMA IntactIs ==
  ASSUME TypeInv, WellFormed(log), NEW s \in Intact
  PROVE  /\ s \in log.sections /\ s \in Inside(log) /\ End(s) <= log.size /\ s.good
         /\ \A t \in log.sections : BlockOf(Off(t)) = BlockOf(Off(s)) /\ Off(t) <= Off(s) => t.good
<1>1. s \in Inside(log)
  BY DEF Intact, IntactIn
<1>2. s \in log.sections
  BY <1>1 DEF Inside
<1>3. \A t \in log.sections : BlockOf(Off(t)) = BlockOf(Off(s)) /\ Off(t) <= Off(s) => t.good
  BY DEF Intact, IntactIn, Off
<1>4. Off(s) \in Nat /\ End(s) <= log.size
  BY <1>1, <1>2, SectionHas, InsideIs
<1> QED
  BY <1>1, <1>2, <1>3, <1>4

LEMMA GoodIsIntact ==
  ASSUME TypeInv, WellFormed(log), NEW s \in Inside(log), GoodUpTo(Off(s)), s.good
  PROVE  s \in Intact
<1>1. s \in log.sections
  BY DEF Inside
<1>2. Off(s) \in Nat
  BY <1>1, SectionHas
<1>3. ASSUME NEW t \in log.sections, BlockOf(Off(t)) = BlockOf(Off(s)), Off(t) <= Off(s)
      PROVE  t.good
  <2>1. Off(t) \in Nat
    BY SectionHas
  <2>2. CASE Off(t) < Off(s)
    BY <1>3, <2>2 DEF GoodUpTo
  <2>3. CASE Off(t) = Off(s)
    BY <1>1, <2>3, SectionsApart
  <2> QED
    BY <1>2, <1>3, <2>1, <2>2, <2>3
<1> QED
  BY <1>3 DEF Intact, IntactIn, Off

\* What is behind a damaged section of its block is not intact.
LEMMA DamagedHides ==
  ASSUME TypeInv, WellFormed(log), NEW s \in log.sections, ~s.good
  PROVE  NoneIn(Off(s), BlockOf(Off(s)) + BlockSize)
<1> SUFFICES ASSUME NEW t \in Intact, Off(s) <= Off(t), Off(t) < BlockOf(Off(s)) + BlockSize
             PROVE  FALSE
  BY DEF NoneIn
<1>1. t \in log.sections
  BY IntactIs
<1>2. Off(s) \in Nat /\ Off(t) \in Nat
  BY <1>1, SectionHas
<1>3. Whole(BlockOf(Off(s))) /\ BlockOf(Off(s)) <= Off(s) /\ BlockOf(Off(s)) \in Nat
  BY <1>2, BlockIs
<1>4. BlockOf(Off(s)) <= Off(t)
  BY <1>2, <1>3
<1>5. BlockOf(Off(t)) = BlockOf(Off(s))
  BY <1>2, <1>3, <1>4, BlockUnique
<1> QED
  BY <1>5, IntactIs

\* Behind an intact section the next one may begin.
LEMMA AfterIntact ==
  ASSUME TypeInv, WellFormed(log), NEW s \in Intact
  PROVE  Boundary(End(s)) /\ GoodUpTo(End(s))
<1>1. s \in log.sections /\ s \in Inside(log)
  BY IntactIs
<1>2. /\ Off(s) \in Nat /\ End(s) \in Nat /\ Off(s) < End(s) /\ End(s) <= BlockOf(Off(s)) + BlockSize
      /\ Whole(BlockOf(Off(s))) /\ BlockOf(Off(s)) \in Nat /\ BlockOf(Off(s)) <= Off(s)
  <2>1. Off(s) \in Nat /\ End(s) \in Nat /\ Off(s) < End(s) /\ End(s) <= BlockOf(Off(s)) + BlockSize
    BY <1>1, SectionHas
  <2> QED
    BY <2>1, BlockIs
<1>3. ASSUME NEW t \in log.sections, BlockOf(Off(t)) = BlockOf(End(s)), Off(t) < End(s)
      PROVE  t.good
  <2>1. Off(t) \in Nat /\ BlockOf(Off(t)) <= Off(t)
    <3>1. Off(t) \in Nat
      BY SectionHas
    <3> QED
      BY <3>1, BlockIs
  <2>2. Off(t) <= Off(s)
    BY <1>1, <1>2, <1>3, <2>1, SectionsApart
  <2>3. CASE End(s) < BlockOf(Off(s)) + BlockSize
    <3>1. BlockOf(Off(s)) <= End(s)
      BY <1>2
    <3>2. BlockOf(End(s)) = BlockOf(Off(s))
      BY <1>2, <2>3, <3>1, BlockUnique
    <3> QED
      BY <1>3, <2>2, <3>2, IntactIs
  <2>4. CASE End(s) = BlockOf(Off(s)) + BlockSize
    <3>1. BlockOf(End(s)) = End(s)
      BY <1>2, <2>4, WholeSum, WholeIsBlock
    <3> QED
      BY <1>2, <1>3, <2>1, <3>1
  <2> QED
    BY <1>2, <2>3, <2>4, Constants
<1>4. GoodUpTo(End(s))
  BY <1>3 DEF GoodUpTo
<1>5. Boundary(End(s))
  BY <1>1 DEF Boundary
<1> QED
  BY <1>4, <1>5

\* Where a block begins.
LEMMA BlockBegins ==
  ASSUME NEW x, Whole(x), TypeInv, WellFormed(log)
  PROVE  Boundary(x) /\ GoodUpTo(x)
<1>1. Boundary(x)
  BY DEF Boundary, Whole
<1>2. ASSUME NEW t \in log.sections, BlockOf(Off(t)) = BlockOf(x), Off(t) < x
      PROVE  FALSE
  <2>1. Off(t) \in Nat /\ BlockOf(Off(t)) <= Off(t)
    <3>1. Off(t) \in Nat
      BY SectionHas
    <3> QED
      BY <3>1, BlockIs
  <2>2. BlockOf(x) = x
    BY WholeIsBlock
  <2> QED
    BY <1>2, <2>1, <2>2 DEF Whole
<1> QED
  BY <1>1, <1>2 DEF GoodUpTo

-----------------------------------------------------------------------------
(* Addresses and what is left *)

LEMMA StartIs ==
  ASSUME TypeInv, WellFormed(log)
  PROVE  Whole(log.start) /\ log.start \in Nat /\ log.start + BlockSize <= StorageSize
<1>1. log.start \in Nat /\ log.start < StorageSize /\ log.start % BlockSize = 0
  BY LogIs DEF WellFormed
<1>2. Whole(log.start)
  BY <1>1 DEF Whole
<1> QED
  BY <1>1, <1>2, Pieces, WholesApart

LEMMA Wrapped ==
  ASSUME NEW n \in Nat, n < StorageSize + StorageSize
  PROVE  n % StorageSize = IF n < StorageSize THEN n ELSE n - StorageSize
<1>1. StorageSize \in Nat \ {0}
  BY Constants
<1>2. CASE n < StorageSize
  <2>1. n % StorageSize = n
    BY <1>1, <1>2, SmallRemainder
  <2> QED
    BY <1>2, <2>1, Zenon
<1>3. CASE ~(n < StorageSize)
  <2>1. StorageSize <= n
    BY <1>1, <1>3
  <2>2. n % StorageSize = n - StorageSize
    BY <1>1, <2>1, SmallRemainder
  <2> QED
    BY <1>3, <2>2, Zenon
<1> QED
  BY <1>2, <1>3

LEMMA BytesAre ==
  ASSUME TypeInv, WellFormed(log), NEW x \in Nat, NEW n \in Nat,
         log.start + x + n <= StorageSize + StorageSize, NEW a \in {Adr(x), Place(x)},
         NEW i \in 1 .. n
  PROVE  Bytes(a, n)[i] = Place(x + i - 1)
<1> DEFINE y == log.start + x + i - 1
<1>1. log.start \in Nat /\ StorageSize \in Nat /\ 0 < StorageSize
  BY LogIs, Constants
<1>2. /\ a \in Nat /\ (a + i - 1 = y \/ (a + i - 1 = y - StorageSize /\ StorageSize <= y))
      /\ y \in Nat /\ y < StorageSize + StorageSize
  BY <1>1 DEF Adr, Place
<1>3. a + i - 1 \in Nat /\ a + i - 1 < StorageSize + StorageSize
  BY <1>1, <1>2
<1>4. PICK m \in Nat : m = a + i - 1
  BY <1>3
<1>5. m % StorageSize = IF m < StorageSize THEN m ELSE m - StorageSize
  BY <1>3, <1>4, Wrapped
<1>6. Place(x + i - 1) = IF y < StorageSize THEN y ELSE y - StorageSize
  BY <1>1 DEF Place
<1>7. Bytes(a, n)[i] = m % StorageSize
  BY <1>4, Zenon DEF Bytes
<1> HIDE DEF y
<1> QED
  BY <1>1, <1>2, <1>4, <1>5, <1>6, <1>7

\* How much is left when everything up to d has been downloaded: nothing once d is
\* behind the log; but round the flash the count begins anew.
LEMMA LeftIs ==
  ASSUME TypeInv, WellFormed(log), EndIsClear(log), NEW d \in Nat, download = Adr(d),
         d <= StorageSize \/ d < log.size + ChunkSize,
         d = 0 => ~started
  PROVE  /\ d < log.size => BytesLeft = log.size - d
         /\ log.size <= d /\ d < StorageSize => BytesLeft = 0
         /\ d = StorageSize /\ started => BytesLeft = 0
         /\ d = StorageSize /\ log.start = 0 => BytesLeft = 0
         /\ d = StorageSize /\ ~started /\ log.start # 0 => BytesLeft = log.size
         /\ StorageSize < d => BytesLeft # 0 /\ BytesLeft \in Nat
<1>1. /\ log.start \in Nat /\ log.start + BlockSize <= StorageSize
      /\ log.size \in Nat /\ 1 <= log.size /\ log.size <= StorageSize
      /\ StorageSize \in Nat /\ BlockSize \in Nat /\ ChunkSize \in Nat /\ 2 <= ChunkSize /\ ChunkSize <= BlockSize
  BY StartIs, LogIs, Constants, Pieces
<1>2. ~(StorageSize - ChunkSize + 1 <= log.start + log.size /\ log.start + log.size <= StorageSize)
  BY <1>1 DEF EndIsClear
<1>3. log.start = 0 \/ BlockSize <= log.start
  <2>1. Whole(log.start)
    BY StartIs
  <2>2. Whole(0)
    <3>1. 0 = 0 * BlockSize
      BY <1>1
    <3> QED
      BY <3>1, TimesIsWhole
  <2>3. CASE 0 < log.start
    <3>1. 0 + BlockSize <= log.start
      BY <2>1, <2>2, <2>3, WholesApart
    <3> QED
      BY <1>1, <3>1
  <2> QED
    BY <1>1, <2>3
<1>4. CASE d < StorageSize
  <2>1. download # log.start \/ ~started
    BY <1>1, <1>4 DEF Adr
  <2>2. (IF download >= log.start THEN download - log.start ELSE StorageSize - log.start + download) = d
    BY <1>1, <1>4 DEF Adr
  <2>3. BytesLeft = AtLeastZero(log.size - d)
    BY <2>1, <2>2 DEF BytesLeft
  <2> QED
    BY <1>1, <1>4, <2>3 DEF AtLeastZero
<1>5. CASE d = StorageSize
  <2>1. CASE log.start = 0
    <3>1. download = StorageSize /\ download # log.start
      BY <1>1, <1>5, <2>1 DEF Adr
    <3>2. BytesLeft = AtLeastZero(log.size - StorageSize)
      BY <1>1, <2>1, <3>1 DEF BytesLeft
    <3> QED
      BY <1>1, <1>5, <2>1, <3>2 DEF AtLeastZero
  <2>2. CASE log.start # 0
    <3>1. download = log.start
      BY <1>1, <1>5, <2>2 DEF Adr
    <3>2. started => BytesLeft = 0
      BY <3>1 DEF BytesLeft
    <3>3. ~started => BytesLeft = AtLeastZero(log.size)
      BY <1>1, <3>1 DEF BytesLeft
    <3> QED
      BY <1>1, <1>5, <2>2, <3>2, <3>3 DEF AtLeastZero
  <2> QED
    BY <2>1, <2>2
<1>6. CASE StorageSize < d
  <2>1. d < log.size + ChunkSize
    BY <1>1, <1>6
  <2>2. log.start # 0
    BY <1>1, <1>2, <1>6, <2>1
  <2>3. BlockSize <= log.start
    BY <1>3, <2>2
  <2>4. download = log.start + (d - StorageSize) /\ download > log.start
    BY <1>1, <1>6, <2>2 DEF Adr
  <2>5. BytesLeft = AtLeastZero(log.size - (d - StorageSize))
    BY <1>1, <1>6, <2>4 DEF BytesLeft
  <2>6. log.size - (d - StorageSize) \in Nat /\ log.size - (d - StorageSize) > 0
    BY <1>1, <1>6, <2>1, <2>3
  <2> QED
    BY <1>1, <1>6, <2>1, <2>5, <2>6 DEF AtLeastZero
<1> QED
  BY <1>1, <1>4, <1>5, <1>6

-----------------------------------------------------------------------------
(* What verifyBlock finds *)

LEMMA ClearIs ==
  ASSUME Clear(log)
  PROVE  /\ WellFormed(log) /\ EndIsClear(log) /\ HasData(log)
         /\ LastIsLong(log) /\ NotBrimFull(log) /\ NoShortBehindFull(log)
BY DEF Clear

LEMMA NumbersOfView ==
  ASSUME TypeInv, Clear(log), NEW x \in Offsets, NEW e \in Offsets, NEW d \in Offsets, View(x, e, d)
  PROVE  /\ x \in Nat /\ e \in Nat /\ d \in Nat /\ x <= e /\ e <= d
         /\ d <= StorageSize \/ d < log.size + ChunkSize
         /\ x < e => x < StorageSize
         /\ x < e => d < log.size + ChunkSize /\ x <= log.size
<1>1. x \in Nat /\ e \in Nat /\ d \in Nat /\ x <= e /\ e <= d
  BY Constants DEF Offsets, View
<1>2. x < e => x < StorageSize
  BY <1>1, Zenon DEF View
<1>3. CASE Jumped(x, d)
  <2>1. Whole(d) /\ Whole(StorageSize) /\ d < log.size + BlockSize /\ x = d
    <3>1. d % BlockSize = 0 /\ x = d /\ d < log.size + BlockSize
      BY <1>3 DEF Jumped
    <3> QED
      BY <1>1, <3>1, Pieces DEF Whole
  <2>2. d < StorageSize + BlockSize /\ StorageSize \in Nat
    BY <1>1, <2>1, LogIs, Constants
  <2>3. ~(StorageSize < d)
    <3>1. StorageSize < d => StorageSize + BlockSize <= d
      BY <2>1, WholesApart
    <3> QED
      BY <1>1, <2>1, <2>2, <3>1, LogIs, Constants
  <2> QED
    BY <1>1, <1>2, <2>1, <2>2, <2>3
<1>4. CASE Fetched(x, d)
  <2>1. d - ChunkSize < log.size /\ x <= log.size /\ ChunkSize \in Nat /\ log.size \in Nat
    BY <1>4, Pieces, LogIs DEF Fetched
  <2> QED
    BY <1>1, <1>2, <2>1
<1> QED
  BY <1>3, <1>4 DEF View

\* The first byte of what has been downloaded.
LEMMA HeadIs ==
  ASSUME TypeInv, Clear(log), NEW x \in Offsets, NEW e \in Offsets, NEW d \in Offsets, View(x, e, d)
  PROVE  /\ x = e => extraData = <<>>
         /\ x < e => extraData # <<>> /\ Head(extraData) = Place(x) /\ Place(x) \in Address
         /\ Len(extraData) = e - x
<1>1. x \in Nat /\ e \in Nat /\ x <= e /\ (x < e => x < StorageSize)
  BY NumbersOfView
<1>2. Len(extraData) = e - x /\ \A i \in 1 .. e - x : extraData[i] = Place(x + i - 1)
  BY DEF View, Held
<1>3. extraData \in Seq(Address)
  BY DEF TypeInv
<1>4. CASE x = e
  <2>1. Len(extraData) = 0
    BY <1>1, <1>2, <1>4
  <2> QED
    BY <1>1, <1>2, <1>3, <1>4, <2>1
<1>5. CASE x < e
  <2>1. 1 \in 1 .. e - x /\ x + 1 - 1 = x
    BY <1>1, <1>5
  <2>2. extraData[1] = Place(x)
    BY <1>2, <2>1
  <2>3. Len(extraData) > 0
    BY <1>1, <1>2, <1>5
  <2>4. extraData # <<>> /\ Head(extraData) = extraData[1]
    BY <1>3, <2>3
  <2>5. Place(x) \in Address
    BY <1>1, <1>5, PlaceIs
  <2> QED
    BY <1>1, <1>2, <1>5, <2>2, <2>4, <2>5
<1> QED
  BY <1>1, <1>4, <1>5

\* A section where the library looks is one of the log.
LEMMA SectionInside ==
  ASSUME TypeInv, Clear(log), NEW x \in Offsets, NEW e \in Offsets, NEW d \in Offsets, View(x, e, d),
         x < e, NEW s \in log.sections, Off(s) = x
  PROVE  s \in Inside(log)
<1>1. /\ x \in Nat /\ e \in Nat /\ d \in Nat /\ e <= d /\ x < StorageSize
      /\ d < log.size + ChunkSize /\ x <= log.size
  BY NumbersOfView
<1>2. WellFormed(log)
  BY ClearIs
<1>3. CASE x < log.size
  BY <1>2, <1>3, InsideIs
<1>4. CASE x = log.size
  <2> SUFFICES ASSUME s \notin Inside(log) PROVE FALSE
    OBVIOUS
  <2>1. log.size < e
    BY <1>4
  <2>2. StorageSize <= d
    <3>1. x < log.size \/ StorageSize <= d
      BY <2>1, Zenon DEF View
    <3> QED
      BY <1>1, <1>4, <3>1
  <2>3. log.size <= BlockOf(x)
    <3>1. EndOf(log, s) <= log.size \/ log.size <= BlockOf(Offset(log, s))
      BY <1>2 DEF WellFormed
    <3>2. s \in Inside(log) <=> End(s) <= log.size
      BY <1>2, InsideIs
    <3> QED
      BY <3>1, <3>2 DEF End, Off
  <2>4. BlockOf(x) <= x /\ BlockOf(x) \in Nat /\ Whole(BlockOf(x))
    BY <1>1, BlockIs
  <2>5. Whole(x)
    <3>1. BlockOf(x) = x
      BY <1>1, <1>4, <2>3, <2>4
    <3> QED
      BY <2>4, <3>1
  <2>6. x + BlockSize <= StorageSize
    BY <1>1, <2>5, Pieces, WholesApart
  <2> QED
    BY <1>1, <1>4, <2>2, <2>6, Pieces, Constants
<1> QED
  BY <1>1, <1>3, <1>4, LogIs

\* What is held of a section is the bytes of it.
LEMMA BytesHeld ==
  ASSUME TypeInv, Clear(log), NEW x \in Offsets, NEW e \in Offsets, NEW d \in Offsets, View(x, e, d),
         NEW s \in log.sections, Off(s) = x, NEW n \in Nat, n <= Length(s), n <= e - x
  PROVE  SubSeq(extraData, 1, n) = Bytes(s.at, n)
<1>1. WellFormed(log)
  BY ClearIs
<1>2. /\ s.at = Place(x) /\ s.at \in Address /\ x \in Nat /\ End(s) = x + Length(s)
      /\ Length(s) \in Nat /\ End(s) <= BlockOf(x) + BlockSize /\ x < StorageSize
  BY <1>1, SectionHas
<1>3. BlockOf(x) + BlockSize <= StorageSize /\ BlockOf(x) \in Nat
  <2>1. Whole(BlockOf(x)) /\ BlockOf(x) \in Nat /\ BlockOf(x) <= x
    BY <1>2, BlockIs
  <2>2. BlockOf(x) < StorageSize
    BY <1>2, <2>1, Constants
  <2> QED
    BY <2>1, <2>2, Pieces, WholesApart
<1>4. log.start + x + n <= StorageSize + StorageSize
  <2>1. x + n <= StorageSize
    BY <1>2, <1>3, Constants
  <2> QED
    BY <1>2, <2>1, LogIs, Constants
<1>5. \A i \in 1 .. n : Bytes(s.at, n)[i] = Place(x + i - 1)
  BY <1>1, <1>2, <1>4, BytesAre
<1>6. Len(extraData) = e - x /\ \A i \in 1 .. e - x : extraData[i] = Place(x + i - 1)
  BY DEF View, Held
<1>7. extraData \in Seq(Address) /\ e \in Nat /\ x \in Nat /\ x <= e
  BY NumbersOfView DEF TypeInv
<1>8. Bytes(s.at, n) \in Seq(Address) /\ Len(Bytes(s.at, n)) = n
  <2>1. s.at \in Nat
    BY <1>2, Constants DEF Address
  <2>2. Bytes(s.at, n) \in Seq(Address)
    BY <2>1, BytesAreAddresses
  <2>3. DOMAIN Bytes(s.at, n) = 1 .. n
    BY DEF Bytes
  <2> QED
    BY <2>2, <2>3
<1>9. \A i \in 1 .. n : extraData[i] = Bytes(s.at, n)[i]
  BY <1>5, <1>6, <1>7
<1> QED
  BY <1>6, <1>7, <1>8, <1>9

LEMMA VerifyIs ==
  ASSUME TypeInv, Clear(log), NEW x \in Offsets, NEW e \in Offsets, NEW d \in Offsets, View(x, e, d)
  PROVE  /\ x = e => Verify(extraData) = "more"
         /\ x < e /\ (\A s \in log.sections : Off(s) # x) => Verify(extraData) = "junk"
         /\ \A s \in log.sections : x < e /\ Off(s) = x =>
              Verify(extraData) = IF e = x + 1 /\ s.kind = "block" THEN "junk"
                                  ELSE IF e < End(s) THEN "more"
                                  ELSE IF s.good THEN "verified" ELSE "junk"
<1>1. WellFormed(log)
  BY ClearIs
<1>2. x \in Nat /\ e \in Nat /\ x <= e
  BY NumbersOfView
<1>3. CASE x = e
  BY <1>2, <1>3, HeadIs DEF Verify
<1>4. ASSUME x < e, \A s \in log.sections : Off(s) # x
      PROVE  Verify(extraData) = "junk"
  <2>1. x < StorageSize
    BY <1>4, NumbersOfView
  <2>2. SectionsAt(Place(x)) = {}
    BY <1>1, <1>2, <1>4, <2>1, SectionAtPlace
  <2> QED
    BY <1>4, <2>2, HeadIs DEF Verify
<1>5. ASSUME NEW s \in log.sections, x < e, Off(s) = x
      PROVE  Verify(extraData) = IF e = x + 1 /\ s.kind = "block" THEN "junk"
                                 ELSE IF e < End(s) THEN "more"
                                 ELSE IF s.good THEN "verified" ELSE "junk"
  <2>1. /\ End(s) = x + Length(s) /\ Length(s) \in Nat /\ s.at \in Address /\ s.at = Place(x)
    BY <1>1, <1>5, SectionHas
  <2>2. SectionsAt(Place(x)) # {} /\ SectionAt(Place(x)) = s
    BY <1>1, <2>1, SectionAtIs
  <2>3. extraData # <<>> /\ Head(extraData) = Place(x) /\ Len(extraData) = e - x
    BY <1>5, HeadIs
  <2>4. /\ Len(extraData) < 2 <=> e = x + 1
        /\ Len(extraData) < Length(s) <=> e < End(s)
    BY <1>2, <1>5, <2>1, <2>3
  <2>5. ~(e < End(s)) => IsPrefix(Bytes(s.at, Length(s)), extraData)
    <3> SUFFICES ASSUME ~(e < End(s)) PROVE IsPrefix(Bytes(s.at, Length(s)), extraData)
      OBVIOUS
    <3>1. Length(s) <= e - x /\ Length(s) <= Len(extraData)
      BY <1>2, <2>1, <2>3
    <3>2. SubSeq(extraData, 1, Length(s)) = Bytes(s.at, Length(s))
      BY <1>5, <2>1, <3>1, BytesHeld
    <3>3. s.at \in Nat
      BY <2>1, Constants DEF Address
    <3>4. Bytes(s.at, Length(s)) \in Seq(Address) /\ DOMAIN Bytes(s.at, Length(s)) = 1 .. Length(s)
      BY <2>1, <3>3, BytesAreAddresses DEF Bytes
    <3>5. Len(Bytes(s.at, Length(s))) = Length(s)
      BY <2>1, <3>4
    <3>6. SubSeq(Bytes(s.at, Length(s)), 1, Length(s)) = Bytes(s.at, Length(s))
      <4> DEFINE b == Bytes(s.at, Length(s))
                 n == Length(s)
      <4>1. b \in Seq(Address) /\ Len(b) = n /\ n \in Nat
        BY <2>1, <3>4, <3>5
      <4> HIDE DEF b, n
      <4>2. SubSeq(b, 1, n) = b
        BY <4>1
      <4> QED
        BY <4>2 DEF b, n
    <3> QED
      BY <3>1, <3>2, <3>5, <3>6 DEF IsPrefix
  <2>6. Verify(extraData) =
          IF Len(extraData) < 2 /\ s.kind = "block" THEN "junk"
          ELSE IF Len(extraData) < Length(s) THEN "more"
          ELSE IF s.good /\ IsPrefix(Bytes(s.at, Length(s)), extraData) THEN "verified" ELSE "junk"
    BY <2>2, <2>3, Zenon DEF Verify
  <2> QED
    BY <2>4, <2>5, <2>6, Zenon
<1> QED
  BY <1>2, <1>3, <1>4, <1>5

\* A section that has been found is an intact one.
LEMMA FoundIs ==
  ASSUME TypeInv, Clear(log), NEW x \in Offsets, NEW e \in Offsets, NEW d \in Offsets, View(x, e, d),
         Verify(extraData) = "verified"
  PROVE  \E s \in Intact : /\ Off(s) = x /\ End(s) <= e /\ extraData # <<>>
                           /\ Head(extraData) = s.at /\ SectionsAt(s.at) # {} /\ SectionAt(s.at) = s
                           /\ SubSeq(extraData, 1, Length(s) - 1) = Bytes(s.at, Length(s) - 1)
<1>1. WellFormed(log)
  BY ClearIs
<1>2. x \in Nat /\ e \in Nat /\ x <= e
  BY NumbersOfView
<1>3. x < e
  BY <1>2, VerifyIs
<1>4. PICK s \in log.sections : Off(s) = x
  BY <1>3, VerifyIs
<1>5. ~(e < End(s)) /\ s.good
  BY <1>3, <1>4, VerifyIs
<1>6. s \in Intact
  <2>1. s \in Inside(log)
    BY <1>3, <1>4, SectionInside
  <2>2. GoodUpTo(Off(s))
    BY <1>4, Zenon DEF View
  <2> QED
    BY <1>1, <1>5, <2>1, <2>2, GoodIsIntact
<1>7. /\ End(s) = x + Length(s) /\ Length(s) \in Nat /\ 1 <= Length(s) /\ s.at = Place(x) /\ End(s) \in Nat
  BY <1>1, <1>4, SectionHas, Pieces
<1>8. SectionsAt(s.at) # {} /\ SectionAt(s.at) = s
  BY <1>1, SectionAtIs
<1>9. SubSeq(extraData, 1, Length(s) - 1) = Bytes(s.at, Length(s) - 1)
  <2>1. Length(s) - 1 \in Nat /\ Length(s) - 1 <= Length(s) /\ Length(s) - 1 <= e - x
    BY <1>2, <1>5, <1>7
  <2> QED
    BY <1>4, <2>1, BytesHeld
<1>10. extraData # <<>> /\ Head(extraData) = s.at /\ End(s) <= e
  BY <1>2, <1>3, <1>5, <1>7, HeadIs
<1> QED
  BY <1>4, <1>6, <1>8, <1>9, <1>10, Zenon

\* More has to be downloaded when there is nothing, or only part of a section.
LEMMA MoreIs ==
  ASSUME TypeInv, Clear(log), NEW x \in Offsets, NEW e \in Offsets, NEW d \in Offsets, View(x, e, d),
         Verify(extraData) = "more", x # e
  PROVE  \E s \in Inside(log) : Off(s) = x /\ e < End(s)
<1>1. x \in Nat /\ e \in Nat /\ x <= e
  BY NumbersOfView
<1>2. x < e
  BY <1>1
<1>3. PICK s \in log.sections : Off(s) = x
  BY <1>2, VerifyIs
<1>4. e < End(s)
  BY <1>2, <1>3, VerifyIs
<1> QED
  BY <1>2, <1>3, <1>4, SectionInside

\* There is junk where no section begins, where one is damaged, or where no more
\* than the first byte of a block has been downloaded.
LEMMA JunkIs ==
  ASSUME TypeInv, Clear(log), NEW x \in Offsets, NEW e \in Offsets, NEW d \in Offsets, View(x, e, d),
         Verify(extraData) = "junk"
  PROVE  /\ x < e
         /\ \/ \A s \in log.sections : Off(s) # x
            \/ \E s \in Inside(log) : /\ Off(s) = x
                                      /\ \/ End(s) <= e /\ ~s.good
                                         \/ e = x + 1 /\ s.kind = "block"
<1>1. x \in Nat /\ e \in Nat /\ x <= e
  BY NumbersOfView
<1>2. x < e
  BY <1>1, VerifyIs
<1>3. ASSUME NEW s \in log.sections, Off(s) = x
      PROVE  /\ s \in Inside(log)
             /\ \/ End(s) <= e /\ ~s.good
                \/ e = x + 1 /\ s.kind = "block"
  <2>1. s \in Inside(log)
    BY <1>2, <1>3, SectionInside
  <2>2. (e = x + 1 /\ s.kind = "block") \/ (~(e < End(s)) /\ ~s.good)
    BY <1>2, <1>3, VerifyIs
  <2>3. End(s) \in Nat
    BY ClearIs, SectionHas
  <2> QED
    BY <1>1, <2>1, <2>2, <2>3
<1> QED
  BY <1>2, <1>3

-----------------------------------------------------------------------------
(* What is left when a buffer is being filled *)

\* A buffer is being filled, what has been fetched is from x up to e, and everything
\* up to d has been downloaded.
Filler(x, e, d) ==
  /\ TypeInv /\ Clear(log) /\ StartInv /\ PhaseInv
  /\ Filling /\ View(x, e, d) /\ Chain(x)

LEMMA FillerIs ==
  ASSUME NEW x \in Offsets, NEW e \in Offsets, NEW d \in Offsets, Filler(x, e, d)
  PROVE  /\ TypeInv /\ Clear(log) /\ View(x, e, d) /\ Chain(x) /\ WellFormed(log)
         /\ partial /\ ~done /\ nextData = <<>> /\ readIndex = 0
         /\ call.at \in Fills /\ call.header /\ call.got = <<>>
         /\ call.at = "fillCurrent" <=> currentData = <<>>
<1>1. TypeInv /\ Clear(log) /\ View(x, e, d) /\ Chain(x) /\ WellFormed(log) /\ PhaseInv /\ call.at \in Fills
  BY ClearIs DEF Filler, Filling, Fills
<1>2. partial /\ call.header /\ call.got = <<>>
  BY <1>1, Zenon DEF PhaseInv
<1>3. ~done /\ nextData = <<>> /\ readIndex = 0
  BY <1>1, <1>2, Zenon DEF PhaseInv
<1>4. call.at = "fillCurrent" <=> currentData = <<>>
  BY <1>1 DEF PhaseInv, Fills
<1> QED
  BY <1>1, <1>2, <1>3, <1>4

\* A log that goes round the flash has an intact section that has not been found
\* before the first byte is taken.
LEMMA NotAllYet ==
  ASSUME NEW x \in Offsets, NEW e \in Offsets, NEW d \in Offsets, Filler(x, e, d),
         ~started, log.size > StorageSize - BlockSize
  PROVE  \E s \in Intact : x <= Off(s)
<1>1. /\ TypeInv /\ Clear(log) /\ Chain(x) /\ WellFormed(log) /\ nextData = <<>>
      /\ x \in Nat
  BY FillerIs, Constants DEF Offsets
<1>2. PICK s \in Intact, t \in Intact : s # t
  BY <1>1, ClearIs DEF HasData, Intact
<1>3. /\ s \in log.sections /\ t \in log.sections
      /\ Off(s) \in Nat /\ Off(t) \in Nat
  BY <1>1, IntactIs, SectionHas
<1>4. CASE currentData = <<>>
  <2>1. NoneIn(0, x)
    BY <1>1, <1>4 DEF Chain
  <2>2. ~(0 <= Off(s) /\ Off(s) < x)
    BY <2>1 DEF NoneIn
  <2> QED
    BY <1>1, <1>3, <2>2
<1>5. CASE currentData # <<>>
  <2> DEFINE c == Sec(currentData)
  <2>1. c \in Intact /\ NoneIn(End(c), x)
    BY <1>1, <1>5 DEF Chain, IsData, UpTo
  <2>2. Off(c) <= Off(s) /\ Off(c) <= Off(t)
    BY <1>2, <1>5 DEF Filler, StartInv
  <2> HIDE DEF c
  <2>3. c \in log.sections /\ Off(c) \in Nat /\ End(c) \in Nat
    BY <1>1, <2>1, IntactIs, SectionHas
  <2>4. PICK u \in Intact : u # c /\ Off(c) <= Off(u)
    BY <1>2, <2>2
  <2>5. u \in log.sections /\ Off(u) \in Nat
    BY <1>1, IntactIs, SectionHas
  <2>6. End(c) <= Off(u)
    BY <1>1, <2>3, <2>4, <2>5, SectionsApart
  <2>7. ~(End(c) <= Off(u) /\ Off(u) < x)
    BY <2>1 DEF NoneIn
  <2> QED
    BY <1>1, <2>5, <2>6, <2>7
<1> QED
  BY <1>4, <1>5

LEMMA NotYetStarted ==
  ASSUME NEW x \in Offsets, NEW e \in Offsets, NEW d \in Offsets,
         TypeInv, Clear(log), StartInv, View(x, e, d), Chain(x), d = 0
  PROVE  ~started
<1>1. WellFormed(log) /\ x = 0
  BY ClearIs, NumbersOfView
<1>2. CASE currentData = <<>>
  BY <1>2 DEF StartInv
<1>3. CASE currentData # <<>>
  <2>1. PICK c \in Intact : End(c) <= x
    <3>1. IsData(currentData)
      BY <1>3 DEF Chain
    <3>2. CASE nextData = <<>>
      BY <1>3, <3>1, <3>2 DEF Chain, IsData, UpTo
    <3>3. CASE nextData # <<>>
      BY <1>3, <3>3 DEF Chain, IsData, UpTo
    <3> QED
      BY <3>2, <3>3
  <2>2. Off(c) \in Nat /\ End(c) \in Nat /\ Off(c) < End(c)
    BY <1>1, IntactIs, SectionHas
  <2> QED
    BY <1>1, <2>1, <2>2
<1> QED
  BY <1>2, <1>3

\* Nothing is left once the whole log has been downloaded; only when the last piece
\* ends at the end of the flash or behind it is the count not to be relied on.
LEMMA LeftInView ==
  ASSUME NEW x \in Offsets, NEW e \in Offsets, NEW d \in Offsets,
         TypeInv, Clear(log), StartInv, View(x, e, d), Chain(x)
  PROVE  /\ d < log.size => BytesLeft = log.size - d /\ BytesLeft # 0
         /\ log.size <= d /\ d < StorageSize => BytesLeft = 0
         /\ d = StorageSize /\ (started \/ log.start = 0) => BytesLeft = 0
         /\ StorageSize < d => BytesLeft # 0
<1>1. /\ d \in Nat /\ (d <= StorageSize \/ d < log.size + ChunkSize) /\ log.size \in Nat
  BY NumbersOfView, LogIs
<1>2. WellFormed(log) /\ EndIsClear(log)
  BY ClearIs
<1>3. d = 0 => ~started
  BY NotYetStarted
<1>4. download = Adr(d)
  BY Zenon DEF View
<1>5. /\ d < log.size => BytesLeft = log.size - d
      /\ log.size <= d /\ d < StorageSize => BytesLeft = 0
      /\ d = StorageSize /\ started => BytesLeft = 0
      /\ d = StorageSize /\ log.start = 0 => BytesLeft = 0
      /\ StorageSize < d => BytesLeft # 0
  BY <1>1, <1>2, <1>3, <1>4, LeftIs
<1> QED
  BY <1>1, <1>5

-----------------------------------------------------------------------------
(* A section is found *)

\* What is cut off is what lies behind the log.
LEMMA BehindIs ==
  ASSUME NEW x \in Offsets, NEW e \in Offsets, NEW d \in Offsets, Filler(x, e, d), x < e
  PROVE  /\ Behind = 0 => \/ e <= log.size \/ StorageSize <= d
         /\ Behind # 0 => Behind = d - log.size /\ e = d /\ log.size < d /\ BytesLeft = 0
<1>1. /\ x \in Nat /\ e \in Nat /\ d \in Nat /\ x <= e /\ e <= d
      /\ d < log.size + ChunkSize /\ x <= log.size
      /\ TypeInv /\ Clear(log) /\ StartInv /\ View(x, e, d) /\ Chain(x) /\ WellFormed(log)
  BY FillerIs, NumbersOfView DEF Filler
<1>2. /\ log.start \in Nat /\ log.start + BlockSize <= StorageSize
      /\ log.size \in Nat /\ 1 <= log.size /\ log.size <= StorageSize
      /\ StorageSize \in Nat /\ BlockSize \in Nat /\ ChunkSize \in Nat /\ 2 <= ChunkSize /\ ChunkSize <= BlockSize
  BY <1>1, StartIs, LogIs, Constants, Pieces
<1>3. Filling /\ download = Adr(d) /\ ~(StorageSize - ChunkSize + 1 <= log.start + log.size /\ log.start + log.size <= StorageSize)
  <2>1. Filling /\ download = Adr(d)
    BY Zenon DEF Filler, View
  <2>2. EndIsClear(log)
    BY <1>1, ClearIs
  <2> QED
    BY <1>2, <2>1, <2>2 DEF EndIsClear
<1>4. CASE call.fetched /\ BytesLeft = 0
  <2>1. Behind = download - LastAddress
    BY <1>4 DEF Behind
  <2>2. log.size <= d
    BY <1>1, <1>2, <1>4, LeftInView
  <2>3. download - LastAddress = d - log.size
    BY <1>1, <1>2, <1>3, <2>2 DEF Adr, LastAddress
  <2>4. e = d
    BY <1>1, <1>3, <1>4, Zenon DEF View
  <2> QED
    BY <1>1, <1>2, <1>4, <2>1, <2>2, <2>3, <2>4
<1>5. CASE ~(call.fetched /\ BytesLeft = 0)
  <2>1. Behind = 0
    BY <1>5 DEF Behind
  <2>2. log.size < e => StorageSize <= d
    <3> SUFFICES ASSUME log.size < e, ~(StorageSize <= d) PROVE FALSE
      OBVIOUS
    <3>1. StorageSize <= d \/ (x < log.size /\ Filling /\ call.fetched)
      BY <1>1, <3>1, Zenon DEF View
    <3>2. d < StorageSize /\ log.size <= d
      BY <1>1, <1>2
    <3>3. BytesLeft = 0
      BY <1>1, <3>2, LeftInView
    <3> QED
      BY <1>5, <3>1, <3>3
  <2> QED
    BY <1>1, <1>2, <2>1, <2>2
<1> QED
  BY <1>4, <1>5

\* The library looks behind the section, in the same block or at the next.
LEMMA NearStays ==
  ASSUME NEW x \in Offsets, NEW e \in Offsets, NEW d \in Offsets, Filler(x, e, d),
         NEW s \in Inside(log), Off(s) = x, End(s) <= e
  PROVE  Fetched(End(s), d)
<1>1. /\ x \in Nat /\ e \in Nat /\ d \in Nat /\ x <= e /\ e <= d
      /\ TypeInv /\ Clear(log) /\ View(x, e, d) /\ WellFormed(log)
  BY FillerIs, NumbersOfView
<1>2. s \in log.sections
  BY DEF Inside
<1>3. /\ End(s) \in Nat /\ x < End(s) /\ End(s) <= BlockOf(x) + BlockSize /\ End(s) <= log.size
  BY <1>1, <1>2, SectionHas, InsideIs
<1>4. /\ BlockOf(x) \in Nat /\ BlockOf(x) <= x /\ Whole(BlockOf(x))
  BY <1>1, BlockIs
<1>5. Fetched(x, d)
  <2>1. x # d
    BY <1>1, <1>3
  <2> QED
    BY <1>1, <2>1, Zenon DEF View, Jumped
<1> DEFINE p == d - ChunkSize
<1>6. /\ ChunkSize <= d /\ previous = Adr(p) /\ p < log.size /\ Near(x, p) /\ p \in Nat
      /\ ChunkSize \in Nat /\ ChunkSize <= BlockSize /\ BlockSize \in Nat
  BY <1>1, <1>5, Pieces, Constants DEF Fetched
<1>7. d = p + ChunkSize
  BY <1>1, <1>6
<1> HIDE DEF p
<1>8. /\ BlockOf(p) \in Nat /\ Whole(BlockOf(p)) /\ p < BlockOf(p) + BlockSize
  BY <1>6, BlockIs
<1>9. Near(End(s), p)
  <2>1. CASE End(s) < BlockOf(x) + BlockSize
    <3>1. BlockOf(End(s)) = BlockOf(x)
      BY <1>1, <1>3, <1>4, <2>1, BlockUnique
    <3> QED
      BY <1>6, <3>1 DEF Near
  <2>2. CASE End(s) = BlockOf(x) + BlockSize
    <3>1. BlockOf(End(s)) = End(s)
      BY <1>4, <2>2, WholeSum, WholeIsBlock
    <3>2. BlockOf(p) = BlockOf(x)
      <4>1. CASE BlockOf(p) + BlockSize = BlockOf(x)
        BY <1>1, <1>4, <1>6, <1>7, <1>8, <2>2, <4>1
      <4> QED
        BY <1>6, <4>1 DEF Near
    <3> QED
      BY <2>2, <3>1, <3>2 DEF Near
  <2> QED
    BY <1>3, <1>4, <1>6, <2>1, <2>2
<1> QED
  BY <1>3, <1>6, <1>9 DEF Fetched, p

\* Where the next section may begin and what has been fetched of it.
LEMMA ViewBehind ==
  ASSUME NEW x \in Offsets, NEW e \in Offsets, NEW d \in Offsets, Filler(x, e, d),
         NEW s \in Intact, Off(s) = x, End(s) <= e
  PROVE  /\ Behind \in 0 .. Len(extraData) - Length(s)
         /\ End(s) \in Offsets /\ e - Behind \in Offsets
         /\ End(s) <= e - Behind /\ e - Behind <= d
         /\ Boundary(End(s)) /\ GoodUpTo(End(s)) /\ Fetched(End(s), d)
         /\ End(s) < StorageSize
         /\ e - Behind # d => e - Behind = log.size /\ BytesLeft = 0
         /\ log.size < e - Behind => StorageSize <= d
<1>1. /\ x \in Nat /\ e \in Nat /\ d \in Nat /\ x <= e /\ e <= d
      /\ TypeInv /\ Clear(log) /\ View(x, e, d) /\ WellFormed(log)
      /\ Len(extraData) = e - x
  BY FillerIs, NumbersOfView, HeadIs
<1>2. s \in Inside(log) /\ s \in log.sections
  BY <1>1, IntactIs
<1>3. /\ End(s) \in Nat /\ x < End(s) /\ End(s) = x + Length(s) /\ Length(s) \in Nat /\ End(s) <= log.size
  BY <1>1, <1>2, SectionHas, InsideIs
<1>4. x < e
  BY <1>1, <1>3
<1>5. End(s) < StorageSize
  BY <1>1, <1>2, ClearIs DEF NotBrimFull, End
<1>6. /\ Behind = 0 => \/ e <= log.size \/ StorageSize <= d
      /\ Behind # 0 => Behind = d - log.size /\ e = d /\ log.size < d /\ BytesLeft = 0
  BY <1>4, BehindIs
<1>7. e # d => e = log.size /\ BytesLeft = 0
  BY <1>1, Zenon DEF View
<1>8. log.size \in Nat /\ StorageSize \in Nat
  BY <1>1, LogIs, Constants
<1>9. Behind \in Nat /\ Behind <= e - End(s)
  <2>1. CASE Behind = 0
    BY <1>1, <1>3, <2>1
  <2>2. CASE Behind # 0
    BY <1>1, <1>3, <1>6, <1>8, <2>2
  <2> QED
    BY <2>1, <2>2
<1>10. Boundary(End(s)) /\ GoodUpTo(End(s)) /\ Fetched(End(s), d)
  BY <1>1, <1>2, AfterIntact, NearStays
<1>11. End(s) \in Offsets /\ e - Behind \in Offsets
  BY <1>1, <1>3, <1>5, <1>8, <1>9 DEF Offsets
<1>12. e - Behind # d => e - Behind = log.size /\ BytesLeft = 0
  BY <1>1, <1>6, <1>7, <1>8, <1>9
<1>13. log.size < e - Behind => StorageSize <= d
  BY <1>1, <1>6, <1>8, <1>9
<1> QED
  BY <1>1, <1>3, <1>5, <1>9, <1>10, <1>11, <1>12, <1>13

-----------------------------------------------------------------------------
(* The log does not change *)

LEMMA SameLog ==
  ASSUME log' = log, NEW x, NEW y
  PROVE  /\ Place(x)' = Place(x) /\ Adr(x)' = Adr(x)
         /\ Off(x)' = Off(x) /\ End(x)' = End(x)
         /\ Intact' = Intact /\ Inside(log)' = Inside(log)
         /\ SectionsAt(x)' = SectionsAt(x) /\ SectionAt(x)' = SectionAt(x)
         /\ Bytes(x, y)' = Bytes(x, y)
BY DEF Place, Adr, Off, End, Intact, SectionsAt, SectionAt, Bytes

LEMMA SamePlaces ==
  ASSUME log' = log, NEW x, NEW y
  PROVE  /\ Boundary(x)' = Boundary(x) /\ GoodUpTo(x)' = GoodUpTo(x)
         /\ NoneIn(x, y)' = NoneIn(x, y) /\ Jumped(x, y)' = Jumped(x, y) /\ Near(x, y)' = Near(x, y)
<1>1. Boundary(x)' = Boundary(x)
  BY DEF Boundary, End
<1>2. GoodUpTo(x)' = GoodUpTo(x)
  BY DEF GoodUpTo, Off
<1>3. NoneIn(x, y)' = NoneIn(x, y)
  BY DEF NoneIn, Intact, Off
<1>4. Jumped(x, y)' = Jumped(x, y)
  BY DEF Jumped
<1>5. Near(x, y)' = Near(x, y)
  BY DEF Near, End
<1> QED
  BY <1>1, <1>2, <1>3, <1>4, <1>5

LEMMA SameData ==
  ASSUME log' = log, NEW v, NEW x
  PROVE  /\ Sec(v)' = Sec(v) /\ IsData(v)' = IsData(v) /\ UpTo(v, x)' = UpTo(v, x)
<1>1. Sec(v)' = Sec(v)
  BY DEF Sec, SectionAt, SectionsAt
<1>2. IsData(v)' = IsData(v)
  BY <1>1 DEF IsData, Intact, SectionsAt, Bytes
<1>3. UpTo(v, x)' = UpTo(v, x)
  BY <1>1 DEF UpTo, End, NoneIn, Intact, Off
<1> QED
  BY <1>1, <1>2, <1>3

LEMMA ViewNext ==
  ASSUME log' = log, NEW x, NEW e, NEW d,
         x <= e, e <= d, download' = Adr(d), Boundary(x), GoodUpTo(x),
         Len(extraData') = e - x, \A i \in 1 .. e - x : extraData'[i] = Place(x + i - 1),
         e # d => e = log.size /\ BytesLeft' = 0 /\ (Filling' => ~call'.fetched),
         x < e => x < StorageSize,
         x < e /\ log.size < e => StorageSize <= d \/ (x < log.size /\ Filling' /\ call'.fetched),
         \/ Jumped(x, d)
         \/ /\ ChunkSize <= d /\ previous' = Adr(d - ChunkSize)
            /\ d - ChunkSize < log.size /\ x <= log.size /\ Near(x, d - ChunkSize)
  PROVE  View(x, e, d)'
<1>1. download' = Adr(d)'
  BY SameLog
<1>2. Held(x, e)'
  BY SameLog DEF Held
<1>3. Boundary(x)' /\ GoodUpTo(x)'
  BY SamePlaces
<1>4. Jumped(x, d)' \/ Fetched(x, d)'
  <2>1. CASE Jumped(x, d)
    BY <2>1, SamePlaces
  <2>2. CASE ~Jumped(x, d)
    <3>1. Near(x, d - ChunkSize)' /\ previous' = Adr(d - ChunkSize)'
      BY <2>2, SameLog, SamePlaces
    <3> QED
      BY <2>2, <3>1 DEF Fetched
  <2> QED
    BY <2>1, <2>2
<1> QED
  BY <1>1, <1>2, <1>3, <1>4, Zenon DEF View

\* The sections that have been found, with the buffers as arguments.
ChainOf(c, n, x) ==
  IF c = <<>> THEN n = <<>> /\ NoneIn(0, x)
  ELSE /\ IsData(c)
       /\ IF n = <<>> THEN UpTo(c, x)
          ELSE IsData(n) /\ UpTo(c, Off(Sec(n))) /\ UpTo(n, x)

LEMMA ChainIs ==
  ASSUME NEW x
  PROVE  Chain(x) = ChainOf(currentData, nextData, x)
BY DEF Chain, ChainOf

LEMMA SecNext ==
  ASSUME log' = log
  PROVE  /\ Sec(currentData)' = Sec(currentData') /\ Sec(nextData)' = Sec(nextData')
         /\ IsData(currentData)' = IsData(currentData') /\ IsData(nextData)' = IsData(nextData')
<1>1. Sec(currentData)' = Sec(currentData') /\ Sec(nextData)' = Sec(nextData')
  BY DEF Sec, SectionAt, SectionsAt
<1> QED
  BY <1>1 DEF IsData, Intact, SectionsAt, Bytes

LEMMA ChainNext ==
  ASSUME log' = log, NEW x
  PROVE  Chain(x)' = ChainOf(currentData', nextData', x)
<1>1. UpTo(currentData, x)' = UpTo(currentData', x) /\ UpTo(nextData, x)' = UpTo(nextData', x)
  BY SecNext DEF UpTo, End, NoneIn, Intact, Off
<1>2. UpTo(currentData, Off(Sec(nextData)))' = UpTo(currentData', Off(Sec(nextData')))
  BY SecNext DEF UpTo, End, NoneIn, Intact, Off
<1>3. NoneIn(0, x)' = NoneIn(0, x)
  BY SamePlaces
<1> QED
  BY <1>1, <1>2, <1>3, SecNext DEF Chain, ChainOf

-----------------------------------------------------------------------------
(* fillBuffer keeps what the buffers hold *)

LEMMA GetFiller ==
  ASSUME TypeInv, Clear(log), StartInv, PhaseInv, DataInv, Filling
  PROVE  \E x, e, d \in Offsets : Filler(x, e, d)
<1>1. call.at \in Fills
  BY DEF Filling, Fills
<1>2. ~done
  BY <1>1, Zenon DEF PhaseInv
<1>3. PICK x \in Offsets, e \in Offsets, d \in Offsets : View(x, e, d) /\ Chain(x)
  BY <1>2, Zenon DEF DataInv
<1> QED
  BY <1>3, Zenon DEF Filler

LEMMA SameLeft ==
  ASSUME log' = log, download' = download, started' = started
  PROVE  BytesLeft' = BytesLeft
BY DEF BytesLeft

LEMMA FilledGoesOn ==
  ASSUME TypeInv, Filled
  PROVE  Filling' => ~call'.fetched
<1>1. call \in Calls
  BY DEF TypeInv
<1>2. CASE call.at = "fillCurrent" /\ nextData = <<>>
  <2>1. call' = [call EXCEPT !.at = "fillFirst", !.fetched = FALSE]
    BY <1>2 DEF Filled, Fill
  <2> QED
    BY <1>1, <2>1 DEF Calls
<1>3. CASE ~(call.at = "fillCurrent" /\ nextData = <<>>)
  <2>1. \E to \in {"take", "swap"} : call' = [call EXCEPT !.at = to]
    BY <1>3 DEF Filled, Goto
  <2>2. call'.at \in {"take", "swap"}
    BY <1>1, <2>1 DEF Calls
  <2> QED
    BY <2>2 DEF Filling
<1> QED
  BY <1>2, <1>3

LEMMA PartOf ==
  ASSUME NEW T, NEW q \in Seq(T), NEW k \in Nat, NEW h \in Nat, k <= h, h <= Len(q)
  PROVE  /\ Len(SubSeq(q, k + 1, h)) = h - k
         /\ \A i \in 1 .. h - k : SubSeq(q, k + 1, h)[i] = q[k + i]
<1>1. k + 1 \in Nat /\ k + 1 >= 1
  OBVIOUS
<1>2. CASE k = h
  <2>1. SubSeq(q, k + 1, h) = <<>>
    BY <1>2
  <2> QED
    BY <1>2, <2>1
<1>3. CASE k < h
  <2>1. Len(SubSeq(q, k + 1, h)) = h - (k + 1) + 1
    BY <1>3
  <2>2. \A i \in 1 .. h - k : SubSeq(q, k + 1, h)[i] = q[(k + 1) + i - 1]
    BY <1>3
  <2>3. \A i \in 1 .. h - k : (k + 1) + i - 1 = k + i
    OBVIOUS
  <2> QED
    BY <2>1, <2>2, <2>3
<1> QED
  BY <1>2, <1>3

\* Which branch is taken, and what it does.
LEMMA FillSectionIs ==
  ASSUME NEW x \in Offsets, NEW e \in Offsets, NEW d \in Offsets, Filler(x, e, d), FillSection
  PROVE  \E s \in Intact :
           /\ Off(s) = x /\ End(s) <= e /\ SectionsAt(s.at) # {} /\ SectionAt(s.at) = s
           /\ Behind \in 0 .. Len(extraData) - Length(s)
           /\ extraData' = SubSeq(extraData, Length(s) + 1, Len(extraData) - Behind)
           /\ IF call.at = "fillCurrent"
              THEN currentData' = Bytes(s.at, Length(s) - 1) /\ nextData' = nextData
              ELSE nextData' = Bytes(s.at, Length(s) - 1) /\ currentData' = currentData
           /\ Filled
<1>1. TypeInv /\ Clear(log) /\ View(x, e, d)
  BY FillerIs
<1>2. Verify(extraData) = "verified"
  BY DEF FillSection
<1>3. PICK s \in Intact :
        /\ Off(s) = x /\ End(s) <= e
        /\ Head(extraData) = s.at /\ SectionsAt(s.at) # {} /\ SectionAt(s.at) = s
        /\ SubSeq(extraData, 1, Length(s) - 1) = Bytes(s.at, Length(s) - 1)
  BY <1>1, <1>2, FoundIs
<1>4. Behind \in 0 .. Len(extraData) - Length(s)
  BY <1>3, ViewBehind
<1>5. SectionAt(Head(extraData)) = s
  BY <1>3
<1>6. /\ extraData' = SubSeq(extraData, Length(s) + 1, Len(extraData) - Behind)
      /\ IF call.at = "fillCurrent"
         THEN currentData' = SubSeq(extraData, 1, Length(s) - 1) /\ nextData' = nextData
         ELSE nextData' = SubSeq(extraData, 1, Length(s) - 1) /\ currentData' = currentData
      /\ Filled
  BY <1>4, <1>5, Zenon DEF FillSection
<1> QED
  BY <1>3, <1>4, <1>6, Zenon

LEMMA FoundData ==
  ASSUME TypeInv, Clear(log), NEW s \in Intact
  PROVE  LET b == Bytes(s.at, Length(s) - 1)
         IN /\ b # <<>> /\ Head(b) = s.at /\ IsData(b) /\ Sec(b) = s
            /\ Len(b) = Length(s) - 1 /\ b \in Seq(Address)
<1> DEFINE b == Bytes(s.at, Length(s) - 1)
           n == Length(s) - 1
<1>1. WellFormed(log) /\ s \in log.sections
  BY ClearIs, IntactIs
<1>2. s.at \in Address /\ s.at \in Nat /\ n \in Nat /\ 1 <= n
  BY <1>1, SectionHas, Pieces, Constants DEF Address
<1>3. b \in Seq(Address) /\ DOMAIN b = 1 .. n
  BY <1>2, BytesAreAddresses DEF Bytes
<1>4. Len(b) = n /\ b # <<>>
  <2> HIDE DEF b, n
  <2> QED
    BY <1>2, <1>3
<1>5. b[1] = s.at
  <2>1. 1 \in 1 .. n
    BY <1>2
  <2>2. b[1] = (s.at + 1 - 1) % StorageSize
    BY <2>1 DEF Bytes
  <2>3. s.at < StorageSize /\ StorageSize \in Nat \ {0}
    BY <1>2, Constants DEF Address
  <2>4. s.at % StorageSize = s.at
    BY <1>2, <2>3, SmallRemainder
  <2>5. s.at + 1 - 1 = s.at
    BY <1>2
  <2> QED
    BY <2>2, <2>4, <2>5
<1>6. Head(b) = s.at
  <2> HIDE DEF b, n
  <2> QED
    BY <1>3, <1>4, <1>5
<1>7. SectionsAt(s.at) # {} /\ SectionAt(s.at) = s
  BY <1>1, SectionAtIs
<1>8. Sec(b) = s
  BY <1>6, <1>7 DEF Sec
<1>9. IsData(b)
  BY <1>4, <1>6, <1>7, <1>8 DEF IsData
<1> QED
  BY <1>3, <1>4, <1>6, <1>8, <1>9

LEMMA FillSectionData ==
  ASSUME TypeInv, Clear(log), StartInv, PhaseInv, DataInv, FillSection
  PROVE  DataInv'
<1>1. PICK x \in Offsets, e \in Offsets, d \in Offsets : Filler(x, e, d)
  BY GetFiller DEF FillSection
<1>2. /\ View(x, e, d) /\ Chain(x) /\ WellFormed(log) /\ nextData = <<>> /\ ~done
      /\ call.at = "fillCurrent" <=> currentData = <<>>
  BY <1>1, FillerIs
<1>3. PICK s \in Intact :
           /\ Off(s) = x /\ End(s) <= e
           /\ Behind \in 0 .. Len(extraData) - Length(s)
           /\ extraData' = SubSeq(extraData, Length(s) + 1, Len(extraData) - Behind)
           /\ IF call.at = "fillCurrent"
              THEN currentData' = Bytes(s.at, Length(s) - 1) /\ nextData' = nextData
              ELSE nextData' = Bytes(s.at, Length(s) - 1) /\ currentData' = currentData
           /\ Filled
  BY <1>1, FillSectionIs
<1>4. /\ Behind \in 0 .. Len(extraData) - Length(s)
      /\ End(s) \in Offsets /\ e - Behind \in Offsets
      /\ End(s) <= e - Behind /\ e - Behind <= d
      /\ Boundary(End(s)) /\ GoodUpTo(End(s)) /\ Fetched(End(s), d)
      /\ End(s) < StorageSize
      /\ e - Behind # d => e - Behind = log.size /\ BytesLeft = 0
      /\ log.size < e - Behind => StorageSize <= d
  BY <1>1, <1>3, ViewBehind
<1>5. log' = log /\ download' = download /\ previous' = previous /\ started' = started /\ done' = done
  BY DEF FillSection, place
<1>6. BytesLeft' = BytesLeft
  BY <1>5, SameLeft
<1>7. Filling' => ~call'.fetched
  BY <1>3, FilledGoesOn
<1>8. /\ Len(extraData') = (e - Behind) - End(s)
      /\ \A i \in 1 .. (e - Behind) - End(s) : extraData'[i] = Place(End(s) + i - 1)
  <2>1. /\ x \in Nat /\ e \in Nat /\ x <= e /\ extraData \in Seq(Address) /\ Len(extraData) = e - x
        /\ End(s) = x + Length(s) /\ Length(s) \in Nat /\ End(s) \in Nat
    <3>1. s \in log.sections
      BY <1>2, IntactIs
    <3> QED
      BY <1>2, <1>3, <3>1, NumbersOfView, HeadIs, SectionHas DEF TypeInv
  <2>2. \A i \in 1 .. e - x : extraData[i] = Place(x + i - 1)
    BY <1>2 DEF View, Held
  <2> DEFINE k == Length(s)
             h == Len(extraData) - Behind
  <2>3. k \in Nat /\ h \in Nat /\ h = e - x - Behind /\ k <= h /\ h <= Len(extraData) /\ End(s) = x + k
    BY <1>3, <2>1
  <2>4. (e - Behind) - End(s) = h - k
    BY <2>1, <2>3, <1>3
  <2>5. extraData' = SubSeq(extraData, k + 1, h)
    BY <1>3
  <2> HIDE DEF k, h
  <2>6. Len(extraData') = h - k /\ \A i \in 1 .. h - k : extraData'[i] = extraData[k + i]
    <3>1. extraData \in Seq(Address) /\ k \in Nat /\ h \in Nat /\ k <= h /\ h <= Len(extraData)
      BY <2>1, <2>3
    <3>2. /\ Len(SubSeq(extraData, k + 1, h)) = h - k
          /\ \A i \in 1 .. h - k : SubSeq(extraData, k + 1, h)[i] = extraData[k + i]
      BY <3>1, PartOf, Zenon
    <3> QED
      BY <2>5, <3>2, Zenon
  <2>7. \A i \in 1 .. h - k : extraData[k + i] = Place(End(s) + i - 1)
    <3> TAKE i \in 1 .. h - k
    <3>1. k + i \in 1 .. e - x /\ x + (k + i) - 1 = End(s) + i - 1
      BY <2>1, <2>3
    <3> QED
      BY <2>2, <3>1
  <2> QED
    BY <2>4, <2>6, <2>7
<1>9. PICK x2 \in Offsets, e2 \in Offsets : x2 = End(s) /\ e2 = e - Behind
  BY <1>4
<1>10. View(x2, e2, d)'
  <2>1. download' = Adr(d)
    BY <1>2, <1>5, Zenon DEF View
  <2>2. /\ ChunkSize <= d /\ previous' = Adr(d - ChunkSize)
        /\ d - ChunkSize < log.size /\ x2 <= log.size /\ Near(x2, d - ChunkSize)
    BY <1>4, <1>5, <1>9, Zenon DEF Fetched
  <2>3. /\ x2 <= e2 /\ e2 <= d /\ Boundary(x2) /\ GoodUpTo(x2) /\ x2 < StorageSize
        /\ Len(extraData') = e2 - x2 /\ \A i \in 1 .. e2 - x2 : extraData'[i] = Place(x2 + i - 1)
    BY <1>4, <1>8, <1>9
  <2>4. /\ e2 # d => e2 = log.size /\ BytesLeft' = 0 /\ (Filling' => ~call'.fetched)
        /\ x2 < e2 /\ log.size < e2 => StorageSize <= d \/ (x2 < log.size /\ Filling' /\ call'.fetched)
    BY <1>4, <1>6, <1>7, <1>9
  <2> QED
    BY <1>5, <2>1, <2>2, <2>3, <2>4, ViewNext
<1>11. Chain(x2)'
  <2> DEFINE b == Bytes(s.at, Length(s) - 1)
  <2>1. b # <<>> /\ IsData(b) /\ Sec(b) = s
    BY <1>2, FoundData, Zenon
  <2> HIDE DEF b
  <2>2. UpTo(b, x2)
    <3>1. s \in log.sections
      BY <1>2, IntactIs
    <3>2. End(s) \in Nat
      BY <1>2, <3>1, SectionHas
    <3>3. NoneIn(End(s), End(s))
      <4> SUFFICES ASSUME NEW t \in Intact, End(s) <= Off(t), Off(t) < End(s) PROVE FALSE
        BY DEF NoneIn
      <4>1. t \in log.sections
        BY <1>2, IntactIs
      <4>2. Off(t) \in Nat
        BY <1>2, <4>1, SectionHas
      <4> QED
        BY <3>2, <4>2
    <3> QED
      BY <1>9, <2>1, <3>2, <3>3 DEF UpTo
  <2>3. CASE call.at = "fillCurrent"
    <3>1. currentData' = b /\ nextData' = <<>>
      BY <1>2, <1>3, <2>3 DEF b
    <3> QED
      BY <1>5, <2>1, <2>2, <3>1, ChainNext DEF ChainOf
  <2>4. CASE call.at # "fillCurrent"
    <3>1. nextData' = b /\ currentData' = currentData /\ currentData # <<>>
      BY <1>2, <1>3, <2>4 DEF b
    <3>2. IsData(currentData) /\ UpTo(currentData, Off(s))
      BY <1>2, <1>3, <3>1 DEF Chain
    <3> QED
      BY <1>5, <2>1, <2>2, <3>1, <3>2, ChainNext DEF ChainOf
  <2> QED
    BY <2>3, <2>4
<1> QED
  BY <1>2, <1>5, <1>9, <1>10, <1>11, Zenon DEF DataInv

-----------------------------------------------------------------------------
(* The end of the log *)

\* Junk: nothing intact is left in the block.
LEMMA NoneInBlock ==
  ASSUME NEW x \in Offsets, NEW e \in Offsets, NEW d \in Offsets, Filler(x, e, d),
         Verify(extraData) = "junk", ~(e = x + 1 /\ \E s \in Inside(log) : Off(s) = x /\ s.kind = "block")
  PROVE  NoneIn(x, BlockOf(x) + BlockSize)
<1>1. TypeInv /\ Clear(log) /\ View(x, e, d) /\ WellFormed(log) /\ x \in Nat
  BY FillerIs, NumbersOfView
<1>2. CASE \A s \in log.sections : Off(s) # x
  <2>1. Boundary(x)
    BY <1>1, Zenon DEF View
  <2>2. \A s \in log.sections : ~(x <= Off(s) /\ Off(s) < BlockOf(x) + BlockSize)
    BY <1>1, <1>2, <2>1, NothingBehind
  <2>3. \A s \in Intact : s \in log.sections
    BY <1>1, IntactIs
  <2> QED
    BY <2>2, <2>3 DEF NoneIn
<1>3. CASE ~(\A s \in log.sections : Off(s) # x)
  <2>1. PICK s \in Inside(log) : Off(s) = x /\ ~s.good
    BY <1>1, <1>3, JunkIs
  <2>2. s \in log.sections
    BY DEF Inside
  <2> QED
    BY <1>1, <2>1, <2>2, DamagedHides
<1> QED
  BY <1>2, <1>3

\* When nothing is left and no section has been found, none is behind.
LEMMA NothingLeft ==
  ASSUME NEW x \in Offsets, NEW e \in Offsets, NEW d \in Offsets, Filler(x, e, d),
         Verify(extraData) # "verified", BytesLeft = 0
  PROVE  \A s \in Intact : Off(s) < x
<1> SUFFICES ASSUME NEW s \in Intact, ~(Off(s) < x) PROVE FALSE
  OBVIOUS
<1>1. /\ x \in Nat /\ e \in Nat /\ d \in Nat /\ x <= e /\ e <= d
      /\ TypeInv /\ Clear(log) /\ StartInv /\ View(x, e, d) /\ Chain(x) /\ WellFormed(log)
      /\ (x < e => x <= log.size)
  BY FillerIs, NumbersOfView DEF Filler
<1>2. /\ s \in log.sections /\ Off(s) \in Nat /\ End(s) \in Nat /\ Off(s) < End(s) /\ End(s) <= log.size
      /\ x <= Off(s)
  <2>1. s \in log.sections /\ End(s) <= log.size
    BY <1>1, IntactIs
  <2> QED
    BY <1>1, <2>1, SectionHas
<1>3. log.size \in Nat /\ log.size <= d
  <2>1. log.size \in Nat
    BY <1>1, LogIs
  <2> QED
    BY <1>1, <2>1, LeftInView
<1>4. e = d \/ e = log.size
  BY <1>1, Zenon DEF View
<1>5. log.size <= e
  BY <1>1, <1>3, <1>4
<1>6. Verify(extraData) # "more"
  <2> SUFFICES ASSUME Verify(extraData) = "more" PROVE FALSE
    OBVIOUS
  <2>1. CASE x = e
    BY <1>1, <1>2, <1>3, <1>5, <2>1
  <2>2. CASE x # e
    <3>1. PICK t \in Inside(log) : Off(t) = x /\ e < End(t)
      BY <1>1, <2>2, MoreIs
    <3>2. t \in log.sections
      BY DEF Inside
    <3>3. End(t) \in Nat /\ End(t) <= log.size
      BY <1>1, <3>2, SectionHas, InsideIs
    <3> QED
      BY <1>1, <1>3, <1>5, <3>1, <3>3
  <2> QED
    BY <2>1, <2>2
<1>7. Verify(extraData) = "junk"
  <2>1. Verify(extraData) \in {"more", "junk", "verified"}
    BY DEF Verify
  <2> QED
    BY <1>6, <2>1
<1>8. x < e
  BY <1>1, <1>7, JunkIs
<1>9. ~(e = x + 1 /\ \E t \in Inside(log) : Off(t) = x /\ t.kind = "block")
  <2> SUFFICES ASSUME e = x + 1, NEW t \in Inside(log), Off(t) = x PROVE FALSE
    OBVIOUS
  <2>1. t \in log.sections
    BY DEF Inside
  <2>2. End(t) = x + Length(t) /\ Length(t) = HeaderSize + t.sweeps + 1 /\ t.sweeps \in Nat /\ End(t) <= log.size
    BY <1>1, <2>1, SectionHas, InsideIs
  <2> QED
    BY <1>1, <1>3, <1>5, <2>2, Pieces
<1>10. NoneIn(x, BlockOf(x) + BlockSize)
  BY <1>7, <1>9, NoneInBlock
<1> DEFINE b == BlockOf(x)
<1>11. b \in Nat /\ Whole(b) /\ b <= x /\ b + BlockSize <= Off(s) /\ BlockSize \in Nat \ {0}
  <2>1. ~(x <= Off(s) /\ Off(s) < b + BlockSize)
    BY <1>10 DEF NoneIn
  <2>2. b \in Nat /\ Whole(b) /\ b <= x
    BY <1>1, BlockIs
  <2> QED
    BY <1>2, <2>1, <2>2, Constants
<1>12. Fetched(x, d)
  <2>1. x # d
    BY <1>1, <1>8
  <2> QED
    BY <1>1, <2>1, Zenon DEF View, Jumped
<1> DEFINE p == d - ChunkSize
<1>13. /\ ChunkSize <= d /\ p < log.size /\ Near(x, p) /\ p \in Nat /\ d = p + ChunkSize
       /\ ChunkSize \in Nat /\ 2 <= ChunkSize /\ ChunkSize <= BlockSize
  BY <1>1, <1>12, Pieces, Constants DEF Fetched
<1> DEFINE l == BlockOf(log.size - 1)
           r == (log.size - 1) % BlockSize
<1>14. l \in Nat /\ Whole(l) /\ l <= log.size - 1 /\ log.size - 1 < l + BlockSize /\ l = (log.size - 1) - r
  <2>1. log.size - 1 \in Nat
    BY <1>2, <1>3
  <2> QED
    BY <2>1, BlockIs DEF BlockOf
<1>15. BlockOf(p) = b \/ BlockOf(p) + BlockSize = b
  BY <1>13 DEF Near
<1>16. /\ BlockOf(p) \in Nat /\ Whole(BlockOf(p)) /\ BlockOf(p) <= p /\ p < BlockOf(p) + BlockSize
  BY <1>13, BlockIs
<1>17. log.size <= BlockSize \/ r >= ChunkSize - 1
  BY <1>1, ClearIs DEF LastIsLong
<1> HIDE DEF b, p, l, r
<1>18. r >= ChunkSize - 1
  BY <1>2, <1>3, <1>11, <1>17
<1>19. r \in Int
  <2>1. log.size - 1 \in Nat
    BY <1>2, <1>3
  <2> QED
    BY <2>1, <1>11, Remainder DEF r
<1>20. l <= p
  BY <1>3, <1>13, <1>14, <1>18, <1>19
<1>21. BlockOf(p) < l
  BY <1>1, <1>2, <1>3, <1>11, <1>14, <1>15, <1>16
<1>22. BlockOf(p) + BlockSize <= l
  BY <1>14, <1>16, <1>21, WholesApart
<1> QED
  BY <1>11, <1>13, <1>14, <1>16, <1>20, <1>22

LEMMA FillNothingData ==
  ASSUME TypeInv, Clear(log), StartInv, PhaseInv, DataInv, FillNothing
  PROVE  DataInv' /\ currentData # <<>>
<1>1. PICK x \in Offsets, e \in Offsets, d \in Offsets : Filler(x, e, d)
  BY GetFiller DEF FillNothing
<1>2. /\ TypeInv /\ Clear(log) /\ Chain(x) /\ WellFormed(log) /\ nextData = <<>> /\ x \in Nat
  BY <1>1, FillerIs, NumbersOfView
<1>3. \A s \in Intact : Off(s) < x
  BY <1>1, NothingLeft DEF FillNothing
<1>4. \A s \in Intact : Off(s) \in Nat
  BY <1>2, IntactIs, SectionHas
<1>5. currentData # <<>>
  <2> SUFFICES ASSUME currentData = <<>> PROVE FALSE
    OBVIOUS
  <2>1. PICK s \in Intact : TRUE
    BY <1>2, ClearIs DEF HasData, Intact
  <2>2. ~(0 <= Off(s) /\ Off(s) < x)
    BY <1>2 DEF Chain, NoneIn
  <2> QED
    BY <1>3, <1>4, <2>2
<1>6. IsData(currentData) /\ UpTo(currentData, x)
  BY <1>2, <1>5 DEF Chain
<1>7. NoneIn(End(Sec(currentData)), StorageSize)
  BY <1>3, <1>6 DEF UpTo, NoneIn
<1>8. /\ log' = log /\ download' = download /\ started' = started /\ currentData' = currentData
      /\ nextData' = nextData /\ extraData' = <<>> /\ done' = TRUE /\ BytesLeft = 0
  BY DEF FillNothing, place
<1>9. BytesLeft' = 0
  BY <1>8, SameLeft
<1>10. IsData(currentData)' /\ Sec(currentData)' = Sec(currentData)
  BY <1>6, <1>8, SecNext
<1>11. NoneIn(End(Sec(currentData)), StorageSize)'
  BY <1>7, <1>8, <1>10 DEF NoneIn, End, Intact, Off
<1> QED
  BY <1>2, <1>5, <1>8, <1>9, <1>10, <1>11 DEF DataInv

-----------------------------------------------------------------------------
(* A piece arrives *)

\* More is asked for only of a section of the log that has been fetched in part,
\* and only as far as the log goes.
LEMMA MoreOfLog ==
  ASSUME NEW x \in Offsets, NEW e \in Offsets, NEW d \in Offsets, Filler(x, e, d),
         Verify(extraData) = "more", BytesLeft # 0
  PROVE  e = d /\ d < log.size /\ BlockOf(d) = BlockOf(x)
<1>1. /\ x \in Nat /\ e \in Nat /\ d \in Nat /\ x <= e /\ e <= d
      /\ TypeInv /\ Clear(log) /\ StartInv /\ View(x, e, d) /\ Chain(x) /\ WellFormed(log)
      /\ (d <= StorageSize \/ d < log.size + ChunkSize)
  BY FillerIs, NumbersOfView DEF Filler
<1>2. /\ log.size \in Nat /\ log.size <= StorageSize /\ StorageSize \in Nat /\ BlockSize \in Nat /\ log.start \in Nat
      /\ ChunkSize \in Nat /\ ChunkSize <= BlockSize /\ BlockSize <= StorageSize
  BY <1>1, LogIs, Constants, Pieces
<1>3. e = d
  BY <1>1, Zenon DEF View
<1>4. x = d \/ \E s \in Inside(log) : Off(s) = x /\ d < End(s)
  BY <1>1, <1>3, MoreIs
<1>5. BlockOf(d) = BlockOf(x) /\ (x # d => d < log.size)
  <2>1. CASE x = d
    BY <2>1
  <2>2. CASE x # d
    <3>1. PICK s \in Inside(log) : Off(s) = x /\ d < End(s)
      BY <1>4, <2>2
    <3>2. s \in log.sections
      BY DEF Inside
    <3>3. End(s) <= log.size /\ End(s) <= BlockOf(x) + BlockSize /\ End(s) \in Nat
      BY <1>1, <3>1, <3>2, SectionHas, InsideIs
    <3>4. Whole(BlockOf(x)) /\ BlockOf(x) \in Nat /\ BlockOf(x) <= x
      BY <1>1, BlockIs
    <3>5. d < BlockOf(x) + BlockSize /\ BlockOf(x) <= d
      BY <1>1, <1>2, <1>3, <3>1, <3>3, <3>4
    <3>6. BlockOf(d) = BlockOf(x)
      BY <1>1, <3>4, <3>5, BlockUnique
    <3> QED
      BY <1>1, <1>2, <3>1, <3>3, <3>6
  <2> QED
    BY <2>1, <2>2
<1>6. x = d => d <= StorageSize
  <2> SUFFICES ASSUME x = d PROVE d <= StorageSize
    OBVIOUS
  <2>1. CASE Jumped(x, d)
    <3>1. Whole(d) /\ d < log.size + BlockSize
      BY <1>1, <2>1 DEF Jumped, Whole
    <3>2. StorageSize < d => StorageSize + BlockSize <= d
      BY <3>1, Pieces, WholesApart
    <3> QED
      BY <1>1, <1>2, <3>1, <3>2
  <2>2. CASE ~Jumped(x, d)
    <3>1. x <= log.size
      BY <1>1, <2>2, Zenon DEF View, Fetched
    <3> QED
      BY <1>1, <1>2, <3>1
  <2> QED
    BY <2>1, <2>2
<1>7. d # StorageSize
  <2> SUFFICES ASSUME d = StorageSize PROVE FALSE
    OBVIOUS
  <2>1. x = d
    BY <1>1, <1>2, <1>5
  <2>2. ~started
    BY <1>1, LeftInView
  <2>3. log.size > StorageSize - BlockSize
    <3>1. CASE Jumped(x, d)
      <4>1. d < log.size + BlockSize
        BY <3>1 DEF Jumped
      <4> QED
        BY <1>1, <1>2, <4>1
    <3>2. CASE ~Jumped(x, d)
      <4>1. x <= log.size
        BY <1>1, <3>2, Zenon DEF View, Fetched
      <4>2. 0 < BlockSize
        BY Constants
      <4> QED
        BY <1>1, <1>2, <2>1, <4>1, <4>2
    <3> QED
      BY <3>1, <3>2
  <2>4. PICK s \in Intact : x <= Off(s)
    BY <2>2, <2>3, NotAllYet
  <2>5. s \in log.sections /\ Off(s) < StorageSize
    BY <1>1, IntactIs, SectionHas
  <2>6. Off(s) \in Nat
    BY <1>1, <2>5, SectionHas
  <2> QED
    BY <1>1, <1>2, <2>1, <2>4, <2>5, <2>6
<1>8. d < log.size
  <2>1. log.size <= d /\ d < StorageSize => BytesLeft = 0
    BY <1>1, LeftInView
  <2> QED
    BY <1>1, <1>2, <1>5, <1>6, <1>7, <2>1
<1> QED
  BY <1>3, <1>5, <1>8

LEMMA DownloadMoreData ==
  ASSUME TypeInv, Clear(log), StartInv, PhaseInv, DataInv, Download, Verify(extraData) = "more"
  PROVE  DataInv'
<1>1. Filling /\ BytesLeft # 0
  BY DEF Download, Downloading
<1>2. PICK x \in Offsets, e \in Offsets, d \in Offsets : Filler(x, e, d)
  BY <1>1, GetFiller
<1>3. /\ x \in Nat /\ e \in Nat /\ d \in Nat /\ x <= e /\ e <= d
      /\ View(x, e, d) /\ Chain(x) /\ WellFormed(log) /\ ~done
      /\ Len(extraData) = e - x
  BY <1>2, FillerIs, NumbersOfView, HeadIs
<1>4. e = d /\ d < log.size /\ BlockOf(d) = BlockOf(x)
  BY <1>1, <1>2, MoreOfLog
<1>5. /\ log.size \in Nat /\ log.size <= StorageSize /\ StorageSize \in Nat /\ BlockSize \in Nat /\ log.start \in Nat
      /\ ChunkSize \in Nat /\ 2 <= ChunkSize /\ ChunkSize <= BlockSize /\ BlockSize <= StorageSize
      /\ log.start + BlockSize <= StorageSize
  BY <1>3, LogIs, Constants, Pieces, StartIs
<1>6. /\ log' = log /\ previous' = download /\ currentData' = currentData /\ nextData' = nextData /\ done' = done
      /\ extraData' = extraData \o Bytes(download, ChunkSize) /\ download' = Normalized(download + ChunkSize)
      /\ call' = [call EXCEPT !.fetched = TRUE]
  BY DEF Download, flags
<1>7. download = Adr(d)
  BY <1>3, Zenon DEF View
<1>8. PICK d2 \in Offsets : d2 = d + ChunkSize
  BY <1>3, <1>4, <1>5 DEF Offsets
<1>9. download' = Adr(d2)
  <2>1. /\ download = IF log.start + d <= StorageSize THEN log.start + d ELSE log.start + d - StorageSize
        /\ Adr(d2) = IF log.start + d2 <= StorageSize THEN log.start + d2 ELSE log.start + d2 - StorageSize
    BY <1>7 DEF Adr
  <2>2. d < StorageSize
    BY <1>3, <1>4, <1>5
  <2>3. CASE log.start + d2 <= StorageSize
    <3>1. download + ChunkSize = log.start + d2 /\ Adr(d2) = log.start + d2
      <4>1. log.start + d <= StorageSize
        BY <1>3, <1>5, <1>8, <2>3
      <4>2. download = log.start + d /\ Adr(d2) = log.start + d2
        BY <2>1, <2>3, <4>1, Zenon
      <4> QED
        BY <1>3, <1>5, <1>8, <4>2
    <3>2. ~(log.start + d2 > StorageSize)
      BY <1>3, <1>5, <1>8, <2>3
    <3>3. Normalized(log.start + d2) = log.start + d2
      BY <3>2 DEF Normalized
    <3> QED
      BY <1>6, <3>1, <3>3
  <2>4. CASE ~(log.start + d2 <= StorageSize) /\ log.start + d <= StorageSize
    <3>1. download + ChunkSize = log.start + d2 /\ Adr(d2) = log.start + d2 - StorageSize
      BY <1>3, <1>5, <1>8, <2>1, <2>4
    <3>2. PICK m \in Nat : m = log.start + d2
      BY <1>5, <1>8, <1>3
    <3>3. m > StorageSize /\ m < StorageSize + StorageSize
      BY <1>3, <1>5, <1>8, <2>2, <2>4, <3>2
    <3>4. m % StorageSize = m - StorageSize
      BY <1>5, <3>2, <3>3, Constants, SmallRemainder
    <3>5. Normalized(m) = m - StorageSize
      BY <3>3, <3>4 DEF Normalized
    <3>6. download + ChunkSize = m /\ Adr(d2) = m - StorageSize
      BY <1>3, <1>5, <1>8, <3>1, <3>2
    <3> QED
      BY <1>6, <3>5, <3>6, Zenon
  <2>5. CASE ~(log.start + d <= StorageSize)
    <3>1. download = log.start + d - StorageSize
      BY <2>1, <2>5
    <3>2. download + ChunkSize = log.start + d2 - StorageSize
      BY <1>3, <1>5, <1>8, <3>1
    <3>3. log.start + d2 - StorageSize <= StorageSize /\ Adr(d2) = log.start + d2 - StorageSize
      <4>1. log.start + ChunkSize <= StorageSize
        BY <1>5
      <4>2. log.start + d2 <= StorageSize + StorageSize
        BY <1>3, <1>5, <1>8, <2>2, <4>1
      <4>3. ~(log.start + d2 <= StorageSize)
        BY <1>3, <1>5, <1>8, <2>5
      <4> QED
        BY <1>3, <1>5, <1>8, <2>1, <4>2, <4>3
    <3>4. ~(log.start + d2 - StorageSize > StorageSize)
      BY <1>3, <1>5, <1>8, <3>3
    <3>5. Normalized(log.start + d2 - StorageSize) = log.start + d2 - StorageSize
      BY <3>4 DEF Normalized
    <3> QED
      BY <1>6, <3>2, <3>3, <3>5
  <2> QED
    BY <2>3, <2>4, <2>5
<1>10. /\ Len(extraData') = d2 - x
       /\ \A i \in 1 .. d2 - x : extraData'[i] = Place(x + i - 1)
  <2>1. extraData \in Seq(Address) /\ download \in Nat
    BY Constants DEF TypeInv
  <2> DEFINE q == Bytes(download, ChunkSize)
  <2>2. q \in Seq(Address) /\ DOMAIN q = 1 .. ChunkSize
    BY <1>5, <2>1, BytesAreAddresses DEF Bytes
  <2>3. \A i \in 1 .. ChunkSize : q[i] = Place(d + i - 1)
    <3>1. log.start + d + ChunkSize <= StorageSize + StorageSize
      BY <1>3, <1>4, <1>5
    <3> QED
      BY <1>3, <1>5, <1>7, <3>1, BytesAre
  <2>4. \A i \in 1 .. e - x : extraData[i] = Place(x + i - 1)
    BY <1>3 DEF View, Held
  <2>5. extraData' = extraData \o q
    BY <1>6
  <2> HIDE DEF q
  <2>6. Len(q) = ChunkSize
    BY <1>5, <2>2
  <2>7. Len(extraData') = d2 - x
    <3>1. Len(extraData \o q) = Len(extraData) + Len(q)
      BY <2>1, <2>2
    <3> QED
      BY <1>3, <1>4, <1>5, <1>8, <2>5, <2>6, <3>1
  <2>8. \A i \in 1 .. d2 - x : extraData'[i] = Place(x + i - 1)
    <3> TAKE i \in 1 .. d2 - x
    <3>1. CASE i <= e - x
      <4>1. extraData'[i] = extraData[i]
        BY <1>3, <1>5, <1>8, <2>1, <2>2, <2>5, <2>6, <3>1
      <4> QED
        BY <1>3, <1>8, <2>4, <3>1, <4>1, <1>5
    <3>2. CASE ~(i <= e - x)
      <4> DEFINE j == i - (d - x)
      <4>1. j \in 1 .. ChunkSize /\ d + j - 1 = x + i - 1
        BY <1>3, <1>4, <1>5, <1>8, <3>2
      <4>2. extraData'[i] = q[j]
        <5>1. i \in Nat /\ Len(extraData) < i /\ i <= Len(extraData) + Len(q) /\ j = i - Len(extraData)
          BY <1>3, <1>4, <1>5, <1>8, <2>6, <3>2
        <5>2. (extraData \o q)[i] = q[i - Len(extraData)]
          BY <2>1, <2>2, <5>1
        <5> QED
          BY <2>5, <5>1, <5>2
      <4> QED
        BY <2>3, <4>1, <4>2
    <3> QED
      BY <3>1, <3>2
  <2> QED
    BY <2>7, <2>8
<1>11. Filling' /\ call'.fetched
  <2>1. call \in Calls
    BY DEF TypeInv
  <2> QED
    BY <1>1, <1>6, <2>1 DEF Filling, Calls
<1>12. View(x, d2, d2)'
  <2>1. Boundary(x) /\ GoodUpTo(x)
    BY <1>3, Zenon DEF View
  <2>2. /\ ChunkSize <= d2 /\ previous' = Adr(d2 - ChunkSize)
        /\ d2 - ChunkSize < log.size /\ x <= log.size /\ Near(x, d2 - ChunkSize)
    <3>1. d2 - ChunkSize = d
      BY <1>3, <1>5, <1>8
    <3> QED
      BY <1>3, <1>4, <1>5, <1>6, <1>7, <1>8, <3>1 DEF Near
  <2>3. x <= d2 /\ d2 <= d2 /\ x < StorageSize /\ x < log.size
    BY <1>3, <1>4, <1>5, <1>8
  <2> QED
    BY <1>6, <1>9, <1>10, <1>11, <2>1, <2>2, <2>3, ViewNext
<1>13. Chain(x)'
  BY <1>3, <1>6, ChainNext, ChainIs
<1> QED
  BY <1>3, <1>6, <1>12, <1>13, Zenon DEF DataInv

-----------------------------------------------------------------------------
(* The search goes on at the next block *)

LEMMA WholeMod ==
  ASSUME NEW m \in Nat, NEW w, Whole(w)
  PROVE  (w + m) % BlockSize = m % BlockSize
<1>1. BlockSize \in Nat \ {0}
  BY Constants
<1>2. PICK q \in Nat : w = q * BlockSize
  BY WholeIs
<1>3. m \div BlockSize \in Nat /\ m % BlockSize \in 0 .. BlockSize - 1 /\ m = (m \div BlockSize) * BlockSize + (m % BlockSize)
  BY <1>1, DivMod
<1> DEFINE p == m \div BlockSize
           r == m % BlockSize
           n == w + m
<1>4. /\ p \in Nat /\ r \in 0 .. BlockSize - 1 /\ m = p * BlockSize + r
      /\ n = q * BlockSize + (p * BlockSize + r)
  BY <1>2, <1>3
<1>5. n \in Nat
  BY DEF Whole
<1> HIDE DEF p, r, n
<1>6. n = (q + p) * BlockSize + r
  <2>1. (q + p) * BlockSize = q * BlockSize + p * BlockSize
    BY <1>1, <1>2, <1>4
  <2>2. q * BlockSize \in Nat /\ p * BlockSize \in Nat
    BY <1>1, <1>2, <1>4
  <2> QED
    BY <1>1, <1>4, <2>1, <2>2
<1>7. q + p \in Nat
  BY <1>2, <1>4
<1>8. n % BlockSize = r
  BY <1>1, <1>4, <1>5, <1>6, <1>7, RemainderIs
<1> QED
  BY <1>8 DEF n, r

\* From a piece at offset p the search goes on at the block after that of p.
LEMMA NextBlockIs ==
  ASSUME TypeInv, WellFormed(log), NEW p \in Nat, p < log.size, NEW d \in Nat, d = BlockOf(p) + BlockSize
  PROVE  Normalized(NextBlockAddress(Adr(p))) = Adr(d)
<1>1. /\ log.size \in Nat /\ log.size <= StorageSize /\ StorageSize \in Nat \ {0} /\ BlockSize \in Nat \ {0} /\ log.start \in Nat
      /\ log.start + BlockSize <= StorageSize /\ Whole(log.start) /\ Whole(StorageSize) /\ p < StorageSize
  BY LogIs, Constants, StartIs, Pieces
<1> DEFINE b == BlockOf(p)
           r == p % BlockSize
           s == log.start + b
<1>2. /\ b \in Nat /\ Whole(b) /\ b <= p /\ p < b + BlockSize /\ b = p - r /\ r \in Nat /\ r < BlockSize
  <2>1. b \in Nat /\ Whole(b) /\ b <= p /\ p < b + BlockSize /\ b = p - r
    BY BlockIs DEF BlockOf
  <2>2. r \in 0 .. BlockSize - 1
    BY <1>1, Remainder
  <2> QED
    BY <1>1, <2>1, <2>2
<1>3. Whole(s) /\ Whole(s + BlockSize)
  BY <1>1, <1>2, WholeSum
<1>4. b + BlockSize <= StorageSize
  <2>1. b < StorageSize
    BY <1>1, <1>2
  <2> QED
    BY <1>1, <1>2, <2>1, WholesApart
<1> HIDE DEF b, r
<1>5. s \in Nat /\ s + BlockSize \in Nat /\ d = b + BlockSize /\ s = log.start + b
  BY <1>1, <1>2 DEF b
<1>6. CASE log.start + p <= StorageSize
  <2>1. Adr(p) = log.start + p
    BY <1>1, <1>6 DEF Adr
  <2>2. (log.start + p) % BlockSize = r
    BY <1>1, WholeMod DEF r
  <2>3. NextBlockAddress(Adr(p)) = s + BlockSize
    <3>1. NextBlockAddress(Adr(p)) = (log.start + p) + (BlockSize - r)
      BY <2>1, <2>2 DEF NextBlockAddress
    <3> QED
      BY <1>1, <1>2, <3>1
  <2>4. CASE s < StorageSize
    <3>1. s + BlockSize <= StorageSize
      BY <1>1, <1>3, <2>4, WholesApart
    <3>2. ~(s + BlockSize > StorageSize)
      BY <1>1, <1>5, <3>1
    <3>3. Normalized(s + BlockSize) = s + BlockSize
      BY <3>2 DEF Normalized
    <3>4. log.start + d = s + BlockSize
      BY <1>1, <1>2, <1>5
    <3>5. Adr(d) = s + BlockSize
      BY <3>1, <3>4 DEF Adr
    <3> QED
      BY <2>3, <3>3, <3>5
  <2>5. CASE ~(s < StorageSize)
    <3>1. s = StorageSize /\ b = p
      BY <1>1, <1>2, <1>5, <1>6, <2>5
    <3>2. log.start + d = StorageSize + BlockSize
      BY <1>1, <1>2, <1>5, <3>1
    <3>3. BlockSize < StorageSize
      BY <1>1, <1>2, <1>4, <1>5, <3>1
    <3>4. Adr(d) = BlockSize
      <4>1. ~(log.start + d <= StorageSize)
        BY <1>1, <3>2
      <4>2. log.start + d - StorageSize = BlockSize
        BY <1>1, <3>2
      <4> QED
        BY <4>1, <4>2 DEF Adr
    <3>5. PICK m \in Nat : m = StorageSize + BlockSize
      BY <1>1
    <3>6. m % StorageSize = m - StorageSize /\ m > StorageSize
      <4>1. StorageSize <= m /\ m < StorageSize + StorageSize /\ m > StorageSize
        BY <1>1, <3>3, <3>5
      <4> QED
        BY <1>1, <4>1, SmallRemainder
    <3>7. Normalized(m) = BlockSize
      BY <1>1, <3>5, <3>6 DEF Normalized
    <3> QED
      BY <2>3, <3>1, <3>4, <3>5, <3>7
  <2> QED
    BY <2>4, <2>5
<1>7. CASE ~(log.start + p <= StorageSize)
  <2> DEFINE a == log.start + p - StorageSize
  <2>1. Adr(p) = a /\ a \in Nat /\ StorageSize + a = log.start + p
    BY <1>1, <1>7 DEF Adr
  <2>2. (log.start + p) % BlockSize = r
    BY <1>1, WholeMod DEF r
  <2>3. a % BlockSize = r
    <3> HIDE DEF a
    <3>1. (StorageSize + a) % BlockSize = a % BlockSize
      BY <1>1, <2>1, WholeMod
    <3> QED
      BY <2>1, <2>2, <3>1, Zenon
  <2>4. NextBlockAddress(Adr(p)) = s + BlockSize - StorageSize
    <3>1. NextBlockAddress(Adr(p)) = a + (BlockSize - r)
      BY <2>1, <2>3 DEF NextBlockAddress
    <3> QED
      BY <1>1, <1>2, <2>1, <3>1
  <2>5. s + BlockSize <= StorageSize + StorageSize
    BY <1>1, <1>2, <1>4, <1>5
  <2>6. ~(s + BlockSize - StorageSize > StorageSize)
    BY <1>1, <1>5, <2>5
  <2>7. Normalized(s + BlockSize - StorageSize) = s + BlockSize - StorageSize
    BY <2>6 DEF Normalized
  <2>8. log.start + d = s + BlockSize /\ ~(log.start + d <= StorageSize)
    BY <1>1, <1>2, <1>5, <1>7
  <2>9. Adr(d) = s + BlockSize - StorageSize
    <3>1. Adr(d) = log.start + d - StorageSize
      BY <2>8 DEF Adr
    <3>2. log.start + d = s + BlockSize
      BY <2>8
    <3> QED
      BY <1>1, <1>5, <3>1, <3>2
  <2> QED
    BY <2>4, <2>7, <2>9
<1> QED
  BY <1>6, <1>7

\* From junk the library skips nothing that is intact and goes back to nothing that
\* has been found.
LEMMA JunkGoesOn ==
  ASSUME NEW x \in Offsets, NEW e \in Offsets, NEW d \in Offsets, Filler(x, e, d),
         Verify(extraData) = "junk", BytesLeft # 0
  PROVE  /\ Fetched(x, d) /\ d - ChunkSize \in Nat
         /\ x <= BlockOf(d - ChunkSize) + BlockSize
         /\ NoneIn(x, BlockOf(d - ChunkSize) + BlockSize)
<1>1. /\ x \in Nat /\ e \in Nat /\ d \in Nat /\ x <= e /\ e <= d
      /\ TypeInv /\ Clear(log) /\ View(x, e, d) /\ WellFormed(log)
  BY FillerIs, NumbersOfView
<1>2. x < e
  BY <1>1, JunkIs
<1>3. e = d
  BY <1>1, Zenon DEF View
<1>4. Fetched(x, d)
  <2>1. x # d
    BY <1>1, <1>2, <1>3
  <2> QED
    BY <1>1, <2>1, Zenon DEF View, Jumped
<1> DEFINE p == d - ChunkSize
           b == BlockOf(x)
<1>5. /\ p \in Nat /\ d = p + ChunkSize /\ ChunkSize \in Nat /\ 2 <= ChunkSize /\ ChunkSize <= BlockSize
      /\ p < log.size /\ Near(x, p) /\ BlockSize \in Nat \ {0} /\ log.size \in Nat
  BY <1>1, <1>4, Pieces, Constants, LogIs DEF Fetched
<1>6. BlockOf(p) \in Nat /\ Whole(BlockOf(p)) /\ BlockOf(p) <= p /\ p < BlockOf(p) + BlockSize
  BY <1>5, BlockIs
<1>7. b \in Nat /\ Whole(b) /\ b <= x /\ x < b + BlockSize
  BY <1>1, BlockIs
<1>8. CASE BlockOf(p) = b
  <2>1. ~(e = x + 1 /\ \E s \in Inside(log) : Off(s) = x /\ s.kind = "block")
    <3> SUFFICES ASSUME e = x + 1, NEW s \in Inside(log), Off(s) = x, s.kind = "block" PROVE FALSE
      OBVIOUS
    <3>1. s \in log.sections
      BY DEF Inside
    <3>2. x % BlockSize = 0
      BY <1>1, <3>1 DEF WellFormed, Off
    <3>3. b = x
      BY <1>1, <3>2, WholeIsBlock DEF Whole
    <3> HIDE DEF p, b
    <3> QED
      BY <1>1, <1>3, <1>5, <1>6, <1>8, <3>3
  <2>2. NoneIn(x, b + BlockSize)
    BY <2>1, NoneInBlock
  <2>3. x <= b + BlockSize
    BY <1>1, <1>5, <1>7
  <2> QED
    BY <1>4, <1>5, <1>8, <2>2, <2>3
<1>9. CASE BlockOf(p) # b
  <2>1. PICK s \in Inside(log) : BlockOf(p) + BlockSize = b /\ End(s) = b
    BY <1>5, <1>9 DEF Near
  <2>2. x = b
    <3> SUFFICES ASSUME x # b PROVE FALSE
      OBVIOUS
    <3>1. ~Whole(x)
      BY WholeIsBlock
    <3>2. PICK t \in Inside(log) : End(t) = x
      <4>1. Boundary(x)
        BY <1>1, Zenon DEF View
      <4> QED
        BY <1>1, <3>1, <4>1 DEF Boundary, Whole
    <3>3. t \in log.sections
      BY DEF Inside
    <3>4. /\ Off(t) \in Nat /\ End(t) <= BlockOf(Off(t)) + BlockSize /\ Off(t) < End(t)
      BY <1>1, <3>3, SectionHas
    <3>5. /\ Whole(BlockOf(Off(t))) /\ BlockOf(Off(t)) \in Nat /\ BlockOf(Off(t)) <= Off(t)
      BY <3>4, BlockIs
    <3>6. BlockOf(Off(t)) = b
      <4>1. x # BlockOf(Off(t)) + BlockSize
        BY <3>1, <3>5, WholeSum
      <4>2. BlockOf(Off(t)) <= x /\ x < BlockOf(Off(t)) + BlockSize
        BY <1>1, <1>5, <3>2, <3>4, <3>5, <4>1
      <4> QED
        BY <1>1, <3>5, <4>2, BlockUnique
    <3>7. /\ e <= d /\ d <= b + ChunkSize - 1 /\ x < b + ChunkSize - 1
      <4> HIDE DEF p, b
      <4> QED
        BY <1>1, <1>2, <1>3, <1>5, <1>6, <1>7, <2>1
    <3>8. PICK u \in log.sections : Off(u) = x /\ (u.good \/ End(u) >= b + ChunkSize)
      <4>1. NoShortBehindFull(log)
        BY <1>1, ClearIs
      <4>2. End(s) = BlockOf(Off(t)) /\ End(t) < BlockOf(Off(t)) + ChunkSize - 1
        BY <2>1, <3>2, <3>6, <3>7
      <4>3. \E u \in log.sections : /\ Off(u) = End(t)
                                    /\ u.good \/ End(u) >= BlockOf(Off(t)) + ChunkSize
        BY <4>1, <4>2 DEF NoShortBehindFull, End, Off
      <4> QED
        BY <3>2, <3>6, <4>3
    <3>9. PICK v \in Inside(log) : /\ Off(v) = x
                                   /\ \/ End(v) <= e /\ ~v.good
                                      \/ e = x + 1 /\ v.kind = "block"
      BY <1>1, <3>8, JunkIs
    <3>10. v \in log.sections
      BY DEF Inside
    <3>11. u = v
      BY <1>1, <3>8, <3>9, <3>10, SectionsApart
    <3>12. v.kind # "block"
      <4>1. Offset(log, v) % BlockSize # 0
        BY <1>1, <3>1, <3>9 DEF Whole, Off
      <4> QED
        BY <1>1, <3>10, <4>1 DEF WellFormed
    <3>13. End(v) <= e /\ ~v.good
      BY <3>9, <3>12
    <3>14. End(v) >= b + ChunkSize
      BY <3>8, <3>11, <3>13
    <3>15. End(v) \in Nat
      BY <1>1, <3>10, SectionHas
    <3> QED
      BY <1>1, <1>5, <1>7, <3>7, <3>13, <3>14, <3>15
  <2>3. NoneIn(x, x)
    <3> SUFFICES ASSUME NEW t \in Intact, x <= Off(t), Off(t) < x PROVE FALSE
      BY DEF NoneIn
    <3>1. Off(t) \in Nat
      BY <1>1, IntactIs, SectionHas
    <3> QED
      BY <1>1, <3>1
  <2>4. BlockOf(p) + BlockSize = x
    BY <2>1, <2>2
  <2> HIDE DEF b
  <2> QED
    BY <1>1, <1>4, <1>5, <2>3, <2>4
<1> QED
  BY <1>8, <1>9

LEMMA NoneInJoin ==
  ASSUME TypeInv, Clear(log), NEW a, NEW x, NEW y, x \in Nat, y \in Nat, NoneIn(a, x), NoneIn(x, y)
  PROVE  NoneIn(a, y)
<1> SUFFICES ASSUME NEW t \in Intact, a <= Off(t), Off(t) < y PROVE FALSE
  BY DEF NoneIn
<1>1. Off(t) \in Nat
  BY ClearIs, IntactIs, SectionHas
<1>2. ~(a <= Off(t) /\ Off(t) < x) /\ ~(x <= Off(t) /\ Off(t) < y)
  BY DEF NoneIn
<1> QED
  BY <1>1, <1>2

LEMMA ChainGoesOn ==
  ASSUME TypeInv, Clear(log), NEW x \in Nat, NEW y \in Nat, x <= y, Chain(x), NoneIn(x, y)
  PROVE  Chain(y)
<1>1. ASSUME NEW v, IsData(v), UpTo(v, x)
      PROVE  UpTo(v, y)
  <2>1. End(Sec(v)) <= x /\ NoneIn(End(Sec(v)), x)
    BY <1>1 DEF UpTo
  <2>2. Sec(v) \in Intact
    BY <1>1 DEF IsData
  <2>3. End(Sec(v)) \in Nat
    <3> DEFINE s == Sec(v)
    <3>1. s \in Intact
      BY <2>2
    <3> HIDE DEF s
    <3>2. s \in log.sections
      BY <3>1, ClearIs, IntactIs
    <3>3. End(s) \in Nat
      BY <3>2, ClearIs, SectionHas
    <3> QED
      BY <3>3 DEF s
  <2>4. NoneIn(End(Sec(v)), y)
    BY <2>1, NoneInJoin
  <2> QED
    BY <2>1, <2>3, <2>4 DEF UpTo
<1>2. CASE currentData = <<>>
  <2>1. nextData = <<>> /\ NoneIn(0, x)
    BY <1>2 DEF Chain
  <2>2. NoneIn(0, y)
    BY <2>1, NoneInJoin
  <2> QED
    BY <1>2, <2>1, <2>2 DEF Chain
<1>3. CASE currentData # <<>>
  BY <1>1, <1>3 DEF Chain
<1> QED
  BY <1>2, <1>3

LEMMA DownloadJunkData ==
  ASSUME TypeInv, Clear(log), StartInv, PhaseInv, DataInv, Download, Verify(extraData) # "more"
  PROVE  DataInv'
<1>1. Filling /\ BytesLeft # 0 /\ Verify(extraData) = "junk"
  BY DEF Download, Downloading, Verify
<1>2. PICK x \in Offsets, e \in Offsets, d \in Offsets : Filler(x, e, d)
  BY <1>1, GetFiller
<1>3. /\ x \in Nat /\ Chain(x) /\ WellFormed(log) /\ ~done
  BY <1>2, FillerIs, NumbersOfView
<1> DEFINE p == d - ChunkSize
<1>4. /\ Fetched(x, d) /\ p \in Nat /\ x <= BlockOf(p) + BlockSize /\ NoneIn(x, BlockOf(p) + BlockSize)
  BY <1>1, <1>2, JunkGoesOn
<1>5. previous = Adr(p) /\ p < log.size
  BY <1>4 DEF Fetched
<1>6. /\ log' = log /\ currentData' = currentData /\ nextData' = nextData /\ done' = done
      /\ extraData' = <<>> /\ download' = Normalized(NextBlockAddress(previous))
  BY DEF Download, flags
<1>7. /\ log.size \in Nat /\ log.size <= StorageSize /\ StorageSize \in Nat /\ BlockSize \in Nat \ {0} /\ BlockSize <= StorageSize
      /\ BlockOf(p) \in Nat /\ Whole(BlockOf(p)) /\ BlockOf(p) <= p
  BY <1>3, <1>4, LogIs, Constants, Pieces, BlockIs
<1> HIDE DEF p
<1>8. PICK d2 \in Offsets : d2 = BlockOf(p) + BlockSize
  BY <1>4, <1>5, <1>7 DEF Offsets
<1>9. d2 \in Nat /\ Whole(d2) /\ d2 < log.size + BlockSize
  BY <1>4, <1>5, <1>7, <1>8, WholeSum
<1>10. download' = Adr(d2)
  BY <1>3, <1>4, <1>5, <1>6, <1>8, <1>9, NextBlockIs
<1>11. View(d2, d2, d2)'
  <2>1. Jumped(d2, d2)
    BY <1>9 DEF Jumped, Whole
  <2>2. Boundary(d2) /\ GoodUpTo(d2)
    BY <1>3, <1>9, BlockBegins
  <2>3. Len(extraData') = d2 - d2 /\ \A i \in 1 .. d2 - d2 : extraData'[i] = Place(d2 + i - 1)
    BY <1>6, <1>9
  <2>4. d2 <= d2 /\ ~(d2 < d2)
    BY <1>9
  <2> QED
    BY <1>6, <1>10, <2>1, <2>2, <2>3, <2>4, ViewNext
<1>12. Chain(d2)'
  <2>1. Chain(d2)
    BY <1>3, <1>4, <1>8, <1>9, ChainGoesOn
  <2> QED
    BY <1>6, <2>1, ChainNext, ChainIs
<1> QED
  BY <1>3, <1>6, <1>11, <1>12, Zenon DEF DataInv

-----------------------------------------------------------------------------
(* The other steps keep what the buffers hold *)

LEMMA LeftStaysNone ==
  ASSUME log' = log, download' = download, started' = started \/ started' = TRUE, BytesLeft = 0
  PROVE  BytesLeft' = 0
BY DEF BytesLeft

LEMMA ViewStays ==
  ASSUME TypeInv, Clear(log), StartInv,
         NEW x \in Offsets, NEW e \in Offsets, NEW d \in Offsets, View(x, e, d), Chain(x),
         log' = log, download' = download, previous' = previous, extraData' = extraData,
         started' = started \/ started' = TRUE,
         call' = call \/ ((Filling' => ~call'.fetched) /\ (~Filling \/ BytesLeft # 0))
  PROVE  View(x, e, d)'
<1>1. /\ x \in Nat /\ e \in Nat /\ d \in Nat /\ x <= e /\ e <= d /\ log.size \in Nat /\ StorageSize \in Nat
  BY NumbersOfView, LogIs, Constants
<1>2. /\ download' = Adr(d) /\ Boundary(x) /\ GoodUpTo(x) /\ Held(x, e)
      /\ x < e => x < StorageSize
  BY Zenon DEF View
<1>3. Len(extraData') = e - x /\ \A i \in 1 .. e - x : extraData'[i] = Place(x + i - 1)
  BY <1>2 DEF Held
<1>4. e # d => e = log.size /\ BytesLeft' = 0 /\ (Filling' => ~call'.fetched)
  <2> SUFFICES ASSUME e # d PROVE e = log.size /\ BytesLeft' = 0 /\ (Filling' => ~call'.fetched)
    OBVIOUS
  <2>1. e = log.size /\ BytesLeft = 0 /\ (Filling => ~call.fetched)
    BY Zenon DEF View
  <2>2. call' = call => (Filling' <=> Filling)
    BY DEF Filling
  <2> QED
    BY <2>1, <2>2, LeftStaysNone
<1>5. x < e /\ log.size < e => StorageSize <= d \/ (x < log.size /\ Filling' /\ call'.fetched)
  <2> SUFFICES ASSUME x < e, log.size < e, ~(StorageSize <= d)
               PROVE  x < log.size /\ Filling' /\ call'.fetched
    OBVIOUS
  <2>1. x < log.size /\ Filling /\ call.fetched
    BY Zenon DEF View
  <2>2. log.size <= d /\ d < StorageSize
    BY <1>1
  <2>3. BytesLeft = 0
    BY <2>2, LeftInView
  <2>4. call' = call
    BY <2>1, <2>3
  <2> QED
    BY <2>1, <2>4 DEF Filling
<1>6. \/ Jumped(x, d)
      \/ /\ ChunkSize <= d /\ previous' = Adr(d - ChunkSize)
         /\ d - ChunkSize < log.size /\ x <= log.size /\ Near(x, d - ChunkSize)
  BY Zenon DEF View, Fetched
<1> QED
  BY <1>1, <1>2, <1>3, <1>4, <1>5, <1>6, ViewNext

\* A step that leaves the buffers alone.
LEMMA DataStays ==
  ASSUME TypeInv, Clear(log), StartInv, DataInv,
         log' = log, download' = download, previous' = previous, extraData' = extraData,
         currentData' = currentData, nextData' = nextData, done' = done,
         started' = started \/ started' = TRUE,
         call' = call \/ ((Filling' => ~call'.fetched) /\ (~Filling \/ BytesLeft # 0))
  PROVE  DataInv'
<1>1. CASE done
  <2>1. /\ nextData = <<>> /\ extraData = <<>> /\ BytesLeft = 0
        /\ IsData(currentData) /\ NoneIn(End(Sec(currentData)), StorageSize)
    BY <1>1 DEF DataInv
  <2>2. BytesLeft' = 0
    BY <2>1, LeftStaysNone
  <2>3. IsData(currentData)' /\ Sec(currentData)' = Sec(currentData)
    BY <2>1, SecNext
  <2>4. NoneIn(End(Sec(currentData)), StorageSize)'
    BY <2>1, <2>3 DEF NoneIn, End, Intact, Off
  <2> QED
    BY <1>1, <2>1, <2>2, <2>3, <2>4 DEF DataInv
<1>2. CASE ~done
  <2>1. PICK x \in Offsets, e \in Offsets, d \in Offsets : View(x, e, d) /\ Chain(x)
    BY <1>2, Zenon DEF DataInv
  <2>2. View(x, e, d)'
    BY <2>1, ViewStays
  <2>3. Chain(x)'
    BY <2>1, ChainNext, ChainIs
  <2> QED
    BY <1>2, <2>2, <2>3, Zenon DEF DataInv
<1> QED
  BY <1>1, <1>2

\* How far a section has been read when the next is taken up.
LEMMA ReadAll ==
  ASSUME TypeInv, Clear(log), PhaseInv, DataInv, call.at = "swap", ~(readIndex < Len(currentData))
  PROVE  nextData # <<>> /\ ~done /\ call.header /\ call.got = <<>> /\ readIndex = Len(currentData)
<1>1. ~partial /\ currentData # <<>>
  BY DEF PhaseInv
<1>2. readIndex \in Nat /\ readIndex <= Len(currentData)
  BY DEF TypeInv
<1>3. IsData(currentData)
  <2>1. CASE done
    BY <2>1 DEF DataInv
  <2>2. CASE ~done
    <3>1. PICK x \in Offsets : Chain(x)
      BY <2>2, Zenon DEF DataInv
    <3> QED
      BY <1>1, <3>1 DEF Chain
  <2> QED
    BY <2>1, <2>2
<1>4. Len(currentData) > HeaderSize
  <2> DEFINE s == Sec(currentData)
  <2>1. s \in Intact /\ currentData = Bytes(Head(currentData), Length(s) - 1) /\ s = SectionAt(Head(currentData))
        /\ SectionsAt(Head(currentData)) # {}
    BY <1>3 DEF IsData, Sec
  <2>2. s \in SectionsAt(Head(currentData))
    BY <2>1 DEF SectionAt
  <2>3. s.at = Head(currentData) /\ s \in log.sections
    BY <2>2 DEF SectionsAt
  <2> HIDE DEF s
  <2>4. Len(currentData) = Length(s) - 1
    BY <2>1, <2>3, FoundData
  <2>5. Length(s) = HeaderSize + s.sweeps + 1 /\ s.sweeps \in Nat /\ 1 <= s.sweeps
    BY <2>3, ClearIs, SectionHas
  <2> QED
    BY <2>4, <2>5, Pieces
<1>5. call.header
  <2> SUFFICES ASSUME ~call.header PROVE FALSE
    OBVIOUS
  <2>1. InSweeps
    BY Zenon DEF PhaseInv
  <2> QED
    BY <1>2, <2>1 DEF InSweeps
<1>6. ~InHeader
  BY <1>2, <1>4, Pieces DEF InHeader
<1>7. call.got = <<>> /\ nextData # <<>>
  BY <1>1, <1>5, <1>6, Zenon DEF PhaseInv
<1>8. ~done
  BY <1>7 DEF DataInv
<1> QED
  BY <1>2, <1>5, <1>7, <1>8

LEMMA SwapData ==
  ASSUME TypeInv, Clear(log), StartInv, PhaseInv, DataInv, Swap
  PROVE  DataInv'
<1>1. /\ log' = log /\ download' = download /\ previous' = previous /\ extraData' = extraData
      /\ done' = done /\ started' = started /\ call.at = "swap" /\ ~Filling /\ call \in Calls
  BY DEF Swap, place, Filling, TypeInv
<1>2. Filling' => ~call'.fetched
  BY <1>1 DEF Swap, Goto, Fill, Filling, Calls
<1>3. CASE readIndex < Len(currentData)
  <2>1. currentData' = currentData /\ nextData' = nextData
    BY <1>3 DEF Swap
  <2> QED
    BY <1>1, <1>2, <2>1, DataStays
<1>4. CASE ~(readIndex < Len(currentData))
  <2>1. currentData' = nextData /\ nextData' = <<>> /\ nextData # <<>> /\ ~done
    BY <1>1, <1>4, ReadAll DEF Swap
  <2>2. PICK x \in Offsets, e \in Offsets, d \in Offsets : View(x, e, d) /\ Chain(x)
    BY <2>1, Zenon DEF DataInv
  <2>3. View(x, e, d)'
    BY <1>1, <1>2, <2>2, ViewStays
  <2>4. IsData(nextData) /\ UpTo(nextData, x)
    BY <2>1, <2>2 DEF Chain
  <2>5. Chain(x)'
    BY <1>1, <2>1, <2>4, ChainNext DEF ChainOf
  <2> QED
    BY <1>1, <2>1, <2>3, <2>5, Zenon DEF DataInv
<1> QED
  BY <1>3, <1>4

LEMMA DataKept ==
  ASSUME TypeInv, Clear(log), StartInv, PhaseInv, DataInv, [Next]_vars
  PROVE  DataInv'
<1> USE DEF place, buffer, flags, memory
<1>0. call \in Calls
  BY DEF TypeInv
<1>1. CASE GetNextData
  <2>1. ~Filling /\ (call' = call \/ ~Filling')
    BY <1>0, <1>1 DEF GetNextData, Idle, Filling, NoCall
  <2> QED
    BY <1>1, <2>1, DataStays DEF GetNextData
<1>2. CASE NextByte
  <2>1. ~Filling /\ (Filling' => ~call'.fetched)
    <3>1. ~Filling
      BY <1>2 DEF NextByte, Filling
    <3>2. \/ call' = NoCall \/ call' = [call EXCEPT !.at = "swap"]
          \/ \E w \in Places : call' = [call EXCEPT !.at = w, !.fetched = FALSE]
      BY <1>2 DEF NextByte, Throw, Fill, Goto, Places
    <3>3. Filling' => ~call'.fetched
      <4>1. CASE call' = NoCall
        BY <4>1 DEF Filling, NoCall
      <4>2. CASE call' = [call EXCEPT !.at = "swap"]
        BY <1>0, <4>2 DEF Filling, Calls
      <4>3. ASSUME NEW w \in Places, call' = [call EXCEPT !.at = w, !.fetched = FALSE]
            PROVE  ~call'.fetched
        BY <1>0, <4>3, Zenon DEF Calls
      <4> QED
        BY <3>2, <4>1, <4>2, <4>3, Zenon
    <3> QED
      BY <3>1, <3>3
  <2> QED
    BY <1>2, <2>1, DataStays DEF NextByte
<1>3. CASE Swap
  BY <1>3, SwapData
<1>4. CASE Take
  <2>1. ~Filling
    BY <1>4 DEF Take, Filling
  <2>2. ~Filling'
    <3>1. call'.at \in {"idle", "outOfRange", "byte"}
      <4>1. NoCall.at = "idle" /\ [NoCall EXCEPT !.at = "outOfRange"].at = "outOfRange"
        BY DEF NoCall
      <4>2. CASE readIndex >= Len(currentData)
        BY <1>4, <4>1, <4>2 DEF Take, ThrowOutOfRange
      <4>3. CASE ~(readIndex >= Len(currentData))
        <5> DEFINE got == Append(call.got, currentData[readIndex + 1])
        <5>1. call' = NoCall \/ call' = [call EXCEPT !.at = "byte", !.got = got]
          BY <1>4, <4>3 DEF Take
        <5> HIDE DEF got
        <5> QED
          BY <1>0, <4>1, <5>1 DEF Calls
      <4> QED
        BY <4>2, <4>3
    <3> QED
      BY <3>1 DEF Filling
  <2> QED
    BY <1>4, <2>1, <2>2, DataStays DEF Take
<1>5. CASE FillSection
  BY <1>5, FillSectionData
<1>6. CASE FillNothing
  BY <1>6, FillNothingData
<1>7. CASE Download
  BY <1>7, DownloadMoreData, DownloadJunkData
<1>8. CASE DownloadFails
  <2>1. ~Filling' /\ BytesLeft # 0
    BY <1>8 DEF DownloadFails, Downloading, Throw, NoCall, Filling
  <2> QED
    BY <1>8, <2>1, DataStays DEF DownloadFails
<1>9. CASE UNCHANGED vars
  BY <1>9, DataStays DEF vars
<1> QED
  BY <1>1, <1>2, <1>3, <1>4, <1>5, <1>6, <1>7, <1>8, <1>9 DEF Next

-----------------------------------------------------------------------------
(* Where a call is *)

LEMMA StartKept ==
  ASSUME TypeInv, Clear(log), StartInv, PhaseInv, DataInv, [Next]_vars
  PROVE  StartInv'
<1> USE DEF place, buffer, flags, memory
<1>1. ASSUME log' = log, currentData' = currentData, started' = started, readIndex' \in {0, readIndex}
      PROVE  StartInv'
  <2>1. Sec(currentData)' = Sec(currentData)
    BY <1>1, SecNext
  <2>2. \A s \in Intact' : Off(Sec(currentData))' <= Off(s)' <=> Off(Sec(currentData)) <= Off(s)
    BY <1>1, <2>1 DEF Off
  <2>3. Intact' = Intact
    BY <1>1 DEF Intact
  <2> QED
    BY <1>1, <2>2, <2>3 DEF StartInv
<1>2. CASE GetNextData \/ NextByte \/ DownloadFails \/ Download \/ UNCHANGED vars
  BY <1>1, <1>2 DEF GetNextData, NextByte, DownloadFails, Download, vars
<1>3. CASE Swap
  <2>1. CASE readIndex < Len(currentData)
    BY <1>1, <1>3, <2>1 DEF Swap
  <2>2. CASE ~(readIndex < Len(currentData))
    <3>1. call.at = "swap"
      BY <1>3 DEF Swap
    <3>2. nextData # <<>> /\ readIndex = Len(currentData)
      BY <2>2, <3>1, ReadAll
    <3>3. currentData # <<>>
      BY <3>1 DEF PhaseInv
    <3>4. started
      <4>1. readIndex # 0
        BY <3>2, <3>3 DEF TypeInv
      <4> QED
        BY <4>1 DEF StartInv
    <3>5. currentData' = nextData /\ started' = started
      BY <1>3, <2>2 DEF Swap
    <3> QED
      BY <3>2, <3>4, <3>5 DEF StartInv
  <2> QED
    BY <2>1, <2>2
<1>4. CASE Take
  <2>1. currentData # <<>> /\ started' = TRUE /\ currentData' = currentData
    BY <1>4 DEF Take, PhaseInv
  <2> QED
    BY <2>1 DEF StartInv
<1>5. CASE FillNothing
  <2>1. Filled
    BY <1>5 DEF FillNothing
  <2>2. readIndex' \in {0, readIndex}
    BY <2>1, FilledIs
  <2> QED
    BY <1>1, <1>5, <2>2 DEF FillNothing
<1>6. CASE FillSection
  <2>1. PICK x \in Offsets, e \in Offsets, d \in Offsets : Filler(x, e, d)
    BY <1>6, GetFiller DEF FillSection
  <2>2. PICK s \in Intact :
           /\ Off(s) = x
           /\ IF call.at = "fillCurrent" THEN currentData' = Bytes(s.at, Length(s) - 1)
              ELSE currentData' = currentData
           /\ Filled
    BY <1>6, <2>1, FillSectionIs
  <2>3. log' = log /\ started' = started /\ readIndex' \in {0, readIndex}
    BY <1>6, <2>2, FilledIs DEF FillSection
  <2>4. CASE call.at # "fillCurrent"
    BY <1>1, <2>2, <2>3, <2>4
  <2>5. CASE call.at = "fillCurrent"
    <3> DEFINE b == Bytes(s.at, Length(s) - 1)
    <3>1. b # <<>> /\ Sec(b) = s /\ currentData' = b
      BY <2>2, <2>5, FoundData, Zenon
    <3> HIDE DEF b
    <3>2. currentData = <<>> /\ NoneIn(0, x) /\ ~started /\ x \in Nat
      <4>1. currentData = <<>> /\ Chain(x) /\ x \in Nat
        BY <2>1, <2>5, FillerIs, NumbersOfView
      <4> QED
        BY <4>1 DEF Chain, StartInv
    <3>3. \A t \in Intact : Off(s) <= Off(t)
      <4> TAKE t \in Intact
      <4>1. Off(t) \in Nat
        BY ClearIs, IntactIs, SectionHas
      <4> QED
        BY <2>2, <3>2, <4>1 DEF NoneIn
    <3>4. Sec(currentData)' = s
      BY <2>3, <3>1, SecNext
    <3>5. \A t \in Intact' : Off(Sec(currentData))' <= Off(t)'
      BY <2>3, <3>3, <3>4 DEF Intact, Off
    <3>6. readIndex' = 0
      BY <2>3, <3>2 DEF StartInv
    <3> QED
      BY <2>3, <3>1, <3>2, <3>5, <3>6 DEF StartInv
  <2> QED
    BY <2>4, <2>5
<1> QED
  BY <1>2, <1>3, <1>4, <1>5, <1>6 DEF Next

LEMMA LeftIsNat ==
  ASSUME TypeInv
  PROVE  BytesLeft \in Nat
<1>1. download \in Nat /\ log.start \in Nat /\ log.size \in Nat /\ StorageSize \in Nat
  BY LogIs, Constants DEF TypeInv
<1>2. log.size - (IF download >= log.start THEN download - log.start
                  ELSE StorageSize - log.start + download) \in Int
  BY <1>1
<1> QED
  BY <1>2 DEF BytesLeft, AtLeastZero

LEMMA DataIs ==
  ASSUME TypeInv, Clear(log), DataInv, currentData # <<>>
  PROVE  IsData(currentData)
<1>1. CASE done
  BY <1>1 DEF DataInv
<1>2. CASE ~done
  <2>1. PICK x \in Offsets : Chain(x)
    BY <1>2, Zenon DEF DataInv
  <2> QED
    BY <2>1 DEF Chain
<1> QED
  BY <1>1, <1>2

\* What is known of a section from its data.
LEMMA DataHas ==
  ASSUME TypeInv, Clear(log), NEW v, IsData(v)
  PROVE  /\ Sec(v) \in Intact /\ Sec(v) \in log.sections /\ Head(v) = Sec(v).at
         /\ v = Bytes(Sec(v).at, Length(Sec(v)) - 1) /\ v \in Seq(Address)
         /\ Len(v) = HeaderSize + Sec(v).sweeps /\ Sec(v).sweeps \in Nat /\ 1 <= Sec(v).sweeps
         /\ End(Sec(v)) = Off(Sec(v)) + Len(v) + 1
         /\ Off(Sec(v)) \in Nat /\ HeaderSize \in Nat /\ 2 <= HeaderSize
<1> DEFINE s == Sec(v)
<1>1. s \in Intact /\ v = Bytes(Head(v), Length(s) - 1) /\ s = SectionAt(Head(v)) /\ SectionsAt(Head(v)) # {}
  BY DEF IsData, Sec
<1>2. s \in SectionsAt(Head(v))
  BY <1>1 DEF SectionAt
<1>3. s.at = Head(v) /\ s \in log.sections
  BY <1>2 DEF SectionsAt
<1> HIDE DEF s
<1>4. Len(v) = Length(s) - 1 /\ v \in Seq(Address)
  BY <1>1, <1>3, FoundData
<1>5. /\ Length(s) = HeaderSize + s.sweeps + 1 /\ s.sweeps \in Nat /\ 1 <= s.sweeps
      /\ End(s) = Off(s) + Length(s) /\ Off(s) \in Nat
  BY <1>3, ClearIs, SectionHas
<1>6. HeaderSize \in Nat /\ 2 <= HeaderSize
  BY Pieces
<1>7. Len(v) = HeaderSize + s.sweeps /\ End(s) = Off(s) + Len(v) + 1
  BY <1>4, <1>5, <1>6
<1>8. v = Bytes(s.at, Length(s) - 1)
  BY <1>1, <1>3
<1> QED
  BY <1>1, <1>3, <1>4, <1>5, <1>6, <1>7, <1>8 DEF s

LEMMA SameRemaining ==
  ASSUME log' = log, download' = download, started' = started, nextData' = nextData,
         extraData' = extraData, currentData' = currentData, readIndex' = readIndex
  PROVE  BytesRemaining' = BytesRemaining
BY DEF BytesRemaining, BytesLeft

LEMMA ReadersFoundOne ==
  ASSUME TypeInv, Clear(log), DataInv, SessionInv, currentData # <<>>, HeaderSize < readIndex
  PROVE  session.found
<1>1. IsData(currentData)
  BY DataIs
<1>2. Sec(currentData) \in Intact /\ Off(Sec(currentData)) \in Nat /\ HeaderSize \in Nat
  BY <1>1, DataHas
<1>3. Off(Sec(currentData)) + HeaderSize <= Frontier
  <2>1. Frontier = Off(Sec(currentData)) + readIndex
    BY DEF Frontier
  <2>2. readIndex \in Nat
    BY DEF TypeInv
  <2> QED
    BY <1>2, <2>1, <2>2
<1> QED
  BY <1>2, <1>3, Zenon DEF SessionInv

\* What a call does to the record of where it is.
LEMMA CallMoves ==
  ASSUME call \in Calls
  PROVE  /\ \A w \in Places : call' = [call EXCEPT !.at = w] =>
              call'.at = w /\ call'.header = call.header /\ call'.got = call.got
         /\ \A w \in Places : call' = [call EXCEPT !.at = w, !.fetched = FALSE] =>
              call'.at = w /\ call'.header = call.header /\ call'.got = call.got
         /\ \A w \in Places : call' = [NoCall EXCEPT !.at = w] =>
              call'.at = w /\ call'.header = FALSE /\ call'.got = <<>>
         /\ \A w \in Places : call' = [NoCall EXCEPT !.at = w, !.header = TRUE] =>
              call'.at = w /\ call'.header = TRUE /\ call'.got = <<>>
         /\ call' = NoCall => call'.at = "idle" /\ call'.header = FALSE /\ call'.got = <<>>
         /\ call' = [call EXCEPT !.fetched = TRUE] =>
              call'.at = call.at /\ call'.header = call.header /\ call'.got = call.got
<1>0. DOMAIN call = {"at", "header", "got", "fetched"} /\ call = [f \in DOMAIN call |-> call[f]]
  BY DEF Calls
<1>1. ASSUME NEW w \in Places, call' = [call EXCEPT !.at = w]
      PROVE  call'.at = w /\ call'.header = call.header /\ call'.got = call.got
  BY <1>0, <1>1, Zenon
<1>2. ASSUME NEW w \in Places, call' = [call EXCEPT !.at = w, !.fetched = FALSE]
      PROVE  call'.at = w /\ call'.header = call.header /\ call'.got = call.got
  BY <1>0, <1>2, Zenon
<1>3. ASSUME NEW w \in Places, call' = [NoCall EXCEPT !.at = w]
      PROVE  call'.at = w /\ call'.header = FALSE /\ call'.got = <<>>
  BY <1>3, Zenon DEF NoCall
<1>4. ASSUME NEW w \in Places, call' = [NoCall EXCEPT !.at = w, !.header = TRUE]
      PROVE  call'.at = w /\ call'.header = TRUE /\ call'.got = <<>>
  BY <1>4, Zenon DEF NoCall
<1>5. call' = NoCall => call'.at = "idle" /\ call'.header = FALSE /\ call'.got = <<>>
  <2>1. NoCall.at = "idle" /\ NoCall.header = FALSE /\ NoCall.got = <<>>
    BY DEF NoCall
  <2> QED
    BY <2>1, Zenon
<1>6. call' = [call EXCEPT !.fetched = TRUE] =>
        call'.at = call.at /\ call'.header = call.header /\ call'.got = call.got
  BY <1>0, Zenon
<1> QED
  BY <1>1, <1>2, <1>3, <1>4, <1>5, <1>6, Zenon

LEMMA GetNextPhase ==
  ASSUME TypeInv, Clear(log), StartInv, DataInv, SessionInv, PhaseInv, GetNextData
  PROVE  PhaseInv'
<1> USE DEF place, buffer, flags, memory
<1>1. /\ partial' = partial /\ done' = done /\ nextData' = nextData /\ readIndex' = readIndex
      /\ currentData' = currentData /\ started' = started /\ extraData' = extraData
      /\ log' = log /\ download' = download /\ call \in Calls
  BY DEF GetNextData, TypeInv
<1>2. BytesRemaining' = BytesRemaining
  BY <1>1, SameRemaining
<1>3. call.at = "idle"
  BY DEF GetNextData, Idle, PhaseInv
<1>4. CASE Complete
  <2>1. call' = call /\ outOfMemory' = TRUE
    BY <1>4 DEF GetNextData
  <2>2. BytesRemaining = 0
    BY <1>4, Zenon DEF Complete, PhaseInv
  <2> QED
    BY <1>1, <1>2, <1>3, <2>1, <2>2 DEF PhaseInv, Fills
<1>5. CASE ~Complete
  <2>1. BytesRemaining # 0 /\ ~outOfMemory
    BY <1>5 DEF Complete
  <2>2. CASE IsNextByteNewHeader
    <3>1. call' = [NoCall EXCEPT !.at = "byte", !.header = TRUE] /\ outOfMemory' = outOfMemory
      BY <1>5, <2>2 DEF GetNextData
    <3>2. call'.at = "byte" /\ call'.header = TRUE /\ call'.got = <<>>
      BY <1>1, <3>1, CallMoves DEF Places
    <3>3. partial \/ readIndex = Len(currentData)
      <4>1. partial \/ readIndex >= Len(currentData)
        BY <2>2 DEF IsNextByteNewHeader
      <4>2. readIndex \in Nat /\ readIndex <= Len(currentData) /\ Len(currentData) \in Nat
        BY DEF TypeInv
      <4> QED
        BY <4>1, <4>2
    <3> QED
      BY <1>1, <1>2, <2>1, <3>1, <3>2, <3>3 DEF PhaseInv, Fills
  <2>3. CASE ~IsNextByteNewHeader
    <3>1. ~partial /\ readIndex < Len(currentData) /\ currentData # <<>>
      <4>1. ~partial /\ ~(readIndex >= Len(currentData))
        BY <2>1, <2>3, Zenon DEF IsNextByteNewHeader
      <4>2. readIndex \in Nat /\ Len(currentData) \in Nat
        BY DEF TypeInv
      <4>3. readIndex < Len(currentData)
        BY <4>1, <4>2
      <4>4. currentData # <<>>
        BY <4>2, <4>3
      <4> QED
        BY <4>1, <4>3, <4>4
    <3>2. HeaderSize < readIndex
      BY <1>3, <3>1, Zenon DEF PhaseInv
    <3>3. session.found
      BY <3>1, <3>2, ReadersFoundOne
    <3>4. call' = [NoCall EXCEPT !.at = "byte"] /\ outOfMemory' = outOfMemory
      BY <1>5, <2>3, <3>3 DEF GetNextData
    <3>5. call'.at = "byte" /\ call'.header = FALSE /\ call'.got = <<>>
      BY <1>1, <3>4, CallMoves DEF Places
    <3>6. InSweeps'
      BY <1>1, <3>1, <3>2, <3>5 DEF InSweeps
    <3> QED
      BY <1>1, <1>2, <2>1, <3>1, <3>4, <3>5, <3>6 DEF PhaseInv, Fills
  <2> QED
    BY <2>2, <2>3
<1> QED
  BY <1>4, <1>5

LEMMA NextBytePhase ==
  ASSUME TypeInv, Clear(log), StartInv, DataInv, PhaseInv, NextByte
  PROVE  PhaseInv'
<1> USE DEF place, buffer, flags, memory
<1>1. /\ done' = done /\ nextData' = nextData /\ readIndex' = readIndex
      /\ currentData' = currentData /\ started' = started /\ extraData' = extraData /\ outOfMemory' = outOfMemory
      /\ call \in Calls /\ call.at = "byte" /\ partial \in BOOLEAN
      /\ readIndex \in Nat /\ HeaderSize \in Nat
  BY Pieces DEF NextByte, TypeInv
<1>2. BytesRemaining # 0 /\ ~outOfMemory
  BY <1>1 DEF PhaseInv
<1>3. CASE currentData = <<>>
  <2>1. call' = [call EXCEPT !.at = "fillCurrent", !.fetched = FALSE] /\ partial' = TRUE
    BY <1>2, <1>3 DEF NextByte, Fill
  <2>2. ~done /\ ~started /\ readIndex = 0 /\ call.got = <<>>
    BY <1>3, Zenon DEF PhaseInv
  <2>3. nextData = <<>>
    BY <1>3, <2>2 DEF DataInv, Chain
  <2>4. call.header
    <3> SUFFICES ASSUME ~call.header PROVE FALSE
      OBVIOUS
    <3>1. InSweeps
      BY <1>1, Zenon DEF PhaseInv
    <3> QED
      BY <1>1, <2>2, <3>1 DEF InSweeps
  <2>5. call'.at = "fillCurrent" /\ call'.header = call.header /\ call'.got = call.got
    BY <1>1, <2>1, CallMoves DEF Places
  <2> QED
    BY <1>1, <1>2, <1>3, <2>1, <2>2, <2>3, <2>4, <2>5 DEF PhaseInv, Fills
<1>4. CASE currentData # <<>> /\ partial
  <2>1. call' = [call EXCEPT !.at = "fillAgain", !.fetched = FALSE] /\ partial' = TRUE
    BY <1>2, <1>4 DEF NextByte, Fill
  <2>2. ~done /\ nextData = <<>> /\ readIndex = 0 /\ call.header /\ call.got = <<>>
    BY <1>1, <1>4, Zenon DEF PhaseInv
  <2>3. call'.at = "fillAgain" /\ call'.header = call.header /\ call'.got = call.got
    BY <1>1, <2>1, CallMoves DEF Places
  <2> QED
    BY <1>1, <1>2, <1>4, <2>1, <2>2, <2>3 DEF PhaseInv, Fills
<1>5. CASE currentData # <<>> /\ ~partial
  <2>1. call' = [call EXCEPT !.at = "swap"] /\ partial' = partial
    BY <1>2, <1>5 DEF NextByte, Goto
  <2>2. call'.at = "swap" /\ call'.header = call.header /\ call'.got = call.got
    BY <1>1, <2>1, CallMoves DEF Places
  <2>3. ~call.header => InSweeps
    BY <1>1, Zenon DEF PhaseInv
  <2>4. call.header => \/ InHeader
                       \/ call.got = <<>> /\ readIndex = Len(currentData)
    BY <1>1, <1>5, Zenon DEF PhaseInv
  <2>5. readIndex = Len(currentData) => nextData # <<>>
    <3> SUFFICES ASSUME readIndex = Len(currentData), nextData = <<>> PROVE FALSE
      OBVIOUS
    <3>1. done
      BY <1>5, Zenon DEF PhaseInv
    <3>2. extraData = <<>> /\ BytesLeft = 0
      BY <3>1 DEF DataInv
    <3>3. BytesRemaining = 0
      <4>1. Len(extraData) = 0 /\ Len(nextData) = 0 /\ Len(currentData) \in Nat
        BY <3>2 DEF TypeInv
      <4> QED
        BY <3>2, <4>1 DEF BytesRemaining
    <3> QED
      BY <1>2, <3>3
  <2>6. (~call'.header => InSweeps') /\ (InHeader => InHeader')
    BY <1>1, <2>2, <2>3 DEF InSweeps, InHeader
  <2>7. nextData = <<>> => done
    BY <1>5, Zenon DEF PhaseInv
  <2> QED
    BY <1>1, <1>2, <1>5, <2>1, <2>2, <2>4, <2>5, <2>6, <2>7 DEF PhaseInv, Fills
<1> QED
  BY <1>1, <1>3, <1>4, <1>5

LEMMA SwapPhase ==
  ASSUME TypeInv, Clear(log), StartInv, DataInv, PhaseInv, Swap
  PROVE  PhaseInv'
<1> USE DEF place, buffer, flags, memory
<1>1. /\ done' = done /\ started' = started /\ extraData' = extraData /\ outOfMemory' = outOfMemory
      /\ call \in Calls /\ call.at = "swap"
  BY DEF Swap, TypeInv
<1>2. ~partial /\ currentData # <<>> /\ ~outOfMemory
  BY <1>1, Zenon DEF PhaseInv
<1>3. CASE readIndex < Len(currentData)
  <2>1. /\ call' = [call EXCEPT !.at = "take"] /\ partial' = partial /\ readIndex' = readIndex
        /\ currentData' = currentData /\ nextData' = nextData
    BY <1>3 DEF Swap, Goto
  <2>2. call'.at = "take" /\ call'.header = call.header /\ call'.got = call.got
    BY <1>1, <2>1, CallMoves DEF Places
  <2>3. ~call.header => InSweeps
    BY <1>1, Zenon DEF PhaseInv
  <2>4. call.header => InHeader
    <3>1. readIndex # Len(currentData)
      BY <1>3 DEF TypeInv
    <3> QED
      BY <1>1, <1>2, <3>1, Zenon DEF PhaseInv
  <2>5. (~call'.header => InSweeps') /\ (call'.header => InHeader')
    BY <1>1, <2>1, <2>2, <2>3, <2>4 DEF InSweeps, InHeader
  <2>6. nextData = <<>> => done
    BY <1>2, Zenon DEF PhaseInv
  <2> QED
    BY <1>1, <1>2, <2>1, <2>2, <2>5, <2>6 DEF PhaseInv, Fills
<1>4. CASE ~(readIndex < Len(currentData))
  <2>1. nextData # <<>> /\ ~done /\ call.header /\ call.got = <<>>
    BY <1>1, <1>4, ReadAll
  <2>2. /\ call' = [call EXCEPT !.at = "fillNext", !.fetched = FALSE] /\ partial' = TRUE
        /\ currentData' = nextData /\ nextData' = <<>> /\ readIndex' = 0
    BY <1>4, <2>1 DEF Swap, Fill
  <2>3. call'.at = "fillNext" /\ call'.header = call.header /\ call'.got = call.got
    BY <1>1, <2>2, CallMoves DEF Places
  <2> QED
    BY <1>1, <1>2, <2>1, <2>2, <2>3 DEF PhaseInv, Fills
<1> QED
  BY <1>3, <1>4

LEMMA DownloadPhase ==
  ASSUME TypeInv, PhaseInv, Download \/ DownloadFails
  PROVE  PhaseInv'
<1> USE DEF place, buffer, flags, memory
<1>1. /\ done' = done /\ started' = started /\ outOfMemory' = outOfMemory /\ partial' = partial
      /\ readIndex' = readIndex /\ currentData' = currentData /\ nextData' = nextData
      /\ call \in Calls /\ call.at \in Fills /\ Filling
  BY DEF Download, DownloadFails, Downloading, Filling, Fills, TypeInv
<1>2. ~outOfMemory
  BY <1>1, Zenon DEF PhaseInv, Filling
<1>3. CASE Download
  <2>1. call' = [call EXCEPT !.fetched = TRUE]
    BY <1>3 DEF Download
  <2>2. call'.at = call.at /\ call'.header = call.header /\ call'.got = call.got
    BY <1>1, <2>1, CallMoves
  <2> QED
    BY <1>1, <1>2, <2>2 DEF PhaseInv, Fills
<1>4. CASE DownloadFails
  <2>1. call' = NoCall
    BY <1>4 DEF DownloadFails, Throw
  <2>2. call'.at = "idle" /\ call'.header = FALSE /\ call'.got = <<>>
    BY <1>1, <2>1, CallMoves
  <2>3. partial
    BY <1>1, Zenon DEF PhaseInv
  <2> QED
    BY <1>1, <1>2, <2>2, <2>3 DEF PhaseInv, Fills
<1> QED
  BY <1>3, <1>4

\* What Take does with the byte.
Read == Append(call.got, currentData[readIndex + 1])

LEMMA TakeIs ==
  ASSUME TypeInv, Clear(log), DataInv, PhaseInv, Take
  PROVE  /\ IsData(currentData) /\ ~partial /\ currentData # <<>> /\ readIndex < Len(currentData)
         /\ readIndex \in Nat /\ readIndex' = readIndex + 1 /\ started' = TRUE /\ call.at = "take"
         /\ log' = log /\ currentData' = currentData /\ nextData' = nextData /\ extraData' = extraData
         /\ download' = download /\ previous' = previous
         /\ partial' = partial /\ done' = done /\ outOfMemory' = outOfMemory /\ call \in Calls
         /\ ~call.header => /\ InSweeps /\ Read = <<currentData[readIndex + 1]>>
                            /\ call' = NoCall /\ session' = session
         /\ call.header => /\ InHeader /\ Len(Read) = readIndex + 1
                           /\ Read = SubSeq(currentData, 1, readIndex + 1)
                           /\ readIndex = HeaderSize => call' = NoCall
                           /\ readIndex < HeaderSize => call' = [call EXCEPT !.at = "byte", !.got = Read]
<1>1. /\ call.at = "take" /\ ~partial /\ currentData # <<>> /\ call \in Calls
      /\ readIndex \in Nat /\ readIndex <= Len(currentData) /\ HeaderSize \in Nat
  BY Pieces DEF Take, PhaseInv, TypeInv
<1>2. IsData(currentData)
  BY <1>1, DataIs
<1>3. /\ Len(currentData) = HeaderSize + Sec(currentData).sweeps /\ Sec(currentData).sweeps \in Nat
      /\ 1 <= Sec(currentData).sweeps /\ currentData \in Seq(Address)
  BY <1>2, DataHas
<1>4. ~call.header => InSweeps
  BY <1>1, Zenon DEF PhaseInv
<1>5. call.header => InHeader
  BY <1>1, Zenon DEF PhaseInv
<1>6. readIndex < Len(currentData)
  <2>1. CASE call.header
    BY <1>1, <1>3, <1>5, <2>1 DEF InHeader
  <2>2. CASE ~call.header
    BY <1>4, <2>2 DEF InSweeps
  <2> QED
    BY <2>1, <2>2
<1>7. ~(readIndex >= Len(currentData)) /\ currentData[readIndex + 1] \in Address
  <2>1. readIndex + 1 \in 1 .. Len(currentData)
    BY <1>1, <1>3, <1>6
  <2> QED
    BY <1>1, <1>3, <1>6, <2>1
<1>8. /\ readIndex' = readIndex + 1 /\ started' = TRUE
      /\ log' = log /\ currentData' = currentData /\ nextData' = nextData /\ extraData' = extraData
      /\ download' = download /\ previous' = previous
      /\ partial' = partial /\ done' = done /\ outOfMemory' = outOfMemory
  BY <1>7 DEF Take, place
<1>9. /\ IF call.header /\ Len(Read) = HeaderSize
         THEN session' = IF SectionsAt(Read[1]) = {} THEN session ELSE Parsed(SectionAt(Read[1]))
         ELSE UNCHANGED session
      /\ IF Len(Read) = (IF call.header THEN HeaderSize + 1 ELSE 1)
         THEN call' = NoCall
         ELSE call' = [call EXCEPT !.at = "byte", !.got = Read]
  BY <1>7, Zenon DEF Take, Read
<1>10. ASSUME ~call.header
       PROVE  Read = <<currentData[readIndex + 1]>> /\ call' = NoCall /\ session' = session
  <2>1. call.got = <<>>
    BY <1>4, <1>10 DEF InSweeps
  <2>2. Read = <<currentData[readIndex + 1]>> /\ Len(Read) = 1
    BY <2>1 DEF Read
  <2> QED
    BY <1>9, <1>10, <2>2, Zenon
<1>11. ASSUME call.header
       PROVE  /\ Len(Read) = readIndex + 1 /\ Read = SubSeq(currentData, 1, readIndex + 1)
              /\ readIndex = HeaderSize => call' = NoCall
              /\ readIndex < HeaderSize => call' = [call EXCEPT !.at = "byte", !.got = Read]
  <2>1. call.got = SubSeq(currentData, 1, readIndex) /\ readIndex <= HeaderSize
    BY <1>5, <1>11 DEF InHeader
  <2>2. Read = SubSeq(currentData, 1, readIndex + 1) /\ Len(Read) = readIndex + 1
    <3> DEFINE q == currentData
    <3>1. q \in Seq(Address) /\ readIndex < Len(q)
      BY <1>3, <1>6
    <3> HIDE DEF q
    <3>2. Append(SubSeq(q, 1, readIndex), q[readIndex + 1]) = SubSeq(q, 1, readIndex + 1)
      BY <1>1, <3>1
    <3>3. Len(SubSeq(q, 1, readIndex + 1)) = readIndex + 1
      BY <1>1, <3>1
    <3> QED
      BY <2>1, <3>2, <3>3 DEF Read, q
  <2>3. readIndex = HeaderSize => Len(Read) = HeaderSize + 1
    BY <2>2
  <2>4. readIndex < HeaderSize => Len(Read) # HeaderSize + 1
    BY <1>1, <2>2
  <2> QED
    BY <1>9, <1>11, <2>2, <2>3, <2>4
<1> QED
  BY <1>1, <1>2, <1>4, <1>5, <1>6, <1>8, <1>10, <1>11, Zenon

LEMMA TakePhase ==
  ASSUME TypeInv, Clear(log), DataInv, PhaseInv, Take
  PROVE  PhaseInv'
<1>1. /\ IsData(currentData) /\ ~partial /\ currentData # <<>> /\ readIndex < Len(currentData)
      /\ readIndex \in Nat /\ readIndex' = readIndex + 1 /\ started' = TRUE /\ call.at = "take"
      /\ log' = log /\ currentData' = currentData /\ nextData' = nextData /\ extraData' = extraData
      /\ download' = download /\ partial' = partial /\ done' = done /\ outOfMemory' = outOfMemory /\ call \in Calls
  BY TakeIs
<1>2. ~outOfMemory /\ (nextData = <<>> => done)
  BY <1>1, Zenon DEF PhaseInv
<1>3. HeaderSize \in Nat /\ HeaderSize < Len(currentData) /\ Len(currentData) \in Nat
  BY <1>1, DataHas
<1>4. CASE ~call.header
  <2>1. InSweeps /\ call' = NoCall
    BY <1>4, TakeIs
  <2>2. call'.at = "idle" /\ call'.header = FALSE /\ call'.got = <<>>
    BY <1>1, <2>1, CallMoves
  <2>3. HeaderSize < readIndex'
    BY <1>1, <1>3, <2>1 DEF InSweeps
  <2> QED
    BY <1>1, <1>2, <2>2, <2>3 DEF PhaseInv, Fills
<1>5. CASE call.header /\ readIndex = HeaderSize
  <2>1. call' = NoCall
    BY <1>5, TakeIs
  <2>2. call'.at = "idle" /\ call'.header = FALSE /\ call'.got = <<>>
    BY <1>1, <2>1, CallMoves
  <2>3. HeaderSize < readIndex'
    BY <1>1, <1>3, <1>5
  <2> QED
    BY <1>1, <1>2, <2>2, <2>3 DEF PhaseInv, Fills
<1>6. CASE call.header /\ readIndex # HeaderSize
  <2>1. InHeader /\ Read = SubSeq(currentData, 1, readIndex + 1) /\ Len(Read) = readIndex + 1
    BY <1>6, TakeIs, Zenon
  <2>2. readIndex < HeaderSize
    BY <1>1, <1>3, <1>6, <2>1 DEF InHeader
  <2>3. call' = [call EXCEPT !.at = "byte", !.got = Read]
    BY <1>6, <2>2, TakeIs, Zenon
  <2>4. call'.at = "byte" /\ call'.header = call.header /\ call'.got = Read
    <3>1. DOMAIN call = {"at", "header", "got", "fetched"} /\ call = [f \in DOMAIN call |-> call[f]]
      BY <1>1 DEF Calls
    <3> QED
      BY <2>3, <3>1, Zenon
  <2>5. InHeader' /\ call'.got # <<>>
    <3>1. readIndex + 1 <= HeaderSize
      BY <1>1, <1>3, <2>2
    <3>2. Read # <<>>
      BY <1>1, <2>1
    <3> QED
      BY <1>1, <2>1, <2>4, <3>1, <3>2 DEF InHeader
  <2>6. BytesRemaining' # 0
    <3>1. TypeInv'
      BY TypeKept DEF Next
    <3>2. BytesLeft' \in Nat
      <4>1. BytesLeft' = BytesLeft \/ BytesLeft' = 0
        BY <1>1 DEF BytesLeft
      <4> QED
        BY <4>1, LeftIsNat
    <3>3. Len(nextData) \in Nat /\ Len(extraData) \in Nat
      BY DEF TypeInv
    <3>4. readIndex' < Len(currentData) /\ readIndex' \in Nat
      BY <1>1, <1>3, <2>2
    <3> QED
      BY <1>1, <1>3, <3>2, <3>3, <3>4 DEF BytesRemaining
  <2> QED
    BY <1>1, <1>2, <1>6, <2>4, <2>5, <2>6 DEF PhaseInv, Fills
<1> QED
  BY <1>4, <1>5, <1>6

\* fillBuffer has found a section, or the end of the log.
LEMMA FilledMoves ==
  ASSUME TypeInv, Filled, call.at \in Fills
  PROVE  /\ call.at = "fillCurrent" /\ nextData = <<>> =>
              /\ call'.at = "fillFirst" /\ call'.header = call.header /\ call'.got = call.got
              /\ partial' = TRUE /\ readIndex' = readIndex
         /\ ~(call.at = "fillCurrent" /\ nextData = <<>>) =>
              /\ call'.at \in {"take", "swap"} /\ call'.header = call.header /\ call'.got = call.got
              /\ partial' = FALSE /\ readIndex' \in {0, readIndex}
<1>1. call \in Calls
  BY DEF TypeInv
<1>2. CASE call.at = "fillCurrent" /\ nextData = <<>>
  <2>1. call' = [call EXCEPT !.at = "fillFirst", !.fetched = FALSE] /\ partial' = TRUE /\ readIndex' = readIndex
    BY <1>2 DEF Filled, Fill
  <2>2. call'.at = "fillFirst" /\ call'.header = call.header /\ call'.got = call.got
    BY <1>1, <2>1, CallMoves DEF Places
  <2> QED
    BY <1>2, <2>1, <2>2
<1>3. CASE ~(call.at = "fillCurrent" /\ nextData = <<>>)
  <2>1. partial' = FALSE /\ readIndex' \in {0, readIndex}
    BY <1>3 DEF Filled
  <2>2. PICK w \in {"take", "swap"} : call' = [call EXCEPT !.at = w]
    BY <1>3 DEF Filled, Goto
  <2>3. call'.at = w /\ call'.header = call.header /\ call'.got = call.got
    BY <1>1, <2>2, CallMoves DEF Places
  <2> QED
    BY <1>3, <2>1, <2>3
<1> QED
  BY <1>2, <1>3

LEMMA FillPhase ==
  ASSUME TypeInv, Clear(log), StartInv, DataInv, PhaseInv, FillSection \/ FillNothing
  PROVE  PhaseInv'
<1>1. PICK x \in Offsets, e \in Offsets, d \in Offsets : Filler(x, e, d)
  BY GetFiller DEF FillSection, FillNothing
<1>2. /\ partial /\ ~done /\ nextData = <<>> /\ readIndex = 0
      /\ call.at \in Fills /\ call.header /\ call.got = <<>>
      /\ call.at = "fillCurrent" <=> currentData = <<>>
  BY <1>1, FillerIs
<1>3. ~outOfMemory /\ HeaderSize \in Nat
  BY <1>2, Pieces, Zenon DEF PhaseInv, Fills
<1>4. /\ Filled /\ outOfMemory' = outOfMemory /\ started' = started
      /\ currentData' # <<>> /\ nextData' \in Seq(Address) /\ currentData' \in Seq(Address)
      /\ call.at = "fillCurrent" => nextData' = nextData /\ done' = done
      /\ call.at # "fillCurrent" => nextData' # <<>> \/ done'
  <2>1. CASE FillSection
    <3>1. PICK s \in Intact :
           /\ IF call.at = "fillCurrent"
              THEN currentData' = Bytes(s.at, Length(s) - 1) /\ nextData' = nextData
              ELSE nextData' = Bytes(s.at, Length(s) - 1) /\ currentData' = currentData
           /\ Filled
      BY <1>1, <2>1, FillSectionIs
    <3> DEFINE b == Bytes(s.at, Length(s) - 1)
    <3>2. b # <<>> /\ b \in Seq(Address)
      BY FoundData, Zenon
    <3> HIDE DEF b
    <3>3. outOfMemory' = outOfMemory /\ started' = started /\ done' = done
      BY <2>1 DEF FillSection
    <3>4. currentData \in Seq(Address) /\ nextData \in Seq(Address)
      BY DEF TypeInv
    <3>5. CASE call.at = "fillCurrent"
      <4>1. currentData' = b /\ nextData' = nextData
        BY <3>1, <3>5 DEF b
      <4> QED
        BY <3>1, <3>2, <3>3, <3>4, <3>5, <4>1
    <3>6. CASE call.at # "fillCurrent"
      <4>1. nextData' = b /\ currentData' = currentData
        BY <3>1, <3>6 DEF b
      <4> QED
        BY <1>2, <3>1, <3>2, <3>3, <3>4, <3>6, <4>1
    <3> QED
      BY <3>5, <3>6
  <2>2. CASE FillNothing
    <3>1. currentData # <<>>
      BY <2>2, FillNothingData
    <3> QED
      BY <1>2, <2>2, <3>1 DEF FillNothing, TypeInv
  <2> QED
    BY <2>1, <2>2
<1>5. CASE call.at = "fillCurrent"
  <2>1. /\ call'.at = "fillFirst" /\ call'.header = call.header /\ call'.got = call.got
        /\ partial' = TRUE /\ readIndex' = readIndex
    BY <1>2, <1>4, <1>5, FilledMoves
  <2> QED
    BY <1>2, <1>3, <1>4, <1>5, <2>1 DEF PhaseInv, Fills
<1>6. CASE call.at # "fillCurrent"
  <2>1. /\ call'.at \in {"take", "swap"} /\ call'.header = call.header /\ call'.got = call.got
        /\ partial' = FALSE /\ readIndex' = 0
    BY <1>2, <1>4, <1>6, FilledMoves
  <2>2. InHeader'
    <3>1. SubSeq(currentData', 1, 0) = <<>>
      BY <1>4
    <3> QED
      BY <1>2, <1>3, <2>1, <3>1 DEF InHeader
  <2> QED
    BY <1>2, <1>3, <1>4, <1>6, <2>1, <2>2 DEF PhaseInv, Fills
<1> QED
  BY <1>5, <1>6

LEMMA PhaseKept ==
  ASSUME TypeInv, Clear(log), StartInv, DataInv, SessionInv, PhaseInv, [Next]_vars
  PROVE  PhaseInv'
<1>1. CASE UNCHANGED vars
  BY <1>1 DEF vars, memory, place, buffer, flags, PhaseInv, InHeader, InSweeps, BytesRemaining, BytesLeft
<1> QED
  BY <1>1, GetNextPhase, NextBytePhase, SwapPhase, TakePhase, FillPhase, DownloadPhase DEF Next

-----------------------------------------------------------------------------
(* What has been handed out *)

LEMMA SweepPlace ==
  ASSUME TypeInv, Clear(log), NEW s \in Intact, NEW k \in 1 .. s.sweeps
  PROVE  /\ (s.at + HeaderSize + k - 1) % StorageSize = Place(Off(s) + HeaderSize + k - 1)
         /\ Into(log, Place(Off(s) + HeaderSize + k - 1)) = Off(s) + HeaderSize + k - 1
         /\ Off(s) + HeaderSize + k - 1 \in Nat
         /\ Off(s) + HeaderSize + k < End(s) + 1 /\ End(s) <= StorageSize
<1>1. WellFormed(log) /\ s \in log.sections
  BY ClearIs, IntactIs
<1>2. /\ Off(s) \in Nat /\ End(s) = Off(s) + Length(s) /\ Length(s) = HeaderSize + s.sweeps + 1
      /\ Place(Off(s)) = s.at /\ s.sweeps \in Nat /\ HeaderSize \in Nat /\ s.at \in Nat /\ Off(s) < StorageSize
      /\ s.at < StorageSize /\ StorageSize \in Nat
  BY <1>1, SectionHas, Pieces, Constants DEF Address
<1>3. End(s) <= log.size /\ log.size <= StorageSize /\ log.start \in Nat /\ log.start < StorageSize /\ log.size \in Nat
  BY <1>1, IntactIs, LogIs
<1> DEFINE n == Off(s) + HeaderSize + k - 1
<1>4. n \in Nat /\ n < End(s) /\ n < StorageSize /\ n = Off(s) + HeaderSize + k - 1
  BY <1>2, <1>3
<1>5. Into(log, Place(n)) = n
  <2> HIDE DEF n
  <2> QED
    BY <1>4, PlaceIs
<1>6. (s.at + HeaderSize + k - 1) % StorageSize = Place(n)
  <2>1. PICK m \in Nat : m = s.at + HeaderSize + k - 1
    BY <1>2
  <2>2. s.at = IF log.start + Off(s) < StorageSize THEN log.start + Off(s) ELSE log.start + Off(s) - StorageSize
    BY <1>2 DEF Place
  <2>3. Place(n) = IF log.start + n < StorageSize THEN log.start + n ELSE log.start + n - StorageSize
    BY DEF Place
  <2> HIDE DEF n
  <2>4. m = log.start + n \/ (m = log.start + n - StorageSize /\ ~(log.start + n < StorageSize))
    <3>1. CASE log.start + Off(s) < StorageSize
      BY <1>2, <1>3, <1>4, <2>1, <2>2, <3>1
    <3>2. CASE ~(log.start + Off(s) < StorageSize)
      BY <1>2, <1>3, <1>4, <2>1, <2>2, <3>2
    <3> QED
      BY <3>1, <3>2
  <2>5. m < StorageSize + StorageSize
    BY <1>2, <1>3, <1>4, <2>4
  <2>6. m % StorageSize = IF m < StorageSize THEN m ELSE m - StorageSize
    BY <2>5, Wrapped
  <2>7. m % StorageSize = Place(n)
    <3>1. CASE m = log.start + n
      <4>1. m < StorageSize => Place(n) = m
        BY <2>3, <3>1
      <4>2. ~(m < StorageSize) => Place(n) = m - StorageSize
        BY <1>2, <1>3, <1>4, <2>3, <3>1
      <4> QED
        BY <2>6, <4>1, <4>2
    <3>2. CASE m = log.start + n - StorageSize /\ ~(log.start + n < StorageSize)
      <4>1. Place(n) = m
        BY <2>3, <3>2
      <4>2. m < StorageSize
        BY <1>2, <1>3, <1>4, <3>2
      <4> QED
        BY <2>6, <4>1, <4>2
    <3> QED
      BY <2>4, <3>1, <3>2
  <2> QED
    BY <2>1, <2>7, Zenon
<1> QED
  BY <1>2, <1>3, <1>4, <1>5, <1>6

\* The k-th sweep of a section, by its offset.
SweepAt(s, k) == [at |-> Place(Off(s) + HeaderSize + k - 1), starts |-> k = 1 /\ StartsSession(s)]

LEMMA SweepsAre ==
  ASSUME TypeInv, Clear(log)
  PROVE  /\ \A s \in Intact : \A k \in 1 .. s.sweeps : SweepAt(s, k) \in Sweeps
         /\ \A w \in Sweeps : \E s \in Intact : \E k \in 1 .. s.sweeps : w = SweepAt(s, k)
<1>1. ASSUME NEW s \in Intact, NEW k \in 1 .. s.sweeps
      PROVE  SweepAt(s, k) = [at |-> (s.at + HeaderSize + k - 1) % StorageSize,
                              starts |-> k = 1 /\ StartsSession(s)]
  BY SweepPlace, Zenon DEF SweepAt
<1>2. ASSUME NEW s \in Intact
      PROVE  SweepsOf(s) = {SweepAt(s, k) : k \in 1 .. s.sweeps}
  BY <1>1, Zenon DEF SweepsOf
<1>3. Sweeps = UNION {SweepsOf(s) : s \in Intact}
  BY DEF Sweeps
<1>4. ASSUME NEW s \in Intact, NEW k \in 1 .. s.sweeps
      PROVE  SweepAt(s, k) \in Sweeps
  BY <1>2, <1>3
<1>5. ASSUME NEW w \in Sweeps
      PROVE  \E s \in Intact : \E k \in 1 .. s.sweeps : w = SweepAt(s, k)
  <2>1. PICK s \in Intact : w \in SweepsOf(s)
    BY <1>3
  <2> QED
    BY <1>2, <2>1
<1> QED
  BY <1>4, <1>5

LEMMA SweepOffset ==
  ASSUME TypeInv, Clear(log), NEW s \in Intact, NEW k \in 1 .. s.sweeps
  PROVE  Into(log, SweepAt(s, k).at) = Off(s) + HeaderSize + k - 1
BY SweepPlace DEF SweepAt

LEMMA SameSweeps ==
  ASSUME log' = log
  PROVE  Sweeps' = Sweeps /\ \A s : StartsSession(s)' = StartsSession(s)
<1>1. \A s : StartsSession(s)' = StartsSession(s)
  BY DEF StartsSession, Precedes, Intact
<1> QED
  BY <1>1 DEF Sweeps, SweepsOf, Intact

LEMMA SameHistory ==
  ASSUME log' = log, NEW f, NEW g, returned' = returned, Frontier = f, Frontier' = g, HistoryInv,
         \A w \in Sweeps : Into(log, w.at) < f <=> Into(log, w.at) < g
  PROVE  HistoryInv'
<1>1. \A i, j \in DOMAIN returned' : i < j => Earlier(returned[i], returned[j])'
  BY DEF HistoryInv, Earlier
<1>2. Range(returned)' = {w \in Sweeps : Into(log, w.at) < g}
  <2>1. Range(returned)' = {w \in Sweeps : Into(log, w.at) < f}
    BY Zenon DEF HistoryInv
  <2> QED
    BY <2>1
<1>3. Sweeps' = Sweeps
  BY SameSweeps
<1>4. returned' \in Seq(Sweeps)
  BY DEF HistoryInv
<1> QED
  BY <1>1, <1>2, <1>3, <1>4 DEF HistoryInv

\* Where sections are, and how far they are handed out.
LEMMA SweepIn ==
  ASSUME TypeInv, Clear(log), NEW w \in Sweeps
  PROVE  \E s \in Intact : \E k \in 1 .. s.sweeps :
           /\ w = SweepAt(s, k) /\ Into(log, w.at) = Off(s) + HeaderSize + k - 1
           /\ s \in log.sections /\ Off(s) \in Nat /\ s.sweeps \in Nat /\ HeaderSize \in Nat
           /\ End(s) = Off(s) + HeaderSize + s.sweeps + 1
<1>1. PICK s \in Intact, k \in Nat : k \in 1 .. s.sweeps /\ w = SweepAt(s, k)
  BY SweepsAre
<1>2. Into(log, w.at) = Off(s) + HeaderSize + k - 1
  BY <1>1, SweepOffset
<1>3. s \in log.sections
  BY ClearIs, IntactIs
<1>4. Off(s) \in Nat /\ s.sweeps \in Nat /\ HeaderSize \in Nat /\ End(s) = Off(s) + HeaderSize + s.sweeps + 1
  BY <1>3, ClearIs, SectionHas, Pieces
<1> QED
  BY <1>1, <1>2, <1>3, <1>4

\* The sweeps of a section are at offsets of their own.
LEMMA SweepOf ==
  ASSUME TypeInv, Clear(log), NEW s \in Intact, NEW w \in Sweeps,
         Off(s) <= Into(log, w.at), Into(log, w.at) < End(s)
  PROVE  \E k \in 1 .. s.sweeps : w = SweepAt(s, k) /\ Into(log, w.at) = Off(s) + HeaderSize + k - 1
<1>1. PICK t \in Intact, k \in Nat :
           /\ k \in 1 .. t.sweeps
           /\ w = SweepAt(t, k) /\ Into(log, w.at) = Off(t) + HeaderSize + k - 1
           /\ t \in log.sections /\ Off(t) \in Nat /\ t.sweeps \in Nat /\ HeaderSize \in Nat
           /\ End(t) = Off(t) + HeaderSize + t.sweeps + 1
  BY SweepIn
<1>2. s \in log.sections
  BY ClearIs, IntactIs
<1>3. Off(s) \in Nat /\ End(s) \in Nat
  BY <1>2, ClearIs, SectionHas
<1>4. t = s
  <2>1. Off(t) <= Into(log, w.at) /\ Into(log, w.at) < End(t)
    BY <1>1
  <2>2. CASE Off(s) < Off(t)
    <3>1. End(s) <= Off(t)
      BY <1>1, <1>2, <2>2, ClearIs, SectionsApart
    <3> QED
      BY <1>1, <1>3, <2>1, <3>1
  <2>3. CASE Off(t) < Off(s)
    <3>1. End(t) <= Off(s)
      BY <1>1, <1>2, <2>3, ClearIs, SectionsApart
    <3> QED
      BY <1>1, <1>3, <2>1, <3>1
  <2>4. CASE Off(t) = Off(s)
    BY <1>1, <1>2, <2>4, ClearIs, SectionsApart
  <2> QED
    BY <1>1, <1>3, <2>2, <2>3, <2>4
<1> QED
  BY <1>1, <1>4

LEMMA IntoIsInt ==
  ASSUME TypeInv, Clear(log), NEW w \in Sweeps
  PROVE  Into(log, w.at) \in Nat
<1>1. PICK s \in Intact, k \in Nat :
           /\ k \in 1 .. s.sweeps
           /\ Into(log, w.at) = Off(s) + HeaderSize + k - 1
           /\ Off(s) \in Nat /\ s.sweeps \in Nat /\ HeaderSize \in Nat
  BY SweepIn
<1> QED
  BY <1>1

\* Nothing is skipped between two sections that follow each other.
LEMMA NoSweepBetween ==
  ASSUME TypeInv, Clear(log), NEW s \in Intact, NEW t \in Intact, End(s) <= Off(t), NoneIn(End(s), Off(t)),
         NEW w \in Sweeps
  PROVE  Into(log, w.at) < Off(s) + HeaderSize + s.sweeps <=> Into(log, w.at) < Off(t)
<1>1. PICK u \in Intact, k \in Nat :
           /\ k \in 1 .. u.sweeps
           /\ Into(log, w.at) = Off(u) + HeaderSize + k - 1
           /\ u \in log.sections /\ Off(u) \in Nat /\ u.sweeps \in Nat /\ HeaderSize \in Nat
           /\ End(u) = Off(u) + HeaderSize + u.sweeps + 1
  BY SweepIn
<1>2. s \in log.sections /\ t \in log.sections
  BY ClearIs, IntactIs
<1>3. /\ Off(s) \in Nat /\ End(s) = Off(s) + HeaderSize + s.sweeps + 1 /\ s.sweeps \in Nat /\ Off(t) \in Nat
  BY <1>1, <1>2, ClearIs, SectionHas
<1>4. ~(End(s) <= Off(u) /\ Off(u) < Off(t))
  BY DEF NoneIn
<1>5. Off(u) < Off(s) => End(u) <= Off(s)
  BY <1>1, <1>2, ClearIs, SectionsApart
<1>6. Off(s) <= Off(u) /\ Off(u) < End(s) => u = s
  BY <1>1, <1>2, ClearIs, SectionsApart
<1>7. CASE Off(u) < Off(s)
  BY <1>1, <1>3, <1>5, <1>7
<1>8. CASE u = s
  BY <1>1, <1>3, <1>8
<1>9. CASE Off(t) <= Off(u)
  BY <1>1, <1>3, <1>9
<1> QED
  BY <1>1, <1>3, <1>4, <1>6, <1>7, <1>8, <1>9

\* A history that is as long as before.
LEMMA HistoryGoesOn ==
  ASSUME TypeInv, Clear(log), log' = log, returned' = returned, HistoryInv,
         currentData' = currentData, readIndex' = readIndex \/ (currentData = <<>>)
  PROVE  HistoryInv'
<1>1. Frontier' = Frontier
  <2>1. Sec(currentData)' = Sec(currentData)
    BY SecNext
  <2> QED
    BY <2>1 DEF Frontier, Off
<1> DEFINE f == Frontier
<1>2. f = Frontier
  OBVIOUS
<1>3. PICK g : g = Frontier
  OBVIOUS
<1>4. Frontier' = g
  BY <1>1, <1>3
<1> QED
  BY <1>3, <1>4, SameHistory

LEMMA SwapHistory ==
  ASSUME TypeInv, Clear(log), StartInv, DataInv, PhaseInv, HistoryInv, Swap
  PROVE  HistoryInv'
<1>1. log' = log /\ returned' = returned /\ call.at = "swap"
  BY DEF Swap
<1>2. CASE readIndex < Len(currentData)
  BY <1>1, <1>2, HistoryGoesOn DEF Swap
<1>3. CASE ~(readIndex < Len(currentData))
  <2>1. nextData # <<>> /\ ~done /\ readIndex = Len(currentData) /\ currentData # <<>>
    BY <1>1, <1>3, ReadAll DEF PhaseInv
  <2>2. currentData' = nextData /\ readIndex' = 0
    BY <1>3 DEF Swap
  <2>3. PICK x \in Offsets : Chain(x)
    BY <2>1, Zenon DEF DataInv
  <2>4. IsData(currentData) /\ IsData(nextData) /\ UpTo(currentData, Off(Sec(nextData)))
    BY <2>1, <2>3 DEF Chain
  <2>5. PICK s \in Intact, t \in Intact : s = Sec(currentData) /\ t = Sec(nextData)
    BY <2>4, DataHas
  <2>6. End(s) <= Off(t) /\ NoneIn(End(s), Off(t))
    BY <2>4, <2>5 DEF UpTo
  <2>7. /\ Len(currentData) = HeaderSize + s.sweeps /\ Off(s) \in Nat /\ Off(t) \in Nat
        /\ HeaderSize \in Nat /\ s.sweeps \in Nat
    BY <2>4, <2>5, DataHas
  <2>8. PICK f, g : f = Off(s) + HeaderSize + s.sweeps /\ g = Off(t)
    OBVIOUS
  <2>9. Frontier = f
    BY <2>1, <2>5, <2>7, <2>8 DEF Frontier
  <2>10. Frontier' = g
    <3>1. Sec(currentData)' = t
      BY <1>1, <2>2, <2>5, SecNext
    <3>2. Frontier' = Off(t) + 0
      BY <1>1, <2>1, <2>2, <3>1 DEF Frontier, Off
    <3> QED
      BY <2>7, <2>8, <3>2
  <2>11. \A w \in Sweeps : Into(log, w.at) < f <=> Into(log, w.at) < g
    BY <2>6, <2>8, NoSweepBetween
  <2> QED
    BY <1>1, <2>9, <2>10, <2>11, SameHistory
<1> QED
  BY <1>2, <1>3

\* A sweep that is handed out is the next one.
LEMMA HandedOut ==
  ASSUME TypeInv, Clear(log), HistoryInv, log' = log, NEW s \in Intact, NEW n \in Nat, Frontier = n,
         Frontier' = n + 1, NEW k \in 1 .. s.sweeps, n = Off(s) + HeaderSize + k - 1,
         returned' = Append(returned, SweepAt(s, k))
  PROVE  HistoryInv'
<1> DEFINE v == SweepAt(s, k)
<1>1. v \in Sweeps /\ Into(log, v.at) = n
  BY SweepsAre, SweepOffset
<1>2. /\ Off(s) \in Nat /\ End(s) = Off(s) + HeaderSize + s.sweeps + 1 /\ HeaderSize \in Nat /\ s.sweeps \in Nat
      /\ s \in log.sections
  <2>1. s \in log.sections
    BY ClearIs, IntactIs
  <2>2. /\ Off(s) \in Nat /\ s.sweeps \in Nat /\ Length(s) = HeaderSize + s.sweeps + 1
        /\ End(s) = Off(s) + Length(s)
    BY <2>1, ClearIs, SectionHas
  <2> QED
    BY <2>1, <2>2, Pieces
<1>3. \A w \in Sweeps : Into(log, w.at) < n + 1 <=> Into(log, w.at) < n \/ w = v
  <2> TAKE w \in Sweeps
  <2>1. Into(log, w.at) \in Nat
    BY IntoIsInt
  <2>2. Into(log, w.at) = n => w = v
    <3> SUFFICES ASSUME Into(log, w.at) = n PROVE w = v
      OBVIOUS
    <3>1. Off(s) <= Into(log, w.at) /\ Into(log, w.at) < End(s)
      BY <1>2
    <3>2. PICK j \in 1 .. s.sweeps : w = SweepAt(s, j) /\ Into(log, w.at) = Off(s) + HeaderSize + j - 1
      BY <3>1, SweepOf
    <3>3. j = k
      BY <1>2, <3>2
    <3> QED
      BY <3>2, <3>3
  <2>3. w = v => Into(log, w.at) = n
    BY <1>1, Zenon
  <2> HIDE DEF v
  <2> QED
    BY <2>1, <2>2, <2>3
<1> HIDE DEF v
<1>4. returned \in Seq(Sweeps) /\ returned' = Append(returned, v)
  BY DEF HistoryInv, v
<1>5. returned' \in Seq(Sweeps)
  BY <1>1, <1>4
<1>6. Range(returned') = Range(returned) \cup {v}
  BY <1>1, <1>4 DEF Range
<1>7. Range(returned) = {w \in Sweeps : Into(log, w.at) < n}
  BY Zenon DEF HistoryInv
<1>8. Range(returned)' = {w \in Sweeps : Into(log, w.at) < n + 1}
  BY <1>1, <1>3, <1>6, <1>7
<1>9. \A i, j \in DOMAIN returned' : i < j => Earlier(returned'[i], returned'[j])
  <2> TAKE i, j \in DOMAIN returned'
  <2> SUFFICES ASSUME i < j PROVE Earlier(returned'[i], returned'[j])
    OBVIOUS
  <2>1. /\ i \in 1 .. Len(returned) /\ j \in 1 .. Len(returned) + 1
        /\ returned'[i] = returned[i] /\ i \in DOMAIN returned
        /\ j # Len(returned) + 1 => j \in DOMAIN returned /\ returned'[j] = returned[j]
        /\ j = Len(returned) + 1 => returned'[j] = v
    BY <1>4
  <2>2. CASE j # Len(returned) + 1
    BY <2>1, <2>2 DEF HistoryInv
  <2>3. CASE j = Len(returned) + 1
    <3>1. returned[i] \in Range(returned)
      BY <2>1 DEF Range
    <3>2. Into(log, returned[i].at) < n
      BY <1>7, <3>1
    <3> QED
      BY <1>1, <2>1, <2>3, <3>2 DEF Earlier
  <2> QED
    BY <2>2, <2>3
<1>10. \A i, j \in DOMAIN returned' : i < j => Earlier(returned[i], returned[j])'
  BY <1>9 DEF Earlier
<1> QED
  BY <1>5, <1>8, <1>10, SameSweeps DEF HistoryInv

\* Before a sweep comes the header.
LEMMA NothingHandedOut ==
  ASSUME TypeInv, Clear(log), HistoryInv, log' = log, NEW s \in Intact, NEW n \in Nat, Frontier = n,
         Frontier' = n + 1, Off(s) <= n, n < Off(s) + HeaderSize, returned' = returned
  PROVE  HistoryInv'
<1>1. s \in log.sections
  BY ClearIs, IntactIs
<1>2. Off(s) \in Nat /\ End(s) = Off(s) + HeaderSize + s.sweeps + 1 /\ HeaderSize \in Nat /\ s.sweeps \in Nat
  BY <1>1, ClearIs, SectionHas, Pieces
<1>3. \A w \in Sweeps : Into(log, w.at) < n <=> Into(log, w.at) < n + 1
  <2> TAKE w \in Sweeps
  <2>1. Into(log, w.at) \in Nat
    BY IntoIsInt
  <2>2. Into(log, w.at) # n
    <3> SUFFICES ASSUME Into(log, w.at) = n PROVE FALSE
      OBVIOUS
    <3>1. Off(s) <= Into(log, w.at) /\ Into(log, w.at) < End(s)
      BY <1>2
    <3>2. PICK j \in 1 .. s.sweeps : Into(log, w.at) = Off(s) + HeaderSize + j - 1
      BY <3>1, SweepOf
    <3> QED
      BY <1>2, <3>2
  <2> QED
    BY <2>1, <2>2
<1> QED
  BY <1>3, SameHistory

LEMMA TakeHistory ==
  ASSUME TypeInv, Clear(log), DataInv, PhaseInv, SessionInv, HistoryInv, Take
  PROVE  HistoryInv'
<1>1. /\ IsData(currentData) /\ currentData # <<>> /\ readIndex < Len(currentData)
      /\ readIndex \in Nat /\ readIndex' = readIndex + 1 /\ log' = log /\ currentData' = currentData
      /\ call.at = "take"
  BY TakeIs
<1>2. PICK s \in Intact : s = Sec(currentData)
  BY <1>1, DataHas
<1>3. /\ Len(currentData) = HeaderSize + s.sweeps /\ s.sweeps \in Nat /\ HeaderSize \in Nat /\ 2 <= HeaderSize
      /\ Off(s) \in Nat /\ currentData = Bytes(s.at, Length(s) - 1) /\ currentData \in Seq(Address)
  BY <1>1, <1>2, DataHas
<1>4. PICK n \in Nat : n = Off(s) + readIndex
  BY <1>1, <1>3
<1>5. Frontier = n
  BY <1>1, <1>2, <1>4 DEF Frontier
<1>6. Frontier' = n + 1
  <2>1. Sec(currentData)' = s
    BY <1>1, <1>2, SecNext
  <2>2. Frontier' = Off(s) + (readIndex + 1)
    BY <1>1, <2>1 DEF Frontier, Off
  <2> QED
    BY <1>1, <1>3, <1>4, <2>2
<1>7. IF Len(Read) = (IF call.header THEN HeaderSize + 1 ELSE 1)
      THEN returned' = Append(returned, [at |-> Last(Read), starts |-> session.starts])
      ELSE returned' = returned
  <2>1. ~(readIndex >= Len(currentData))
    BY <1>1, <1>3
  <2> QED
    BY <2>1, Zenon DEF Take, Read
<1>8. ~call.header => InSweeps /\ Read = <<currentData[readIndex + 1]>>
  BY TakeIs, Zenon
<1>9. call.header => InHeader /\ Len(Read) = readIndex + 1 /\ Read = SubSeq(currentData, 1, readIndex + 1)
  BY TakeIs, Zenon
<1>10. CASE call.header /\ readIndex # HeaderSize
  <2>1. readIndex < HeaderSize
    BY <1>1, <1>3, <1>9, <1>10 DEF InHeader
  <2>2. returned' = returned
    <3>1. Len(Read) # HeaderSize + 1
      BY <1>1, <1>3, <1>9, <1>10, <2>1
    <3> QED
      BY <1>7, <1>10, <3>1
  <2>3. Off(s) <= n /\ n < Off(s) + HeaderSize
    BY <1>1, <1>3, <1>4, <2>1
  <2> QED
    BY <1>1, <1>5, <1>6, <2>2, <2>3, NothingHandedOut
<1>11. CASE ~(call.header /\ readIndex # HeaderSize)
  <2>1. HeaderSize <= readIndex
    <3>1. CASE call.header
      BY <1>1, <1>3, <1>11, <3>1
    <3>2. CASE ~call.header
      BY <1>1, <1>3, <1>8, <3>2 DEF InSweeps
    <3> QED
      BY <3>1, <3>2
  <2>2. PICK k \in 1 .. s.sweeps : k = readIndex - HeaderSize + 1
    BY <1>1, <1>3, <2>1
  <2>3. Len(Read) = (IF call.header THEN HeaderSize + 1 ELSE 1)
    <3>1. CASE call.header
      BY <1>9, <1>11, <3>1
    <3>2. CASE ~call.header
      BY <1>8, <3>2
    <3> QED
      BY <3>1, <3>2
  <2>4. Last(Read) = currentData[readIndex + 1]
    <3>1. CASE call.header
      <4>0. PICK q : q = currentData
        OBVIOUS
      <4>1. q \in Seq(Address) /\ readIndex + 1 \in 1 .. Len(q)
        BY <1>1, <1>3, <4>0
      <4>2. SubSeq(q, 1, readIndex + 1)[readIndex + 1] = q[readIndex + 1]
        BY <1>1, <4>1
      <4>3. Read = SubSeq(q, 1, readIndex + 1) /\ Len(Read) = readIndex + 1
        BY <1>9, <3>1, <4>0, Zenon
      <4>4. Last(Read) = Read[readIndex + 1]
        BY <4>3, Zenon DEF Last
      <4>5. Last(Read) = q[readIndex + 1]
        BY <4>2, <4>3, <4>4, Zenon
      <4> QED
        BY <4>0, <4>5, Zenon
    <3>2. CASE ~call.header
      <4>1. PICK b : b = currentData[readIndex + 1]
        OBVIOUS
      <4>2. Read = <<b>>
        BY <1>8, <3>2, <4>1, Zenon
      <4>3. Len(<<b>>) = 1 /\ <<b>>[1] = b
        OBVIOUS
      <4>4. Last(Read) = Read[Len(Read)]
        BY Zenon DEF Last
      <4> QED
        BY <4>1, <4>2, <4>3, <4>4, Zenon
    <3> QED
      BY <3>1, <3>2
  <2>5. currentData[readIndex + 1] = Place(Off(s) + HeaderSize + k - 1)
    <3>1. readIndex + 1 \in 1 .. Length(s) - 1
      <4>1. s \in log.sections
        BY ClearIs, IntactIs
      <4>2. Length(s) = HeaderSize + s.sweeps + 1
        BY <4>1, ClearIs, SectionHas
      <4> QED
        BY <1>1, <1>3, <4>2
    <3>2. currentData[readIndex + 1] = (s.at + (readIndex + 1) - 1) % StorageSize
      BY <1>3, <3>1, Zenon DEF Bytes
    <3>3. s.at + (readIndex + 1) - 1 = s.at + HeaderSize + k - 1
      <4>1. s.at \in Nat
        <5>1. s.at \in Address
          BY ClearIs, IntactIs, SectionHas
        <5> QED
          BY <5>1, Constants DEF Address
      <4> QED
        BY <1>1, <1>3, <2>2, <4>1
    <3>4. (s.at + HeaderSize + k - 1) % StorageSize = Place(Off(s) + HeaderSize + k - 1)
      BY SweepPlace
    <3> QED
      BY <3>2, <3>3, <3>4, Zenon
  <2>6. session.starts = (k = 1 /\ StartsSession(s))
    <3>0. session.starts \in BOOLEAN
      BY DEF TypeInv
    <3>1. CASE call.header
      <4>1. readIndex = HeaderSize /\ k = 1
        BY <1>1, <1>3, <1>11, <2>2, <3>1
      <4>2. call.got # <<>>
        <5>1. call.got = SubSeq(currentData, 1, readIndex)
          BY <1>9, <3>1 DEF InHeader
        <5>2. Len(SubSeq(currentData, 1, readIndex)) = readIndex
          BY <1>1, <1>3
        <5>3. Len(call.got) # 0
          BY <1>3, <4>1, <5>1, <5>2
        <5> QED
          BY <5>3
      <4>3. session.starts <=> StartsSession(s)
        BY <1>2, <4>1, <4>2, Zenon DEF SessionInv
      <4> QED
        BY <3>0, <4>1, <4>3, Zenon DEF StartsSession
    <3>2. CASE ~call.header
      <4>1. k # 1
        BY <1>1, <1>3, <1>8, <2>2, <3>2 DEF InSweeps
      <4>2. ~session.starts
        BY <1>1, <3>2, Zenon DEF SessionInv
      <4> QED
        BY <3>0, <4>1, <4>2, Zenon
    <3> QED
      BY <3>1, <3>2
  <2>7. returned' = Append(returned, SweepAt(s, k))
    <3>1. [at |-> Last(Read), starts |-> session.starts] = SweepAt(s, k)
      BY <2>4, <2>5, <2>6, Zenon DEF SweepAt
    <3> QED
      BY <1>7, <2>3, <3>1, Zenon
  <2>8. n = Off(s) + HeaderSize + k - 1
    BY <1>1, <1>3, <1>4, <2>2
  <2> QED
    BY <1>1, <1>5, <1>6, <2>7, <2>8, HandedOut
<1> QED
  BY <1>10, <1>11

LEMMA FillSectionHistory ==
  ASSUME TypeInv, Clear(log), StartInv, DataInv, PhaseInv, HistoryInv, FillSection
  PROVE  HistoryInv'
<1>1. log' = log /\ returned' = returned /\ Filling
  BY DEF FillSection
<1>2. PICK x \in Offsets, e \in Offsets, d \in Offsets : Filler(x, e, d)
  BY <1>1, GetFiller
<1>3. PICK s \in Intact :
           /\ Off(s) = x
           /\ IF call.at = "fillCurrent"
              THEN currentData' = Bytes(s.at, Length(s) - 1) /\ nextData' = nextData
              ELSE nextData' = Bytes(s.at, Length(s) - 1) /\ currentData' = currentData
           /\ Filled
  BY <1>2, FillSectionIs
<1>4. readIndex = 0 /\ readIndex' = 0 /\ (call.at = "fillCurrent" <=> currentData = <<>>)
  BY <1>2, <1>3, FillerIs, FilledIs
<1>5. CASE call.at # "fillCurrent"
  BY <1>1, <1>3, <1>4, <1>5, HistoryGoesOn
<1>6. CASE call.at = "fillCurrent"
  <2>1. PICK b : b = Bytes(s.at, Length(s) - 1)
    OBVIOUS
  <2>2. b # <<>> /\ Sec(b) = s
    BY <2>1, FoundData
  <2>3. currentData' = b
    BY <1>3, <1>6, <2>1
  <2>4. Sec(b)' = Sec(b) /\ \A t : Off(t)' = Off(t)
    BY <1>1, SameData, SameLog
  <2>5. Sec(currentData)' = s
    BY <1>1, <2>2, <2>3, <2>4, SecNext, Zenon
  <2>6. x \in Nat
    BY Constants DEF Offsets
  <2>7. Frontier' = x
    <3>1. Frontier' = Off(s) + 0
      BY <1>1, <1>4, <2>2, <2>3, <2>5 DEF Frontier, Off
    <3> QED
      BY <1>3, <2>6, <3>1
  <2>8. Frontier = 0
    BY <1>4, <1>6 DEF Frontier
  <2>9. \A w \in Sweeps : Into(log, w.at) < 0 <=> Into(log, w.at) < x
    <3> TAKE w \in Sweeps
    <3>1. PICK t \in Intact, k \in Nat :
             /\ k \in 1 .. t.sweeps /\ Into(log, w.at) = Off(t) + HeaderSize + k - 1
             /\ Off(t) \in Nat /\ t.sweeps \in Nat /\ HeaderSize \in Nat
      BY SweepIn
    <3>2. NoneIn(0, x)
      BY <1>2, <1>4, <1>6, FillerIs DEF Chain
    <3>3. ~(Off(t) < x)
      BY <3>1, <3>2 DEF NoneIn
    <3> QED
      BY <2>6, <3>1, <3>3
  <2>10. PICK f, g : f = 0 /\ g = x
    OBVIOUS
  <2> QED
    BY <1>1, <2>7, <2>8, <2>9, <2>10, SameHistory
<1> QED
  BY <1>5, <1>6

LEMMA FillNothingHistory ==
  ASSUME TypeInv, Clear(log), StartInv, DataInv, PhaseInv, HistoryInv, FillNothing
  PROVE  HistoryInv'
<1>1. log' = log /\ returned' = returned /\ Filling /\ Filled /\ currentData' = currentData
  BY DEF FillNothing
<1>2. PICK x \in Offsets, e \in Offsets, d \in Offsets : Filler(x, e, d)
  BY <1>1, GetFiller
<1>3. readIndex' = readIndex
  BY <1>1, <1>2, FillerIs, FilledIs
<1> QED
  BY <1>1, <1>3, HistoryGoesOn

LEMMA HistoryKept ==
  ASSUME TypeInv, Clear(log), StartInv, DataInv, PhaseInv, SessionInv, HistoryInv, [Next]_vars
  PROVE  HistoryInv'
<1>1. CASE GetNextData \/ NextByte \/ Download \/ DownloadFails \/ UNCHANGED vars
  <2>1. /\ log' = log /\ returned' = returned /\ currentData' = currentData /\ readIndex' = readIndex
    BY <1>1 DEF GetNextData, NextByte, Download, DownloadFails, vars, memory, buffer
  <2> QED
    BY <2>1, HistoryGoesOn
<1> QED
  BY <1>1, SwapHistory, TakeHistory, FillSectionHistory, FillNothingHistory DEF Next

-----------------------------------------------------------------------------
(* The sessions *)

\* What has been parsed stays so, as long as no header has been read to its end.
LEMMA SessionStays ==
  ASSUME log' = log, NEW f, NEW g, Frontier = f, Frontier' = g, SessionInv,
         session'.found = session.found, session'.index = session.index,
         \A s \in Intact : Off(s) + HeaderSize <= f <=> Off(s) + HeaderSize <= g,
         call'.got # <<>> /\ readIndex' = HeaderSize =>
            (session'.starts <=> StartsSession(Sec(currentData))'),
         call'.at \in {"byte", "swap", "take"} /\ ~call'.header => ~session'.starts
  PROVE  SessionInv'
<1>1. Intact' = Intact /\ \A s : Off(s)' = Off(s)
  BY SameLog
<1>2. \A s \in Intact : Parsing(s)' <=> Parsing(s)
  BY <1>1 DEF Parsing
<1>3. session'.found <=> \E s \in Intact : Off(s) + HeaderSize <= g
  <2>1. session.found <=> \E s \in Intact : Off(s) + HeaderSize <= f
    BY Zenon DEF SessionInv
  <2>2. session'.found <=> session.found
    OBVIOUS
  <2> QED
    BY <2>1, <2>2, Zenon
<1>4. \A s \in Intact : Parsing(s)' => session'.index = s.session
  BY <1>2, Zenon DEF SessionInv
<1> QED
  BY <1>1, <1>3, <1>4, Zenon DEF SessionInv

LEMMA SessionGoesOn ==
  ASSUME TypeInv, Clear(log), log' = log, session' = session, SessionInv,
         currentData' = currentData, readIndex' = readIndex \/ (currentData = <<>>),
         call'.got = <<>> \/ (call'.got = call.got /\ readIndex' = readIndex),
         call'.at \in {"byte", "swap", "take"} /\ ~call'.header =>
            call.at \in {"byte", "swap", "take"} /\ ~call.header
  PROVE  SessionInv'
<1>1. Sec(currentData)' = Sec(currentData)
  BY SecNext
<1>2. Frontier' = Frontier
  BY <1>1 DEF Frontier, Off
<1>3. PICK g : g = Frontier
  OBVIOUS
<1>4. Frontier' = g
  BY <1>2, <1>3
<1>5. \A t : StartsSession(t)' = StartsSession(t)
  BY SameSweeps
<1>6. StartsSession(Sec(currentData))' = StartsSession(Sec(currentData))
  BY <1>1 DEF StartsSession, Precedes, Intact
<1>7. call'.got # <<>> /\ readIndex' = HeaderSize =>
            (session'.starts <=> StartsSession(Sec(currentData))')
  <2>1. call.got # <<>> /\ readIndex = HeaderSize => (session.starts <=> StartsSession(Sec(currentData)))
    BY Zenon DEF SessionInv
  <2> QED
    BY <1>6, <2>1, Zenon
<1>8. call'.at \in {"byte", "swap", "take"} /\ ~call'.header => ~session'.starts
  <2>1. call.at \in {"byte", "swap", "take"} /\ ~call.header => ~session.starts
    BY Zenon DEF SessionInv
  <2> QED
    BY <2>1, Zenon
<1> QED
  BY <1>3, <1>4, <1>7, <1>8, SessionStays, Zenon

LEMMA GetNextSession ==
  ASSUME TypeInv, Clear(log), SessionInv, GetNextData
  PROVE  SessionInv'
<1>1. /\ log' = log /\ currentData' = currentData /\ readIndex' = readIndex
      /\ call \in Calls /\ session \in [index : Nat, starts : BOOLEAN, found : BOOLEAN]
  BY DEF GetNextData, memory, buffer, TypeInv
<1>2. CASE call' = call /\ session' = session
  BY <1>1, <1>2, SessionGoesOn
<1>3. CASE call' = [NoCall EXCEPT !.at = "byte", !.header = TRUE] /\ session' = session
  <2>1. call'.header = TRUE /\ call'.got = <<>>
    BY <1>1, <1>3, CallMoves DEF Places
  <2> QED
    BY <1>1, <1>3, <2>1, SessionGoesOn
<1>4. CASE call' = [NoCall EXCEPT !.at = "byte"] /\ session' = [session EXCEPT !.starts = FALSE]
  <2>1. call'.got = <<>>
    BY <1>1, <1>4, CallMoves DEF Places
  <2>2. session'.found = session.found /\ session'.index = session.index /\ session'.starts = FALSE
    BY <1>1, <1>4, Zenon
  <2>3. Sec(currentData)' = Sec(currentData)
    BY <1>1, SecNext
  <2>4. Frontier' = Frontier
    BY <1>1, <2>3 DEF Frontier, Off
  <2>5. PICK g : g = Frontier
    OBVIOUS
  <2>6. Frontier' = g
    BY <2>4, <2>5
  <2> QED
    BY <1>1, <2>1, <2>2, <2>5, <2>6, SessionStays, Zenon
<1> QED
  BY <1>2, <1>3, <1>4 DEF GetNextData

LEMMA NextByteSession ==
  ASSUME TypeInv, Clear(log), SessionInv, NextByte
  PROVE  SessionInv'
<1>1. /\ log' = log /\ currentData' = currentData /\ readIndex' = readIndex /\ session' = session
      /\ call \in Calls /\ call.at = "byte"
  BY DEF NextByte, buffer, TypeInv
<1>2. \/ call' = NoCall \/ call' = [call EXCEPT !.at = "swap"]
      \/ \E w \in Places : call' = [call EXCEPT !.at = w, !.fetched = FALSE]
  BY DEF NextByte, Throw, Fill, Goto, Places
<1>3. call'.got = <<>> \/ call'.got = call.got
  BY <1>1, <1>2, CallMoves DEF Places
<1>4. call' = NoCall \/ call'.header = call.header
  BY <1>1, <1>2, CallMoves DEF Places
<1>5. call' = NoCall => call'.at = "idle"
  BY <1>1, CallMoves
<1> QED
  BY <1>1, <1>3, <1>4, <1>5, SessionGoesOn

LEMMA SwapSession ==
  ASSUME TypeInv, Clear(log), StartInv, DataInv, PhaseInv, SessionInv, Swap
  PROVE  SessionInv'
<1>1. log' = log /\ session' = session /\ call.at = "swap" /\ call \in Calls
  BY DEF Swap, TypeInv
<1>2. CASE readIndex < Len(currentData)
  <2>1. call' = [call EXCEPT !.at = "take"] /\ currentData' = currentData /\ readIndex' = readIndex
    BY <1>2 DEF Swap, Goto
  <2>2. call'.got = call.got /\ call'.header = call.header
    BY <1>1, <2>1, CallMoves DEF Places
  <2> QED
    BY <1>1, <2>1, <2>2, SessionGoesOn
<1>3. CASE ~(readIndex < Len(currentData))
  <2>1. nextData # <<>> /\ ~done /\ readIndex = Len(currentData) /\ currentData # <<>> /\ call.header
    BY <1>1, <1>3, ReadAll DEF PhaseInv
  <2>2. currentData' = nextData /\ readIndex' = 0 /\ call' = [call EXCEPT !.at = "fillNext", !.fetched = FALSE]
    BY <1>3, <2>1 DEF Swap, Fill
  <2>3. PICK x \in Offsets : Chain(x)
    BY <2>1, Zenon DEF DataInv
  <2>4. IsData(currentData) /\ IsData(nextData) /\ UpTo(currentData, Off(Sec(nextData)))
    BY <2>1, <2>3 DEF Chain
  <2>5. PICK s \in Intact, t \in Intact : s = Sec(currentData) /\ t = Sec(nextData)
    BY <2>4, DataHas
  <2>6. End(s) <= Off(t) /\ NoneIn(End(s), Off(t))
    BY <2>4, <2>5 DEF UpTo
  <2>7. /\ Len(currentData) = HeaderSize + s.sweeps /\ Off(s) \in Nat /\ Off(t) \in Nat
        /\ HeaderSize \in Nat /\ 2 <= HeaderSize /\ s.sweeps \in Nat /\ End(s) = Off(s) + Len(currentData) + 1
    BY <2>4, <2>5, DataHas
  <2>8. PICK f, g : f = Off(s) + HeaderSize + s.sweeps /\ g = Off(t)
    OBVIOUS
  <2>9. Frontier = f
    BY <2>1, <2>5, <2>7, <2>8 DEF Frontier
  <2>10. Frontier' = g
    <3>1. Sec(currentData)' = t
      BY <1>1, <2>2, <2>5, SecNext
    <3>2. Frontier' = Off(t) + 0
      BY <1>1, <2>1, <2>2, <3>1 DEF Frontier, Off
    <3> QED
      BY <2>7, <2>8, <3>2
  <2>11. \A u \in Intact : Off(u) + HeaderSize <= f <=> Off(u) + HeaderSize <= g
    <3> TAKE u \in Intact
    <3>1. u \in log.sections /\ s \in log.sections
      BY ClearIs, IntactIs
    <3>2. Off(u) \in Nat
      BY <3>1, ClearIs, SectionHas
    <3>3. Off(s) < Off(u) => End(s) <= Off(u)
      BY <3>1, ClearIs, SectionsApart
    <3>4. End(s) <= Off(u) => ~(Off(u) < Off(t))
      BY <2>6 DEF NoneIn
    <3>5. CASE Off(u) <= Off(s)
      BY <2>6, <2>7, <2>8, <3>2, <3>5
    <3>6. CASE Off(s) < Off(u)
      BY <2>6, <2>7, <2>8, <3>2, <3>3, <3>4, <3>6
    <3> QED
      BY <2>7, <3>2, <3>5, <3>6
  <2>12. call'.at = "fillNext"
    BY <1>1, <2>2, CallMoves DEF Places
  <2>13. readIndex' # HeaderSize
    BY <2>2, <2>7
  <2> QED
    BY <1>1, <2>9, <2>10, <2>11, <2>12, <2>13, SessionStays
<1> QED
  BY <1>2, <1>3

LEMMA FillSession ==
  ASSUME TypeInv, Clear(log), StartInv, DataInv, PhaseInv, SessionInv, FillSection \/ FillNothing
  PROVE  SessionInv'
<1>1. log' = log /\ session' = session /\ Filling /\ call \in Calls
  BY DEF FillSection, FillNothing, TypeInv
<1>2. PICK x \in Offsets, e \in Offsets, d \in Offsets : Filler(x, e, d)
  BY <1>1, GetFiller
<1>3. /\ readIndex = 0 /\ call.header /\ call.got = <<>> /\ call.at \in Fills
      /\ (call.at = "fillCurrent" <=> currentData = <<>>)
  BY <1>2, FillerIs
<1>4. Filled
  <2>1. CASE FillSection
    BY <1>2, <2>1, FillSectionIs
  <2> QED
    BY <2>1 DEF FillNothing
<1>5. call'.header /\ call'.got = <<>> /\ readIndex' = 0
  BY <1>3, <1>4, FilledMoves
<1>6. CASE currentData' = currentData
  BY <1>1, <1>3, <1>5, <1>6, SessionGoesOn
<1>7. CASE currentData' # currentData
  <2>1. FillSection
    BY <1>7 DEF FillNothing
  <2>2. PICK s \in Intact :
           /\ Off(s) = x
           /\ call.at # "fillCurrent" => currentData' = currentData
           /\ call.at = "fillCurrent" => currentData' = Bytes(s.at, Length(s) - 1)
    BY <1>2, <2>1, FillSectionIs
  <2>3. PICK b : b = Bytes(s.at, Length(s) - 1)
    OBVIOUS
  <2>4. b # <<>> /\ Sec(b) = s
    BY <2>3, FoundData
  <2>5. currentData' = b /\ currentData = <<>>
    BY <1>3, <1>7, <2>2, <2>3
  <2>6. Sec(b)' = Sec(b) /\ \A t : Off(t)' = Off(t)
    BY <1>1, SameData, SameLog
  <2>7. Sec(currentData)' = s
    BY <1>1, <2>4, <2>5, <2>6, SecNext, Zenon
  <2>8. x \in Nat /\ HeaderSize \in Nat /\ 2 <= HeaderSize
    BY Constants, Pieces DEF Offsets
  <2>9. Frontier' = x
    <3>1. Frontier' = Off(s) + 0
      BY <1>1, <1>5, <2>4, <2>5, <2>7 DEF Frontier, Off
    <3> QED
      BY <2>2, <2>8, <3>1
  <2>10. Frontier = 0
    BY <2>5 DEF Frontier
  <2>11. NoneIn(0, x)
    BY <1>2, <2>5, FillerIs DEF Chain
  <2>12. \A t \in Intact : Off(t) + HeaderSize <= 0 <=> Off(t) + HeaderSize <= x
    <3> TAKE t \in Intact
    <3>1. t \in log.sections
      BY ClearIs, IntactIs
    <3>2. Off(t) \in Nat
      BY <3>1, ClearIs, SectionHas
    <3>3. ~(Off(t) < x)
      BY <2>11, <3>2 DEF NoneIn
    <3> QED
      BY <2>8, <3>2, <3>3
  <2>13. PICK f, g : f = 0 /\ g = x
    OBVIOUS
  <2> QED
    BY <1>1, <1>5, <2>9, <2>10, <2>12, <2>13, SessionStays
<1> QED
  BY <1>6, <1>7

LEMMA DownloadSession ==
  ASSUME TypeInv, Clear(log), SessionInv, Download \/ DownloadFails
  PROVE  SessionInv'
<1>1. /\ log' = log /\ session' = session /\ currentData' = currentData /\ readIndex' = readIndex /\ call \in Calls
  BY DEF Download, DownloadFails, memory, buffer, TypeInv
<1>2. CASE call' = NoCall
  BY <1>1, <1>2, CallMoves, SessionGoesOn
<1>3. CASE call' = [call EXCEPT !.fetched = TRUE]
  <2>1. call'.at = call.at /\ call'.header = call.header /\ call'.got = call.got
    BY <1>1, <1>3, CallMoves
  <2> QED
    BY <1>1, <2>1, SessionGoesOn
<1> QED
  BY <1>2, <1>3 DEF Download, DownloadFails, Throw

\* When the last byte of its header is read, the section parsed last is the one before.
LEMMA ParsingPrecedes ==
  ASSUME TypeInv, Clear(log), NEW s \in Intact, NEW t \in Intact, NEW n \in Nat, Frontier = n,
         n + 1 = Off(s) + HeaderSize
  PROVE  Parsing(t) <=> Precedes(t, s)
<1>1. \A u \in Intact : Off(u) \in Nat /\ Off(s) \in Nat /\ HeaderSize \in Nat
  <2> TAKE u \in Intact
  <2>1. u \in log.sections /\ s \in log.sections
    BY ClearIs, IntactIs
  <2> QED
    BY <2>1, ClearIs, SectionHas, Pieces
<1>2. \A u \in Intact : Off(u) + HeaderSize <= n <=> Off(u) < Off(s)
  BY <1>1
<1>3. Parsing(t) <=> /\ Off(t) < Off(s)
                     /\ \A u \in Intact : Off(u) < Off(s) => Off(u) <= Off(t)
  BY <1>2, Zenon DEF Parsing
<1>4. Precedes(t, s) <=> /\ Off(t) < Off(s)
                         /\ \A u \in Intact : Off(u) <= Off(t) \/ Off(s) <= Off(u)
  BY Zenon DEF Precedes, Off
<1>5. \A u \in Intact : (Off(u) < Off(s) => Off(u) <= Off(t)) <=> (Off(u) <= Off(t) \/ Off(s) <= Off(u))
  BY <1>1
<1> QED
  BY <1>3, <1>4, <1>5, Zenon

LEMMA HasLastBefore ==
  ASSUME TypeInv, Clear(log), NEW s \in Intact, NEW t \in Intact, Off(t) < Off(s)
  PROVE  \E u \in Intact : Precedes(u, s)
<1>1. \A u \in Intact : Off(u) \in Nat /\ Off(s) \in Nat
  <2> TAKE u \in Intact
  <2>1. u \in log.sections /\ s \in log.sections
    BY ClearIs, IntactIs
  <2> QED
    BY <2>1, ClearIs, SectionHas
<1> DEFINE S == {n \in Nat : \E u \in Intact : Off(u) < Off(s) /\ n = Off(s) - Off(u)}
<1>2. S # {} /\ S \in SUBSET Nat
  <2>1. Off(s) - Off(t) \in S
    BY <1>1
  <2> QED
    BY <2>1
<1>3. PICK m \in S : \A n \in S : m <= n
  <2> HIDE DEF S
  <2> QED
    BY <1>2, Smallest
<1>4. PICK u \in Intact : Off(u) < Off(s) /\ m = Off(s) - Off(u)
  BY <1>3
<1>5. \A v \in Intact : Off(v) <= Off(u) \/ Off(s) <= Off(v)
  <2> TAKE v \in Intact
  <2>1. Off(v) < Off(s) => Off(s) - Off(v) \in S
    BY <1>1
  <2>2. Off(v) < Off(s) => m <= Off(s) - Off(v)
    BY <1>3, <2>1
  <2> HIDE DEF S
  <2> QED
    BY <1>1, <1>4, <2>2
<1>6. Precedes(u, s)
  BY <1>4, <1>5, Zenon DEF Precedes, Off
<1> QED
  BY <1>6

LEMMA PrecedesOne ==
  ASSUME TypeInv, Clear(log), NEW s \in Intact, NEW t \in Intact, NEW u \in Intact,
         Precedes(t, s), Precedes(u, s)
  PROVE  t = u
<1>1. t \in log.sections /\ u \in log.sections /\ s \in log.sections
  BY ClearIs, IntactIs
<1>2. Off(t) \in Nat /\ Off(u) \in Nat /\ Off(s) \in Nat
  BY <1>1, ClearIs, SectionHas
<1>3. Off(t) < Off(s) /\ (Off(u) <= Off(t) \/ Off(s) <= Off(u))
  BY Zenon DEF Precedes, Off
<1>4. Off(u) < Off(s) /\ (Off(t) <= Off(u) \/ Off(s) <= Off(t))
  BY Zenon DEF Precedes, Off
<1>5. Off(t) = Off(u)
  BY <1>2, <1>3, <1>4
<1> QED
  BY <1>1, <1>5, ClearIs, SectionsApart

\* A section that is not the first of its block has an intact one right before it.
LEMMA IntactBefore ==
  ASSUME TypeInv, Clear(log), NEW s \in Intact, s.kind # "block"
  PROVE  \E t \in Intact : Precedes(t, s) /\ (s.kind = "refresh" => t.session = s.session)
<1>1. /\ WellFormed(log) /\ s \in log.sections /\ End(s) <= log.size
      /\ \A t \in log.sections : BlockOf(Off(t)) = BlockOf(Off(s)) /\ Off(t) <= Off(s) => t.good
  BY ClearIs, IntactIs
<1>2. Off(s) \in Nat /\ End(s) \in Nat /\ Off(s) < End(s) /\ log.size \in Nat
  BY <1>1, SectionHas, LogIs
<1>3. Off(s) # BlockOf(Off(s))
  <2> SUFFICES ASSUME Off(s) = BlockOf(Off(s)) PROVE FALSE
    OBVIOUS
  <2>1. Whole(Off(s))
    BY <1>2, BlockIs
  <2>2. Off(s) % BlockSize = 0
    BY <2>1 DEF Whole
  <2>3. s.kind = "block" <=> Off(s) % BlockSize = 0
    BY <1>1, Zenon DEF WellFormed, Off
  <2> QED
    BY <2>2, <2>3
<1>4. PICK t \in log.sections :
           /\ End(t) = Off(s) /\ BlockOf(Off(t)) = BlockOf(Off(s)) /\ Off(t) < Off(s)
           /\ s.kind = "refresh" => t.session = s.session
  BY <1>1, <1>3, HasOneBefore
<1>5. Off(t) \in Nat /\ End(t) \in Nat
  BY <1>1, SectionHas
<1>6. t \in Inside(log)
  BY <1>1, <1>2, <1>4, <1>5, InsideIs
<1>7. t.good /\ GoodUpTo(Off(t))
  <2>1. t.good
    BY <1>1, <1>2, <1>4, <1>5
  <2>2. ASSUME NEW u \in log.sections, BlockOf(Off(u)) = BlockOf(Off(t)), Off(u) < Off(t)
        PROVE  u.good
    <3>1. Off(u) \in Nat
      BY <1>1, SectionHas
    <3>2. Off(u) <= Off(s)
      BY <1>2, <1>4, <1>5, <2>2, <3>1
    <3> QED
      BY <1>1, <1>4, <2>2, <3>2
  <2> QED
    BY <2>1, <2>2 DEF GoodUpTo
<1>8. t \in Intact
  BY <1>1, <1>6, <1>7, GoodIsIntact
<1>9. \A u \in Intact : Off(u) <= Off(t) \/ Off(s) <= Off(u)
  <2> TAKE u \in Intact
  <2>1. u \in log.sections
    BY <1>1, IntactIs
  <2>2. Off(u) \in Nat /\ (Off(t) < Off(u) => End(t) <= Off(u))
    BY <1>1, <2>1, SectionHas, SectionsApart
  <2> QED
    BY <1>4, <1>5, <2>2
<1>10. Precedes(t, s)
  BY <1>4, <1>9, Zenon DEF Precedes, Off
<1> QED
  BY <1>4, <1>8, <1>10

LEMMA ParsedIs ==
  ASSUME TypeInv, NEW s, session' = Parsed(s)
  PROVE  /\ session'.found = TRUE
         /\ s.kind = "refresh" => session'.index = session.index /\ session'.starts = FALSE
         /\ s.kind # "refresh" =>
              /\ session'.index = s.session
              /\ session'.starts <=> s.session # session.index \/ (s.kind = "block" /\ ~session.found)
<1>1. session \in [index : Nat, starts : BOOLEAN, found : BOOLEAN]
  BY DEF TypeInv
<1>2. CASE s.kind = "refresh"
  <2>1. session' = [session EXCEPT !.starts = FALSE, !.found = TRUE]
    BY <1>2, Zenon DEF Parsed
  <2>2. session'.found = TRUE /\ session'.index = session.index /\ session'.starts = FALSE
    BY <1>1, <2>1
  <2> QED
    BY <1>2, <2>2, Zenon
<1>3. CASE s.kind # "refresh"
  <2>1. PICK b : b = (s.session # session.index \/ (s.kind = "block" /\ ~session.found))
    OBVIOUS
  <2>2. session' = [index |-> s.session, starts |-> b, found |-> TRUE]
    BY <1>3, <2>1, Zenon DEF Parsed
  <2>3. session'.index = s.session /\ session'.starts = b /\ session'.found = TRUE
    BY <2>2
  <2>4. session'.starts <=> s.session # session.index \/ (s.kind = "block" /\ ~session.found)
    BY <2>1, <2>3, Zenon
  <2> QED
    BY <1>3, <2>3, <2>4, Zenon
<1> QED
  BY <1>2, <1>3

\* The header of a section has been read.
LEMMA HeaderIsRead ==
  ASSUME TypeInv, Clear(log), SessionInv, NEW s \in Intact, NEW n \in Nat, Frontier = n,
         n + 1 = Off(s) + HeaderSize, session' = Parsed(s)
  PROVE  /\ session'.found = TRUE /\ session'.index = s.session
         /\ session'.starts <=> StartsSession(s)
<1>1. \A t \in Intact : Precedes(t, s) => session.index = t.session /\ session.found
  <2> TAKE t \in Intact
  <2> SUFFICES ASSUME Precedes(t, s) PROVE session.index = t.session /\ session.found
    OBVIOUS
  <2>1. Parsing(t)
    BY ParsingPrecedes
  <2>2. Off(t) + HeaderSize <= Frontier
    BY <2>1 DEF Parsing
  <2> QED
    BY <2>1, <2>2, Zenon DEF SessionInv
<1>2. CASE s.kind = "refresh"
  <2>1. PICK t \in Intact : Precedes(t, s) /\ t.session = s.session
    BY <1>2, IntactBefore
  <2>2. ~StartsSession(s)
    BY <2>1, Zenon DEF StartsSession
  <2> QED
    BY <1>1, <1>2, <2>1, <2>2, ParsedIs
<1>3. CASE s.kind # "refresh" /\ \E t \in Intact : Precedes(t, s)
  <2>1. PICK t \in Intact : Precedes(t, s)
    BY <1>3
  <2>2. \A u \in Intact : Precedes(u, s) => u = t
    BY <2>1, PrecedesOne
  <2>3. StartsSession(s) <=> t.session # s.session
    BY <2>1, <2>2, Zenon DEF StartsSession
  <2>4. session.index = t.session /\ session.found
    BY <1>1, <2>1
  <2>5. /\ session'.found = TRUE /\ session'.index = s.session
        /\ session'.starts <=> s.session # session.index \/ (s.kind = "block" /\ ~session.found)
    BY <1>3, ParsedIs, Zenon
  <2>6. t.session # s.session <=> s.session # session.index
    BY <2>4
  <2> QED
    BY <2>3, <2>4, <2>5, <2>6, Zenon
<1>4. CASE s.kind # "refresh" /\ ~\E t \in Intact : Precedes(t, s)
  <2>1. s.kind = "block"
    BY <1>4, IntactBefore
  <2>2. StartsSession(s)
    BY <1>4, Zenon DEF StartsSession
  <2>3. ~session.found
    <3> SUFFICES ASSUME session.found PROVE FALSE
      OBVIOUS
    <3>1. PICK t \in Intact : Off(t) + HeaderSize <= Frontier
      BY Zenon DEF SessionInv
    <3>2. Off(t) < Off(s)
      <4>1. t \in log.sections /\ s \in log.sections
        BY ClearIs, IntactIs
      <4>2. Off(t) \in Nat /\ Off(s) \in Nat /\ HeaderSize \in Nat
        BY <4>1, ClearIs, SectionHas, Pieces
      <4> QED
        BY <3>1, <4>2
    <3> QED
      BY <1>4, <3>2, HasLastBefore
  <2>4. /\ session'.found = TRUE /\ session'.index = s.session
        /\ session'.starts <=> s.session # session.index \/ (s.kind = "block" /\ ~session.found)
    BY <1>4, ParsedIs, Zenon
  <2> QED
    BY <2>1, <2>2, <2>3, <2>4, Zenon
<1> QED
  BY <1>2, <1>3, <1>4, Zenon

LEMMA TakeSession ==
  ASSUME TypeInv, Clear(log), DataInv, PhaseInv, SessionInv, Take
  PROVE  SessionInv'
<1>1. /\ IsData(currentData) /\ currentData # <<>> /\ readIndex < Len(currentData)
      /\ readIndex \in Nat /\ readIndex' = readIndex + 1 /\ log' = log /\ currentData' = currentData
      /\ call \in Calls /\ call.at = "take"
  BY TakeIs
<1>2. PICK s \in Intact : s = Sec(currentData)
  BY <1>1, DataHas
<1>3. /\ Len(currentData) = HeaderSize + s.sweeps /\ s.sweeps \in Nat /\ HeaderSize \in Nat /\ 2 <= HeaderSize
      /\ Off(s) \in Nat /\ End(s) = Off(s) + Len(currentData) + 1 /\ s \in log.sections /\ Head(currentData) = s.at
      /\ currentData \in Seq(Address)
  BY <1>1, <1>2, DataHas
<1>4. PICK n \in Nat : n = Off(s) + readIndex
  BY <1>1, <1>3
<1>5. Frontier = n
  BY <1>1, <1>2, <1>4 DEF Frontier
<1>6. Sec(currentData)' = s
  BY <1>1, <1>2, SecNext
<1>7. Frontier' = n + 1
  <2>1. Frontier' = Off(s) + (readIndex + 1)
    BY <1>1, <1>6 DEF Frontier, Off
  <2> QED
    BY <1>1, <1>3, <1>4, <2>1
<1>8. ~call.header => InSweeps /\ call' = NoCall /\ session' = session
  BY TakeIs, Zenon
<1>9. call.header => /\ InHeader /\ Len(Read) = readIndex + 1 /\ Read = SubSeq(currentData, 1, readIndex + 1)
                     /\ readIndex = HeaderSize => call' = NoCall
                     /\ readIndex < HeaderSize => call' = [call EXCEPT !.at = "byte", !.got = Read]
  BY TakeIs, Zenon
<1>10. IF call.header /\ Len(Read) = HeaderSize
       THEN session' = IF SectionsAt(Read[1]) = {} THEN session ELSE Parsed(SectionAt(Read[1]))
       ELSE session' = session
  <2>1. ~(readIndex >= Len(currentData))
    BY <1>1, <1>3
  <2> QED
    BY <2>1, Zenon DEF Take, Read
<1>11. call'.at \in {"byte", "swap", "take"} => call'.header
  <2>1. CASE call' = NoCall
    BY <1>1, <2>1, CallMoves
  <2>2. CASE call' = [call EXCEPT !.at = "byte", !.got = Read] /\ call.header
    BY <1>1, <2>2, Zenon DEF Calls
  <2>3. readIndex = HeaderSize \/ readIndex < HeaderSize \/ ~call.header
    BY <1>1, <1>3, <1>9 DEF InHeader
  <2> QED
    BY <1>8, <1>9, <2>1, <2>2, <2>3
<1>12. StartsSession(s)' = StartsSession(s)
  BY <1>1, SameSweeps
<1>13. CASE ~(call.header /\ readIndex + 1 = HeaderSize)
  <2>1. session' = session
    <3>1. ~(call.header /\ Len(Read) = HeaderSize)
      BY <1>9, <1>13
    <3> QED
      BY <1>10, <3>1
  <2>2. readIndex + 1 # HeaderSize
    <3>1. ~call.header => HeaderSize < readIndex
      BY <1>8 DEF InSweeps
    <3> QED
      BY <1>1, <1>3, <1>13, <3>1
  <2>3. \A u \in Intact : Off(u) + HeaderSize <= n <=> Off(u) + HeaderSize <= n + 1
    <3> TAKE u \in Intact
    <3>1. u \in log.sections
      BY ClearIs, IntactIs
    <3>2. Off(u) \in Nat
      BY <3>1, ClearIs, SectionHas
    <3>3. Off(u) + HeaderSize # n + 1
      <4> SUFFICES ASSUME Off(u) + HeaderSize = n + 1 PROVE FALSE
        OBVIOUS
      <4>0. 1 <= readIndex + 1
        BY <1>1
      <4>1. CASE readIndex + 1 < HeaderSize
        <5>1. Off(u) < Off(s)
          BY <1>1, <1>3, <1>4, <3>2, <4>1
        <5>2. End(u) <= Off(s)
          BY <1>3, <3>1, <5>1, ClearIs, SectionsApart
        <5>3. Off(u) + HeaderSize <= End(u)
          <6>1. End(u) = Off(u) + Length(u) /\ Length(u) = HeaderSize + u.sweeps + 1 /\ u.sweeps \in Nat
            BY <3>1, ClearIs, SectionHas
          <6> QED
            BY <1>3, <3>2, <6>1
        <5>4. End(u) \in Nat
          BY <3>1, ClearIs, SectionHas
        <5> QED
          BY <1>1, <1>3, <1>4, <3>2, <5>2, <5>3, <5>4
      <4>2. CASE HeaderSize < readIndex + 1
        <5>1. Off(s) < Off(u) /\ Off(u) < End(s)
          <6>1. PICK m \in Nat, o \in Nat, p \in Nat, h \in Nat :
                     m = Len(currentData) /\ o = Off(u) /\ p = Off(s) /\ h = HeaderSize
            BY <1>3, <3>2
          <6>2. o + h = p + readIndex + 1 /\ h < readIndex + 1 /\ readIndex < m
            BY <1>1, <1>4, <4>2, <6>1
          <6>3. p < o /\ o < p + m + 1
            BY <1>1, <6>1, <6>2
          <6> QED
            BY <1>3, <6>1, <6>3
        <5>2. End(s) <= Off(u)
          BY <1>3, <3>1, <5>1, ClearIs, SectionsApart
        <5> QED
          BY <1>1, <1>3, <1>4, <3>2, <5>1, <5>2
      <4> QED
        BY <1>1, <1>3, <2>2, <4>1, <4>2
    <3>4. PICK o \in Nat : o = Off(u) + HeaderSize
      BY <1>3, <3>2
    <3>5. o # n + 1 /\ n \in Nat
      BY <3>3, <3>4
    <3>6. o <= n <=> o <= n + 1
      BY <3>5
    <3> QED
      BY <3>4, <3>6, Zenon
  <2>4. readIndex' # HeaderSize
    BY <1>1, <2>2
  <2>5. PICK g : g = n + 1
    OBVIOUS
  <2>6. Frontier' = g /\ \A u \in Intact : Off(u) + HeaderSize <= n <=> Off(u) + HeaderSize <= g
    BY <1>7, <2>3, <2>5
  <2> QED
    BY <1>1, <1>5, <1>11, <2>1, <2>4, <2>6, SessionStays
<1>14. CASE call.header /\ readIndex + 1 = HeaderSize
  <2>1. n + 1 = Off(s) + HeaderSize
    BY <1>1, <1>3, <1>4, <1>14
  <2>2. Read[1] = s.at
    <3>1. PICK q : q = currentData
      OBVIOUS
    <3>2. q \in Seq(Address) /\ 1 <= readIndex + 1 /\ readIndex + 1 <= Len(q) /\ q # <<>>
      BY <1>1, <1>3, <3>1
    <3>3. SubSeq(q, 1, readIndex + 1)[1] = q[1]
      BY <1>1, <3>2
    <3>4. Head(q) = q[1]
      BY <3>2
    <3>5. Read = SubSeq(q, 1, readIndex + 1) /\ Head(q) = s.at
      BY <1>3, <1>9, <1>14, <3>1, Zenon
    <3> QED
      BY <3>3, <3>4, <3>5, Zenon
  <2>3. SectionsAt(s.at) # {} /\ SectionAt(s.at) = s
    BY <1>3, ClearIs, SectionAtIs
  <2>4. session' = Parsed(s)
    <3>1. Len(Read) = HeaderSize
      BY <1>9, <1>14
    <3> QED
      BY <1>10, <1>14, <2>2, <2>3, <3>1, Zenon
  <2>5. /\ session'.found = TRUE /\ session'.index = s.session
        /\ session'.starts <=> StartsSession(s)
    BY <1>5, <2>1, <2>4, HeaderIsRead
  <2>6. Intact' = Intact /\ \A u : Off(u)' = Off(u)
    BY <1>1, SameLog
  <2>7. \E u \in Intact : Off(u) + HeaderSize <= n + 1
    BY <1>3, <1>4, <2>1
  <2>8. \A t \in Intact : Parsing(t)' => t = s
    <3> TAKE t \in Intact
    <3> SUFFICES ASSUME Parsing(t)' PROVE t = s
      OBVIOUS
    <3>1. t \in log.sections
      BY ClearIs, IntactIs
    <3>2. Off(t) \in Nat
      BY <3>1, ClearIs, SectionHas
    <3>3. Off(t) + HeaderSize <= n + 1 /\ (Off(s) + HeaderSize <= n + 1 => Off(s) <= Off(t))
      BY <1>7, <2>6 DEF Parsing
    <3>4. Off(t) = Off(s)
      BY <1>3, <1>4, <2>1, <3>2, <3>3
    <3> QED
      BY <1>3, <3>1, <3>4, ClearIs, SectionsApart
  <2>9. session'.found <=> \E u \in Intact' : (Off(u) + HeaderSize)' <= Frontier'
    BY <1>7, <2>5, <2>6, <2>7
  <2>10. \A t \in Intact' : Parsing(t)' => session'.index = t.session
    BY <2>5, <2>6, <2>8
  <2>11. session'.starts <=> StartsSession(Sec(currentData))'
    <3>1. StartsSession(Sec(currentData))' = StartsSession(s)
      BY <1>6, <1>12 DEF StartsSession, Precedes
    <3> QED
      BY <2>5, <3>1, Zenon
  <2> QED
    BY <1>11, <2>9, <2>10, <2>11, Zenon DEF SessionInv
<1> QED
  BY <1>13, <1>14

LEMMA SessionKept ==
  ASSUME TypeInv, Clear(log), StartInv, DataInv, PhaseInv, SessionInv, [Next]_vars
  PROVE  SessionInv'
<1>1. CASE UNCHANGED vars
  BY <1>1, SessionGoesOn DEF vars, memory, buffer
<1> QED
  BY <1>1, GetNextSession, NextByteSession, SwapSession, TakeSession, FillSession, DownloadSession DEF Next

-----------------------------------------------------------------------------
(* Everything at once *)

DownloadInv ==
  /\ Clear(log)
  /\ TypeInv /\ StartInv /\ DataInv /\ PhaseInv /\ SessionInv /\ HistoryInv

LEMMA InitData ==
  ASSUME Init, TypeInv, Clear(log)
  PROVE  DataInv
<1> USE DEF Init
<1>1. 0 \in Offsets /\ BlockSize \in Nat \ {0}
  BY Constants DEF Offsets
<1>2. Whole(0)
  <2>1. 0 * BlockSize = 0 /\ 0 \in Nat
    BY <1>1
  <2> QED
    BY <2>1, TimesIsWhole
<1>3. Boundary(0) /\ GoodUpTo(0)
  BY <1>2, ClearIs, BlockBegins
<1>4. Jumped(0, 0)
  <2>1. 0 % BlockSize = 0
    BY <1>2 DEF Whole
  <2>2. 0 < log.size + BlockSize
    BY <1>1, LogIs
  <2> QED
    BY <2>1, <2>2 DEF Jumped
<1>5. download = Adr(0)
  BY LogIs, Constants DEF Adr
<1>6. Held(0, 0)
  BY DEF Held
<1>7. View(0, 0, 0)
  BY <1>3, <1>4, <1>5, <1>6 DEF View
<1>8. Chain(0)
  <2>1. NoneIn(0, 0)
    <3> SUFFICES ASSUME NEW s \in Intact, 0 <= Off(s), Off(s) < 0 PROVE FALSE
      BY DEF NoneIn
    <3>1. s \in log.sections
      BY ClearIs, IntactIs
    <3>2. Off(s) \in Nat
      BY <3>1, ClearIs, SectionHas
    <3> QED
      BY <3>2
  <2> QED
    BY <2>1 DEF Chain
<1> QED
  BY <1>1, <1>7, <1>8, Zenon DEF DataInv

LEMMA InitInv == Init /\ Clear(log) => DownloadInv
<1> SUFFICES ASSUME Init, Clear(log) PROVE DownloadInv
  OBVIOUS
<1>1. TypeInv
  BY InitType
<1>2. DataInv
  BY <1>1, InitData
<1>3. Frontier = 0
  BY DEF Init, Frontier
<1>4. NoCall.at = "idle" /\ NoCall.got = <<>>
  BY DEF NoCall
<1>5. StartInv
  BY DEF StartInv, Init
<1>6. PhaseInv
  BY <1>4 DEF PhaseInv, Init, Fills
<1>7. \A s \in Intact : ~(Off(s) + HeaderSize <= 0)
  <2> TAKE s \in Intact
  <2>1. s \in log.sections
    BY <1>1, ClearIs, IntactIs
  <2> QED
    BY <1>1, <2>1, ClearIs, SectionHas, Pieces
<1>8. SessionInv
  <2>1. \A s \in Intact : ~(Off(s) + HeaderSize <= Frontier) /\ ~Parsing(s)
    BY <1>3, <1>7 DEF Parsing
  <2>2. ~session.found /\ call.got = <<>> /\ call.at = "idle"
    BY <1>4 DEF Init
  <2> QED
    BY <2>1, <2>2 DEF SessionInv
<1>9. HistoryInv
  <2>1. returned = <<>>
    BY DEF Init
  <2>2. \A w \in Sweeps : ~(Into(log, w.at) < 0)
    BY <1>1, IntoIsInt
  <2>3. Range(returned) = {}
    BY <2>1 DEF Range
  <2> QED
    BY <1>3, <2>1, <2>2, <2>3 DEF HistoryInv
<1> QED
  BY <1>1, <1>2, <1>5, <1>6, <1>8, <1>9 DEF DownloadInv

LEMMA InvKept == DownloadInv /\ [Next]_vars => DownloadInv'
<1> SUFFICES ASSUME DownloadInv, [Next]_vars PROVE DownloadInv'
  OBVIOUS
<1>1. Clear(log) /\ TypeInv /\ StartInv /\ DataInv /\ PhaseInv /\ SessionInv /\ HistoryInv
  BY DEF DownloadInv
<1>2. log' = log
  BY DEF Next, vars, GetNextData, NextByte, Swap, Take, FillSection, FillNothing, Download, DownloadFails
<1>3. Clear(log)'
  BY <1>1, <1>2
<1> QED
  BY <1>1, <1>3, TypeKept, StartKept, DataKept, PhaseKept, SessionKept, HistoryKept DEF DownloadInv

LEMMA InOrder == DownloadInv => SweepsInOrder
<1> SUFFICES ASSUME DownloadInv PROVE SweepsInOrder
  OBVIOUS
<1>1. Clear(log) /\ TypeInv /\ DataInv
  BY DEF DownloadInv
<1>2. /\ returned \in Seq(Sweeps)
      /\ \A i, j \in DOMAIN returned : i < j => Earlier(returned[i], returned[j])
      /\ Range(returned) = {w \in Sweeps : Into(log, w.at) < Frontier}
  BY Zenon DEF DownloadInv, HistoryInv
<1>3. Frontier \in Nat
  <2>1. CASE currentData = <<>>
    BY <2>1 DEF Frontier
  <2>2. CASE currentData # <<>>
    <3>1. IsData(currentData)
      BY <1>1, <2>2, DataIs
    <3>2. Off(Sec(currentData)) \in Nat
      BY <1>1, <3>1, DataHas
    <3>3. readIndex \in Nat
      BY <1>1 DEF TypeInv
    <3> QED
      BY <2>2, <3>2, <3>3 DEF Frontier
  <2> QED
    BY <2>1, <2>2
<1>4. ASSUME returned # <<>>
      PROVE  Range(returned) = {w \in Sweeps : ~Earlier(Last(returned), w)}
  <2>1. PICK v : v = returned[Len(returned)]
    OBVIOUS
  <2>2. Last(returned) = v /\ Len(returned) \in DOMAIN returned
    BY <1>2, <1>4, <2>1 DEF Last
  <2>3. v \in Range(returned)
    BY <2>1, <2>2 DEF Range
  <2>4. v \in Sweeps /\ Into(log, v.at) < Frontier
    BY <1>2, <2>3
  <2>5. ASSUME NEW w \in Range(returned)
        PROVE  w \in Sweeps /\ ~Earlier(v, w)
    <3>1. PICK i \in DOMAIN returned : w = returned[i]
      BY <2>5 DEF Range
    <3>2. w \in Sweeps
      BY <1>2, <2>5
    <3>3. Into(log, v.at) \in Nat /\ Into(log, w.at) \in Nat
      BY <1>1, <2>4, <3>2, IntoIsInt
    <3>4. i = Len(returned) \/ i < Len(returned)
      BY <1>2, <3>1
    <3>5. i < Len(returned) => Earlier(w, v)
      BY <1>2, <2>1, <2>2, <3>1, Zenon
    <3>6. i = Len(returned) => w = v
      BY <2>1, <3>1
    <3> QED
      BY <3>2, <3>3, <3>4, <3>5, <3>6 DEF Earlier
  <2>6. ASSUME NEW w \in Sweeps, ~Earlier(v, w)
        PROVE  w \in Range(returned)
    <3>1. Into(log, v.at) \in Nat /\ Into(log, w.at) \in Nat
      BY <1>1, <2>4, IntoIsInt
    <3>2. Into(log, w.at) < Frontier
      BY <1>3, <2>4, <2>6, <3>1 DEF Earlier
    <3> QED
      BY <1>2, <3>2
  <2> QED
    BY <2>2, <2>5, <2>6
<1> QED
  BY <1>2, <1>4 DEF SweepsInOrder

\* Nothing remains, and every intact section has been read to its end.
LEMMA NothingRemains ==
  ASSUME DownloadInv, BytesRemaining = 0
  PROVE  \A w \in Sweeps : Into(log, w.at) < Frontier
<1>1. Clear(log) /\ TypeInv /\ StartInv /\ DataInv /\ PhaseInv
  BY DEF DownloadInv
<1>2. /\ BytesLeft = 0 /\ Len(nextData) = 0 /\ Len(extraData) = 0 /\ readIndex = Len(currentData)
      /\ nextData = <<>> /\ extraData = <<>>
  <2>1. /\ BytesLeft \in Nat /\ Len(nextData) \in Nat /\ Len(extraData) \in Nat /\ Len(currentData) \in Nat
        /\ readIndex \in 0 .. Len(currentData)
    BY <1>1, LeftIsNat DEF TypeInv
  <2>2. BytesLeft = 0 /\ Len(nextData) = 0 /\ Len(extraData) = 0 /\ readIndex = Len(currentData)
    BY <2>1 DEF BytesRemaining
  <2> QED
    BY <1>1, <2>2 DEF TypeInv
<1>3. CASE currentData = <<>>
  <2>1. ~done
    BY <1>1, <1>3, Zenon DEF PhaseInv
  <2>2. PICK x, e, d \in Offsets : View(x, e, d) /\ Chain(x)
    BY <1>1, <2>1, Zenon DEF DataInv
  <2>3. NoneIn(0, x)
    BY <1>3, <2>2 DEF Chain
  <2>4. x \in Nat /\ e \in Nat /\ d \in Nat /\ x <= e /\ e <= d /\ log.size \in Nat
    BY <1>1, <2>2, NumbersOfView, LogIs
  <2>5. x = e
    <3>1. Len(extraData) = e - x
      BY <2>2 DEF View, Held
    <3> QED
      BY <1>2, <2>4, <3>1
  <2>6. log.size <= x
    <3>1. CASE e # d
      BY <2>2, <2>4, <2>5, <3>1 DEF View
    <3>2. CASE e = d
      <4>1. ~(d < log.size)
        BY <1>1, <1>2, <2>2, LeftInView
      <4> QED
        BY <2>4, <2>5, <3>2, <4>1
    <3> QED
      BY <3>1, <3>2
  <2>7. Intact = {}
    <3> SUFFICES ASSUME NEW s \in Intact PROVE FALSE
      OBVIOUS
    <3>1. s \in log.sections /\ End(s) <= log.size
      BY <1>1, ClearIs, IntactIs
    <3>2. Off(s) \in Nat /\ End(s) \in Nat /\ Off(s) < End(s)
      BY <1>1, <3>1, ClearIs, SectionHas
    <3> QED
      BY <2>3, <2>4, <2>6, <3>1, <3>2 DEF NoneIn
  <2> QED
    BY <1>1, <2>7, ClearIs DEF HasData, Intact
<1>4. CASE currentData # <<>>
  <2>1. IsData(currentData)
    BY <1>1, <1>4, DataIs
  <2>2. PICK s \in Intact : s = Sec(currentData)
    BY <1>1, <2>1, DataHas
  <2>3. /\ Len(currentData) = HeaderSize + s.sweeps /\ s.sweeps \in Nat /\ HeaderSize \in Nat /\ 2 <= HeaderSize
        /\ Off(s) \in Nat /\ End(s) = Off(s) + Len(currentData) + 1 /\ s \in log.sections
    BY <1>1, <2>1, <2>2, DataHas
  <2>4. done
    <3>1. readIndex # 0
      BY <1>2, <2>3
    <3>2. ~partial
      BY <1>1, <3>1, Zenon DEF PhaseInv
    <3> QED
      BY <1>1, <1>2, <1>4, <3>2, Zenon DEF PhaseInv
  <2>5. NoneIn(End(s), StorageSize)
    BY <1>1, <2>2, <2>4, Zenon DEF DataInv
  <2>6. Frontier = Off(s) + HeaderSize + s.sweeps
    BY <1>2, <1>4, <2>2, <2>3 DEF Frontier
  <2> TAKE w \in Sweeps
  <2>7. PICK u \in Intact, k \in Nat :
           /\ k \in 1 .. u.sweeps /\ Into(log, w.at) = Off(u) + HeaderSize + k - 1
           /\ u \in log.sections /\ Off(u) \in Nat /\ u.sweeps \in Nat
           /\ End(u) = Off(u) + HeaderSize + u.sweeps + 1
    BY <1>1, SweepIn
  <2>8. Off(u) < End(s)
    <3>1. Off(u) < StorageSize
      BY <1>1, <2>7, ClearIs, SectionHas
    <3>2. ~(End(s) <= Off(u))
      BY <2>5, <3>1 DEF NoneIn
    <3>3. End(s) \in Nat
      BY <1>1, <2>3, ClearIs, SectionHas
    <3> QED
      BY <2>7, <3>2, <3>3
  <2>9. CASE Off(u) < Off(s)
    <3>1. End(u) <= Off(s)
      BY <1>1, <2>3, <2>7, <2>9, ClearIs, SectionsApart
    <3>2. Into(log, w.at) < End(u)
      BY <2>3, <2>7
    <3>3. PICK n \in Nat, m \in Nat, o \in Nat : n = Into(log, w.at) /\ m = End(u) /\ o = Off(s)
      BY <2>3, <2>7
    <3>4. n < o
      BY <3>1, <3>2, <3>3
    <3> QED
      BY <2>3, <2>6, <3>3, <3>4
  <2>10. CASE Off(s) <= Off(u)
    <3>1. u = s
      BY <1>1, <2>3, <2>7, <2>8, <2>10, ClearIs, SectionsApart
    <3> QED
      BY <2>3, <2>6, <2>7, <3>1
  <2> QED
    BY <2>3, <2>7, <2>9, <2>10
<1> QED
  BY <1>3, <1>4

LEMMA AllAtTheEnd == DownloadInv => CompleteMeansAll
<1> SUFFICES ASSUME DownloadInv, Idle, Complete PROVE Range(returned) = Sweeps
  BY DEF CompleteMeansAll
<1>1. BytesRemaining = 0
  <2>1. PhaseInv
    BY DEF DownloadInv
  <2> QED
    BY <2>1, Zenon DEF Complete, PhaseInv
<1>2. Range(returned) = {w \in Sweeps : Into(log, w.at) < Frontier}
  BY Zenon DEF DownloadInv, HistoryInv
<1> QED
  BY <1>1, <1>2, NothingRemains

LEMMA Downloading1 == Spec /\ Clear(log) => []DownloadInv
<1>1. Init /\ Clear(log) => DownloadInv
  BY InitInv
<1>2. DownloadInv /\ [Next]_vars => DownloadInv'
  BY InvKept
<1> QED
  BY <1>1, <1>2, PTL DEF Spec

\* However often the download is taken up again, the sweeps of a clear log come in
\* order, each once, and marked where their sessions start.
THEOREM InOrderAlways == Spec /\ Clear(log) => []SweepsInOrder
<1>1. DownloadInv => SweepsInOrder
  BY InOrder
<1> QED
  BY <1>1, Downloading1, PTL

\* A download of a clear log that says it is complete has handed out all of it.
THEOREM AllHandedOut == Spec /\ Clear(log) => []CompleteMeansAll
<1>1. DownloadInv => CompleteMeansAll
  BY AllAtTheEnd
<1> QED
  BY <1>1, Downloading1, PTL

\* No read and no cut of a buffer is out of range while a clear log is downloaded.
THEOREM AlwaysInRange == Spec /\ Clear(log) => []InRange
<1>1. DownloadInv => InRange
  BY Zenon DEF DownloadInv, PhaseInv, InRange
<1> QED
  BY <1>1, Downloading1, PTL
=============================================================================
