--------------------------- MODULE DatalogDownload ---------------------------
(***************************************************************************)
(* Downloading the log of a wireless Node (DatalogDownloader on a          *)
(* NodeMemory_v2).  The flash is a ring of blocks; a block holds sections, *)
(* each a header, sweeps and a checksum, and what is left of it is erased. *)
(* The library fetches pieces of ChunkSize bytes, looks for sections in    *)
(* them, keeps the section it reads and the one after it, and hands out    *)
(* one sweep a call.  A call that throws may be made again.                *)
(*                                                                         *)
(* A byte is the address it was fetched from.  A sweep and a checksum are  *)
(* one byte long, a header HeaderSize.                                     *)
(***************************************************************************)
EXTENDS Integers, FiniteSets, Sequences, SequencesExt

CONSTANTS
  StorageSize, BlockSize,   \* m_flashInfo
  ChunkSize,                \* how many bytes the Node answers with
  HeaderSize,
  Logs                      \* what may be on the flash

Address == 0 .. StorageSize - 1

Section == [at : Address, kind : {"block", "refresh", "session"}, session : Nat,
            sweeps : Nat, good : BOOLEAN]

ASSUME DatalogAssumption ==
  /\ {StorageSize, BlockSize, ChunkSize, HeaderSize} \subseteq Nat \ {0}
  /\ StorageSize % BlockSize = 0 /\ ChunkSize \in 2 .. BlockSize /\ HeaderSize > 1
  /\ \A l \in Logs : /\ l.start \in Address /\ l.size \in 1 .. StorageSize
                     /\ l.sections \subseteq Section

VARIABLES
  log,        \* what is on the flash: it does not change
  download,   \* m_downloadAddress
  previous,   \* m_previousDownloadAddress
  extraData,  \* what has been downloaded and not been looked at
  currentData,\* the section that is being read
  nextData,   \* the section after it
  readIndex,  \* m_readIndex: how far currentData has been read
  partial,    \* m_partialDownload
  done,       \* m_doneDownloading
  started,    \* m_startedDownloading
  session,    \* m_sessionInfo: sessionIndex, startOfTrigger, and m_foundFirstTrigger
  outOfMemory,\* m_outOfMemory
  call,       \* where getNextData is
  returned    \* history: the sweeps that were handed out

place  == <<download, previous>>
buffer == <<extraData, currentData, nextData, readIndex>>
flags  == <<partial, done, started>>
memory == <<place, buffer, flags>>
vars   == <<log, memory, session, outOfMemory, call, returned>>

\* at: where it is; header: whether it reads one; got: what it has read;
\* fetched: whether fillBuffer has downloaded anything.
NoCall == [at |-> "idle", header |-> FALSE, got |-> <<>>, fetched |-> FALSE]

Init ==
  /\ log \in Logs
  /\ download = log.start /\ previous = log.start
  /\ extraData = <<>> /\ currentData = <<>> /\ nextData = <<>> /\ readIndex = 0
  /\ partial = FALSE /\ done = FALSE /\ started = FALSE
  /\ session = [index |-> 0, starts |-> FALSE, found |-> FALSE]
  /\ outOfMemory = FALSE
  /\ call = NoCall /\ returned = <<>>

-----------------------------------------------------------------------------
(* The flash *)

Length(s)     == HeaderSize + s.sweeps + 1
SectionsAt(a) == {s \in log.sections : s.at = a}
SectionAt(a)  == CHOOSE s \in SectionsAt(a) : TRUE
Bytes(a, n)   == [i \in 1 .. n |-> (a + i - 1) % StorageSize]

\* verifyBlock: a section at the start of the bytes, too few bytes, or neither.
Verify(bytes) ==
  IF bytes = <<>> THEN "more"
  ELSE IF SectionsAt(Head(bytes)) = {} THEN "junk"
  ELSE LET s == SectionAt(Head(bytes)) IN
       IF Len(bytes) < 2 /\ s.kind = "block" THEN "junk"
       ELSE IF Len(bytes) < Length(s) THEN "more"
       ELSE IF s.good /\ IsPrefix(Bytes(s.at, Length(s)), bytes) THEN "verified"
       ELSE "junk"

-----------------------------------------------------------------------------
(* Where in the log *)

\* Mutant of NextBlockAddress: one block too far.
BlockAfterNext(a) == a + 2 * BlockSize - (a % BlockSize)

\* Mutant of NextBlockAddress: the block it is in.
ThisBlockAddress(a) == a - (a % BlockSize)

NextBlockAddress(a) == a + (BlockSize - (a % BlockSize))

Normalized(a) == IF a > StorageSize THEN a % StorageSize ELSE a

\* Mutant of LastAddress: the log is taken not to go on at the start of the flash.
LastAddressUnwrapped == log.start + log.size

LastAddress == IF log.start + log.size > StorageSize THEN log.start + log.size - StorageSize
               ELSE log.start + log.size

AtLeastZero(n) == IF n > 0 THEN n ELSE 0

BytesLeft ==
  IF download = log.start /\ started THEN 0
  ELSE AtLeastZero(log.size - (IF download >= log.start THEN download - log.start
                               ELSE StorageSize - log.start + download))

BytesRemaining == BytesLeft + Len(nextData) + Len(extraData) + Len(currentData) - readIndex

IsNextByteNewHeader == BytesRemaining # 0 /\ (partial \/ readIndex >= Len(currentData))

Complete == outOfMemory \/ BytesRemaining = 0

-----------------------------------------------------------------------------
(* getNextData *)

Goto(where) == call' = [call EXCEPT !.at = where]

Throw == call' = NoCall

\* The exception of a read or a cut that is out of range.
ThrowOutOfRange == call' = [NoCall EXCEPT !.at = "outOfRange"]

\* No call is under way; the last one may have ended with such an exception.
Idle == call.at \in {"idle", "outOfRange"}

GetNextData ==
  /\ Idle
  /\ IF Complete
     THEN outOfMemory' = TRUE /\ UNCHANGED <<call, session>>
     ELSE IF IsNextByteNewHeader
     THEN call' = [NoCall EXCEPT !.at = "byte", !.header = TRUE] /\ UNCHANGED <<outOfMemory, session>>
     ELSE IF ~session.found
     THEN outOfMemory' = TRUE /\ UNCHANGED <<call, session>>
     ELSE /\ call' = [NoCall EXCEPT !.at = "byte"]
          /\ session' = [session EXCEPT !.starts = FALSE]
          /\ UNCHANGED outOfMemory
  /\ UNCHANGED <<log, memory, returned>>

\* fillBuffer begins.
Fill(where) ==
  /\ call' = [call EXCEPT !.at = where, !.fetched = FALSE]
  /\ partial' = TRUE

NextByte ==
  /\ call.at = "byte"
  /\ IF BytesRemaining = 0 THEN Throw /\ UNCHANGED partial
     ELSE IF currentData = <<>> THEN Fill("fillCurrent")
     ELSE IF partial THEN Fill("fillAgain")
     ELSE Goto("swap") /\ UNCHANGED partial
  /\ UNCHANGED <<log, place, buffer, done, started, session, outOfMemory, returned>>

\* The section in m_currentData has been read: on to the one after it.
Swap ==
  /\ call.at = "swap"
  /\ IF readIndex < Len(currentData)
     THEN Goto("take") /\ UNCHANGED <<currentData, nextData, readIndex, partial>>
     ELSE /\ currentData' = nextData /\ nextData' = <<>> /\ readIndex' = 0
          /\ IF done THEN Goto("take") /\ UNCHANGED partial ELSE Fill("fillNext")
  /\ UNCHANGED <<log, place, extraData, done, started, session, outOfMemory, returned>>

\* What a header changes.
Parsed(s) ==
  LET new == s.session # session.index \/ (s.kind = "block" /\ ~session.found)
  IN IF s.kind = "refresh" THEN [session EXCEPT !.starts = FALSE, !.found = TRUE]
     ELSE [index |-> s.session, starts |-> new, found |-> TRUE]

\* The byte is read; the last byte of a call is the sweep.
Take ==
  /\ call.at = "take"
  /\ started' = TRUE
  /\ IF readIndex >= Len(currentData)
     THEN ThrowOutOfRange /\ UNCHANGED <<readIndex, session, returned>>
     ELSE LET got == Append(call.got, currentData[readIndex + 1]) IN
          /\ readIndex' = readIndex + 1
          /\ IF call.header /\ Len(got) = HeaderSize
             THEN session' = IF SectionsAt(got[1]) = {} THEN session ELSE Parsed(SectionAt(got[1]))
             ELSE UNCHANGED session
          /\ IF Len(got) = (IF call.header THEN HeaderSize + 1 ELSE 1)
             THEN /\ call' = NoCall
                  /\ returned' = Append(returned, [at |-> Last(got), starts |-> session.starts])
             ELSE /\ call' = [call EXCEPT !.at = "byte", !.got = got]
                  /\ UNCHANGED returned
  /\ UNCHANGED <<log, place, extraData, currentData, nextData, partial, done, outOfMemory>>

-----------------------------------------------------------------------------
(* fillBuffer *)

Filling == call.at \in {"fillCurrent", "fillFirst", "fillAgain", "fillNext"}

\* nextByte goes on.
Filled ==
  IF call.at = "fillCurrent" /\ nextData = <<>>
  THEN Fill("fillFirst") /\ UNCHANGED readIndex
  ELSE /\ partial' = FALSE
       /\ readIndex' = IF call.at \in {"fillCurrent", "fillFirst"} THEN 0 ELSE readIndex
       /\ Goto(IF call.at = "fillNext" THEN "take" ELSE "swap")

\* Mutant of Behind: what is behind the end of the log is kept.
BehindKept == 0

\* The bytes that were downloaded from behind the end of the log.
Behind == IF call.fetched /\ BytesLeft = 0 THEN download - LastAddress ELSE 0

\* A section has been found: the bytes after its checksum are kept for later.
FillSection ==
  /\ Filling /\ Verify(extraData) = "verified"
  /\ LET n == Length(SectionAt(Head(extraData)))
         section == SubSeq(extraData, 1, n - 1)
     IN IF Behind \in 0 .. Len(extraData) - n
        THEN /\ extraData' = SubSeq(extraData, n + 1, Len(extraData) - Behind)
             /\ IF call.at = "fillCurrent" THEN currentData' = section /\ UNCHANGED nextData
                ELSE nextData' = section /\ UNCHANGED currentData
             /\ Filled
        ELSE ThrowOutOfRange /\ partial' = FALSE /\ UNCHANGED buffer
  /\ UNCHANGED <<log, place, done, started, session, outOfMemory, returned>>

\* The end of the log.
FillNothing ==
  /\ Filling /\ Verify(extraData) # "verified" /\ BytesLeft = 0
  /\ extraData' = <<>> /\ done' = TRUE
  /\ Filled
  /\ UNCHANGED <<log, place, currentData, nextData, started, session, outOfMemory, returned>>

Downloading == Filling /\ Verify(extraData) # "verified" /\ BytesLeft # 0

\* A piece arrives.  If what was there is junk, the search goes on at the block
\* after the last piece.
Download ==
  /\ Downloading
  /\ previous' = download
  /\ IF Verify(extraData) = "more"
     THEN /\ extraData' = extraData \o Bytes(download, ChunkSize)
          /\ download' = Normalized(download + ChunkSize)
     ELSE /\ extraData' = <<>>
          /\ download' = Normalized(NextBlockAddress(previous))
  /\ call' = [call EXCEPT !.fetched = TRUE]
  /\ UNCHANGED <<log, currentData, nextData, readIndex, flags, session, outOfMemory, returned>>

\* Mutant of DownloadFails: the download is not marked as unfinished.
DownloadFailsUnmarked ==
  /\ Downloading
  /\ partial' = FALSE
  /\ Throw
  /\ UNCHANGED <<log, place, buffer, done, started, session, outOfMemory, returned>>

DownloadFails ==
  /\ Downloading
  /\ Throw
  /\ UNCHANGED <<log, memory, session, outOfMemory, returned>>

-----------------------------------------------------------------------------
Next ==
  \/ GetNextData \/ NextByte \/ Swap \/ Take
  \/ FillSection \/ FillNothing \/ Download \/ DownloadFails

Spec == Init /\ [][Next]_vars

\* The application goes on until the download is complete, and a piece that is
\* asked for again and again arrives at last.
FairSpec == Spec /\ WF_vars(Next) /\ SF_vars(Download)

-----------------------------------------------------------------------------
(* Logs *)

\* How far an address, and a section, is into a log, and where it ends.
Into(l, a)   == IF a >= l.start THEN a - l.start ELSE a + StorageSize - l.start
Offset(l, s) == Into(l, s.at)
EndOf(l, s)  == Offset(l, s) + Length(s)

\* Where the block of an offset begins.
BlockOf(n) == n - (n % BlockSize)

\* The sections of the log: the flash may hold older ones behind it.
Inside(l) == {s \in l.sections : EndOf(l, s) <= l.size}

\* Those that are not behind a damaged one of their block.
IntactIn(l) ==
  {s \in Inside(l) : \A t \in l.sections :
     BlockOf(Offset(l, t)) = BlockOf(Offset(l, s)) /\ Offset(l, t) <= Offset(l, s) => t.good}
Intact == IntactIn(log)

\* How a Node writes a log: block by block, each a header and sweeps, and others of
\* the same or a new session right behind it, as long as they fit into the block.
WellFormed(l) ==
  /\ l.start % BlockSize = 0
  /\ \A s \in l.sections :
       /\ s.sweeps > 0 /\ EndOf(l, s) <= BlockOf(Offset(l, s)) + BlockSize
       /\ EndOf(l, s) <= l.size \/ l.size <= BlockOf(Offset(l, s))
       /\ s.kind = "block" <=> Offset(l, s) % BlockSize = 0
       /\ s.kind # "block" => \E t \in l.sections :
            /\ EndOf(l, t) = Offset(l, s)
            /\ s.kind = "refresh" => t.session = s.session
  /\ \A s, t \in l.sections : s = t \/ EndOf(l, s) <= Offset(l, t) \/ EndOf(l, t) <= Offset(l, s)

\* No piece that holds the end of the log runs over the end of the flash, where
\* the address starts again.
EndIsClear(l) == l.start + l.size \notin StorageSize - ChunkSize + 1 .. StorageSize

\* The log has an intact section, and if it goes round the flash two of them.
HasData(l) ==
  /\ IntactIn(l) # {}
  /\ l.size > StorageSize - BlockSize => \E s, t \in IntactIn(l) : s # t

\* No piece that starts before the last block holds the end of the log.
LastIsLong(l) == l.size <= BlockSize \/ (l.size - 1) % BlockSize >= ChunkSize - 1

\* The flash is not full to the brim.
NotBrimFull(l) == \A s \in Inside(l) : EndOf(l, s) < StorageSize

\* A piece that runs out of a full block does not hold all that is in the next one,
\* or up to a damaged section of it.
NoShortBehindFull(l) ==
  \A s, t \in Inside(l) :
    EndOf(l, s) = BlockOf(Offset(l, t)) /\ EndOf(l, t) < BlockOf(Offset(l, t)) + ChunkSize - 1 =>
      \E u \in l.sections :
        /\ Offset(l, u) = EndOf(l, t)
        /\ u.good \/ EndOf(l, u) >= BlockOf(Offset(l, t)) + ChunkSize

\* The logs of which everything is handed out.
Clear(l) ==
  /\ WellFormed(l) /\ EndIsClear(l) /\ HasData(l)
  /\ LastIsLong(l) /\ NotBrimFull(l) /\ NoShortBehindFull(l)

-----------------------------------------------------------------------------
(* Properties *)

TypeOK ==
  /\ download \in 0 .. StorageSize /\ previous \in 0 .. StorageSize
  /\ {extraData, currentData, nextData} \subseteq Seq(Address)
  /\ readIndex \in 0 .. Len(currentData)
  /\ {partial, done, started, outOfMemory} \subseteq BOOLEAN
  /\ session.index \in Nat

\* A session begins with a section if the intact one before it is of another.
Precedes(t, s) ==
  /\ Offset(log, t) < Offset(log, s)
  /\ \A u \in Intact : Offset(log, u) <= Offset(log, t) \/ Offset(log, s) <= Offset(log, u)
StartsSession(s) == \A t \in Intact : Precedes(t, s) => t.session # s.session

\* The sweeps of a section, marked where another session begins.
SweepsOf(s) == {[at |-> (s.at + HeaderSize + k - 1) % StorageSize,
                 starts |-> k = 1 /\ StartsSession(s)] : k \in 1 .. s.sweeps}
Sweeps == UNION {SweepsOf(s) : s \in Intact}

Earlier(v, w) == Into(log, v.at) < Into(log, w.at)

\* What is handed out are the sweeps of the intact sections, in the order they
\* were logged, each once, and marked where a session starts, however often the
\* download fails and is taken up again.
SweepsInOrder ==
  /\ \A i, j \in DOMAIN returned : i < j => Earlier(returned[i], returned[j])
  /\ returned # <<>> => Range(returned) = {w \in Sweeps : ~Earlier(Last(returned), w)}

\* A download that says it is complete has handed out every intact sweep.
CompleteMeansAll == Idle /\ Complete => Range(returned) = Sweeps

\* No byte is read, and no buffer cut, out of range.
InRange == call.at # "outOfRange"

\* The download ends.
Completes == <>(Idle /\ Complete)
=============================================================================
