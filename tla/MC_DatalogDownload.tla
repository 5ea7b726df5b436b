------------------------- MODULE MC_DatalogDownload -------------------------
(* TLC instances of DatalogDownload: a flash of three blocks. *)
EXTENDS DatalogDownload

Blocks == StorageSize \div BlockSize

S(offset, kind, begins, sweeps, good) ==
  [offset |-> offset, kind |-> kind, begins |-> begins, sweeps |-> sweeps, good |-> good]

\* What a block may hold.  "begins": 1 if a session has begun in it.
Two      == <<S(0, "block", 1, 2, TRUE), S(5, "refresh", 1, 1, TRUE)>>
Change   == <<S(0, "block", 0, 1, TRUE), S(4, "session", 1, 2, TRUE)>>
Damaged  == <<S(0, "block", 1, 2, FALSE), S(5, "refresh", 1, 1, TRUE)>>
Broken   == <<S(0, "block", 1, 2, TRUE), S(5, "refresh", 1, 1, FALSE)>>
Short    == <<S(0, "block", 1, 1, TRUE)>>
Full     == <<S(0, "block", 1, 2, TRUE), S(5, "refresh", 1, 2, TRUE)>>
Whole    == <<S(0, "block", 0, 7, TRUE)>>
Erased   == <<>>

Begins(layout) == \E i \in DOMAIN layout : layout[i].begins = 1
End(layout) == IF layout = <<>> THEN 0
               ELSE Last(layout).offset + HeaderSize + Last(layout).sweeps + 1

\* The log of these blocks from an address on.
LogOf(blocks, start, size) ==
  LET Before(i) == Cardinality({j \in 1 .. i - 1 : Begins(blocks[j])})
      Logged(i) ==
        {[at |-> (start + (i - 1) * BlockSize + s.offset) % StorageSize, kind |-> s.kind,
          session |-> Before(i) + s.begins, sweeps |-> s.sweeps, good |-> s.good] : s \in Range(blocks[i])}
  IN [start |-> start, size |-> size, sections |-> UNION {Logged(i) : i \in DOMAIN blocks}]

\* Every log of up to three such blocks, from any block on, that ends with a
\* block or with its last section.  The flash may hold more blocks than that.
LogsOf(layouts) ==
  UNION {{LogOf(blocks, b * BlockSize, size) :
            b \in 0 .. Blocks - 1,
            size \in UNION {{(n - 1) * BlockSize + e : e \in {BlockSize, End(blocks[n])} \ {0}}
                           : n \in DOMAIN blocks}}
         : blocks \in UNION {[1 .. n -> layouts] : n \in 1 .. Blocks}}

AllLogs == {l \in LogsOf({Two, Change, Damaged, Broken, Short, Erased}) \cup LogsOf({Change, Full, Whole}) :
              Clear(l)}

\* Logs that Clear leaves out.  The end of the log in a piece that runs over the
\* end of the flash:
EndNotClear == {l \in LogsOf({Two, Broken}) : ~EndIsClear(l) /\ HasData(l) /\ LastIsLong(l)}

\* Nothing but damaged sections:
NoData == {l \in LogsOf({Damaged}) : EndIsClear(l) /\ LastIsLong(l)}

\* A short last block:
LastIsShort == {l \in LogsOf({Two, Short}) : EndIsClear(l) /\ HasData(l) /\ ~LastIsLong(l)}

\* A short block behind one that is full:
ShortBehindWhole ==
  {l \in LogsOf({Whole, Short, Two}) : EndIsClear(l) /\ HasData(l) /\ LastIsLong(l) /\ NotBrimFull(l)}

\* A flash that is full to the last byte:
BrimFull == {LogOf([i \in 1 .. Blocks |-> Whole], 0, StorageSize)}
=============================================================================
