----------------------------- MODULE ByteStream -----------------------------
(***************************************************************************)
(* What the read buffer of a connection promises its parser: the bytes     *)
(* that arrive at the port are offered to it in the order of their         *)
(* arrival, each until it is consumed, and never again.  Bytes are lost    *)
(* only while no parser is registered, or when the parser leaves as many   *)
(* unconsumed as the buffer holds.                                         *)
(***************************************************************************)
EXTENDS Integers, Sequences

CONSTANTS
  Capacity,    \* how many bytes can wait to be consumed
  MaxBytes     \* bound: bytes that arrive at the port

VARIABLES
  arrived,    \* bytes that have arrived: they are numbered 1 .. arrived
  port,       \* bytes at the port that the buffer has not taken yet
  queue,      \* bytes taken and not consumed
  parsed,     \* how many bytes the parser has consumed
  parsing     \* whether somebody consumes bytes

vars == <<arrived, port, queue, parsed, parsing>>

Init == arrived = 0 /\ port = <<>> /\ queue = <<>> /\ parsed = 0 /\ parsing = FALSE

\* The next n bytes.
Fresh(n) == [i \in 1 .. n |-> arrived + i]

Arrive ==
  /\ port = <<>>
  /\ \E n \in 1 .. MaxBytes - arrived : port' = Fresh(n) /\ arrived' = arrived + n
  /\ UNCHANGED <<queue, parsed, parsing>>

Take == port # <<>> /\ port' = <<>> /\ UNCHANGED <<arrived, parsing>>

\* The parser consumes the first k bytes of all there are.
Parse ==
  /\ parsing
  /\ Take
  /\ \E k \in 0 .. Len(queue \o port) :
       /\ queue' = SubSeq(queue \o port, k + 1, Len(queue \o port))
       /\ parsed' = parsed + k

\* The parser wants more, and there is no room for more.
Overflow ==
  /\ parsing
  /\ Take
  /\ Len(queue \o port) = Capacity
  /\ queue' = <<>>
  /\ UNCHANGED parsed

\* Without a parser, the bytes are kept, or not, or all are thrown away.
Ignore ==
  /\ ~parsing
  /\ Take
  /\ queue' \in {queue, queue \o port, <<>>}
  /\ UNCHANGED parsed

SetParsing == parsing' \in BOOLEAN /\ UNCHANGED <<arrived, port, queue, parsed>>

Next == Arrive \/ Parse \/ Overflow \/ Ignore \/ SetParsing

Spec == Init /\ [][Next]_vars
=============================================================================
