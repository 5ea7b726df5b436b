------------------------- MODULE MC_WirelessReceive -------------------------
(* TLC instances of WirelessReceive. *)
EXTENDS WirelessReceive, SequencesExt

B(kind, len, key, id, sweeps) ==
  [kind |-> kind, len |-> len, key |-> key, id |-> id, sweeps |-> sweeps]

Junk   == B("junk", 1, 0, 0, 0)
Answer == B("answer", 1, 0, 0, 0)
Start(len) == B("start", len, 0, 0, 0)
Packet(head) == <<head>> \o [i \in 1 .. head.len - 1 |-> Junk]

Data(key, id) == Packet(B("data", 3, key, id, 1))
Two(key, id)  == Packet(B("data", 3, key, id, 2))
Discovery     == Packet(B("discovery", 3, 0, 0, 0))
Reply         == Packet(B("reply", 2, 0, 0, 0))
Damaged       == Packet(Start(3))

\* What may stand before a packet: a start that waits for more bytes than there
\* will be or for some of those that follow, a damaged packet, noise.
Ahead == {<<Start(9)>>, <<Start(4)>>, Damaged, <<Junk>>}

\* Sent again, equal ids of two Nodes, a reply between, more than the buffers hold.
Noisy ==
  {s \o FlattenSeq(t) : s \in Ahead,
     t \in {<<Two(1, 1), Data(1, 1), Data(2, 1)>>, <<Reply, Discovery, Two(1, 1)>>,
           <<Two(1, 1), <<Start(9)>>, Data(2, 1)>>,
           <<Data(1, 1), Reply, <<Junk>>, Data(1, 1), Data(1, 2)>>, <<<<Start(9)>>, Discovery, Damaged, Discovery>>}}

Crowded == {FlattenSeq(<<Discovery, Discovery, Discovery>>),
            FlattenSeq(<<Two(1, 1), Data(2, 1), Data(1, 2), Data(2, 2)>>)}

\* Answers of one byte, and data without anything stray between them.
Answered == {FlattenSeq(<<a, <<Answer>>, b>>) : a \in {<<>>, Data(1, 1)}, b \in {Data(1, 2), Reply}}

MCStreams == Noisy \cup Crowded \cup Answered

ASSUME StreamsAreTidy == \A s \in MCStreams : Tidy(s)

TwoReaders == {FlattenSeq(<<Two(1, 1), Two(1, 2)>>)}
Stray      == {FlattenSeq(<<<<Junk>>, Data(1, 1), <<Answer>>>>)}
=============================================================================
