# A verification of MSCL

TLA+ models, model-checking configurations and machine-checked proofs for the
MicroStrain Communication Library (`src/src/mscl`): the part of the library
that several threads, a lossy radio link and a byte stream make hard to test.

## 1. The system

MSCL talks to MicroStrain devices over a byte stream (serial port, TCP, Unix
socket, WebSocket). A *wireless* system is a BaseStation with Nodes behind it,
speaking ASPP; an *inertial* device speaks MIP. Application threads issue
commands and collect data; one IO thread per connection reads bytes, parses
packets out of them and either stores them (data packets) or offers them to the
commands that wait for a reply.

| Component | State it keeps | Operations | Interacts with |
|---|---|---|---|
| Connection / `BoostCommunication` | comm mutex, parse function and its mutex, error flag, IO thread | write, reconnect, disconnect, registerParser, clearBuffer, read loop | calls the parser on the IO thread; called by every command |
| `DataBuffer`, `BufferWriter`, `ReadBufferSavePoint` | memory, read and append positions, save position | commit, shiftExtraToStart, getBufferWriter, revert/commit | written by the port, read by the parser |
| `WirelessParser`, `MipParser` | save point, last packet ids | parse, findPacketInBytes, processPacket | `ResponseCollector`, packet collectors |
| `ResponseCollector`, `ResponsePattern`, `TimedCondition` | list of expected patterns with positions; flags per pattern; notified flag | register, unregister, match, adjust positions, wait, notify | command functions on caller threads, parser on the IO thread |
| `BaseStation_Impl`, `WirelessNode_Impl`, `MipNode_Impl` | timeouts, retries, protocol | doBaseCommand, doNodeCommand, ping, read/write EEPROM, setToIdle, doCommand | all of the above |
| `Eeprom`, `NodeEeprom`, `BaseStationEeprom` | cache of EEPROM words, retry count | readEeprom, writeEeprom, updateCache, clearCache | BaseStation commands |
| `SyncSamplingNetwork`, `SyncSamplingFormulas` | nodes with their slots, rates and flags; bandwidth | addNode, removeNode, refresh, applyConfiguration, startSampling | Node configuration, beacon |
| Packet collectors | bounded circular buffers of data and discoveries | add, get with timeout | parser, application threads |
| Node memory / datalog download | page buffers and addresses | read, findData, download | Node commands |
| `NodeDiscovery`, `NodeCommTimes` | known nodes, states, times | update, query | parser, commands |
| MIP packets and commands | fields | build, parse, match | `MipNode_Impl` |

What is hard about it: the pattern of a command is registered, matched,
notified and destroyed by two threads; positions recorded by one thread are
corrected by another; packets nobody expected stay behind an incomplete one and
are offered again; replies are lost, late or repeated; packets arrive in
pieces; a write to the EEPROM may be carried out and not acknowledged; several
Nodes are configured one by one and any of them may fail half way; the TDMA
slots handed out to Nodes with different rates must never collide.

### What makes each component correct

* *Command exchange.* A registered pattern is alive; a reply that came is not
  slept through; a packet answers one command; a reply newer than the command is
  found, and one older than the bytes of the last shift is not; every call returns.
* *Read buffer.* The parser sees the bytes of the port, all of them, once, in order.
* *EEPROM cache.* A value served from the cache, and a write skipped because of
  it, agree with the device; every location behaves as one register; nobody uses
  a protocol that is gone, and no two threads wait for each other's mutex.
* *Datalog download.* Every intact sweep of the log is handed out once and in
  order, whatever is damaged and whatever piece has to be fetched again; complete
  means all; the download ends.
* *Receiving.* No packet is lost between noise and damaged packets, repeated, or
  left behind; only a full buffer throws packets away; a reader that waits is woken.
* *Sync sampling network.* Slots never collide; a Node is refused only when its
  slots do not fit; a Node marked configured or started is so; a failure leaves
  the flags telling the truth.
* *Connection.* No set of threads waits for each other for ever; a dropped port is
  reported and can be re-established.

## 2. The modules

| Module | Models | Composed of |
|---|---|---|
| `CommandExchange` | a command from its pattern to its reply, callers against the IO thread | |
| `ReadBuffer` | the memory of the `DataBuffer`, the writer of the port and the read loop | implements `ByteStream` |
| `ByteStream` | what a parser is promised: the bytes of the port in order, each once | |
| `TdmaSlots` | the formulas of a slot search: operators on sets of slots | |
| `SlotTable` | `findSlotsForNodes` on any list of Nodes, one Node a step | extends `TdmaSlots` |
| `SyncSchedule` | a `SyncSamplingNetwork`: adding, removing, refresh, optimization | extends `TdmaSlots` |
| `SyncNetwork` | writing that schedule to the Nodes and starting them | extends `SyncSchedule` |
| `Connection` | the life of a connection, its three mutexes and its IO thread | |
| `NodeEeprom` | one Node's EEPROM, its cache, its protocol, and applying a configuration | implements `EepromRegister` |
| `EepromRegister` | what a caller is promised: each location is one register | |
| `DatalogDownload` | the ring of blocks of a Node's flash, and the downloader on it | |
| `WirelessReceive` | the framing loop, duplicates, the bounded buffers and readers that wait | |
| `…Proofs` | the theorems of `CommandExchange`, `ReadBuffer`, `SlotTable`, `SyncNetwork`, `Connection`, `NodeEeprom`, `DatalogDownload` and `WirelessReceive` | extends the module |
| `MC_…` | the values TLC gives to constants | extends the module |

An operator named as a property says "Mutant of X" stands for X with a plausible
mistake; no specification uses it, and every property is broken by one of them.
Variables named *history* in their comment record what happened for a property
and no guard reads them.

### CommandExchange

Each caller has a program counter: `Register` (the base class constructor of
`ResponsePattern`, which publishes the pattern), `Constructed`, `Write`,
`Notified`/`TimedOut` for the waits, `CheckBaseReceived` between the two waits of
`doNodeCommand`, `Return`, `Destroyed` and `Unregister`. The IO thread's counter
says whether it reads, parses, searches, shifts the buffer or corrects positions; those are
separate steps because the code holds no lock over them, and `Register` can fall
between the last two (`BaseStation_Impl.cpp:285`). `Match` is the whole of
`matchExpected` for one entry: the flags, the notification and the removal.

A packet is two bytes, so that a read can end in the middle of one; its kind is
the echo of the BaseStation, a reply of the Node, a failure, or corrupt. Single bytes
are `junk`, or a `start` that claims to begin a packet of `Span` bytes. While such a
start, or the head of a packet, is incomplete, `findPacketInBytes` looks for packets
behind it (`ParseIncomplete`, then `SearchPast` and `SearchFinds` byte by byte): a
complete one is offered to the patterns, and one that none of them takes stays in the
buffer when `parse` reverts (`Leave`), through `Shift` and `Adjust`, and is offered
again by the next `parse`. `regAt` is where the buffer ended when a
pattern was registered; `early` is by how much the correction it still met was too
much, zero unless it was registered between the two.

The device answers any command that was written, in any order, late, repeatedly or not
at all; it is not heard before the first command, which is a bound. Not modelled: the
replies of one byte of the oldest protocol, the times a command notes about a Node, and
MIP fields, which come through the same collector.

### ReadBuffer and ByteStream

`ReadSome` starts an asynchronous read into the region the writer gives,
`Arrive` completes it, and `DeviceParses(k)`, `RawCollects` and `NobodyParses`
are the three ways `readLoopHandler` goes on: commit, parse `k` bytes, `Renew`
(shift, throw out a full buffer, make a new writer). `ClearBuffer` and
`SetParseFunction` are the application's. `ByteStream` is the abstract
specification: a queue with one end at the port and one at the parser. The
refinement reads the queue off the memory between the two positions.

`ClearAnytime` says whether the application may clear a buffer that holds
something or is being read into. With FALSE the buffer is a stream; with TRUE it
is not (section 5).

### TdmaSlots, SlotTable, SyncSchedule, SyncNetwork

`SlotTable` runs the search alone over all short lists of Nodes in the order the
library sorts them, with the spacing of either protocol (`spacing`). `SyncSchedule` has the network's own state: the map of
`SyncNetworkInfo`, the two lists, the table, the flags and the call in progress
(`op`, `phase`, `todo`). `CalculateNode`, `FindSlot`, `Optimize`, `Optimized` and
`Throw` are the steps of `refresh`, each of which can be the last one when a Node
does not answer. `SyncNetwork` adds what the Nodes hold (`device`, `sampling`)
and the beacon; a write may fail after any Node and a start command may be lost
before or after it was carried out.

Abstracted: bandwidth is an integer (quarters of a packet, overheads in halves),
so that comparisons keep their outcome without floating point; the sizes of slots
and of the second are constants; a Node that only logs has no transmissions; the
offset of the first slot in legacy mode is a constant; the label *contention* is
one with *does not fit*; the overhead of old Nodes at 512 Hz and above and the
factor 1.05 of diagnostic packets are left out, they only change one demand into
another. Address 0 in `SlotTable` means none. `Reconfigure` changes what a Node
sends only; its delay settings are constants.

### Connection

One counter per application thread, one for the IO thread, and the owners of the
comm, parse and response mutexes. A function of `Connection_Impl` is a call, the
mutexes it takes in order, and the assignments it makes under them: `NeedsPosition`
and `Refuses` say which functions ask for a byte position, and which throw in
their first lines. The parse mutex is recursive. Commands exist while a device is
attached, because they are members of it. `reconnect` locks the comm mutex again
when the port cannot be opened (`SerialConnection.cpp:82`): a thread then waits
for itself, or gets the exception the platform throws. The mutexes of raw and
debug data are always taken last, by one function each, and are left out. The
error flag is read and written without a lock; the model treats each access as
atomic, which is what the builds of the library do with a `bool`.

### NodeEeprom and EepromRegister

A thread's record `call` says which function it is in (`read`, `write`, `apply`,
`clear`, `import`), where, what is still to do and how often the command has been
repeated. The lock of `readEeprom` is held from `lookup` to the answer, over the
commands to the Node; `writeEeprom` takes it only for the cache; both recursive
mutexes are variables because determining the protocol (`protocol`, `assumed`,
`determined`) takes them in the other order. A command is carried out and answered,
carried out and not answered, or lost; each is repeated as the settings say, which
`determineProtocol` replaces for a while (`settings`). `applyConfig` is the list of
its items, each as `writeEeprom`, and the reset behind it, by which the Node takes
over its settings (`active`). A discovery packet may be old when it is used. The
cache is on, a location is one word, group reads have one page, and the retries of
the exchange below are one command here.

`Rules` names what the application and the devices keep to: `"alone"` (the first
call, and one that clears or replaces the cache, have the Node for themselves),
`"fresh"`, `"port"` and `"reset"`. The refinement takes the device for the
registers; that the cache answers with it is what the refinement shows. What readers
see of a location is its value in the cache, before that the one a page download has
fetched, before that the device's (`Visible`). A location that the Node changes by
itself (0, 2, 4, 246, 1040) is read from the Node every time but cached all the same, and a
write of the value the cache still has is skipped, whatever the Node holds by then; the
write of such a location may therefore have no effect, or be overtaken before it
returns, and the register allows both.

### DatalogDownload

A byte is the address it was fetched from, so the order in which sweeps are handed
out, and what is missing, can be read off `returned`. `GetNextData` is one call of
`DatalogDownloader`; `Fill`, `Download`, `FillSection`, `Swap` and `Parsed` are the
steps of `NodeMemory_v2` below it, in the order of `fillBuffer` and `nextByte`, and
`DownloadFails` may end any of them with an exception, after which the application
calls again. `Verify` says of the bytes at hand what `verifyBlock` does: a section,
too few bytes for one, or junk. A sweep, and a checksum, is one byte. A log is the set of
its sections; `WellFormed` is how a Node writes them, damaged ones with a length that
stays in their block, and `Clear` adds what the log must
not be for everything to be handed out, in terms of the lengths of log, block and piece.

### WirelessReceive

The stream is fixed at the start and `Arrive` cuts it anywhere. Each turn of the
loop of `parse` is one action (`ParseComplete`, `ParseDuplicate`, `ParseAnswer`,
`ParseInvalid`, `ParseInside`, `ParseEnd`), with the read position and the save point
it leaves. `Inside` is the search of `findPacketInBytes`. A position counts from the
start of the stream; the shifting of the buffer is the matter of `ReadBuffer`, and
what a reply does to a command that of `CommandExchange`. A reader takes sweep by
sweep (`TakeSweep`, `NextPacket`), falls asleep once and wakes to a notification or
to its timeout. A byte says what the packet it begins would say; a packet whose
integrity check fails is a `start`. A data packet whose sweeps cannot be built,
and the copies for debugging, are left out.

## 3. The runs

Every configuration says what it bounds. Distinct states and times are those of
two workers.

| Run | Configuration | What it shows | States |
|---|---|---|---|
| `command_safety` | `CommandExchange.cfg` | no pattern outlives its object, no lost wakeup, a packet is taken once, a fresh reply is found, an old one only within the bytes of one shift | 3 606 000 |
| `command_liveness` | `CommandLiveness.cfg` | every call returns, every byte is parsed | 110 000 |
| `read_buffer` | `ReadBuffer.cfg` | the buffer is a stream and never full when a read starts | 69 000 |
| `slot_table` | `SlotTable.cfg` | no collisions, every transmission has its slots, bandwidth is used | 491 000 |
| `sync_schedule` | `SyncSchedule.cfg` | an OK network has a schedule without collisions; event driven Nodes share what is left | 1 039 000 |
| `sync_refresh` | `SyncRefresh.cfg` | an optimization that does not fit is undone, and refresh ends, whatever fails in it | 323 000 |
| `sync_network` | `SyncNetwork.cfg` | a network marked applied is what the Nodes hold | 1 175 000 |
| `connection_locks` | `ConnectionLocks.cfg` | threads wait in a circle only through a command being registered or a failed reconnect | 395 000 |
| `connection_modes` | `ConnectionModes.cfg` | parse function, raw byte mode and errors are consistent; disconnect ends | 22 000 |
| `node_eeprom` | `NodeEeprom.cfg` | the cache is the device and the EEPROM a register; no protocol is used that is gone; no deadlock | 945 000 |
| `datalog_download` | `DatalogDownload.cfg` | every intact sweep once and in order; complete means all; the download ends | 122 000 |
| `wireless_receive` | `WirelessReceive.cfg` | nothing is lost, repeated or left behind; readers are woken; parse ends and calls return | 73 000 |

Bounds. Two calls by two callers and three packets let one caller's late reply
meet another's command, in both orders of registration, with a stray byte in the
place of any packet; a packet of two bytes can be cut by a read, and `Span` is four so
that one complete packet, and a byte more, fits behind a stray start. A command that the
BaseStation answers itself leaves out the second wait; `CommandLiveness.cfg` has one
of each sort, for one caller and two packets. That an old reply, whole
in the buffer, is offered again to a command registered before the correction takes
four packets: `Command_NoStaleMatch.cfg` has them, and `StaleWithinOneShift` is
proved for any number. Four bytes of memory and seven of
input wrap the positions, fill the buffer and leave a part of a packet over. In
`SlotTable` four Nodes, with up to four transmissions a second each of two or of four
slots, are placed in sixteen slots of which legacy mode keeps some: enough to fill
the table from each of the orders. In `SyncSchedule` a Node that always samples, an old one and an
event driven one cover the branches of `refresh`; the bound on demands makes them
fit together, or not, or only after an optimization. Three threads are enough for
the circles of three mutexes and the wait for the IO thread.

Two threads share a Node, one of them a writer, with the protocol's version, a
counter that changes by itself and, on the page of that counter, one location that
is written directly and by a configuration;
one retry tells a repeated write from a first one. The flash has three blocks
of ten bytes, six kinds of block in every arrangement from every block on, and
pieces of seven bytes, so that a section, a header and a block end in a piece, or
run over two; `Clear` leaves out the logs of section 5. Two readers and buffers of two
packets let a buffer overflow under a reader; the streams put each kind of
noise before each group of packets. Where the library waits for an answer of one
byte, no stray byte stands before data: that too is in section 5. A bound that
is a rule of the application rather than a size is an element of `Rules`.

The type invariants of `ReadBuffer`, `Connection`, `SlotTable`, `NodeEeprom` and
`DatalogDownload` are proved (section 6) and no run repeats them.

CHECK_DEADLOCK is off where the system may really stop: all commands have been
issued and all packets read, all Nodes are placed, no call is in progress that a
bound would allow to be followed by another, or a circle that a run wants to
classify. `ReadBuffer.cfg`, `ConnectionModes.cfg`,
`NodeEeprom.cfg` and `DatalogDownload.cfg` check for deadlock.

## 4. Fairness

* `CommandExchange`: weak fairness of the IO thread and of each caller. Threads
  run; the wait has a timeout, so a caller is never without a step. Nothing is
  assumed of the device.
* `SyncSchedule`: weak fairness of `RefreshStep`: a call goes on until it returns.
* `Connection`: weak fairness of the IO thread and the callers; strong fairness
  where a thread asks for a mutex, which other threads take and release without
  end, and where the end of what was read is reached: a read holds finitely many
  packets. `Stopped` is strongly fair because the request to stop is queued
  with the completions of the reads, behind finitely many of them.
* `DatalogDownload`: weak fairness of `Next` (the application calls until the
  download is complete) and strong fairness of `Download`: a piece that is asked for
  again and again arrives at last.
* `WirelessReceive`: strong fairness of a turn of `parse` and of each reader, which
  ask for a mutex that is given back after every call. The device may stop sending.

## 5. Where the code and its words disagree

Found while modelling. No run expects a violation; each of these is a configuration
kept beside the runs, and TLC reports a violation for it. A configuration with
several properties has a comment that says which are violated.

* `Command_NoStaleMatch.cfg`: `ResponseCollector.cpp:150` says that bytes and packets
  that were in the buffer before the command was sent are not matched. A command
  registered between `shiftExtraToStart` and `adjustResponsesMinBytePos`
  (`BaseStation_Impl.cpp:285`, `:290`) records a position of the shifted buffer, from
  which the shift is subtracted once more. A reply that nobody expected, kept in the
  buffer behind an incomplete start (`WirelessParser.cpp:311`), then lies behind that
  position, is offered again, and completes the new command. `StaleWithinOneShift` is
  what does hold: the position is too low by the bytes of that one shift at most, and
  not at all for a command registered at another time. A reply to an earlier command
  that *arrives* after the new one was registered is always taken for its answer if it
  has the same shape: nothing in it names the call.
* `Command_SecondWaitIsForTheNode.cfg`: the echo that arrives after the first
  wait has timed out leaves its notification for the second wait, which then ends
  at once (`BaseStation_Impl.cpp:604`).
* `ReadBuffer_CommitsWhatWasRead.cfg`: `clearBuffer` moves the append position
  under a read in flight, whose bytes are then committed at another place than
  they were written to.
* `Connection_ThreadStops.cfg`: `disconnect` promises to "block until the thread is
  stopped" (`Connection_Impl.h:682`) and holds the comm mutex meanwhile
  (`:565`); the IO thread waits in `matchExpected` for the response mutex;
  `registerResponse` holds that one and waits, in `byteAppendPos`, for the comm
  mutex (`ResponseCollector.cpp:31`). No thread goes on.
* `Connection_ReconnectReturns.cfg`: a reconnect that cannot open its port waits
  for the mutex it holds (`SerialConnection.cpp:82`).
* `Connection_Reconnect.cfg`: `reconnect` clears an error its new
  IO thread has already noted, leaves raw byte mode without telling anyone, and so
  the function of a device that then goes away stays installed
  (`Connection_Impl.h:595`, `:600`).
* `Sync_Refresh.cfg`: when an optimization fails because a Node does not answer, the
  exception leaves a changed schedule under statuses that say OK; and `addNode` of a
  Node that is in the network already throws, and takes the Node out that was there.
* `Sync_Start.cfg`: `SyncSamplingNetwork.h` promises that the beacon is not started
  until all Nodes have; it is when a Node failed to start. The flags of an earlier
  `startSampling` are still set when it is called again, so Nodes are passed
  over, and the beacon can be on while others are started.
* `NodeEeprom_CacheIsDevice.cfg`: of two threads that write a location, or of a writer
  and an old discovery packet, the one whose value the Node has not may be the last
  to update the cache; a later write of that value is skipped.
* `NodeEeprom_NoDeadlock.cfg`: a thread in `readEeprom` and one that determines the
  protocol wait for each other's mutex (`NodeEeprom.cpp:84`,
  `WirelessNode_Impl.cpp:136`).
* `NodeEeprom_SettingsAreRestored.cfg`: when the port fails while the protocol is
  determined, the guess and its settings (no retries, no group reads) stay.
* `NodeEeprom_AppliedIsActive.cfg`: `applyConfig` throws behind a write that was
  carried out; applied again it finds every value in the cache and does not reset.
* `Datalog_OutOfRange.cfg`, `Datalog_FullFlash.cfg`, `Datalog_LastBlockIsLost.cfg`: the
  end of the log in a piece that runs over the end of the flash, a log without
  an intact section, a flash full to its last byte, a short block behind a full one,
  and a last block shorter than a piece. Sections come twice, addresses
  leave the flash, or the download calls itself complete too early. Left out of every
  configuration (`WellFormed`) is a damaged header whose length runs beyond its block.
* `Receive_TwoReaders.cfg`: a reader that waits stores the packet it finds over what
  another one left half read (`WirelessPacketCollector.cpp:190`); and it waits once,
  so that it can return with nothing before the timeout `BaseStation.h:320` describes.
* `Receive_StrayByte.cfg`: while a command waits for an answer of one byte, a stray byte
  before a data packet makes the search run through the packet
  (`ResponseCollector.cpp:94`).

## 6. Proofs

All of the theorems are for every value of the constants that satisfies the
module's named assumption, and nothing else is assumed except where said.

* `CommandExchangeProofs`: `TypeCorrect`, `PatternsAreLive` (no pattern is in the
  collector's list that is not alive), `NoLostWakeup` (a caller in a wait whose
  pattern is matched is notified). Types need `BusyHasCommand`: a caller that is
  not idle expects a command, or `Write` would send none. The other two need
  `PatternInv`: an idle
  caller has no reply yet (or registering would enter a matched pattern), the list
  has no pattern twice (or removing one would leave it there), and the flag is
  set from the match on, before the caller reaches its first wait.
  Removal from a sequence is reduced to lemmas on `RemoveAt`.
  `OneTakerPerPacket`, `FreshRepliesAreTaken` and `StaleByOneShift` are about the
  positions, and rest on `PacketInv`: the bytes from the save point on hold each packet
  once, and none of those has been taken (`StreamInv`), which holds over the search and
  the revert because a packet that is taken is committed at once; and the position of an
  entry, less what is still to be subtracted, is never above where the buffer ended
  at registration and never below it by more than `early` (`PositionInv`). A parser
  offers packets only while no correction is due (`LoopInv`), so these are the
  positions it compares with.
* `ReadBufferProofs`: `MemorySafe` (positions are ordered, the port writes inside
  the buffer, and a read never starts without room) and, when the application clears an
  empty buffer only, `CommitsRead` and `BufferIsStream`, the refinement of
  `ByteStream`. `BufferInv` adds that between handlers
  the append position is below the capacity and the writer stands at it; `LinkInv`
  that a read in flight goes to where the append position is; the bytes in memory
  between the positions are the last ones the port gave. Both theorems
  fail without the assumption.
* `ConnectionProofs`: `TypeCorrect` and `DeadlockFree`. `LocksHeld` says which
  threads can own a mutex at which point of which call. From it a circle of
  waiting threads is taken apart in the order response, parse, comm: the owner of
  the response mutex waits for nothing but comm, and only out of order; the IO
  thread waits for parse and response only; the owner of parse waits for nothing;
  so none of them is in a circle, nor is anybody who waits for them.
  For a connection that is not reconnected, `ParserStaysRegistered`, `EndIsReported` and
  `RawModeIsRaw`: with a reconnect all three fail (section 5). `ModesInv` ties the
  function that is installed, the mode, the device and the flags of the IO thread to the
  point at which each call is between its assignments.

* `SlotTableProofs`: `TypeCorrect` (the table is written inside its bounds) and
  `TransmissionsInSecond`. What has been placed
  has an address and a rate with which the last of its transmissions ends inside
  the second: `Room` says so of the slot the search tries, and division lemmas
  carry it from the slots between two transmissions to all of them. That
  `FoundSlot` is a candidate at all needs the least of them, which
  `WellFoundedInduction` gives. The assumption on the table is that the
  reserved slots and one packet fit into it.
  Then all four properties of the run: `NodesDoNotCollide`, `EveryTransmission`,
  `AvailableIsRight`, `TurnedAwayForBandwidth`. They need `HarmonicAssumption`: each
  period is a whole number of the shorter ones, and of packets. The code has
  that from `MAX_SLOTS` = 1024, the spacings, and the rates, which are powers of two.
  With it the taken slots repeat with the shortest period that is left
  to place, so that one free slot stands for all its
  transmissions, and the `numTxFound` that is carried over does no harm; and if no slot is
  free none is in any period, so the demand is more than the table.
* `SyncNetworkProofs`: `AppliedIsWritten`, for every network and every failure. `Inv`
  adds the lists (who is in the network order has an entry, and
  during a refresh the unfinished Nodes are in `todo`), and that a Node flagged as
  applied holds its schedule or the network is not OK: a refresh takes
  the flag from every Node it has calculated, so none outlives the schedule it
  was for. Every order that sorts by bandwidth is allowed, so that
  no recursive sort has to be reasoned about; that the lists keep their members
  needs a lemma on `Among`, by `WellFoundedInduction`.

  The schedule itself: `ScheduleTypes`, `OkIsFree`, `EventNodesShare` and
  `OptimizationUndone` are the four safety properties of the runs of `SyncSchedule`.
  `NetworkOkIsFree` says the second of the whole network, while its Nodes
  are written, started and set to idle, and `AppliedIsFree` adds what was applied: a
  network `startSampling` is willing to start has on every Node the slots computed for
  it, and no two Nodes have the same. They rest on `PowersAssumption` (the second and
  the spacings are powers of two, and the reserved slots begin where a packet may and
  end inside the second; in the code 1024, 4 and 8, and 1016) and on one invariant,
  `ScheduleInv`. Its parts, and why each is needed:
  `TypesInv` has the two lists as orders of exactly the Nodes they are about.
  `CallInv` ties `op`, `adding` and `trying` to the phase, so that a step
  knows which Node a call is about. `TableInv` says that while slots are searched for, the
  table is one `SlotTable` fills: its `SearchInv` and `CountInv` are instantiated with the
  Nodes in the order of the search (`Table`), each `FindSlot` is shown to be a step
  of `SlotTable`, and so the theorems about any list of Nodes hold of this one. For
  that the rates must be powers of two, and the Nodes in order.
  `RatesInv` follows the rates through the phases: `ceilBase2` and `floorBase2` return
  powers of two, halving keeps them so, and a Node that optimization has not changed
  has its first rate. `ResultInv` says when the statuses can be believed:
  after a search that ended, during optimization, and between the calls if the network
  is called OK. `UndoInv` is for `OptimizationUndone`: while a Node is being tried
  there are rates and an order, those before the attempt, whose table could be filled
  (`Filling`). Only one order sorts a network, so going back repeats that filling step
  by step and cannot fail. For `EventNodesShare` the halving is shown to stop in time:
  each round makes the total smaller while it is more than the slots that
  are left, and `TotalTx` rounds are made at most.
  `OkIsFree`, `NetworkOkIsFree` and `AppliedIsFree` assume `RereadsFail = FALSE`: a setting
  that was read once is not read from the Node again. Where it is, `OkMeansNoCollision`
  fails (`Sync_Refresh.cfg`, section 5): an exception leaves a changed schedule under
  statuses that say OK. `RefreshReturnsFree` needs no such assumption: a refresh that
  returns, and does not throw, with an OK network has given every Node slots of its
  own. Nor do the other theorems.
* `NodeEepromProofs`: `TypeCorrect`; and, when `"alone"` is one of the rules,
  `UsedProtocolStays` (no protocol is destroyed while a command uses it) and
  `DeadlockFree`. `Control` is why: who holds the mutex of the protocol over more than one
  step is the only one in a call, so is who clears or replaces the cache, and so is anybody
  while no protocol is known; a thread in a command uses a reference; and
  whoever holds the cache's mutex is between `lock` and `parse` of a read. Without the
  rule the threads can wait for each other (section 5).
  `CacheIsTheDevice` is for one writer and discovery packets that are fresh (with two, or
  with an old one, it fails: section 5). `Coherent` is why: a value in the cache, or one that a
  read has fetched and not stored, is the Node's, or the writer is between its
  command and its update of the cache; and nobody fetches meanwhile what he stores
  afterwards, for a reader holds the cache's mutex until it has stored.
  Under the same conditions `CacheImplementsRegister` is the refinement of `EepromRegister`,
  the longest of the proofs. `InOrder` is what it adds: a value that is written goes from the Node
  to what a page download has fetched and from there to the cache, so whoever has the
  old one has it from before. Then a location changes for its readers in one step of the
  write, wherever the value is first seen: in the Node's answer, in a page a reader
  fetches and stores, or in the cache. One family of lemmas says which step of the
  register that is (`MapsTo…`), another carries `InOrder` over
  each kind of step, and the actions (`…Simulated`) go through both.
* `DatalogDownloadProofs`: `TypeCorrect`, for every flash, piece and log, the
  logs of section 5 among them: addresses stay on the flash or just behind it and
  `m_readIndex` inside the section. For a log that is `Clear`, of any number of blocks and
  sections, `InOrderAlways`, `AllHandedOut` and `AlwaysInRange`, the three safety
  properties of the run; without `Clear` each of them fails (section 5). Addresses wrap
  and may repeat, so the proof gives everything its place in the log: `DownloadInv` says
  that there are offsets `x <= e <= d` such that what has been downloaded and not looked at
  (`View`) is from `x` to `e`, the next piece is asked for from `d`, and no intact section
  lies between those in the buffers, nor before `x` (`Chain`). `View` also says what the search may
  have passed: `x` is where a section may begin, and the last piece began in the block of `x` or
  ran out of the full one before, so that the jump to the next block skips nothing. `StartInv` tells
  the beginning of a log that fills the flash from its end, where the address is the same.
  `PhaseInv` is what is in the buffers at each place of a call, after any
  exception; `SessionInv` that the section parsed last is the one before, from
  which the start of a session follows; `HistoryInv` that the sweeps handed out are
  those before the byte that is read next.
* `WirelessReceiveProofs`: `TypeCorrect` and, when a reader that asks for a number of
  sweeps is the only one, `NobodySleepsOnData`: while there are sweeps and nobody takes
  them, no reader sleeps without being woken. The invariant adds that such a reader
  is alone, and that nobody falls asleep while a packet has sweeps left.
  Under the same rule, and when the streams are `Tidy`, `NothingGetsLost` and
  `NothingStaysBehind`. `ReceiveInv` says that neither position is ever inside a packet, that no
  data and no discovery stands between them, and that `m_lastPacketMap` has the id
  of the last data packet of each Node and type below the save point: so a packet is
  taken for a duplicate just when it is one, and what the search behind a byte
  passes by was sent again. Both conditions are needed: `Receive_TwoReaders.cfg` breaks the
  first; `Receive_StrayByte.cfg` the second. A whole packet in the payload of one that
  has not come completely would be taken in its place; `Tidy` says that none is there.

Only model-checked: liveness under fairness, that is that commands, refreshes, downloads,
readers, `parse` and `disconnect` come to an end, for which the provers have no rule. Every
invariant and action property of a run is proved, as are the two refinements.

## 7. Not modelled

`PROJECT.json` lists every part with its reason. In short: tables of device
features and EEPROM maps, decoding of payloads, typed wrappers of inertial and
displacement commands, units and formatting have no control a model checker would
reach, and they are by far the most lines of the library; discovery tables have
no guards; Boost, OpenSSL and the operating system are modelled through what the
code does with them.

Of the modelled parts these operations are left out: replies of one byte to a command,
and MIP fields, in `CommandExchange`; the first version of the flash
(`NodeMemory_v1`) and the contents of a sweep in `DatalogDownload`; a cache that
is off, and the EEPROM of a BaseStation, which is another class over the same base,
in `NodeEeprom`; `totalSweeps`, which only reads, and
`getNextDataPacket`, which nothing calls, in `WirelessReceive`; the headers and checksums
that tell the packets of each ASPP version apart; the mutexes of raw and debug data in
`Connection`. `MipParser` and the commands that go on after they return are planned.

## 8. Plan

The command exchange came first because every other function of the library goes
through it, then the stream under it and the locks around it, then the sync
network, whose schedule is the largest piece of pure logic in the library, then the
EEPROM, the download of logs and the way of a packet to the application. Next:

1. The framing of MIP: the loop with its flags and the search inside a partial
   packet, as `WirelessReceive` has it for ASPP; a command whose ACK and data come in
   one packet, or in two.
2. Set to idle, polling and auto-calibration, whose status objects outlive
   the call, and cancelling them while their answer arrives, on top of `CommandExchange`.
3. `NodeMemory_v1`, against the properties of `DatalogDownload`.
