----------------------------- MODULE NodeEeprom -----------------------------
(***************************************************************************)
(* Reading and writing the EEPROM of a wireless Node through its cache,    *)
(* applying a configuration, and finding out the protocol the Node speaks. *)
(* Threads of the application call one WirelessNode.  Two recursive        *)
(* mutexes:                                                                *)
(*   cacheMutex     Eeprom::m_cacheMutex                                   *)
(*   protocolMutex  WirelessNode_Impl::m_protocolMutex                     *)
(* The cache is on.  A location is one word; the two words of a float are  *)
(* two locations.                                                          *)
(***************************************************************************)
EXTENDS Integers, FiniteSets, Sequences, Functions

CONSTANTS
  Threads, Nobody,
  Writers,        \* the threads that write
  Locations,
  Version,        \* the location of the protocol's version
  Volatile,       \* locations that are always read from the device
  AlwaysWritten,  \* locations that are written even if the cache has the value
  Group,          \* what is read together with a location; {}: it is read alone
  Values,
  Initial,        \* bound: what every location holds at first
  Config,         \* the configuration applyConfig is called with, in its order
  Plain,          \* the locations writeEeprom is called with
  NumRetries,     \* m_eepromSettings.numRetries
  Discovered,     \* the locations of a node discovery packet
  Rules           \* what the application, the port and the radio keep to

(* The rules:                                                              *)
(*   "alone"   until the protocol is known, and to clear or to replace the *)
(*             cache, only one thread at a time calls the Node             *)
(*   "fresh"   a discovery packet is used before anything is written       *)
(*   "port"    the port of the BaseStation does not fail                   *)
(*   "reset"   one of the attempts to reset the Node reaches it            *)
AllRules == {"alone", "fresh", "port", "reset"}

Item == [loc : Locations, val : Values]

Configured == {Config[i].loc : i \in DOMAIN Config}

ASSUME EepromAssumption ==
  /\ Nobody \notin Threads \cup Item \cup [loc : Locations, val : Values, state : {"runs", "threw"}]
  /\ Writers \subseteq Threads
  /\ Version \in Locations /\ Volatile \subseteq Locations \ {Version}
  /\ AlwaysWritten \subseteq Locations
  /\ Group \in [Locations -> SUBSET Locations]
  /\ \A l \in Locations : Group[l] # {} => l \in Group[l]
  /\ Config \in Seq(Item) /\ Config # <<>>
  /\ Plain \subseteq Locations /\ Discovered \subseteq Locations
  /\ Version \notin Configured
  /\ Version \notin Plain
  /\ Initial \in Values /\ NumRetries \in Nat /\ Rules \subseteq AllRules

VARIABLES
  device,         \* the EEPROM of the Node
  active,         \* the settings the Node acts on: taken over when it is reset
  packet,         \* a discovery packet that has been received
  cache,          \* m_eepromCache
  cacheMutex, protocolMutex,
  protocol,       \* m_protocol_lxrs: "none", "assumed" or "determined"
  settings,       \* m_numRetries and m_useGroupRead: "own" or "temporary"
  hasWritten,     \* m_hasWritten
  call            \* where each thread is

node   == <<device, active, packet>>
shared == <<protocol, settings, hasWritten>>
locks  == <<cacheMutex, protocolMutex>>
vars   == <<node, cache, locks, shared, call>>

NoCall == [op |-> "none", at |-> "idle", todo |-> <<>>, tries |-> 0,
           ref |-> FALSE, stage |-> "none", fetched |-> <<>>]

\* Where a thread needs the protocol: m_node->protocol(...), then a command.
Commands == {"group", "single", "write", "reset", "ping"}

Init ==
  /\ device = [l \in Locations |-> Initial] /\ active = [l \in Configured |-> Initial]
  /\ packet = [l \in Discovered |-> device[l]]
  /\ cache = <<>>
  /\ cacheMutex = Nobody /\ protocolMutex = Nobody
  /\ protocol = "none" /\ settings = "own" /\ hasWritten = FALSE
  /\ call = [t \in Threads |-> NoCall]

-----------------------------------------------------------------------------
(* The steps of a call *)

At(t, where)    == call[t].at = where
Loc(t)          == Head(call[t].todo).loc
Goto(t, where)  == call' = [call EXCEPT ![t].at = where]
With(f, g)      == [l \in DOMAIN f \cup DOMAIN g |-> IF l \in DOMAIN g THEN g[l] ELSE f[l]]
Only(l, v)      == [x \in {l} |-> v]
Without(f, l)   == Restrict(f, DOMAIN f \ {l})
FreeFor(m, t)   == m \in {Nobody, t}
Idle            == \A t \in Threads : At(t, "idle")

\* The number of times a command is repeated.
Retries == IF settings = "own" THEN NumRetries ELSE 0

\* An exception leaves the call: readEeprom drops the lock, writeEeprom first
\* forgets what the cache says of the location.
Thrown(t) == [call[t] EXCEPT !.at = IF At(t, "write") THEN "clear" ELSE "failed",
                             !.stage = "none", !.ref = FALSE,
                             !.tries = 0, !.fetched = <<>>]

\* Mutant of Throw: the lock is left locked.
ThrowLocked(t) == call' = [call EXCEPT ![t] = Thrown(t)] /\ UNCHANGED cacheMutex

Throw(t) ==
  /\ call' = [call EXCEPT ![t] = Thrown(t)]
  /\ cacheMutex' = IF cacheMutex = t THEN Nobody ELSE cacheMutex

\* The value is answered, or the item of a configuration is done.
Answered(c) ==
  IF c.op = "apply"
  THEN [c EXCEPT !.todo = Tail(@), !.ref = FALSE, !.tries = 0, !.fetched = <<>>,
                 !.at = IF Len(c.todo) > 1 THEN "lookupWrite" ELSE "written"]
  ELSE [c EXCEPT !.at = "answered", !.ref = FALSE, !.tries = 0, !.fetched = <<>>]

Return(t) ==
  /\ call[t].at \in {"answered", "failed"}
  /\ call' = [call EXCEPT ![t] = NoCall]
  /\ UNCHANGED <<node, cache, locks, shared>>

-----------------------------------------------------------------------------
(* Calls of the application *)

\* eeprom() takes the mutex of the protocol for a moment.
Start(t, op, todo, at) ==
  /\ At(t, "idle") /\ protocolMutex = Nobody
  /\ "alone" \in Rules /\ (protocol = "none" \/ op \in {"clear", "import"}) => Idle
  /\ "alone" \in Rules => \A u \in Threads : call[u].op \notin {"clear", "import"}
  /\ call' = [call EXCEPT ![t] = [NoCall EXCEPT !.op = op, !.todo = todo, !.at = at]]

ReadEeprom(t, l) ==
  /\ Start(t, "read", <<[loc |-> l, val |-> Initial]>>, "lookup")
  /\ UNCHANGED <<node, cache, locks, shared>>

WriteEeprom(t, l, v) ==
  /\ t \in Writers
  /\ Start(t, "write", <<[loc |-> l, val |-> v]>>, "lookupWrite")
  /\ UNCHANGED <<node, cache, locks, shared>>

ApplyConfig(t) ==
  /\ t \in Writers
  /\ Start(t, "apply", Config, "lookupWrite")
  /\ hasWritten' = FALSE
  /\ UNCHANGED <<node, cache, locks, protocol, settings>>

\* Any command that is not about the EEPROM.
Ping(t) ==
  /\ Start(t, "ping", <<>>, "ping")
  /\ UNCHANGED <<node, cache, locks, shared>>

ClearEepromCache(t) ==
  /\ Start(t, "clear", <<>>, "forget")
  /\ protocolMutex' = t
  /\ UNCHANGED <<node, cache, cacheMutex, shared>>

UpdateEepromCacheFromNodeDiscovery(t) ==
  /\ "fresh" \in Rules => \A l \in Discovered : packet[l] = device[l]
  /\ Start(t, "import", <<>>, "import")
  /\ UNCHANGED <<node, cache, locks, shared>>

-----------------------------------------------------------------------------
(* WirelessNode_Impl: the protocol *)

\* protocol(...): the reference is used after the mutex is free again.
GetProtocol(t) ==
  /\ call[t].at \in Commands /\ ~call[t].ref /\ call[t].stage = "none"
  /\ protocolMutex = Nobody
  /\ \/ /\ protocol # "none"
        /\ call' = [call EXCEPT ![t].ref = TRUE]
        /\ UNCHANGED <<protocolMutex, protocol, settings>>
     \/ /\ protocol = "none"
        /\ protocolMutex' = t /\ protocol' = "assumed" /\ settings' = "temporary"
        /\ call' = [call EXCEPT ![t].stage = "v1_1"]
  /\ UNCHANGED <<node, cache, cacheMutex, hasWritten>>

Determining(t) == call[t].stage # "none" /\ FreeFor(cacheMutex, t)

\* read_asppVersion finds the version, in the cache or on the Node.
VersionRead(t) ==
  /\ Determining(t)
  /\ cache' = IF Version \in DOMAIN cache THEN cache ELSE With(cache, Only(Version, device[Version]))
  /\ protocol' = "determined" /\ settings' = "own" /\ protocolMutex' = Nobody
  /\ call' = [call EXCEPT ![t].stage = "none", ![t].ref = TRUE]
  /\ UNCHANGED <<node, cacheMutex, hasWritten>>

OlderProtocol(t) ==
  /\ Determining(t) /\ Version \notin DOMAIN cache /\ call[t].stage = "v1_1"
  /\ call' = [call EXCEPT ![t].stage = "v1_0"]
  /\ UNCHANGED <<node, cache, locks, shared>>

\* Mutant of NotDetermined: the exception is swallowed.
NotDeterminedSilently(t) ==
  /\ Determining(t) /\ Version \notin DOMAIN cache /\ call[t].stage = "v1_0"
  /\ protocol' = "none" /\ settings' = "own" /\ protocolMutex' = Nobody
  /\ call' = [call EXCEPT ![t].stage = "none", ![t].ref = TRUE]
  /\ UNCHANGED <<node, cache, cacheMutex, hasWritten>>

NotDetermined(t) ==
  /\ Determining(t) /\ Version \notin DOMAIN cache /\ call[t].stage = "v1_0"
  /\ protocol' = "none" /\ settings' = "own" /\ protocolMutex' = Nobody
  /\ Throw(t)
  /\ UNCHANGED <<node, cache, hasWritten>>

\* The BaseStation's port fails: an Error_Connection, which nobody catches here.
PortFailsDetermining(t) ==
  /\ "port" \notin Rules
  /\ Determining(t) /\ Version \notin DOMAIN cache
  /\ protocolMutex' = Nobody
  /\ Throw(t)
  /\ UNCHANGED <<node, cache, shared>>

-----------------------------------------------------------------------------
(* readEeprom *)

\* Mutant of Lookup: volatile locations are answered from the cache as well.
LookupAny(t) ==
  /\ At(t, "lookup") /\ cacheMutex = Nobody
  /\ IF Loc(t) \in DOMAIN cache
     THEN call' = [call EXCEPT ![t].at = "answered", ![t].todo[1].val = cache[Loc(t)]]
     ELSE Goto(t, "lock")
  /\ UNCHANGED <<node, cache, locks, shared>>

Lookup(t) ==
  /\ At(t, "lookup") /\ cacheMutex = Nobody
  /\ IF Loc(t) \in DOMAIN cache \ Volatile
     THEN call' = [call EXCEPT ![t].at = "answered", ![t].todo[1].val = cache[Loc(t)]]
     ELSE Goto(t, "lock")
  /\ UNCHANGED <<node, cache, locks, shared>>

\* The lock is held until the value is in the cache and has been read from it.
LockCache(t) ==
  /\ At(t, "lock") /\ cacheMutex = Nobody
  /\ cacheMutex' = t
  /\ Goto(t, IF settings = "own" THEN "group" ELSE "single")
  /\ UNCHANGED <<node, cache, protocolMutex, shared>>

Commanding(t, at) == At(t, at) /\ call[t].ref

GroupRead(t) ==
  /\ Commanding(t, "group")
  /\ \/ /\ Group[Loc(t)] # {}
        /\ call' = [call EXCEPT ![t].at = "parse", ![t].fetched = Restrict(device, Group[Loc(t)])]
     \/ call' = [call EXCEPT ![t].at = "single", ![t].ref = FALSE, ![t].tries = 1]
  /\ UNCHANGED <<node, cache, locks, shared>>

SingleRead(t) ==
  /\ Commanding(t, "single")
  /\ call' = [call EXCEPT ![t].at = "parse", ![t].fetched = Only(Loc(t), device[Loc(t)])]
  /\ UNCHANGED <<node, cache, locks, shared>>

\* Again, if there are retries left.
SingleReadFails(t) ==
  /\ Commanding(t, "single")
  /\ IF call[t].tries < Retries
     THEN /\ call' = [call EXCEPT ![t].tries = @ + 1, ![t].ref = FALSE]
          /\ UNCHANGED cacheMutex
     ELSE Throw(t)
  /\ UNCHANGED <<node, cache, protocolMutex, shared>>

ParseRead(t) ==
  /\ At(t, "parse")
  /\ cache' = With(cache, call[t].fetched) /\ cacheMutex' = Nobody
  /\ call' = [call EXCEPT ![t] = Answered([@ EXCEPT !.todo[1].val = cache'[Loc(t)]])]
  /\ UNCHANGED <<node, protocolMutex, shared>>

-----------------------------------------------------------------------------
(* writeEeprom *)

LookupWrite(t) ==
  /\ At(t, "lookupWrite") /\ cacheMutex = Nobody
  /\ call[t].op = "apply" => protocolMutex = Nobody
  /\ LET i == Head(call[t].todo)
         same == i.loc \in DOMAIN cache \ AlwaysWritten /\ cache[i.loc] = i.val
     IN call' = [call EXCEPT ![t] = IF same THEN Answered(@) ELSE [@ EXCEPT !.at = "write"]]
  /\ UNCHANGED <<node, cache, locks, shared>>

\* The Node carries the write out, and its reply arrives.
WriteCommand(t) ==
  /\ Commanding(t, "write")
  /\ device' = [device EXCEPT ![Loc(t)] = Head(call[t].todo).val]
  /\ hasWritten' = TRUE
  /\ Goto(t, "update")
  /\ UNCHANGED <<active, packet, cache, locks, protocol, settings>>

\* The command or its reply is lost; again, if there are retries left.
WriteCommandFails(t) ==
  /\ Commanding(t, "write")
  /\ device' \in {device, [device EXCEPT ![Loc(t)] = Head(call[t].todo).val]}
  /\ IF call[t].tries < Retries
     THEN call' = [call EXCEPT ![t].tries = @ + 1, ![t].ref = FALSE]
     ELSE call' = [call EXCEPT ![t] = Thrown(t)]
  /\ UNCHANGED <<active, packet, cache, locks, shared>>

UpdateCache(t) ==
  /\ At(t, "update") /\ cacheMutex = Nobody
  /\ cache' = With(cache, Only(Loc(t), Head(call[t].todo).val))
  /\ call' = [call EXCEPT ![t] = Answered(@)]
  /\ UNCHANGED <<node, locks, shared>>

\* Mutant of ClearCacheLocation: the cache keeps the value from before the write.
ClearNothing(t) ==
  /\ At(t, "clear") /\ cacheMutex = Nobody
  /\ Goto(t, "failed")
  /\ UNCHANGED <<node, cache, locks, shared>>

ClearCacheLocation(t) ==
  /\ At(t, "clear") /\ cacheMutex = Nobody
  /\ cache' = Without(cache, Loc(t))
  /\ Goto(t, "failed")
  /\ UNCHANGED <<node, locks, shared>>

-----------------------------------------------------------------------------
(* applyConfig, cyclePower and resetRadio, other commands, the cache as a whole *)

Written(t) ==
  /\ At(t, "written") /\ protocolMutex = Nobody
  /\ Goto(t, IF hasWritten THEN "reset" ELSE "answered")
  /\ UNCHANGED <<node, cache, locks, shared>>

\* applyEepromChanges tries four times.  The reset may be carried out and not
\* confirmed, and node_hardReset does not ask for a confirmation.
ResetNode(t) ==
  /\ Commanding(t, "reset")
  /\ active' \in {active, Restrict(device, Configured)}
  /\ \E confirmed \in BOOLEAN :
       IF confirmed \/ call[t].tries = 3
       THEN /\ "reset" \in Rules => active' = Restrict(device, Configured)
            /\ call' = [call EXCEPT ![t] = [@ EXCEPT !.at = "answered", !.ref = FALSE, !.tries = 0]]
       ELSE call' = [call EXCEPT ![t].tries = @ + 1, ![t].ref = FALSE]
  /\ UNCHANGED <<device, packet, cache, locks, shared>>

PingDone(t) ==
  /\ Commanding(t, "ping")
  /\ call' = [call EXCEPT ![t].at = "answered", ![t].ref = FALSE]
  /\ UNCHANGED <<node, cache, locks, shared>>

\* The port fails in the middle of a command; a write may have been carried out.
PortFails(t) ==
  /\ "port" \notin Rules
  /\ call[t].at \in Commands /\ call[t].ref
  /\ device' \in {device} \cup (IF At(t, "write") THEN {[device EXCEPT ![Loc(t)] = Head(call[t].todo).val]} ELSE {})
  /\ Throw(t)
  /\ UNCHANGED <<active, packet, cache, protocolMutex, shared>>

ClearCache(t) ==
  /\ At(t, "forget") /\ cacheMutex = Nobody
  /\ cache' = <<>> /\ protocol' = "none" /\ protocolMutex' = Nobody
  /\ Goto(t, "answered")
  /\ UNCHANGED <<node, cacheMutex, settings, hasWritten>>

ImportCache(t) ==
  /\ At(t, "import") /\ cacheMutex = Nobody
  /\ cache' = With(cache, packet)
  /\ Goto(t, "forgetProtocol")
  /\ UNCHANGED <<node, locks, shared>>

ForgetProtocol(t) ==
  /\ At(t, "forgetProtocol") /\ protocolMutex = Nobody
  /\ protocol' = "none"
  /\ Goto(t, "answered")
  /\ UNCHANGED <<node, cache, locks, settings, hasWritten>>

\* The Node counts, logs or tests itself, and it announces itself.
NodeActs ==
  /\ \/ \E l \in Volatile, v \in Values : device' = [device EXCEPT ![l] = v] /\ UNCHANGED packet
     \/ packet' = [l \in Discovered |-> device[l]] /\ UNCHANGED device
  /\ UNCHANGED <<active, cache, locks, shared, call>>

-----------------------------------------------------------------------------
Calls(t) ==
  \/ \E l \in Locations : ReadEeprom(t, l)
  \/ \E l \in Plain, v \in Values : WriteEeprom(t, l, v)
  \/ ApplyConfig(t) \/ Ping(t) \/ ClearEepromCache(t) \/ UpdateEepromCacheFromNodeDiscovery(t)

ProtocolStep(t) ==
  GetProtocol(t) \/ VersionRead(t) \/ OlderProtocol(t) \/ NotDetermined(t) \/ PortFailsDetermining(t)

ReadStep(t) ==
  Lookup(t) \/ LockCache(t) \/ GroupRead(t) \/ SingleRead(t) \/ SingleReadFails(t) \/ ParseRead(t)

WriteStep(t) ==
  LookupWrite(t) \/ WriteCommand(t) \/ WriteCommandFails(t) \/ UpdateCache(t) \/ ClearCacheLocation(t)

OtherStep(t) ==
  \/ Written(t) \/ ResetNode(t) \/ PingDone(t) \/ PortFails(t)
  \/ ClearCache(t) \/ ImportCache(t) \/ ForgetProtocol(t) \/ Return(t)

Step(t) == ProtocolStep(t) \/ ReadStep(t) \/ WriteStep(t) \/ OtherStep(t)

Next == NodeActs \/ \E t \in Threads : Calls(t) \/ Step(t)

Spec == Init /\ [][Next]_vars

-----------------------------------------------------------------------------
(* Properties *)

TypeOK ==
  /\ device \in [Locations -> Values] /\ active \in [Configured -> Values]
  /\ DOMAIN cache \subseteq Locations /\ \A l \in DOMAIN cache : cache[l] \in Values
  /\ cacheMutex \in Threads \cup {Nobody} /\ protocolMutex \in Threads \cup {Nobody}
  /\ protocol \in {"none", "assumed", "determined"} /\ settings \in {"own", "temporary"}
  /\ \A t \in Threads : call[t].tries \in 0 .. NumRetries + 3

Writing(l) == \E t \in Threads : call[t].op \in {"write", "apply"} /\ call[t].todo # <<>> /\ Loc(t) = l

\* A location the cache answers for has the value the cache says, unless it is
\* being written: whatever reads, retries, lost replies and page downloads of
\* other threads do meanwhile, no stale value stays behind.
CacheIsDevice ==
  \A l \in DOMAIN cache \ Volatile : cache[l] = device[l] \/ Writing(l)

\* The protocol that is tried is not taken for the protocol of the Node, and its
\* retries and page downloads come back: "set back the original eeprom settings"
\* (WirelessNode_Impl.cpp:79).
SettingsAreRestored ==
  protocolMutex = Nobody => protocol # "assumed" /\ settings = "own"

\* A protocol is not destroyed while a thread uses it for a command.
ReferenceIsValid == \A t \in Threads : call[t].ref => protocol # "none"

\* "if the apply succeeded, we need to cycle the power for some eeproms to
\* actually take the changes" (WirelessNode_Impl.cpp:368): when applyConfig has
\* returned the Node acts on the configuration.
AppliedIsActive ==
  [][\A t \in Threads : call[t].op = "apply" /\ ~At(t, "answered") /\ call'[t].at = "answered"
       => \A i \in DOMAIN Config : active'[Config[i].loc] = Config[i].val]_vars

\* A thread that waits for a mutex another one holds.
Waits(t) ==
  \/ /\ \/ call[t].at \in {"lookup", "lock", "lookupWrite", "update", "clear", "forget", "import"}
        \/ call[t].stage # "none"
     /\ ~FreeFor(cacheMutex, t)
  \/ /\ call[t].at \in Commands \cup {"written", "forgetProtocol"} /\ ~call[t].ref
     /\ ~FreeFor(protocolMutex, t)

\* Not all the threads that are in a call wait for each other.
NoDeadlock == Idle \/ \E t \in Threads : ~At(t, "idle") /\ ~Waits(t)

\* What a location is for its readers: what the cache answers or, if it has no
\* answer, what the read that is going to give it one has fetched.
Fetching(l) == {t \in Threads : At(t, "parse") /\ l \in DOMAIN call[t].fetched}
Visible(l) ==
  IF l \in Volatile THEN device[l]
  ELSE IF l \in DOMAIN cache THEN cache[l]
  ELSE IF Fetching(l) # {} THEN call[CHOOSE t \in Fetching(l) : TRUE].fetched[l]
  ELSE device[l]

InProgress(t) ==
  IF call[t].op \in {"write", "apply"} /\ call[t].at \notin {"written", "reset", "answered"}
     /\ call[t].todo # <<>>
  THEN [loc |-> Loc(t), val |-> Head(call[t].todo).val,
        state |-> IF At(t, "failed") THEN "threw" ELSE "runs"]
  ELSE Nobody

\* A volatile location has been read when it has been fetched.
Answer(t) ==
  IF call[t].op = "read" /\ At(t, "answered") THEN Head(call[t].todo)
  ELSE IF call[t].op = "read" /\ At(t, "parse") /\ Loc(t) \in Volatile
       THEN [loc |-> Loc(t), val |-> call[t].fetched[Loc(t)]]
  ELSE Nobody

Register == INSTANCE EepromRegister WITH
  Nothing <- Nobody,
  value <- [l \in Locations |-> Visible(l)],
  writing <- [t \in Threads |-> InProgress(t)],
  answer <- [t \in Threads |-> Answer(t)]

\* The cache and its retries cannot be told from one register for each location.
ImplementsRegister == Register!Spec
=============================================================================
